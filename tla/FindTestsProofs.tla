--------------------------- MODULE FindTestsProofs ---------------------------
(***************************************************************************)
(* Proofs about FindTests, for any tree and any order in which readdir()    *)
(* returns the entries.                                                     *)
(***************************************************************************)
EXTENDS FindTests, FiniteSetTheorems, SequenceTheorems, TLAPS

-----------------------------------------------------------------------------
(* The inductive invariant *)

Distinct(s) == \A i, j \in DOMAIN s : s[i] = s[j] => i = j

\* strcmp() tells paths apart.
Ranked == \A m, n \in Nodes \ {Root} : rank[m] = rank[n] => m = n

\* The queue starts with the path searched and goes on with directories; those done
\* with could be opened.  No directory and no test is entered twice.
Queued ==
  /\ Len(dirs) > 0 /\ dirs[1] = Root
  /\ \A i \in 2..Len(dirs) : dirs[i] # Root /\ kind[dirs[i]] \in {"dir", "locked"}
  /\ \A i \in 1..Len(dirs) : i < d => kind[dirs[i]] = "dir"
  /\ Distinct(dirs) /\ Distinct(tests)
  /\ \A i \in 1..Len(tests) : tests[i] # Root /\ is_test(tests[i])

\* readdir() has returned n while its directory was read.
Returned(n) ==
  \E i \in 1..Len(dirs) :
    /\ parent[n] = dirs[i]
    /\ i < d \/ (i = d /\ pc = "read" /\ n \notin entries)

\* All that is in the queue or among the tests was returned by readdir() ...
Known ==
  /\ \A n \in ToSet(dirs) \ {Root} : Returned(n)
  /\ \A n \in ToSet(tests) : Returned(n)

\* ... and all that was returned and is a directory or a test is there.
Complete ==
  \A n \in Nodes \ {Root} : Returned(n) =>
    /\ kind[n] \in {"dir", "locked"} => n \in ToSet(dirs)
    /\ is_test(n) => n \in ToSet(tests)

\* Every directory in the queue is to be looked at.
Sought == ToSet(dirs) \subseteq Reached

\* Where the search is.
Placed ==
  /\ pc = "read" => d <= Len(dirs) /\ kind[dirs[d]] = "dir" /\ entries \subseteq Children(dirs[d])
  /\ pc = "none" => d <= Len(dirs) /\ kind[dirs[d]] # "dir"
  /\ pc \in {"sort", "found"} => d > Len(dirs)

IInv == TypeOK /\ Ranked /\ Queued /\ Known /\ Complete /\ Sought /\ Placed /\ InOrderOfName

-----------------------------------------------------------------------------
(* Lemmas about the operators *)

\* What appending does to an array.
LEMMA Appended ==
  ASSUME NEW S, NEW s \in Seq(S), NEW e \in S
  PROVE  LET r == Append(s, e)
         IN  /\ r \in Seq(S) /\ Len(r) = Len(s) + 1 /\ r[Len(s) + 1] = e
             /\ \A i \in 1..Len(s) : r[i] = s[i]
             /\ ToSet(r) = ToSet(s) \cup {e}
             /\ Distinct(s) /\ e \notin ToSet(s) => Distinct(r)
<1> DEFINE r == Append(s, e)
<1>1. /\ r \in Seq(S) /\ Len(r) = Len(s) + 1 /\ r[Len(s) + 1] = e /\ Len(s) \in Nat
      /\ \A i \in 1..Len(s) : r[i] = s[i]
      /\ DOMAIN r = 1..Len(s) + 1 /\ DOMAIN s = 1..Len(s)
  OBVIOUS
<1> HIDE DEF r
<1>2. ToSet(r) = ToSet(s) \cup {e}
  BY <1>1 DEF ToSet
<1>3. Distinct(s) /\ e \notin ToSet(s) => Distinct(r)
  <2> SUFFICES ASSUME Distinct(s), e \notin ToSet(s), NEW i \in DOMAIN r, NEW j \in DOMAIN r, r[i] = r[j]
               PROVE  i = j
    BY DEF Distinct
  <2>1. \A k \in 1..Len(s) : r[k] # e
    BY <1>1 DEF ToSet
  <2>2. CASE i \in 1..Len(s) /\ j \in 1..Len(s)
    BY <1>1, <2>2 DEF Distinct
  <2>3. CASE i = Len(s) + 1 \/ j = Len(s) + 1
    BY <1>1, <2>1, <2>3
  <2> QED
    BY <1>1, <2>2, <2>3
<1> QED
  BY <1>1, <1>2, <1>3 DEF r

\* qsort() keeps what is in the array, and how often.
LEMMA SortedFacts ==
  ASSUME NEW S, NEW s \in Seq(S), NEW r \in Sorted(s)
  PROVE  /\ r \in Seq(S) /\ Len(r) = Len(s) /\ ToSet(r) = ToSet(s)
         /\ Distinct(s) => Distinct(r)
         /\ \A i, j \in 1..Len(r) : i < j => ~qsort_testcmp(r[j], r[i])
<1> DEFINE D == 1..Len(s)
<1>0. DOMAIN s = D /\ Len(s) \in Nat
  OBVIOUS
<1>1. PICK p \in Bijection(D, D) : r = [i \in D |-> s[p[i]]]
  BY <1>0 DEF Sorted
<1>2. /\ p \in [D -> D] /\ \A i, j \in D : p[i] = p[j] => i = j
      /\ \A k \in D : \E i \in D : p[i] = k
  BY DEF Bijection, Injection, Surjection, IsInjective
<1>3. r \in Seq(S) /\ Len(r) = Len(s) /\ DOMAIN r = D
  BY <1>0, <1>1, <1>2
<1>4. \A i \in D : p[i] \in D /\ r[i] = s[p[i]]
  BY <1>1, <1>2
<1> HIDE DEF D
<1>5. ToSet(r) = ToSet(s)
  <2>1. ASSUME NEW k \in D PROVE s[k] \in ToSet(r)
    <3>1. PICK i \in D : p[i] = k
      BY <1>2
    <3> QED
      BY <1>3, <1>4, <3>1 DEF ToSet
  <2>2. ASSUME NEW i \in D PROVE r[i] \in ToSet(s)
    BY <1>0, <1>4 DEF ToSet
  <2>3. ToSet(s) \subseteq ToSet(r)
    BY <1>0, <2>1 DEF ToSet
  <2>4. ToSet(r) \subseteq ToSet(s)
    BY <1>3, <2>2 DEF ToSet
  <2> QED
    BY <2>3, <2>4
<1>6. Distinct(s) => Distinct(r)
  <2> SUFFICES ASSUME Distinct(s), NEW i \in D, NEW j \in D, r[i] = r[j] PROVE i = j
    BY <1>3 DEF Distinct
  <2>1. p[i] = p[j]
    BY <1>0, <1>4 DEF Distinct
  <2> QED
    BY <1>2, <2>1
<1>7. \A i, j \in D : i < j => ~qsort_testcmp(r[j], r[i])
  BY <1>0 DEF Sorted
<1> QED
  BY <1>3, <1>5, <1>6, <1>7 DEF D

\* The elements of an array without duplicates are as many as it is long.
LEMMA CountDistinct ==
  ASSUME NEW S, NEW s \in Seq(S), Distinct(s)
  PROVE  Cardinality(ToSet(s)) = Len(s)
<1>1. s \in Bijection(1..Len(s), ToSet(s))
  <2>1. s \in [1..Len(s) -> ToSet(s)] /\ \A i, j \in 1..Len(s) : s[i] = s[j] => i = j
    BY DEF ToSet, Distinct
  <2>2. \A e \in ToSet(s) : \E i \in 1..Len(s) : s[i] = e
    BY DEF ToSet
  <2> QED
    BY <2>1, <2>2 DEF Bijection, Injection, Surjection, IsInjective
<1>2. ExistsBijection(1..Len(s), ToSet(s))
  BY <1>1 DEF ExistsBijection
<1> QED
  BY <1>2, FS_CountingElements

\* What is to be seen in a directory that is to be looked at, is itself.
LEMMA SeenInReached ==
  ASSUME NEW n \in Reached, kind[n] = "dir", NEW m \in Visible(n)
  PROVE  m \in Reached
  BY DEF Reached, Closed, Visible, Children

-----------------------------------------------------------------------------
(* The invariant is inductive *)

\* A step that reads no directory does not change what was returned.
LEMMA SameReturned ==
  ASSUME dirs' = dirs, fs' = fs, \A n \in Nodes \ {Root} : Returned(n)' = Returned(n),
         tests' = tests \/ ToSet(tests') = ToSet(tests), IInv
  PROVE  Known' /\ Complete' /\ Sought'
<1>1. ToSet(tests)' = ToSet(tests) /\ ToSet(dirs)' = ToSet(dirs)
  OBVIOUS
<1>2. ToSet(dirs) \subseteq Nodes /\ ToSet(tests) \subseteq Nodes \ {Root}
  <2>1. ToSet(dirs) \subseteq Nodes
    BY DEF IInv, TypeOK, ToSet
  <2>2. ToSet(tests) \subseteq Nodes
    BY DEF IInv, TypeOK, ToSet
  <2>3. Root \notin ToSet(tests)
    BY DEF IInv, TypeOK, Queued, ToSet
  <2> QED
    BY <2>1, <2>2, <2>3
<1>3. kind' = kind /\ parent' = parent
  BY DEF fs
<1>4. Known' /\ Complete'
  BY <1>1, <1>2, <1>3 DEF IInv, Known, Complete, is_test
<1>5. Sought'
  BY <1>1, <1>3 DEF IInv, Sought, Reached, Closed, Visible, Children
<1> QED
  BY <1>4, <1>5

\* opendir(): nothing of the directory was returned before.
LEMMA OpenDirStep ==
  ASSUME IInv, OpenDir
  PROVE  IInv'
<1>1. /\ pc = "open" /\ d \in 1..Len(dirs) /\ dirs' = dirs /\ d' = d /\ tests' = tests
      /\ fs' = fs /\ kind' = kind /\ parent' = parent /\ rank' = rank
      /\ \/ kind[dirs[d]] = "dir" /\ pc' = "read" /\ entries' = Children(dirs[d])
         \/ kind[dirs[d]] # "dir" /\ pc' = "none" /\ entries' = entries
  BY DEF OpenDir, fs, IInv, TypeOK
<1>2. TypeOK' /\ Ranked' /\ Queued' /\ InOrderOfName'
  <2>1. TypeOK'
    BY <1>1 DEF IInv, TypeOK, Children
  <2> QED
    BY <1>1, <2>1 DEF IInv, Ranked, Queued, is_test, InOrderOfName
<1>3. \A n \in Nodes \ {Root} : Returned(n)' = Returned(n)
  BY <1>1 DEF Returned, Children, IInv, TypeOK
<1>4. Known' /\ Complete' /\ Sought'
  BY <1>1, <1>3, SameReturned
<1>5. Placed'
  BY <1>1 DEF Placed, Children
<1> QED
  BY <1>2, <1>4, <1>5 DEF IInv

\* readdir(): a new entry goes where it belongs.
LEMMA ReadEntryStep ==
  ASSUME IInv, ReadEntry
  PROVE  IInv'
<1>1. PICK n \in entries :
        /\ entries' = entries \ {n}
        /\ dirs'  = IF kind[n] \in {"dir", "locked"} THEN Append(dirs, n) ELSE dirs
        /\ tests' = IF is_test(n) THEN Append(tests, n) ELSE tests
  BY DEF ReadEntry
<1>2. /\ pc = "read" /\ pc' = "read" /\ d' = d
      /\ kind' = kind /\ parent' = parent /\ rank' = rank
  BY DEF ReadEntry, fs
<1>3. /\ d \in 1..Len(dirs) /\ kind[dirs[d]] = "dir"
      /\ n \in Nodes \ {Root} /\ parent[n] = dirs[d]
      /\ dirs \in Seq(Nodes) /\ tests \in Seq(Nodes) /\ Len(dirs) \in Nat /\ Len(tests) \in Nat
  BY <1>2 DEF IInv, TypeOK, Placed, Children
<1>4. ~Returned(n)
  BY <1>2, <1>3 DEF IInv, Returned, Queued, Distinct
<1>5. n \notin ToSet(dirs) /\ n \notin ToSet(tests)
  BY <1>3, <1>4 DEF IInv, Known
<1>6. /\ dirs' \in Seq(Nodes) /\ Len(dirs') \in Nat /\ Len(dirs') >= Len(dirs)
      /\ \A i \in 1..Len(dirs) : dirs'[i] = dirs[i]
      /\ \A i \in 1..Len(dirs') : i \in 1..Len(dirs) \/ (dirs'[i] = n /\ kind[n] \in {"dir", "locked"})
      /\ ToSet(dirs') = ToSet(dirs) \cup (IF kind[n] \in {"dir", "locked"} THEN {n} ELSE {})
      /\ Distinct(dirs')
  <2>0. Distinct(dirs)
    BY DEF IInv, Queued
  <2>1. CASE kind[n] \in {"dir", "locked"}
    <3>1. dirs' = Append(dirs, n)
      BY <1>1, <2>1
    <3>2. /\ dirs' \in Seq(Nodes) /\ Len(dirs') = Len(dirs) + 1 /\ dirs'[Len(dirs) + 1] = n
          /\ \A i \in 1..Len(dirs) : dirs'[i] = dirs[i]
          /\ ToSet(dirs') = ToSet(dirs) \cup {n}
          /\ Distinct(dirs')
      BY <1>3, <1>5, <2>0, <3>1, Appended
    <3> QED
      BY <1>3, <2>1, <3>2
  <2>2. CASE kind[n] \notin {"dir", "locked"}
    BY <1>1, <1>3, <2>0, <2>2
  <2> QED
    BY <2>1, <2>2
<1>7. /\ tests' \in Seq(Nodes) /\ Len(tests') \in Nat
      /\ \A i \in 1..Len(tests') : (i \in 1..Len(tests) /\ tests'[i] = tests[i]) \/ (tests'[i] = n /\ is_test(n))
      /\ ToSet(tests') = ToSet(tests) \cup (IF is_test(n) THEN {n} ELSE {})
      /\ Distinct(tests')
  <2>0. Distinct(tests)
    BY DEF IInv, Queued
  <2>1. CASE is_test(n)
    BY <1>1, <1>3, <1>5, <2>0, <2>1, Appended
  <2>2. CASE ~is_test(n)
    BY <1>1, <1>3, <2>0, <2>2
  <2> QED
    BY <2>1, <2>2
<1>8. TypeOK' /\ Ranked' /\ InOrderOfName'
  <2>1. entries' \subseteq Nodes
    BY <1>1 DEF IInv, TypeOK
  <2>2. d \in 1..Len(dirs') + 1
    BY <1>3, <1>6
  <2>3. TypeOK'
    BY <1>2, <1>6, <1>7, <2>1, <2>2 DEF IInv, TypeOK
  <2> QED
    BY <1>2, <2>3 DEF IInv, Ranked, InOrderOfName
<1>9. Queued'
  <2>1. Len(dirs') > 0 /\ dirs'[1] = Root
    BY <1>3, <1>6 DEF IInv, Queued
  <2>2. \A i \in 2..Len(dirs') : dirs'[i] # Root /\ kind[dirs'[i]] \in {"dir", "locked"}
    BY <1>3, <1>6 DEF IInv, Queued
  <2>3. \A i \in 1..Len(dirs') : i < d => kind[dirs'[i]] = "dir"
    BY <1>3, <1>6 DEF IInv, Queued
  <2>4. \A i \in 1..Len(tests') : tests'[i] # Root /\ is_test(tests'[i])
    BY <1>3, <1>7 DEF IInv, Queued
  <2> QED
    BY <1>2, <1>6, <1>7, <2>1, <2>2, <2>3, <2>4 DEF Queued, is_test
<1>10. ASSUME NEW m PROVE Returned(m) \/ m = n => Returned(m)'
  BY <1>1, <1>2, <1>3, <1>6 DEF Returned
<1>11. ASSUME NEW m \in Nodes \ {Root}, Returned(m)' PROVE Returned(m) \/ m = n
  BY <1>1, <1>2, <1>3, <1>6, <1>11 DEF Returned
<1>12. Known'
  BY <1>6, <1>7, <1>10 DEF IInv, Known
<1>13. Complete'
  BY <1>2, <1>6, <1>7, <1>11 DEF IInv, Complete, is_test
<1>14. Placed'
  BY <1>1, <1>2, <1>3, <1>6 DEF IInv, Placed, Children
<1>15. Sought'
  <2>1. Reached' = Reached
    BY <1>2 DEF Reached, Closed, Visible, Children
  <2>2. kind[n] \in {"dir", "locked"} => n \in Reached
    <3>1. dirs[d] \in Reached
      BY <1>3 DEF IInv, Sought, ToSet
    <3> QED
      BY <1>3, <3>1, SeenInReached DEF Visible, Children
  <2> QED
    BY <1>6, <2>1, <2>2 DEF IInv, Sought
<1> QED
  BY <1>8, <1>9, <1>12, <1>13, <1>14, <1>15 DEF IInv

\* All entries were returned, and the index goes on to the next directory.
LEMMA CloseDirStep ==
  ASSUME IInv, CloseDir
  PROVE  IInv'
<1>1. /\ pc = "read" /\ entries = {} /\ pc' = "open" /\ d' = d + 1
      /\ d \in 1..Len(dirs) /\ kind[dirs[d]] = "dir"
      /\ dirs' = dirs /\ tests' = tests /\ entries' = entries
      /\ fs' = fs /\ kind' = kind /\ parent' = parent /\ rank' = rank
  BY DEF CloseDir, fs, IInv, TypeOK, Placed
<1>2. TypeOK' /\ Ranked' /\ Queued' /\ InOrderOfName' /\ Placed'
  <2>1. TypeOK'
    BY <1>1 DEF IInv, TypeOK
  <2>2. \A i \in 1..Len(dirs) : i < d + 1 => kind[dirs[i]] = "dir"
    BY <1>1 DEF IInv, TypeOK, Queued
  <2> QED
    BY <1>1, <2>1, <2>2 DEF IInv, Ranked, Queued, is_test, InOrderOfName, Placed
<1>3. \A n \in Nodes \ {Root} : Returned(n)' = Returned(n)
  BY <1>1 DEF Returned, IInv, TypeOK
<1>4. Known' /\ Complete' /\ Sought'
  BY <1>1, <1>3, SameReturned
<1> QED
  BY <1>2, <1>4 DEF IInv

\* The queue is through: every directory in it was read.
LEMMA EndSearchStep ==
  ASSUME IInv, EndSearch
  PROVE  IInv'
<1>1. /\ pc = "open" /\ pc' = "sort" /\ d > Len(dirs)
      /\ d' = d /\ dirs' = dirs /\ tests' = tests /\ entries' = entries
      /\ fs' = fs /\ kind' = kind /\ parent' = parent /\ rank' = rank
  BY DEF EndSearch, fs
<1>2. TypeOK' /\ Ranked' /\ Queued' /\ InOrderOfName' /\ Placed'
  <2>1. TypeOK'
    BY <1>1 DEF IInv, TypeOK
  <2> QED
    BY <1>1, <2>1 DEF IInv, Ranked, Queued, is_test, InOrderOfName, Placed
<1>3. \A n \in Nodes \ {Root} : Returned(n)' = Returned(n)
  BY <1>1 DEF Returned
<1>4. Known' /\ Complete' /\ Sought'
  BY <1>1, <1>3, SameReturned
<1> QED
  BY <1>2, <1>4 DEF IInv

\* qsort(): no two paths compare equal, so that the order is strict.
LEMMA SortTestsStep ==
  ASSUME IInv, SortTests
  PROVE  IInv'
<1>1. /\ pc = "sort" /\ pc' = "found" /\ tests' \in Sorted(tests)
      /\ d' = d /\ dirs' = dirs /\ entries' = entries
      /\ fs' = fs /\ kind' = kind /\ parent' = parent /\ rank' = rank
  BY DEF SortTests, fs
<1>2. /\ tests \in Seq(Nodes) /\ Distinct(tests)
      /\ \A n \in ToSet(tests) : n \in Nodes \ {Root} /\ is_test(n)
  BY DEF IInv, TypeOK, Queued, ToSet
<1>3. /\ tests' \in Seq(Nodes) /\ Len(tests') = Len(tests) /\ ToSet(tests') = ToSet(tests)
      /\ Distinct(tests')
      /\ \A i, j \in 1..Len(tests') : i < j => ~qsort_testcmp(tests'[j], tests'[i])
  BY <1>1, <1>2, SortedFacts
<1>4. \A i \in 1..Len(tests') : tests'[i] \in Nodes \ {Root} /\ is_test(tests'[i])
  <2>1. \A i \in 1..Len(tests') : tests'[i] \in ToSet(tests')
    BY <1>3 DEF ToSet
  <2> QED
    BY <1>2, <1>3, <2>1
<1>5. TypeOK' /\ Ranked' /\ Queued' /\ Placed'
  <2>1. TypeOK'
    BY <1>1, <1>3 DEF IInv, TypeOK
  <2>2. Queued'
    BY <1>1, <1>3, <1>4 DEF IInv, Queued, is_test
  <2> QED
    BY <1>1, <2>1, <2>2 DEF IInv, Ranked, Placed
<1>6. InOrderOfName'
  <2> SUFFICES ASSUME NEW i \in 1..Len(tests'), NEW j \in 1..Len(tests'), i < j
               PROVE  rank[tests'[i]] < rank[tests'[j]]
    BY <1>1 DEF InOrderOfName
  <2>1. tests'[i] # tests'[j]
    BY <1>3 DEF Distinct
  <2>2. /\ rank[tests'[i]] # rank[tests'[j]]
        /\ rank[tests'[i]] \in 1..K /\ rank[tests'[j]] \in 1..K
    BY <1>4, <2>1 DEF IInv, Ranked, TypeOK
  <2>3. ~(rank[tests'[j]] < rank[tests'[i]])
    BY <1>3 DEF qsort_testcmp
  <2> QED
    BY <2>2, <2>3, SearchAssumption
<1>7. \A n \in Nodes \ {Root} : Returned(n)' = Returned(n)
  BY <1>1 DEF Returned
<1>8. Known' /\ Complete' /\ Sought'
  BY <1>1, <1>3, <1>7, SameReturned
<1> QED
  BY <1>5, <1>6, <1>8 DEF IInv

\* The search starts with the path itself, and nothing returned.
LEMMA Initial == Init => IInv
<1> SUFFICES ASSUME Init PROVE IInv
  OBVIOUS
<1>1. /\ pc = "open" /\ dirs = <<Root>> /\ d = 1 /\ entries = {} /\ tests = << >>
      /\ kind \in [Nodes -> Kinds] /\ parent \in [Nodes \ {Root} -> Nodes]
      /\ rank \in [Nodes \ {Root} -> 1..K] /\ Ranked
  BY DEF Init, Ranked
<1>2. Root \in Nodes /\ Len(dirs) = 1 /\ dirs[1] = Root /\ DOMAIN dirs = {1} /\ dirs \in Seq(Nodes)
  BY <1>1, SearchAssumption DEF Root, Nodes
<1>3. ToSet(dirs) = {Root} /\ ToSet(tests) = {} /\ tests \in Seq(Nodes) /\ Len(tests) = 0
      /\ DOMAIN tests = {}
  BY <1>1, <1>2 DEF ToSet
<1>4. TypeOK
  BY <1>1, <1>2, <1>3 DEF TypeOK
<1>5. Queued
  BY <1>1, <1>2, <1>3 DEF Queued, Distinct
<1>6. \A n : ~Returned(n)
  BY <1>1, <1>2 DEF Returned
<1>7. Sought
  BY <1>2, <1>3 DEF Sought, Reached, Closed
<1> QED
  BY <1>1, <1>3, <1>4, <1>5, <1>6, <1>7 DEF IInv, Known, Complete, Placed, InOrderOfName

\* Every step of the search keeps the invariant.
LEMMA Inductive == IInv /\ [Next]_vars => IInv'
<1> SUFFICES ASSUME IInv, [Next]_vars PROVE IInv'
  OBVIOUS
<1>1. CASE OpenDir
  BY <1>1, OpenDirStep
<1>2. CASE ReadEntry
  BY <1>2, ReadEntryStep
<1>3. CASE CloseDir
  BY <1>3, CloseDirStep
<1>4. CASE EndSearch
  BY <1>4, EndSearchStep
<1>5. CASE SortTests
  BY <1>5, SortTestsStep
<1>6. CASE UNCHANGED vars
  <2>1. /\ pc' = pc /\ dirs' = dirs /\ d' = d /\ entries' = entries /\ tests' = tests
        /\ fs' = fs /\ kind' = kind /\ parent' = parent /\ rank' = rank
    BY <1>6 DEF vars, fs
  <2>2. TypeOK' /\ Ranked' /\ Queued' /\ InOrderOfName' /\ Placed'
    BY <2>1 DEF IInv, TypeOK, Ranked, Queued, is_test, InOrderOfName, Placed, Children
  <2>3. \A n \in Nodes \ {Root} : Returned(n)' = Returned(n)
    BY <2>1 DEF Returned
  <2> QED
    BY <2>1, <2>2, <2>3, SameReturned DEF IInv
<1> QED
  BY <1>1, <1>2, <1>3, <1>4, <1>5, <1>6 DEF Next, Done

-----------------------------------------------------------------------------
(* What the search has looked at is what is to be looked at *)

\* When the queue is through, nothing that is to be looked at is missing.
LEMMA AllReached ==
  ASSUME IInv, pc \in {"sort", "found"}, NEW n \in Reached
  PROVE  \/ n \in ToSet(dirs)
         \/ n # Root /\ Returned(n) /\ kind[n] \notin {"dir", "locked"}
<1> DEFINE S == ToSet(dirs) \cup {m \in Nodes \ {Root} : Returned(m)}
<1>1. \A i \in 1..Len(dirs) : i < d
  BY DEF IInv, Placed, TypeOK
<1>2. S \in SUBSET Nodes /\ Root \in S
  BY DEF IInv, TypeOK, Queued, ToSet
<1>3. ASSUME NEW m \in S, kind[m] = "dir" PROVE Visible(m) \subseteq S
  <2>1. m \in ToSet(dirs)
    BY <1>2, <1>3 DEF IInv, Complete
  <2>2. PICK i \in 1..Len(dirs) : m = dirs[i]
    BY <2>1 DEF IInv, TypeOK, ToSet
  <2> QED
    BY <1>1, <2>2 DEF Visible, Children, Returned
<1>4. n \in S
  BY <1>2, <1>3 DEF Reached, Closed
<1> QED
  BY <1>4 DEF IInv, Complete

\* The tests of the array are those to be found.
LEMMA TestsReached ==
  ASSUME IInv, pc \in {"sort", "found"}
  PROVE  ToSet(tests) = ReachedTests
<1>1. \A i \in 1..Len(dirs) : kind[dirs[i]] = "dir" /\ dirs[i] \in Reached
  BY DEF IInv, Placed, TypeOK, Queued, Sought, ToSet
<1>2. ASSUME NEW n \in ToSet(tests) PROVE n \in ReachedTests
  <2>1. n \in Nodes \ {Root} /\ is_test(n) /\ Returned(n)
    BY DEF IInv, TypeOK, Queued, Known, ToSet
  <2>2. PICK i \in 1..Len(dirs) : parent[n] = dirs[i]
    BY <2>1 DEF Returned
  <2>3. n \in Visible(dirs[i])
    BY <2>1, <2>2 DEF Visible, Children, is_test
  <2> QED
    BY <1>1, <2>1, <2>3, SeenInReached DEF ReachedTests
<1>3. ASSUME NEW n \in ReachedTests PROVE n \in ToSet(tests)
  <2>1. n \in Reached /\ n # Root /\ is_test(n) /\ n \in Nodes
    BY DEF ReachedTests, Reached
  <2>2. n \notin ToSet(dirs)
    BY <1>1, <2>1 DEF IInv, TypeOK, ToSet, is_test
  <2>3. Returned(n)
    BY <2>1, <2>2, AllReached
  <2> QED
    BY <2>1, <2>3 DEF IInv, Complete
<1> QED
  BY <1>2, <1>3

-----------------------------------------------------------------------------
(* The theorems *)

\* The queue, the entries still to come and the tests fit together in every state of
\* find_tests().
THEOREM Invariant == Spec => []IInv
<1>1. Init => IInv
  BY Initial
<1>2. IInv /\ [Next]_vars => IInv'
  BY Inductive
<1> QED
  BY <1>1, <1>2, PTL DEF Spec

\* What find_tests() returns is every test below the path exactly once, sorted by path,
\* on any tree and in whatever order readdir() returns the entries.
THEOREM SearchRight == Spec => []SearchIsRight
<1>1. IInv => SearchIsRight
  <2> SUFFICES ASSUME IInv PROVE FindsAllTests
    BY DEF IInv, SearchIsRight
  <2> SUFFICES ASSUME pc = "found"
               PROVE  ToSet(tests) = ReachedTests /\ Len(tests) = Cardinality(ReachedTests)
    BY DEF FindsAllTests
  <2>1. ToSet(tests) = ReachedTests
    BY TestsReached
  <2>2. Cardinality(ToSet(tests)) = Len(tests)
    BY CountDistinct DEF IInv, TypeOK, Queued
  <2> QED
    BY <2>1, <2>2
<1> QED
  BY <1>1, Invariant, PTL

\* find_tests() gives up exactly when the path or a directory below it that is to be
\* searched cannot be opened.
THEOREM GivesUpRightly == Spec => []GivesUpOnlyOnFailure
<1>1. IInv => GivesUpOnlyOnFailure
  <2> SUFFICES ASSUME IInv PROVE GivesUpOnlyOnFailure
    OBVIOUS
  <2>1. ASSUME pc = "none"
        PROVE  \E n \in Reached : kind[n] # "dir" /\ (n = Root \/ kind[n] = "locked")
    <3>1. d \in 1..Len(dirs) /\ kind[dirs[d]] # "dir" /\ dirs[d] \in Reached
      BY <2>1 DEF IInv, TypeOK, Placed, Sought, ToSet
    <3>2. dirs[d] = Root \/ kind[dirs[d]] = "locked"
      BY <3>1 DEF IInv, TypeOK, Queued
    <3> QED
      BY <3>1, <3>2
  <2>2. ASSUME pc = "found"
        PROVE  kind[Root] = "dir" /\ \A n \in Reached : kind[n] # "locked"
    <3>1. \A i \in 1..Len(dirs) : kind[dirs[i]] = "dir"
      BY <2>2 DEF IInv, TypeOK, Placed, Queued
    <3>2. kind[Root] = "dir"
      BY <3>1 DEF IInv, TypeOK, Queued
    <3>3. \A n \in ToSet(dirs) : kind[n] = "dir"
      BY <3>1 DEF IInv, TypeOK, ToSet
    <3> QED
      BY <2>2, <3>2, <3>3, AllReached
  <2> QED
    BY <2>1, <2>2 DEF GivesUpOnlyOnFailure
<1> QED
  BY <1>1, Invariant, PTL
=============================================================================
