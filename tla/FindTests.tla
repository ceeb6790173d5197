------------------------------ MODULE FindTests ------------------------------
(***************************************************************************)
(* find_tests() of bin/run-tests.c: the search for tests below a path, and *)
(* what main() makes of its result.  The directories still to be read are  *)
(* a queue in the array dirs; readdir() returns their entries in any order.*)
(*                                                                         *)
(* The file system is a tree of nodes under Root, fixed while the search   *)
(* runs.  A node stands for its path; rank is the order of the paths under *)
(* strcmp().                                                               *)
(***************************************************************************)
EXTENDS Integers, Sequences, FiniteSets, SequencesExt, Functions

CONSTANT K          \* bound: number of nodes below the path searched

Root  == 0
Nodes == 0..K

\* What stat() and opendir() say of a path, and whether its name makes it a
\* test: a directory, one that cannot be opened, an executable regular file
\* whose name starts with two digits or with one, any other file, a name that
\* starts with a dot, and a path that stat() fails on.
Kinds == {"dir", "locked", "test", "onedigit", "other", "hidden", "nostat"}

ASSUME SearchAssumption == K \in Nat

VARIABLES
  kind, parent, rank,   \* the file system
  pc,
  dirs,                 \* dirs[], n_dirs being its length
  d,                    \* the directory being read
  entries,              \* what readdir() has not returned yet
  tests                 \* tests[], n_tests being its length

fs   == <<kind, parent, rank>>
vars == <<fs, pc, dirs, d, entries, tests>>

Children(n) == {m \in Nodes \ {Root} : parent[m] = n}

\* TypeOK: every variable has its type; the index into dirs is at most one past
\* its end.
TypeOK ==
  /\ kind \in [Nodes -> Kinds]
  /\ parent \in [Nodes \ {Root} -> Nodes] /\ rank \in [Nodes \ {Root} -> 1..K]
  /\ pc \in {"open", "read", "sort", "found", "none"}
  /\ dirs \in Seq(Nodes) /\ d \in 1..Len(dirs) + 1
  /\ entries \subseteq Nodes
  /\ tests \in Seq(Nodes)

\* The path on the command line is whatever the user gives; it is not looked
\* at before opendir().
Init ==
  /\ kind \in [Nodes -> Kinds] /\ kind[Root] \notin {"onedigit", "hidden"}
  /\ parent \in {p \in [Nodes \ {Root} -> Nodes] :
                   \A n \in DOMAIN p : p[n] < n}
  /\ rank \in {r \in [Nodes \ {Root} -> 1..K] :
                 \A m, n \in DOMAIN r : r[m] = r[n] => m = n}
  /\ pc = "open" /\ dirs = <<Root>> /\ d = 1
  /\ entries = {} /\ tests = << >>

\* Mutant of OpenDir: a directory that cannot be opened is passed over.
OpenDir_PassesOver ==
  /\ pc = "open" /\ d <= Len(dirs)
  /\ IF kind[dirs[d]] = "dir"
     THEN pc' = "read" /\ entries' = Children(dirs[d]) /\ UNCHANGED d
     ELSE d' = d + 1 /\ UNCHANGED <<pc, entries>>
  /\ UNCHANGED <<fs, dirs, tests>>

\* The head of the loop over dirs: opendir().  When it fails the search is
\* given up and main() reports that there are no tests.
OpenDir ==
  /\ pc = "open" /\ d <= Len(dirs)
  /\ IF kind[dirs[d]] = "dir"
     THEN pc' = "read" /\ entries' = Children(dirs[d])
     ELSE pc' = "none" /\ UNCHANGED entries
  /\ UNCHANGED <<fs, dirs, d, tests>>

is_test(n) == kind[n] = "test"

\* Mutant of ReadEntry: subdirectories are not searched.
ReadEntry_Flat ==
  /\ pc = "read"
  /\ \E n \in entries :
       /\ entries' = entries \ {n}
       /\ tests' = IF is_test(n) THEN Append(tests, n) ELSE tests
  /\ UNCHANGED <<fs, pc, dirs, d>>

\* readdir() returns an entry: directories are queued, tests are created.
ReadEntry ==
  /\ pc = "read"
  /\ \E n \in entries :
       /\ entries' = entries \ {n}
       /\ dirs'  = IF kind[n] \in {"dir", "locked"} THEN Append(dirs, n)
                   ELSE dirs
       /\ tests' = IF is_test(n) THEN Append(tests, n) ELSE tests
  /\ UNCHANGED <<fs, pc, d>>

\* Mutants of CloseDir: the index is stepped twice, or not at all.
CloseDir_StepsTwice ==
  /\ pc = "read" /\ entries = {}
  /\ d' = d + 2 /\ pc' = "open"
  /\ UNCHANGED <<fs, dirs, entries, tests>>
CloseDir_Stays ==
  /\ pc = "read" /\ entries = {}
  /\ pc' = "open"
  /\ UNCHANGED <<fs, dirs, d, entries, tests>>

\* readdir() has returned everything.
CloseDir ==
  /\ pc = "read" /\ entries = {}
  /\ d' = d + 1 /\ pc' = "open"
  /\ UNCHANGED <<fs, dirs, entries, tests>>

\* The queue is through.
EndSearch ==
  /\ pc = "open" /\ d > Len(dirs)
  /\ pc' = "sort"
  /\ UNCHANGED <<fs, dirs, d, entries, tests>>

\* Mutant of qsort_testcmp: the order the tests were created in.
qsort_testcmp_None(m, n) == FALSE

qsort_testcmp(m, n) == rank[m] < rank[n]

\* What qsort() may make of an array: its elements in another order, none of which
\* is less than one before it.
Sorted(s) ==
  {r \in {[i \in DOMAIN s |-> s[p[i]]] : p \in Bijection(DOMAIN s, DOMAIN s)} :
     \A i, j \in DOMAIN s : i < j => ~qsort_testcmp(r[j], r[i])}

\* qsort() on the paths; main() runs what it gets.
SortTests ==
  /\ pc = "sort"
  /\ tests' \in Sorted(tests)
  /\ pc' = "found"
  /\ UNCHANGED <<fs, dirs, d, entries>>

Done == pc \in {"found", "none"} /\ UNCHANGED vars

Next == OpenDir \/ ReadEntry \/ CloseDir \/ EndSearch \/ SortTests \/ Done

Spec == Init /\ [][Next]_vars /\ WF_vars(Next)

-----------------------------------------------------------------------------
\* What is looked at with a directory: its entries, hidden ones excepted.
Visible(n) == {m \in Children(n) : kind[m] \notin {"hidden", "nostat"}}

\* The nodes to be looked at: the smallest set with the path itself and what is to
\* be seen in each of its directories.
Closed(S) == Root \in S /\ \A n \in S : kind[n] = "dir" => Visible(n) \subseteq S
Reached   == {n \in Nodes : \A S \in SUBSET Nodes : Closed(S) => n \in S}

ReachedTests == {n \in Reached \ {Root} : is_test(n)}

\* FindsAllTests: what find_tests() returns is every file below the path that
\* is_test() takes for a test, in hidden directories excepted, exactly once each
\* and nothing else, however readdir() orders the entries.  (is_test() asks for
\* two digits where the documentation has a number: RunsWhatIsAsked.)
FindsAllTests ==
  pc = "found" => /\ ToSet(tests) = ReachedTests
                  /\ Len(tests) = Cardinality(ReachedTests)

\* InOrderOfName: the array run_tests() goes through is sorted by path.
InOrderOfName ==
  pc = "found" => \A i, j \in 1..Len(tests) :
                    i < j => rank[tests[i]] < rank[tests[j]]

\* GivesUpOnlyOnFailure: main() reports "No tests found" only when the path or
\* a directory that is part of the search cannot be opened, and then always.  (A
\* path that is a test is one that cannot be opened: RunsWhatIsAsked.)
GivesUpOnlyOnFailure ==
  /\ pc = "none"  => \E n \in Reached : kind[n] # "dir" /\ (n = Root \/ kind[n] = "locked")
  /\ pc = "found" => kind[Root] = "dir" /\ \A n \in Reached : kind[n] # "locked"

\* SearchEnds: find_tests() returns.
SearchEnds == <>(pc \in {"found", "none"})

\* SearchIsRight: the search keeps to its types, and what it ends with is every
\* test once, in the order of the names.
SearchIsRight == TypeOK /\ FindsAllTests /\ InOrderOfName

(* Stated by the documentation and refuted by the code. *)

\* RunsWhatIsAsked: of a path that is a directory every executable below it whose
\* name starts with a number is run, and of a path that is a test this one.
RunsWhatIsAsked ==
  /\ pc = "found" =>
       {n \in Reached \ {Root} : kind[n] \in {"test", "onedigit"}} \subseteq ToSet(tests)
  /\ kind[Root] = "test" /\ pc \in {"found", "none"} => tests = <<Root>>
=============================================================================
