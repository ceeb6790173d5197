---------------------------- MODULE TallocProofs ----------------------------
(***************************************************************************)
(* Proofs about Talloc and TallocString: arrays and strings first, then the *)
(* heap.  The heap's lists are shown to be a forest with the help of a      *)
(* parent, a place and a rank for every chunk; the calls in progress, to    *)
(* agree with the marks on the chunks; and every step, to be of one of a    *)
(* few kinds, from which follows what a call frees and what it leaves.      *)
(***************************************************************************)
EXTENDS TallocString, SequenceTheorems, FiniteSetTheorems, WellFoundedInduction,
        TLAPS

-----------------------------------------------------------------------------
(* Arrays *)

\* The comparison in _talloc_array() is enough: what it lets through is below the
\* limit, and so does not wrap.
LEMMA ArraySize ==
  ASSUME NEW el_size \in Nat \ {0}, NEW count \in Nat, count < MAX_TALLOC_SIZE \div el_size
  PROVE  /\ el_size * count < MAX_TALLOC_SIZE
         /\ (el_size * count) % SizeMax = el_size * count
<1> DEFINE q == MAX_TALLOC_SIZE \div el_size
           size == el_size * count
<1>1. q \in Nat /\ el_size * q <= MAX_TALLOC_SIZE
  BY StringAssumption
<1>2. size < el_size * q /\ size \in Nat
  <2>1. count < q
    OBVIOUS
  <2> HIDE DEF q
  <2> QED
    BY <1>1, <2>1
<1>3. size < MAX_TALLOC_SIZE
  <2> HIDE DEF size
  <2> QED
    BY <1>1, <1>2, StringAssumption
<1>4. \A k \in Nat : k < MAX_TALLOC_SIZE => k % SizeMax = k
  BY StringAssumption DEF UnsignedMax
<1> QED
  BY <1>2, <1>3, <1>4

\* Whatever the limit, the width of size_t and the arguments, talloc_array() asks for
\* exactly the bytes of the array or fails: the product is compared by division before
\* it is taken.
THEOREM ArraysDoNotWrap == TrialSpec => []NoArrayWraps
<1> DEFINE Tried == input \in Input \cup {NULL}
<1>1. TrialInit => Tried
  BY DEF TrialInit
<1>2. Tried /\ [TrialNext]_<<vars, input>> => Tried'
  BY DEF TrialNext, Input
<1>3. Tried => NoArrayWraps
  <2> SUFFICES ASSUME Tried, Trial("array"), _talloc_array(input.el_size, input.count) # NULL
               PROVE  /\ _talloc_array(input.el_size, input.count) = input.el_size * input.count
                      /\ _talloc_array(input.el_size, input.count) < MAX_TALLOC_SIZE
    BY DEF NoArrayWraps
  <2>1. input.el_size \in Nat \ {0} /\ input.count \in Nat
    BY StringAssumption DEF Trial, Input, UnsignedMax
  <2>2. ~(input.count >= MAX_TALLOC_SIZE \div input.el_size)
    BY DEF _talloc_array
  <2>3. input.count < MAX_TALLOC_SIZE \div input.el_size
    BY <2>1, <2>2, StringAssumption
  <2>4. _talloc_array(input.el_size, input.count) = (input.el_size * input.count) % SizeMax
    BY <2>2 DEF _talloc_array
  <2> QED
    BY <2>1, <2>3, <2>4, ArraySize
<1> QED
  BY <1>1, <1>2, <1>3, PTL DEF TrialSpec

-----------------------------------------------------------------------------
(* Strings *)

\* A set of numbers has a least one.
LEMMA Least ==
  ASSUME NEW T \in SUBSET Nat, T # {}
  PROVE  \E x \in T : \A y \in T : x <= y
<1>1. PICK x \in T : \A y \in T : ~(<<y, x>> \in OpToRel(<, Nat))
  BY NatLessThanWellFounded, WFMin
<1>2. \A y \in T : ~(y < x)
  <2> SUFFICES ASSUME NEW y \in T, y < x PROVE FALSE
    OBVIOUS
  <2>1. <<y, x>> \in OpToRel(<, Nat)
    BY DEF OpToRel
  <2> QED
    BY <1>1, <2>1
<1> QED
  BY <1>2

\* k is where strnlen(b, n) stops.
IsStrnlen(b, n, k) ==
  /\ k = n \/ k = Len(b) \/ b[k + 1] = NUL
  /\ k <= n
  /\ \A i \in 1..k : b[i] # NUL

\* strnlen() finds the first NUL, the end of the buffer or n, whichever is first.
LEMMA StrnlenFacts ==
  ASSUME NEW b \in Seq(Nat), NEW n \in Nat
  PROVE  strnlen(b, n) \in 0..Len(b) /\ IsStrnlen(b, n, strnlen(b, n))
<1> DEFINE T == {k \in 0..Len(b) : k = n \/ k = Len(b) \/ b[k + 1] = NUL}
<1>1. T \in SUBSET Nat /\ Len(b) \in T /\ Len(b) \in Nat
  OBVIOUS
<1>2. PICK k \in T : \A j \in T : k <= j
  BY <1>1, Least
<1>3. k \in 0..Len(b) /\ (k = n \/ k = Len(b) \/ b[k + 1] = NUL)
  OBVIOUS
<1>4. k <= n
  BY <1>1, <1>2, <1>3
<1>5. ASSUME NEW i \in 1..k, b[i] = NUL PROVE FALSE
  <2>1. i - 1 \in 0..Len(b) /\ (i - 1) + 1 = i
    BY <1>1, <1>3
  <2>2. i - 1 \in T
    BY <1>5, <2>1
  <2> HIDE DEF T
  <2>3. k <= i - 1
    BY <1>2, <2>2
  <2> QED
    BY <1>3, <2>1, <2>3
<1>6. IsStrnlen(b, n, k)
  BY <1>3, <1>4, <1>5 DEF IsStrnlen
<1> HIDE DEF T
<1>7. strnlen(b, n) = CHOOSE m \in 0..Len(b) : IsStrnlen(b, n, m)
  BY DEF strnlen, IsStrnlen
<1> QED
  BY <1>3, <1>6, <1>7

\* ... and there is only one such place.
LEMMA StrnlenIs ==
  ASSUME NEW b \in Seq(Nat), NEW n \in Nat, NEW k \in 0..Len(b), IsStrnlen(b, n, k)
  PROVE  strnlen(b, n) = k
<1> DEFINE m == strnlen(b, n)
<1>1. m \in 0..Len(b) /\ IsStrnlen(b, n, m) /\ Len(b) \in Nat
  BY StrnlenFacts
<1> HIDE DEF m
<1>2. ASSUME m < k PROVE FALSE
  <2>1. m + 1 \in 1..k /\ m # n /\ m # Len(b)
    BY <1>1, <1>2 DEF IsStrnlen
  <2> QED
    BY <1>1, <2>1 DEF IsStrnlen
<1>3. ASSUME k < m PROVE FALSE
  <2>1. k + 1 \in 1..m /\ k # n /\ k # Len(b)
    BY <1>1, <1>3 DEF IsStrnlen
  <2> QED
    BY <1>1, <2>1 DEF IsStrnlen
<1>4. m = k
  BY <1>1, <1>2, <1>3
<1> QED
  BY <1>4 DEF m

\* The first m bytes of s, the text u and a NUL.
Joined(s, m, u) == SubSeq(s, 1, m) \o u \o <<NUL>>

\* The parts of a concatenation.
LEMMA Concat ==
  ASSUME NEW s \in Seq(Nat), NEW t \in Seq(Nat)
  PROVE  /\ s \o t \in Seq(Nat) /\ Len(s \o t) = Len(s) + Len(t)
         /\ \A i \in 1..Len(s) : (s \o t)[i] = s[i]
         /\ \A i \in 1..Len(t) : (s \o t)[Len(s) + i] = t[i]
<1>1. Len(s) \in Nat /\ Len(t) \in Nat
  OBVIOUS
<1>2. /\ s \o t \in Seq(Nat) /\ Len(s \o t) = Len(s) + Len(t)
      /\ \A i \in 1..Len(s) + Len(t) : (s \o t)[i] = IF i <= Len(s) THEN s[i] ELSE t[i - Len(s)]
  BY ConcatProperties
<1>3. ASSUME NEW i \in 1..Len(t) PROVE (s \o t)[Len(s) + i] = t[i]
  <2>1. Len(s) + i \in 1..Len(s) + Len(t) /\ ~(Len(s) + i <= Len(s)) /\ Len(s) + i - Len(s) = i
    BY <1>1
  <2> QED
    BY <1>2, <2>1
<1>4. ASSUME NEW i \in 1..Len(s) PROVE (s \o t)[i] = s[i]
  <2>1. i \in 1..Len(s) + Len(t) /\ i <= Len(s)
    BY <1>1
  <2> QED
    BY <1>2, <2>1
<1> QED
  BY <1>2, <1>3, <1>4

\* What it consists of.
LEMMA JoinedFacts ==
  ASSUME NEW s \in Seq(Nat), NEW m \in 0..Len(s), NEW u \in Seq(Nat)
  PROVE  /\ Joined(s, m, u) \in Seq(Nat) /\ Len(Joined(s, m, u)) = m + Len(u) + 1
         /\ \A i \in 1..m : Joined(s, m, u)[i] = s[i]
         /\ \A i \in 1..Len(u) : Joined(s, m, u)[m + i] = u[i]
         /\ Joined(s, m, u)[m + Len(u) + 1] = NUL
<1> DEFINE t == SubSeq(s, 1, m)
<1>1. t \in Seq(Nat) /\ Len(t) = m /\ \A i \in 1..m : t[i] = s[i]
  OBVIOUS
<1>2. <<NUL>> \in Seq(Nat) /\ Len(<<NUL>>) = 1 /\ <<NUL>>[1] = NUL /\ 1 \in 1..1
  BY DEF NUL
<1>3. Joined(s, m, u) = (t \o u) \o <<NUL>>
  BY DEF Joined
<1> HIDE DEF t
<1>4. PICK v \in Seq(Nat) :
        /\ v = t \o u /\ Len(v) = m + Len(u) /\ Len(u) \in Nat
        /\ \A i \in 1..m : v[i] = t[i]
        /\ \A i \in 1..Len(u) : v[m + i] = u[i]
  <2>1. /\ t \o u \in Seq(Nat) /\ Len(t \o u) = Len(t) + Len(u)
        /\ \A i \in 1..Len(t) : (t \o u)[i] = t[i]
        /\ \A i \in 1..Len(u) : (t \o u)[Len(t) + i] = u[i]
    BY <1>1, Concat
  <2>2. Len(u) \in Nat /\ Len(t) = m
    BY <1>1
  <2> QED
    BY <2>1, <2>2, Zenon
<1>5. PICK r \in Seq(Nat) :
        /\ r = v \o <<NUL>> /\ Len(r) = Len(v) + 1
        /\ \A i \in 1..Len(v) : r[i] = v[i]
        /\ r[Len(v) + 1] = NUL
  BY <1>2, Concat
<1>6. ASSUME NEW i \in 1..m PROVE r[i] = s[i]
  <2>1. i \in 1..Len(v)
    BY <1>4
  <2> QED
    BY <1>1, <1>4, <1>5, <2>1
<1>7. ASSUME NEW i \in 1..Len(u) PROVE r[m + i] = u[i]
  <2>1. m + i \in 1..Len(v)
    BY <1>4
  <2> QED
    BY <1>4, <1>5, <2>1
<1>8. Joined(s, m, u) = r
  BY <1>3, <1>4, <1>5
<1> QED
  BY <1>4, <1>5, <1>6, <1>7, <1>8

\* The front and the rest of a sequence.
LEMMA Cut ==
  ASSUME NEW a \in Seq(Nat), NEW n \in 0..Len(a)
  PROVE  /\ SubSeq(a, 1, n) \in Seq(Nat) /\ Len(SubSeq(a, 1, n)) = n
         /\ \A i \in 1..n : SubSeq(a, 1, n)[i] = a[i]
         /\ SubSeq(a, n + 1, Len(a)) \in Seq(Nat) /\ Len(SubSeq(a, n + 1, Len(a))) = Len(a) - n
         /\ \A i \in 1..Len(a) - n : SubSeq(a, n + 1, Len(a))[i] = a[n + i]
<1>1. /\ SubSeq(a, 1, n) \in Seq(Nat) /\ Len(SubSeq(a, 1, n)) = n
      /\ \A i \in 1..n : SubSeq(a, 1, n)[i] = a[i]
  OBVIOUS
<1>2. SubSeq(a, n + 1, Len(a)) \in Seq(Nat) /\ Len(SubSeq(a, n + 1, Len(a))) = Len(a) - n
  OBVIOUS
<1>3. \A i \in 1..Len(a) - n : SubSeq(a, n + 1, Len(a))[i] = a[n + i]
  OBVIOUS
<1> QED
  BY <1>1, <1>2, <1>3

\* Two texts that are joined one after the other are joined as one.
LEMMA Pieces ==
  ASSUME NEW s \in Seq(Nat), NEW m \in 0..Len(s), NEW a \in Seq(Nat), NEW n \in 0..Len(a)
  PROVE  /\ SubSeq(a, 1, n) \in Seq(Nat) /\ Len(SubSeq(a, 1, n)) = n
         /\ SubSeq(a, n + 1, Len(a)) \in Seq(Nat) /\ Len(SubSeq(a, n + 1, Len(a))) = Len(a) - n
         /\ Joined(Joined(s, m, SubSeq(a, 1, n)), m + n, SubSeq(a, n + 1, Len(a))) = Joined(s, m, a)
<1>1. PICK f \in Seq(Nat) : f = SubSeq(a, 1, n) /\ Len(f) = n /\ \A i \in 1..n : f[i] = a[i]
  BY Cut, Zenon
<1>2. PICK g \in Seq(Nat) : /\ g = SubSeq(a, n + 1, Len(a)) /\ Len(g) = Len(a) - n
                            /\ \A i \in 1..Len(a) - n : g[i] = a[n + i]
  BY Cut, Zenon
<1>3. PICK h \in Seq(Nat) :
        /\ h = Joined(s, m, f) /\ Len(h) = m + Len(f) + 1
        /\ \A i \in 1..m : h[i] = s[i]
        /\ \A i \in 1..Len(f) : h[m + i] = f[i]
  <2>1. /\ Joined(s, m, f) \in Seq(Nat) /\ Len(Joined(s, m, f)) = m + Len(f) + 1
        /\ \A i \in 1..m : Joined(s, m, f)[i] = s[i]
        /\ \A i \in 1..Len(f) : Joined(s, m, f)[m + i] = f[i]
    BY JoinedFacts, ZenonT(30)
  <2> QED
    BY <2>1, Zenon
<1>4. m + n \in 0..Len(h) /\ Len(a) \in Nat /\ Len(g) \in Nat
  BY <1>1, <1>3, SMTT(30)
<1>5. PICK r \in Seq(Nat) :
        /\ r = Joined(h, m + n, g) /\ Len(r) = m + n + Len(g) + 1
        /\ \A i \in 1..m + n : r[i] = h[i]
        /\ \A i \in 1..Len(g) : r[m + n + i] = g[i]
        /\ r[m + n + Len(g) + 1] = NUL
  BY <1>4, JoinedFacts, ZenonT(30)
<1>6. PICK t \in Seq(Nat) :
        /\ t = Joined(s, m, a) /\ Len(t) = m + Len(a) + 1
        /\ \A i \in 1..m : t[i] = s[i]
        /\ \A i \in 1..Len(a) : t[m + i] = a[i]
        /\ t[m + Len(a) + 1] = NUL
  BY JoinedFacts, ZenonT(30)
<1> DEFINE la == Len(a)
           lg == Len(g)
<1>10. lg = la - n /\ Len(r) = m + n + lg + 1 /\ Len(t) = m + la + 1
  BY <1>2, <1>5, <1>6, Zenon
<1>11. la \in Nat /\ lg \in Nat /\ m \in Nat /\ n \in Nat /\ n <= la
  BY <1>4
<1> HIDE DEF la, lg
<1>7. Len(r) = m + la + 1 /\ Len(r) = Len(t)
  BY <1>10, <1>11
<1>8. ASSUME NEW i \in 1..Len(r) PROVE r[i] = t[i]
  <2>1. CASE i \in 1..m
    <3>1. i \in 1..m + n
      BY <2>1, <1>4
    <3> QED
      BY <2>1, <3>1, <1>3, <1>5, <1>6
  <2>2. CASE i \in m + 1..m + n
    <3>1. i - m \in 1..n /\ i - m \in 1..Len(a) /\ i \in 1..m + n /\ m + (i - m) = i
      BY <2>2, <1>4
    <3>2. r[i] = h[i] /\ h[i] = f[i - m] /\ f[i - m] = a[i - m] /\ t[i] = a[i - m]
      BY <3>1, <1>1, <1>3, <1>5, <1>6, ZenonT(30)
    <3> QED
      BY <3>2
  <2>3. CASE i \in m + n + 1..m + Len(a)
    <3>1. /\ i - (m + n) \in 1..Len(g) /\ i - (m + n) \in 1..Len(a) - n
          /\ m + n + (i - (m + n)) = i /\ i - m \in 1..Len(a) /\ m + (i - m) = i
          /\ n + (i - (m + n)) = i - m
      <4>1. /\ i - (m + n) \in 1..lg /\ i - (m + n) \in 1..la - n
            /\ m + n + (i - (m + n)) = i /\ i - m \in 1..la /\ m + (i - m) = i
            /\ n + (i - (m + n)) = i - m
        BY <2>3, <1>10, <1>11 DEF la
      <4> QED
        BY <4>1 DEF la, lg
    <3>2. r[i] = g[i - (m + n)] /\ g[i - (m + n)] = a[i - m] /\ t[i] = a[i - m]
      BY <3>1, <1>2, <1>5, <1>6
    <3> QED
      BY <3>2
  <2>4. CASE i = m + Len(a) + 1
    <3>1. m + n + lg + 1 = i
      BY <2>4, <1>10, <1>11 DEF la
    <3> QED
      BY <2>4, <3>1, <1>5, <1>6 DEF lg
  <2> QED
    <3>1. i \in 1..m \/ i \in m + 1..m + n \/ i \in m + n + 1..m + la \/ i = m + la + 1
      BY <1>7, <1>11
    <3> QED
      BY <2>1, <2>2, <2>3, <2>4, <3>1 DEF la
<1>9. r = t
  BY <1>7, <1>8, SeqEqual
<1> QED
  BY <1>1, <1>2, <1>3, <1>5, <1>6, <1>9

\* The string in what was joined, if nothing before the end was NUL.
LEMMA JoinedText ==
  ASSUME NEW s \in Seq(Nat), NEW m \in 0..Len(s), \A i \in 1..m : s[i] # NUL,
         NEW u \in Seq(Nat), \A i \in 1..Len(u) : u[i] # NUL
  PROVE  /\ strlen(Joined(s, m, u)) = m + Len(u)
         /\ Exact(Joined(s, m, u))
         /\ BufferEnd(Joined(s, m, u)) = m + Len(u)
         /\ Text(Joined(s, m, u)) = SubSeq(s, 1, m) \o u
<1>1. PICK r \in Seq(Nat) :
        /\ r = Joined(s, m, u) /\ Len(r) = m + Len(u) + 1
        /\ \A i \in 1..m : r[i] = s[i]
        /\ \A i \in 1..Len(u) : r[m + i] = u[i]
        /\ r[m + Len(u) + 1] = NUL
  BY JoinedFacts
<1>2. Len(u) \in Nat /\ m + Len(u) \in 0..Len(r) /\ Len(r) \in Nat
  BY <1>1
<1>3. ASSUME NEW i \in 1..m + Len(u) PROVE r[i] # NUL
  <2>1. CASE i \in 1..m
    BY <1>1, <2>1
  <2>2. CASE i \notin 1..m
    <3>1. i - m \in 1..Len(u) /\ m + (i - m) = i
      BY <1>2, <2>2
    <3> QED
      BY <1>1, <3>1
  <2> QED
    BY <2>1, <2>2
<1>4. IsStrnlen(r, Len(r), m + Len(u))
  BY <1>1, <1>2, <1>3 DEF IsStrnlen
<1>5. strlen(r) = m + Len(u)
  BY <1>2, <1>4, StrnlenIs DEF strlen
<1>6. Exact(r) /\ BufferEnd(r) = m + Len(u)
  BY <1>1, <1>2, <1>5 DEF Exact, BufferEnd
<1>7. Text(r) = SubSeq(s, 1, m) \o u
  <2>1. PICK t \in Seq(Nat) : t = SubSeq(s, 1, m) /\ Len(t) = m /\ \A i \in 1..m : t[i] = s[i]
    BY Cut, Zenon
  <2>2. PICK v \in Seq(Nat) :
          /\ v = t \o u /\ Len(v) = Len(t) + Len(u)
          /\ \A i \in 1..Len(t) : v[i] = t[i]
          /\ \A i \in 1..Len(u) : v[Len(t) + i] = u[i]
    BY Concat, ZenonT(30)
  <2>3. PICK w \in Seq(Nat) : /\ w = SubSeq(r, 1, m + Len(u)) /\ Len(w) = m + Len(u)
                              /\ \A i \in 1..m + Len(u) : w[i] = r[i]
    BY <1>2, Cut, Zenon
  <2>4. ASSUME NEW i \in 1..Len(w) PROVE w[i] = v[i]
    <3>1. CASE i \in 1..m
      BY <1>1, <2>1, <2>2, <2>3, <3>1
    <3>2. CASE i \notin 1..m
      <4>1. i - m \in 1..Len(u) /\ m + (i - m) = i /\ i \in 1..m + Len(u)
        BY <1>2, <2>3, <3>2
      <4> QED
        <5>1. w[i] = r[i] /\ r[m + (i - m)] = u[i - m] /\ v[Len(t) + (i - m)] = u[i - m] /\ Len(t) = m
          BY <1>1, <2>1, <2>2, <2>3, <4>1, Zenon
        <5> QED
          BY <4>1, <5>1, Zenon
    <3> QED
      BY <3>1, <3>2
  <2>5. w = v
    <3>1. Len(w) = Len(v)
      BY <2>1, <2>2, <2>3, Zenon
    <3> QED
      BY <2>4, <3>1, SeqEqual
  <2> QED
    BY <1>5, <2>1, <2>2, <2>3, <2>5 DEF Text
<1> QED
  BY <1>1, <1>5, <1>6, <1>7

\* A text without NUL, as String has them.
Clean(a) == a \in Seq(Nat) /\ \A i \in 1..Len(a) : a[i] # NUL

\* What strlen() and strnlen() say of it.
LEMMA CleanFacts ==
  ASSUME NEW a, Clean(a)
  PROVE  /\ a # NULL /\ a # FAILED
         /\ Len(a) \in Nat /\ strlen(a) = Len(a) /\ strnlen(a, Len(a) + 1) = Len(a)
         /\ \A n \in 0..Len(a) : strnlen(a, n) = n
         /\ SubSeq(a, 1, Len(a)) = a
<1>1. a \in Seq(Nat) /\ \A i \in 1..Len(a) : a[i] # NUL
  BY DEF Clean
<1>2. a # NULL /\ a # FAILED
  BY <1>1, StringAssumption, Zenon
<1>3. Len(a) \in Nat
  BY <1>1
<1>4. ASSUME NEW n \in 0..Len(a) PROVE strnlen(a, n) = n
  <2>1. IsStrnlen(a, n, n) /\ n \in Nat
    BY <1>1, <1>3 DEF IsStrnlen
  <2> QED
    BY <1>1, <2>1, StrnlenIs
<1>5. strnlen(a, Len(a) + 1) = Len(a)
  <2>1. IsStrnlen(a, Len(a) + 1, Len(a)) /\ Len(a) + 1 \in Nat /\ Len(a) \in 0..Len(a)
    BY <1>1, <1>3 DEF IsStrnlen
  <2> QED
    BY <1>1, <2>1, StrnlenIs
<1>6. strlen(a) = Len(a)
  BY <1>3, <1>4 DEF strlen
<1>7. SubSeq(a, 1, Len(a)) = a
  BY <1>1, SubSeqFull
<1> QED
  BY <1>2, <1>3, <1>4, <1>5, <1>6, <1>7

\* The two parts of such a text are such texts.
LEMMA CleanParts ==
  ASSUME NEW a, Clean(a), NEW n \in 0..Len(a)
  PROVE  Clean(SubSeq(a, 1, n)) /\ Clean(SubSeq(a, n + 1, Len(a)))
<1>1. a \in Seq(Nat) /\ (\A i \in 1..Len(a) : a[i] # NUL) /\ Len(a) \in Nat
  BY DEF Clean
<1>2. PICK f \in Seq(Nat) : f = SubSeq(a, 1, n) /\ Len(f) = n /\ \A i \in 1..n : f[i] = a[i]
  BY <1>1, Cut, Zenon
<1>3. PICK g \in Seq(Nat) : /\ g = SubSeq(a, n + 1, Len(a)) /\ Len(g) = Len(a) - n
                            /\ \A i \in 1..Len(a) - n : g[i] = a[n + i]
  BY <1>1, Cut, Zenon
<1>4. Clean(f)
  <2>1. \A i \in 1..n : i \in 1..Len(a)
    BY <1>1
  <2> QED
    BY <1>1, <1>2, <2>1, Zenon DEF Clean
<1>5. Clean(g)
  <2>1. \A i \in 1..Len(a) - n : n + i \in 1..Len(a)
    BY <1>1
  <2> QED
    BY <1>1, <1>3, <2>1, Zenon DEF Clean
<1> QED
  BY <1>2, <1>3, <1>4, <1>5

\* A buffer's string is within it, and without NUL.
LEMMA BufferFacts ==
  ASSUME NEW s \in Seq(Nat)
  PROVE  /\ Len(s) \in Nat /\ strlen(s) \in 0..Len(s) /\ BufferEnd(s) \in 0..Len(s)
         /\ \A i \in 1..strlen(s) : s[i] # NUL
         /\ s # NULL /\ s # FAILED
         /\ strlen(s) # Len(s) => s[strlen(s) + 1] = NUL
<1>1. Len(s) \in Nat
  OBVIOUS
<1>2. strlen(s) \in 0..Len(s) /\ IsStrnlen(s, Len(s), strlen(s))
  BY <1>1, StrnlenFacts DEF strlen
<1>3. BufferEnd(s) \in 0..Len(s)
  BY <1>1 DEF BufferEnd
<1>4. s # NULL /\ s # FAILED
  BY StringAssumption, Zenon
<1> QED
  BY <1>1, <1>2, <1>3, <1>4 DEF IsStrnlen

\* How the limits of talloc, of int and of unsigned are related.
LEMMA Limits ==
  /\ MAX_TALLOC_SIZE \in Nat \ {0} /\ INT_MAX \in Nat /\ UnsignedMax \in Nat \ {0}
  /\ MAX_TALLOC_SIZE <= INT_MAX + 1 /\ MAX_TALLOC_SIZE + INT_MAX + 1 <= UnsignedMax
BY StringAssumption DEF UnsignedMax

\* talloc_realloc() gives what it was asked for exactly if that is below the limit and the
\* pointer is not referenced, and otherwise NULL, but for what an unsigned does not hold.
LEMMA ReallocFacts ==
  ASSUME NEW refs \in BOOLEAN, NEW b \in Seq(Nat), Len(b) > 0
  PROVE  /\ Len(b) < MAX_TALLOC_SIZE /\ ~refs => Realloc(refs, b) = b
         /\ ~(Len(b) < MAX_TALLOC_SIZE /\ ~refs) =>
              \/ Realloc(refs, b) = NULL
              \/ Realloc(refs, b) = OVERRUN /\ Len(b) > UnsignedMax /\ ~refs
<1> DEFINE k == Len(b)
           count == k % UnsignedMax
<1>1. k \in Nat /\ k > 0
  OBVIOUS
<1>2. /\ count \in Nat
      /\ k < UnsignedMax => count = k
      /\ k = UnsignedMax => count = 0
  <2> HIDE DEF k
  <2> QED
    BY <1>1, Limits
<1>3. \/ /\ count >= MAX_TALLOC_SIZE \/ count = 0 \/ refs
         /\ Realloc(refs, b) = NULL
      \/ /\ ~(count >= MAX_TALLOC_SIZE \/ count = 0 \/ refs)
         /\ Realloc(refs, b) = IF count < k THEN OVERRUN ELSE b
  BY Zenon DEF Realloc
<1> HIDE DEF count, k
<1>4. ASSUME k < MAX_TALLOC_SIZE, ~refs PROVE Realloc(refs, b) = b
  <2>1. count = k /\ ~(count >= MAX_TALLOC_SIZE) /\ count # 0 /\ ~(count < k)
    BY <1>1, <1>2, <1>4, Limits
  <2> QED
    BY <1>3, <1>4, <2>1, Zenon
<1>5. ASSUME ~(k < MAX_TALLOC_SIZE) \/ refs, Realloc(refs, b) # NULL
      PROVE  Realloc(refs, b) = OVERRUN /\ k > UnsignedMax /\ ~refs
  <2>1. /\ ~(count >= MAX_TALLOC_SIZE) /\ count # 0 /\ ~refs
        /\ Realloc(refs, b) = IF count < k THEN OVERRUN ELSE b
    BY <1>3, <1>5, Zenon
  <2>2. ~(k < MAX_TALLOC_SIZE)
    BY <1>5, <2>1, Zenon
  <2>3. count < k /\ k > UnsignedMax
    BY <1>1, <1>2, <2>1, <2>2, Limits
  <2> QED
    BY <2>1, <2>3, Zenon
<1> QED
  BY <1>4, <1>5 DEF k

\* Every function that appends joins the text to the buffer, at one end or the other.
LEMMA Appends ==
  ASSUME NEW s \in Seq(Nat), NEW refs \in BOOLEAN, NEW a, Clean(a)
  PROVE  /\ talloc_strdup_append(s, refs, a) = Realloc(refs, Joined(s, strlen(s), a))
         /\ talloc_strndup_append(s, refs, a, Len(a) + 1) = Realloc(refs, Joined(s, strlen(s), a))
         /\ talloc_strdup_append_buffer(s, refs, a) = Realloc(refs, Joined(s, BufferEnd(s), a))
         /\ talloc_strndup_append_buffer(s, refs, a, Len(a) + 1) =
              Realloc(refs, Joined(s, BufferEnd(s), a))
<1>1. s # NULL
  BY BufferFacts
<1>2. /\ a # NULL /\ strlen(a) = Len(a) /\ strnlen(a, Len(a) + 1) = Len(a)
      /\ SubSeq(a, 1, Len(a)) = a
  BY CleanFacts
<1>3. /\ talloc_strdup_append(s, refs, a) = Realloc(refs, Joined(s, strlen(s), a))
      /\ talloc_strdup_append_buffer(s, refs, a) = Realloc(refs, Joined(s, BufferEnd(s), a))
  BY <1>1, <1>2, Zenon DEF talloc_strdup_append, talloc_strdup_append_buffer,
     __talloc_strlendup_append, Joined
<1>4. /\ talloc_strndup_append(s, refs, a, Len(a) + 1) = Realloc(refs, Joined(s, strlen(s), a))
      /\ talloc_strndup_append_buffer(s, refs, a, Len(a) + 1) =
           Realloc(refs, Joined(s, BufferEnd(s), a))
  BY <1>1, <1>2, Zenon DEF talloc_strndup_append, talloc_strndup_append_buffer,
     __talloc_strlendup_append, Joined
<1> QED
  BY <1>3, <1>4, Zenon

\* The ones that cut join what they leave of it.
LEMMA AppendsCut ==
  ASSUME NEW s \in Seq(Nat), NEW refs \in BOOLEAN, NEW a, Clean(a), NEW n \in 0..Len(a)
  PROVE  /\ talloc_strndup_append(s, refs, a, n) =
              Realloc(refs, Joined(s, strlen(s), SubSeq(a, 1, n)))
         /\ talloc_strndup_append_buffer(s, refs, a, n) =
              Realloc(refs, Joined(s, BufferEnd(s), SubSeq(a, 1, n)))
<1>1. s # NULL
  BY BufferFacts
<1>2. a # NULL /\ strnlen(a, n) = n
  BY CleanFacts
<1> QED
  BY <1>1, <1>2, Zenon DEF talloc_strndup_append, talloc_strndup_append_buffer,
     __talloc_strlendup_append, Joined

\* The ones that format return the buffer itself when there is nothing to append, or
\* vsnprintf() fails.
LEMMA AppendsFormatted ==
  ASSUME NEW s \in Seq(Nat), NEW refs \in BOOLEAN, NEW a, Clean(a)
  PROVE  /\ talloc_vasprintf_append(s, refs, a) =
              IF a = << >> \/ Len(a) > INT_MAX THEN s ELSE Realloc(refs, Joined(s, strlen(s), a))
         /\ talloc_vasprintf_append_buffer(s, refs, a) =
              IF a = << >> \/ Len(a) > INT_MAX THEN s ELSE Realloc(refs, Joined(s, BufferEnd(s), a))
<1>1. s # NULL /\ a # FAILED
  BY BufferFacts, CleanFacts
<1>2. vsnprintf(a) \in {FAILED, << >>} <=> a = << >> \/ Len(a) > INT_MAX
  BY <1>1, Zenon DEF vsnprintf
<1> QED
  BY <1>1, <1>2, Zenon DEF talloc_vasprintf_append, talloc_vasprintf_append_buffer,
     __talloc_vaslenprintf_append, Joined

\* A string that is made anew is joined to nothing.
LEMMA MadeAnew ==
  ASSUME NEW a, Clean(a)
  PROVE  /\ talloc_strdup(a) = Alloc(Joined(<< >>, 0, a))
         /\ talloc_vasprintf(a) = Alloc(Joined(<< >>, 0, a))
         /\ \A n \in 0..Len(a) : talloc_strndup(a, n) = Alloc(Joined(<< >>, 0, SubSeq(a, 1, n)))
<1>1. /\ a # NULL /\ a # FAILED /\ Len(a) \in Nat /\ strlen(a) = Len(a)
      /\ \A n \in 0..Len(a) : strnlen(a, n) = n
      /\ SubSeq(a, 1, Len(a)) = a
  BY CleanFacts
<1>2. \A u \in Seq(Nat) : Joined(<< >>, 0, u) = u \o <<NUL>>
  <2>1. SubSeq(<< >>, 1, 0) = << >>
    OBVIOUS
  <2> QED
    BY <2>1, ConcatEmptySeq DEF Joined
<1>3. a \in Seq(Nat) /\ \A n \in 0..Len(a) : SubSeq(a, 1, n) \in Seq(Nat)
  BY CleanParts DEF Clean
<1>4. talloc_strdup(a) = Alloc(Joined(<< >>, 0, a))
  BY <1>1, <1>2, <1>3, Zenon DEF talloc_strdup, __talloc_strlendup
<1>5. talloc_vasprintf(a) = Alloc(Joined(<< >>, 0, a))
  <2>1. << >> \in Seq(Nat) /\ 0 \in 0..Len(<< >>)
    OBVIOUS
  <2>2. Len(Joined(<< >>, 0, a)) = 0 + Len(a) + 1
    BY <1>3, <2>1, JoinedFacts, ZenonT(30)
  <2>3. CASE Len(a) > INT_MAX
    <3>1. Len(Joined(<< >>, 0, a)) >= MAX_TALLOC_SIZE
      BY <1>1, <2>2, <2>3, Limits
    <3> QED
      BY <1>1, <2>3, <3>1, Zenon DEF talloc_vasprintf, vsnprintf, Alloc
  <2>4. CASE ~(Len(a) > INT_MAX)
    BY <1>1, <1>2, <1>3, <2>4, Zenon DEF talloc_vasprintf, vsnprintf
  <2> QED
    BY <2>3, <2>4
<1>6. ASSUME NEW n \in 0..Len(a)
      PROVE  talloc_strndup(a, n) = Alloc(Joined(<< >>, 0, SubSeq(a, 1, n)))
  BY <1>1, <1>2, <1>3, Zenon DEF talloc_strndup, __talloc_strlendup
<1> QED
  BY <1>4, <1>5, <1>6, Zenon

\* A string that fills its buffer, with either kind of function.
LEMMA Mix ==
  ASSUME NEW s \in Seq(Nat), Exact(s), NEW refs \in BOOLEAN, NEW a, Clean(a),
         NEW r \in StringEnd(s, refs, a) \cup BufferEndOf(s, refs, a)
  PROVE  IF Len(Text(s)) + Len(a) + 1 < MAX_TALLOC_SIZE /\ ~refs
         THEN Exact(r) /\ Text(r) = Text(s) \o a
         ELSE \/ r = NULL
              \/ r = s /\ (a = << >> \/ Len(a) > INT_MAX)
              \/ r = OVERRUN /\ Len(Text(s)) + Len(a) + 1 > UnsignedMax /\ ~refs
<1> DEFINE m == strlen(s)
           j == Joined(s, m, a)
           size == Len(Text(s)) + Len(a) + 1
<1>1. /\ a \in Seq(Nat) /\ (\A i \in 1..Len(a) : a[i] # NUL) /\ Len(a) \in Nat
      /\ m \in 0..Len(s) /\ (\A i \in 1..m : s[i] # NUL) /\ Len(s) \in Nat
  BY CleanFacts, BufferFacts DEF Clean
<1>2. BufferEnd(s) = m
  BY <1>1 DEF Exact, BufferEnd
<1>3. Text(s) = SubSeq(s, 1, m)
  BY DEF Text
<1> HIDE DEF m
<1>4. Len(Text(s)) = m /\ Text(s) \in Seq(Nat)
  BY <1>1, <1>3, Cut
<1>5. j \in Seq(Nat) /\ Len(j) = size /\ size \in Nat /\ size > 0
  <2>1. j \in Seq(Nat) /\ Len(j) = m + Len(a) + 1
    BY <1>1, JoinedFacts
  <2> QED
    BY <1>1, <1>4, <2>1
<1>6. Exact(j) /\ Text(j) = Text(s) \o a
  BY <1>1, <1>3, JoinedText
<1>7. r = Realloc(refs, j) \/ (r = s /\ (a = << >> \/ Len(a) > INT_MAX))
  <2>1. BufferEnd(s) = strlen(s) /\ j = Joined(s, strlen(s), a)
    BY <1>2 DEF m
  <2>2. /\ talloc_strdup_append(s, refs, a) = Realloc(refs, j)
        /\ talloc_strndup_append(s, refs, a, Len(a) + 1) = Realloc(refs, j)
        /\ talloc_strdup_append_buffer(s, refs, a) = Realloc(refs, j)
        /\ talloc_strndup_append_buffer(s, refs, a, Len(a) + 1) = Realloc(refs, j)
    BY <2>1, Appends
  <2>3. /\ talloc_vasprintf_append(s, refs, a) =
             IF a = << >> \/ Len(a) > INT_MAX THEN s ELSE Realloc(refs, j)
        /\ talloc_vasprintf_append_buffer(s, refs, a) =
             IF a = << >> \/ Len(a) > INT_MAX THEN s ELSE Realloc(refs, j)
    BY <2>1, AppendsFormatted
  <2> HIDE DEF j
  <2>4. \/ r = talloc_strdup_append(s, refs, a)
        \/ r = talloc_strndup_append(s, refs, a, Len(a) + 1)
        \/ r = talloc_vasprintf_append(s, refs, a)
        \/ r = talloc_strdup_append_buffer(s, refs, a)
        \/ r = talloc_strndup_append_buffer(s, refs, a, Len(a) + 1)
        \/ r = talloc_vasprintf_append_buffer(s, refs, a)
    BY Zenon DEF StringEnd, BufferEndOf
  <2> QED
    BY <2>2, <2>3, <2>4, Zenon
<1>8. /\ size < MAX_TALLOC_SIZE /\ ~refs => Realloc(refs, j) = j
      /\ ~(size < MAX_TALLOC_SIZE /\ ~refs) =>
           \/ Realloc(refs, j) = NULL
           \/ Realloc(refs, j) = OVERRUN /\ size > UnsignedMax /\ ~refs
  <2> HIDE DEF j, size
  <2>1. Len(j) > 0
    BY <1>5
  <2>2. /\ Len(j) < MAX_TALLOC_SIZE /\ ~refs => Realloc(refs, j) = j
        /\ ~(Len(j) < MAX_TALLOC_SIZE /\ ~refs) =>
             \/ Realloc(refs, j) = NULL
             \/ Realloc(refs, j) = OVERRUN /\ Len(j) > UnsignedMax /\ ~refs
    BY <1>5, <2>1, ReallocFacts, ZenonT(30)
  <2> QED
    BY <1>5, <2>2, Zenon
<1>9. size < MAX_TALLOC_SIZE => ~(Len(a) > INT_MAX)
  BY <1>1, <1>4, Limits
<1>10. ASSUME a = << >> PROVE Text(s) \o a = Text(s)
  BY <1>4, <1>10, ConcatEmptySeq
<1> HIDE DEF j, size
<1>11. /\ size < MAX_TALLOC_SIZE /\ ~refs => Exact(r) /\ Text(r) = Text(s) \o a
       /\ ~(size < MAX_TALLOC_SIZE /\ ~refs) =>
            \/ r = NULL
            \/ r = s /\ (a = << >> \/ Len(a) > INT_MAX)
            \/ r = OVERRUN /\ size > UnsignedMax /\ ~refs
  <2>1. CASE r = Realloc(refs, j)
    BY <1>6, <1>8, <2>1, Zenon
  <2>2. CASE r = s /\ (a = << >> \/ Len(a) > INT_MAX)
    BY <1>9, <1>10, <2>2, Zenon
  <2> QED
    BY <1>7, <2>1, <2>2
<1> QED
  BY <1>11, Zenon DEF size

\* A string that is shorter than its buffer ends before the buffer's last byte.
LEMMA Shorter ==
  ASSUME NEW s \in Seq(Nat), Terminated(s), ~Exact(s)
  PROVE  strlen(s) + 1 \in 1..Len(s) - 1 /\ s[strlen(s) + 1] = NUL
<1>1. /\ Len(s) \in Nat /\ strlen(s) \in 0..Len(s) /\ \A i \in 1..strlen(s) : s[i] # NUL
      /\ strlen(s) # Len(s) => s[strlen(s) + 1] = NUL
  BY BufferFacts
<1>2. Len(s) > 0 /\ s[Len(s)] = NUL
  BY DEF Terminated, Last
<1>3. strlen(s) # Len(s)
  <2> SUFFICES ASSUME strlen(s) = Len(s) PROVE FALSE
    OBVIOUS
  <2>1. Len(s) \in 1..strlen(s)
    BY <1>1, <1>2
  <2> QED
    BY <1>1, <1>2, <2>1
<1>4. strlen(s) # Len(s) - 1
  BY <1>2 DEF Exact
<1> QED
  BY <1>1, <1>3, <1>4

\* Concatenation, for the sequences of this module.
LEMMA Associative ==
  ASSUME NEW s \in Seq(Nat), NEW t \in Seq(Nat), NEW u \in Seq(Nat)
  PROVE  (s \o t) \o u = s \o (t \o u)
BY ConcatAssociative, SMTT(30)

\* Reversing.
LEMMA ReverseFacts ==
  ASSUME NEW v \in Seq(Nat)
  PROVE  /\ Reverse(v) \in Seq(Nat) /\ Len(Reverse(v)) = Len(v)
         /\ \A i \in 1..Len(v) : Reverse(v)[i] = v[(Len(v) - i) + 1]
<1>1. Len(v) \in Nat
  OBVIOUS
<1>2. \A i \in 1..Len(v) : (Len(v) - i) + 1 \in 1..Len(v)
  BY <1>1
<1>3. \A i \in 1..Len(v) : v[(Len(v) - i) + 1] \in Nat
  BY <1>2, ElementOfSeq
<1>4. Reverse(v) \in [1..Len(v) -> Nat]
  BY <1>3, Zenon DEF Reverse
<1>5. Reverse(v) \in Seq(Nat)
  <2>1. \A n \in Nat : \A f \in [1..n -> Nat] : f \in Seq(Nat)
    BY SeqDef
  <2> QED
    BY <1>1, <1>4, <2>1, Zenon
<1>6. DOMAIN Reverse(v) = 1..Len(v) /\ DOMAIN Reverse(v) = 1..Len(Reverse(v))
  BY <1>4, <1>5, LenProperties, Zenon
<1>7. Len(Reverse(v)) = Len(v)
  <2> DEFINE k == Len(Reverse(v))
  <2>1. k \in Nat /\ 1..k = 1..Len(v)
    BY <1>5, <1>6, LenProperties, Zenon
  <2> HIDE DEF k
  <2>2. k = Len(v)
    BY <1>1, <2>1
  <2> QED
    BY <2>2 DEF k
<1>8. \A i \in 1..Len(v) : Reverse(v)[i] = v[(Len(v) - i) + 1]
  BY Zenon DEF Reverse
<1> QED
  BY <1>5, <1>7, <1>8

\* The end of what was joined.
LEMMA JoinedSuffix ==
  ASSUME NEW s \in Seq(Nat), NEW m \in 0..Len(s), NEW u \in Seq(Nat)
  PROVE  IsSuffix(u \o <<NUL>>, Joined(s, m, u))
<1>1. PICK t \in Seq(Nat) : t = SubSeq(s, 1, m)
  BY Cut, Zenon
<1>2. PICK v \in Seq(Nat) : v = u \o <<NUL>>
  <2>1. <<NUL>> \in Seq(Nat)
    BY DEF NUL
  <2> QED
    BY <2>1, Concat, Zenon
<1>3. Joined(s, m, u) = t \o v
  <2>1. <<NUL>> \in Seq(Nat)
    BY DEF NUL
  <2> QED
    <3>1. (t \o u) \o <<NUL>> = t \o (u \o <<NUL>>)
      BY <2>1, Associative, ZenonT(30)
    <3> QED
      BY <1>1, <1>2, <3>1, Zenon DEF Joined
<1>4. PICK w \in Seq(Nat) :
        /\ w = t \o v /\ Len(w) = Len(t) + Len(v)
        /\ \A i \in 1..Len(v) : w[Len(t) + i] = v[i]
  BY Concat, ZenonT(30)
<1>5. Len(t) \in Nat /\ Len(v) \in Nat
  OBVIOUS
<1>6. PICK x \in Seq(Nat) : /\ x = Reverse(v) /\ Len(x) = Len(v)
                            /\ \A i \in 1..Len(v) : x[i] = v[(Len(v) - i) + 1]
  BY ReverseFacts, Zenon
<1>7. PICK y \in Seq(Nat) : /\ y = Reverse(w) /\ Len(y) = Len(w)
                            /\ \A i \in 1..Len(w) : y[i] = w[(Len(w) - i) + 1]
  BY ReverseFacts, Zenon
<1>8. Len(x) \in 0..Len(y) /\ Len(x) <= Len(y)
  BY <1>4, <1>5, <1>6, <1>7
<1>9. PICK z \in Seq(Nat) : z = SubSeq(y, 1, Len(x)) /\ Len(z) = Len(x) /\ \A i \in 1..Len(x) : z[i] = y[i]
  BY <1>8, Cut, Zenon
<1>10. ASSUME NEW i \in 1..Len(x) PROVE x[i] = z[i]
  <2>1. /\ i \in 1..Len(v) /\ (Len(v) - i) + 1 \in 1..Len(v)
        /\ i \in 1..Len(w) /\ (Len(w) - i) + 1 = Len(t) + ((Len(v) - i) + 1)
    BY <1>4, <1>5, <1>6
  <2>2. z[i] = y[i] /\ y[i] = w[Len(t) + ((Len(v) - i) + 1)] /\ x[i] = v[(Len(v) - i) + 1]
    BY <1>6, <1>7, <1>9, <2>1
  <2> QED
    BY <1>4, <2>1, <2>2
<1>11. x = z
  BY <1>9, <1>10, SeqEqual
<1>12. SubSeq(x, 1, Len(x)) = x
  BY SubSeqFull
<1> QED
  BY <1>2, <1>3, <1>4, <1>6, <1>7, <1>8, <1>9, <1>11, <1>12, Zenon DEF IsSuffix, IsPrefix

\* A string that is shorter than its buffer, with the functions that append to the
\* string and with those that append to the buffer.
LEMMA WhereSaid ==
  ASSUME NEW s \in Seq(Nat), Terminated(s), ~Exact(s), Len(s) < MAX_TALLOC_SIZE,
         NEW refs \in BOOLEAN, NEW a, Clean(a), Len(a) \in 1..INT_MAX
  PROVE  /\ \A r \in StringEnd(s, refs, a) \ {NULL} : Exact(r) /\ Text(r) = Text(s) \o a
         /\ \A r \in BufferEndOf(s, refs, a) \ {NULL} :
              Text(r) = Text(s) /\ IsPrefix(Front(s), r) /\ IsSuffix(a \o <<NUL>>, r)
<1> DEFINE m == strlen(s)
           e == BufferEnd(s)
<1>1. a \in Seq(Nat) /\ (\A i \in 1..Len(a) : a[i] # NUL) /\ Len(a) \in Nat
  BY CleanFacts DEF Clean
<1>2. /\ m \in 0..Len(s) /\ (\A i \in 1..m : s[i] # NUL) /\ Len(s) \in Nat
      /\ e \in 0..Len(s)
  BY BufferFacts
<1>3. m + 1 \in 1..Len(s) - 1 /\ s[m + 1] = NUL
  BY Shorter
<1>4. e = Len(s) - 1
  BY <1>2, <1>3 DEF BufferEnd
<1>5. Text(s) = SubSeq(s, 1, m)
  BY DEF Text
<1>6. /\ talloc_strdup_append(s, refs, a) = Realloc(refs, Joined(s, m, a))
      /\ talloc_strndup_append(s, refs, a, Len(a) + 1) = Realloc(refs, Joined(s, m, a))
      /\ talloc_vasprintf_append(s, refs, a) = Realloc(refs, Joined(s, m, a))
      /\ talloc_strdup_append_buffer(s, refs, a) = Realloc(refs, Joined(s, e, a))
      /\ talloc_strndup_append_buffer(s, refs, a, Len(a) + 1) = Realloc(refs, Joined(s, e, a))
      /\ talloc_vasprintf_append_buffer(s, refs, a) = Realloc(refs, Joined(s, e, a))
  <2>1. ~(a = << >> \/ Len(a) > INT_MAX)
    BY <1>1, Limits
  <2>2. /\ talloc_vasprintf_append(s, refs, a) =
             IF a = << >> \/ Len(a) > INT_MAX THEN s ELSE Realloc(refs, Joined(s, strlen(s), a))
        /\ talloc_vasprintf_append_buffer(s, refs, a) =
             IF a = << >> \/ Len(a) > INT_MAX THEN s ELSE Realloc(refs, Joined(s, BufferEnd(s), a))
    BY AppendsFormatted
  <2> QED
    BY <2>1, <2>2, Appends
<1> HIDE DEF m, e
<1>9. ASSUME NEW k \in 0..Len(s) - 1
      PROVE  Realloc(refs, Joined(s, k, a)) \in {NULL, Joined(s, k, a)}
  <2>1. k \in 0..Len(s)
    BY <1>2
  <2>2. Joined(s, k, a) \in Seq(Nat) /\ Len(Joined(s, k, a)) = k + Len(a) + 1
    BY <1>1, <2>1, JoinedFacts, ZenonT(30)
  <2>3. k + Len(a) + 1 > 0 /\ ~(k + Len(a) + 1 > UnsignedMax)
    BY <1>1, <1>2, Limits
  <2> QED
    BY <2>2, <2>3, ReallocFacts, ZenonT(30)
<1>10. m \in 0..Len(s) - 1 /\ e \in 0..Len(s) - 1
  BY <1>2, <1>3, <1>4
<1>7. ASSUME NEW r \in StringEnd(s, refs, a) \ {NULL} PROVE Exact(r) /\ Text(r) = Text(s) \o a
  <2>1. r = Joined(s, m, a)
    BY <1>6, <1>9, <1>10, Zenon DEF StringEnd
  <2> QED
    BY <1>1, <1>2, <1>5, <2>1, JoinedText
<1>8. ASSUME NEW r \in BufferEndOf(s, refs, a) \ {NULL}
      PROVE  Text(r) = Text(s) /\ IsPrefix(Front(s), r) /\ IsSuffix(a \o <<NUL>>, r)
  <2>1. r = Joined(s, e, a)
    BY <1>6, <1>9, <1>10, Zenon DEF BufferEndOf
  <2>2. r \in Seq(Nat) /\ Len(r) = e + Len(a) + 1 /\ \A i \in 1..e : r[i] = s[i]
    BY <1>1, <1>2, <2>1, JoinedFacts, ZenonT(30)
  <2>3. Len(r) \in Nat /\ m \in 0..Len(r) /\ e \in 0..Len(r) /\ m + 1 \in 1..e /\ m \in 0..e
        /\ e \in Nat /\ m \in Nat
    <3>1. m \in Nat /\ e \in Nat /\ m + 1 <= e
      BY <1>2, <1>3, <1>4
    <3>2. Len(r) = e + Len(a) + 1
      BY <2>2, Zenon
    <3> QED
      BY <1>1, <3>1, <3>2
  <2>4. strlen(r) = m
    <3>1. \A i \in 1..m : i \in 1..e
      BY <2>3
    <3>2. r[m + 1] = NUL /\ \A i \in 1..m : r[i] # NUL
      BY <1>2, <1>3, <2>2, <2>3, <3>1, Zenon
    <3>3. m <= Len(r)
      BY <2>3
    <3>4. IsStrnlen(r, Len(r), m)
      BY <3>2, <3>3, Zenon DEF IsStrnlen
    <3> QED
      BY <2>2, <2>3, <3>4, StrnlenIs DEF strlen
  <2>5. ASSUME NEW k \in 0..e PROVE SubSeq(r, 1, k) = SubSeq(s, 1, k)
    <3>1. k \in 0..Len(r) /\ k \in 0..Len(s) /\ \A i \in 1..k : i \in 1..e
      BY <1>2, <2>3
    <3>2. PICK x \in Seq(Nat) : x = SubSeq(r, 1, k) /\ Len(x) = k /\ \A i \in 1..k : x[i] = r[i]
      BY <2>2, <3>1, Cut, Zenon
    <3>3. PICK y \in Seq(Nat) : y = SubSeq(s, 1, k) /\ Len(y) = k /\ \A i \in 1..k : y[i] = s[i]
      BY <3>1, Cut, Zenon
    <3>4. Len(x) = Len(y) /\ \A i \in 1..Len(x) : x[i] = y[i]
      BY <2>2, <3>1, <3>2, <3>3, Zenon
    <3>5. x = y
      BY <3>4, SeqEqual
    <3> QED
      BY <3>2, <3>3, <3>5, Zenon
  <2>6. Text(r) = Text(s)
    BY <1>5, <2>3, <2>4, <2>5, Zenon DEF Text
  <2>7. IsPrefix(Front(s), r)
    <3>1. PICK x \in Seq(Nat) : x = Front(s) /\ x = SubSeq(s, 1, e) /\ Len(x) = e
      BY <1>2, <1>4, Cut, Zenon DEF Front
    <3>2. SubSeq(x, 1, Len(x)) = x
      BY SubSeqFull
    <3>3. e \in 0..e /\ e <= Len(r)
      BY <2>3
    <3> QED
      BY <2>5, <3>1, <3>2, <3>3, Zenon DEF IsPrefix
  <2> QED
    BY <1>1, <1>2, <2>1, <2>6, <2>7, JoinedSuffix, Zenon
<1> QED
  BY <1>7, <1>8, Zenon

\* Alloc() fails only for what is too long; what is shorter than what it can allocate
\* it can allocate, and talloc_realloc() can too.
LEMMA AllocFacts ==
  /\ \A b : Alloc(b) # NULL => Alloc(b) = b
  /\ \A b, c \in Seq(Nat) : Len(b) > 0 /\ Len(b) <= Len(c) /\ Alloc(c) # NULL =>
       Alloc(b) = b /\ Realloc(FALSE, b) = b
<1>1. \A b : Alloc(b) # NULL => Alloc(b) = b
  BY Zenon DEF Alloc
<1>2. ASSUME NEW b \in Seq(Nat), NEW c \in Seq(Nat), Len(b) > 0, Len(b) <= Len(c), Alloc(c) # NULL
      PROVE  Alloc(b) = b /\ Realloc(FALSE, b) = b
  <2>1. Len(b) \in Nat /\ Len(c) \in Nat /\ MAX_TALLOC_SIZE \in Nat /\ Len(b) <= Len(c)
    BY <1>2, StringAssumption
  <2>2. ~(Len(c) >= MAX_TALLOC_SIZE)
    BY <1>2, Zenon DEF Alloc
  <2>3. ~(Len(b) >= MAX_TALLOC_SIZE) /\ Len(b) < MAX_TALLOC_SIZE
    BY <2>1, <2>2
  <2> QED
    BY <1>2, <2>3, ReallocFacts, ZenonT(30) DEF Alloc
<1> QED
  BY <1>1, <1>2, Zenon

\* A text that is joined in two pieces: the second finds the end of the first, whether
\* it looks for the end of the string or of the buffer.
LEMMA TwoPieces ==
  ASSUME NEW s \in Seq(Nat), NEW m \in 0..Len(s), \A i \in 1..m : s[i] # NUL,
         NEW a, Clean(a), NEW n \in 0..Len(a),
         Alloc(Joined(s, m, a)) # NULL
  PROVE  /\ Alloc(Joined(s, m, a)) = Joined(s, m, a)
         /\ Realloc(FALSE, Joined(s, m, a)) = Joined(s, m, a)
         /\ Alloc(Joined(s, m, SubSeq(a, 1, n))) = Joined(s, m, SubSeq(a, 1, n))
         /\ Realloc(FALSE, Joined(s, m, SubSeq(a, 1, n))) = Joined(s, m, SubSeq(a, 1, n))
         /\ talloc_strdup_append(Joined(s, m, SubSeq(a, 1, n)), FALSE,
              SubSeq(a, n + 1, Len(a))) = Joined(s, m, a)
         /\ talloc_strdup_append_buffer(Joined(s, m, SubSeq(a, 1, n)), FALSE,
              SubSeq(a, n + 1, Len(a))) = Joined(s, m, a)
<1>1. a \in Seq(Nat) /\ Len(a) \in Nat
  BY CleanFacts DEF Clean
<1>2. PICK f \in Seq(Nat) : f = SubSeq(a, 1, n) /\ Len(f) = n /\ Clean(f)
  BY <1>1, Cut, CleanParts, Zenon
<1>3. PICK g \in Seq(Nat) : g = SubSeq(a, n + 1, Len(a)) /\ Clean(g)
  BY <1>1, Cut, CleanParts, Zenon
<1>4. PICK h \in Seq(Nat) : h = Joined(s, m, f) /\ Len(h) = m + n + 1
  <2>1. Joined(s, m, f) \in Seq(Nat) /\ Len(Joined(s, m, f)) = m + Len(f) + 1
    BY JoinedFacts
  <2> QED
    BY <1>2, <2>1, Zenon
<1>5. PICK j \in Seq(Nat) : j = Joined(s, m, a) /\ Len(j) = m + Len(a) + 1
  BY <1>1, JoinedFacts, Zenon
<1>6. strlen(h) = m + n /\ BufferEnd(h) = m + n
  <2>1. \A i \in 1..Len(f) : f[i] # NUL
    BY <1>2 DEF Clean
  <2>2. strlen(Joined(s, m, f)) = m + Len(f) /\ BufferEnd(Joined(s, m, f)) = m + Len(f)
    BY <2>1, JoinedText
  <2> QED
    BY <1>2, <1>4, <2>2, Zenon
<1>7. Joined(h, m + n, g) = j
  <2>1. Joined(Joined(s, m, SubSeq(a, 1, n)), m + n, SubSeq(a, n + 1, Len(a))) = Joined(s, m, a)
    BY <1>1, Pieces
  <2> QED
    BY <1>2, <1>3, <1>4, <1>5, <2>1, Zenon
<1>8. Alloc(h) = h /\ Realloc(FALSE, h) = h /\ Alloc(j) = j /\ Realloc(FALSE, j) = j
  <2>1. Len(h) > 0 /\ Len(h) <= Len(j) /\ Len(j) > 0 /\ Len(j) <= Len(j)
    <3>1. m \in Nat /\ n \in Nat /\ n <= Len(a) /\ Len(a) \in Nat
      BY <1>1
    <3>2. Len(h) = m + n + 1 /\ Len(j) = m + Len(a) + 1
      BY <1>4, <1>5, Zenon
    <3> QED
      BY <3>1, <3>2
  <2> QED
    BY <1>5, <2>1, AllocFacts, Zenon
<1>9. /\ talloc_strdup_append(h, FALSE, g) = Realloc(FALSE, Joined(h, strlen(h), g))
      /\ talloc_strdup_append_buffer(h, FALSE, g) = Realloc(FALSE, Joined(h, BufferEnd(h), g))
  BY <1>3, Appends
<1>10. Joined(s, m, SubSeq(a, 1, n)) = h /\ SubSeq(a, n + 1, Len(a)) = g /\ Joined(s, m, a) = j
  BY <1>2, <1>3, <1>4, <1>5, Zenon
<1>11. /\ talloc_strdup_append(h, FALSE, g) = j
       /\ talloc_strdup_append_buffer(h, FALSE, g) = j
  BY <1>6, <1>7, <1>8, <1>9, Zenon
<1> QED
  BY <1>8, <1>10, <1>11, Zenon

\* The same at the end of the buffer, whatever the buffer holds: only the functions of
\* that kind go on where the first piece ended.
LEMMA TwoPiecesAtEnd ==
  ASSUME NEW s \in Seq(Nat), NEW m \in 0..Len(s), NEW a, Clean(a), NEW n \in 0..Len(a)
  PROVE  talloc_strdup_append_buffer(Joined(s, m, SubSeq(a, 1, n)), FALSE,
           SubSeq(a, n + 1, Len(a))) = Realloc(FALSE, Joined(s, m, a))
<1>1. a \in Seq(Nat) /\ Len(a) \in Nat
  BY CleanFacts DEF Clean
<1>2. PICK f \in Seq(Nat) : f = SubSeq(a, 1, n) /\ Len(f) = n
  BY <1>1, Cut, Zenon
<1>3. PICK g \in Seq(Nat) : g = SubSeq(a, n + 1, Len(a)) /\ Clean(g)
  BY <1>1, Cut, CleanParts, Zenon
<1>4. PICK h \in Seq(Nat) : h = Joined(s, m, f) /\ Len(h) = m + n + 1
  <2>1. Joined(s, m, f) \in Seq(Nat) /\ Len(Joined(s, m, f)) = m + Len(f) + 1
    BY JoinedFacts
  <2> QED
    BY <1>2, <2>1, Zenon
<1>5. BufferEnd(h) = m + n
  <2>1. Len(h) = m + n + 1 /\ m \in Nat /\ n \in Nat
    <3>1. m \in Nat /\ n \in Nat
      BY <1>1
    <3> QED
      BY <1>4, <3>1, Zenon
  <2> QED
    BY <2>1 DEF BufferEnd
<1>6. Joined(h, m + n, g) = Joined(s, m, a)
  <2>1. Joined(Joined(s, m, SubSeq(a, 1, n)), m + n, SubSeq(a, n + 1, Len(a))) = Joined(s, m, a)
    BY <1>1, Pieces
  <2> QED
    BY <1>2, <1>3, <1>4, <2>1, Zenon
<1>7. talloc_strdup_append_buffer(h, FALSE, g) = Realloc(FALSE, Joined(h, BufferEnd(h), g))
  BY <1>3, Appends
<1> QED
  BY <1>2, <1>3, <1>4, <1>5, <1>6, <1>7, Zenon

\* To a string made anew, text is appended in the same place by both kinds.
LEMMA AnewThenAppended ==
  ASSUME NEW g, Clean(g), NEW a, Clean(a), ~(Len(a) > INT_MAX)
  PROVE  talloc_vasprintf_append(talloc_strdup_append(NULL, FALSE, g), FALSE, a) =
           talloc_strdup_append_buffer(talloc_vasprintf_append(NULL, FALSE, g), FALSE, a)
<1> DEFINE q == Joined(<< >>, 0, g)
<1>1. /\ talloc_strdup_append(NULL, FALSE, g) = Alloc(q)
      /\ talloc_vasprintf_append(NULL, FALSE, g) = Alloc(q)
  <2>1. talloc_strdup(g) = Alloc(q) /\ talloc_vasprintf(g) = Alloc(q)
    BY MadeAnew
  <2> QED
    BY <2>1, Zenon DEF talloc_strdup_append, talloc_vasprintf_append
<1>2. << >> \in Seq(Nat) /\ 0 \in 0..Len(<< >>) /\ \A i \in 1..0 : << >>[i] # NUL
  OBVIOUS
<1>3. g \in Seq(Nat) /\ Len(g) \in Nat /\ \A i \in 1..Len(g) : g[i] # NUL
  BY CleanFacts DEF Clean
<1>4. q \in Seq(Nat) /\ Len(q) > 0
  <2>1. q \in Seq(Nat) /\ Len(q) = 0 + Len(g) + 1
    BY <1>2, <1>3, JoinedFacts
  <2> QED
    BY <1>3, <2>1
<1>5. strlen(q) = 0 + Len(g) /\ BufferEnd(q) = 0 + Len(g)
  BY <1>2, <1>3, JoinedText, Zenon
<1>6. Joined(q, Len(g), << >>) = q
  <2>1. Len(g) \in 0..Len(g) /\ 0 + Len(g) = Len(g)
    BY <1>3
  <2>2. SubSeq(g, 1, Len(g)) = g /\ SubSeq(g, Len(g) + 1, Len(g)) = << >>
    <3>1. SubSeq(g, Len(g) + 1, Len(g)) = << >>
      BY <1>3
    <3> QED
      BY <3>1, CleanFacts, Zenon
  <2>3. Joined(Joined(<< >>, 0, SubSeq(g, 1, Len(g))), 0 + Len(g), SubSeq(g, Len(g) + 1, Len(g)))
          = Joined(<< >>, 0, g)
    BY <1>2, <1>3, <2>1, Pieces, ZenonT(30)
  <2> QED
    BY <2>1, <2>2, <2>3, Zenon
<1> HIDE DEF q
<1>7. CASE Alloc(q) = NULL
  <2>1. talloc_strdup(a) = Alloc(Joined(<< >>, 0, a)) /\ talloc_vasprintf(a) = Alloc(Joined(<< >>, 0, a))
    BY MadeAnew
  <2> QED
    BY <1>1, <1>7, <2>1, Zenon DEF talloc_strdup_append_buffer, talloc_vasprintf_append
<1>8. CASE Alloc(q) # NULL
  <2>1. Alloc(q) = q /\ Realloc(FALSE, q) = q
    <3>1. Len(q) <= Len(q)
      BY <1>4
    <3> QED
      BY <1>4, <1>8, <3>1, AllocFacts, Zenon
  <2>2. /\ talloc_vasprintf_append(q, FALSE, a) =
             IF a = << >> \/ Len(a) > INT_MAX THEN q ELSE Realloc(FALSE, Joined(q, strlen(q), a))
        /\ talloc_strdup_append_buffer(q, FALSE, a) = Realloc(FALSE, Joined(q, BufferEnd(q), a))
    BY <1>4, Appends, AppendsFormatted
  <2>3. strlen(q) = BufferEnd(q) /\ strlen(q) = Len(g)
    BY <1>3, <1>5
  <2>4. CASE a = << >>
    BY <1>1, <1>6, <2>1, <2>2, <2>3, <2>4, Zenon
  <2>5. CASE a # << >>
    BY <1>1, <2>1, <2>2, <2>3, <2>5, Zenon
  <2> QED
    BY <2>4, <2>5
<1> QED
  BY <1>7, <1>8

\* What is tried: a buffer that talloc hands out with anything in it, referenced or not, a text
\* without NUL, a length.
LEMMA TrialInputs ==
  ASSUME input \in Input \cup {NULL}, Trial("string")
  PROVE  /\ input.s \in Seq(Nat) /\ Len(input.s) < MAX_TALLOC_SIZE /\ input.refs \in BOOLEAN
         /\ Clean(input.a) /\ input.n \in Nat
<1>1. input \in [kind : {"string"}, s : Buffer, refs : BOOLEAN, a : String, n : 0..MaxLength]
  BY DEF Trial, Input
<1>2. input.s \in Buffer /\ input.a \in String /\ input.n \in 0..MaxLength /\ input.refs \in BOOLEAN
  BY <1>1
<1>3. \A k \in Nat : \A f \in [1..k -> Nat] : f \in Seq(Nat) /\ DOMAIN f = 1..k
  BY SeqDef
<1>4. input.s \in Seq(Nat) /\ Len(input.s) < MAX_TALLOC_SIZE
  <2>1. PICK k \in 0..MaxLength : input.s \in [1..k -> Byte \cup {NUL}]
    BY <1>2, Zenon DEF Buffer, BoundedSeq, SeqOf
  <2>2. input.s \in [1..k -> Nat] /\ k \in Nat
    <3>1. k \in Nat
      BY StringAssumption
    <3>2. \A b \in Byte \cup {NUL} : b \in Nat
      BY StringAssumption DEF NUL
    <3>3. \A f \in [1..k -> Byte \cup {NUL}] : f \in [1..k -> Nat]
      BY <3>2, Zenon
    <3> QED
      BY <2>1, <3>1, <3>3, Zenon
  <2>3. input.s \in Seq(Nat) /\ DOMAIN input.s = 1..k
    BY <1>3, <2>2, Zenon
  <2>4. Len(input.s) \in Nat /\ DOMAIN input.s = 1..Len(input.s)
    BY <2>3, LenProperties, Zenon
  <2>5. ASSUME NEW l \in Nat, 1..l = 1..k PROVE l = k
    BY <2>2, <2>5
  <2>6. Len(input.s) = k
    BY <2>3, <2>4, <2>5, Zenon
  <2>7. k < MAX_TALLOC_SIZE
    BY StringAssumption
  <2> QED
    BY <2>3, <2>6, <2>7, Zenon
<1>5. Clean(input.a)
  <2>1. PICK k \in Nat : input.a \in [1..k -> Byte]
    <3>1. (\A k \in 0..MaxLength : k \in Nat) /\ \A k \in 0..MaxText : k \in Nat
      BY StringAssumption
    <3>2. CASE input.a \in BoundedSeq(Byte, MaxLength)
      BY <3>1, <3>2, Zenon DEF BoundedSeq, SeqOf
    <3>3. CASE input.a \in UNION {Repeated(k) : k \in 0..MaxText}
      <4>1. \A k : \A f \in Repeated(k) : f \in [1..k -> Byte]
        BY DEF Repeated
      <4>2. PICK k \in 0..MaxText : input.a \in Repeated(k)
        BY <3>3, Zenon
      <4> QED
        BY <3>1, <4>1, <4>2, Zenon
    <3> QED
      BY <1>2, <3>2, <3>3, Zenon DEF String
  <2>2. input.a \in [1..k -> Nat] /\ k \in Nat /\ \A i \in 1..k : input.a[i] # NUL
    <3>1. k \in Nat
      BY StringAssumption
    <3>2. \A b \in Byte : b \in Nat /\ b # NUL
      BY StringAssumption DEF NUL
    <3>3. \A f \in [1..k -> Byte] : f \in [1..k -> Nat] /\ \A i \in 1..k : f[i] # NUL
      BY <3>2, Zenon
    <3> QED
      BY <2>1, <3>1, <3>3, Zenon
  <2>3. input.a \in Seq(Nat) /\ DOMAIN input.a = 1..k
    BY <1>3, <2>2, Zenon
  <2>4. DOMAIN input.a = 1..Len(input.a)
    BY <2>3, LenProperties, Zenon
  <2> QED
    BY <2>2, <2>3, <2>4, Zenon DEF Clean
<1>6. input.n \in Nat
  BY <1>2, StringAssumption
<1> QED
  BY <1>2, <1>4, <1>5, <1>6

\* Appending is right whatever the bytes, the lengths and the limits: the two kinds of
\* functions agree on a string that fills its buffer, append where they say on one that
\* does not, leave a referenced one alone, and text appended in pieces comes to the same
\* as all of it at once; only text that an unsigned cannot count is taken for shorter.
THEOREM Appending == TrialSpec => []AppendsRightly
<1> DEFINE Tried == input \in Input \cup {NULL}
<1>1. TrialInit => Tried
  BY DEF TrialInit
<1>2. Tried /\ [TrialNext]_<<vars, input>> => Tried'
  BY DEF TrialNext, Input
<1>3. Tried => AppendsMix
  <2> DEFINE s == input.s
             a == input.a
             refs == input.refs
             size == Len(Text(s)) + Len(a) + 1
  <2> SUFFICES ASSUME Tried, Trial("string"), Exact(s),
                      NEW r \in StringEnd(s, refs, a) \cup BufferEndOf(s, refs, a)
               PROVE  IF size < MAX_TALLOC_SIZE /\ ~refs
                      THEN Exact(r) /\ Text(r) = Text(s) \o a
                      ELSE \/ r = NULL
                           \/ r = s /\ (a = << >> \/ Len(a) > INT_MAX)
                           \/ r = OVERRUN /\ size > UnsignedMax /\ ~refs
    BY Zenon DEF AppendsMix
  <2>1. s \in Seq(Nat) /\ Clean(a) /\ refs \in BOOLEAN
    BY TrialInputs
  <2> HIDE DEF s, a, refs
  <2> QED
    BY <2>1, Mix
<1>4. Tried => AppendsWhereSaid
  <2> DEFINE s == input.s
             a == input.a
             refs == input.refs
  <2> SUFFICES ASSUME Tried, Trial("string"), Terminated(s), ~Exact(s), Len(a) \in 1..INT_MAX
               PROVE  /\ \A r \in StringEnd(s, refs, a) \ {NULL} :
                           Exact(r) /\ Text(r) = Text(s) \o a
                      /\ \A r \in BufferEndOf(s, refs, a) \ {NULL} :
                           Text(r) = Text(s) /\ IsPrefix(Front(s), r) /\ IsSuffix(a \o <<NUL>>, r)
    BY Zenon DEF AppendsWhereSaid
  <2>1. s \in Seq(Nat) /\ Clean(a) /\ refs \in BOOLEAN /\ Len(s) < MAX_TALLOC_SIZE
    BY TrialInputs
  <2> HIDE DEF s, a, refs
  <2> QED
    BY <2>1, WhereSaid
<1>5. Tried => PiecesAddUp
  <2> DEFINE s == input.s
             a == input.a
             n == input.n
             rest == SubSeq(a, n + 1, Len(a))
             once == talloc_strdup_append(s, FALSE, a)
             head == talloc_strndup_append(s, FALSE, a, n)
             bufhead == talloc_strndup_append_buffer(s, FALSE, a, n)
  <2> SUFFICES ASSUME Tried, Trial("string"), Terminated(s), n <= Len(a),
                      strlen(s) + Len(a) + 1 < MAX_TALLOC_SIZE
               PROVE  /\ talloc_strdup_append(head, FALSE, rest) = once
                      /\ talloc_strdup_append_buffer(head, FALSE, rest) = once
                      /\ talloc_strdup_append(talloc_strndup(a, n), FALSE, rest) = talloc_strdup(a)
                      /\ talloc_vasprintf_append(talloc_strdup_append(NULL, FALSE, rest), FALSE, a) =
                           talloc_strdup_append_buffer(
                             talloc_vasprintf_append(NULL, FALSE, rest), FALSE, a)
                      /\ bufhead # NULL =>
                           talloc_strdup_append_buffer(bufhead, FALSE, rest) =
                             talloc_strdup_append_buffer(s, FALSE, a)
    BY Zenon DEF PiecesAddUp
  <2>1. s \in Seq(Nat) /\ Len(s) < MAX_TALLOC_SIZE /\ Clean(a) /\ n \in Nat /\ n <= Len(a)
    BY TrialInputs
  <2> HIDE DEF s, a, n
  <2>2. n \in 0..Len(a) /\ Len(a) \in Nat /\ a \in Seq(Nat)
    BY <2>1, CleanFacts DEF Clean
  <2>3. Clean(rest)
    BY <2>1, <2>2, CleanParts
  <2>4. /\ strlen(s) \in 0..Len(s) /\ BufferEnd(s) \in 0..Len(s)
        /\ \A i \in 1..strlen(s) : s[i] # NUL
    BY <2>1, BufferFacts
  <2>5. /\ once = Realloc(FALSE, Joined(s, strlen(s), a))
        /\ talloc_strdup_append_buffer(s, FALSE, a) = Realloc(FALSE, Joined(s, BufferEnd(s), a))
        /\ head = Realloc(FALSE, Joined(s, strlen(s), SubSeq(a, 1, n)))
        /\ bufhead = Realloc(FALSE, Joined(s, BufferEnd(s), SubSeq(a, 1, n)))
    <3>1. FALSE \in BOOLEAN
      OBVIOUS
    <3>2. /\ once = Realloc(FALSE, Joined(s, strlen(s), a))
          /\ talloc_strdup_append_buffer(s, FALSE, a) = Realloc(FALSE, Joined(s, BufferEnd(s), a))
      BY <2>1, <3>1, Appends, ZenonT(30)
    <3>3. /\ head = Realloc(FALSE, Joined(s, strlen(s), SubSeq(a, 1, n)))
          /\ bufhead = Realloc(FALSE, Joined(s, BufferEnd(s), SubSeq(a, 1, n)))
      BY <2>1, <2>2, <3>1, AppendsCut, ZenonT(30)
    <3> QED
      BY <3>2, <3>3, Zenon
  <2>6. ASSUME NEW t \in Seq(Nat), NEW m \in 0..Len(t), m <= strlen(s)
        PROVE  Alloc(Joined(t, m, a)) # NULL
    <3>1. Joined(t, m, a) \in Seq(Nat) /\ Len(Joined(t, m, a)) = m + Len(a) + 1
      BY <2>2, JoinedFacts, ZenonT(30)
    <3>2. ~(m + Len(a) + 1 >= MAX_TALLOC_SIZE)
      BY <2>2, <2>4, <2>6, Limits
    <3> QED
      BY <3>1, <3>2, StringAssumption, Zenon DEF Alloc
  <2>7. talloc_strdup_append(head, FALSE, rest) = once /\ talloc_strdup_append_buffer(head, FALSE, rest) = once
    <3>1. Alloc(Joined(s, strlen(s), a)) # NULL
      BY <2>1, <2>4, <2>6
    <3> QED
      <4> DEFINE m == strlen(s)
      <4>1. m \in 0..Len(s) /\ (\A i \in 1..m : s[i] # NUL) /\ Alloc(Joined(s, m, a)) # NULL
        BY <2>4, <3>1, Zenon
      <4> HIDE DEF m
      <4>2. /\ Realloc(FALSE, Joined(s, m, a)) = Joined(s, m, a)
            /\ Realloc(FALSE, Joined(s, m, SubSeq(a, 1, n))) = Joined(s, m, SubSeq(a, 1, n))
            /\ talloc_strdup_append(Joined(s, m, SubSeq(a, 1, n)), FALSE, rest) = Joined(s, m, a)
            /\ talloc_strdup_append_buffer(Joined(s, m, SubSeq(a, 1, n)), FALSE, rest)
                 = Joined(s, m, a)
        BY <2>1, <2>2, <4>1, TwoPieces, ZenonT(60)
      <4> QED
        BY <2>5, <4>2, Zenon DEF m
  <2>8. talloc_strdup_append(talloc_strndup(a, n), FALSE, rest) = talloc_strdup(a)
    <3>1. << >> \in Seq(Nat) /\ 0 \in 0..Len(<< >>) /\ \A i \in 1..0 : << >>[i] # NUL
      OBVIOUS
    <3>2. /\ talloc_strdup(a) = Alloc(Joined(<< >>, 0, a))
          /\ talloc_strndup(a, n) = Alloc(Joined(<< >>, 0, SubSeq(a, 1, n)))
      BY <2>1, <2>2, MadeAnew
    <3>3. Alloc(Joined(<< >>, 0, a)) # NULL
      <4>1. 0 <= strlen(s)
        BY <2>1, <2>4
      <4> QED
        BY <2>6, <3>1, <4>1, Zenon
    <3> QED
      <4>1. PICK e, m : e = << >> /\ m = 0
        OBVIOUS
      <4>2. /\ e \in Seq(Nat) /\ m \in 0..Len(e) /\ (\A i \in 1..m : e[i] # NUL)
            /\ Alloc(Joined(e, m, a)) # NULL
        BY <3>1, <3>3, <4>1, Zenon
      <4>3. /\ Alloc(Joined(e, m, a)) = Joined(e, m, a)
            /\ Alloc(Joined(e, m, SubSeq(a, 1, n))) = Joined(e, m, SubSeq(a, 1, n))
            /\ talloc_strdup_append(Joined(e, m, SubSeq(a, 1, n)), FALSE, rest) = Joined(e, m, a)
        BY <2>1, <2>2, <4>2, TwoPieces, ZenonT(60)
      <4> QED
        BY <3>2, <4>1, <4>3, Zenon
  <2>9. talloc_vasprintf_append(talloc_strdup_append(NULL, FALSE, rest), FALSE, a) =
          talloc_strdup_append_buffer(talloc_vasprintf_append(NULL, FALSE, rest), FALSE, a)
    <3>1. ~(Len(a) > INT_MAX)
      BY <2>2, <2>4, Limits
    <3> QED
      BY <2>1, <2>3, <3>1, AnewThenAppended
  <2>10. ASSUME bufhead # NULL
         PROVE  talloc_strdup_append_buffer(bufhead, FALSE, rest) =
                  talloc_strdup_append_buffer(s, FALSE, a)
    <3> DEFINE f == SubSeq(a, 1, n)
               h == Joined(s, BufferEnd(s), f)
    <3>1. f \in Seq(Nat) /\ Len(f) = n
      BY <2>2, Cut
    <3>2. h \in Seq(Nat) /\ Len(h) = BufferEnd(s) + n + 1
      <4> HIDE DEF f
      <4>1. h \in Seq(Nat) /\ Len(h) = BufferEnd(s) + Len(f) + 1
        BY <2>1, <2>4, <3>1, JoinedFacts, ZenonT(30)
      <4> QED
        BY <3>1, <4>1, Zenon
    <3>3. Len(h) > 0 /\ ~(Len(h) > UnsignedMax)
      <4>1. BufferEnd(s) + n + 1 > 0 /\ ~(BufferEnd(s) + n + 1 > UnsignedMax)
        <5>1. BufferEnd(s) \in Nat /\ BufferEnd(s) < MAX_TALLOC_SIZE /\ n < MAX_TALLOC_SIZE
          BY <2>1, <2>2, <2>4, Limits
        <5> QED
          BY <2>1, <5>1, Limits
      <4> QED
        BY <3>2, <4>1, Zenon
    <3> HIDE DEF h
    <3>4. bufhead = h
      BY <2>5, <2>10, <3>2, <3>3, ReallocFacts, ZenonT(30) DEF h
    <3>5. talloc_strdup_append_buffer(h, FALSE, rest) = Realloc(FALSE, Joined(s, BufferEnd(s), a))
      BY <2>1, <2>2, <2>4, TwoPiecesAtEnd DEF h
    <3> QED
      BY <2>5, <3>4, <3>5, Zenon
  <2> QED
    BY <2>7, <2>8, <2>9, <2>10
<1>6. Tried => AppendsRightly
  BY <1>3, <1>4, <1>5 DEF AppendsRightly
<1> QED
  BY <1>1, <1>2, <1>6, PTL DEF TrialSpec

-----------------------------------------------------------------------------
(* Walks along a pointer field *)

\* w is the walk of Along, of up to m steps.
WalkOf(f, m, w) ==
  w = [x \in Ptr \X (0..m) |->
         IF x[1] = NULL THEN {}
         ELSE {x[1]} \cup IF x[2] = 0 THEN {} ELSE w[<<f[x[1]], x[2] - 1>>]]

\* One step of it.
LEMMA WalkStep ==
  ASSUME NEW f \in [Chunk -> Ptr], NEW m \in Nat, NEW w, WalkOf(f, m, w)
  PROVE  \A d \in Chunk, n \in 0..m :
         /\ n = 0 => w[<<d, n>>] = {d}
         /\ n # 0 /\ f[d] = NULL => w[<<d, n>>] = {d}
         /\ n # 0 /\ f[d] # NULL => /\ n - 1 \in 0..m /\ f[d] \in Chunk
                                    /\ w[<<d, n>>] = {d} \cup w[<<f[d], n - 1>>]
<1> SUFFICES ASSUME NEW d \in Chunk, NEW n \in 0..m
             PROVE  /\ n = 0 => w[<<d, n>>] = {d}
                    /\ n # 0 /\ f[d] = NULL => w[<<d, n>>] = {d}
                    /\ n # 0 /\ f[d] # NULL => /\ n - 1 \in 0..m /\ f[d] \in Chunk
                                               /\ w[<<d, n>>] = {d} \cup w[<<f[d], n - 1>>]
  BY Zenon
<1>1. NULL \notin Chunk /\ d \in Ptr /\ f[d] \in Ptr /\ d # NULL
  BY TallocAssumption DEF Ptr
<1>2. \A e \in Ptr, k \in 0..m :
        w[<<e, k>>] = IF e = NULL THEN {}
                      ELSE {e} \cup IF k = 0 THEN {} ELSE w[<<f[e], k - 1>>]
  BY DEF WalkOf
<1>3. w[<<d, n>>] = {d} \cup IF n = 0 THEN {} ELSE w[<<f[d], n - 1>>]
  BY <1>1, <1>2, Zenon
<1>4. n # 0 => n - 1 \in 0..m
  OBVIOUS
<1>5. n # 0 /\ f[d] = NULL => w[<<f[d], n - 1>>] = {}
  BY <1>1, <1>2, <1>4, Zenon
<1> QED
  <2>1. n = 0 => w[<<d, n>>] = {d}
    BY <1>3, Zenon
  <2>2. n # 0 => w[<<d, n>>] = {d} \cup w[<<f[d], n - 1>>]
    BY <1>3, Zenon
  <2>3. f[d] # NULL => f[d] \in Chunk
    BY <1>1 DEF Ptr
  <2>4. n # 0 /\ f[d] = NULL => w[<<d, n>>] = {d}
    BY <1>5, <2>2, Zenon
  <2> QED
    BY <1>4, <2>1, <2>2, <2>3, <2>4, Zenon

\* Walking m steps along a pointer field, staying put at its end, gives such a walk.
LEMMA WalkExists ==
  ASSUME NEW f \in [Chunk -> Ptr], NEW m \in Nat
  PROVE  \E w : WalkOf(f, m, w)
<1> DEFINE T == {k \in Nat : ~\E w : WalkOf(f, k, w)}
<1> SUFFICES ASSUME T # {} PROVE FALSE
  OBVIOUS
<1>1. PICK k \in T : \A j \in T : k <= j
  BY Least
<1>2. CASE k = 0
  <2> DEFINE w == [x \in Ptr \X (0..0) |-> IF x[1] = NULL THEN {} ELSE {x[1]}]
  <2>1. WalkOf(f, 0, w)
    <3>1. \A x \in Ptr \X (0..0) : x[2] = 0
      OBVIOUS
    <3>2. \A x \in Ptr \X (0..0) :
            w[x] = IF x[1] = NULL THEN {}
                   ELSE {x[1]} \cup IF x[2] = 0 THEN {} ELSE w[<<f[x[1]], x[2] - 1>>]
      BY <3>1
    <3> QED
      BY <3>2, Zenon DEF WalkOf
  <2> QED
    BY <1>2, <2>1
<1>3. CASE k # 0
  <2>1. k - 1 \in Nat /\ k - 1 \notin T
    BY <1>1, <1>3
  <2>2. PICK v : WalkOf(f, k - 1, v)
    BY <2>1
  <2> DEFINE w == [x \in Ptr \X (0..k) |->
                     IF x[1] = NULL THEN {}
                     ELSE {x[1]} \cup IF x[2] = 0 THEN {} ELSE v[<<f[x[1]], x[2] - 1>>]]
  <2>3. \A x \in Ptr \X (0..k-1) : v[x] = w[x]
    <3>1. \A x \in Ptr \X (0..k-1) : x \in Ptr \X (0..k)
      BY <2>1
    <3>2. \A x \in Ptr \X (0..k-1) :
            v[x] = IF x[1] = NULL THEN {}
                   ELSE {x[1]} \cup IF x[2] = 0 THEN {} ELSE v[<<f[x[1]], x[2] - 1>>]
      BY <2>2, Zenon DEF WalkOf
    <3> QED
      BY <3>1, <3>2, Zenon
  <2>4. ASSUME NEW x \in Ptr \X (0..k), x[1] # NULL, x[2] # 0
        PROVE  v[<<f[x[1]], x[2] - 1>>] = w[<<f[x[1]], x[2] - 1>>]
    <3>1. f[x[1]] \in Ptr /\ x[2] - 1 \in 0..k-1
      <4>1. x[1] \in Ptr /\ x[2] \in 0..k
        OBVIOUS
      <4>2. x[1] \in Chunk
        BY <2>4, <4>1 DEF Ptr
      <4> QED
        BY <2>1, <2>4, <4>1, <4>2
    <3> QED
      BY <2>3, <3>1
  <2>5. WalkOf(f, k, w)
    <3>1. \A x \in Ptr \X (0..k) :
            w[x] = IF x[1] = NULL THEN {}
                   ELSE {x[1]} \cup IF x[2] = 0 THEN {} ELSE w[<<f[x[1]], x[2] - 1>>]
      BY <2>4, Zenon
    <3> QED
      BY <3>1, Zenon DEF WalkOf
  <2> QED
    BY <2>5
<1> QED
  BY <1>2, <1>3

\* S is left along f only at the end.
Closed(f, S) == \A d \in S : f[d] \in S \cup {NULL}

\* A walk of n steps from d that has not come to an end, and has not been anywhere twice.
OnTheWay(f, S, d, n) ==
  /\ Cardinality(S) > n
  /\ \E last \in S : \A e \in S \ {last} : f[e] \in (S \ {d}) \cup {NULL}

\* A walk stays in every closed set; it is one itself unless it has come to a new chunk
\* with every step.
LEMMA WalkFacts ==
  ASSUME NEW f \in [Chunk -> Ptr], NEW m \in Nat, NEW w, WalkOf(f, m, w),
         NEW n \in 0..m, NEW d \in Chunk
  PROVE  /\ w[<<d, n>>] \in SUBSET Chunk /\ d \in w[<<d, n>>]
         /\ \A S \in SUBSET Chunk : d \in S /\ Closed(f, S) => w[<<d, n>>] \subseteq S
         /\ Closed(f, w[<<d, n>>]) \/ OnTheWay(f, w[<<d, n>>], d, n)
<1>0. \A c \in Chunk, k \in 0..m :
        /\ k = 0 => w[<<c, k>>] = {c}
        /\ k # 0 /\ f[c] = NULL => w[<<c, k>>] = {c}
        /\ k # 0 /\ f[c] # NULL => /\ k - 1 \in 0..m /\ f[c] \in Chunk
                                   /\ w[<<c, k>>] = {c} \cup w[<<f[c], k - 1>>]
  BY WalkStep
<1> DEFINE P(k) == \A c \in Chunk :
             /\ w[<<c, k>>] \in SUBSET Chunk /\ c \in w[<<c, k>>]
             /\ \A S \in SUBSET Chunk : c \in S /\ Closed(f, S) => w[<<c, k>>] \subseteq S
             /\ Closed(f, w[<<c, k>>]) \/ OnTheWay(f, w[<<c, k>>], c, k)
           T == {k \in 0..m : ~P(k)}
<1> SUFFICES ASSUME T # {} PROVE FALSE
  <2>1. n \notin T => P(n)
    OBVIOUS
  <2> QED
    BY <2>1
<1>1. PICK k \in T : \A j \in T : k <= j
  <2>1. T \in SUBSET Nat
    OBVIOUS
  <2> QED
    BY <2>1, Least
<1>2. k \in 0..m /\ ~P(k) /\ k \in Nat
  OBVIOUS
<1>3. ASSUME k # 0 PROVE P(k - 1)
  <2>1. k - 1 \in 0..m /\ ~(k <= k - 1)
    BY <1>2, <1>3
  <2>2. k - 1 \notin T
    BY <1>1, <2>1
  <2> QED
    BY <2>1, <2>2
<1> HIDE DEF T
<1>4. ASSUME NEW c \in Chunk
      PROVE  /\ w[<<c, k>>] \in SUBSET Chunk /\ c \in w[<<c, k>>]
             /\ \A S \in SUBSET Chunk : c \in S /\ Closed(f, S) => w[<<c, k>>] \subseteq S
             /\ Closed(f, w[<<c, k>>]) \/ OnTheWay(f, w[<<c, k>>], c, k)
  <2> DEFINE V == w[<<c, k>>]
  <2>1. CASE k = 0
    <3>1. V = {c}
      <4>1. k \in 0..m /\ (k = 0 => w[<<c, k>>] = {c})
        BY <1>0, <1>2, Zenon
      <4> QED
        BY <2>1, <4>1
    <3>2. Cardinality({c}) = 1
      BY FS_Singleton
    <3>3. OnTheWay(f, V, c, k)
      BY <2>1, <3>1, <3>2 DEF OnTheWay
    <3> QED
      BY <3>1, <3>3
  <2>2. CASE k # 0 /\ f[c] = NULL
    <3>1. V = {c}
      <4>1. k # 0 /\ f[c] = NULL => w[<<c, k>>] = {c}
        BY <1>0, <1>2, Zenon
      <4> QED
        BY <2>2, <4>1
    <3>2. Closed(f, V)
      BY <2>2, <3>1 DEF Closed
    <3> QED
      BY <3>1, <3>2
  <2>3. CASE k # 0 /\ f[c] # NULL
    <3> DEFINE e == f[c]
               U == w[<<e, k - 1>>]
    <3>1. k - 1 \in 0..m /\ e \in Chunk /\ V = {c} \cup U
      BY <1>0, <1>2, <2>3
    <3>2. /\ U \in SUBSET Chunk /\ e \in U
          /\ \A S \in SUBSET Chunk : e \in S /\ Closed(f, S) => U \subseteq S
          /\ Closed(f, U) \/ OnTheWay(f, U, e, k - 1)
      BY <1>3, <2>3, <3>1
    <3> HIDE DEF U, V
    <3>3. V \in SUBSET Chunk /\ c \in V
      BY <3>1, <3>2
    <3>4. ASSUME NEW S \in SUBSET Chunk, c \in S, Closed(f, S) PROVE V \subseteq S
      <4>1. e \in S
        BY <2>3, <3>4 DEF Closed
      <4> QED
        BY <3>1, <3>2, <3>4, <4>1
    <3>5. CASE Closed(f, U)
      <4>1. Closed(f, V)
        BY <3>1, <3>2, <3>5 DEF Closed
      <4> QED
        BY <3>3, <3>4, <4>1 DEF V
    <3>6. CASE OnTheWay(f, U, e, k - 1)
      <4>1. PICK last \in U : \A x \in U \ {last} : f[x] \in (U \ {e}) \cup {NULL}
        BY <3>6 DEF OnTheWay
      <4>2. CASE c \in U
        <5>1. c = last
          BY <2>3, <4>1, <4>2
        <5>2. V = U
          BY <3>1, <4>2
        <5>3. Closed(f, V)
          BY <3>2, <4>1, <5>1, <5>2 DEF Closed
        <5> QED
          BY <3>3, <3>4, <5>3 DEF V
      <4>3. CASE c \notin U
        <5>1. IsFiniteSet(U) /\ Cardinality(U) \in Nat
          BY <3>2, TallocAssumption, FS_Subset, FS_CardinalityType
        <5>2. Cardinality(V) = Cardinality(U) + 1
          <6>1. V = U \cup {c}
            BY <3>1
          <6>2. Cardinality(U \cup {c}) = Cardinality(U) + 1
            BY <4>3, <5>1, FS_AddElement
          <6> QED
            BY <6>1, <6>2
        <5>3. Cardinality(V) > k
          BY <1>2, <3>6, <5>1, <5>2 DEF OnTheWay
        <5>4. \A x \in V \ {last} : f[x] \in (V \ {c}) \cup {NULL}
          BY <3>1, <3>2, <4>1, <4>3
        <5>5. OnTheWay(f, V, c, k)
          BY <3>1, <4>1, <5>3, <5>4 DEF OnTheWay
        <5> QED
          BY <3>3, <3>4, <5>5 DEF V
      <4> QED
        BY <4>2, <4>3
    <3> QED
      BY <3>2, <3>5, <3>6
  <2> QED
    BY <2>1, <2>2, <2>3
<1> QED
  BY <1>2, <1>4

\* Along(f, c) is the smallest closed set with c in it: MaxHops steps are enough.
LEMMA AlongFacts ==
  ASSUME NEW f \in [Chunk -> Ptr], NEW c \in Chunk
  PROVE  /\ Along(f, c) \in SUBSET Chunk /\ c \in Along(f, c)
         /\ \A S \in SUBSET Chunk : c \in S /\ Closed(f, S) => Along(f, c) \subseteq S
         /\ Closed(f, Along(f, c))
<1>1. MaxHops \in Nat
  BY TallocAssumption, FS_CardinalityType DEF MaxHops
<1> DEFINE w == CHOOSE v : WalkOf(f, MaxHops, v)
           A == w[<<c, MaxHops>>]
<1>2. WalkOf(f, MaxHops, w)
  <2>1. \E v : WalkOf(f, MaxHops, v)
    BY <1>1, WalkExists
  <2> QED
    BY <2>1, Zenon
<1>3. Along(f, c) = A
  BY DEF Along, WalkOf, Hops
<1> HIDE DEF w
<1>4. MaxHops \in 0..MaxHops
  BY <1>1
<1>5. /\ A \in SUBSET Chunk /\ c \in A
      /\ \A S \in SUBSET Chunk : c \in S /\ Closed(f, S) => A \subseteq S
      /\ Closed(f, A) \/ OnTheWay(f, A, c, MaxHops)
  BY <1>1, <1>2, <1>4, WalkFacts
<1> HIDE DEF A
<1>6. ~(Cardinality(A) > MaxHops)
  <2>1. IsFiniteSet(A) /\ Cardinality(A) <= MaxHops
    BY <1>5, TallocAssumption, FS_Subset DEF MaxHops
  <2>2. Cardinality(A) \in Nat
    BY <2>1, FS_CardinalityType
  <2> QED
    BY <1>1, <2>1, <2>2
<1>7. Closed(f, A)
  BY <1>5, <1>6 DEF OnTheWay
<1> QED
  BY <1>3, <1>5, <1>7

-----------------------------------------------------------------------------
(* The lists of children, as a forest *)

\* What memory can hold.
Heaps == [Chunk -> Header]

\* The chunks that are in a list of children, or roots: the live ones that are not being
\* freed, without the chunk x that is on its way from one list to another.
Listed(h, x) == {c \in Live(h) : ~h[c].loop /\ c # x}

\* The child pointer leads to the head of the list of children, which points back up.
ChildOK(h, x) ==
  \A c \in Live(h) : h[c].child # NULL =>
    /\ h[c].child \in Listed(h, x)
    /\ h[h[c].child].parent = c /\ h[h[c].child].prev = NULL

\* The next pointer leads to a brother further along the list, which points back.
NextOK(h, x, par, pos) ==
  \A c \in Listed(h, x) : h[c].next # NULL =>
    /\ h[c].next \in Listed(h, x) /\ h[h[c].next].prev = c
    /\ par[h[c].next] = par[c] /\ pos[c] < pos[h[c].next]

\* The prev pointer leads to a chunk that points forward again; only the head of a list has
\* a parent pointer.
PrevOK(h, x) ==
  \A c \in Listed(h, x) : h[c].prev # NULL =>
    /\ h[c].prev \in Listed(h, x) /\ h[h[c].prev].next = c /\ h[c].parent = NULL

\* The head of a list points to the parent of all of the list (_TLIST_ADD keeps the parent
\* pointer there alone), and that one has it as its child.
ParentOK(h, x, par) ==
  \A c \in Listed(h, x) :
    /\ h[c].prev = NULL => h[c].parent = par[c]
    /\ h[c].parent # NULL => h[c].parent \in Live(h) /\ h[h[c].parent].child = c

\* A parent is there, and is of a lower rank: no chunk is among its own ancestors.
ParOK(h, x, par, rank) ==
  \A c \in Listed(h, x) : par[c] # NULL => par[c] \in Live(h) /\ rank[par[c]] < rank[c]

\* No parent pointer, not even one left in freed memory, leads to memory that was never
\* handed out or to a handle.
OwnersOK(h) ==
  \A c \in Chunk : h[c].parent # NULL =>
     h[h[c].parent].state # "unused" /\ ~Handle(h, h[c].parent)

\* References: a live handle is in the refs of the chunk it keeps, has no references and no
\* children of its own and is never marked; and the refs of a chunk are handles of that chunk,
\* each once.
Refs(h) ==
  /\ \A c \in Live(h) : Handle(h, c) =>
       /\ h[c].ptr \in Live(h) /\ c \in Range(h[h[c].ptr].refs)
       /\ h[c].refs = << >> /\ h[c].child = NULL /\ ~h[c].loop
  /\ \A c \in Live(h) : \A x \in Range(h[c].refs) :
       x \in Live(h) /\ Handle(h, x) /\ h[x].ptr = c
  /\ \A c \in Live(h) : \A i, j \in DOMAIN h[c].refs : h[c].refs[i] = h[c].refs[j] => i = j

\* Frame i of the stack is in the middle of freeing its chunk...
Active(s, i) == s[i].fn = "free" /\ s[i].at # "entry"

\* ... and has gone past the destructor: the chunk is marked TALLOC_FLAG_LOOP.
Freeing(s, i) == s[i].fn = "free" /\ s[i].at \in {"kids", "kid"}

\* The shape of the stack: the innermost frame alone is at its entry, in its destructor or
\* between two children, those further out wait for a call to return, and the outermost alone
\* is talloc_free_children() or talloc_disable_null_tracking().
FrameOK(s) ==
  \A i \in DOMAIN s :
    /\ s[i].at \in {"entry", "destructor"} => i = 1 /\ s[i].fn = "free"
    /\ s[i].at = "destructor2" => s[i].fn = "free"
    /\ s[i].at = "kids" => i = 1 \/ s[i].fn = "untrack"
    /\ s[i].at = "kid" => i > 1
    /\ s[i].fn # "free" => i = Len(s)
    /\ s[i].fn = "untrack" => s[i].at = "kids"

\* Frames and marks agree: the chunk of a frame that is freeing is live, unreferenced and
\* marked as far as the frame has come, no two such frames are about the same chunk, and a
\* chunk that is marked, or whose destructor runs, is the chunk of such a frame.
ActiveOK(h, s) ==
  /\ \A i \in DOMAIN s : Active(s, i) =>
       /\ s[i].tc \in Live(h) /\ h[s[i].tc].refs = << >> /\ ~Handle(h, s[i].tc)
       /\ h[s[i].tc].loop <=> Freeing(s, i)
       /\ ~Freeing(s, i) => h[s[i].tc].destructor = "busy"
  /\ \A i, j \in DOMAIN s : Active(s, i) /\ Active(s, j) /\ s[i].tc = s[j].tc => i = j
  /\ \A c \in Chunk : h[c].loop \/ h[c].destructor = "busy" =>
       \E i \in DOMAIN s : Active(s, i) /\ s[i].tc = c

\* What a call is given is live when it begins, talloc_free_children() looks for the next child
\* of a live chunk, and the owner that was chosen for a child is no handle.
CalledOK(h, s) ==
  \A i \in DOMAIN s :
    /\ s[i].at = "entry" => s[i].tc \in Live(h)
    /\ s[i].fn = "free_children" /\ s[i].at = "kids" => s[i].tc \in Live(h)
    /\ s[i].fn = "free_children" => h[s[i].tc].state # "unused"
    /\ s[i].new # NULL => ~Handle(h, s[i].new)

\* null_context is live until talloc_disable_null_tracking() has freed it, it is no handle, and
\* no other call is about it.
NullOK(h, s, n) ==
  /\ n # NULL => n \in Live(h) \/ (s # << >> /\ s[1].fn = "untrack")
  /\ n # NULL => ~Handle(h, n)
  /\ \A i \in DOMAIN s : s[i].fn = "untrack" => n # NULL /\ s[i].tc = n
  /\ \A i \in DOMAIN s : s[i].tc = n => s[Len(s)].fn = "untrack" /\ i >= Len(s) - 1

\* What is being freed keeps the prev pointer it had; that never leads to a chunk that a call
\* further out is freeing, or to itself.
BehindOK(h, s) ==
  \A i, j \in DOMAIN s : Freeing(s, i) /\ Freeing(s, j) /\ i <= j => h[s[i].tc].prev # s[j].tc

\* What the calls in progress say of memory.
Stacked(h, s, n) == FrameOK(s) /\ ActiveOK(h, s) /\ CalledOK(h, s) /\ NullOK(h, s, n) /\ BehindOK(h, s)

\* What the library does to the links leaves the rest of every chunk alone.
OnlyLinks(h, g) ==
  \A d \in Chunk :
    /\ g[d].state = h[d].state /\ g[d].loop = h[d].loop /\ g[d].refs = h[d].refs
    /\ g[d].ptr = h[d].ptr /\ g[d].destructor = h[d].destructor

-----------------------------------------------------------------------------
(* What the list macros do to the links *)

\* A header with a new link is a header.
LEMMA HeaderWith ==
  ASSUME NEW r \in Header, NEW v \in Ptr
  PROVE  /\ [r EXCEPT !.next = v] \in Header /\ [r EXCEPT !.prev = v] \in Header
         /\ [r EXCEPT !.parent = v] \in Header /\ [r EXCEPT !.child = v] \in Header
<1>1. [r EXCEPT !.next = v] \in Header
  BY DEF Header
<1>2. [r EXCEPT !.prev = v] \in Header
  BY DEF Header
<1>3. [r EXCEPT !.parent = v] \in Header
  BY DEF Header
<1>4. [r EXCEPT !.child = v] \in Header
  BY DEF Header
<1> QED
  BY <1>1, <1>2, <1>3, <1>4

\* From h to g, the next pointer of c becomes v, and nothing else changes.
OnlyNext(h, g, c, v) ==
  /\ g \in Heaps /\ OnlyLinks(h, g)
  /\ \A d \in Chunk \ {c} : g[d] = h[d]
  /\ \A d \in Chunk :
       /\ g[d].next = IF d = c THEN v ELSE h[d].next
       /\ g[d].prev = h[d].prev /\ g[d].parent = h[d].parent /\ g[d].child = h[d].child

\* The same of the prev pointer,
OnlyPrev(h, g, c, v) ==
  /\ g \in Heaps /\ OnlyLinks(h, g)
  /\ \A d \in Chunk \ {c} : g[d] = h[d]
  /\ \A d \in Chunk :
       /\ g[d].prev = IF d = c THEN v ELSE h[d].prev
       /\ g[d].next = h[d].next /\ g[d].parent = h[d].parent /\ g[d].child = h[d].child

\* of the parent pointer,
OnlyParent(h, g, c, v) ==
  /\ g \in Heaps /\ OnlyLinks(h, g)
  /\ \A d \in Chunk \ {c} : g[d] = h[d]
  /\ \A d \in Chunk :
       /\ g[d].parent = IF d = c THEN v ELSE h[d].parent
       /\ g[d].next = h[d].next /\ g[d].prev = h[d].prev /\ g[d].child = h[d].child

\* and of the child pointer.
OnlyChild(h, g, c, v) ==
  /\ g \in Heaps /\ OnlyLinks(h, g)
  /\ \A d \in Chunk \ {c} : g[d] = h[d]
  /\ \A d \in Chunk :
       /\ g[d].child = IF d = c THEN v ELSE h[d].child
       /\ g[d].next = h[d].next /\ g[d].prev = h[d].prev /\ g[d].parent = h[d].parent

\* The assignments the list macros of talloc.c are made of change one link each.
LEMMA SetLinks ==
  ASSUME NEW h \in Heaps, NEW c \in Ptr, NEW v \in Ptr
  PROVE  /\ OnlyNext(h, SetNext(h, c, v), c, v)
         /\ OnlyPrev(h, SetPrev(h, c, v), c, v)
         /\ OnlyParent(h, SetParent(h, c, v), c, v)
         /\ OnlyChild(h, SetChild(h, c, v), c, v)
<1>0. NULL \notin Chunk
  BY TallocAssumption
<1>1. c # NULL => h[c] \in Header
  BY DEF Heaps, Ptr
<1>2. /\ SetNext(h, c, v) \in Heaps /\ SetPrev(h, c, v) \in Heaps
      /\ SetParent(h, c, v) \in Heaps /\ SetChild(h, c, v) \in Heaps
  BY <1>1, HeaderWith DEF SetNext, SetPrev, SetParent, SetChild, Heaps
<1>3. OnlyLinks(h, SetNext(h, c, v)) /\ OnlyLinks(h, SetPrev(h, c, v))
  BY <1>0 DEF SetNext, SetPrev, Heaps, Header, Ptr, OnlyLinks
<1>4. OnlyLinks(h, SetParent(h, c, v)) /\ OnlyLinks(h, SetChild(h, c, v))
  BY <1>0 DEF SetParent, SetChild, Heaps, Header, Ptr, OnlyLinks
<1>5. OnlyNext(h, SetNext(h, c, v), c, v)
  BY <1>0, <1>2, <1>3 DEF OnlyNext, SetNext, Heaps, Header, Ptr
<1>6. OnlyPrev(h, SetPrev(h, c, v), c, v)
  BY <1>0, <1>2, <1>3 DEF OnlyPrev, SetPrev, Heaps, Header, Ptr
<1>7. OnlyParent(h, SetParent(h, c, v), c, v)
  BY <1>0, <1>2, <1>4 DEF OnlyParent, SetParent, Heaps, Header, Ptr
<1>8. OnlyChild(h, SetChild(h, c, v), c, v)
  BY <1>0, <1>2, <1>4 DEF OnlyChild, SetChild, Heaps, Header, Ptr
<1> QED
  BY <1>5, <1>6, <1>7, <1>8, Zenon

\* Taking a chunk out of its list, link by link.
LEMMA UnhookLinks ==
  ASSUME NEW h \in Heaps, NEW c \in Chunk, h[c].next # c,
         h[c].parent # NULL => h[h[c].parent].child = c /\ h[c].prev = NULL
  PROVE  /\ Unhook(h, c) \in Heaps /\ OnlyLinks(h, Unhook(h, c))
         /\ \A d \in Chunk :
              /\ d # c => Unhook(h, c)[d].next = IF d = h[c].prev THEN h[c].next ELSE h[d].next
              /\ Unhook(h, c)[d].prev = IF d = h[c].next THEN h[c].prev ELSE h[d].prev
              /\ Unhook(h, c)[d].child = IF d = h[c].parent THEN h[c].next ELSE h[d].child
              /\ Unhook(h, c)[d].parent =
                   IF d = h[c].next /\ h[c].parent # NULL THEN h[c].parent ELSE h[d].parent
<1> DEFINE p == h[c].parent
           n == h[c].next
           v == h[c].prev
           g == Unhook(h, c)
<1>0. NULL \in Ptr /\ NULL \notin Chunk /\ c \in Ptr /\ c # NULL
  BY TallocAssumption DEF Ptr
<1>1. p \in Ptr /\ n \in Ptr /\ v \in Ptr
  BY DEF Heaps, Header
<1>2. CASE p = NULL
  <2> DEFINE a == SetNext(h, v, n)
             b == SetPrev(a, n, v)
  <2>1. OnlyNext(h, a, v, n)
    BY <1>1, SetLinks
  <2>2. OnlyPrev(a, b, n, v)
    <3>1. a \in Heaps
      BY <2>1 DEF OnlyNext
    <3> QED
      BY <1>1, <3>1, SetLinks
  <2>3. g = b
    BY <1>2 DEF Unhook, Bypass
  <2> HIDE DEF a, b, g, n, v, p
  <2>4. OnlyLinks(h, g)
    BY <2>1, <2>2, <2>3 DEF OnlyLinks, OnlyNext, OnlyPrev
  <2>5. \A d \in Chunk : d # p
    BY <1>0, <1>2
  <2>6. \A d \in Chunk :
              /\ d # c => g[d].next = IF d = v THEN n ELSE h[d].next
              /\ g[d].prev = IF d = n THEN v ELSE h[d].prev
              /\ g[d].child = IF d = p THEN n ELSE h[d].child
              /\ g[d].parent = IF d = n /\ p # NULL THEN p ELSE h[d].parent
    BY <1>2, <2>1, <2>2, <2>3, <2>5 DEF OnlyNext, OnlyPrev
  <2> QED
    BY <2>2, <2>3, <2>4, <2>6 DEF g, n, v, p, OnlyPrev
<1>3. CASE p # NULL
  <2> DEFINE a == SetChild(h, p, n)
             b == SetPrev(a, n, NULL)
             e == SetNext(b, c, NULL)
             k == SetPrev(e, c, NULL)
             m == SetParent(k, n, p)
  <2>0. p \in Chunk /\ v = NULL /\ h[p].child = c
    BY <1>1, <1>3 DEF Ptr
  <2>1. OnlyChild(h, a, p, n)
    BY <1>1, SetLinks
  <2>2. OnlyPrev(a, b, n, NULL)
    <3>1. a \in Heaps
      BY <2>1 DEF OnlyChild
    <3> QED
      BY <1>0, <1>1, <3>1, SetLinks
  <2>3. OnlyNext(b, e, c, NULL)
    <3>1. b \in Heaps
      BY <2>2 DEF OnlyPrev
    <3> QED
      BY <1>0, <3>1, SetLinks
  <2>4. OnlyPrev(e, k, c, NULL)
    <3>1. e \in Heaps
      BY <2>3 DEF OnlyNext
    <3> QED
      BY <1>0, <3>1, SetLinks
  <2>5. OnlyParent(k, m, n, p)
    <3>1. k \in Heaps
      BY <2>4 DEF OnlyPrev
    <3> QED
      BY <1>1, <3>1, SetLinks
  <2>6. g = m
    <3>1. [b EXCEPT ![c].next = NULL, ![c].prev = NULL] = k
      BY <1>0 DEF SetNext, SetPrev
    <3>2. k[p].child = n
      <4> HIDE DEF a, b, e, k, n, v, p
      <4> QED
        BY <2>0, <2>1, <2>2, <2>3, <2>4 DEF OnlyNext, OnlyPrev, OnlyChild
    <3>3. TListRemove(h, p, c) = k
      BY <2>0, <3>1, Zenon DEF TListRemove
    <3> HIDE DEF k
    <3> QED
      BY <1>3, <3>2, <3>3 DEF Unhook
  <2> HIDE DEF a, b, e, k, m, g, n, v, p
  <2>7. OnlyLinks(h, g)
    <3>1. OnlyLinks(h, b)
      BY <2>1, <2>2 DEF OnlyLinks, OnlyChild, OnlyPrev
    <3>2. OnlyLinks(b, k)
      BY <2>3, <2>4 DEF OnlyLinks, OnlyNext, OnlyPrev
    <3> QED
      BY <2>5, <2>6, <3>1, <3>2 DEF OnlyLinks, OnlyParent
  <2>8. \A d \in Chunk :
              /\ d # c => g[d].next = IF d = v THEN n ELSE h[d].next
              /\ g[d].prev = IF d = n THEN v ELSE h[d].prev
              /\ g[d].child = IF d = p THEN n ELSE h[d].child
              /\ g[d].parent = IF d = n /\ p # NULL THEN p ELSE h[d].parent
    <3> SUFFICES ASSUME NEW d \in Chunk
                 PROVE  /\ d # c => g[d].next = IF d = v THEN n ELSE h[d].next
                        /\ g[d].prev = IF d = n THEN v ELSE h[d].prev
                        /\ g[d].child = IF d = p THEN n ELSE h[d].child
                        /\ g[d].parent = IF d = n /\ p # NULL THEN p ELSE h[d].parent
      OBVIOUS
    <3>1. d # c => g[d].next = IF d = v THEN n ELSE h[d].next
      BY <1>0, <2>0, <2>1, <2>2, <2>3, <2>4, <2>5, <2>6 DEF OnlyNext, OnlyPrev, OnlyParent, OnlyChild
    <3>2. g[d].prev = IF d = n THEN v ELSE h[d].prev
      BY <1>0, <2>0, <2>1, <2>2, <2>3, <2>4, <2>5, <2>6 DEF v, OnlyNext, OnlyPrev, OnlyParent, OnlyChild
    <3>3. g[d].child = IF d = p THEN n ELSE h[d].child
      BY <1>0, <2>0, <2>1, <2>2, <2>3, <2>4, <2>5, <2>6 DEF OnlyNext, OnlyPrev, OnlyParent, OnlyChild
    <3>4. g[d].parent = IF d = n /\ p # NULL THEN p ELSE h[d].parent
      BY <1>3, <2>0, <2>1, <2>2, <2>3, <2>4, <2>5, <2>6 DEF OnlyNext, OnlyPrev, OnlyParent, OnlyChild
    <3> QED
      BY <3>1, <3>2, <3>3, <3>4
  <2> QED
    BY <2>5, <2>6, <2>7, <2>8 DEF g, n, v, p, OnlyParent
<1> QED
  BY <1>2, <1>3

\* Putting a chunk in front of a list, link by link.
LEMMA HookLinks ==
  ASSUME NEW h \in Heaps, NEW p \in Chunk, NEW c \in Chunk, h[p].child # c
  PROVE  /\ Hook(h, p, c) \in Heaps /\ OnlyLinks(h, Hook(h, p, c))
         /\ \A d \in Chunk :
              /\ Hook(h, p, c)[d].next = IF d = c THEN h[p].child ELSE h[d].next
              /\ Hook(h, p, c)[d].prev = IF d = c THEN NULL
                                         ELSE IF d = h[p].child THEN c ELSE h[d].prev
              /\ Hook(h, p, c)[d].child = IF d = p THEN c ELSE h[d].child
              /\ Hook(h, p, c)[d].parent = IF d = c THEN p
                                           ELSE IF d = h[p].child THEN NULL ELSE h[d].parent
<1> DEFINE k == h[p].child
           g == Hook(h, p, c)
           a == SetParent(h, k, NULL)
           b == SetPrev(a, k, c)
           e == SetNext(b, c, k)
           m == SetPrev(e, c, NULL)
           n == SetParent(m, c, p)
           q == SetChild(n, p, c)
<1>0. NULL \in Ptr /\ NULL \notin Chunk /\ c \in Ptr /\ c # NULL /\ p \in Ptr /\ p # NULL
  BY TallocAssumption DEF Ptr
<1>1. k \in Ptr
  BY DEF Heaps, Header
<1>2. OnlyParent(h, a, k, NULL)
  BY <1>0, <1>1, SetLinks
<1>3. OnlyPrev(a, b, k, c)
  <2>1. a \in Heaps
    BY <1>2 DEF OnlyParent
  <2> QED
    BY <1>0, <1>1, <2>1, SetLinks
<1>4. OnlyNext(b, e, c, k)
  <2>1. b \in Heaps
    BY <1>3 DEF OnlyPrev
  <2> QED
    BY <1>0, <1>1, <2>1, SetLinks
<1>5. OnlyPrev(e, m, c, NULL)
  <2>1. e \in Heaps
    BY <1>4 DEF OnlyNext
  <2> QED
    BY <1>0, <2>1, SetLinks
<1>6. OnlyParent(m, n, c, p)
  <2>1. m \in Heaps
    BY <1>5 DEF OnlyPrev
  <2> QED
    BY <1>0, <2>1, SetLinks
<1>7. OnlyChild(n, q, p, c)
  <2>1. n \in Heaps
    BY <1>6 DEF OnlyParent
  <2> QED
    BY <1>0, <2>1, SetLinks
<1>8. g = q
  <2> HIDE DEF b
  <2>1. [b EXCEPT ![c].next = k, ![c].prev = NULL, ![c].parent = p, ![p].child = c] = q
    BY <1>0 DEF SetNext, SetPrev, SetParent, SetChild
  <2> QED
    BY <2>1 DEF Hook, b
<1> HIDE DEF k, g, a, b, e, m, n, q
<1>9. OnlyLinks(h, g)
  <2>1. OnlyLinks(h, b)
    BY <1>2, <1>3 DEF OnlyLinks, OnlyParent, OnlyPrev
  <2>2. OnlyLinks(b, m)
    BY <1>4, <1>5 DEF OnlyLinks, OnlyNext, OnlyPrev
  <2>3. OnlyLinks(m, g)
    BY <1>6, <1>7, <1>8 DEF OnlyLinks, OnlyParent, OnlyChild
  <2> QED
    BY <2>1, <2>2, <2>3 DEF OnlyLinks
<1>10. ASSUME NEW d \in Chunk
       PROVE  /\ g[d].next = IF d = c THEN k ELSE h[d].next
              /\ g[d].prev = IF d = c THEN NULL ELSE IF d = k THEN c ELSE h[d].prev
              /\ g[d].child = IF d = p THEN c ELSE h[d].child
              /\ g[d].parent = IF d = c THEN p ELSE IF d = k THEN NULL ELSE h[d].parent
  <2>1. g[d].next = IF d = c THEN k ELSE h[d].next
    BY <1>2, <1>3, <1>4, <1>5, <1>6, <1>7, <1>8 DEF OnlyNext, OnlyPrev, OnlyParent, OnlyChild
  <2>2. g[d].prev = IF d = c THEN NULL ELSE IF d = k THEN c ELSE h[d].prev
    BY <1>2, <1>3, <1>4, <1>5, <1>6, <1>7, <1>8 DEF OnlyNext, OnlyPrev, OnlyParent, OnlyChild
  <2>3. g[d].child = IF d = p THEN c ELSE h[d].child
    BY <1>2, <1>3, <1>4, <1>5, <1>6, <1>7, <1>8 DEF OnlyNext, OnlyPrev, OnlyParent, OnlyChild
  <2>4. g[d].parent = IF d = c THEN p ELSE IF d = k THEN NULL ELSE h[d].parent
    BY <1>2, <1>3, <1>4, <1>5, <1>6, <1>7, <1>8 DEF OnlyNext, OnlyPrev, OnlyParent, OnlyChild
  <2> QED
    BY <2>1, <2>2, <2>3, <2>4
<1>11. g \in Heaps
  BY <1>7, <1>8 DEF OnlyChild
<1> QED
  BY <1>9, <1>10, <1>11 DEF g, k

\* Memory that was never handed out, and memory that was freed, has a header.
LEMMA HeaderBlank == Unused \in Header /\ Freed \in Header
<1>1. Unused \in Header
  BY DEF Unused, Header, Ptr
<1> QED
  BY <1>1 DEF Freed, Header

\* Moving a chunk to another address, link by link.
LEMMA MovedLinks ==
  ASSUME NEW h \in Heaps, NEW c \in Chunk, NEW d \in Chunk, c # d,
         {h[c].next, h[c].prev, h[c].child, h[c].parent} \cap {c, d} = {}
  PROVE  /\ Moved(h, c, d) \in Heaps
         /\ Moved(h, c, d)[c] = Freed /\ Moved(h, c, d)[d] = h[c]
         /\ \A e \in Chunk \ {c, d} :
              /\ Moved(h, c, d)[e].next = IF e = h[c].prev THEN d ELSE h[e].next
              /\ Moved(h, c, d)[e].prev = IF e = h[c].next THEN d ELSE h[e].prev
              /\ Moved(h, c, d)[e].child = IF e = h[c].parent THEN d ELSE h[e].child
              /\ Moved(h, c, d)[e].parent = IF e = h[c].child THEN d ELSE h[e].parent
              /\ Moved(h, c, d)[e].state = h[e].state /\ Moved(h, c, d)[e].loop = h[e].loop
              /\ Moved(h, c, d)[e].refs = h[e].refs /\ Moved(h, c, d)[e].ptr = h[e].ptr
              /\ Moved(h, c, d)[e].destructor = h[e].destructor
<1> DEFINE f == [h EXCEPT ![d] = h[c], ![c] = Freed]
           a == SetChild(f, h[c].parent, d)
           b == SetParent(a, h[c].child, d)
           i == SetNext(b, h[c].prev, d)
           j == SetPrev(i, h[c].next, d)
           m == Moved(h, c, d)
<1>0. d \in Ptr /\ h[c].next \in Ptr /\ h[c].prev \in Ptr /\ h[c].child \in Ptr /\ h[c].parent \in Ptr
  BY DEF Heaps, Header, Ptr
<1>1. Freed \in Header
  BY HeaderBlank
<1>2. f \in Heaps /\ f[c] = Freed /\ f[d] = h[c] /\ \A e \in Chunk \ {c, d} : f[e] = h[e]
  BY <1>1 DEF Heaps
<1> HIDE DEF f
<1>3. OnlyChild(f, a, h[c].parent, d)
  BY <1>0, <1>2, SetLinks
<1>4. OnlyParent(a, b, h[c].child, d)
  <2>1. a \in Heaps
    BY <1>3 DEF OnlyChild
  <2> QED
    BY <1>0, <2>1, SetLinks
<1>5. OnlyNext(b, i, h[c].prev, d)
  <2>1. b \in Heaps
    BY <1>4 DEF OnlyParent
  <2> QED
    BY <1>0, <2>1, SetLinks
<1>6. OnlyPrev(i, j, h[c].next, d)
  <2>1. i \in Heaps
    BY <1>5 DEF OnlyNext
  <2> QED
    BY <1>0, <2>1, SetLinks
<1>7. m = j
  BY <1>2 DEF Moved, f
<1> HIDE DEF a, b, i, j, m
<1>8. ASSUME NEW e \in Chunk
      PROVE  /\ m[e].next = IF e = h[c].prev THEN d ELSE f[e].next
             /\ m[e].prev = IF e = h[c].next THEN d ELSE f[e].prev
             /\ m[e].child = IF e = h[c].parent THEN d ELSE f[e].child
             /\ m[e].parent = IF e = h[c].child THEN d ELSE f[e].parent
             /\ m[e].state = f[e].state /\ m[e].loop = f[e].loop
             /\ m[e].refs = f[e].refs /\ m[e].ptr = f[e].ptr
             /\ m[e].destructor = f[e].destructor
  <2>1. m[e].next = IF e = h[c].prev THEN d ELSE f[e].next
    BY <1>3, <1>4, <1>5, <1>6, <1>7 DEF OnlyNext, OnlyPrev, OnlyParent, OnlyChild
  <2>2. m[e].prev = IF e = h[c].next THEN d ELSE f[e].prev
    BY <1>3, <1>4, <1>5, <1>6, <1>7 DEF OnlyNext, OnlyPrev, OnlyParent, OnlyChild
  <2>3. m[e].child = IF e = h[c].parent THEN d ELSE f[e].child
    BY <1>3, <1>4, <1>5, <1>6, <1>7 DEF OnlyNext, OnlyPrev, OnlyParent, OnlyChild
  <2>4. m[e].parent = IF e = h[c].child THEN d ELSE f[e].parent
    BY <1>3, <1>4, <1>5, <1>6, <1>7 DEF OnlyNext, OnlyPrev, OnlyParent, OnlyChild
  <2>5. OnlyLinks(f, a) /\ OnlyLinks(a, b) /\ OnlyLinks(b, i) /\ OnlyLinks(i, m)
    BY <1>3, <1>4, <1>5, <1>6, <1>7 DEF OnlyNext, OnlyPrev, OnlyParent, OnlyChild
  <2>6. /\ m[e].state = f[e].state /\ m[e].loop = f[e].loop
        /\ m[e].refs = f[e].refs /\ m[e].ptr = f[e].ptr
        /\ m[e].destructor = f[e].destructor
    BY <2>5 DEF OnlyLinks
  <2> QED
    BY <2>1, <2>2, <2>3, <2>4, <2>6
<1>9. m \in Heaps
  BY <1>6, <1>7 DEF OnlyPrev
<1>10. ASSUME NEW e \in {c, d} PROVE m[e] = f[e]
  <2>1. e \in Chunk /\ e \notin {h[c].next, h[c].prev, h[c].child, h[c].parent}
    OBVIOUS
  <2> QED
    BY <1>3, <1>4, <1>5, <1>6, <1>7, <2>1 DEF OnlyNext, OnlyPrev, OnlyParent, OnlyChild
<1>12. m[c] = Freed /\ m[d] = h[c]
  BY <1>2, <1>10
<1>13. \A e \in Chunk \ {c, d} :
              /\ m[e].next = IF e = h[c].prev THEN d ELSE h[e].next
              /\ m[e].prev = IF e = h[c].next THEN d ELSE h[e].prev
              /\ m[e].child = IF e = h[c].parent THEN d ELSE h[e].child
              /\ m[e].parent = IF e = h[c].child THEN d ELSE h[e].parent
              /\ m[e].state = h[e].state /\ m[e].loop = h[e].loop
              /\ m[e].refs = h[e].refs /\ m[e].ptr = h[e].ptr
              /\ m[e].destructor = h[e].destructor
  BY <1>2, <1>8
<1> QED
  BY <1>9, <1>12, <1>13 DEF m

-----------------------------------------------------------------------------
(* Out of a list and into a list *)

\* The lists of children form a forest: par gives every chunk its parent, pos its place in the
\* list and rank its depth.
Forest(h, x, par, pos, rank) ==
  /\ ChildOK(h, x) /\ NextOK(h, x, par, pos) /\ PrevOK(h, x)
  /\ ParentOK(h, x, par) /\ ParOK(h, x, par, rank)

\* Out of the list: the others still form a forest.
LEMMA UnhookForest ==
  ASSUME NEW h \in Heaps, NEW c \in Listed(h, NULL),
         NEW par \in [Chunk -> Ptr], NEW pos \in [Chunk -> Nat], NEW rank \in [Chunk -> Nat],
         Forest(h, NULL, par, pos, rank)
  PROVE  /\ Unhook(h, c) \in Heaps /\ OnlyLinks(h, Unhook(h, c))
         /\ Forest(Unhook(h, c), c, par, pos, rank)
         /\ Unhook(h, c)[c].child = h[c].child /\ Unhook(h, c)[c].prev = h[c].prev
         /\ \A d \in Chunk : Unhook(h, c)[d].parent \in {h[d].parent, h[c].parent}
         /\ \A d \in Chunk : h[d].child = NULL => Unhook(h, c)[d].child = NULL
         /\ \A d \in Chunk \ Listed(h, NULL) :
              Unhook(h, c)[d].prev = h[d].prev /\ Unhook(h, c)[d].parent = h[d].parent
<1> DEFINE p == h[c].parent
           n == h[c].next
           v == h[c].prev
           g == Unhook(h, c)
<1>0. NULL \notin Chunk /\ c \in Chunk /\ c \in Live(h)
  BY TallocAssumption DEF Listed, Live
<1>1. /\ n # NULL => n \in Listed(h, NULL) /\ h[n].prev = c /\ par[n] = par[c] /\ pos[c] < pos[n]
      /\ v # NULL => v \in Listed(h, NULL) /\ h[v].next = c /\ p = NULL
      /\ p # NULL => p \in Live(h) /\ h[p].child = c
      /\ v = NULL => p = par[c]
  BY DEF Forest, NextOK, PrevOK, ParentOK
<1>2. Listed(h, NULL) \subseteq Chunk /\ Live(h) \subseteq Chunk
  BY DEF Listed, Live
<1>3. n # c /\ v # c
  BY <1>0, <1>1, <1>2
<1>4. n \in Ptr /\ v \in Ptr /\ p \in Ptr
  BY <1>0 DEF Heaps, Header
<1>5. /\ g \in Heaps /\ OnlyLinks(h, g)
      /\ \A d \in Chunk :
              /\ d # c => g[d].next = IF d = v THEN n ELSE h[d].next
              /\ g[d].prev = IF d = n THEN v ELSE h[d].prev
              /\ g[d].child = IF d = p THEN n ELSE h[d].child
              /\ g[d].parent = IF d = n /\ p # NULL THEN p ELSE h[d].parent
  <2>1. p # NULL => h[p].child = c /\ v = NULL
    BY <1>1
  <2> QED
    BY <1>0, <1>3, <2>1, UnhookLinks
<1> HIDE DEF g, n, v, p
<1>6. Live(g) = Live(h) /\ Listed(g, c) = Listed(h, NULL) \ {c}
  BY <1>0, <1>5 DEF Live, Listed, OnlyLinks
<1>7. p # c
  <2>1. p # NULL => par[c] = p /\ rank[p] < rank[c]
    BY <1>1 DEF Forest, ParOK, p
  <2> QED
    BY <1>0, <1>4, <2>1 DEF Ptr
<1>8. ChildOK(g, c)
  <2> SUFFICES ASSUME NEW d \in Live(g), g[d].child # NULL
               PROVE  /\ g[d].child \in Listed(g, c)
                      /\ g[g[d].child].parent = d /\ g[g[d].child].prev = NULL
    BY DEF ChildOK
  <2>1. d \in Chunk /\ d \in Live(h)
    BY <1>2, <1>6
  <2>2. CASE d = p
    <3>1. g[d].child = n /\ n # NULL /\ n \in Listed(h, NULL) /\ n # c
      BY <1>1, <1>3, <1>5, <2>1, <2>2
    <3>2. p # NULL /\ v = NULL
      BY <1>0, <1>1, <2>1, <2>2 DEF p
    <3> QED
      BY <1>2, <1>5, <1>6, <2>2, <3>1, <3>2
  <2>3. CASE d # p
    <3>1. g[d].child = h[d].child /\ h[d].child \in Listed(h, NULL) /\ h[h[d].child].parent = d
          /\ h[h[d].child].prev = NULL
      BY <1>5, <2>1, <2>3 DEF Forest, ChildOK
    <3>2. h[d].child # c
      BY <2>3, <3>1 DEF p
    <3>3. h[d].child # n
      BY <1>0, <1>1, <1>2, <3>1
    <3> QED
      BY <1>2, <1>5, <1>6, <3>1, <3>2, <3>3
  <2> QED
    BY <2>2, <2>3
<1>9. NextOK(g, c, par, pos)
  <2> SUFFICES ASSUME NEW d \in Listed(g, c), g[d].next # NULL
               PROVE  /\ g[d].next \in Listed(g, c) /\ g[g[d].next].prev = d
                      /\ par[g[d].next] = par[d] /\ pos[d] < pos[g[d].next]
    BY DEF NextOK
  <2>1. d \in Chunk /\ d \in Listed(h, NULL) /\ d # c
    BY <1>2, <1>6
  <2>2. h[d].next # NULL => /\ h[d].next \in Listed(h, NULL) /\ h[h[d].next].prev = d
                            /\ par[h[d].next] = par[d] /\ pos[d] < pos[h[d].next]
    BY <2>1 DEF Forest, NextOK
  <2>3. CASE d = v
    <3>1. g[d].next = n /\ n # NULL
      BY <1>5, <2>1, <2>3
    <3>2. n \in Listed(h, NULL) /\ h[d].next = c
      BY <1>1, <2>3, <3>1, <1>0, <2>1
    <3>3. pos[d] \in Nat /\ pos[c] \in Nat /\ pos[n] \in Nat
      BY <1>0, <1>2, <2>1, <3>2
    <3>4. par[n] = par[d] /\ pos[d] < pos[n]
      BY <1>0, <1>1, <2>2, <3>1, <3>2, <3>3
    <3> QED
      BY <1>2, <1>3, <1>5, <1>6, <2>3, <3>1, <3>2, <3>4
  <2>4. CASE d # v
    <3>1. g[d].next = h[d].next /\ h[d].next # NULL
      BY <1>5, <2>1, <2>4
    <3>2. h[d].next # c
      BY <2>2, <2>4, <3>1 DEF v
    <3>3. h[d].next # n
      BY <1>1, <2>1, <2>2, <3>1
    <3> QED
      BY <1>2, <1>5, <1>6, <2>2, <3>1, <3>2, <3>3
  <2> QED
    BY <2>3, <2>4
<1>10. PrevOK(g, c)
  <2> SUFFICES ASSUME NEW d \in Listed(g, c), g[d].prev # NULL
               PROVE  /\ g[d].prev \in Listed(g, c) /\ g[g[d].prev].next = d
                      /\ g[d].parent = NULL
    BY DEF PrevOK
  <2>1. d \in Chunk /\ d \in Listed(h, NULL) /\ d # c
    BY <1>2, <1>6
  <2>2. h[d].prev # NULL => /\ h[d].prev \in Listed(h, NULL) /\ h[h[d].prev].next = d
                            /\ h[d].parent = NULL
    BY <2>1 DEF Forest, PrevOK
  <2>3. CASE d = n
    <3>1. g[d].prev = v /\ v # NULL
      BY <1>5, <2>1, <2>3
    <3>2. v \in Listed(h, NULL) /\ p = NULL /\ h[n].prev = c /\ c # NULL
      BY <1>0, <1>1, <2>1, <2>3, <3>1
    <3>3. g[d].parent = NULL
      BY <1>5, <2>1, <2>2, <2>3, <3>2
    <3> QED
      BY <1>2, <1>3, <1>5, <1>6, <2>3, <3>1, <3>2, <3>3
  <2>4. CASE d # n
    <3>1. g[d].prev = h[d].prev /\ h[d].prev # NULL /\ g[d].parent = NULL
      BY <1>5, <2>1, <2>2, <2>4
    <3>2. h[d].prev # c
      BY <2>2, <2>4, <3>1 DEF n
    <3>3. h[d].prev # v
      BY <1>1, <2>1, <2>2, <3>1
    <3> QED
      BY <1>2, <1>5, <1>6, <2>2, <3>1, <3>2, <3>3
  <2> QED
    BY <2>3, <2>4
<1>11. ParentOK(g, c, par)
  <2> SUFFICES ASSUME NEW d \in Listed(g, c)
               PROVE  /\ g[d].prev = NULL => g[d].parent = par[d]
                      /\ g[d].parent # NULL => g[d].parent \in Live(g) /\ g[g[d].parent].child = d
    BY DEF ParentOK
  <2>1. d \in Chunk /\ d \in Listed(h, NULL) /\ d # c
    BY <1>2, <1>6
  <2>2. /\ h[d].prev = NULL => h[d].parent = par[d]
        /\ h[d].parent # NULL => h[d].parent \in Live(h) /\ h[h[d].parent].child = d
    BY <2>1 DEF Forest, ParentOK
  <2>3. CASE d = n
    <3>1. h[d].prev = c /\ h[d].parent = NULL /\ par[d] = par[c]
      <4>1. n # NULL
        BY <1>0, <2>1, <2>3
      <4> QED
        BY <1>0, <1>1, <2>1, <2>3, <4>1 DEF Forest, PrevOK
    <3>2. CASE p = NULL
      BY <1>1, <1>5, <2>1, <2>3, <3>1, <3>2
    <3>3. CASE p # NULL
      <4>1. v = NULL /\ p = par[c] /\ p \in Live(h)
        BY <1>1, <3>3
      <4> QED
        BY <1>2, <1>5, <1>6, <2>1, <2>3, <3>1, <3>3, <4>1
    <3> QED
      BY <3>2, <3>3
  <2>4. CASE d # n
    <3>1. g[d].prev = h[d].prev /\ g[d].parent = h[d].parent
      BY <1>5, <2>1, <2>4
    <3>2. h[d].parent # NULL => h[d].parent # p
      BY <1>1, <2>1, <2>2
    <3> QED
      BY <1>2, <1>5, <1>6, <2>2, <3>1, <3>2
  <2> QED
    BY <2>3, <2>4
<1>12. ParOK(g, c, par, rank)
  BY <1>6 DEF Forest, ParOK
<1>13. \A d \in Chunk \ Listed(h, NULL) : g[d].prev = h[d].prev /\ g[d].parent = h[d].parent
  BY <1>0, <1>1, <1>5
<1>14. \A d \in Chunk : g[d].parent \in {h[d].parent, h[c].parent}
  BY <1>5 DEF p
<1>15. \A d \in Chunk : h[d].child = NULL => g[d].child = NULL
  BY <1>0, <1>1, <1>5
<1> QED
  BY <1>0, <1>3, <1>5, <1>7, <1>8, <1>9, <1>10, <1>11, <1>12, <1>13, <1>14, <1>15
  DEF Forest, g, n, v, p

\* Only links of listed chunks, and who is listed, matter.
LEMMA SameForest ==
  ASSUME NEW h \in Heaps, NEW g \in Heaps, NEW x \in Ptr, NEW y \in Ptr,
         NEW par \in [Chunk -> Ptr], NEW pos \in [Chunk -> Nat], NEW rank \in [Chunk -> Nat],
         Forest(h, x, par, pos, rank),
         Live(g) = Live(h), Listed(g, y) = Listed(h, x),
         \A d \in Live(h) : g[d].child = h[d].child,
         \A d \in Listed(h, x) :
           g[d].next = h[d].next /\ g[d].prev = h[d].prev /\ g[d].parent = h[d].parent
  PROVE  Forest(g, y, par, pos, rank)
<1>0. Listed(h, x) \subseteq Live(h)
  BY DEF Listed
<1>1. ChildOK(g, y)
  BY DEF Forest, ChildOK
<1>2. NextOK(g, y, par, pos)
  BY DEF Forest, NextOK
<1>3. PrevOK(g, y)
  BY DEF Forest, PrevOK
<1>4. ParentOK(g, y, par)
  BY <1>0 DEF Forest, ParentOK
<1>5. ParOK(g, y, par, rank)
  BY DEF Forest, ParOK
<1> QED
  BY <1>1, <1>2, <1>3, <1>4, <1>5 DEF Forest

\* A chunk has children only if it has a first one.
LEMMA NoKids ==
  ASSUME NEW h \in Heaps, NEW x \in Ptr, NEW p \in Live(h), h[p].child = NULL,
         NEW par \in [Chunk -> Ptr], NEW pos \in [Chunk -> Nat], NEW rank \in [Chunk -> Nat],
         Forest(h, x, par, pos, rank)
  PROVE  \A d \in Listed(h, x) : par[d] # p
<1> DEFINE K == {d \in Listed(h, x) : par[d] = p}
           T == {pos[d] : d \in K}
<1> SUFFICES ASSUME K # {} PROVE FALSE
  OBVIOUS
<1>0. K \subseteq Chunk /\ p # NULL /\ p \in Chunk
  BY TallocAssumption DEF Listed, Live
<1>1. T \in SUBSET Nat /\ T # {}
  BY <1>0
<1>2. PICK t \in T : \A u \in T : t <= u
  BY <1>1, Least
<1>3. PICK d \in K : t = pos[d]
  OBVIOUS
<1>4. d \in Listed(h, x) /\ d \in Chunk /\ par[d] = p
  BY <1>0, <1>3
<1>5. h[d].prev = NULL
  <2> SUFFICES ASSUME h[d].prev # NULL PROVE FALSE
    OBVIOUS
  <2>1. h[d].prev \in Listed(h, x) /\ h[h[d].prev].next = d
    BY <1>4 DEF Forest, PrevOK
  <2>2. par[h[d].prev] = par[d] /\ pos[h[d].prev] < pos[d]
    <3>1. d # NULL
      BY <1>4, TallocAssumption
    <3> QED
      BY <2>1, <3>1 DEF Forest, NextOK
  <2>3. h[d].prev \in K /\ h[d].prev \in Chunk
    BY <1>0, <1>4, <2>1, <2>2
  <2>4. pos[h[d].prev] \in T /\ pos[h[d].prev] \in Nat /\ pos[d] \in Nat
    BY <1>4, <2>3
  <2> QED
    BY <1>2, <1>3, <2>2, <2>4, SMTT(30)
<1>6. h[d].parent = p /\ h[p].child = d
  BY <1>0, <1>4, <1>5 DEF Forest, ParentOK
<1> QED
  BY <1>4, <1>6, TallocAssumption

\* Freed, once nothing hangs off it.
LEMMA FreedForest ==
  ASSUME NEW h \in Heaps, NEW c \in Live(h), h[c].child = NULL,
         NEW par \in [Chunk -> Ptr], NEW pos \in [Chunk -> Nat], NEW rank \in [Chunk -> Nat],
         Forest(h, c, par, pos, rank)
  PROVE  /\ [h EXCEPT ![c] = Freed] \in Heaps
         /\ Live([h EXCEPT ![c] = Freed]) = Live(h) \ {c}
         /\ Forest([h EXCEPT ![c] = Freed], NULL, par, pos, rank)
<1> DEFINE g == [h EXCEPT ![c] = Freed]
<1>0. c \in Chunk /\ NULL \notin Chunk /\ c \in Ptr /\ c # NULL
  BY TallocAssumption DEF Live, Ptr
<1>1. g \in Heaps
  BY <1>0, HeaderBlank DEF Heaps
<1>2. Freed.state = "freed"
  BY DEF Freed, Unused
<1>3. g[c] = Freed /\ \A d \in Chunk \ {c} : g[d] = h[d]
  BY <1>0 DEF Heaps
<1> HIDE DEF g
<1>4. Live(g) = Live(h) \ {c}
  BY <1>0, <1>2, <1>3 DEF Live
<1>5. Listed(g, NULL) = Listed(h, c)
  BY <1>0, <1>3, <1>4 DEF Listed, Live
<1>6. Listed(h, c) \subseteq Chunk \ {c} /\ Live(g) \subseteq Chunk \ {c} /\ Live(h) \subseteq Chunk
  BY <1>4 DEF Listed, Live
<1>7. \A d \in Listed(h, c) : par[d] # c
  BY <1>0, NoKids
<1>8. ChildOK(g, NULL)
  BY <1>3, <1>4, <1>5, <1>6 DEF Forest, ChildOK
<1>9. NextOK(g, NULL, par, pos)
  BY <1>3, <1>5, <1>6 DEF Forest, NextOK
<1>10. PrevOK(g, NULL)
  BY <1>3, <1>5, <1>6 DEF Forest, PrevOK
<1>11. ParentOK(g, NULL, par)
  <2>1. \A d \in Listed(h, c) : h[d].parent # c
    BY <1>0, <1>6 DEF Forest, ParentOK
  <2> QED
    BY <1>3, <1>4, <1>5, <1>6, <2>1 DEF Forest, ParentOK
<1>12. ParOK(g, NULL, par, rank)
  BY <1>4, <1>5, <1>7 DEF Forest, ParOK
<1> QED
  BY <1>1, <1>4, <1>8, <1>9, <1>10, <1>11, <1>12 DEF Forest, g

\* Back in the tree, below a chunk that is not below it.
LEMMA HookForest ==
  ASSUME NEW h \in Heaps, NEW c \in Live(h), ~h[c].loop, NEW p \in Live(h),
         NEW par \in [Chunk -> Ptr], NEW pos \in [Chunk -> Nat], NEW rank \in [Chunk -> Nat],
         Forest(h, c, par, pos, rank),
         NEW S \in SUBSET Chunk, c \in S, p \notin S,
         \A d \in Listed(h, c) : par[d] \in S => d \in S
  PROVE  /\ Hook(h, p, c) \in Heaps /\ OnlyLinks(h, Hook(h, p, c))
         /\ \E i, j \in [Chunk -> Nat] : Forest(Hook(h, p, c), NULL, [par EXCEPT ![c] = p], i, j)
         /\ \A d \in Chunk : d # p => Hook(h, p, c)[d].child = h[d].child
         /\ \A d \in Chunk : Hook(h, p, c)[d].parent \in {h[d].parent, p, NULL}
         /\ \A d \in Chunk \ {c} : ~(h[d].state = "live" /\ ~h[d].loop) =>
              Hook(h, p, c)[d].prev = h[d].prev /\ Hook(h, p, c)[d].parent = h[d].parent
<1> DEFINE k == h[p].child
           g == Hook(h, p, c)
           q == [par EXCEPT ![c] = p]
           i == [d \in Chunk |-> IF d = c THEN 0 ELSE pos[d] + 1]
           j == [d \in Chunk |-> IF d \in S THEN rank[d] + rank[p] + 1 ELSE rank[d]]
<1>0. c \in Chunk /\ p \in Chunk /\ p # c /\ NULL \notin Chunk /\ NULL \in Ptr
  BY TallocAssumption DEF Live, Ptr
<1>1. k # NULL => k \in Listed(h, c) /\ h[k].parent = p /\ h[k].prev = NULL
  BY DEF Forest, ChildOK
<1>2. k # c /\ k \in Ptr
  BY <1>0, <1>1 DEF Listed, Heaps, Header
<1>3. /\ g \in Heaps /\ OnlyLinks(h, g)
      /\ \A d \in Chunk :
              /\ g[d].next = IF d = c THEN k ELSE h[d].next
              /\ g[d].prev = IF d = c THEN NULL ELSE IF d = k THEN c ELSE h[d].prev
              /\ g[d].child = IF d = p THEN c ELSE h[d].child
              /\ g[d].parent = IF d = c THEN p ELSE IF d = k THEN NULL ELSE h[d].parent
  BY <1>0, <1>2, HookLinks
<1>4. q \in [Chunk -> Ptr] /\ q[c] = p /\ \A d \in Chunk \ {c} : q[d] = par[d]
  BY <1>0 DEF Ptr
<1>5. i \in [Chunk -> Nat] /\ i[c] = 0 /\ \A d \in Chunk \ {c} : i[d] = pos[d] + 1
  BY <1>0
<1>6. j \in [Chunk -> Nat] /\ \A d \in Chunk : j[d] = IF d \in S THEN rank[d] + rank[p] + 1 ELSE rank[d]
  BY <1>0
<1> HIDE DEF k, g, q, i, j
<1>7. Live(g) = Live(h) /\ Listed(g, NULL) = Listed(h, c) \cup {c} /\ c \notin Listed(h, c)
  BY <1>0, <1>3 DEF Live, Listed, OnlyLinks
<1>8. Live(h) \subseteq Chunk /\ Listed(h, c) \subseteq Chunk \ {c}
  BY DEF Live, Listed
<1>9. k # NULL => par[k] = p
  BY <1>1 DEF Forest, ParentOK
<1>10. ChildOK(g, NULL)
  <2> SUFFICES ASSUME NEW d \in Live(g), g[d].child # NULL
               PROVE  /\ g[d].child \in Listed(g, NULL)
                      /\ g[g[d].child].parent = d /\ g[g[d].child].prev = NULL
    BY DEF ChildOK
  <2>1. d \in Chunk /\ d \in Live(h)
    BY <1>7, <1>8
  <2>2. CASE d = p
    BY <1>0, <1>3, <1>7, <2>2
  <2>3. CASE d # p
    <3>1. /\ g[d].child = h[d].child /\ h[d].child \in Listed(h, c) /\ h[h[d].child].parent = d
          /\ h[h[d].child].prev = NULL
      BY <1>3, <2>1, <2>3 DEF Forest, ChildOK
    <3>2. h[d].child # k
      BY <1>0, <1>1, <1>8, <2>3, <3>1
    <3> QED
      BY <1>3, <1>7, <1>8, <3>1, <3>2
  <2> QED
    BY <2>2, <2>3
<1>11. NextOK(g, NULL, q, i)
  <2> SUFFICES ASSUME NEW d \in Listed(g, NULL), g[d].next # NULL
               PROVE  /\ g[d].next \in Listed(g, NULL) /\ g[g[d].next].prev = d
                      /\ q[g[d].next] = q[d] /\ i[d] < i[g[d].next]
    BY DEF NextOK
  <2>1. CASE d = c
    <3>1. g[d].next = k /\ k # NULL /\ k \in Chunk \ {c} /\ k \in Listed(h, c)
      BY <1>0, <1>1, <1>3, <1>8, <2>1
    <3>2. i[k] = pos[k] + 1 /\ pos[k] \in Nat
      BY <1>5, <3>1
    <3> QED
      BY <1>3, <1>4, <1>5, <1>7, <1>9, <2>1, <3>1, <3>2
  <2>2. CASE d # c
    <3>1. d \in Listed(h, c) /\ d \in Chunk \ {c} /\ g[d].next = h[d].next
      BY <1>3, <1>7, <1>8, <2>2
    <3>2. /\ h[d].next \in Listed(h, c) /\ h[h[d].next].prev = d
          /\ par[h[d].next] = par[d] /\ pos[d] < pos[h[d].next]
      BY <3>1 DEF Forest, NextOK
    <3>3. h[d].next # k /\ h[d].next \in Chunk \ {c}
      BY <1>0, <1>1, <1>8, <3>1, <3>2
    <3>4. pos[d] \in Nat /\ pos[h[d].next] \in Nat
      BY <3>1, <3>3
    <3>5. i[d] < i[h[d].next]
      BY <1>5, <3>1, <3>2, <3>3, <3>4
    <3> QED
      BY <1>3, <1>4, <1>7, <3>1, <3>2, <3>3, <3>5
  <2> QED
    BY <2>1, <2>2
<1>12. PrevOK(g, NULL)
  <2> SUFFICES ASSUME NEW d \in Listed(g, NULL), g[d].prev # NULL
               PROVE  /\ g[d].prev \in Listed(g, NULL) /\ g[g[d].prev].next = d
                      /\ g[d].parent = NULL
    BY DEF PrevOK
  <2>1. d # c /\ d \in Listed(h, c) /\ d \in Chunk \ {c}
    BY <1>0, <1>3, <1>7, <1>8
  <2>2. CASE d = k
    BY <1>0, <1>3, <1>7, <2>1, <2>2
  <2>3. CASE d # k
    <3>1. g[d].prev = h[d].prev /\ h[d].prev # NULL /\ g[d].parent = h[d].parent
      BY <1>3, <2>1, <2>3
    <3>2. h[d].prev \in Listed(h, c) /\ h[h[d].prev].next = d /\ h[d].parent = NULL
      BY <2>1, <3>1 DEF Forest, PrevOK
    <3> QED
      BY <1>3, <1>7, <1>8, <3>1, <3>2
  <2> QED
    BY <2>2, <2>3
<1>13. ParentOK(g, NULL, q)
  <2> SUFFICES ASSUME NEW d \in Listed(g, NULL)
               PROVE  /\ g[d].prev = NULL => g[d].parent = q[d]
                      /\ g[d].parent # NULL => g[d].parent \in Live(g) /\ g[g[d].parent].child = d
    BY DEF ParentOK
  <2>1. CASE d = c
    BY <1>0, <1>3, <1>4, <1>7, <2>1
  <2>2. CASE d = k
    <3>1. d \in Chunk \ {c}
      BY <1>1, <1>2, <1>7, <1>8, <2>2
    <3> QED
      BY <1>0, <1>3, <2>2, <3>1
  <2>3. CASE d # c /\ d # k
    <3>1. d \in Listed(h, c) /\ d \in Chunk \ {c} /\ g[d].prev = h[d].prev /\ g[d].parent = h[d].parent
      BY <1>3, <1>7, <1>8, <2>3
    <3>2. /\ h[d].prev = NULL => h[d].parent = par[d]
          /\ h[d].parent # NULL => h[d].parent \in Live(h) /\ h[h[d].parent].child = d
      BY <3>1 DEF Forest, ParentOK
    <3>3. h[d].parent # p
      BY <1>0, <2>3, <3>2 DEF k
    <3> QED
      BY <1>3, <1>4, <1>7, <1>8, <3>1, <3>2, <3>3
  <2> QED
    BY <2>1, <2>2, <2>3
<1>14. ParOK(g, NULL, q, j)
  <2> SUFFICES ASSUME NEW d \in Listed(g, NULL), q[d] # NULL
               PROVE  q[d] \in Live(g) /\ j[q[d]] < j[d]
    BY DEF ParOK
  <2>1. CASE d = c
    <3>1. rank[c] \in Nat /\ rank[p] \in Nat
      BY <1>0
    <3> QED
      BY <1>0, <1>4, <1>6, <1>7, <2>1, <3>1
  <2>2. CASE d # c
    <3>1. d \in Listed(h, c) /\ d \in Chunk \ {c} /\ q[d] = par[d]
      BY <1>4, <1>7, <1>8, <2>2
    <3>2. par[d] \in Live(h) /\ rank[par[d]] < rank[d] /\ par[d] \in Chunk
      BY <1>8, <3>1 DEF Forest, ParOK
    <3>3. par[d] \in S => d \in S
      BY <3>1
    <3>4. rank[d] \in Nat /\ rank[par[d]] \in Nat /\ rank[p] \in Nat
      BY <1>0, <3>1, <3>2
    <3>5. j[par[d]] < j[d]
      BY <1>6, <3>1, <3>2, <3>3, <3>4
    <3> QED
      BY <1>7, <3>1, <3>2, <3>5
  <2> QED
    BY <2>1, <2>2
<1>15. Forest(g, NULL, q, i, j)
  BY <1>10, <1>11, <1>12, <1>13, <1>14 DEF Forest
<1>16. \A d \in Chunk \ {c} : ~(h[d].state = "live" /\ ~h[d].loop) =>
              g[d].prev = h[d].prev /\ g[d].parent = h[d].parent
  <2>1. \A d \in Chunk \ {c} : ~(h[d].state = "live" /\ ~h[d].loop) => d # k
    BY <1>0, <1>1 DEF Listed, Live
  <2> QED
    BY <1>3, <2>1
<1>17. \A d \in Chunk : g[d].parent \in {h[d].parent, p, NULL}
  BY <1>3
<1>18. \A d \in Chunk : d # p => g[d].child = h[d].child
  BY <1>3
<1> QED
  BY <1>3, <1>5, <1>6, <1>15, <1>16, <1>17, <1>18 DEF g, q

\* A chunk that has lost its place is a root.
LEMMA RootForest ==
  ASSUME NEW h \in Heaps, NEW g \in Heaps, NEW c \in Live(h), ~h[c].loop,
         NEW par \in [Chunk -> Ptr], NEW pos \in [Chunk -> Nat], NEW rank \in [Chunk -> Nat],
         Forest(h, c, par, pos, rank),
         g[c].next = NULL, g[c].prev = NULL, g[c].parent = NULL, g[c].child = h[c].child,
         g[c].state = "live", ~g[c].loop, \A d \in Chunk \ {c} : g[d] = h[d]
  PROVE  Forest(g, NULL, [par EXCEPT ![c] = NULL], pos, rank)
<1> DEFINE q == [par EXCEPT ![c] = NULL]
<1>0. c \in Chunk /\ NULL \notin Chunk /\ NULL \in Ptr
  BY TallocAssumption DEF Live, Ptr
<1>1. q \in [Chunk -> Ptr] /\ q[c] = NULL /\ \A d \in Chunk \ {c} : q[d] = par[d]
  BY <1>0
<1> HIDE DEF q
<1>2. Live(g) = Live(h) /\ Listed(g, NULL) = Listed(h, c) \cup {c}
  BY <1>0 DEF Live, Listed
<1>3. Live(h) \subseteq Chunk /\ Listed(h, c) \subseteq Chunk \ {c}
  BY DEF Live, Listed
<1>4. ChildOK(g, NULL)
  BY <1>2, <1>3 DEF Forest, ChildOK
<1>5. NextOK(g, NULL, q, pos)
  BY <1>1, <1>2, <1>3 DEF Forest, NextOK
<1>6. PrevOK(g, NULL)
  BY <1>2, <1>3 DEF Forest, PrevOK
<1>7. ParentOK(g, NULL, q)
  BY <1>1, <1>2, <1>3 DEF Forest, ParentOK
<1>8. ParOK(g, NULL, q, rank)
  BY <1>1, <1>2, <1>3 DEF Forest, ParOK
<1> QED
  BY <1>4, <1>5, <1>6, <1>7, <1>8 DEF Forest, q

\* A forest with these parents, wherever in the lists the chunks are.
ForestOf(h, par) == \E i, j \in [Chunk -> Nat] : Forest(h, NULL, par, i, j)

\* The parents, when c has come to d.
Renamed(par, c, d) ==
  [e \in Chunk |-> IF e = d THEN par[c] ELSE IF par[e] = c THEN d ELSE par[e]]

\* The same tree, with one chunk at another address.
LEMMA MovedForest ==
  ASSUME NEW h \in Heaps, NEW c \in Listed(h, NULL), NEW d \in Chunk \ Live(h),
         NEW par \in [Chunk -> Ptr], NEW pos \in [Chunk -> Nat], NEW rank \in [Chunk -> Nat],
         Forest(h, NULL, par, pos, rank)
  PROVE  /\ {h[c].next, h[c].prev, h[c].child, h[c].parent} \cap {c, d} = {}
         /\ ForestOf(Moved(h, c, d), Renamed(par, c, d))
<1> DEFINE g == Moved(h, c, d)
           q == Renamed(par, c, d)
           i == [e \in Chunk |-> IF e = d THEN pos[c] ELSE pos[e]]
           j == [e \in Chunk |-> IF e = d THEN rank[c] ELSE rank[e]]
           L == Listed(h, NULL)
           n == h[c].next
           v == h[c].prev
           k == h[c].child
           p == h[c].parent
<1>0. /\ c \in Chunk /\ d \in Chunk /\ c # d /\ NULL \notin Chunk /\ NULL \in Ptr /\ c # NULL /\ d # NULL
      /\ c \in Live(h) /\ d \notin Live(h) /\ L \subseteq Live(h) /\ Live(h) \subseteq Chunk \ {d}
  BY TallocAssumption DEF Live, Ptr, Listed
<1>1. /\ n # NULL => n \in L /\ h[n].prev = c /\ par[n] = par[c] /\ pos[c] < pos[n]
      /\ v # NULL => v \in L /\ h[v].next = c /\ p = NULL /\ pos[v] < pos[c]
      /\ p # NULL => p \in Live(h) /\ h[p].child = c /\ rank[p] < rank[c]
      /\ v = NULL => p = par[c]
      /\ k # NULL => k \in L /\ h[k].parent = c /\ h[k].prev = NULL /\ rank[c] < rank[k]
  <2>1. n # NULL => n \in L /\ h[n].prev = c /\ par[n] = par[c] /\ pos[c] < pos[n]
    BY DEF Forest, NextOK
  <2>2. v # NULL => v \in L /\ h[v].next = c /\ p = NULL
    BY DEF Forest, PrevOK
  <2>3. v # NULL => pos[v] < pos[c]
    BY <1>0, <2>2 DEF Forest, NextOK
  <2>4. (p # NULL => p \in Live(h) /\ h[p].child = c) /\ (v = NULL => p = par[c])
    BY DEF Forest, ParentOK
  <2>5. p # NULL => rank[p] < rank[c]
    BY <2>2, <2>4 DEF Forest, ParOK
  <2>6. k # NULL => k \in L /\ h[k].parent = c /\ h[k].prev = NULL
    BY <1>0 DEF Forest, ChildOK
  <2>7. k # NULL => par[k] = c
    BY <2>6 DEF Forest, ParentOK
  <2>8. k # NULL => rank[c] < rank[k]
    BY <1>0, <2>6, <2>7 DEF Forest, ParOK
  <2> QED
    BY <2>1, <2>2, <2>3, <2>4, <2>5, <2>6, <2>8
<1>2. n \in Ptr /\ v \in Ptr /\ k \in Ptr /\ p \in Ptr
  BY <1>0 DEF Heaps, Header
<1>3. {n, v, k, p} \cap {c, d} = {}
  <2>1. c \notin {n, v, k, p}
    BY <1>0, <1>1
  <2>2. d \notin {n, v, k, p}
    BY <1>0, <1>1
  <2> QED
    BY <2>1, <2>2
<1>4. /\ g \in Heaps /\ g[c] = Freed /\ g[d] = h[c]
      /\ \A e \in Chunk \ {c, d} :
              /\ g[e].next = IF e = v THEN d ELSE h[e].next
              /\ g[e].prev = IF e = n THEN d ELSE h[e].prev
              /\ g[e].child = IF e = p THEN d ELSE h[e].child
              /\ g[e].parent = IF e = k THEN d ELSE h[e].parent
              /\ g[e].state = h[e].state /\ g[e].loop = h[e].loop
              /\ g[e].refs = h[e].refs /\ g[e].ptr = h[e].ptr
              /\ g[e].destructor = h[e].destructor
  BY <1>0, <1>3, MovedLinks
<1>5. /\ q \in [Chunk -> Ptr] /\ q[d] = par[c]
      /\ \A e \in Chunk \ {d} : q[e] = IF par[e] = c THEN d ELSE par[e]
  BY <1>0 DEF Ptr, Renamed
<1>6. /\ i \in [Chunk -> Nat] /\ i[d] = pos[c] /\ \A e \in Chunk \ {d} : i[e] = pos[e]
      /\ j \in [Chunk -> Nat] /\ j[d] = rank[c] /\ \A e \in Chunk \ {d} : j[e] = rank[e]
  BY <1>0
<1>7. \A e \in Chunk : pos[e] \in Nat /\ rank[e] \in Nat /\ i[e] \in Nat /\ j[e] \in Nat
  BY <1>6
<1>8. par[c] # c
  BY <1>0, <1>7 DEF Forest, ParOK
<1> HIDE DEF g, q, i, j, n, v, k, p
<1>9. /\ Live(g) = (Live(h) \ {c}) \cup {d} /\ Listed(g, NULL) = (L \ {c}) \cup {d}
  <2>1. Freed.state = "freed"
    BY DEF Freed, Unused
  <2>2. h[c].state = "live" /\ ~h[c].loop
    BY DEF Listed, Live
  <2>3. Live(g) = (Live(h) \ {c}) \cup {d}
    BY <1>0, <1>4, <2>1, <2>2 DEF Live
  <2>4. Listed(g, NULL) = (L \ {c}) \cup {d}
    BY <1>0, <1>4, <2>2, <2>3 DEF Listed
  <2> QED
    BY <2>3, <2>4
<1> DEFINE M == Listed(g, NULL)
<1>10. L \ {c} \subseteq Chunk \ {c, d} /\ L \ {c} \subseteq Chunk /\ Live(h) \ {c} \subseteq Chunk \ {c, d}
  BY <1>0
<1> HIDE DEF L, M
<1>11. ChildOK(g, NULL)
  <2> SUFFICES ASSUME NEW e \in Live(g), g[e].child # NULL
               PROVE  /\ g[e].child \in M
                      /\ g[g[e].child].parent = e /\ g[g[e].child].prev = NULL
    BY DEF ChildOK, M
  <2>1. CASE e = d
    <3>1. g[e].child = k /\ k # NULL
      BY <1>4, <2>1 DEF k
    <3>2. k \in L \ {c} /\ h[k].prev = NULL /\ k # n
      BY <1>0, <1>1, <1>3, <3>1
    <3> QED
      BY <1>4, <1>9, <1>10, <2>1, <3>1, <3>2 DEF M
  <2>2. CASE e = p
    <3>1. e \in Live(h) \ {c} /\ e \in Chunk \ {c, d} /\ v = NULL /\ p # NULL
      BY <1>0, <1>1, <1>3, <1>9, <1>10, <2>2
    <3>2. g[e].child = d /\ g[d].parent = p /\ g[d].prev = NULL
      BY <1>4, <2>2, <3>1 DEF p, v
    <3> QED
      BY <1>9, <2>2, <3>2 DEF M
  <2>3. CASE e # d /\ e # p
    <3>1. e \in Live(h) \ {c} /\ e \in Chunk \ {c, d} /\ g[e].child = h[e].child
      BY <1>4, <1>9, <1>10, <2>3
    <3>2. h[e].child \in L /\ h[h[e].child].parent = e /\ h[h[e].child].prev = NULL
      BY <3>1 DEF Forest, ChildOK, L
    <3>3. h[e].child # c /\ h[e].child # k /\ h[e].child # n
      BY <1>0, <1>1, <2>3, <3>1, <3>2 DEF p
    <3> QED
      BY <1>4, <1>9, <1>10, <3>1, <3>2, <3>3 DEF M
  <2> QED
    BY <2>1, <2>2, <2>3
<1>12. NextOK(g, NULL, q, i)
  <2> SUFFICES ASSUME NEW e \in M, g[e].next # NULL
               PROVE  /\ g[e].next \in M /\ g[g[e].next].prev = e
                      /\ q[g[e].next] = q[e] /\ i[e] < i[g[e].next]
    BY DEF NextOK, M
  <2>1. CASE e = d
    <3>1. g[e].next = n /\ n # NULL
      BY <1>4, <2>1 DEF n
    <3>2. n \in L \ {c} /\ par[n] = par[c] /\ pos[c] < pos[n]
      BY <1>0, <1>1, <1>3, <3>1
    <3>3. q[n] = q[e]
      BY <1>5, <1>8, <1>10, <2>1, <3>2
    <3> QED
      BY <1>4, <1>6, <1>9, <1>10, <2>1, <3>1, <3>2, <3>3 DEF M
  <2>2. CASE e = v
    <3>1. e \in L \ {c} /\ e \in Chunk \ {c, d} /\ v # NULL
      BY <1>0, <1>3, <1>9, <1>10, <2>2 DEF M
    <3>2. g[e].next = d /\ g[d].prev = v
      BY <1>4, <2>2, <3>1 DEF v
    <3>3. par[v] = par[c] /\ pos[v] < pos[c]
      BY <1>0, <1>1, <3>1, <2>2 DEF Forest, NextOK, L
    <3>4. q[v] = par[c]
      BY <1>5, <1>8, <2>2, <3>1, <3>3
    <3> QED
      BY <1>5, <1>6, <1>9, <2>2, <3>1, <3>2, <3>3, <3>4 DEF M
  <2>3. CASE e # d /\ e # v
    <3>1. e \in L \ {c} /\ e \in Chunk \ {c, d} /\ g[e].next = h[e].next
      BY <1>4, <1>9, <1>10, <2>3 DEF M
    <3>2. /\ h[e].next \in L /\ h[h[e].next].prev = e
          /\ par[h[e].next] = par[e] /\ pos[e] < pos[h[e].next]
      BY <3>1 DEF Forest, NextOK, L
    <3>3. h[e].next # c /\ h[e].next # n
      BY <1>0, <1>1, <2>3, <3>1, <3>2 DEF v
    <3>4. h[e].next \in L \ {c} /\ h[e].next \in Chunk \ {c, d}
      BY <1>10, <3>2, <3>3
    <3>5. q[h[e].next] = q[e] /\ i[e] < i[h[e].next]
      BY <1>5, <1>6, <3>1, <3>2, <3>4
    <3> QED
      BY <1>4, <1>9, <3>1, <3>2, <3>3, <3>4, <3>5 DEF M
  <2> QED
    BY <2>1, <2>2, <2>3
<1>13. PrevOK(g, NULL)
  <2> SUFFICES ASSUME NEW e \in M, g[e].prev # NULL
               PROVE  g[e].prev \in M /\ g[g[e].prev].next = e /\ g[e].parent = NULL
    BY DEF PrevOK, M
  <2>1. CASE e = d
    <3>1. g[e].prev = v /\ v # NULL /\ g[e].parent = p
      BY <1>4, <2>1 DEF v, p
    <3>2. v \in L \ {c} /\ p = NULL
      BY <1>0, <1>1, <1>3, <3>1
    <3> QED
      BY <1>4, <1>9, <1>10, <2>1, <3>1, <3>2 DEF M
  <2>2. CASE e = n
    <3>1. e \in L \ {c} /\ e \in Chunk \ {c, d} /\ n # NULL
      BY <1>0, <1>3, <1>9, <1>10, <2>2 DEF M
    <3>2. g[e].prev = d /\ g[d].next = n
      BY <1>4, <2>2, <3>1 DEF n
    <3>3. h[e].prev = c /\ h[e].parent = NULL
      BY <1>0, <1>1, <2>2, <3>1 DEF Forest, PrevOK, L
    <3>4. e # k
      BY <1>0, <1>1, <3>1, <3>3
    <3> QED
      BY <1>4, <1>9, <2>2, <3>1, <3>2, <3>3, <3>4 DEF M
  <2>3. CASE e # d /\ e # n
    <3>1. e \in L \ {c} /\ e \in Chunk \ {c, d} /\ g[e].prev = h[e].prev
      BY <1>4, <1>9, <1>10, <2>3 DEF M
    <3>2. h[e].prev \in L /\ h[h[e].prev].next = e /\ h[e].parent = NULL
      BY <3>1 DEF Forest, PrevOK, L
    <3>3. h[e].prev # c /\ h[e].prev # v /\ e # k
      BY <1>0, <1>1, <2>3, <3>1, <3>2 DEF n
    <3>4. h[e].prev \in L \ {c} /\ h[e].prev \in Chunk \ {c, d}
      BY <1>10, <3>2, <3>3
    <3> QED
      BY <1>4, <1>9, <3>1, <3>2, <3>3, <3>4 DEF M
  <2> QED
    BY <2>1, <2>2, <2>3
<1>14. ParentOK(g, NULL, q)
  <2> SUFFICES ASSUME NEW e \in M
               PROVE  /\ g[e].prev = NULL => g[e].parent = q[e]
                      /\ g[e].parent # NULL => g[e].parent \in Live(g) /\ g[g[e].parent].child = e
    BY DEF ParentOK, M
  <2>1. CASE e = d
    <3>1. g[e].prev = v /\ g[e].parent = p /\ q[e] = par[c]
      BY <1>4, <1>5, <2>1 DEF v, p
    <3>2. p # NULL => p \in Live(h) \ {c} /\ p \in Chunk \ {c, d}
      BY <1>1, <1>3, <1>10
    <3>3. p # NULL => p \in Live(g) /\ g[p].child = d
      BY <1>4, <1>9, <3>2
    <3> QED
      BY <1>1, <2>1, <3>1, <3>3
  <2>2. CASE e = k
    <3>1. e \in L \ {c} /\ e \in Chunk \ {c, d} /\ k # NULL
      BY <1>0, <1>3, <1>9, <1>10, <2>2 DEF M
    <3>2. g[e].parent = d /\ g[d].child = k
      BY <1>4, <2>2, <3>1 DEF k
    <3>3. par[e] = c
      BY <1>1, <2>2, <3>1 DEF Forest, ParentOK, L
    <3> QED
      BY <1>5, <1>9, <2>2, <3>1, <3>2, <3>3
  <2>3. CASE e # d /\ e # k
    <3>1. e \in L \ {c} /\ e \in Chunk \ {c, d} /\ g[e].parent = h[e].parent
      BY <1>4, <1>9, <1>10, <2>3 DEF M
    <3>2. /\ h[e].prev = NULL => h[e].parent = par[e]
          /\ h[e].parent # NULL => h[e].parent \in Live(h) /\ h[h[e].parent].child = e
      BY <3>1 DEF Forest, ParentOK, L
    <3>3. h[e].parent # c
      BY <1>0, <2>3, <3>2 DEF k
    <3>4. g[e].prev = NULL => h[e].prev = NULL
      BY <1>0, <1>4, <3>1
    <3>5. h[e].parent # NULL => h[e].parent # p
      BY <1>0, <1>1, <3>1, <3>2
    <3>6. h[e].parent # NULL => h[e].parent \in Live(g) /\ g[h[e].parent].child = e
      BY <1>4, <1>9, <1>10, <3>2, <3>3, <3>5
    <3> QED
      BY <1>5, <3>1, <3>2, <3>3, <3>4, <3>6
  <2> QED
    BY <2>1, <2>2, <2>3
<1>15. ParOK(g, NULL, q, j)
  <2> SUFFICES ASSUME NEW e \in M, q[e] # NULL
               PROVE  q[e] \in Live(g) /\ j[q[e]] < j[e]
    BY DEF ParOK, M
  <2>1. CASE e = d
    <3>1. q[e] = par[c] /\ par[c] # NULL
      BY <1>5, <2>1
    <3>2. par[c] \in Live(h) \ {c} /\ rank[par[c]] < rank[c]
      BY <1>0, <1>8, <3>1 DEF Forest, ParOK
    <3> QED
      BY <1>6, <1>9, <1>10, <2>1, <3>1, <3>2
  <2>2. CASE e # d
    <3>1. e \in L \ {c} /\ e \in Chunk \ {c, d} /\ q[e] = IF par[e] = c THEN d ELSE par[e]
      BY <1>5, <1>9, <1>10, <2>2 DEF M
    <3>2. par[e] # NULL
      BY <1>0, <3>1
    <3>3. par[e] \in Live(h) /\ rank[par[e]] < rank[e]
      BY <3>1, <3>2 DEF Forest, ParOK, L
    <3> QED
      BY <1>6, <1>9, <1>10, <3>1, <3>3
  <2> QED
    BY <2>1, <2>2
<1>16. Forest(g, NULL, q, i, j)
  BY <1>11, <1>12, <1>13, <1>14, <1>15 DEF Forest
<1> QED
  BY <1>3, <1>6, <1>16 DEF g, n, v, k, p, q, ForestOf

-----------------------------------------------------------------------------
(* Walks up the tree *)

\* The walk back to the head of a list, and from there to the parent, ends in memory.
LEMMA FirstFacts ==
  ASSUME NEW h \in Heaps, NEW c \in Chunk
  PROVE  /\ First(h, c) \in Chunk /\ talloc_parent_chunk(h, c) \in Ptr
         /\ h[c].prev = NULL => First(h, c) = c
<1> DEFINE f == [d \in Chunk |-> h[d].prev]
           back == Along(f, c)
           P(d) == h[d].prev = NULL \/ \A e \in back : h[e].prev # NULL
<1>0. f \in [Chunk -> Ptr] /\ \A d \in Chunk : f[d] = h[d].prev
  BY DEF Heaps, Header
<1> HIDE DEF f
<1>1. /\ back \in SUBSET Chunk /\ c \in back
      /\ \A S \in SUBSET Chunk : c \in S /\ Closed(f, S) => back \subseteq S
  BY <1>0, AlongFacts
<1>2. First(h, c) = CHOOSE d \in back : P(d)
  BY DEF First, f
<1> HIDE DEF back
<1>3. \E d \in back : P(d)
  BY <1>1
<1>4. First(h, c) \in back /\ P(First(h, c))
  BY <1>2, <1>3, Zenon
<1>5. First(h, c) \in Chunk
  BY <1>1, <1>4
<1>6. talloc_parent_chunk(h, c) \in Ptr
  BY <1>5 DEF talloc_parent_chunk, Heaps, Header
<1>7. ASSUME h[c].prev = NULL PROVE First(h, c) = c
  <2>1. Closed(f, {c})
    BY <1>0, <1>7 DEF Closed
  <2>2. back \subseteq {c}
    BY <1>1, <2>1
  <2> QED
    BY <1>4, <2>2
<1> QED
  BY <1>5, <1>6, <1>7

\* The way back along a list ends with the chunk that knows the parent.
LEMMA ParentChunk ==
  ASSUME NEW h \in Heaps, NEW c \in Chunk, NEW v \in Listed(h, NULL), c = v \/ h[c].prev = v,
         NEW par \in [Chunk -> Ptr], NEW pos \in [Chunk -> Nat], NEW rank \in [Chunk -> Nat],
         Forest(h, NULL, par, pos, rank)
  PROVE  First(h, c) \in Listed(h, NULL) /\ talloc_parent_chunk(h, c) = par[v]
<1> DEFINE f == [d \in Chunk |-> h[d].prev]
           back == Along(f, c)
           P(d) == h[d].prev = NULL \/ \A e \in back : h[e].prev # NULL
           L == {d \in Listed(h, NULL) : par[d] = par[v]}
           T == {pos[d] : d \in back \cap L}
<1>0. f \in [Chunk -> Ptr] /\ \A d \in Chunk : f[d] = h[d].prev
  BY DEF Heaps, Header
<1> HIDE DEF f
<1>1. /\ back \in SUBSET Chunk /\ c \in back /\ Closed(f, back)
      /\ \A S \in SUBSET Chunk : c \in S /\ Closed(f, S) => back \subseteq S
  BY <1>0, AlongFacts
<1>2. First(h, c) = CHOOSE d \in back : P(d)
  BY DEF First, f
<1> HIDE DEF back
<1>3. L \subseteq Chunk /\ v \in L /\ v # NULL /\ NULL \notin Chunk
  BY TallocAssumption DEF Listed, Live
<1>4. \A d \in L : h[d].prev # NULL => h[d].prev \in L /\ pos[h[d].prev] < pos[d]
  <2> SUFFICES ASSUME NEW d \in L, h[d].prev # NULL
               PROVE  h[d].prev \in L /\ pos[h[d].prev] < pos[d]
    OBVIOUS
  <2>1. h[d].prev \in Listed(h, NULL) /\ h[h[d].prev].next = d /\ d # NULL
    BY <1>3 DEF Forest, PrevOK
  <2>2. par[h[d].prev] = par[d] /\ pos[h[d].prev] < pos[d]
    BY <2>1 DEF Forest, NextOK
  <2> QED
    BY <2>1, <2>2
<1> HIDE DEF L
<1>5. back \subseteq L \cup {c}
  <2>1. \A d \in L \cup {c} : f[d] \in L \cup {c} \cup {NULL}
    <3>1. \A d \in L : f[d] \in L \cup {NULL}
      BY <1>0, <1>3, <1>4
    <3>2. f[c] \in L \cup {NULL}
      BY <1>0, <1>3, <3>1
    <3> QED
      BY <3>1, <3>2
  <2>2. Closed(f, L \cup {c})
    BY <2>1 DEF Closed
  <2>3. L \cup {c} \in SUBSET Chunk
    BY <1>3
  <2> QED
    BY <1>1, <2>2, <2>3
<1>6. v \in back
  <2>1. f[c] = v => v \in back
    BY <1>1, <1>3 DEF Closed
  <2> QED
    BY <1>0, <1>1, <2>1
<1>7. \E d \in back : h[d].prev = NULL
  <2>1. T \in SUBSET Nat /\ T # {}
    BY <1>3, <1>6
  <2>2. PICK t \in T : \A u \in T : t <= u
    BY <2>1, Least
  <2>3. PICK d \in back \cap L : t = pos[d]
    OBVIOUS
  <2> SUFFICES ASSUME h[d].prev # NULL PROVE FALSE
    BY <2>3
  <2>4. h[d].prev \in L /\ pos[h[d].prev] < pos[d]
    BY <1>4, <2>3
  <2>5. h[d].prev \in back
    BY <1>0, <1>1, <1>3, <2>3 DEF Closed
  <2>6. pos[h[d].prev] \in T /\ pos[h[d].prev] \in Nat /\ pos[d] \in Nat
    BY <1>3, <2>3, <2>4, <2>5
  <2> QED
    BY <2>2, <2>3, <2>4, <2>6, SMTT(30)
<1>8. First(h, c) \in back /\ P(First(h, c))
  BY <1>2, <1>7, Zenon
<1>9. h[First(h, c)].prev = NULL
  BY <1>7, <1>8
<1>10. First(h, c) \in L
  <2>1. c \notin L => h[c].prev = v
    BY <1>3
  <2> QED
    BY <1>3, <1>5, <1>8, <1>9, <2>1
<1>11. h[First(h, c)].parent = par[First(h, c)]
  BY <1>9, <1>10 DEF Forest, ParentOK, L
<1> QED
  BY <1>10, <1>11 DEF L, talloc_parent_chunk

\* The ancestors of a chunk: itself, its parent and the ancestors of that.
LEMMA AncestorsFacts ==
  ASSUME NEW h \in Heaps, NEW c \in Chunk
  PROVE  /\ Ancestors(h, c) \in SUBSET Chunk /\ c \in Ancestors(h, c)
         /\ \A d \in Ancestors(h, c) : talloc_parent_chunk(h, d) \in Ancestors(h, c) \cup {NULL}
         /\ \A S \in SUBSET Chunk :
              c \in S /\ (\A d \in S : talloc_parent_chunk(h, d) \in S \cup {NULL})
                => Ancestors(h, c) \subseteq S
<1> DEFINE f == [d \in Chunk |-> talloc_parent_chunk(h, d)]
           A == Along(f, c)
<1>0. f \in [Chunk -> Ptr] /\ \A d \in Chunk : f[d] = talloc_parent_chunk(h, d)
  BY FirstFacts
<1>1. Ancestors(h, c) = A
  BY DEF Ancestors
<1> HIDE DEF f
<1>2. /\ A \in SUBSET Chunk /\ c \in A /\ Closed(f, A)
      /\ \A S \in SUBSET Chunk : c \in S /\ Closed(f, S) => A \subseteq S
  BY <1>0, AlongFacts
<1> HIDE DEF A
<1>3. \A d \in A : talloc_parent_chunk(h, d) \in A \cup {NULL}
  BY <1>0, <1>2 DEF Closed
<1>4. \A S \in SUBSET Chunk :
        c \in S /\ (\A d \in S : talloc_parent_chunk(h, d) \in S \cup {NULL}) => A \subseteq S
  BY <1>0, <1>2 DEF Closed
<1> QED
  BY <1>1, <1>2, <1>3, <1>4

\* The ancestors of a chunk are the chunk and the ancestors of its parent.
LEMMA AncestorsUp ==
  ASSUME NEW h \in Heaps, NEW c \in Chunk, talloc_parent_chunk(h, c) # NULL
  PROVE  /\ talloc_parent_chunk(h, c) \in Chunk
         /\ Ancestors(h, talloc_parent_chunk(h, c)) \subseteq Ancestors(h, c)
         /\ Ancestors(h, c) \subseteq {c} \cup Ancestors(h, talloc_parent_chunk(h, c))
<1> DEFINE p == talloc_parent_chunk(h, c)
           A == Ancestors(h, c)
           B == Ancestors(h, p)
<1>1. p \in Chunk
  BY FirstFacts DEF Ptr
<1> HIDE DEF p
<1>2. /\ A \in SUBSET Chunk /\ c \in A
      /\ \A d \in A : talloc_parent_chunk(h, d) \in A \cup {NULL}
      /\ \A S \in SUBSET Chunk :
              c \in S /\ (\A d \in S : talloc_parent_chunk(h, d) \in S \cup {NULL}) => A \subseteq S
  BY AncestorsFacts
<1>3. /\ B \in SUBSET Chunk /\ p \in B
      /\ \A d \in B : talloc_parent_chunk(h, d) \in B \cup {NULL}
      /\ \A S \in SUBSET Chunk :
              p \in S /\ (\A d \in S : talloc_parent_chunk(h, d) \in S \cup {NULL}) => B \subseteq S
  BY <1>1, AncestorsFacts
<1> HIDE DEF A, B
<1>4. p \in A
  BY <1>2 DEF p
<1>5. B \subseteq A
  BY <1>2, <1>3, <1>4
<1>6. {c} \cup B \in SUBSET Chunk /\ \A d \in {c} \cup B : talloc_parent_chunk(h, d) \in {c} \cup B \cup {NULL}
  BY <1>3 DEF p
<1>7. A \subseteq {c} \cup B
  BY <1>2, <1>6
<1> QED
  BY <1>1, <1>5, <1>7 DEF A, B, p

\* A subtree holds its root and whatever has its parent in it.
LEMMA SubtreeFacts ==
  ASSUME NEW h \in Heaps, NEW c \in Chunk,
         NEW par \in [Chunk -> Ptr], NEW pos \in [Chunk -> Nat], NEW rank \in [Chunk -> Nat],
         Forest(h, NULL, par, pos, rank)
  PROVE  /\ Subtree(h, c) \in SUBSET Live(h) /\ (c \in Live(h) => c \in Subtree(h, c))
         /\ \A d \in Listed(h, NULL) : par[d] \in Subtree(h, c) => d \in Subtree(h, c)
<1>1. Subtree(h, c) \in SUBSET Live(h)
  BY DEF Subtree
<1>2. c \in Live(h) => c \in Subtree(h, c)
  BY AncestorsFacts DEF Subtree, talloc_is_parent
<1>3. ASSUME NEW d \in Listed(h, NULL), par[d] \in Subtree(h, c) PROVE d \in Subtree(h, c)
  <2>1. d \in Chunk /\ d \in Live(h)
    BY DEF Listed, Live
  <2>2. talloc_parent_chunk(h, d) = par[d]
    BY <2>1, ParentChunk
  <2>3. par[d] \in Chunk /\ par[d] # NULL /\ c \in Ancestors(h, par[d])
    BY <1>3, TallocAssumption DEF Subtree, Live, talloc_is_parent
  <2>4. Ancestors(h, par[d]) \subseteq Ancestors(h, d)
    BY <2>1, <2>2, <2>3, AncestorsUp
  <2> QED
    BY <2>1, <2>3, <2>4 DEF Subtree, talloc_is_parent
<1> QED
  BY <1>1, <1>2, <1>3

-----------------------------------------------------------------------------
(* The tree, and what each operation on memory does to it *)

\* The invariant of memory: owners, references and the forest, with null_context as a root.
Tree(h, n) ==
  /\ h \in Heaps /\ OwnersOK(h) /\ Refs(h)
  /\ \E par \in [Chunk -> Ptr], pos, rank \in [Chunk -> Nat] :
       Forest(h, NULL, par, pos, rank) /\ (n # NULL => par[n] = NULL)

\* References do not care about the lists.
LEMMA RefsLinks ==
  ASSUME NEW h, NEW g, Refs(h), OnlyLinks(h, g),
         \A d \in Live(h) : Handle(h, d) => g[d].child = NULL
  PROVE  Refs(g)
<1>0. Live(g) = Live(h) /\ Live(h) \subseteq Chunk
  BY DEF Live, OnlyLinks
<1>1. \A d \in Chunk : /\ Handle(g, d) <=> Handle(h, d)
                       /\ g[d].refs = h[d].refs /\ g[d].ptr = h[d].ptr /\ g[d].loop = h[d].loop
  BY DEF OnlyLinks, Handle
<1>2. \A c \in Live(g) : Handle(g, c) =>
       /\ g[c].ptr \in Live(g) /\ c \in Range(g[g[c].ptr].refs)
       /\ g[c].refs = << >> /\ g[c].child = NULL /\ ~g[c].loop
  BY <1>0, <1>1 DEF Refs
<1>3. \A c \in Live(g) : \A x \in Range(g[c].refs) :
       x \in Live(g) /\ Handle(g, x) /\ g[x].ptr = c
  BY <1>0, <1>1 DEF Refs
<1>4. \A c \in Live(g) : \A i, j \in DOMAIN g[c].refs : g[c].refs[i] = g[c].refs[j] => i = j
  <2> SUFFICES ASSUME NEW c \in Live(g)
               PROVE  \A i, j \in DOMAIN g[c].refs : g[c].refs[i] = g[c].refs[j] => i = j
    OBVIOUS
  <2>1. g[c].refs = h[c].refs /\ c \in Live(h)
    BY <1>0, <1>1
  <2>2. \A i, j \in DOMAIN h[c].refs : h[c].refs[i] = h[c].refs[j] => i = j
    BY <2>1 DEF Refs
  <2> QED
    BY <2>1, <2>2
<1> QED
  BY <1>2, <1>3, <1>4 DEF Refs

\* Given away, a chunk leaves a tree behind and comes to one.
LEMMA StealForest ==
  ASSUME NEW h \in Heaps, NEW c \in Listed(h, NULL), NEW new \in Live(h) \cup {NULL},
         new \notin Subtree(h, c) \ {c},
         NEW par \in [Chunk -> Ptr], NEW pos \in [Chunk -> Nat], NEW rank \in [Chunk -> Nat],
         Forest(h, NULL, par, pos, rank)
  PROVE  LET g == _talloc_steal(h, new, c) IN
         /\ g \in Heaps /\ OnlyLinks(h, g)
         /\ \E q \in [Chunk -> Ptr], i, j \in [Chunk -> Nat] :
              /\ Forest(g, NULL, q, i, j) /\ (new # c => q[c] = new)
              /\ \A d \in Chunk \ {c} : q[d] = par[d]
         /\ \A d \in Chunk : g[d].parent \in {h[d].parent, h[c].parent, new, NULL}
         /\ \A d \in Chunk : h[d].child = NULL /\ d # new => g[d].child = NULL
         /\ \A d \in Chunk \ Listed(h, NULL) : g[d].prev = h[d].prev /\ g[d].parent = h[d].parent
<1> DEFINE g == _talloc_steal(h, new, c)
           u == Unhook(h, c)
<1>0. c \in Chunk /\ c \in Live(h) /\ NULL \notin Chunk /\ NULL \in Ptr /\ ~h[c].loop /\ c # NULL
  BY TallocAssumption DEF Listed, Live, Ptr
<1>1. /\ u \in Heaps /\ OnlyLinks(h, u)
      /\ Forest(u, c, par, pos, rank)
      /\ u[c].child = h[c].child
      /\ \A d \in Chunk : u[d].parent \in {h[d].parent, h[c].parent}
      /\ \A d \in Chunk : h[d].child = NULL => u[d].child = NULL
      /\ \A d \in Chunk \ Listed(h, NULL) : u[d].prev = h[d].prev /\ u[d].parent = h[d].parent
  BY UnhookForest
<1>2. Live(u) = Live(h) /\ Listed(u, c) = Listed(h, NULL) \ {c} /\ ~u[c].loop /\ u[c].state = "live"
  BY <1>0, <1>1 DEF Live, Listed, OnlyLinks
<1> HIDE DEF u
<1>3. CASE new = NULL
  <2>1. g = [u EXCEPT ![c].parent = NULL, ![c].next = NULL, ![c].prev = NULL]
    BY <1>3 DEF _talloc_steal, u
  <2>2. [[[u[c] EXCEPT !.parent = NULL] EXCEPT !.next = NULL] EXCEPT !.prev = NULL] \in Header
    <3>1. u[c] \in Header
      BY <1>0, <1>1 DEF Heaps
    <3> QED
      BY <1>0, <3>1, HeaderWith
  <2>3. g = [u EXCEPT ![c] = [[[u[c] EXCEPT !.parent = NULL] EXCEPT !.next = NULL] EXCEPT !.prev = NULL]]
    BY <1>0, <1>1, <2>1 DEF Heaps
  <2>4. g \in Heaps /\ \A d \in Chunk \ {c} : g[d] = u[d]
    BY <1>0, <1>1, <2>2, <2>3 DEF Heaps
  <2>5. /\ g[c].parent = NULL /\ g[c].next = NULL /\ g[c].prev = NULL /\ g[c].child = u[c].child
        /\ g[c].state = u[c].state /\ g[c].loop = u[c].loop /\ g[c].refs = u[c].refs
        /\ g[c].ptr = u[c].ptr /\ g[c].destructor = u[c].destructor
    BY <1>0, <1>1, <2>1 DEF Heaps, Header
  <2> HIDE DEF g
  <2>6. OnlyLinks(h, g)
    BY <1>0, <1>1, <2>4, <2>5 DEF OnlyLinks
  <2>7. Forest(g, NULL, [par EXCEPT ![c] = NULL], pos, rank)
    <3>1. c \in Live(u)
      BY <1>0, <1>2
    <3>2. g[c].state = "live" /\ ~g[c].loop
      BY <1>2, <2>5
    <3> QED
      BY <1>1, <1>2, <2>4, <2>5, <3>1, <3>2, RootForest
  <2>8. /\ [par EXCEPT ![c] = NULL] \in [Chunk -> Ptr] /\ [par EXCEPT ![c] = NULL][c] = NULL
        /\ \A d \in Chunk \ {c} : [par EXCEPT ![c] = NULL][d] = par[d]
    BY <1>0
  <2>9. \A d \in Chunk : g[d].parent \in {h[d].parent, h[c].parent, new, NULL}
    BY <1>1, <2>4, <2>5
  <2>10. \A d \in Chunk : h[d].child = NULL /\ d # new => g[d].child = NULL
    BY <1>1, <2>4, <2>5
  <2>11. \A d \in Chunk \ Listed(h, NULL) : g[d].prev = h[d].prev /\ g[d].parent = h[d].parent
    BY <1>1, <2>4
  <2>12. \E q \in [Chunk -> Ptr], i, j \in [Chunk -> Nat] :
              /\ Forest(g, NULL, q, i, j) /\ (new # c => q[c] = new)
              /\ \A d \in Chunk \ {c} : q[d] = par[d]
    BY <1>3, <2>7, <2>8
  <2> QED
    BY <2>4, <2>6, <2>9, <2>10, <2>11, <2>12 DEF g
<1>4. CASE new # NULL /\ (new = c \/ h[c].parent = new)
  <2>1. g = h
    BY <1>4 DEF _talloc_steal
  <2>2. h[c].parent = new => par[c] = new
    BY <1>4 DEF Forest, PrevOK, ParentOK
  <2>3. \E q \in [Chunk -> Ptr], i, j \in [Chunk -> Nat] :
              /\ Forest(g, NULL, q, i, j) /\ (new # c => q[c] = new)
              /\ \A d \in Chunk \ {c} : q[d] = par[d]
    BY <1>4, <2>1, <2>2
  <2>4. OnlyLinks(h, g)
    BY <2>1 DEF OnlyLinks
  <2>5. \A d \in Chunk : g[d].parent \in {h[d].parent, h[c].parent, new, NULL}
    BY <2>1
  <2> HIDE DEF g
  <2> QED
    BY <2>1, <2>3, <2>4, <2>5 DEF g
<1>5. CASE new # NULL /\ new # c /\ h[c].parent # new
  <2> DEFINE S == Subtree(h, c)
             k == Hook(u, new, c)
             q == [par EXCEPT ![c] = new]
  <2>1. g = k
    BY <1>5 DEF _talloc_steal, u
  <2>2. /\ S \in SUBSET Chunk /\ c \in S /\ new \notin S /\ new \in Live(u) /\ c \in Live(u)
        /\ \A d \in Listed(u, c) : par[d] \in S => d \in S
    <3>1. /\ S \in SUBSET Live(h) /\ c \in S
          /\ \A d \in Listed(h, NULL) : par[d] \in S => d \in S
      BY <1>0, SubtreeFacts
    <3>2. Live(h) \subseteq Chunk
      BY DEF Live
    <3> QED
      BY <1>0, <1>2, <1>5, <3>1, <3>2
  <2> HIDE DEF S
  <2>3. /\ k \in Heaps /\ OnlyLinks(u, k)
        /\ \E i, j \in [Chunk -> Nat] : Forest(k, NULL, q, i, j)
        /\ \A d \in Chunk : d # new => k[d].child = u[d].child
        /\ \A d \in Chunk : k[d].parent \in {u[d].parent, new, NULL}
        /\ \A d \in Chunk \ {c} : ~(u[d].state = "live" /\ ~u[d].loop) =>
              k[d].prev = u[d].prev /\ k[d].parent = u[d].parent
    BY <1>1, <1>2, <2>2, HookForest
  <2> HIDE DEF g, k
  <2>4. OnlyLinks(h, g)
    BY <1>1, <2>1, <2>3 DEF OnlyLinks
  <2>5. q \in [Chunk -> Ptr] /\ q[c] = new /\ \A d \in Chunk \ {c} : q[d] = par[d]
    BY <1>0, <1>5 DEF Live, Ptr
  <2>6. \E z \in [Chunk -> Ptr], i, j \in [Chunk -> Nat] :
              /\ Forest(g, NULL, z, i, j) /\ (new # c => z[c] = new)
              /\ \A d \in Chunk \ {c} : z[d] = par[d]
    <3> HIDE DEF q
    <3>1. PICK i, j \in [Chunk -> Nat] : Forest(g, NULL, q, i, j)
      BY <2>1, <2>3
    <3> QED
      BY <2>5, <3>1
  <2>7. \A d \in Chunk : g[d].parent \in {h[d].parent, h[c].parent, new, NULL}
    BY <1>1, <2>1, <2>3
  <2>8. \A d \in Chunk : h[d].child = NULL /\ d # new => g[d].child = NULL
    BY <1>1, <2>1, <2>3
  <2>9. \A d \in Chunk \ Listed(h, NULL) : g[d].prev = h[d].prev /\ g[d].parent = h[d].parent
    <3>1. \A d \in Chunk \ Listed(h, NULL) : ~(u[d].state = "live" /\ ~u[d].loop) /\ d # c
      BY <1>0, <1>1 DEF Listed, Live, OnlyLinks
    <3> QED
      BY <1>1, <2>1, <2>3, <3>1
  <2> QED
    BY <2>1, <2>3, <2>4, <2>6, <2>7, <2>8, <2>9 DEF g
<1> QED
  BY <1>3, <1>4, <1>5

\* The chunks in lists have been there before, with the same parents, but for c.
KeptParents(h, g, c) ==
  \A d \in Listed(g, NULL) \ {c} :
    d \in Listed(h, NULL) /\ talloc_parent_chunk(g, d) = talloc_parent_chunk(h, d)

\* Two forests that agree on the parents agree on talloc_parent_chunk().
LEMMA SameParents ==
  ASSUME NEW h \in Heaps, NEW g \in Heaps, NEW c,
         NEW par \in [Chunk -> Ptr], NEW pos \in [Chunk -> Nat], NEW rank \in [Chunk -> Nat],
         Forest(h, NULL, par, pos, rank),
         NEW q \in [Chunk -> Ptr], NEW i \in [Chunk -> Nat], NEW j \in [Chunk -> Nat],
         Forest(g, NULL, q, i, j),
         \A d \in Listed(g, NULL) \ {c} : d \in Listed(h, NULL) /\ q[d] = par[d]
  PROVE  KeptParents(h, g, c)
<1> SUFFICES ASSUME NEW d \in Listed(g, NULL) \ {c}
             PROVE  d \in Listed(h, NULL) /\ talloc_parent_chunk(g, d) = talloc_parent_chunk(h, d)
  BY DEF KeptParents
<1>1. d \in Listed(h, NULL) /\ q[d] = par[d] /\ d \in Chunk /\ d \in Listed(g, NULL)
  BY DEF Listed, Live
<1>2. talloc_parent_chunk(g, d) = q[d]
  BY <1>1, ParentChunk
<1>3. talloc_parent_chunk(h, d) = par[d]
  BY <1>1, ParentChunk
<1> QED
  BY <1>1, <1>2, <1>3

\* _talloc_steal() keeps the tree and everybody else's parent, provided that the new parent is
\* not below the chunk.
LEMMA StealTree ==
  ASSUME NEW h, NEW n \in Ptr, Tree(h, n), NEW c \in Listed(h, NULL), c # n,
         NEW new \in Live(h) \cup {NULL}, new \notin Subtree(h, c) \ {c},
         new # NULL => ~Handle(h, new)
  PROVE  LET g == _talloc_steal(h, new, c) IN
         /\ Tree(g, n) /\ OnlyLinks(h, g) /\ KeptParents(h, g, c)
         /\ \A d \in Chunk \ Listed(h, NULL) : g[d].prev = h[d].prev /\ g[d].parent = h[d].parent
<1> DEFINE g == _talloc_steal(h, new, c)
<1>0. h \in Heaps /\ OwnersOK(h) /\ Refs(h) /\ NULL \notin Chunk
      /\ c \in Chunk /\ Live(h) \subseteq Chunk
  BY TallocAssumption DEF Tree, Listed, Live
<1>1. PICK par \in [Chunk -> Ptr], pos \in [Chunk -> Nat], rank \in [Chunk -> Nat] :
         Forest(h, NULL, par, pos, rank) /\ (n # NULL => par[n] = NULL)
  BY DEF Tree
<1>2. /\ g \in Heaps /\ OnlyLinks(h, g)
      /\ \E q \in [Chunk -> Ptr], i, j \in [Chunk -> Nat] :
              /\ Forest(g, NULL, q, i, j) /\ (new # c => q[c] = new)
              /\ \A d \in Chunk \ {c} : q[d] = par[d]
      /\ \A d \in Chunk : g[d].parent \in {h[d].parent, h[c].parent, new, NULL}
      /\ \A d \in Chunk : h[d].child = NULL /\ d # new => g[d].child = NULL
      /\ \A d \in Chunk \ Listed(h, NULL) : g[d].prev = h[d].prev /\ g[d].parent = h[d].parent
  BY <1>0, <1>1, StealForest, SMTT(30)
<1> HIDE DEF g
<1>3. Refs(g)
  <2>1. \A d \in Live(h) : Handle(h, d) => g[d].child = NULL
    BY <1>0, <1>2 DEF Refs
  <2> QED
    BY <1>0, <1>2, <2>1, RefsLinks
<1>4. OwnersOK(g)
  <2> SUFFICES ASSUME NEW d \in Chunk, g[d].parent # NULL
               PROVE  g[g[d].parent].state # "unused" /\ ~Handle(g, g[d].parent)
    BY DEF OwnersOK
  <2>1. h[g[d].parent].state # "unused" /\ ~Handle(h, g[d].parent)
    <3>1. g[d].parent \in {h[d].parent, h[c].parent} \/ (g[d].parent = new /\ new # NULL)
      BY <1>2
    <3>2. new # NULL => h[new].state # "unused" /\ ~Handle(h, new)
      BY DEF Live
    <3> QED
      BY <1>0, <3>1, <3>2 DEF OwnersOK
  <2>2. g[d].parent \in Chunk
    BY <1>2 DEF Heaps, Header, Ptr
  <2> QED
    BY <1>2, <2>1, <2>2 DEF OnlyLinks, Handle
<1>5. PICK q \in [Chunk -> Ptr], i \in [Chunk -> Nat], j \in [Chunk -> Nat] :
        Forest(g, NULL, q, i, j) /\ \A d \in Chunk \ {c} : q[d] = par[d]
  BY <1>2
<1>6. n # NULL => q[n] = NULL
  BY <1>1, <1>5 DEF Ptr
<1>7. Tree(g, n)
  BY <1>2, <1>3, <1>4, <1>5, <1>6 DEF Tree
<1>8. KeptParents(h, g, c)
  <2>1. Listed(g, NULL) = Listed(h, NULL) /\ Listed(h, NULL) \subseteq Chunk
    BY <1>2 DEF Listed, Live, OnlyLinks
  <2>2. \A d \in Listed(g, NULL) \ {c} : d \in Listed(h, NULL) /\ q[d] = par[d]
    BY <1>5, <2>1
  <2> QED
    BY <1>0, <1>1, <1>2, <1>5, <2>2, SameParents
<1> QED
  BY <1>2, <1>7, <1>8 DEF g

\* Each at most once.
Distinct(r) == \A i, j \in DOMAIN r : r[i] = r[j] => i = j

\* Taking a handle out of the references takes out that one, and no other.
LEMMA WithoutFacts ==
  ASSUME NEW r \in Seq(Chunk), Distinct(r), NEW x \in Range(r)
  PROVE  /\ Without(r, x) \in Seq(Chunk) /\ Distinct(Without(r, x))
         /\ Range(Without(r, x)) = Range(r) \ {x}
<1> DEFINE k == CHOOSE i \in DOMAIN r : r[i] = x
           w == [i \in 1..Len(r) - 1 |-> IF i < k THEN r[i] ELSE r[i + 1]]
<1>0. \E i \in DOMAIN r : r[i] = x
  BY DEF Range
<1>1. k \in DOMAIN r /\ r[k] = x
  BY <1>0, Zenon
<1>2. Without(r, x) = RemoveAt(r, k)
  BY DEF Without
<1> HIDE DEF k
<1>3. k \in 1..Len(r) /\ DOMAIN r = 1..Len(r) /\ Len(r) \in Nat
  BY <1>1
<1>4. \A i \in 1..Len(r)-1 : /\ i \in 1..Len(r) /\ i + 1 \in 1..Len(r)
                             /\ w[i] = IF i < k THEN r[i] ELSE r[i + 1]
  BY <1>3
<1>5. w \in Seq(Chunk) /\ DOMAIN w = 1..Len(r)-1
  <2>1. w \in [1..Len(r)-1 -> Chunk]
    BY <1>3, <1>4
  <2>2. Len(r) - 1 \in Nat
    BY <1>3
  <2> QED
    BY <2>1, <2>2
<1>6. Without(r, x) = w
  <2> DEFINE a == SubSeq(r, 1, k - 1)
             b == SubSeq(r, k + 1, Len(r))
  <2>1. Without(r, x) = a \o b
    BY <1>2 DEF RemoveAt
  <2>2. a \in Seq(Chunk) /\ Len(a) = k - 1 /\ \A i \in 1..k-1 : a[i] = r[i]
    BY <1>3
  <2>3. b \in Seq(Chunk) /\ Len(b) = Len(r) - k /\ \A i \in 1..Len(r)-k : b[i] = r[k + i]
    <3>1. \A i \in k+1..Len(r) : r[i] \in Chunk
      BY <1>3
    <3>2. k + 1 \in Int /\ Len(r) \in Int
      BY <1>3
    <3>3. /\ b \in Seq(Chunk)
          /\ Len(b) = IF k + 1 <= Len(r) THEN Len(r) - (k + 1) + 1 ELSE 0
          /\ \A i \in 1..Len(r)-(k+1)+1 : b[i] = r[(k + 1) + i - 1]
      BY <3>1, <3>2, SubSeqProperties
    <3> HIDE DEF b
    <3>4. Len(b) = Len(r) - k
      <4>1. Len(b) = IF k + 1 <= Len(r) THEN Len(r) - (k + 1) + 1 ELSE 0
        BY <3>3
      <4>2. k \in Int /\ Len(r) \in Int /\ k <= Len(r)
        BY <1>3
      <4> QED
        BY <4>1, <4>2
    <3>5. Len(r) - (k + 1) + 1 = Len(r) - k /\ \A i \in 1..Len(r)-k : (k + 1) + i - 1 = k + i
      BY <1>3
    <3> QED
      BY <3>3, <3>4, <3>5
  <2> HIDE DEF a, b
  <2>4. /\ a \o b \in Seq(Chunk) /\ Len(a \o b) = Len(r) - 1
        /\ \A i \in 1..Len(r)-1 : (a \o b)[i] = IF i <= k - 1 THEN a[i] ELSE b[i - (k - 1)]
    <3>1. /\ a \o b \in Seq(Chunk) /\ Len(a \o b) = Len(a) + Len(b)
          /\ \A i \in 1..Len(a)+Len(b) : (a \o b)[i] = IF i <= Len(a) THEN a[i] ELSE b[i - Len(a)]
      BY <2>2, <2>3, ConcatProperties
    <3>2. Len(a) + Len(b) = Len(r) - 1
      BY <1>3, <2>2, <2>3
    <3> QED
      BY <2>2, <3>1, <3>2
  <2>5. ASSUME NEW i \in 1..Len(r)-1 PROVE (a \o b)[i] = w[i]
    <3>1. i < k => i <= k - 1 /\ i \in 1..k-1
      BY <1>3
    <3>2. ~(i < k) => ~(i <= k - 1) /\ i - (k - 1) \in 1..Len(r)-k /\ k + (i - (k - 1)) = i + 1
      BY <1>3
    <3>3. i < k => (a \o b)[i] = r[i]
      BY <2>2, <2>4, <3>1
    <3>4. ~(i < k) => (a \o b)[i] = r[i + 1]
      BY <2>3, <2>4, <3>2
    <3> QED
      BY <1>4, <3>3, <3>4
  <2>6. Len(w) = Len(r) - 1
    BY <1>3, <1>5
  <2> HIDE DEF w
  <2> QED
    BY <1>5, <2>1, <2>4, <2>5, <2>6, SeqEqual
<1> HIDE DEF w
<1>7. \A i, j \in 1..Len(r) : r[i] = r[j] => i = j
  BY <1>3 DEF Distinct
<1>8. Distinct(w)
  <2> SUFFICES ASSUME NEW i \in 1..Len(r)-1, NEW j \in 1..Len(r)-1, w[i] = w[j] PROVE i = j
    BY <1>5 DEF Distinct
  <2> DEFINE m(l) == IF l < k THEN l ELSE l + 1
  <2>1. m(i) \in 1..Len(r) /\ m(j) \in 1..Len(r) /\ w[i] = r[m(i)] /\ w[j] = r[m(j)]
    BY <1>4
  <2>2. m(i) = m(j)
    BY <1>7, <2>1
  <2> QED
    BY <1>3, <2>2
<1>9. Range(w) = Range(r) \ {x}
  <2>1. ASSUME NEW i \in 1..Len(r)-1 PROVE w[i] \in Range(r) \ {x}
    <3>1. i < k => w[i] = r[i] /\ i # k /\ i \in 1..Len(r)
      BY <1>3, <1>4
    <3>2. ~(i < k) => w[i] = r[i + 1] /\ i + 1 # k /\ i + 1 \in 1..Len(r)
      BY <1>3, <1>4
    <3> QED
      BY <1>1, <1>3, <1>7, <3>1, <3>2 DEF Range
  <2>2. ASSUME NEW i \in 1..Len(r), r[i] # x PROVE r[i] \in Range(w)
    <3>1. i # k
      BY <1>1, <2>2
    <3>2. i < k => i \in 1..Len(r)-1 /\ w[i] = r[i]
      BY <1>3, <1>4
    <3>3. ~(i < k) => i - 1 \in 1..Len(r)-1 /\ ~(i - 1 < k) /\ i - 1 + 1 = i
      BY <1>3, <3>1
    <3>4. ~(i < k) => i - 1 \in 1..Len(r)-1 /\ w[i - 1] = r[i]
      BY <1>4, <3>3
    <3> QED
      BY <1>5, <3>2, <3>4 DEF Range
  <2> QED
    BY <1>3, <1>5, <2>1, <2>2 DEF Range
<1> QED
  BY <1>5, <1>6, <1>8, <1>9

\* A destructor is set.
Marked(h, c, v) == [h EXCEPT ![c].destructor = v]

\* Marking a chunk, or setting its destructor, does not touch the tree.
LEMMA MarkTree ==
  ASSUME NEW h, NEW n, Tree(h, n), NEW c \in Live(h), ~Handle(h, c),
         NEW v \in {"none", "user", "busy"}
  PROVE  LET g == Marked(h, c, v) IN
         /\ Tree(g, n) /\ g[c].destructor = v /\ KeptParents(h, g, NULL)
         /\ \A d \in Chunk : d # c => g[d] = h[d]
         /\ \A d \in Chunk : /\ g[d].state = h[d].state /\ g[d].loop = h[d].loop
                             /\ g[d].refs = h[d].refs /\ g[d].prev = h[d].prev
<1> DEFINE g == [h EXCEPT ![c].destructor = v]
<1>0. h \in Heaps /\ c \in Chunk /\ h[c] \in Header /\ Live(h) \subseteq Chunk
  BY DEF Tree, Live, Heaps
<1>1. [h[c] EXCEPT !.destructor = v] \in Header
  BY <1>0 DEF Header
<1>2. g \in Heaps /\ g[c].destructor = v /\ \A d \in Chunk : d # c => g[d] = h[d]
  BY <1>0, <1>1 DEF Heaps, Header
<1>3. \A d \in Chunk :
        /\ g[d].state = h[d].state /\ g[d].loop = h[d].loop /\ g[d].refs = h[d].refs
        /\ g[d].ptr = h[d].ptr
        /\ g[d].next = h[d].next /\ g[d].prev = h[d].prev /\ g[d].parent = h[d].parent
        /\ g[d].child = h[d].child
  BY <1>0 DEF Heaps, Header
<1> HIDE DEF g
<1>4. \A d \in Chunk : Handle(g, d) <=> Handle(h, d)
  BY <1>2 DEF Handle
<1>5. Live(g) = Live(h) /\ Listed(g, NULL) = Listed(h, NULL)
  BY <1>3 DEF Live, Listed
<1>6. Refs(g)
  <2>1. \A d \in Live(g) : Handle(g, d) =>
       /\ g[d].ptr \in Live(g) /\ d \in Range(g[g[d].ptr].refs)
       /\ g[d].refs = << >> /\ g[d].child = NULL /\ ~g[d].loop
    BY <1>0, <1>3, <1>4, <1>5 DEF Refs, Tree
  <2>2. \A d \in Live(g) : \A x \in Range(g[d].refs) :
       x \in Live(g) /\ Handle(g, x) /\ g[x].ptr = d
    BY <1>0, <1>3, <1>4, <1>5 DEF Refs, Tree
  <2>3. \A d \in Live(g) : \A i, j \in DOMAIN g[d].refs : g[d].refs[i] = g[d].refs[j] => i = j
    <3> SUFFICES ASSUME NEW d \in Live(g)
                 PROVE  \A i, j \in DOMAIN g[d].refs : g[d].refs[i] = g[d].refs[j] => i = j
      OBVIOUS
    <3>1. g[d].refs = h[d].refs /\ d \in Live(h)
      BY <1>0, <1>3, <1>5
    <3>2. \A i, j \in DOMAIN h[d].refs : h[d].refs[i] = h[d].refs[j] => i = j
      BY <3>1 DEF Refs, Tree
    <3> QED
      BY <3>1, <3>2
  <2> QED
    BY <2>1, <2>2, <2>3 DEF Refs
<1>7. OwnersOK(g)
  <2>1. \A d \in Chunk : h[d].parent # NULL => h[d].parent \in Chunk
    BY <1>0 DEF Heaps, Header, Ptr
  <2> QED
    BY <1>3, <1>4, <2>1 DEF OwnersOK, Tree
<1>8. PICK par \in [Chunk -> Ptr], pos \in [Chunk -> Nat], rank \in [Chunk -> Nat] :
         Forest(h, NULL, par, pos, rank) /\ (n # NULL => par[n] = NULL)
  BY DEF Tree
<1>9. Forest(g, NULL, par, pos, rank)
  <2>1. Listed(h, NULL) \subseteq Chunk /\ NULL \in Ptr
    BY DEF Listed, Live, Ptr
  <2> QED
    BY <1>0, <1>2, <1>3, <1>5, <1>8, <2>1, SameForest, SMTT(30)
<1>10. Tree(g, n)
  BY <1>2, <1>6, <1>7, <1>8, <1>9 DEF Tree
<1>11. KeptParents(h, g, NULL)
  <2>1. Listed(g, NULL) = Listed(h, NULL)
    BY <1>3 DEF Listed, Live
  <2> QED
    BY <1>0, <1>2, <1>8, <1>9, <2>1, SameParents
<1> QED
  BY <1>2, <1>3, <1>10, <1>11 DEF g, Marked

\* A chunk is marked as being freed.
LEMMA CondemnTree ==
  ASSUME NEW h, NEW n, Tree(h, n), NEW c \in Listed(h, NULL), ~Handle(h, c)
  PROVE  LET g == Condemned(h, c) IN
         /\ Tree(g, n) /\ g[c].loop = TRUE /\ g[c].destructor = "none" /\ KeptParents(h, g, NULL)
         /\ g[c].prev = h[c].prev
         /\ \A d \in Chunk : g[d].state = h[d].state /\ g[d].refs = h[d].refs
         /\ \A d \in Chunk : d # c => g[d].loop = h[d].loop /\ g[d].destructor = h[d].destructor
         /\ \A d \in Chunk \ Listed(h, NULL) : g[d].prev = h[d].prev
<1> DEFINE g == Condemned(h, c)
           u == Unhook(h, c)
<1>0. h \in Heaps /\ c \in Chunk /\ c \in Live(h) /\ NULL \in Ptr /\ c \in Ptr /\ Live(h) \subseteq Chunk
      /\ NULL \notin Chunk
  BY TallocAssumption DEF Tree, Live, Listed, Ptr
<1>1. PICK par \in [Chunk -> Ptr], pos \in [Chunk -> Nat], rank \in [Chunk -> Nat] :
         Forest(h, NULL, par, pos, rank) /\ (n # NULL => par[n] = NULL)
  BY DEF Tree
<1>2. /\ u \in Heaps /\ OnlyLinks(h, u)
      /\ Forest(u, c, par, pos, rank)
      /\ u[c].child = h[c].child /\ u[c].prev = h[c].prev
      /\ \A d \in Chunk : u[d].parent \in {h[d].parent, h[c].parent}
      /\ \A d \in Chunk : h[d].child = NULL => u[d].child = NULL
      /\ \A d \in Chunk \ Listed(h, NULL) : u[d].prev = h[d].prev /\ u[d].parent = h[d].parent
  BY <1>0, <1>1, UnhookForest
<1>3. g = [u EXCEPT ![c].loop = TRUE, ![c].destructor = "none"]
  BY DEF Condemned
<1> HIDE DEF u
<1>4. g \in Heaps
  <2>1. u[c] \in Header
    BY <1>0, <1>2 DEF Heaps
  <2>2. [u[c] EXCEPT !.loop = TRUE] \in Header
    BY <2>1 DEF Header
  <2>3. [[u[c] EXCEPT !.loop = TRUE] EXCEPT !.destructor = "none"] \in Header
    BY <2>2 DEF Header
  <2>4. g = [u EXCEPT ![c] = [[u[c] EXCEPT !.loop = TRUE] EXCEPT !.destructor = "none"]]
    BY <1>0, <1>2, <1>3 DEF Heaps
  <2> QED
    BY <1>2, <2>3, <2>4 DEF Heaps
<1>5. \A d \in Chunk :
        /\ g[d].state = u[d].state /\ g[d].refs = u[d].refs /\ g[d].ptr = u[d].ptr
        /\ g[d].next = u[d].next /\ g[d].prev = u[d].prev /\ g[d].parent = u[d].parent
        /\ g[d].child = u[d].child
  BY <1>0, <1>2, <1>3 DEF Heaps, Header
<1>6. /\ g[c].loop = TRUE /\ g[c].destructor = "none"
      /\ \A d \in Chunk : d # c => g[d].loop = u[d].loop /\ g[d].destructor = u[d].destructor
  BY <1>0, <1>2, <1>3 DEF Heaps, Header
<1> HIDE DEF g
<1>7. Live(g) = Live(h) /\ Live(u) = Live(h) /\ Listed(g, NULL) = Listed(u, c)
      /\ Listed(u, c) \subseteq Live(u)
  BY <1>0, <1>2, <1>5, <1>6 DEF Live, Listed, OnlyLinks
<1>8. Forest(g, NULL, par, pos, rank)
  <2>1. \A d \in Live(u) : g[d].child = u[d].child
    BY <1>0, <1>5, <1>7
  <2>2. \A d \in Listed(u, c) :
          g[d].next = u[d].next /\ g[d].prev = u[d].prev /\ g[d].parent = u[d].parent
    BY <1>0, <1>5, <1>7
  <2>3. Live(g) = Live(u)
    BY <1>7
  <2> QED
    BY <1>0, <1>1, <1>2, <1>4, <1>7, <2>1, <2>2, <2>3, SameForest, ZenonT(30)
<1>9. \A d \in Chunk : Handle(g, d) <=> Handle(h, d)
  BY <1>2, <1>6 DEF Handle, OnlyLinks
<1>10. OwnersOK(g)
  <2> SUFFICES ASSUME NEW d \in Chunk, g[d].parent # NULL
               PROVE  g[g[d].parent].state # "unused" /\ ~Handle(g, g[d].parent)
    BY DEF OwnersOK
  <2>1. g[d].parent \in {h[d].parent, h[c].parent} /\ g[d].parent \in Chunk
    BY <1>2, <1>4, <1>5 DEF Heaps, Header, Ptr
  <2>2. h[g[d].parent].state # "unused" /\ ~Handle(h, g[d].parent)
    BY <1>0, <2>1 DEF Tree, OwnersOK
  <2> QED
    BY <1>2, <1>5, <1>9, <2>1, <2>2 DEF OnlyLinks
<1>11. Refs(g)
  <2>0. \A d \in Chunk : g[d].refs = h[d].refs /\ g[d].ptr = h[d].ptr
    BY <1>2, <1>5 DEF OnlyLinks
  <2>1. ASSUME NEW d \in Live(g), Handle(g, d)
        PROVE  /\ g[d].ptr \in Live(g) /\ d \in Range(g[g[d].ptr].refs)
               /\ g[d].refs = << >> /\ g[d].child = NULL /\ ~g[d].loop
    <3>1. d \in Chunk /\ d \in Live(h) /\ Handle(h, d) /\ d # c
      BY <1>0, <1>7, <1>9, <2>1
    <3>2. /\ h[d].ptr \in Live(h) /\ d \in Range(h[h[d].ptr].refs)
          /\ h[d].refs = << >> /\ h[d].child = NULL /\ ~h[d].loop
      BY <3>1 DEF Tree, Refs
    <3>3. g[d].child = NULL /\ ~g[d].loop
      BY <1>2, <1>5, <1>6, <3>1, <3>2 DEF OnlyLinks
    <3> QED
      BY <1>0, <1>7, <2>0, <3>1, <3>2, <3>3
  <2>2. \A d \in Live(g) : \A x \in Range(g[d].refs) :
       x \in Live(g) /\ Handle(g, x) /\ g[x].ptr = d
    BY <1>0, <1>7, <1>9, <2>0 DEF Refs, Tree
  <2>3. \A d \in Live(g) : \A i, j \in DOMAIN g[d].refs : g[d].refs[i] = g[d].refs[j] => i = j
    <3> SUFFICES ASSUME NEW d \in Live(g)
                 PROVE  \A i, j \in DOMAIN g[d].refs : g[d].refs[i] = g[d].refs[j] => i = j
      OBVIOUS
    <3>1. g[d].refs = h[d].refs /\ d \in Live(h)
      BY <1>0, <1>7, <2>0
    <3>2. \A i, j \in DOMAIN h[d].refs : h[d].refs[i] = h[d].refs[j] => i = j
      BY <3>1 DEF Refs, Tree
    <3> QED
      BY <3>1, <3>2
  <2> QED
    BY <2>1, <2>2, <2>3 DEF Refs
<1>12. Tree(g, n)
  BY <1>1, <1>4, <1>8, <1>10, <1>11 DEF Tree
<1>13. /\ \A d \in Chunk : g[d].state = h[d].state /\ g[d].refs = h[d].refs
       /\ \A d \in Chunk : d # c => g[d].loop = h[d].loop /\ g[d].destructor = h[d].destructor
  BY <1>2, <1>5, <1>6 DEF OnlyLinks
<1>14. g[c].prev = h[c].prev /\ \A d \in Chunk \ Listed(h, NULL) : g[d].prev = h[d].prev
  BY <1>0, <1>2, <1>5
<1>15. KeptParents(h, g, NULL)
  <2>1. Listed(g, NULL) \subseteq Listed(h, NULL)
    BY <1>2, <1>7 DEF Listed, Live, OnlyLinks
  <2> QED
    BY <1>0, <1>1, <1>4, <1>8, <2>1, SameParents
<1> QED
  BY <1>6, <1>12, <1>13, <1>14, <1>15 DEF g

\* A chunk goes.
Emptied(h, c) == [h EXCEPT ![c] = Freed]

\* Freed, a chunk without children and references leaves a tree.
LEMMA FreedTree ==
  ASSUME NEW h, NEW n, Tree(h, n), NEW c \in Live(h), h[c].loop, h[c].child = NULL,
         h[c].refs = << >>, ~Handle(h, c)
  PROVE  LET g == Emptied(h, c) IN
         /\ Tree(g, n) /\ Live(g) = Live(h) \ {c} /\ g[c] = Freed /\ KeptParents(h, g, NULL)
         /\ \A d \in Chunk : d # c => g[d] = h[d]
<1> DEFINE g == [h EXCEPT ![c] = Freed]
<1>0. h \in Heaps /\ c \in Chunk /\ NULL \in Ptr /\ c \in Ptr /\ Live(h) \subseteq Chunk /\ NULL \notin Chunk
  BY TallocAssumption DEF Tree, Live, Ptr
<1>1. PICK par \in [Chunk -> Ptr], pos \in [Chunk -> Nat], rank \in [Chunk -> Nat] :
         Forest(h, NULL, par, pos, rank) /\ (n # NULL => par[n] = NULL)
  BY DEF Tree
<1>2. Listed(h, c) = Listed(h, NULL)
  BY <1>0 DEF Listed
<1>3. Forest(h, c, par, pos, rank)
  BY <1>0, <1>1, <1>2, SameForest
<1>4. g \in Heaps /\ Live(g) = Live(h) \ {c} /\ Forest(g, NULL, par, pos, rank)
  BY <1>0, <1>3, FreedForest
<1>5. g[c] = Freed /\ \A d \in Chunk : d # c => g[d] = h[d]
  BY <1>0 DEF Heaps
<1> HIDE DEF g
<1>6. Freed.parent = NULL /\ Freed.state = "freed" /\ Freed.destructor = "none"
  BY DEF Freed, Unused
<1>7. OwnersOK(g)
  <2> SUFFICES ASSUME NEW d \in Chunk, g[d].parent # NULL
               PROVE  g[g[d].parent].state # "unused" /\ ~Handle(g, g[d].parent)
    BY DEF OwnersOK
  <2>1. g[d].parent = h[d].parent /\ g[d].parent \in Chunk
    BY <1>4, <1>5, <1>6 DEF Heaps, Header, Ptr
  <2>2. h[g[d].parent].state # "unused" /\ ~Handle(h, g[d].parent)
    BY <1>0, <2>1 DEF Tree, OwnersOK
  <2> QED
    BY <1>5, <1>6, <2>1, <2>2 DEF Handle
<1>8. Refs(g)
  <2>0. Range(h[c].refs) = {}
    BY DEF Range
  <2>1. ASSUME NEW d \in Live(g), Handle(g, d)
        PROVE  /\ g[d].ptr \in Live(g) /\ d \in Range(g[g[d].ptr].refs)
               /\ g[d].refs = << >> /\ g[d].child = NULL /\ ~g[d].loop
    <3>1. d # c /\ g[d] = h[d] /\ d \in Live(h) /\ Handle(h, d)
      BY <1>0, <1>4, <1>5, <2>1 DEF Handle
    <3>2. /\ h[d].ptr \in Live(h) /\ d \in Range(h[h[d].ptr].refs)
          /\ h[d].refs = << >> /\ h[d].child = NULL /\ ~h[d].loop
      BY <3>1 DEF Tree, Refs
    <3>3. h[d].ptr # c
      BY <2>0, <3>2
    <3> QED
      BY <1>0, <1>4, <1>5, <3>1, <3>2, <3>3
  <2>2. ASSUME NEW d \in Live(g), NEW x \in Range(g[d].refs)
        PROVE  x \in Live(g) /\ Handle(g, x) /\ g[x].ptr = d
    <3>1. g[d] = h[d] /\ d \in Live(h)
      BY <1>0, <1>4, <1>5
    <3>2. x \in Live(h) /\ Handle(h, x) /\ h[x].ptr = d
      BY <2>2, <3>1 DEF Tree, Refs
    <3> QED
      BY <1>0, <1>4, <1>5, <3>2 DEF Handle
  <2>3. ASSUME NEW d \in Live(g)
        PROVE  \A i, j \in DOMAIN g[d].refs : g[d].refs[i] = g[d].refs[j] => i = j
    <3>1. g[d] = h[d] /\ d \in Live(h)
      BY <1>0, <1>4, <1>5
    <3>2. \A i, j \in DOMAIN h[d].refs : h[d].refs[i] = h[d].refs[j] => i = j
      BY <3>1 DEF Refs, Tree
    <3> QED
      BY <3>1, <3>2
  <2> QED
    BY <2>1, <2>2, <2>3 DEF Refs
<1>9. Tree(g, n)
  BY <1>1, <1>4, <1>7, <1>8 DEF Tree
<1>10. KeptParents(h, g, NULL)
  <2>1. Listed(g, NULL) \subseteq Listed(h, NULL)
    BY <1>0, <1>4, <1>5 DEF Listed
  <2> QED
    BY <1>0, <1>1, <1>4, <2>1, SameParents
<1> QED
  BY <1>4, <1>5, <1>9, <1>10 DEF g, Emptied

\* A handle is freed: the reference is gone on both sides.
LEMMA FreeHandleTree ==
  ASSUME NEW h, NEW n, Tree(h, n), NEW x \in Live(h), Handle(h, x)
  PROVE  LET g == FreeHandle(h, x) IN
         /\ Tree(g, n) /\ Live(g) = Live(h) \ {x} /\ g[x] = Freed /\ KeptParents(h, g, NULL)
         /\ \A d \in Chunk : d # x => /\ g[d].state = h[d].state /\ g[d].loop = h[d].loop
                                      /\ g[d].destructor = h[d].destructor
         /\ \A d \in Chunk : h[d].refs = << >> => g[d].refs = << >>
         /\ \A d \in Chunk \ Listed(h, NULL) : g[d].prev = h[d].prev
<1> DEFINE c == h[x].ptr
           r == [h EXCEPT ![c].refs = Without(@, x)]
           u == Unhook(r, x)
           g == FreeHandle(h, x)
<1>0. /\ h \in Heaps /\ x \in Chunk /\ NULL \in Ptr /\ x \in Ptr /\ Live(h) \subseteq Chunk
      /\ NULL \notin Chunk /\ x # NULL
  BY TallocAssumption DEF Tree, Live, Ptr
<1>1. PICK par \in [Chunk -> Ptr], pos \in [Chunk -> Nat], rank \in [Chunk -> Nat] :
         Forest(h, NULL, par, pos, rank) /\ (n # NULL => par[n] = NULL)
  BY DEF Tree
<1>2. /\ c \in Live(h) /\ c \in Chunk /\ x \in Range(h[c].refs)
      /\ h[x].refs = << >> /\ h[x].child = NULL /\ ~h[x].loop
  BY <1>0 DEF Tree, Refs
<1>3. /\ Without(h[c].refs, x) \in Seq(Chunk) /\ Distinct(Without(h[c].refs, x))
      /\ Range(Without(h[c].refs, x)) = Range(h[c].refs) \ {x}
  <2>1. h[c].refs \in Seq(Chunk)
    BY <1>0, <1>2 DEF Heaps, Header
  <2>2. Distinct(h[c].refs)
    BY <1>2 DEF Distinct, Tree, Refs
  <2> QED
    BY <1>2, <2>1, <2>2, WithoutFacts
<1>4. r \in Heaps
  <2>1. h[c] \in Header
    BY <1>0, <1>2 DEF Heaps
  <2>2. [h[c] EXCEPT !.refs = Without(h[c].refs, x)] \in Header
    BY <1>3, <2>1 DEF Header
  <2> QED
    BY <1>0, <2>2 DEF Heaps
<1>5. /\ \A d \in Chunk :
           /\ r[d].state = h[d].state /\ r[d].loop = h[d].loop /\ r[d].ptr = h[d].ptr
           /\ r[d].destructor = h[d].destructor
           /\ r[d].next = h[d].next /\ r[d].prev = h[d].prev /\ r[d].parent = h[d].parent
           /\ r[d].child = h[d].child
      /\ r[c].refs = Without(h[c].refs, x)
      /\ \A d \in Chunk : d # c => r[d].refs = h[d].refs
  BY <1>0, <1>2 DEF Heaps, Header
<1>6. g = [u EXCEPT ![x] = Freed]
  BY DEF FreeHandle
<1> HIDE DEF r, c, g
<1>7. Live(r) = Live(h) /\ Listed(r, NULL) = Listed(h, NULL) /\ Listed(h, NULL) \subseteq Chunk
      /\ x \in Listed(r, NULL)
  BY <1>0, <1>2, <1>5 DEF Live, Listed
<1>8. Forest(r, NULL, par, pos, rank)
  <2>1. \A d \in Live(h) : r[d].child = h[d].child
    BY <1>0, <1>5
  <2>2. \A d \in Listed(h, NULL) :
          r[d].next = h[d].next /\ r[d].prev = h[d].prev /\ r[d].parent = h[d].parent
    BY <1>5, <1>7
  <2> QED
    BY <1>0, <1>1, <1>4, <1>7, <2>1, <2>2, SameForest
<1>9. /\ u \in Heaps /\ OnlyLinks(r, u)
      /\ Forest(u, x, par, pos, rank)
      /\ u[x].child = r[x].child
      /\ \A d \in Chunk : u[d].parent \in {r[d].parent, r[x].parent}
      /\ \A d \in Chunk : r[d].child = NULL => u[d].child = NULL
      /\ \A d \in Chunk \ Listed(r, NULL) : u[d].prev = r[d].prev /\ u[d].parent = r[d].parent
  BY <1>4, <1>7, <1>8, UnhookForest
<1> HIDE DEF u
<1>10. Live(u) = Live(h)
  BY <1>5, <1>9 DEF Live, OnlyLinks
<1>11. g \in Heaps /\ Live(g) = Live(h) \ {x} /\ Forest(g, NULL, par, pos, rank)
  <2>1. x \in Live(u) /\ u[x].child = NULL
    BY <1>0, <1>2, <1>5, <1>9, <1>10
  <2> QED
    BY <1>6, <1>9, <1>10, <2>1, FreedForest
<1>12. g[x] = Freed /\ \A d \in Chunk : d # x => g[d] = u[d]
  BY <1>0, <1>6, <1>9 DEF Heaps
<1>13. Freed.parent = NULL /\ Freed.state = "freed" /\ Freed.destructor = "none" /\ Freed.refs = << >>
       /\ Freed.prev = NULL
  BY DEF Freed, Unused
<1>14. \A d \in Chunk : d # x =>
           /\ g[d].state = h[d].state /\ g[d].loop = h[d].loop /\ g[d].ptr = h[d].ptr
           /\ g[d].destructor = h[d].destructor /\ (Handle(g, d) <=> Handle(h, d))
           /\ g[d].parent \in {h[d].parent, h[x].parent}
           /\ (h[d].child = NULL => g[d].child = NULL)
           /\ d # c => g[d].refs = h[d].refs
  BY <1>0, <1>5, <1>9, <1>12 DEF OnlyLinks, Handle
<1>15. c # x /\ g[c].refs = Without(h[c].refs, x)
  <2>1. c # x
    BY <1>2 DEF Range
  <2> QED
    BY <1>2, <1>5, <1>9, <1>12, <2>1 DEF OnlyLinks
<1>16. OwnersOK(g)
  <2> SUFFICES ASSUME NEW d \in Chunk, g[d].parent # NULL
               PROVE  g[g[d].parent].state # "unused" /\ ~Handle(g, g[d].parent)
    BY DEF OwnersOK
  <2>1. g[d].parent \in {h[d].parent, h[x].parent} /\ g[d].parent \in Chunk
    BY <1>11, <1>12, <1>13, <1>14 DEF Heaps, Header, Ptr
  <2>2. h[g[d].parent].state # "unused" /\ ~Handle(h, g[d].parent)
    BY <1>0, <2>1 DEF Tree, OwnersOK
  <2>3. g[d].parent # x
    BY <2>2
  <2> QED
    BY <1>14, <2>1, <2>2, <2>3
<1>17. Refs(g)
  <2>1. ASSUME NEW d \in Live(g), Handle(g, d)
        PROVE  /\ g[d].ptr \in Live(g) /\ d \in Range(g[g[d].ptr].refs)
               /\ g[d].refs = << >> /\ g[d].child = NULL /\ ~g[d].loop
    <3>1. d # x /\ d \in Chunk /\ d \in Live(h) /\ Handle(h, d) /\ g[d].ptr = h[d].ptr
      BY <1>0, <1>11, <1>14, <2>1
    <3>2. /\ h[d].ptr \in Live(h) /\ d \in Range(h[h[d].ptr].refs)
          /\ h[d].refs = << >> /\ h[d].child = NULL /\ ~h[d].loop
      BY <3>1 DEF Tree, Refs
    <3>3. h[d].ptr # x
      BY <1>2, <3>2 DEF Range
    <3>4. d # c
      BY <1>2, <3>2 DEF Range
    <3>5. d \in Range(g[h[d].ptr].refs)
      BY <1>0, <1>3, <1>14, <1>15, <3>1, <3>2, <3>3
    <3> QED
      BY <1>11, <1>14, <3>1, <3>2, <3>3, <3>4, <3>5
  <2>2. ASSUME NEW d \in Live(g), NEW y \in Range(g[d].refs)
        PROVE  y \in Live(g) /\ Handle(g, y) /\ g[y].ptr = d
    <3>1. d \in Live(h) /\ d # x /\ d \in Chunk
      BY <1>0, <1>11
    <3>2. y \in Range(h[d].refs) /\ (d = c => y # x)
      BY <1>3, <1>14, <1>15, <3>1
    <3>3. y \in Live(h) /\ Handle(h, y) /\ h[y].ptr = d
      BY <3>1, <3>2 DEF Tree, Refs
    <3>4. y # x /\ y \in Chunk
      BY <1>0, <3>2, <3>3 DEF c
    <3> QED
      BY <1>11, <1>14, <3>3, <3>4
  <2>3. ASSUME NEW d \in Live(g)
        PROVE  \A i, j \in DOMAIN g[d].refs : g[d].refs[i] = g[d].refs[j] => i = j
    <3>1. d \in Live(h) /\ d # x /\ d \in Chunk
      BY <1>0, <1>11
    <3>2. Distinct(h[d].refs)
      BY <3>1 DEF Tree, Refs, Distinct
    <3>3. Distinct(g[d].refs)
      BY <1>3, <1>14, <1>15, <3>1, <3>2
    <3> QED
      BY <3>3 DEF Distinct
  <2> QED
    BY <2>1, <2>2, <2>3 DEF Refs
<1>18. Tree(g, n)
  BY <1>1, <1>11, <1>16, <1>17 DEF Tree
<1>19. \A d \in Chunk : h[d].refs = << >> => g[d].refs = << >>
  <2>1. h[c].refs # << >>
    BY <1>2 DEF Range
  <2> QED
    BY <1>12, <1>13, <1>14, <2>1
<1>20. \A d \in Chunk \ Listed(h, NULL) : g[d].prev = h[d].prev
  BY <1>5, <1>7, <1>9, <1>12
<1>21. KeptParents(h, g, NULL)
  <2>1. Listed(g, NULL) \subseteq Listed(h, NULL)
    BY <1>0, <1>11, <1>14 DEF Listed
  <2> QED
    BY <1>0, <1>1, <1>11, <2>1, SameParents
<1> QED
  BY <1>11, <1>12, <1>14, <1>18, <1>19, <1>20, <1>21 DEF g

\* A chunk as __talloc() makes it,
NewChunk == [Unused EXCEPT !.state = "live"]

\* at the head of the children of p, or a root when there is no p.
Placed(h, p, c) ==
  IF p = NULL THEN [h EXCEPT ![c] = NewChunk] ELSE Hook([h EXCEPT ![c] = NewChunk], p, c)

\* A new chunk, below p if there is one.
LEMMA AllocTree ==
  ASSUME NEW h, NEW n \in Ptr, Tree(h, n), NEW c \in Chunk, h[c].state = "unused", c # n,
         NEW p \in Live(h) \cup {NULL}, p # NULL => ~Handle(h, p)
  PROVE  LET g == Placed(h, p, c) IN
         /\ Tree(g, n) /\ (p = NULL => Tree(g, c)) /\ g[c].child = NULL
         /\ OnlyLinks([h EXCEPT ![c] = NewChunk], g)
         /\ \A d \in Chunk : g[d].parent # c
<1> DEFINE b == [h EXCEPT ![c] = NewChunk]
           g == Placed(h, p, c)
<1>0. /\ h \in Heaps /\ NULL \in Ptr /\ c \in Ptr /\ Live(h) \subseteq Chunk
      /\ NULL \notin Chunk /\ c # NULL /\ p \in Ptr /\ c \notin Live(h)
  BY TallocAssumption DEF Tree, Live, Ptr
<1>1. PICK par \in [Chunk -> Ptr], pos \in [Chunk -> Nat], rank \in [Chunk -> Nat] :
         Forest(h, NULL, par, pos, rank) /\ (n # NULL => par[n] = NULL)
  BY DEF Tree
<1>2. /\ NewChunk.state = "live" /\ NewChunk.loop = FALSE /\ NewChunk.next = NULL
      /\ NewChunk.prev = NULL /\ NewChunk.parent = NULL /\ NewChunk.child = NULL
      /\ NewChunk.refs = << >> /\ NewChunk.destructor = "none"
  BY DEF NewChunk, Unused
<1>3. NewChunk \in Header
  BY HeaderBlank DEF NewChunk, Header
<1>4. b \in Heaps /\ b[c] = NewChunk /\ \A d \in Chunk : d # c => b[d] = h[d]
  BY <1>0, <1>3 DEF Heaps
<1> HIDE DEF b, g
<1>5. /\ Live(b) = Live(h) \cup {c} /\ Listed(b, c) = Listed(h, NULL)
      /\ Listed(h, NULL) \subseteq Chunk \ {c} /\ Live(h) \subseteq Chunk \ {c}
  <2>1. Live(b) = Live(h) \cup {c}
    BY <1>0, <1>2, <1>4 DEF Live
  <2>2. Listed(h, NULL) \subseteq Chunk \ {c} /\ Live(h) \subseteq Chunk \ {c}
    BY <1>0 DEF Listed, Live
  <2> QED
    BY <1>0, <1>4, <2>1, <2>2 DEF Listed
<1>6. Forest(b, c, par, pos, rank)
  <2>1. ChildOK(b, c)
    BY <1>1, <1>2, <1>4, <1>5 DEF Forest, ChildOK
  <2>2. NextOK(b, c, par, pos)
    BY <1>1, <1>4, <1>5 DEF Forest, NextOK
  <2>3. PrevOK(b, c)
    BY <1>1, <1>4, <1>5 DEF Forest, PrevOK
  <2>4. ParentOK(b, c, par)
    BY <1>1, <1>4, <1>5 DEF Forest, ParentOK
  <2>5. ParOK(b, c, par, rank)
    BY <1>1, <1>5 DEF Forest, ParOK
  <2> QED
    BY <2>1, <2>2, <2>3, <2>4, <2>5 DEF Forest
<1>7. /\ g \in Heaps /\ OnlyLinks(b, g)
      /\ \E i, j \in [Chunk -> Nat] : Forest(g, NULL, [par EXCEPT ![c] = p], i, j)
      /\ \A d \in Chunk : d # p => g[d].child = b[d].child
      /\ \A d \in Chunk : g[d].parent \in {b[d].parent, p, NULL}
  <2>1. CASE p = NULL
    <3>1. g = b
      BY <2>1 DEF b, g, Placed
    <3>2. c \in Live(b) /\ ~b[c].loop /\ b[c].state = "live"
      BY <1>2, <1>4, <1>5
    <3>3. Forest(b, NULL, [par EXCEPT ![c] = NULL], pos, rank)
      BY <1>2, <1>4, <1>6, <3>2, RootForest
    <3> QED
      BY <1>4, <2>1, <3>1, <3>3 DEF OnlyLinks
  <2>2. CASE p # NULL
    <3>1. g = Hook(b, p, c)
      BY <2>2 DEF b, g, Placed
    <3>2. c \in Live(b) /\ ~b[c].loop /\ p \in Live(b) /\ p # c /\ p \notin {c} /\ {c} \in SUBSET Chunk
      BY <1>0, <1>2, <1>4, <1>5, <2>2
    <3>3. \A d \in Listed(b, c) : par[d] \in {c} => d \in {c}
      <4>1. \A d \in Listed(h, NULL) : par[d] # NULL => par[d] \in Live(h)
        BY <1>1 DEF Forest, ParOK
      <4> QED
        BY <1>0, <1>5, <4>1
    <3>4. /\ Hook(b, p, c) \in Heaps /\ OnlyLinks(b, Hook(b, p, c))
          /\ \E i, j \in [Chunk -> Nat] : Forest(Hook(b, p, c), NULL, [par EXCEPT ![c] = p], i, j)
          /\ \A d \in Chunk : d # p => Hook(b, p, c)[d].child = b[d].child
          /\ \A d \in Chunk : Hook(b, p, c)[d].parent \in {b[d].parent, p, NULL}
      BY <1>4, <1>6, <3>2, <3>3, HookForest, ZenonT(30)
    <3> QED
      BY <3>1, <3>4
  <2> QED
    BY <2>1, <2>2
<1>8. \A d \in Chunk : g[d].parent # c
  <2>1. \A d \in Chunk : b[d].parent # c
    BY <1>0, <1>2, <1>4, ZenonT(30) DEF Tree, OwnersOK
  <2> QED
    BY <1>0, <1>7, <2>1
<1>9. \A d \in Chunk : Handle(b, d) <=> d # c /\ Handle(h, d)
  BY <1>2, <1>4 DEF Handle
<1>10. Refs(b)
  <2>1. ASSUME NEW d \in Live(b), Handle(b, d)
        PROVE  /\ b[d].ptr \in Live(b) /\ d \in Range(b[b[d].ptr].refs)
               /\ b[d].refs = << >> /\ b[d].child = NULL /\ ~b[d].loop
    <3>1. d # c /\ d \in Chunk /\ d \in Live(h) /\ Handle(h, d) /\ b[d] = h[d]
      BY <1>0, <1>4, <1>5, <1>9, <2>1
    <3>2. /\ h[d].ptr \in Live(h) /\ d \in Range(h[h[d].ptr].refs)
          /\ h[d].refs = << >> /\ h[d].child = NULL /\ ~h[d].loop
      BY <3>1 DEF Tree, Refs
    <3> QED
      BY <1>4, <1>5, <3>1, <3>2
  <2>2. ASSUME NEW d \in Live(b), NEW y \in Range(b[d].refs)
        PROVE  y \in Live(b) /\ Handle(b, y) /\ b[y].ptr = d
    <3>1. d # c /\ d \in Live(h) /\ b[d] = h[d]
      BY <1>2, <1>4, <1>5 DEF Range
    <3>2. y \in Live(h) /\ Handle(h, y) /\ h[y].ptr = d
      BY <3>1 DEF Tree, Refs
    <3> QED
      BY <1>4, <1>5, <1>9, <3>2
  <2>3. ASSUME NEW d \in Live(b)
        PROVE  \A i, j \in DOMAIN b[d].refs : b[d].refs[i] = b[d].refs[j] => i = j
    <3>1. CASE d = c
      BY <1>2, <1>4, <3>1
    <3>2. CASE d # c
      <4>1. d \in Live(h) /\ b[d] = h[d]
        BY <1>4, <1>5, <3>2
      <4>2. Distinct(h[d].refs)
        BY <4>1 DEF Tree, Refs, Distinct
      <4> QED
        BY <4>1, <4>2 DEF Distinct
    <3> QED
      BY <3>1, <3>2
  <2> QED
    BY <2>1, <2>2, <2>3 DEF Refs
<1>11. Refs(g)
  <2>1. ASSUME NEW d \in Live(b), Handle(b, d) PROVE g[d].child = NULL
    <3>1. d # c /\ d \in Chunk /\ d # p /\ d \in Live(h) /\ Handle(h, d)
      BY <1>0, <1>5, <1>9, <2>1
    <3>2. h[d].child = NULL
      BY <3>1 DEF Tree, Refs
    <3> QED
      BY <1>4, <1>7, <3>1, <3>2
  <2> QED
    BY <1>7, <1>10, <2>1, RefsLinks
<1>12. OwnersOK(g)
  <2> SUFFICES ASSUME NEW d \in Chunk, g[d].parent # NULL
               PROVE  g[g[d].parent].state # "unused" /\ ~Handle(g, g[d].parent)
    BY DEF OwnersOK
  <2>1. g[d].parent \in Chunk \ {c}
    BY <1>7, <1>8 DEF Heaps, Header, Ptr
  <2>2. h[g[d].parent].state # "unused" /\ ~Handle(h, g[d].parent)
    <3>1. g[d].parent = p \/ (d # c /\ g[d].parent = h[d].parent)
      BY <1>2, <1>4, <1>7
    <3>2. g[d].parent = p => h[p].state # "unused" /\ ~Handle(h, p)
      BY DEF Live
    <3> QED
      BY <1>0, <3>1, <3>2 DEF Tree, OwnersOK
  <2>3. \A e \in Chunk \ {c} : g[e].state = h[e].state /\ g[e].destructor = h[e].destructor
    BY <1>4, <1>7 DEF OnlyLinks
  <2> QED
    BY <2>1, <2>2, <2>3 DEF Handle
<1>13. PICK i \in [Chunk -> Nat], j \in [Chunk -> Nat] : Forest(g, NULL, [par EXCEPT ![c] = p], i, j)
  BY <1>7
<1>14. [par EXCEPT ![c] = p] \in [Chunk -> Ptr] /\ [par EXCEPT ![c] = p][c] = p
       /\ (n # NULL => [par EXCEPT ![c] = p][n] = NULL)
  BY <1>0, <1>1 DEF Ptr
<1>15. Tree(g, n)
  BY <1>7, <1>11, <1>12, <1>13, <1>14 DEF Tree
<1>16. p = NULL => Tree(g, c)
  BY <1>7, <1>11, <1>12, <1>13, <1>14 DEF Tree
<1>17. g[c].child = NULL
  BY <1>0, <1>2, <1>4, <1>5, <1>7
<1> QED
  BY <1>7, <1>8, <1>15, <1>16, <1>17 DEF b, g

\* A handle is hung up, and listed by what it refers to.
Referred(k, x, c) ==
  [k EXCEPT ![x].destructor = "reference", ![x].ptr = c, ![c].refs = <<x>> \o @]

\* x has become a handle, and the tree is one still.
NewHandle(h, g, x, n) ==
  /\ Tree(g, n)
  /\ \A d \in Chunk : d # x => /\ g[d].state = h[d].state /\ g[d].loop = h[d].loop
                               /\ g[d].destructor = h[d].destructor
  /\ g[x].state = "live" /\ g[x].loop = FALSE /\ g[x].destructor = "reference"

\* talloc_reference(): a new chunk below the context becomes a handle of c.
LEMMA ReferenceTree ==
  ASSUME NEW h, NEW n \in Ptr, Tree(h, n), n # NULL => n \in Live(h),
         NEW c \in Live(h), ~Handle(h, c), ~h[c].loop,
         NEW x \in Chunk, h[x].state = "unused",
         NEW p \in Live(h) \cup {NULL}, p # NULL => ~Handle(h, p)
  PROVE  NewHandle(h, Referred(Placed(h, p, x), x, c), x, n)
<1> DEFINE b == [h EXCEPT ![x] = NewChunk]
           k == Placed(h, p, x)
           g == [k EXCEPT ![x].destructor = "reference", ![x].ptr = c, ![c].refs = <<x>> \o @]
           s == <<x>> \o k[c].refs
<1>0. h \in Heaps /\ c \in Chunk /\ Live(h) \subseteq Chunk /\ x \notin Live(h) /\ c # x /\ x # n
      /\ NULL \notin Chunk /\ NULL \in Ptr
  BY TallocAssumption DEF Tree, Live, Ptr
<1>1. /\ Tree(k, n) /\ k[x].child = NULL /\ OnlyLinks(b, k) /\ \A d \in Chunk : k[d].parent # x
  BY <1>0, AllocTree
<1>2. b[x] = NewChunk /\ \A d \in Chunk : d # x => b[d] = h[d]
  BY <1>0 DEF Heaps
<1> HIDE DEF b, k
<1>3. NewChunk.state = "live" /\ NewChunk.loop = FALSE /\ NewChunk.refs = << >> /\ NewChunk.destructor = "none"
  BY DEF NewChunk, Unused
<1>4. /\ \A d \in Chunk : d # x => /\ k[d].state = h[d].state /\ k[d].loop = h[d].loop
                                   /\ k[d].destructor = h[d].destructor /\ k[d].refs = h[d].refs
      /\ k[x].state = "live" /\ k[x].loop = FALSE /\ k[x].refs = << >> /\ k[x].destructor = "none"
  BY <1>1, <1>2, <1>3 DEF OnlyLinks
<1>5. k \in Heaps /\ Refs(k) /\ OwnersOK(k)
  BY <1>1 DEF Tree
<1>6. x \in Live(k) /\ c \in Live(k) /\ ~Handle(k, c) /\ ~Handle(k, x)
  BY <1>0, <1>4 DEF Live, Handle
<1>7. s \in Seq(Chunk) /\ Range(s) = Range(k[c].refs) \cup {x} /\ Distinct(s)
  <2>1. k[c].refs \in Seq(Chunk) /\ <<x>> \in Seq(Chunk) /\ Len(<<x>>) = 1 /\ <<x>>[1] = x
    <3>1. k[c].refs \in Seq(Chunk)
      BY <1>0, <1>5 DEF Heaps, Header
    <3> QED
      BY <3>1
  <2> DEFINE r == k[c].refs
  <2>2. Distinct(r) /\ x \notin Range(r)
    <3>1. \A i, j \in DOMAIN r : r[i] = r[j] => i = j
      BY <1>5, <1>6 DEF Refs
    <3>2. x \notin Range(r)
      BY <1>5, <1>6 DEF Refs
    <3> QED
      BY <3>1, <3>2 DEF Distinct
  <2> HIDE DEF r
  <2>3. r \in Seq(Chunk) /\ Len(r) \in Nat /\ DOMAIN r = 1..Len(r)
    BY <2>1 DEF r
  <2>4. /\ s \in Seq(Chunk) /\ Len(s) = 1 + Len(r)
        /\ \A i \in 1..1+Len(r) : s[i] = IF i <= 1 THEN <<x>>[i] ELSE r[i - 1]
    BY <2>1, <2>3, ConcatProperties DEF r
  <2> HIDE DEF s
  <2>5. DOMAIN s = 1..1+Len(r) /\ s[1] = x /\ \A i \in 1..Len(r) : i + 1 \in DOMAIN s /\ s[i + 1] = r[i]
    <3>1. DOMAIN s = 1..1+Len(r)
      BY <2>3, <2>4
    <3>2. s[1] = x
      BY <2>1, <2>3, <2>4
    <3>3. ASSUME NEW i \in 1..Len(r) PROVE i + 1 \in 1..1+Len(r) /\ s[i + 1] = r[i]
      <4>1. i + 1 \in 1..1+Len(r) /\ ~(i + 1 <= 1) /\ (i + 1) - 1 = i
        BY <2>3
      <4> QED
        BY <2>4, <4>1
    <3> QED
      BY <3>1, <3>2, <3>3
  <2>6. \A i \in 1..1+Len(r) : i = 1 \/ (i - 1 \in 1..Len(r) /\ s[i] = r[i - 1])
    <3> SUFFICES ASSUME NEW i \in 1..1+Len(r), i # 1
                 PROVE  i - 1 \in 1..Len(r) /\ s[i] = r[i - 1]
      OBVIOUS
    <3>1. i - 1 \in 1..Len(r) /\ ~(i <= 1)
      BY <2>3
    <3> QED
      BY <2>4, <3>1
  <2>7. Range(s) = Range(r) \cup {x}
    <3>1. \A y \in Range(s) : y \in Range(r) \cup {x}
      BY <2>3, <2>5, <2>6 DEF Range
    <3>2. \A y \in Range(r) : y \in Range(s)
      BY <2>3, <2>5 DEF Range
    <3>3. x \in Range(s)
      <4>1. 1 \in DOMAIN s
        BY <2>3, <2>5
      <4> QED
        BY <2>5, <4>1 DEF Range
    <3> QED
      BY <3>1, <3>2, <3>3
  <2>8. Distinct(s)
    <3> SUFFICES ASSUME NEW i \in 1..1+Len(r), NEW j \in 1..1+Len(r), s[i] = s[j] PROVE i = j
      BY <2>5 DEF Distinct
    <3>1. \A l \in 1..Len(r) : r[l] # x
      BY <2>2, <2>3 DEF Range
    <3>2. CASE i = 1 \/ j = 1
      BY <2>5, <2>6, <3>1, <3>2
    <3>3. CASE i # 1 /\ j # 1
      <4>1. i - 1 \in 1..Len(r) /\ j - 1 \in 1..Len(r) /\ r[i - 1] = r[j - 1]
        BY <2>6, <3>3
      <4>2. i - 1 = j - 1
        BY <2>2, <2>3, <4>1 DEF Distinct
      <4> QED
        BY <4>2
    <3> QED
      BY <3>2, <3>3
  <2> QED
    BY <2>4, <2>7, <2>8 DEF r
<1>8. g \in Heaps
  <2>1. k[x] \in Header /\ k[c] \in Header /\ c \in Ptr
    BY <1>0, <1>5 DEF Heaps, Ptr
  <2>2. [[k[x] EXCEPT !.destructor = "reference"] EXCEPT !.ptr = c] \in Header
    <3>1. [k[x] EXCEPT !.destructor = "reference"] \in Header
      BY <2>1 DEF Header
    <3> QED
      BY <2>1, <3>1 DEF Header
  <2> HIDE DEF s
  <2>3. [k[c] EXCEPT !.refs = s] \in Header
    BY <1>7, <2>1 DEF Header
  <2>4. g = [[k EXCEPT ![x] = [[k[x] EXCEPT !.destructor = "reference"] EXCEPT !.ptr = c]]
               EXCEPT ![c] = [k[c] EXCEPT !.refs = s]]
    BY <1>0, <1>5 DEF Heaps, s
  <2> QED
    BY <1>5, <2>2, <2>3, <2>4 DEF Heaps
<1> HIDE DEF s
<1>9. /\ \A d \in Chunk :
           /\ g[d].state = k[d].state /\ g[d].loop = k[d].loop
           /\ g[d].next = k[d].next /\ g[d].prev = k[d].prev /\ g[d].parent = k[d].parent
           /\ g[d].child = k[d].child
      /\ \A d \in Chunk : d # x => g[d].destructor = k[d].destructor /\ g[d].ptr = k[d].ptr
      /\ \A d \in Chunk : d # c => g[d].refs = k[d].refs
      /\ g[x].destructor = "reference" /\ g[x].ptr = c /\ g[c].refs = s
  <2>1. \A d \in Chunk : d # x => g[d].destructor = k[d].destructor /\ g[d].ptr = k[d].ptr
    BY <1>0, <1>5 DEF Heaps, Header
  <2>2. \A d \in Chunk : d # c => g[d].refs = k[d].refs
    BY <1>0, <1>5, ZenonT(30) DEF Heaps, Header
  <2>3. g[x].destructor = "reference" /\ g[x].ptr = c /\ g[c].refs = s
    <3>1. g[x] = [k[x] EXCEPT !.destructor = "reference", !.ptr = c]
      BY <1>0, <1>5 DEF Heaps
    <3>2. g[c] = [k[c] EXCEPT !.refs = s]
      BY <1>0, <1>5 DEF Heaps, s
    <3>3. k[x] \in Header /\ k[c] \in Header
      BY <1>0, <1>5 DEF Heaps
    <3> HIDE DEF g
    <3> QED
      BY <3>1, <3>2, <3>3 DEF Header
  <2>4. \A d \in Chunk :
           /\ g[d].state = k[d].state /\ g[d].loop = k[d].loop
           /\ g[d].next = k[d].next /\ g[d].prev = k[d].prev /\ g[d].parent = k[d].parent
           /\ g[d].child = k[d].child
    BY <1>0, <1>5 DEF Heaps, Header
  <2> QED
    BY <2>1, <2>2, <2>3, <2>4
<1> HIDE DEF g
<1>10. Live(g) = Live(k) /\ Listed(g, NULL) = Listed(k, NULL) /\ Live(k) \subseteq Chunk
       /\ Listed(k, NULL) \subseteq Chunk
  BY <1>9 DEF Live, Listed
<1>11. \A d \in Chunk : Handle(g, d) <=> d = x \/ Handle(k, d)
  BY <1>9 DEF Handle
<1>12. Refs(g)
  <2>1. ASSUME NEW d \in Live(g), Handle(g, d)
        PROVE  /\ g[d].ptr \in Live(g) /\ d \in Range(g[g[d].ptr].refs)
               /\ g[d].refs = << >> /\ g[d].child = NULL /\ ~g[d].loop
    <3>1. CASE d = x
      BY <1>0, <1>1, <1>4, <1>6, <1>7, <1>9, <1>10, <3>1
    <3>2. CASE d # x
      <4>1. d \in Chunk /\ d \in Live(k) /\ Handle(k, d) /\ d # c
        BY <1>6, <1>10, <1>11, <2>1, <3>2
      <4>2. /\ k[d].ptr \in Live(k) /\ d \in Range(k[k[d].ptr].refs)
            /\ k[d].refs = << >> /\ k[d].child = NULL /\ ~k[d].loop
        BY <1>5, <4>1 DEF Refs
      <4>3. d \in Range(g[k[d].ptr].refs)
        BY <1>7, <1>9, <1>10, <4>2
      <4> QED
        BY <1>9, <1>10, <3>2, <4>1, <4>2, <4>3
    <3> QED
      BY <3>1, <3>2
  <2>2. ASSUME NEW d \in Live(g), NEW y \in Range(g[d].refs)
        PROVE  y \in Live(g) /\ Handle(g, y) /\ g[y].ptr = d
    <3>1. CASE d = c /\ y = x
      BY <1>0, <1>6, <1>9, <1>10, <1>11, <3>1
    <3>2. CASE ~(d = c /\ y = x)
      <4>1. d \in Chunk /\ d \in Live(k) /\ y \in Range(k[d].refs)
        BY <1>7, <1>9, <1>10, <3>2
      <4>2. y \in Live(k) /\ Handle(k, y) /\ k[y].ptr = d
        BY <1>5, <4>1 DEF Refs
      <4> QED
        BY <1>6, <1>9, <1>10, <1>11, <4>2
    <3> QED
      BY <3>1, <3>2
  <2>3. ASSUME NEW d \in Live(g)
        PROVE  \A i, j \in DOMAIN g[d].refs : g[d].refs[i] = g[d].refs[j] => i = j
    <3>1. d \in Chunk /\ Distinct(k[d].refs)
      BY <1>5, <1>10 DEF Refs, Distinct
    <3>2. Distinct(g[d].refs)
      BY <1>7, <1>9, <3>1
    <3> QED
      BY <3>2 DEF Distinct
  <2> QED
    BY <2>1, <2>2, <2>3 DEF Refs
<1>13. OwnersOK(g)
  <2> SUFFICES ASSUME NEW d \in Chunk, g[d].parent # NULL
               PROVE  g[g[d].parent].state # "unused" /\ ~Handle(g, g[d].parent)
    BY DEF OwnersOK
  <2>1. g[d].parent = k[d].parent /\ g[d].parent \in Chunk /\ g[d].parent # x
    BY <1>1, <1>8, <1>9 DEF Heaps, Header, Ptr
  <2>2. k[g[d].parent].state # "unused" /\ ~Handle(k, g[d].parent)
    BY <1>5, <2>1 DEF OwnersOK
  <2> QED
    BY <1>9, <1>11, <2>1, <2>2
<1>14. PICK par \in [Chunk -> Ptr], pos \in [Chunk -> Nat], rank \in [Chunk -> Nat] :
         Forest(k, NULL, par, pos, rank) /\ (n # NULL => par[n] = NULL)
  BY <1>1 DEF Tree
<1>15. Forest(g, NULL, par, pos, rank)
  <2>1. \A d \in Live(k) : g[d].child = k[d].child
    BY <1>9, <1>10
  <2>2. \A d \in Listed(k, NULL) :
          g[d].next = k[d].next /\ g[d].prev = k[d].prev /\ g[d].parent = k[d].parent
    BY <1>9, <1>10
  <2> QED
    BY <1>0, <1>5, <1>8, <1>10, <1>14, <2>1, <2>2, SameForest, ZenonT(30)
<1>16. Tree(g, n)
  BY <1>8, <1>12, <1>13, <1>14, <1>15 DEF Tree
<1>17. /\ \A d \in Chunk : d # x => /\ g[d].state = h[d].state /\ g[d].loop = h[d].loop
                                    /\ g[d].destructor = h[d].destructor
       /\ g[x].state = "live" /\ g[x].loop = FALSE /\ g[x].destructor = "reference"
  BY <1>4, <1>9
<1>18. g = Referred(Placed(h, p, x), x, c)
  BY DEF g, k, Referred
<1> QED
  BY <1>16, <1>17, <1>18 DEF NewHandle

\* The same chunk at another address.
LEMMA MovedTree ==
  ASSUME NEW h, NEW n \in Ptr, Tree(h, n), n # NULL => n \in Live(h), NEW c \in Listed(h, NULL), c # n,
         ~Handle(h, c), h[c].refs = << >>, NEW d \in Chunk, h[d].state = "unused"
  PROVE  LET g == Moved(h, c, d) IN
         /\ Tree(g, n) /\ g[c] = Freed /\ g[d] = h[c]
         /\ \A e \in Chunk \ {c, d} : /\ g[e].state = h[e].state /\ g[e].loop = h[e].loop
                                      /\ g[e].destructor = h[e].destructor
<1> DEFINE g == Moved(h, c, d)
<1>0. h \in Heaps /\ c \in Chunk /\ Live(h) \subseteq Chunk /\ d \notin Live(h) /\ c # d /\ d # n
      /\ c \in Live(h) /\ NULL \notin Chunk /\ NULL \in Ptr
  BY TallocAssumption DEF Tree, Live, Ptr, Listed
<1>1. PICK par \in [Chunk -> Ptr], pos \in [Chunk -> Nat], rank \in [Chunk -> Nat] :
         Forest(h, NULL, par, pos, rank) /\ (n # NULL => par[n] = NULL)
  BY DEF Tree
<1>2. /\ {h[c].next, h[c].prev, h[c].child, h[c].parent} \cap {c, d} = {}
      /\ ForestOf(g, Renamed(par, c, d))
  <2>1. d \in Chunk \ Live(h)
    BY <1>0
  <2> QED
    BY <1>0, <1>1, <2>1, MovedForest
<1>3. /\ g \in Heaps /\ g[c] = Freed /\ g[d] = h[c]
      /\ \A e \in Chunk \ {c, d} :
              /\ g[e].next = IF e = h[c].prev THEN d ELSE h[e].next
              /\ g[e].prev = IF e = h[c].next THEN d ELSE h[e].prev
              /\ g[e].child = IF e = h[c].parent THEN d ELSE h[e].child
              /\ g[e].parent = IF e = h[c].child THEN d ELSE h[e].parent
              /\ g[e].state = h[e].state /\ g[e].loop = h[e].loop
              /\ g[e].refs = h[e].refs /\ g[e].ptr = h[e].ptr
              /\ g[e].destructor = h[e].destructor
  BY <1>0, <1>2, MovedLinks
<1> HIDE DEF g
<1>4. Freed.parent = NULL /\ Freed.state = "freed" /\ Freed.destructor = "none" /\ Freed.refs = << >>
  BY DEF Freed, Unused
<1>5. Live(g) = (Live(h) \ {c}) \cup {d} /\ \A e \in Live(h) \ {c} : e \in Chunk \ {c, d}
  BY <1>0, <1>3, <1>4 DEF Live
<1>6. /\ ~Handle(g, c) /\ ~Handle(g, d) /\ g[c].refs = << >> /\ g[d].refs = << >>
      /\ \A e \in Chunk \ {c, d} : Handle(g, e) <=> Handle(h, e)
  BY <1>3, <1>4 DEF Handle
<1>7. Refs(g)
  <2>1. ASSUME NEW e \in Live(g), Handle(g, e)
        PROVE  /\ g[e].ptr \in Live(g) /\ e \in Range(g[g[e].ptr].refs)
               /\ g[e].refs = << >> /\ g[e].child = NULL /\ ~g[e].loop
    <3>1. e \in Chunk \ {c, d} /\ e \in Live(h) /\ Handle(h, e)
      BY <1>5, <1>6, <2>1
    <3>2. /\ h[e].ptr \in Live(h) /\ e \in Range(h[h[e].ptr].refs)
          /\ h[e].refs = << >> /\ h[e].child = NULL /\ ~h[e].loop
      BY <3>1 DEF Tree, Refs
    <3>3. h[e].ptr # c
      BY <3>2 DEF Range
    <3>4. e # h[c].parent
      BY <1>0, <3>1 DEF Tree, OwnersOK
    <3>5. g[e].child = NULL
      BY <1>3, <3>1, <3>2, <3>4
    <3> QED
      BY <1>3, <1>5, <3>1, <3>2, <3>3, <3>5
  <2>2. ASSUME NEW e \in Live(g), NEW y \in Range(g[e].refs)
        PROVE  y \in Live(g) /\ Handle(g, y) /\ g[y].ptr = e
    <3>1. e \in Chunk \ {c, d} /\ e \in Live(h)
      BY <1>5, <1>6 DEF Range
    <3>2. y \in Live(h) /\ Handle(h, y) /\ h[y].ptr = e
      BY <1>3, <3>1 DEF Tree, Refs
    <3>3. y \in Chunk \ {c, d}
      BY <1>5, <3>2
    <3> QED
      BY <1>3, <1>5, <1>6, <3>2, <3>3
  <2>3. ASSUME NEW e \in Live(g)
        PROVE  \A i, j \in DOMAIN g[e].refs : g[e].refs[i] = g[e].refs[j] => i = j
    <3>1. CASE e = d
      BY <1>6, <3>1
    <3>2. CASE e # d
      <4>1. e \in Chunk \ {c, d} /\ e \in Live(h)
        BY <1>5, <3>2
      <4>2. Distinct(h[e].refs) /\ g[e].refs = h[e].refs
        BY <1>3, <4>1 DEF Tree, Refs, Distinct
      <4> QED
        BY <4>2 DEF Distinct
    <3> QED
      BY <3>1, <3>2
  <2> QED
    BY <2>1, <2>2, <2>3 DEF Refs
<1>8. OwnersOK(g)
  <2> SUFFICES ASSUME NEW e \in Chunk, g[e].parent # NULL
               PROVE  g[g[e].parent].state # "unused" /\ ~Handle(g, g[e].parent)
    BY DEF OwnersOK
  <2>1. CASE g[e].parent = d
    <3>1. g[d].state = "live"
      BY <1>0, <1>3 DEF Live
    <3> QED
      BY <1>6, <2>1, <3>1
  <2>2. CASE g[e].parent # d
    <3>1. g[e].parent \in {h[e].parent, h[c].parent} /\ g[e].parent \in Chunk
      <4>1. g[e].parent \in Chunk
        BY <1>3 DEF Heaps, Header, Ptr
      <4>2. CASE e = c
        BY <1>3, <1>4, <4>2
      <4>3. CASE e = d
        BY <1>3, <4>1, <4>3
      <4>4. CASE e # c /\ e # d
        BY <1>3, <2>2, <4>1, <4>4
      <4> QED
        BY <4>2, <4>3, <4>4
    <3>2. h[g[e].parent].state # "unused" /\ ~Handle(h, g[e].parent)
      BY <1>0, <3>1 DEF Tree, OwnersOK
    <3>3. g[e].parent = c => g[c].state # "unused"
      BY <1>3, <1>4
    <3> QED
      BY <1>3, <1>6, <2>2, <3>1, <3>2, <3>3
  <2> QED
    BY <2>1, <2>2
<1> DEFINE q == Renamed(par, c, d)
<1>9. q \in [Chunk -> Ptr] /\ (n # NULL => q[n] = NULL)
  BY <1>0, <1>1 DEF Renamed, Ptr
<1> HIDE DEF q
<1>10. PICK i \in [Chunk -> Nat], j \in [Chunk -> Nat] : Forest(g, NULL, q, i, j)
  BY <1>2 DEF q, ForestOf
<1>11. Tree(g, n)
  BY <1>3, <1>7, <1>8, <1>9, <1>10 DEF Tree
<1> QED
  BY <1>3, <1>11 DEF g

-----------------------------------------------------------------------------
(* The frames of the calls in progress, and what they say of the marks *)

\* What a step does to a chunk d that no frame has to do with.
Same(h, g, d) ==
  /\ g[d].loop = h[d].loop
  /\ g[d].destructor = "busy" <=> h[d].destructor = "busy"
  /\ Handle(g, d) => Handle(h, d)
  /\ g[d].state = "unused" => h[d].state = "unused"
  /\ h[d].state = "live" /\ ~Handle(h, d) => g[d].state = "live"
  /\ h[d].refs = << >> => g[d].refs = << >>
  /\ h[d].loop => g[d].prev = h[d].prev

\* A frame of the stack is about a chunk.
LEMMA FrameFacts ==
  ASSUME NEW s \in Seq(Frame), NEW i \in DOMAIN s
  PROVE  s[i] \in Frame /\ s[i].tc \in Chunk /\ s[i].new \in Ptr
<1>1. s[i] \in Frame
  OBVIOUS
<1> QED
  BY <1>1 DEF Frame

\* No chunk changes as far as the frames are concerned.
LEMMA SameStacked ==
  ASSUME NEW h, NEW g, NEW s \in Seq(Frame), NEW n \in Ptr, Stacked(h, s, n),
         \A d \in Chunk : Same(h, g, d),
         \A i \in DOMAIN s : s[i].at = "entry" \/ (s[i].fn = "free_children" /\ s[i].at = "kids")
           => s[i].tc \in Live(g)
  PROVE  Stacked(g, s, n)
<1>0. \A i \in DOMAIN s : s[i] \in Frame /\ s[i].tc \in Chunk /\ s[i].new \in Ptr
  BY FrameFacts
<1>1. FrameOK(s)
  BY DEF Stacked
<1>2. ActiveOK(g, s)
  <2>1. ActiveOK(h, s)
    BY DEF Stacked
  <2>2. ASSUME NEW i \in DOMAIN s, Active(s, i)
        PROVE  /\ s[i].tc \in Live(g) /\ g[s[i].tc].refs = << >> /\ ~Handle(g, s[i].tc)
               /\ g[s[i].tc].loop <=> Freeing(s, i)
               /\ ~Freeing(s, i) => g[s[i].tc].destructor = "busy"
    <3>1. Same(h, g, s[i].tc)
      BY <1>0
    <3>2. /\ s[i].tc \in Live(h) /\ h[s[i].tc].refs = << >> /\ ~Handle(h, s[i].tc)
          /\ h[s[i].tc].loop <=> Freeing(s, i)
          /\ ~Freeing(s, i) => h[s[i].tc].destructor = "busy"
      BY <2>1, <2>2 DEF ActiveOK
    <3> QED
      BY <1>0, <3>1, <3>2 DEF Same, Live
  <2>3. \A c \in Chunk : g[c].loop \/ g[c].destructor = "busy" =>
          \E i \in DOMAIN s : Active(s, i) /\ s[i].tc = c
    BY <2>1 DEF ActiveOK, Same
  <2>4. \A i, j \in DOMAIN s : Active(s, i) /\ Active(s, j) /\ s[i].tc = s[j].tc => i = j
    BY <2>1 DEF ActiveOK
  <2> QED
    BY <2>2, <2>3, <2>4 DEF ActiveOK
<1>3. CalledOK(g, s)
  <2>1. CalledOK(h, s)
    BY DEF Stacked
  <2> SUFFICES ASSUME NEW i \in DOMAIN s
               PROVE  /\ s[i].at = "entry" => s[i].tc \in Live(g)
                      /\ s[i].fn = "free_children" /\ s[i].at = "kids" => s[i].tc \in Live(g)
                      /\ s[i].fn = "free_children" => g[s[i].tc].state # "unused"
                      /\ s[i].new # NULL => ~Handle(g, s[i].new)
    BY DEF CalledOK
  <2>2. s[i].fn = "free_children" => g[s[i].tc].state # "unused"
    BY <1>0, <2>1 DEF CalledOK, Same
  <2>3. s[i].new # NULL => ~Handle(g, s[i].new)
    BY <1>0, <2>1 DEF CalledOK, Same, Ptr
  <2> QED
    BY <2>2, <2>3
<1>4. NullOK(g, s, n)
  <2>1. NullOK(h, s, n)
    BY DEF Stacked
  <2>2. n # NULL => n \in Chunk /\ Same(h, g, n)
    BY DEF Ptr
  <2>3. n # NULL => ~Handle(g, n) /\ (n \in Live(h) => n \in Live(g))
    BY <2>1, <2>2 DEF NullOK, Same, Live
  <2> QED
    BY <2>1, <2>3 DEF NullOK
<1>5. BehindOK(g, s)
  <2>1. \A i \in DOMAIN s : Freeing(s, i) => g[s[i].tc].prev = h[s[i].tc].prev
    BY <1>0 DEF Stacked, ActiveOK, Active, Freeing, Same
  <2> QED
    BY <2>1 DEF Stacked, BehindOK
<1> QED
  BY <1>1, <1>2, <1>3, <1>4, <1>5 DEF Stacked

\* What is below the innermost call, when that returns.
Popped(s) == [Tail(s) EXCEPT ![1].at = IF @ = "kid" THEN "kids" ELSE @, ![1].new = NULL]

\* What is left of the stack when the innermost frame returns.
LEMMA PoppedFacts ==
  ASSUME NEW s \in Seq(Frame), Len(s) > 1
  PROVE  /\ Popped(s) \in Seq(Frame) /\ Len(Popped(s)) = Len(s) - 1
         /\ Popped(s) # << >>
         /\ \A i \in DOMAIN Popped(s) :
              /\ i \in Nat /\ i + 1 \in DOMAIN s /\ s[i + 1] \in Frame
              /\ Popped(s)[i].fn = s[i + 1].fn /\ Popped(s)[i].tc = s[i + 1].tc
              /\ i > 1 => Popped(s)[i] = s[i + 1]
         /\ \A i \in DOMAIN s : i > 1 => i - 1 \in DOMAIN Popped(s)
         /\ Popped(s)[1].at = IF s[2].at = "kid" THEN "kids" ELSE s[2].at
         /\ Popped(s)[1].new = NULL
<1> DEFINE r == Tail(s)
           f == [r[1] EXCEPT !.at = IF @ = "kid" THEN "kids" ELSE @, !.new = NULL]
<1>1. /\ r \in Seq(Frame) /\ Len(r) = Len(s) - 1 /\ Len(s) \in Nat
      /\ \A i \in 1..Len(r) : r[i] = s[i + 1]
  BY HeadTailProperties
<1>2. 1 \in 1..Len(r) /\ r[1] \in Frame /\ r[1] = s[2]
  BY <1>1
<1>3. f \in Frame /\ f.fn = r[1].fn /\ f.tc = r[1].tc /\ f.new = NULL
      /\ f.at = IF s[2].at = "kid" THEN "kids" ELSE s[2].at
  BY <1>2 DEF Frame, Ptr
<1>4. Popped(s) = [r EXCEPT ![1] = f]
  BY <1>1, <1>2 DEF Popped
<1> HIDE DEF r, f
<1>5. /\ Popped(s) \in Seq(Frame) /\ Len(Popped(s)) = Len(r) /\ DOMAIN Popped(s) = 1..Len(r)
      /\ Popped(s)[1] = f /\ \A i \in 1..Len(r) : i # 1 => Popped(s)[i] = r[i]
  BY <1>1, <1>2, <1>3, <1>4
<1>6. \A i \in DOMAIN s : s[i] \in Frame /\ DOMAIN s = 1..Len(s)
  OBVIOUS
<1>7. ASSUME NEW i \in DOMAIN Popped(s)
      PROVE  /\ i \in Nat /\ i + 1 \in DOMAIN s /\ s[i + 1] \in Frame
             /\ Popped(s)[i].fn = s[i + 1].fn /\ Popped(s)[i].tc = s[i + 1].tc
             /\ i > 1 => Popped(s)[i] = s[i + 1]
  <2>1. i \in Nat /\ i + 1 \in DOMAIN s /\ s[i + 1] \in Frame /\ i \in 1..Len(r)
    BY <1>1, <1>5
  <2>2. CASE i = 1
    BY <1>1, <1>2, <1>3, <1>5, <2>1, <2>2
  <2>3. CASE i # 1
    BY <1>1, <1>5, <2>1, <2>3
  <2> QED
    BY <2>2, <2>3
<1>8. \A i \in DOMAIN s : i > 1 => i - 1 \in DOMAIN Popped(s)
  BY <1>1, <1>5
<1>9. Popped(s) # << >>
  BY <1>2, <1>5
<1> QED
  BY <1>1, <1>3, <1>5, <1>7, <1>8, <1>9

\* What a call may leave behind when it returns: the chunk it was about is not
\* marked any more, if it was the call that marked it; no other has changed.
Left(h, g, s) ==
  /\ \A d \in Chunk : d # s[1].tc \/ ~Active(s, 1) => Same(h, g, d)
  /\ Active(s, 1) => /\ ~g[s[1].tc].loop /\ g[s[1].tc].destructor \notin {"busy", "reference"}
                     /\ g[s[1].tc].state # "unused"

\* The innermost frame returns, leaving nothing behind: the others still agree with memory.
LEMMA PoppedStacked ==
  ASSUME NEW h, NEW g, NEW s \in Seq(Frame), NEW n \in Ptr, Stacked(h, s, n), Len(s) > 1,
         Left(h, g, s),
         s[2].fn = "free_children" => s[2].tc \in Live(g)
  PROVE  Stacked(g, Popped(s), n)
<1> DEFINE q == Popped(s)
           t == s[1].tc
<1>0. \A i \in DOMAIN s : s[i] \in Frame /\ s[i].tc \in Chunk /\ s[i].new \in Ptr
  BY FrameFacts
<1>1. /\ q \in Seq(Frame) /\ Len(q) = Len(s) - 1
      /\ q # << >>
      /\ \A i \in DOMAIN q :
              /\ i \in Nat /\ i + 1 \in DOMAIN s /\ s[i + 1] \in Frame
              /\ q[i].fn = s[i + 1].fn /\ q[i].tc = s[i + 1].tc
              /\ i > 1 => q[i] = s[i + 1]
      /\ \A i \in DOMAIN s : i > 1 => i - 1 \in DOMAIN q
      /\ q[1].at = IF s[2].at = "kid" THEN "kids" ELSE s[2].at
      /\ q[1].new = NULL
  BY PoppedFacts
<1> HIDE DEF q
<1>2. /\ DOMAIN s = 1..Len(s) /\ Len(s) \in Nat /\ 1 \in DOMAIN s /\ 2 \in DOMAIN s
      /\ DOMAIN q = 1..Len(q)
  BY <1>1
<1>3. FrameOK(s)
  BY DEF Stacked
<1>4. s[1].fn = "free"
  BY <1>2, <1>3 DEF FrameOK
<1>5. \A i \in DOMAIN q : i # 1 => i > 1
  BY <1>2
<1>6. ASSUME NEW i \in DOMAIN q
      PROVE  /\ Active(q, i) <=> Active(s, i + 1)
             /\ Freeing(q, i) <=> Freeing(s, i + 1)
             /\ q[i].at # "entry" /\ q[i].at # "destructor" /\ i + 1 # 1
  <2>1. i + 1 \in DOMAIN s /\ i + 1 # 1
    BY <1>1
  <2>2. s[i + 1].at \notin {"entry", "destructor"}
    BY <1>3, <2>1 DEF FrameOK
  <2>3. CASE i = 1
    <3>1. q[i].at = IF s[i + 1].at = "kid" THEN "kids" ELSE s[i + 1].at
      BY <1>1, <2>3
    <3>2. q[i].fn = s[i + 1].fn
      BY <1>1
    <3> QED
      BY <2>1, <2>2, <3>1, <3>2 DEF Active, Freeing
  <2>4. CASE i # 1
    <3>1. q[i] = s[i + 1]
      BY <1>1, <1>5, <2>4
    <3> QED
      BY <2>1, <2>2, <3>1 DEF Active, Freeing
  <2> QED
    BY <2>3, <2>4
<1>7. FrameOK(q)
  <2> SUFFICES ASSUME NEW i \in DOMAIN q
               PROVE  /\ q[i].at \in {"entry", "destructor"} => i = 1 /\ q[i].fn = "free"
                      /\ q[i].at = "destructor2" => q[i].fn = "free"
                      /\ q[i].at = "kids" => i = 1 \/ q[i].fn = "untrack"
                      /\ q[i].at = "kid" => i > 1
                      /\ q[i].fn # "free" => i = Len(q)
                      /\ q[i].fn = "untrack" => q[i].at = "kids"
    BY DEF FrameOK
  <2>1. i + 1 \in DOMAIN s /\ i \in Nat /\ i + 1 # 1 /\ (i > 1 \/ i = 1)
    BY <1>1, <1>2
  <2>2. q[i].fn # "free" => i = Len(q)
    BY <1>1, <1>2, <1>3 DEF FrameOK
  <2>3. CASE i = 1
    <3>1. q[i].at = IF s[2].at = "kid" THEN "kids" ELSE s[2].at
      BY <1>1, <2>3
    <3>2. q[i].fn = s[2].fn
      BY <1>1, <2>3
    <3>3. s[2].at = "destructor2" => s[2].fn = "free"
      BY <1>2, <1>3 DEF FrameOK
    <3>4. s[2].fn = "untrack" => s[2].at = "kids"
      BY <1>2, <1>3 DEF FrameOK
    <3> QED
      BY <1>6, <2>2, <2>3, <3>1, <3>2, <3>3, <3>4
  <2>4. CASE i # 1
    <3>1. q[i] = s[i + 1] /\ i > 1 /\ i + 1 \in DOMAIN s /\ i + 1 # 1
      BY <1>1, <1>5, <2>4, <1>6
    <3> QED
      BY <1>3, <1>6, <2>2, <3>1 DEF FrameOK
  <2> QED
    BY <2>3, <2>4
<1>8. ASSUME NEW i \in DOMAIN q, Active(q, i)
      PROVE  /\ Same(h, g, q[i].tc) /\ q[i].tc \in Chunk
             /\ q[i].tc \in Live(h) /\ h[q[i].tc].refs = << >> /\ ~Handle(h, q[i].tc)
             /\ h[q[i].tc].loop <=> Freeing(q, i)
             /\ ~Freeing(q, i) => h[q[i].tc].destructor = "busy"
  <2>1. i + 1 \in DOMAIN s /\ i + 1 # 1 /\ Active(s, i + 1) /\ q[i].tc = s[i + 1].tc
        /\ (Freeing(q, i) <=> Freeing(s, i + 1))
    BY <1>1, <1>6, <1>8
  <2>2. ActiveOK(h, s)
    BY DEF Stacked
  <2>3. Active(s, 1) => s[i + 1].tc # s[1].tc
    BY <1>2, <2>1, <2>2 DEF ActiveOK
  <2>4. Same(h, g, s[i + 1].tc)
    BY <1>0, <2>1, <2>3 DEF Left
  <2> QED
    BY <1>0, <2>1, <2>2, <2>4 DEF ActiveOK
<1>9. ActiveOK(g, q)
  <2>1. ASSUME NEW i \in DOMAIN q, Active(q, i)
        PROVE  /\ q[i].tc \in Live(g) /\ g[q[i].tc].refs = << >> /\ ~Handle(g, q[i].tc)
               /\ g[q[i].tc].loop <=> Freeing(q, i)
               /\ ~Freeing(q, i) => g[q[i].tc].destructor = "busy"
    BY <1>8, <2>1 DEF Same, Live
  <2>2. ASSUME NEW i \in DOMAIN q, NEW j \in DOMAIN q, Active(q, i), Active(q, j),
               q[i].tc = q[j].tc
        PROVE  i = j
    <3>1. i + 1 = j + 1
      <4>1. Active(s, i + 1) /\ Active(s, j + 1) /\ i + 1 \in DOMAIN s /\ j + 1 \in DOMAIN s
            /\ s[i + 1].tc = s[j + 1].tc
        BY <1>1, <1>6, <2>2
      <4> QED
        BY <4>1 DEF Stacked, ActiveOK
    <3> QED
      BY <1>1, <3>1
  <2>3. ASSUME NEW c \in Chunk, g[c].loop \/ g[c].destructor = "busy"
        PROVE  \E i \in DOMAIN q : Active(q, i) /\ q[i].tc = c
    <3>1. c # s[1].tc \/ ~Active(s, 1)
      BY <2>3 DEF Left
    <3>2. h[c].loop \/ h[c].destructor = "busy"
      BY <2>3, <3>1 DEF Left, Same
    <3>3. PICK i \in DOMAIN s : Active(s, i) /\ s[i].tc = c
      BY <3>2 DEF Stacked, ActiveOK
    <3>4. i # 1
      BY <3>1, <3>3
    <3>5. i > 1 /\ (i - 1) + 1 = i
      BY <1>2, <3>4
    <3>6. i - 1 \in DOMAIN q
      BY <1>1, <3>5
    <3> QED
      BY <1>1, <1>6, <3>3, <3>5, <3>6
  <2> QED
    BY <2>1, <2>2, <2>3 DEF ActiveOK
<1>10. \A d \in Chunk : ~Handle(h, d) => ~Handle(g, d)
  <2> SUFFICES ASSUME NEW d \in Chunk, ~Handle(h, d) PROVE ~Handle(g, d)
    OBVIOUS
  <2>1. CASE d # s[1].tc \/ ~Active(s, 1)
    BY <2>1 DEF Left, Same
  <2>2. CASE d = s[1].tc /\ Active(s, 1)
    BY <2>2 DEF Left, Handle
  <2> QED
    BY <2>1, <2>2
<1>11. \A d \in Chunk : h[d].state # "unused" => g[d].state # "unused"
  BY DEF Left, Same
<1>12. CalledOK(g, q)
  <2> SUFFICES ASSUME NEW i \in DOMAIN q
               PROVE  /\ q[i].at = "entry" => q[i].tc \in Live(g)
                      /\ q[i].fn = "free_children" /\ q[i].at = "kids" => q[i].tc \in Live(g)
                      /\ q[i].fn = "free_children" => g[q[i].tc].state # "unused"
                      /\ q[i].new # NULL => ~Handle(g, q[i].new)
    BY DEF CalledOK
  <2>0. i + 1 \in DOMAIN s /\ q[i].fn = s[i + 1].fn /\ q[i].tc = s[i + 1].tc
    BY <1>1
  <2>1. q[i].fn = "free_children" => g[q[i].tc].state # "unused"
    BY <1>0, <1>11, <2>0 DEF Stacked, CalledOK
  <2>2. CASE i = 1
    BY <1>1, <1>6, <2>0, <2>1, <2>2
  <2>3. CASE i # 1
    <3>1. q[i] = s[i + 1] /\ i > 1
      BY <1>1, <1>5, <2>3
    <3>2. q[i].new # NULL => ~Handle(g, q[i].new)
      BY <1>0, <1>10, <2>0, <3>1 DEF Stacked, CalledOK, Ptr
    <3>3. q[i].fn = "free_children" => q[i].at # "kids"
      BY <1>7, <2>3 DEF FrameOK
    <3> QED
      BY <1>6, <2>1, <3>2, <3>3
  <2> QED
    BY <2>2, <2>3
<1>13. NullOK(g, q, n)
  <2>0. NullOK(h, s, n)
    BY DEF Stacked
  <2>1. n # NULL => n \in Chunk /\ n \in Live(h) /\ ~Handle(h, n)
    BY <1>4, <2>0 DEF NullOK, Ptr
  <2>2. n # NULL => ~Handle(g, n)
    BY <1>10, <2>1
  <2>3. \A i \in DOMAIN q : q[i].fn = "untrack" => n # NULL /\ q[i].tc = n
    BY <1>1, <2>0 DEF NullOK
  <2>4. ASSUME NEW i \in DOMAIN q, q[i].tc = n
        PROVE  q[Len(q)].fn = "untrack" /\ i >= Len(q) - 1
    <3>1. i + 1 \in DOMAIN s /\ s[i + 1].tc = n
      BY <1>1, <2>4
    <3>2. s[Len(s)].fn = "untrack" /\ i + 1 >= Len(s) - 1
      BY <2>0, <3>1 DEF NullOK
    <3>3. Len(q) \in DOMAIN q /\ Len(q) + 1 = Len(s)
      BY <1>1, <1>2
    <3>4. q[Len(q)].fn = s[Len(q) + 1].fn
      BY <1>1, <3>3
    <3>5. i >= Len(q) - 1
      BY <1>1, <1>2, <3>2, <3>3
    <3> QED
      BY <3>2, <3>3, <3>4, <3>5
  <2>5. ASSUME n # NULL
        PROVE  n \in Live(g) \/ (q # << >> /\ q[1].fn = "untrack")
    <3>1. CASE n # s[1].tc \/ ~Active(s, 1)
      BY <2>1, <2>5, <3>1 DEF Left, Same, Live
    <3>2. CASE n = s[1].tc
      <4>1. s[Len(s)].fn = "untrack" /\ 1 >= Len(s) - 1
        BY <1>2, <2>0, <3>2 DEF NullOK
      <4>2. Len(s) = 2
        BY <1>2, <4>1
      <4> QED
        BY <1>1, <1>2, <4>1, <4>2
    <3> QED
      BY <3>1, <3>2
  <2> QED
    BY <2>2, <2>3, <2>4, <2>5 DEF NullOK
<1>14. BehindOK(g, q)
  <2> SUFFICES ASSUME NEW i \in DOMAIN q, NEW j \in DOMAIN q, Freeing(q, i), Freeing(q, j), i <= j
               PROVE  g[q[i].tc].prev # q[j].tc
    BY DEF BehindOK
  <2>1. Active(q, i)
    BY DEF Active, Freeing
  <2>2. g[q[i].tc].prev = h[q[i].tc].prev
    BY <1>8, <2>1 DEF Same
  <2>3. i + 1 <= j + 1 /\ i + 1 \in DOMAIN s /\ j + 1 \in DOMAIN s
    BY <1>1
  <2>4. h[s[i + 1].tc].prev # s[j + 1].tc
    BY <1>6, <2>3 DEF Stacked, BehindOK
  <2> QED
    BY <1>1, <2>2, <2>4
<1> QED
  BY <1>7, <1>9, <1>12, <1>13, <1>14 DEF Stacked, q

\* The outermost call returns.
LEMMA LastStacked ==
  ASSUME NEW h, NEW g, NEW s \in Seq(Frame), NEW n \in Ptr, Stacked(h, s, n), Len(s) = 1,
         s[1].fn # "untrack", Left(h, g, s)
  PROVE  Stacked(g, << >>, n)
<1>0. DOMAIN s = {1} /\ s[1] \in Frame /\ s[1].tc \in Chunk
  <2>1. DOMAIN s = {1}
    <3>1. DOMAIN s = 1..1
      OBVIOUS
    <3> QED
      BY <3>1
  <2> QED
    BY <2>1, FrameFacts
<1>1. ASSUME NEW c \in Chunk PROVE ~(g[c].loop \/ g[c].destructor = "busy")
  <2>1. CASE c = s[1].tc /\ Active(s, 1)
    BY <2>1 DEF Left
  <2>2. CASE c # s[1].tc \/ ~Active(s, 1)
    <3>1. ~(h[c].loop \/ h[c].destructor = "busy")
      BY <1>0, <2>2 DEF Stacked, ActiveOK
    <3> QED
      BY <2>2, <3>1 DEF Left, Same
  <2> QED
    BY <2>1, <2>2
<1>2. n # NULL => n \in Live(g) /\ ~Handle(g, n)
  <2> HAVE n # NULL
  <2>1. n \in Chunk /\ n \in Live(h) /\ ~Handle(h, n) /\ s[1].tc # n
    BY <1>0 DEF Stacked, NullOK, Ptr
  <2> QED
    BY <2>1 DEF Left, Same, Live
<1>3. FrameOK(<< >>) /\ CalledOK(g, << >>) /\ BehindOK(g, << >>)
  BY DEF FrameOK, CalledOK, BehindOK
<1>4. ActiveOK(g, << >>)
  BY <1>1 DEF ActiveOK
<1>5. NullOK(g, << >>, n)
  BY <1>2 DEF NullOK
<1> QED
  BY <1>3, <1>4, <1>5 DEF Stacked

\* A frame calls talloc_free(c).
LEMMA PushStacked ==
  ASSUME NEW h, NEW s \in Seq(Frame), s # << >>, NEW n \in Ptr, Stacked(h, s, n),
         s[1].fn # "untrack", NEW c \in Live(h), c # n, NEW f \in Frame,
         f.fn = s[1].fn, f.tc = s[1].tc,
         \/ s[1].at = "kids" /\ f.at = "kid"
         \/ s[1].at = "destructor" /\ f.at = "destructor2",
         f.new # NULL => ~Handle(h, f.new),
         NEW q \in Seq(Frame), Len(q) = Len(s) + 1, q[1] = Call("free", c), q[2] = f,
         \A i \in DOMAIN q : i > 2 => q[i] = s[i - 1]
  PROVE  Stacked(h, q, n)
<1>0. /\ DOMAIN s = 1..Len(s) /\ DOMAIN q = 1..Len(q) /\ Len(s) \in Nat /\ Len(q) \in Nat
      /\ 1 \in DOMAIN s /\ 2 \in DOMAIN q /\ 1 \in DOMAIN q /\ (1 = Len(s) => 2 = Len(q))
  OBVIOUS
<1>1. q[1].fn = "free" /\ q[1].tc = c /\ q[1].new = NULL /\ q[1].at = "entry"
  BY DEF Call
<1>2. FrameOK(s) /\ ActiveOK(h, s) /\ CalledOK(h, s) /\ NullOK(h, s, n) /\ BehindOK(h, s)
  BY DEF Stacked
<1>3. \A i \in DOMAIN q : i = 1 \/ i = 2 \/ (i > 2 /\ i - 1 \in DOMAIN s /\ i - 1 > 1 /\ i \in Nat)
  BY <1>0
<1>4. ASSUME NEW i \in DOMAIN q, i # 1
      PROVE  /\ i > 1 /\ i \in Nat /\ i - 1 \in DOMAIN s /\ q[i].fn = s[i - 1].fn /\ q[i].tc = s[i - 1].tc
             /\ Active(q, i) <=> Active(s, i - 1)
             /\ Freeing(q, i) <=> Freeing(s, i - 1)
  <2>1. i > 1 /\ i \in Nat /\ i - 1 \in DOMAIN s
    BY <1>0, <1>4
  <2>2. CASE i = 2
    <3>1. i - 1 = 1
      BY <2>2
    <3> QED
      BY <2>1, <2>2, <3>1 DEF Active, Freeing
  <2>3. CASE i # 2
    <3>1. q[i] = s[i - 1]
      BY <1>3, <1>4, <2>3
    <3> QED
      BY <2>1, <3>1 DEF Active, Freeing
  <2> QED
    BY <2>2, <2>3
<1>5. ~Active(q, 1) /\ ~Freeing(q, 1)
  BY <1>1 DEF Active, Freeing
<1>6. FrameOK(q)
  <2> SUFFICES ASSUME NEW i \in DOMAIN q
               PROVE  /\ q[i].at \in {"entry", "destructor"} => i = 1 /\ q[i].fn = "free"
                      /\ q[i].at = "destructor2" => q[i].fn = "free"
                      /\ q[i].at = "kids" => i = 1 \/ q[i].fn = "untrack"
                      /\ q[i].at = "kid" => i > 1
                      /\ q[i].fn # "free" => i = Len(q)
                      /\ q[i].fn = "untrack" => q[i].at = "kids"
    BY DEF FrameOK
  <2>1. CASE i = 1
    BY <1>1, <2>1
  <2>2. CASE i = 2
    <3>1. s[1].at = "destructor" => s[1].fn = "free"
      BY <1>0, <1>2 DEF FrameOK
    <3>2. s[1].fn # "free" => 1 = Len(s)
      BY <1>0, <1>2 DEF FrameOK
    <3>3. 1 = Len(s) => i = Len(q)
      BY <1>0, <2>2
    <3> QED
      BY <2>2, <3>1, <3>2, <3>3
  <2>3. CASE i > 2
    <3>1. q[i] = s[i - 1] /\ i - 1 \in DOMAIN s /\ i - 1 # 1 /\ i # 1 /\ i > 1
      BY <1>0, <2>3
    <3>2. i - 1 = Len(s) => i = Len(q)
      BY <1>0
    <3> QED
      BY <1>2, <3>1, <3>2 DEF FrameOK
  <2> QED
    BY <1>3, <2>1, <2>2, <2>3
<1>7. ActiveOK(h, q)
  <2>1. ASSUME NEW i \in DOMAIN q, Active(q, i)
        PROVE  /\ q[i].tc \in Live(h) /\ h[q[i].tc].refs = << >> /\ ~Handle(h, q[i].tc)
               /\ h[q[i].tc].loop <=> Freeing(q, i)
               /\ ~Freeing(q, i) => h[q[i].tc].destructor = "busy"
    <3>1. i # 1
      BY <1>5, <2>1
    <3>2. /\ i - 1 \in DOMAIN s /\ Active(s, i - 1) /\ q[i].tc = s[i - 1].tc
          /\ Freeing(q, i) <=> Freeing(s, i - 1)
      BY <1>4, <2>1, <3>1
    <3> QED
      BY <1>2, <3>2 DEF ActiveOK
  <2>2. ASSUME NEW i \in DOMAIN q, NEW j \in DOMAIN q, Active(q, i), Active(q, j),
               q[i].tc = q[j].tc
        PROVE  i = j
    <3>1. i # 1 /\ j # 1
      BY <1>5, <2>2
    <3>2. i - 1 = j - 1
      <4>1. /\ Active(s, i - 1) /\ Active(s, j - 1) /\ i - 1 \in DOMAIN s /\ j - 1 \in DOMAIN s
            /\ s[i - 1].tc = s[j - 1].tc
        BY <1>4, <2>2, <3>1
      <4> QED
        BY <1>2, <4>1 DEF ActiveOK
    <3> QED
      BY <1>4, <3>1, <3>2
  <2>3. ASSUME NEW e \in Chunk, h[e].loop \/ h[e].destructor = "busy"
        PROVE  \E i \in DOMAIN q : Active(q, i) /\ q[i].tc = e
    <3>1. PICK i \in DOMAIN s : Active(s, i) /\ s[i].tc = e
      BY <1>2, <2>3 DEF ActiveOK
    <3>2. i + 1 \in DOMAIN q /\ i + 1 # 1 /\ (i + 1) - 1 = i
      BY <1>0
    <3> QED
      BY <1>4, <3>1, <3>2
  <2> QED
    BY <2>1, <2>2, <2>3 DEF ActiveOK
<1>8. CalledOK(h, q)
  <2> SUFFICES ASSUME NEW i \in DOMAIN q
               PROVE  /\ q[i].at = "entry" => q[i].tc \in Live(h)
                      /\ q[i].fn = "free_children" /\ q[i].at = "kids" => q[i].tc \in Live(h)
                      /\ q[i].fn = "free_children" => h[q[i].tc].state # "unused"
                      /\ q[i].new # NULL => ~Handle(h, q[i].new)
    BY DEF CalledOK
  <2>1. CASE i = 1
    BY <1>1, <2>1
  <2>2. CASE i = 2
    <3>1. s[1].fn = "free_children" => h[s[1].tc].state # "unused"
      BY <1>0, <1>2 DEF CalledOK
    <3> QED
      BY <2>2, <3>1
  <2>3. CASE i > 2
    <3>1. q[i] = s[i - 1] /\ i - 1 \in DOMAIN s
      BY <1>0, <2>3
    <3> QED
      BY <1>2, <3>1 DEF CalledOK
  <2> QED
    BY <1>3, <2>1, <2>2, <2>3
<1>9. NullOK(h, q, n)
  <2>1. n # NULL => n \in Live(h) /\ ~Handle(h, n)
    BY <1>2 DEF NullOK
  <2>2. \A i \in DOMAIN q : q[i].fn = "untrack" => n # NULL /\ q[i].tc = n
    <3> SUFFICES ASSUME NEW i \in DOMAIN q, q[i].fn = "untrack" PROVE n # NULL /\ q[i].tc = n
      OBVIOUS
    <3>1. i # 1
      BY <1>1
    <3> QED
      BY <1>2, <1>4, <3>1 DEF NullOK
  <2>3. ASSUME NEW i \in DOMAIN q, q[i].tc = n
        PROVE  q[Len(q)].fn = "untrack" /\ i >= Len(q) - 1
    <3>1. i # 1
      BY <1>1, <2>3
    <3>2. s[Len(s)].fn = "untrack" /\ i - 1 >= Len(s) - 1
      BY <1>2, <1>4, <2>3, <3>1 DEF NullOK
    <3>3. Len(q) \in DOMAIN q /\ Len(q) # 1 /\ Len(q) - 1 = Len(s)
      BY <1>0
    <3>4. q[Len(q)].fn = s[Len(s)].fn
      BY <1>4, <3>3
    <3>5. i >= Len(q) - 1
      BY <1>0, <3>2, <3>3
    <3> QED
      BY <3>2, <3>4, <3>5
  <2> QED
    BY <2>1, <2>2, <2>3 DEF NullOK
<1>10. BehindOK(h, q)
  <2> SUFFICES ASSUME NEW i \in DOMAIN q, NEW j \in DOMAIN q, Freeing(q, i), Freeing(q, j), i <= j
               PROVE  h[q[i].tc].prev # q[j].tc
    BY DEF BehindOK
  <2>1. i # 1 /\ j # 1
    BY <1>5
  <2>2. i - 1 <= j - 1 /\ i - 1 \in DOMAIN s /\ j - 1 \in DOMAIN s
        /\ Freeing(s, i - 1) /\ Freeing(s, j - 1)
    BY <1>4, <2>1
  <2>3. h[s[i - 1].tc].prev # s[j - 1].tc
    BY <1>2, <2>2 DEF BehindOK
  <2> QED
    BY <1>4, <2>1, <2>3
<1> QED
  BY <1>6, <1>7, <1>8, <1>9, <1>10 DEF Stacked

\* The innermost frame goes on with the chunk it is about.
LEMMA GotoStacked ==
  ASSUME NEW h, NEW g, NEW s \in Seq(Frame), s # << >>, NEW n \in Ptr, Stacked(h, s, n),
         s[1].fn = "free", NEW at \in {"destructor", "kids"},
         \A d \in Chunk : d # s[1].tc => Same(h, g, d),
         s[1].tc \in Live(g), g[s[1].tc].refs = << >>, ~Handle(g, s[1].tc),
         g[s[1].tc].loop <=> at = "kids",
         at = "destructor" => g[s[1].tc].destructor = "busy",
         \A i \in DOMAIN s : i # 1 /\ Active(s, i) => s[i].tc # s[1].tc,
         \A i \in DOMAIN s : at = "kids" /\ (i = 1 \/ Freeing(s, i)) => g[s[1].tc].prev # s[i].tc
  PROVE  /\ [s EXCEPT ![1].at = at] \in Seq(Frame)
         /\ Stacked(g, [s EXCEPT ![1].at = at], n)
<1> DEFINE q == [s EXCEPT ![1].at = at]
           t == s[1].tc
<1>0. /\ DOMAIN s = 1..Len(s) /\ Len(s) \in Nat /\ 1 \in DOMAIN s
  OBVIOUS
<1>1. \A i \in DOMAIN s : s[i] \in Frame /\ s[i].tc \in Chunk /\ s[i].new \in Ptr
  BY FrameFacts
<1>2. [s[1] EXCEPT !.at = at] \in Frame
  BY <1>0, <1>1 DEF Frame
<1>3. /\ q \in Seq(Frame) /\ Len(q) = Len(s) /\ DOMAIN q = DOMAIN s
      /\ q[1] = [s[1] EXCEPT !.at = at] /\ \A i \in DOMAIN s : i # 1 => q[i] = s[i]
  BY <1>0, <1>2
<1>4. q[1].fn = "free" /\ q[1].tc = t /\ q[1].at = at /\ q[1].new = s[1].new
  BY <1>0, <1>1, <1>3 DEF Frame
<1> HIDE DEF q, t
<1>5. FrameOK(s) /\ ActiveOK(h, s) /\ CalledOK(h, s) /\ NullOK(h, s, n) /\ BehindOK(h, s)
  BY DEF Stacked
<1>6. \A i \in DOMAIN q : q[i].fn = s[i].fn /\ q[i].tc = s[i].tc /\ q[i].new = s[i].new
  BY <1>3, <1>4 DEF t
<1>7. Active(q, 1) /\ (Freeing(q, 1) <=> at = "kids")
  BY <1>4 DEF Active, Freeing
<1>8. \A i \in DOMAIN q : i # 1 => (Active(q, i) <=> Active(s, i)) /\ (Freeing(q, i) <=> Freeing(s, i))
  BY <1>3 DEF Active, Freeing
<1>9. ASSUME NEW i \in DOMAIN q, i # 1, Active(q, i)
      PROVE  Same(h, g, q[i].tc) /\ q[i].tc # t /\ q[i].tc \in Chunk
  BY <1>1, <1>3, <1>6, <1>8, <1>9 DEF t
<1>10. FrameOK(q)
  <2> SUFFICES ASSUME NEW i \in DOMAIN q
               PROVE  /\ q[i].at \in {"entry", "destructor"} => i = 1 /\ q[i].fn = "free"
                      /\ q[i].at = "destructor2" => q[i].fn = "free"
                      /\ q[i].at = "kids" => i = 1 \/ q[i].fn = "untrack"
                      /\ q[i].at = "kid" => i > 1
                      /\ q[i].fn # "free" => i = Len(q)
                      /\ q[i].fn = "untrack" => q[i].at = "kids"
    BY DEF FrameOK
  <2>1. CASE i = 1
    BY <1>4, <2>1
  <2>2. CASE i # 1
    BY <1>3, <1>5, <2>2 DEF FrameOK
  <2> QED
    BY <2>1, <2>2
<1>11. ActiveOK(g, q)
  <2>1. ASSUME NEW i \in DOMAIN q, Active(q, i)
        PROVE  /\ q[i].tc \in Live(g) /\ g[q[i].tc].refs = << >> /\ ~Handle(g, q[i].tc)
               /\ g[q[i].tc].loop <=> Freeing(q, i)
               /\ ~Freeing(q, i) => g[q[i].tc].destructor = "busy"
    <3>1. CASE i = 1
      BY <1>4, <1>7, <3>1 DEF t
    <3>2. CASE i # 1
      <4>1. Same(h, g, q[i].tc) /\ q[i].tc \in Chunk
        BY <1>9, <2>1, <3>2
      <4>2. /\ q[i].tc \in Live(h) /\ h[q[i].tc].refs = << >> /\ ~Handle(h, q[i].tc)
            /\ h[q[i].tc].loop <=> Freeing(q, i)
            /\ ~Freeing(q, i) => h[q[i].tc].destructor = "busy"
        BY <1>3, <1>5, <1>6, <1>8, <2>1, <3>2 DEF ActiveOK
      <4> QED
        BY <4>1, <4>2 DEF Same, Live
    <3> QED
      BY <3>1, <3>2
  <2>2. ASSUME NEW i \in DOMAIN q, NEW j \in DOMAIN q, Active(q, i), Active(q, j),
               q[i].tc = q[j].tc
        PROVE  i = j
    <3>1. CASE i # 1 /\ j # 1
      BY <1>3, <1>5, <1>6, <1>8, <2>2, <3>1 DEF ActiveOK
    <3>2. CASE i = 1 \/ j = 1
      BY <1>4, <1>9, <2>2, <3>2
    <3> QED
      BY <3>1, <3>2
  <2>3. ASSUME NEW e \in Chunk, g[e].loop \/ g[e].destructor = "busy"
        PROVE  \E i \in DOMAIN q : Active(q, i) /\ q[i].tc = e
    <3>1. CASE e = t
      BY <1>0, <1>3, <1>4, <1>7, <3>1
    <3>2. CASE e # t
      <4>1. h[e].loop \/ h[e].destructor = "busy"
        BY <2>3, <3>2 DEF Same, t
      <4>2. PICK i \in DOMAIN s : Active(s, i) /\ s[i].tc = e
        BY <1>5, <4>1 DEF ActiveOK
      <4> QED
        BY <1>3, <1>6, <1>8, <3>2, <4>2 DEF t
    <3> QED
      BY <3>1, <3>2
  <2> QED
    BY <2>1, <2>2, <2>3 DEF ActiveOK
<1>12. \A d \in Chunk : ~Handle(h, d) => ~Handle(g, d)
  BY DEF Same
<1>13. CalledOK(g, q)
  <2> SUFFICES ASSUME NEW i \in DOMAIN q
               PROVE  /\ q[i].at = "entry" => q[i].tc \in Live(g)
                      /\ q[i].fn = "free_children" /\ q[i].at = "kids" => q[i].tc \in Live(g)
                      /\ q[i].fn = "free_children" => g[q[i].tc].state # "unused"
                      /\ q[i].new # NULL => ~Handle(g, q[i].new)
    BY DEF CalledOK
  <2>1. q[i].new # NULL => ~Handle(g, q[i].new)
    BY <1>1, <1>3, <1>5, <1>6, <1>12 DEF CalledOK, Ptr
  <2>2. CASE i = 1
    BY <1>4, <2>1, <2>2
  <2>3. CASE i # 1
    <3>1. q[i].at # "entry"
      BY <1>10, <2>3 DEF FrameOK
    <3>2. q[i].fn = "free_children" => q[i].at # "kids"
      BY <1>10, <2>3 DEF FrameOK
    <3>3. q[i].fn = "free_children" => g[q[i].tc].state # "unused"
      <4>1. q[i].fn = "free_children" => h[q[i].tc].state # "unused"
        BY <1>3, <1>5, <1>6 DEF CalledOK
      <4>2. CASE q[i].tc = s[1].tc
        BY <4>2 DEF Live
      <4>3. CASE q[i].tc # s[1].tc
        BY <1>1, <1>3, <1>6, <4>1, <4>3 DEF Same
      <4> QED
        BY <4>2, <4>3
    <3> QED
      BY <2>1, <3>1, <3>2, <3>3
  <2> QED
    BY <2>2, <2>3
<1>14. NullOK(g, q, n)
  <2>1. n # NULL => n \in Chunk /\ n \in Live(h) /\ ~Handle(h, n)
    BY <1>5 DEF NullOK, Ptr
  <2>2. n # NULL => n \in Live(g)
    BY <2>1 DEF Same, Live
  <2>3. n # NULL => ~Handle(g, n)
    BY <1>12, <2>1
  <2>4. \A i \in DOMAIN q : q[i].fn = "untrack" => n # NULL /\ q[i].tc = n
    BY <1>3, <1>5, <1>6 DEF NullOK
  <2>5. \A i \in DOMAIN q : q[i].tc = n => q[Len(q)].fn = "untrack" /\ i >= Len(q) - 1
    <3>1. Len(q) \in DOMAIN q
      BY <1>0, <1>3
    <3> QED
      BY <1>3, <1>5, <1>6, <3>1 DEF NullOK
  <2> QED
    BY <2>2, <2>3, <2>4, <2>5 DEF NullOK
<1>15. BehindOK(g, q)
  <2> SUFFICES ASSUME NEW i \in DOMAIN q, NEW j \in DOMAIN q, Freeing(q, i), Freeing(q, j), i <= j
               PROVE  g[q[i].tc].prev # q[j].tc
    BY DEF BehindOK
  <2>1. CASE i = 1
    <3>1. at = "kids" /\ q[i].tc = s[1].tc
      BY <1>4, <1>7, <2>1 DEF t
    <3>2. j = 1 \/ Freeing(s, j)
      BY <1>8
    <3> QED
      BY <1>3, <1>6, <3>1, <3>2
  <2>2. CASE i # 1
    <3>1. j # 1
      BY <1>0, <1>3, <2>2
    <3>2. Active(q, i)
      BY DEF Active, Freeing
    <3>3. h[q[i].tc].loop
      BY <1>3, <1>5, <1>6, <1>8, <2>2, <3>2 DEF ActiveOK
    <3>4. g[q[i].tc].prev = h[q[i].tc].prev
      BY <1>9, <2>2, <3>2, <3>3 DEF Same
    <3>5. h[s[i].tc].prev # s[j].tc
      BY <1>3, <1>5, <1>8, <2>2, <3>1 DEF BehindOK
    <3> QED
      BY <1>3, <1>6, <3>4, <3>5
  <2> QED
    BY <2>1, <2>2
<1> QED
  BY <1>3, <1>10, <1>11, <1>13, <1>14, <1>15 DEF Stacked, q

\* Between calls nothing is marked, and null_context is there.
Rested(h, n) ==
  /\ \A c \in Chunk : ~h[c].loop /\ h[c].destructor # "busy"
  /\ n # NULL => n \in Live(h) /\ ~Handle(h, n)

\* With no call in progress, to be stacked is to be at rest.
LEMMA RestedStacked ==
  ASSUME NEW h, NEW n \in Ptr, h \in Heaps
  PROVE  Stacked(h, << >>, n) <=> Rested(h, n)
<1>1. FrameOK(<< >>) /\ CalledOK(h, << >>) /\ BehindOK(h, << >>)
  BY DEF FrameOK, CalledOK, BehindOK
<1>2. ActiveOK(h, << >>) <=> \A c \in Chunk : ~h[c].loop /\ h[c].destructor # "busy"
  BY DEF ActiveOK
<1>3. NullOK(h, << >>, n) <=> (n # NULL => n \in Live(h) /\ ~Handle(h, n))
  BY DEF NullOK
<1> QED
  BY <1>1, <1>2, <1>3 DEF Stacked, Rested

\* The outermost call of a caller.
LEMMA CallStacked ==
  ASSUME NEW h, NEW n \in Ptr, Rested(h, n), NEW c \in Live(h), c # n,
         NEW fn \in {"free", "free_children"}
  PROVE  <<Call(fn, c)>> \in Seq(Frame) /\ Stacked(h, <<Call(fn, c)>>, n)
<1> DEFINE s == <<Call(fn, c)>>
<1>1. Call(fn, c) \in Frame
  BY DEF Call, Frame, Live, Ptr
<1>2. s \in Seq(Frame) /\ Len(s) = 1 /\ DOMAIN s = {1} /\ s[1] = Call(fn, c)
  BY <1>1
<1>3. /\ s[1].fn = fn /\ s[1].tc = c /\ s[1].new = NULL
      /\ s[1].at = IF fn = "free" THEN "entry" ELSE "kids"
  BY <1>2 DEF Call
<1> HIDE DEF s
<1>4. ~Active(s, 1) /\ ~Freeing(s, 1)
  BY <1>3 DEF Active, Freeing
<1>5. FrameOK(s)
  BY <1>2, <1>3 DEF FrameOK
<1>6. ActiveOK(h, s)
  BY <1>2, <1>4 DEF ActiveOK, Rested
<1>7. CalledOK(h, s)
  BY <1>2, <1>3 DEF CalledOK, Live
<1>8. NullOK(h, s, n)
  BY <1>2, <1>3 DEF NullOK, Rested
<1>9. BehindOK(h, s)
  BY <1>2, <1>4 DEF BehindOK
<1> QED
  BY <1>2, <1>5, <1>6, <1>7, <1>8, <1>9 DEF Stacked, s

\* talloc_disable_null_tracking() begins: its frame, and the talloc_free() it calls.
LEMMA UntrackStacked ==
  ASSUME NEW h, NEW n \in Chunk, Rested(h, n), n # NULL
  PROVE  /\ <<Call("free", n), Call("untrack", n)>> \in Seq(Frame)
         /\ Stacked(h, <<Call("free", n), Call("untrack", n)>>, n)
<1> DEFINE s == <<Call("free", n), Call("untrack", n)>>
<1>1. Call("free", n) \in Frame /\ Call("untrack", n) \in Frame
  BY DEF Call, Frame, Ptr
<1>2. /\ s \in Seq(Frame) /\ Len(s) = 2 /\ DOMAIN s = {1, 2}
      /\ s[1] = Call("free", n) /\ s[2] = Call("untrack", n)
  BY <1>1
<1>3. /\ s[1].fn = "free" /\ s[1].tc = n /\ s[1].new = NULL /\ s[1].at = "entry"
      /\ s[2].fn = "untrack" /\ s[2].tc = n /\ s[2].new = NULL /\ s[2].at = "kids"
  BY <1>2 DEF Call
<1> HIDE DEF s
<1>4. ~Active(s, 1) /\ ~Freeing(s, 1) /\ ~Active(s, 2) /\ ~Freeing(s, 2)
  BY <1>3 DEF Active, Freeing
<1>5. FrameOK(s)
  BY <1>2, <1>3 DEF FrameOK
<1>6. ActiveOK(h, s)
  BY <1>2, <1>4 DEF ActiveOK, Rested
<1>7. CalledOK(h, s)
  BY <1>2, <1>3 DEF CalledOK, Rested
<1>8. NullOK(h, s, n)
  BY <1>2, <1>3 DEF NullOK, Rested
<1>9. BehindOK(h, s)
  BY <1>2, <1>4 DEF BehindOK
<1> QED
  BY <1>2, <1>5, <1>6, <1>7, <1>8, <1>9 DEF Stacked, s

-----------------------------------------------------------------------------
(* The inductive invariant, and a call that returns *)

\* The types of the variables other than memory.
Types ==
  /\ null_context \in Ptr
  /\ stack \in Seq(Frame) /\ ret \in {0, -1} /\ fault \in {"none", "stale", "loop"}
  /\ own \subseteq Chunk /\ held \subseteq Chunk /\ spared \subseteq Chunk

\* The inductive invariant.
TreeInv ==
  /\ Types
  /\ Tree(heap, null_context)
  /\ fault = "none" => Stacked(heap, stack, null_context)
  /\ StaleOnlyKnown

\* Where the parent of what the innermost frame frees is looked up: its mark, its
\* list or its place behind a sibling lead to a live chunk, or to one that went.
LEMMA LookedUp ==
  ASSUME NEW g, NEW n \in Ptr, Tree(g, n), NEW q \in Seq(Frame), q # << >>, Stacked(g, q, n),
         q[1].fn \in {"free", "free_children"}, q[1].at = "kids", q[1].tc \in Live(g)
  PROVE  LET x == g[q[1].tc] IN
         \/ ~Stale(g, q[1].tc) /\ talloc_parent_chunk(g, q[1].tc) \in Live(g) \cup {NULL}
         \/ x.loop /\ ~({x.parent, x.prev} \subseteq Live(g) \cup {NULL})
<1> DEFINE t == q[1].tc
           x == g[t]
           p == talloc_parent_chunk(g, t)
<1>0. /\ 1 \in DOMAIN q /\ Len(q) \in Nat /\ t \in Chunk /\ g \in Heaps /\ NULL \notin Chunk
      /\ DOMAIN q = 1..Len(q)
  BY FrameFacts, TallocAssumption DEF Tree
<1>00. x \in Header /\ x.prev \in Ptr
  BY <1>0 DEF Heaps, Header
<1>1. PICK par \in [Chunk -> Ptr], pos, rank \in [Chunk -> Nat] : Forest(g, NULL, par, pos, rank)
  BY DEF Tree
<1>2. ASSUME NEW v \in Listed(g, NULL), t = v \/ g[t].prev = v
      PROVE  ~Stale(g, t) /\ p \in Live(g) \cup {NULL}
  <2>1. First(g, t) \in Listed(g, NULL) /\ p = par[v]
    <3> HIDE DEF t, x, p
    <3>1. First(g, t) \in Listed(g, NULL) /\ talloc_parent_chunk(g, t) = par[v]
      <4>1. t \in Chunk /\ g \in Heaps /\ v \in Listed(g, NULL)
        BY <1>0
      <4>2. t = v \/ g[t].prev = v
        BY <1>2
      <4>3. Forest(g, NULL, par, pos, rank)
        BY <1>1
      <4> QED
        <5>1. \A c \in Chunk, e \in Listed(g, NULL) : c = e \/ g[c].prev = e =>
                First(g, c) \in Listed(g, NULL) /\ talloc_parent_chunk(g, c) = par[e]
          <6> SUFFICES ASSUME NEW c \in Chunk, NEW e \in Listed(g, NULL), c = e \/ g[c].prev = e
                       PROVE  First(g, c) \in Listed(g, NULL) /\ talloc_parent_chunk(g, c) = par[e]
            OBVIOUS
          <6> QED
            BY <4>1, <4>3, ParentChunk
        <5> QED
          BY <4>1, <4>2, <5>1
    <3> QED
      BY <3>1 DEF p
  <2>2. par[v] \in Live(g) \cup {NULL}
    BY <1>1 DEF Forest, ParOK
  <2> QED
    BY <2>1, <2>2 DEF Stale, Listed, Live
<1>3. CASE ~x.loop
  <2>1. t \in Listed(g, NULL)
    BY <1>0, <1>3 DEF Listed
  <2> QED
    BY <1>2, <2>1
<1>4. CASE x.loop
  <2>1. CASE x.prev = NULL
    <3>1. First(g, t) = t
      BY <1>0, <2>1, FirstFacts
    <3>2. p = x.parent /\ ~Stale(g, t)
      BY <3>1 DEF talloc_parent_chunk, Stale, Live
    <3> HIDE DEF p, x, t
    <3> QED
      BY <1>4, <3>2 DEF x, t, p
  <2>2. CASE x.prev # NULL /\ x.prev \notin Live(g)
    BY <1>4, <2>2
  <2>3. CASE x.prev \in Live(g)
    <3>1. ActiveOK(g, q) /\ FrameOK(q) /\ BehindOK(g, q)
      BY DEF Stacked
    <3>2. PICK i \in DOMAIN q : Active(q, i) /\ q[i].tc = t
      BY <1>0, <1>4, <3>1 DEF ActiveOK
    <3>3. q[1].fn = "free"
      <4> SUFFICES ASSUME q[1].fn # "free" PROVE FALSE
        OBVIOUS
      <4>1. Len(q) = 1
        BY <1>0, <3>1 DEF FrameOK
      <4>2. i = 1
        BY <1>0, <4>1
      <4> QED
        BY <3>2, <4>2 DEF Active
    <3>4. Freeing(q, 1)
      BY <3>3 DEF Freeing
    <3>5. ~g[x.prev].loop
      <4> SUFFICES ASSUME g[x.prev].loop PROVE FALSE
        OBVIOUS
      <4>1. x.prev \in Chunk
        BY <2>3 DEF Live
      <4>2. PICK j \in DOMAIN q : Active(q, j) /\ q[j].tc = x.prev
        BY <3>1, <4>1 DEF ActiveOK
      <4>3. Freeing(q, j)
        BY <3>1, <4>2 DEF ActiveOK
      <4>4. 1 <= j
        BY <1>0
      <4> QED
        BY <1>0, <3>1, <3>4, <4>2, <4>3, <4>4 DEF BehindOK
    <3>6. x.prev \in Listed(g, NULL)
      BY <1>0, <2>3, <3>5 DEF Listed, Live
    <3> QED
      BY <1>2, <3>6
  <2> QED
    BY <1>00, <2>1, <2>2, <2>3
<1> QED
  BY <1>3, <1>4

\* A step that only links touch.
LEMMA LinksSame ==
  ASSUME NEW h, NEW g, OnlyLinks(h, g),
         \A d \in Chunk \ Listed(h, NULL) : g[d].prev = h[d].prev
  PROVE  /\ \A d \in Chunk : Same(h, g, d)
         /\ Live(g) = Live(h)
<1>1. \A d \in Chunk : h[d].loop => d \notin Listed(h, NULL)
  BY DEF Listed
<1> QED
  BY <1>1 DEF OnlyLinks, Same, Live, Handle

\* A heap in which c at most has another parent, and nothing else has changed.
Shifted(h, g, c) ==
  KeptParents(h, g, c) /\ Live(g) = Live(h) /\ Listed(g, NULL) = Listed(h, NULL)

\* Nothing has shifted when nothing has changed.
LEMMA ShiftedSelf ==
  ASSUME NEW h, NEW c
  PROVE  Shifted(h, h, c)
BY DEF Shifted, KeptParents

\* A call returns rc to the frame below it, which gives away a child that is left: the
\* invariant is kept, nothing is freed by that, and at most the chunk of the call moves.
LEMMA Returned ==
  ASSUME Types, Stacked(heap, stack, null_context), stack # << >>,
         Top.fn # "untrack", NEW g, NEW rc \in {0, -1}, Tree(g, null_context),
         Left(heap, g, stack), rc = -1 => Top.tc \in Listed(g, NULL),
         Return(g, rc), null_context' = null_context
  PROVE  /\ TreeInv'
         /\ Live(heap') = Live(g)
         /\ fault' = "none" => Shifted(g, heap', Top.tc)
<1> DEFINE n == null_context
           s == stack
           f == stack[2]
           t == stack[1].tc
<1>0. /\ n \in Ptr /\ s \in Seq(Frame) /\ DOMAIN s = 1..Len(s) /\ Len(s) \in Nat /\ 1 \in DOMAIN s
      /\ t \in Chunk /\ NULL \notin Chunk /\ Len(s) >= 1
  BY FrameFacts, TallocAssumption DEF Types
<1>1. ret' \in {0, -1} /\ own' \subseteq Chunk /\ held' \subseteq Chunk /\ spared' \subseteq Chunk
  BY <1>0 DEF Return, Types, Top
<1>2. CASE Len(s) = 1
  <2>1. fault' = "none" /\ heap' = g /\ stack' = << >>
    BY <1>2 DEF Return
  <2>2. Stacked(g, << >>, n)
    BY <1>0, <1>2, LastStacked DEF Top
  <2>3. TreeInv'
    BY <1>0, <1>1, <2>1, <2>2 DEF TreeInv, Types, StaleOnlyKnown
  <2> QED
    BY <2>1, <2>3, ShiftedSelf
<1>3. CASE Len(s) > 1
  <2> DEFINE q == Popped(s)
             p == talloc_parent_chunk(g, f.tc)
             m == Context(NewParent(g, f))
  <2>1. /\ q \in Seq(Frame) /\ q # << >> /\ q[1].fn = f.fn /\ q[1].tc = f.tc
        /\ q[1].at = IF f.at = "kid" THEN "kids" ELSE f.at
    <3>1. 1 \in DOMAIN q
      <4>1. q \in Seq(Frame) /\ Len(q) = Len(s) - 1
        BY <1>0, <1>3, PoppedFacts
      <4> HIDE DEF q
      <4> QED
        BY <1>0, <1>3, <4>1
    <3> QED
      BY <1>0, <1>3, <3>1, PoppedFacts
  <2>2. 2 \in DOMAIN s /\ f \in Frame /\ f.tc \in Chunk /\ f.new \in Ptr
    BY <1>0, <1>3, FrameFacts
  <2>3. FrameOK(s) /\ ActiveOK(heap, s) /\ CalledOK(heap, s) /\ NullOK(heap, s, n)
    BY DEF Stacked
  <2>4. /\ f.at \in {"kid", "destructor2"} \/ f.fn = "untrack"
        /\ f.at = "destructor2" => f.fn = "free"
        /\ f.fn = "untrack" => f.at = "kids"
    <3>1. f.at \in {"entry", "destructor", "destructor2", "kids", "kid"}
      BY <2>2 DEF Frame
    <3> QED
      BY <2>2, <2>3, <3>1 DEF FrameOK
  <2>5. Active(s, 2) => f.tc \in Live(g)
    <3> HAVE Active(s, 2)
    <3>1. f.tc \in Live(heap) /\ ~Handle(heap, f.tc)
      BY <2>2, <2>3 DEF ActiveOK
    <3>2. f.tc # s[1].tc \/ ~Active(s, 1)
      BY <1>0, <2>2, <2>3 DEF ActiveOK
    <3>3. Same(heap, g, f.tc)
      BY <2>2, <3>2 DEF Left
    <3> QED
      BY <2>2, <3>1, <3>3 DEF Same, Live
  <2>6. f.fn = "free_children" => g[f.tc].state # "unused" /\ f.at = "kid"
    BY <2>2, <2>3, <2>4 DEF CalledOK, Left, Same
  <2>7. g \in Heaps
    BY DEF Tree
  <2> HIDE DEF q
  <2>8. stack' \in Seq(Frame) /\ stack' # << >> /\ stack'[1].fn = f.fn /\ stack'[1].tc = f.tc
        /\ stack'[1].new = (IF fault' = "none" THEN NULL ELSE f.new)
    <3> DEFINE r == Tail(s)
               e == [r[1] EXCEPT !.at = IF @ = "kid" THEN "kids" ELSE @,
                                 !.new = IF fault' = "none" THEN NULL ELSE @]
    <3>1. /\ r \in Seq(Frame) /\ Len(r) = Len(s) - 1
          /\ \A i \in 1..Len(r) : r[i] = s[i + 1]
      BY <1>0, <1>3, HeadTailProperties
    <3>2. 1 \in 1..Len(r) /\ r[1] \in Frame /\ r[1] = f
      BY <1>0, <1>3, <3>1
    <3>3. e \in Frame /\ e.fn = f.fn /\ e.tc = f.tc /\ e.new = (IF fault' = "none" THEN NULL ELSE f.new)
      BY <3>2 DEF Frame, Ptr
    <3>4. stack' = [r EXCEPT ![1] = e]
      <4>1. stack' = [Tail(stack) EXCEPT ![1].at = IF @ = "kid" THEN "kids" ELSE @,
                                         ![1].new = IF fault' = "none" THEN NULL ELSE @]
        <5>1. Len(stack) # 1
          BY <1>0, <1>3
        <5> QED
          BY <5>1 DEF Return
      <4> QED
        BY <3>1, <3>2, <4>1
    <3> HIDE DEF r, e
    <3>5. stack' \in Seq(Frame) /\ stack'[1] = e /\ stack' # << >>
      BY <3>1, <3>2, <3>3, <3>4
    <3> QED
      BY <3>3, <3>5
  <2>9. fault' = "none" => stack' = q
    <3>1. Len(stack) # 1
      BY <1>0, <1>3
    <3>2. stack' = [Tail(stack) EXCEPT ![1].at = IF @ = "kid" THEN "kids" ELSE @,
                                       ![1].new = IF fault' = "none" THEN NULL ELSE @]
      BY <3>1 DEF Return
    <3> QED
      BY <3>2 DEF Popped, q
  <2>10. CASE Gone(g, f, rc)
    <3>1. fault' = "stale" /\ heap' = g
      BY <1>3, <2>10 DEF Return
    <3>2. StaleOnlyKnown'
      <4> DEFINE x == g[f.tc]
      <4>0. \/ x.loop /\ ~({x.parent, x.prev} \subseteq Live(g) \cup {NULL})
            \/ f.new \notin Live(g) \cup {NULL}
            \/ f.fn = "free_children" /\ x.state = "freed"
            => StaleOnlyKnown'
        BY <2>8, <3>1 DEF StaleOnlyKnown, Dangling, Top, Live
      <4>1. CASE f.tc \notin Live(g)
        <5>1. ~Active(s, 2) /\ f.at \in {"kid", "destructor2"}
          BY <2>4, <2>5, <2>10, <4>1 DEF Gone
        <5>2. f.fn = "free_children"
          BY <2>2, <2>4, <5>1 DEF Active, Frame
        <5>3. x.state \in {"unused", "live", "freed"}
          BY <2>2, <2>7 DEF Heaps, Header
        <5> QED
          BY <2>2, <2>6, <4>0, <4>1, <5>2, <5>3 DEF Live
      <4>2. CASE f.tc \in Live(g)
        <5>1. f.at = "kid" /\ Stale(g, f.tc)
          BY <2>10, <4>2 DEF Gone
        <5>2. Stacked(g, q, n)
          BY <1>0, <1>3, <4>2, PoppedStacked DEF q
        <5>3. q[1].fn \in {"free", "free_children"} /\ q[1].at = "kids"
          BY <2>1, <2>2, <2>4, <5>1 DEF Frame
        <5> QED
          BY <1>0, <2>1, <4>0, <4>2, <5>1, <5>2, <5>3, LookedUp
      <4> QED
        BY <4>1, <4>2
    <3>3. TreeInv'
      BY <1>0, <1>1, <2>8, <3>1, <3>2 DEF TreeInv, Types
    <3> QED
      BY <3>1, <3>3
  <2>11. CASE ~Gone(g, f, rc)
    <3>1. f.fn # "untrack" => f.tc \in Live(g)
      BY <2>4, <2>11 DEF Gone
    <3>2. Stacked(g, q, n)
      BY <1>0, <1>3, <3>1, PoppedStacked DEF q
    <3>3. CASE ~(f.at = "kid" /\ rc = -1)
      <4>1. fault' = "none" /\ heap' = g
        BY <1>3, <2>11, <3>3 DEF Return
      <4>2. TreeInv'
        BY <1>0, <1>1, <2>8, <2>9, <3>2, <4>1 DEF TreeInv, Types, StaleOnlyKnown
      <4> QED
        BY <4>1, <4>2, ShiftedSelf
    <3>4. CASE f.at = "kid" /\ rc = -1
      <4>1. Give(g, NewParent(g, f), t)
        BY <1>3, <2>11, <3>4 DEF Return, Top
      <4>2. f.fn \in {"free", "free_children"} /\ q[1].at = "kids"
        BY <2>1, <2>2, <2>4, <3>4 DEF Frame
      <4>3. t \in Listed(g, NULL) /\ t \in Live(g) /\ t # NULL
        BY <1>0, <3>4 DEF Top, Listed
      <4>4. n # NULL => n \in Live(g) /\ ~Handle(g, n)
        BY <2>1, <3>2, <4>2 DEF Stacked, NullOK
      <4>5. t # n
        <5> SUFFICES ASSUME t = n PROVE FALSE
          OBVIOUS
        <5>1. s[Len(s)].fn = "untrack" /\ 1 >= Len(s) - 1
          BY <1>0, <2>3 DEF NullOK
        <5>2. Len(s) = 2
          BY <1>0, <1>3, <5>1
        <5> QED
          BY <4>2, <5>1, <5>2
      <4>6. p \in Ptr
        BY <2>2, <2>7, FirstFacts
      <4>7. p # NULL => ~Handle(g, p)
        <5>1. First(g, f.tc) \in Chunk /\ OwnersOK(g)
          BY <2>2, <2>7, FirstFacts DEF Tree
        <5> QED
          BY <5>1 DEF OwnersOK, talloc_parent_chunk
      <4>8. f.new # NULL => ~Handle(g, f.new)
        <5> SUFFICES ASSUME f.new # NULL PROVE ~Handle(g, f.new)
          OBVIOUS
        <5>1. f.new \in Chunk /\ ~Handle(heap, f.new)
          BY <2>2, <2>3 DEF CalledOK, Ptr
        <5>2. CASE f.new = s[1].tc /\ Active(s, 1)
          BY <5>2 DEF Left, Handle
        <5>3. CASE ~(f.new = s[1].tc /\ Active(s, 1))
          BY <5>1, <5>3 DEF Left, Same
        <5> QED
          BY <5>2, <5>3
      <4>9. /\ m = n \/ (m = f.new /\ m # NULL) \/ (m = p /\ m # NULL /\ f.new = n)
            /\ m \in Ptr /\ (m # NULL => ~Handle(g, m))
        BY <1>0, <2>2, <4>4, <4>6, <4>7, <4>8 DEF Context, NewParent
      <4> HIDE DEF m, p
      <4>10. /\ fault' = CASE ~({m, t} \ {NULL} \subseteq Live(g)) -> "stale"
                           [] m \in Subtree(g, t) \ {t} -> "loop"
                           [] OTHER -> "none"
             /\ heap' = IF fault' = "none" THEN _talloc_steal(g, m, t) ELSE g
        BY <4>1 DEF Give, m
      <4>11. CASE m \notin Live(g) \cup {NULL}
        <5>1. ~({m, t} \ {NULL} \subseteq Live(g))
          BY <4>11
        <5>2. fault' = "stale" /\ heap' = g
          <6>1. m \notin Subtree(g, t)
            BY <4>11 DEF Subtree
          <6> QED
            BY <4>10, <5>1, <6>1
        <5>3. StaleOnlyKnown'
          <6> DEFINE x == g[f.tc]
          <6>0. \/ x.loop /\ ~({x.parent, x.prev} \subseteq Live(g) \cup {NULL})
                \/ f.new \notin Live(g) \cup {NULL}
                \/ f.fn = "free_children" /\ x.state = "freed"
                => StaleOnlyKnown'
            BY <2>8, <5>2 DEF StaleOnlyKnown, Dangling, Top, Live
          <6>1. CASE m = n
            BY <4>4, <4>11, <6>1
          <6>2. CASE m = f.new
            BY <4>11, <6>0, <6>2
          <6>3. CASE m = p
            <7>1. p \notin Live(g) \cup {NULL}
              BY <4>11, <6>3
            <7>2. f.tc \in Live(g)
              BY <3>1, <4>2
            <7> QED
              BY <1>0, <2>1, <3>2, <4>2, <6>0, <7>1, <7>2, LookedUp DEF p
          <6> QED
            BY <4>9, <6>1, <6>2, <6>3
        <5>4. TreeInv'
          BY <1>0, <1>1, <2>8, <5>2, <5>3 DEF TreeInv, Types
        <5> QED
          BY <5>2, <5>4
      <4>12. CASE m \in Live(g) \cup {NULL} /\ m \in Subtree(g, t) \ {t}
        <5>1. fault' = "loop" /\ heap' = g
          BY <4>3, <4>10, <4>12
        <5>2. TreeInv'
          BY <1>0, <1>1, <2>8, <5>1 DEF TreeInv, Types, StaleOnlyKnown
        <5> QED
          BY <5>1, <5>2
      <4>13. CASE m \in Live(g) \cup {NULL} /\ m \notin Subtree(g, t) \ {t}
        <5> DEFINE k == _talloc_steal(g, m, t)
        <5>1. fault' = "none" /\ heap' = k
          BY <4>3, <4>10, <4>13
        <5>2. /\ Tree(k, n) /\ OnlyLinks(g, k) /\ KeptParents(g, k, t)
              /\ \A d \in Chunk \ Listed(g, NULL) : k[d].prev = g[d].prev /\ k[d].parent = g[d].parent
          BY <1>0, <4>3, <4>5, <4>9, <4>13, StealTree
        <5> HIDE DEF k
        <5>3. (\A d \in Chunk : Same(g, k, d)) /\ Live(k) = Live(g)
          BY <5>2, LinksSame
        <5>4. Stacked(k, q, n)
          <6>1. \A i \in DOMAIN q : q[i].at = "entry" \/ (q[i].fn = "free_children" /\ q[i].at = "kids")
                  => q[i].tc \in Live(k)
            BY <3>2, <5>3 DEF Stacked, CalledOK
          <6> QED
            BY <1>0, <2>1, <3>2, <5>3, <6>1, SameStacked
        <5>5. TreeInv'
          BY <1>0, <1>1, <2>8, <2>9, <5>1, <5>2, <5>4 DEF TreeInv, Types, StaleOnlyKnown
        <5>6. Listed(k, NULL) = Listed(g, NULL)
          BY <5>3 DEF Listed, Live, Same
        <5> QED
          BY <5>1, <5>2, <5>3, <5>5, <5>6 DEF Shifted, Top
      <4> QED
        BY <4>11, <4>12, <4>13
    <3> QED
      BY <3>3, <3>4
  <2> QED
    BY <2>10, <2>11
<1> QED
  BY <1>0, <1>2, <1>3

\* What a call has done to the heap when it returns: only its chunk, or a reference
\* to that, is gone, and what is left is where it was.
Trimmed(h, g, c) ==
  /\ KeptParents(h, g, NULL) /\ Live(g) \subseteq Live(h)
  /\ \A d \in Live(h) \ Live(g) : d = c \/ (Handle(h, d) /\ h[d].ptr = c)

\* The chunks that calls in progress are about.
About(s) == {s[i].tc : i \in DOMAIN s}

\* What a step of a call does to the heap: as Trimmed, but for the chunk of the call,
\* which may have been given away or marked.
Lessened ==
  /\ Live(heap') \subseteq Live(heap)
  /\ \A d \in Live(heap) \ Live(heap') : d = Top.tc \/ (Handle(heap, d) /\ heap[d].ptr = Top.tc)
  /\ fault' = "none" =>
       /\ KeptParents(heap, heap', Top.tc)
       /\ \A d \in Listed(heap, NULL) \cap Live(heap') : d = Top.tc \/ d \in Listed(heap', NULL)

\* The outermost call returns, and its return value says whether its chunk is gone.
Over ==
  /\ Len(stack) = 1 /\ stack' = << >> /\ own' = {}
  /\ Top.fn = "free" => (ret' = 0 <=> Top.tc \notin Live(heap'))

\* A call goes on, or returns to another; then its chunk is spared or gone, or a call
\* further out is about it.
Within ==
  /\ stack' # << >> /\ own' = own /\ spared \subseteq spared'
  /\ About(stack') \subseteq About(stack) /\ About(stack) \ {Top.tc} \subseteq About(stack')
  /\ Top.tc \in About(stack') \cup spared' \/ Top.tc \notin Live(heap')

\* A step of a call in progress that does not call: it frees or moves what the innermost frame
\* is about, and the call ends or goes on.
Ran == Lessened /\ (Over \/ Within)

\* The frames below the one that returns stay, about the same chunks.
LEMMA FramesLeft ==
  ASSUME stack \in Seq(Frame), Len(stack) > 1, NEW g, NEW rc, Return(g, rc)
  PROVE  stack' # << >> /\ About(stack') = {stack[i].tc : i \in DOMAIN stack \ {1}}
<1> DEFINE r == Tail(stack)
           e == [r[1] EXCEPT !.at = IF @ = "kid" THEN "kids" ELSE @,
                             !.new = IF fault' = "none" THEN NULL ELSE @]
           k == [r EXCEPT ![1] = e]
<1>1. /\ r \in Seq(Frame) /\ Len(r) = Len(stack) - 1 /\ Len(stack) \in Nat
      /\ DOMAIN r = 1..Len(r) /\ DOMAIN stack = 1..Len(stack)
      /\ \A i \in 1..Len(r) : r[i] = stack[i + 1]
  BY HeadTailProperties
<1>2. 1 \in 1..Len(r) /\ r[1] \in Frame
  BY <1>1
<1>3. e.tc = r[1].tc
  BY <1>2 DEF Frame
<1>4. stack' = k
  <2>1. Len(stack) # 1
    BY <1>1
  <2>2. stack' = [Tail(stack) EXCEPT ![1].at = IF @ = "kid" THEN "kids" ELSE @,
                                     ![1].new = IF fault' = "none" THEN NULL ELSE @]
    BY <2>1 DEF Return
  <2> QED
    BY <1>1, <1>2, <2>2
<1>5. DOMAIN k = 1..Len(r) /\ \A i \in 1..Len(r) : k[i].tc = r[i].tc
  <2> HIDE DEF r, e
  <2>1. DOMAIN k = DOMAIN r /\ \A i \in DOMAIN r : k[i] = IF i = 1 THEN e ELSE r[i]
    BY <1>1
  <2> QED
    BY <1>1, <1>3, <2>1
<1> HIDE DEF k
<1>6. \A i \in 1..Len(r) : i + 1 \in DOMAIN stack \ {1} /\ k[i].tc = stack[i + 1].tc
  <2> HIDE DEF r
  <2> QED
    BY <1>1, <1>5
<1>7. \A i \in DOMAIN stack \ {1} : i - 1 \in 1..Len(r) /\ k[i - 1].tc = stack[i].tc
  <2> SUFFICES ASSUME NEW i \in DOMAIN stack \ {1}
               PROVE  i - 1 \in 1..Len(r) /\ k[i - 1].tc = stack[i].tc
    OBVIOUS
  <2> HIDE DEF r
  <2>1. i - 1 \in 1..Len(r) /\ i - 1 + 1 = i
    BY <1>1
  <2> QED
    BY <1>6, <2>1
<1>8. k # << >>
  <2> HIDE DEF r
  <2> QED
    BY <1>2, <1>5
<1> HIDE DEF r
<1>9. About(k) = {stack[i].tc : i \in DOMAIN stack \ {1}}
  <2>1. ASSUME NEW i \in DOMAIN stack \ {1} PROVE stack[i].tc \in About(k)
    <3>1. i - 1 \in DOMAIN k /\ k[i - 1].tc = stack[i].tc
      BY <1>5, <1>7
    <3> QED
      BY <3>1, Zenon DEF About
  <2>2. ASSUME NEW i \in DOMAIN k PROVE k[i].tc \in {stack[j].tc : j \in DOMAIN stack \ {1}}
    <3>1. i + 1 \in DOMAIN stack \ {1} /\ k[i].tc = stack[i + 1].tc
      BY <1>5, <1>6
    <3> QED
      BY <3>1, Zenon
  <2> QED
    BY <2>1, <2>2 DEF About
<1> QED
  BY <1>4, <1>8, <1>9

\* Whatever a call has left behind, its return is such a step.
LEMMA Ending ==
  ASSUME Types, Stacked(heap, stack, null_context), stack # << >>,
         NEW g, NEW rc \in {0, -1}, Left(heap, g, stack), rc = -1 => Top.tc \in Live(g),
         rc = 0 => \/ Top.tc \notin Live(g) \/ Top.fn # "free"
                   \/ \E i \in DOMAIN stack : i # 1 /\ stack[i].tc = Top.tc,
         Trimmed(heap, g, Top.tc), Return(g, rc),
         Live(heap') = Live(g), fault' = "none" => Shifted(g, heap', Top.tc)
  PROVE  Ran
<1>0. stack \in Seq(Frame) /\ Len(stack) \in Nat /\ DOMAIN stack = 1..Len(stack) /\ Len(stack) >= 1
      /\ 1 \in DOMAIN stack /\ Top = stack[1] /\ NULL \notin Chunk
  BY TallocAssumption DEF Types, Top
<1>1. Live(heap') \subseteq Live(heap)
  BY DEF Trimmed
<1>2. \A d \in Live(heap) \ Live(heap') : d = Top.tc \/ (Handle(heap, d) /\ heap[d].ptr = Top.tc)
  BY DEF Trimmed
<1>3. ASSUME fault' = "none"
      PROVE  /\ KeptParents(heap, heap', Top.tc)
             /\ \A d \in Listed(heap, NULL) \cap Live(heap') : d = Top.tc \/ d \in Listed(heap', NULL)
  <2>1. KeptParents(heap, heap', Top.tc)
    <3> SUFFICES ASSUME NEW d \in Listed(heap', NULL) \ {Top.tc}
                 PROVE  d \in Listed(heap, NULL)
                        /\ talloc_parent_chunk(heap', d) = talloc_parent_chunk(heap, d)
      BY DEF KeptParents
    <3>1. d \in Listed(g, NULL) /\ talloc_parent_chunk(heap', d) = talloc_parent_chunk(g, d)
      BY <1>3 DEF Shifted, KeptParents
    <3>2. d # NULL
      BY <3>1 DEF Listed
    <3> QED
      BY <3>1, <3>2 DEF Trimmed, KeptParents
  <2>2. ASSUME NEW d \in Listed(heap, NULL) \cap Live(heap'), d # Top.tc
        PROVE  d \in Listed(heap', NULL)
    <3>1. d \in Chunk /\ d \in Live(g) /\ ~heap[d].loop
      BY DEF Listed, Live
    <3>2. ~g[d].loop
      BY <1>0, <2>2, <3>1 DEF Left, Same
    <3>3. d \in Listed(g, NULL)
      BY <1>0, <3>1, <3>2 DEF Listed
    <3> QED
      BY <1>3, <3>3 DEF Shifted
  <2> QED
    BY <2>1, <2>2
<1>4. ASSUME Len(stack) = 1 PROVE Over
  <2>1. stack' = << >> /\ own' = {} /\ ret' = rc
    BY <1>4 DEF Return
  <2>2. ~\E i \in DOMAIN stack : i # 1 /\ stack[i].tc = Top.tc
    BY <1>0, <1>4
  <2>3. rc = 0 \/ rc = -1
    OBVIOUS
  <2> QED
    BY <1>4, <2>1, <2>2, <2>3 DEF Over
<1>5. ASSUME Len(stack) # 1 PROVE Within
  <2>1. Len(stack) > 1
    BY <1>0, <1>5
  <2>2. own' = own /\ spared' = IF rc = -1 THEN spared \cup {Top.tc} ELSE spared
    BY <1>5 DEF Return
  <2>3. Top.fn = "free"
    BY <1>0, <1>5 DEF Stacked, FrameOK
  <2>4. stack' # << >> /\ About(stack') = {stack[i].tc : i \in DOMAIN stack \ {1}}
    BY <1>0, <2>1, FramesLeft
  <2>5. Top.tc \in About(stack') \cup spared' \/ Top.tc \notin Live(heap')
    BY <2>2, <2>3, <2>4
  <2>6. About(stack') \subseteq About(stack) /\ About(stack) \ {Top.tc} \subseteq About(stack')
    BY <1>0, <2>4 DEF About
  <2>7. spared \subseteq spared'
    BY <2>2
  <2> QED
    BY <2>2, <2>4, <2>5, <2>6, <2>7 DEF Within
<1> QED
  BY <1>1, <1>2, <1>3, <1>4, <1>5 DEF Ran, Lessened

\* So is a step that leaves the frames as they are, but for the place in the call.
LEMMA GoingOn ==
  ASSUME Types, stack # << >>, stack' # << >>, UNCHANGED ghosts, About(stack') = About(stack),
         Trimmed(heap, heap', Top.tc), \A d \in Chunk : d # Top.tc => heap'[d].loop = heap[d].loop
  PROVE  Ran
<1>0. stack \in Seq(Frame) /\ 1 \in DOMAIN stack /\ Top = stack[1] /\ NULL \notin Chunk
  BY TallocAssumption DEF Types, Top
<1>1. KeptParents(heap, heap', Top.tc)
  <2>1. \A d \in Listed(heap', NULL) : d # NULL
    BY DEF Listed
  <2> QED
    BY <2>1 DEF Trimmed, KeptParents
<1>2. \A d \in Listed(heap, NULL) \cap Live(heap') : d = Top.tc \/ d \in Listed(heap', NULL)
  BY <1>0 DEF Listed, Live
<1>3. Top.tc \in About(stack)
  BY <1>0 DEF About
<1>4. own' = own /\ spared' = spared
  BY DEF ghosts
<1>5. Lessened
  BY <1>1, <1>2 DEF Lessened, Trimmed
<1>6. Within
  BY <1>3, <1>4 DEF Within
<1> QED
  BY <1>5, <1>6 DEF Ran

\* Nothing is trimmed when nothing changes.
LEMMA TrimmedSelf ==
  ASSUME NEW h, NEW c
  PROVE  Trimmed(h, h, c)
BY DEF Trimmed, KeptParents

-----------------------------------------------------------------------------
(* Each action keeps the invariant: calls from outside *)

\* There is memory to hand out.
LEMMA FreshFacts ==
  ASSUME Room
  PROVE  Fresh \in Chunk /\ heap[Fresh].state = "unused"
<1> DEFINE T == {c \in Chunk : heap[c].state = "unused"}
           P(c) == heap[c].state = "unused" /\ \A d \in Chunk : heap[d].state = "unused" => c <= d
<1>1. T \in SUBSET Nat /\ T # {}
  BY TallocAssumption DEF Room
<1>2. \E c \in T : \A d \in T : c <= d
  <2> HIDE DEF T
  <2> QED
    BY <1>1, Least
<1>3. \E c \in Chunk : P(c)
  BY <1>2
<1>4. Fresh = CHOOSE c \in Chunk : P(c)
  BY DEF Fresh
<1> HIDE DEF P
<1>5. Fresh \in Chunk /\ P(Fresh)
  BY <1>3, <1>4
<1> QED
  BY <1>5 DEF P

\* A chunk that has not changed is the same.
LEMMA SameSelf ==
  ASSUME NEW h, NEW g, NEW d, g[d] = h[d]
  PROVE  Same(h, g, d)
BY DEF Same, Handle

\* Freeing a handle changes nothing that a frame looks at.
LEMMA FreeHandleSame ==
  ASSUME NEW h, NEW n, Tree(h, n), NEW x \in Live(h), Handle(h, x)
  PROVE  \A d \in Chunk : Same(h, FreeHandle(h, x), d)
<1> DEFINE g == FreeHandle(h, x)
<1>1. /\ Live(g) = Live(h) \ {x} /\ g[x] = Freed
      /\ \A d \in Chunk : d # x => /\ g[d].state = h[d].state /\ g[d].loop = h[d].loop
                                   /\ g[d].destructor = h[d].destructor
      /\ \A d \in Chunk : h[d].refs = << >> => g[d].refs = << >>
      /\ \A d \in Chunk \ Listed(h, NULL) : g[d].prev = h[d].prev
  BY FreeHandleTree
<1>2. ~h[x].loop /\ h[x].loop \in BOOLEAN
  BY DEF Tree, Refs, Heaps, Header, Live
<1>3. /\ Freed.state = "freed" /\ Freed.loop = FALSE /\ Freed.destructor = "none"
      /\ Freed.refs = << >>
  BY DEF Freed, Unused
<1> HIDE DEF g
<1> SUFFICES ASSUME NEW d \in Chunk PROVE Same(h, g, d)
  BY DEF g
<1>4. CASE d = x
  BY <1>1, <1>2, <1>3, <1>4 DEF Same, Handle
<1>5. CASE d # x
  <2>1. h[d].loop => d \notin Listed(h, NULL)
    BY DEF Listed
  <2> QED
    BY <1>1, <1>5, <2>1 DEF Same, Handle
<1> QED
  BY <1>4, <1>5

\* With no call in progress, no chunk is marked.
LEMMA IdleFacts ==
  ASSUME TreeInv, Idle
  PROVE  /\ Rested(heap, null_context) /\ heap \in Heaps /\ null_context \in Ptr
         /\ Tree(heap, null_context)
         /\ Listed(heap, NULL) = Live(heap)
<1>1. Rested(heap, null_context) /\ heap \in Heaps /\ null_context \in Ptr
  BY RestedStacked DEF TreeInv, Idle, Types, Tree
<1>2. NULL \notin Chunk
  BY TallocAssumption
<1> QED
  BY <1>1, <1>2 DEF TreeInv, Rested, Listed, Live

\* What a caller does outside of a call that frees: no chunk goes but handles and,
\* to another address, the one that realloc() moves.
Asked ==
  /\ Idle /\ stack' = << >> /\ own' = own
  /\ \A c \in Live(heap) \ Live(heap') :
       Handle(heap, c) \/ \E d \in Live(heap') : heap' = Moved(heap, c, d)

\* What the start of such a call does: it is about c, and about to free what is below.
Begins(c) ==
  /\ heap' = heap /\ fault' = "none" /\ stack' # << >> /\ spared' = spared
  /\ c \in Live(heap) /\ own' = own \cup Subtree(heap, c)
  /\ About(stack') = About(stack) \cup {c}

\* A call that frees nothing.
LEMMA QuietAsked ==
  ASSUME Idle, UNCHANGED <<stack, fault, ghosts>>, \A d \in Live(heap) : heap'[d].state = "live"
  PROVE  Asked
<1>1. Live(heap) \subseteq Live(heap')
  BY DEF Live
<1> QED
  BY <1>1 DEF Asked, Idle, ghosts

\* Such a call keeps the invariant when it keeps memory a tree at rest.
LEMMA QuietStep ==
  ASSUME TreeInv, Idle, ret' \in {0, -1}, UNCHANGED <<stack, fault, ghosts>>,
         null_context' \in Ptr, Tree(heap', null_context'), Rested(heap', null_context')
  PROVE  TreeInv'
<1>1. stack' = << >> /\ fault' = "none" /\ own' = own /\ held' = held /\ spared' = spared
  BY DEF Idle, ghosts
<1>2. Stacked(heap', << >>, null_context')
  BY RestedStacked DEF Tree
<1> QED
  BY <1>1, <1>2 DEF TreeInv, Types, StaleOnlyKnown

\* A context that a caller names.
LEMMA CallersContext ==
  ASSUME TreeInv, Idle, NEW ctx \in Mine \cup {NULL}
  PROVE  /\ Context(ctx) \in Live(heap) \cup {NULL}
         /\ Context(ctx) # NULL => ~Handle(heap, Context(ctx))
  BY IdleFacts DEF Context, Mine, Rested, Ptr

\* talloc_named_const() keeps the invariant: the new chunk is hooked below its context.
LEMMA KeepsAlloc ==
  ASSUME TreeInv, NEW ctx \in Mine \cup {NULL}, talloc_named_const(ctx)
  PROVE  TreeInv' /\ Asked
<1> DEFINE h == heap
           n == null_context
           p == Context(ctx)
           c == Fresh
           g == Placed(h, p, c)
<1>1. Idle /\ Room /\ heap' = g /\ quiet /\ null_context' = n
  BY DEF talloc_named_const, __talloc, Placed, NewChunk
<1>2. /\ Rested(h, n) /\ h \in Heaps /\ n \in Ptr /\ Tree(h, n)
  BY <1>1, IdleFacts
<1>3. c \in Chunk /\ h[c].state = "unused" /\ c # n
  <2>1. c \in Chunk /\ h[c].state = "unused"
    BY <1>1, FreshFacts
  <2>2. n # NULL => h[n].state = "live"
    BY <1>2 DEF Rested, Live
  <2> HIDE DEF c
  <2> QED
    BY <2>1, <2>2, TallocAssumption
<1>4. p \in Live(h) \cup {NULL} /\ (p # NULL => ~Handle(h, p))
  BY <1>1, CallersContext
<1> HIDE DEF c, p
<1>5. Tree(g, n) /\ OnlyLinks([h EXCEPT ![c] = NewChunk], g)
  BY <1>2, <1>3, <1>4, AllocTree
<1> HIDE DEF g
<1>6. /\ g[c].loop = FALSE /\ g[c].destructor = "none"
      /\ \A d \in Chunk : d # c => /\ g[d].state = h[d].state /\ g[d].loop = h[d].loop
                                   /\ g[d].destructor = h[d].destructor
  BY <1>2, <1>3, <1>5 DEF OnlyLinks, NewChunk, Unused, Heaps
<1>7. Rested(g, n)
  BY <1>2, <1>3, <1>6 DEF Rested, Live, Handle, Ptr
<1>8. ret' = 0 /\ UNCHANGED <<stack, fault, ghosts>>
  BY <1>1 DEF quiet
<1>9. TreeInv'
  BY <1>1, <1>2, <1>5, <1>7, <1>8, QuietStep
<1>10. \A d \in Live(heap) : heap'[d].state = "live"
  BY <1>1, <1>3, <1>6 DEF Live
<1> QED
  BY <1>1, <1>8, <1>9, <1>10, QuietAsked

\* talloc_enable_null_tracking(): the new null_context is a root.
LEMMA KeepsTracking ==
  ASSUME TreeInv, talloc_enable_null_tracking
  PROVE  TreeInv' /\ Asked
<1> DEFINE h == heap
           n == null_context
           c == Fresh
           g == Placed(h, NULL, c)
<1>1. Idle /\ Room /\ n = NULL /\ heap' = g /\ quiet /\ null_context' = c
  BY DEF talloc_enable_null_tracking, __talloc, Placed, NewChunk, Context
<1>2. /\ Rested(h, n) /\ h \in Heaps /\ n \in Ptr /\ Tree(h, n)
  BY <1>1, IdleFacts
<1>3. c \in Chunk /\ h[c].state = "unused" /\ c # n /\ c # NULL
  BY <1>1, <1>2, FreshFacts, TallocAssumption
<1> HIDE DEF c
<1>5. Tree(g, c) /\ OnlyLinks([h EXCEPT ![c] = NewChunk], g)
  BY <1>2, <1>3, AllocTree
<1> HIDE DEF g
<1>6. /\ g[c].loop = FALSE /\ g[c].destructor = "none" /\ g[c].state = "live"
      /\ \A d \in Chunk : d # c => /\ g[d].state = h[d].state /\ g[d].loop = h[d].loop
                                   /\ g[d].destructor = h[d].destructor
  BY <1>2, <1>3, <1>5 DEF OnlyLinks, NewChunk, Unused, Heaps
<1>7. Rested(g, c)
  BY <1>2, <1>3, <1>6 DEF Rested, Live, Handle
<1>8. ret' = 0 /\ UNCHANGED <<stack, fault, ghosts>> /\ c \in Ptr
  BY <1>1, <1>3 DEF quiet, Ptr
<1>9. TreeInv'
  BY <1>1, <1>2, <1>5, <1>7, <1>8, QuietStep
<1>10. \A d \in Live(heap) : heap'[d].state = "live"
  BY <1>1, <1>3, <1>6 DEF Live
<1> QED
  BY <1>1, <1>8, <1>9, <1>10, QuietAsked

\* talloc_set_destructor().
LEMMA KeepsDestructor ==
  ASSUME TreeInv, NEW c \in Mine, NEW d \in {"none", "user"}, talloc_set_destructor(c, d)
  PROVE  TreeInv' /\ Asked
<1> DEFINE h == heap
           n == null_context
           g == Marked(h, c, d)
<1>1. Idle /\ heap' = g /\ quiet /\ null_context' = n
  BY DEF talloc_set_destructor, Marked
<1>2. /\ Rested(h, n) /\ h \in Heaps /\ n \in Ptr /\ Tree(h, n)
  BY <1>1, IdleFacts
<1>3. c \in Live(h) /\ ~Handle(h, c)
  BY DEF Mine
<1>4. /\ Tree(g, n) /\ g[c].destructor = d
      /\ \A e \in Chunk : e # c => g[e] = h[e]
      /\ \A e \in Chunk : g[e].state = h[e].state /\ g[e].loop = h[e].loop
  <2>1. d \in {"none", "user", "busy"}
    OBVIOUS
  <2> QED
    BY <1>2, <1>3, <2>1, MarkTree
<1> HIDE DEF g
<1>5. Rested(g, n)
  BY <1>2, <1>4 DEF Rested, Live, Handle, Ptr
<1>6. ret' = 0 /\ UNCHANGED <<stack, fault, ghosts>>
  BY <1>1 DEF quiet
<1>7. TreeInv'
  BY <1>1, <1>2, <1>4, <1>5, <1>6, QuietStep
<1>8. \A e \in Live(heap) : heap'[e].state = "live"
  BY <1>1, <1>4 DEF Live
<1> QED
  BY <1>1, <1>6, <1>7, <1>8, QuietAsked

\* talloc_reference().
LEMMA KeepsReference ==
  ASSUME TreeInv, NEW c \in Mine, NEW ctx \in Mine \cup {NULL}, talloc_reference(ctx, c)
  PROVE  TreeInv' /\ Asked
<1> DEFINE h == heap
           n == null_context
           p == Context(ctx)
           x == Fresh
           g == Referred(Placed(h, p, x), x, c)
<1>1. Idle /\ Room /\ heap' = g /\ quiet /\ null_context' = n
  BY DEF talloc_reference, __talloc, Placed, NewChunk, Referred
<1>2. /\ Rested(h, n) /\ h \in Heaps /\ n \in Ptr /\ Tree(h, n) /\ (n # NULL => n \in Live(h))
  BY <1>1, IdleFacts DEF Rested
<1>3. x \in Chunk /\ h[x].state = "unused"
  BY <1>1, FreshFacts
<1>4. p \in Live(h) \cup {NULL} /\ (p # NULL => ~Handle(h, p))
  BY <1>1, CallersContext
<1>5. c \in Live(h) /\ ~Handle(h, c) /\ ~h[c].loop
  BY <1>2 DEF Mine, Rested, Live
<1> HIDE DEF x, p
<1>6. NewHandle(h, g, x, n)
  BY <1>2, <1>3, <1>4, <1>5, ReferenceTree
<1> HIDE DEF g
<1>7. Rested(g, n)
  BY <1>2, <1>3, <1>6 DEF Rested, Live, Handle, Ptr, NewHandle
<1>8. ret' = 0 /\ UNCHANGED <<stack, fault, ghosts>> /\ Tree(g, n)
  BY <1>1, <1>6 DEF quiet, NewHandle
<1>9. TreeInv'
  BY <1>1, <1>2, <1>7, <1>8, QuietStep
<1>10. \A d \in Live(heap) : heap'[d].state = "live"
  BY <1>1, <1>3, <1>6 DEF Live, NewHandle
<1> QED
  BY <1>1, <1>8, <1>9, <1>10, QuietAsked

\* _talloc_realloc(): the chunk that realloc() moved is hooked in where the old one was.
LEMMA KeepsRealloc ==
  ASSUME TreeInv, NEW c \in Mine, _talloc_realloc(c)
  PROVE  TreeInv' /\ Asked
<1> DEFINE h == heap
           n == null_context
           x == Fresh
           g == Moved(h, c, x)
<1>1. Idle /\ Room /\ heap' = g /\ quiet /\ null_context' = n /\ h[c].refs = << >>
  BY DEF _talloc_realloc
<1>2. /\ Rested(h, n) /\ h \in Heaps /\ n \in Ptr /\ Tree(h, n) /\ (n # NULL => n \in Live(h))
      /\ Listed(h, NULL) = Live(h)
  BY <1>1, IdleFacts DEF Rested
<1>3. x \in Chunk /\ h[x].state = "unused"
  BY <1>1, FreshFacts
<1>4. c \in Live(h) /\ ~Handle(h, c) /\ c # n /\ c \in Listed(h, NULL) /\ c \in Chunk
  BY <1>2 DEF Mine, Live
<1> HIDE DEF x
<1>5. /\ Tree(g, n) /\ g[c] = Freed /\ g[x] = h[c]
      /\ \A e \in Chunk \ {c, x} : /\ g[e].state = h[e].state /\ g[e].loop = h[e].loop
                                   /\ g[e].destructor = h[e].destructor
  BY <1>1, <1>2, <1>3, <1>4, MovedTree
<1> HIDE DEF g
<1>6. Freed.loop = FALSE /\ Freed.destructor = "none"
  BY DEF Freed, Unused
<1>7. Rested(g, n)
  <2>1. \A e \in Chunk : ~g[e].loop /\ g[e].destructor # "busy"
    BY <1>2, <1>4, <1>5, <1>6 DEF Rested
  <2>2. n # NULL => n \in Live(g) /\ ~Handle(g, n)
    BY <1>2, <1>3, <1>4, <1>5 DEF Rested, Live, Handle
  <2> QED
    BY <2>1, <2>2 DEF Rested
<1>8. ret' = 0 /\ UNCHANGED <<stack, fault, ghosts>>
  BY <1>1 DEF quiet
<1>9. TreeInv'
  BY <1>1, <1>2, <1>5, <1>7, <1>8, QuietStep
<1>10. \A d \in Live(h) \ Live(g) : d = c
  BY <1>3, <1>5 DEF Live
<1>11. x \in Live(g) /\ heap' = Moved(heap, c, x)
  BY <1>1, <1>3, <1>4, <1>5 DEF Live, g
<1>12. stack' = << >> /\ own' = own
  BY <1>1, <1>8 DEF Idle, ghosts
<1> QED
  BY <1>1, <1>9, <1>10, <1>11, <1>12 DEF Asked

\* What has no parent is below nothing else.
LEMMA RootAbove ==
  ASSUME NEW h, NEW n \in Live(h), Tree(h, n), ~h[n].loop, NEW c \in Chunk, c # n
  PROVE  n \notin Subtree(h, c)
<1>1. h \in Heaps /\ n \in Listed(h, NULL) /\ n \in Chunk /\ n # NULL
  BY TallocAssumption DEF Tree, Listed, Live
<1>2. PICK par \in [Chunk -> Ptr], pos, rank \in [Chunk -> Nat] :
        Forest(h, NULL, par, pos, rank) /\ par[n] = NULL
  BY <1>1 DEF Tree
<1>3. talloc_parent_chunk(h, n) = NULL
  BY <1>1, <1>2, ParentChunk
<1>4. Ancestors(h, n) \subseteq {n}
  <2>1. {n} \in SUBSET Chunk /\ \A d \in {n} : talloc_parent_chunk(h, d) \in {n} \cup {NULL}
    BY <1>1, <1>3
  <2> QED
    BY <1>1, <2>1, AncestorsFacts
<1> QED
  BY <1>4 DEF Subtree, talloc_is_parent

\* talloc_steal(), which its caller does not ask to go below the chunk itself.
LEMMA KeepsSteal ==
  ASSUME TreeInv, NEW c \in Mine, NEW new \in Mine \cup {NULL}, talloc_steal(new, c)
  PROVE  TreeInv' /\ Asked
<1> DEFINE h == heap
           n == null_context
           p == Context(new)
           g == _talloc_steal(h, p, c)
<1>1. Idle /\ heap' = g /\ quiet /\ null_context' = n /\ (new # NULL => ~talloc_is_parent(h, new, c))
  BY DEF talloc_steal
<1>2. /\ Rested(h, n) /\ h \in Heaps /\ n \in Ptr /\ Tree(h, n) /\ (n # NULL => n \in Live(h))
      /\ Listed(h, NULL) = Live(h)
  BY <1>1, IdleFacts DEF Rested
<1>3. p \in Live(h) \cup {NULL} /\ (p # NULL => ~Handle(h, p))
  BY <1>1, CallersContext
<1>4. c \in Live(h) /\ ~Handle(h, c) /\ c # n /\ c \in Listed(h, NULL) /\ c \in Chunk
  BY <1>2 DEF Mine, Live
<1>5. p \notin Subtree(h, c) \ {c}
  <2>1. CASE new # NULL
    BY <1>1, <2>1 DEF Context, Subtree
  <2>2. CASE new = NULL /\ n = NULL
    BY <2>2, TallocAssumption DEF Context, Subtree, Live
  <2>3. CASE new = NULL /\ n # NULL
    <3>1. ~h[n].loop
      BY <1>2, <2>3 DEF Rested, Live
    <3> QED
      BY <1>2, <1>4, <2>3, <3>1, RootAbove DEF Context
  <2> QED
    BY <2>1, <2>2, <2>3
<1> HIDE DEF p
<1>6. /\ Tree(g, n) /\ OnlyLinks(h, g)
  BY <1>2, <1>3, <1>4, <1>5, StealTree
<1> HIDE DEF g
<1>7. Rested(g, n)
  BY <1>2, <1>6 DEF Rested, Live, Handle, OnlyLinks, Ptr
<1>8. ret' = 0 /\ UNCHANGED <<stack, fault, ghosts>>
  BY <1>1 DEF quiet
<1>9. TreeInv'
  BY <1>1, <1>2, <1>6, <1>7, <1>8, QuietStep
<1>10. \A d \in Live(heap) : heap'[d].state = "live"
  BY <1>1, <1>6 DEF Live, OnlyLinks
<1> QED
  BY <1>1, <1>8, <1>9, <1>10, QuietAsked

\* What Begin() keeps of the types.
LEMMA BeginTypes ==
  ASSUME Types, NEW frames, NEW below, NEW c, Begin(frames, below, c)
  PROVE  /\ null_context' = null_context /\ ret' = 0 /\ fault' = fault /\ heap' = heap
         /\ stack' = frames \o below
         /\ own' \subseteq Chunk /\ held' \subseteq Chunk /\ spared' \subseteq Chunk
<1>1. Subtree(heap, c) \subseteq Chunk /\ HeldFrom(heap, c) \subseteq Chunk
  BY DEF Subtree, HeldFrom, Live
<1> QED
  BY <1>1 DEF Begin, Types

\* talloc_free() and talloc_free_children(), called from outside.
LEMMA KeepsCall ==
  ASSUME TreeInv, Idle, NEW c \in Mine, NEW fn \in {"free", "free_children"},
         Begin(<<Call(fn, c)>>, << >>, c)
  PROVE  TreeInv' /\ Begins(c)
<1>1. Rested(heap, null_context) /\ null_context \in Ptr /\ Types /\ Tree(heap, null_context)
  BY IdleFacts DEF TreeInv
<1>2. c \in Live(heap) /\ c # null_context
  BY DEF Mine
<1>3. /\ <<Call(fn, c)>> \in Seq(Frame) /\ Stacked(heap, <<Call(fn, c)>>, null_context)
  BY <1>1, <1>2, CallStacked
<1>4. /\ null_context' = null_context /\ ret' = 0 /\ fault' = "none" /\ heap' = heap
      /\ stack' = <<Call(fn, c)>> \o << >>
      /\ own' \subseteq Chunk /\ held' \subseteq Chunk /\ spared' \subseteq Chunk
  BY <1>1, BeginTypes DEF Idle
<1>5. stack' = <<Call(fn, c)>>
  BY <1>3, <1>4
<1>6. TreeInv'
  BY <1>1, <1>3, <1>4, <1>5 DEF TreeInv, Types, StaleOnlyKnown
<1>7. About(stack) = {}
  BY DEF Idle, About
<1>8. stack' # << >> /\ About(stack') = {c}
  <2>1. <<Call(fn, c)>>[1].tc = c /\ DOMAIN <<Call(fn, c)>> = {1}
    BY DEF Call
  <2> QED
    BY <1>5, <2>1 DEF About
<1>9. own' = own \cup Subtree(heap, c) /\ spared' = spared
  BY DEF Begin
<1> QED
  BY <1>2, <1>4, <1>6, <1>7, <1>8, <1>9 DEF Begins

\* talloc_disable_null_tracking().
LEMMA KeepsUntracking ==
  ASSUME TreeInv, talloc_disable_null_tracking
  PROVE  TreeInv' /\ Begins(null_context)
<1> DEFINE n == null_context
           s == <<Call("free", n), Call("untrack", n)>>
<1>1. Idle /\ n # NULL /\ Begin(s, << >>, n)
  BY DEF talloc_disable_null_tracking
<1>2. Rested(heap, n) /\ n \in Chunk /\ Types /\ Tree(heap, n)
  BY <1>1, IdleFacts DEF TreeInv, Ptr
<1>3. s \in Seq(Frame) /\ Stacked(heap, s, n)
  BY <1>1, <1>2, UntrackStacked
<1> HIDE DEF s
<1>4. /\ null_context' = n /\ ret' = 0 /\ fault' = "none" /\ heap' = heap
      /\ stack' = s \o << >>
      /\ own' \subseteq Chunk /\ held' \subseteq Chunk /\ spared' \subseteq Chunk
  BY <1>1, <1>2, BeginTypes DEF Idle
<1>5. stack' = s
  BY <1>3, <1>4
<1>6. TreeInv'
  BY <1>2, <1>3, <1>4, <1>5 DEF TreeInv, Types, StaleOnlyKnown
<1>7. About(stack) = {}
  BY <1>1 DEF Idle, About
<1>8. stack' # << >> /\ About(stack') = {n}
  <2>1. s[1].tc = n /\ s[2].tc = n /\ DOMAIN s = {1, 2}
    BY DEF Call, s
  <2> QED
    BY <1>5, <2>1 DEF About
<1>9. own' = own \cup Subtree(heap, n) /\ spared' = spared
  BY <1>1 DEF Begin
<1>10. n \in Live(heap)
  BY <1>1, <1>2 DEF Rested
<1> QED
  BY <1>4, <1>6, <1>7, <1>8, <1>9, <1>10 DEF Begins

\* One of the references of c is a handle, below some context.
LEMMA RefFacts ==
  ASSUME NEW h, NEW n, Tree(h, n), NEW c \in Live(h), NEW i \in DOMAIN h[c].refs
  PROVE  LET x == h[c].refs[i] IN
         /\ x \in Live(h) /\ Handle(h, x) /\ ~h[x].loop /\ x # c /\ h[x].ptr = c
         /\ h[c].refs # << >> /\ ~Handle(h, c)
         /\ talloc_parent_chunk(h, x) \in Live(h) \cup {NULL}
         /\ talloc_parent_chunk(h, x) # NULL => ~Handle(h, talloc_parent_chunk(h, x))
<1> DEFINE x == h[c].refs[i]
<1>0. h \in Heaps /\ Refs(h) /\ OwnersOK(h) /\ c \in Chunk /\ NULL \notin Chunk /\ h[c].refs \in Seq(Chunk)
  BY TallocAssumption DEF Tree, Live, Heaps, Header
<1>1. x \in Range(h[c].refs)
  BY DEF Range
<1> HIDE DEF x
<1>2. x \in Live(h) /\ Handle(h, x) /\ h[x].ptr = c
  BY <1>0, <1>1 DEF Refs
<1>3. h[c].refs # << >>
  <2> SUFFICES ASSUME h[c].refs = << >> PROVE FALSE
    OBVIOUS
  <2> QED
    OBVIOUS
<1>4. ~Handle(h, c)
  BY <1>0, <1>3 DEF Refs
<1>5. ~h[x].loop
  BY <1>0, <1>2 DEF Refs
<1>6. x \in Listed(h, NULL) /\ x \in Chunk
  BY <1>0, <1>2, <1>5 DEF Listed, Live
<1>7. PICK par \in [Chunk -> Ptr], pos, rank \in [Chunk -> Nat] : Forest(h, NULL, par, pos, rank)
  BY DEF Tree
<1>8. talloc_parent_chunk(h, x) = par[x]
  BY <1>0, <1>6, <1>7, ParentChunk
<1>9. par[x] \in Live(h) \cup {NULL}
  BY <1>6, <1>7 DEF Forest, ParOK
<1>10. talloc_parent_chunk(h, x) # NULL => ~Handle(h, talloc_parent_chunk(h, x))
  <2>1. First(h, x) \in Chunk
    BY <1>0, <1>6, FirstFacts
  <2> QED
    BY <1>0, <2>1 DEF OwnersOK, talloc_parent_chunk
<1> QED
  BY <1>2, <1>3, <1>4, <1>5, <1>8, <1>9, <1>10 DEF x

\* The first of some references is one of them.
LEMMA FirstOfFacts ==
  ASSUME NEW h \in Heaps, NEW c \in Chunk, NEW T \in SUBSET DOMAIN h[c].refs, T # {}
  PROVE  \E i \in T : FirstOf(h, c, T) = h[c].refs[i]
<1> DEFINE P(i) == \A j \in T : i <= j
<1>1. h[c].refs \in Seq(Chunk)
  BY DEF Heaps, Header
<1>2. T \in SUBSET Nat
  BY <1>1
<1>3. \E i \in T : P(i)
  BY <1>2, Least
<1>4. FirstOf(h, c, T) = h[c].refs[CHOOSE i \in T : P(i)]
  BY DEF FirstOf
<1> HIDE DEF P
<1>5. (CHOOSE i \in T : P(i)) \in T
  BY <1>3
<1> QED
  BY <1>4, <1>5

\* The head of the references is the first of them.
LEMMA HeadRef ==
  ASSUME NEW h \in Heaps, NEW c \in Chunk, h[c].refs # << >>
  PROVE  1 \in DOMAIN h[c].refs /\ Head(h[c].refs) = h[c].refs[1]
<1>1. h[c].refs \in Seq(Chunk)
  BY DEF Heaps, Header
<1> DEFINE r == h[c].refs
<1> HIDE DEF r
<1>2. r \in Seq(Chunk) /\ r # << >>
  BY <1>1 DEF r
<1>3. 1 \in DOMAIN r /\ Head(r) = r[1]
  BY <1>2
<1> QED
  BY <1>3 DEF r

\* Where no chunk changes its marks, memory stays at rest.
LEMMA SameRested ==
  ASSUME NEW h, NEW g, NEW n \in Ptr, Rested(h, n), \A d \in Chunk : Same(h, g, d),
         \A d \in Chunk : g[d].loop \in BOOLEAN
  PROVE  Rested(g, n)
  BY DEF Rested, Same, Live, Ptr

\* talloc_unlink(), in each of its cases: a reference of the context is dropped; the chunk is
\* freed; it is handed over to the owner of a reference, which is dropped; nothing is found.
LEMMA KeepsUnlink ==
  ASSUME TreeInv, NEW c \in Mine, NEW ctx \in Mine \cup {NULL}, talloc_unlink(ctx, c)
  PROVE  TreeInv' /\ (Asked \/ Begins(c))
<1> DEFINE h == heap
           n == null_context
           mine  == HandleOf(h, Context(ctx), c)
           p     == talloc_parent_chunk(h, Head(h[c].refs))
           other == HandleOf(h, Context(p), c)
<1>0. Idle
  BY DEF talloc_unlink
<1>1. /\ Rested(h, n) /\ h \in Heaps /\ n \in Ptr /\ Tree(h, n) /\ (n # NULL => n \in Live(h))
      /\ Listed(h, NULL) = Live(h) /\ NULL \notin Chunk
  BY <1>0, IdleFacts, TallocAssumption DEF Rested
<1>2. c \in Live(h) /\ ~Handle(h, c) /\ c # n /\ c \in Chunk
  BY DEF Mine, Live
<1>3. mine \in SUBSET DOMAIN h[c].refs /\ other \in SUBSET DOMAIN h[c].refs
  BY DEF HandleOf
<1>4. \/ /\ mine # {}
         /\ heap' = FreeHandle(h, FirstOf(h, c, mine))
         /\ ret' = 0
         /\ UNCHANGED <<null_context, stack, fault, ghosts>>
      \/ Begin(<<Call("free", c)>>, << >>, c)
      \/ /\ h[c].refs # << >> /\ other # {}
         /\ Give(FreeHandle(h, FirstOf(h, c, other)), p, c)
         /\ ret' = 0
         /\ UNCHANGED <<null_context, stack, ghosts>>
      \/ /\ ret' = -1
         /\ UNCHANGED <<heap, null_context, stack, fault, ghosts>>
  BY DEF talloc_unlink
<1> HIDE DEF mine, other
<1>5. ASSUME NEW T \in SUBSET DOMAIN h[c].refs, T # {}
      PROVE  LET x == FirstOf(h, c, T)
                 g == FreeHandle(h, x) IN
             /\ x \in Live(h) /\ Handle(h, x) /\ x # c
             /\ Tree(g, n) /\ Rested(g, n) /\ Live(g) = Live(h) \ {x}
             /\ \A d \in Chunk : Same(h, g, d)
  <2> DEFINE x == FirstOf(h, c, T)
             g == FreeHandle(h, x)
  <2>1. PICK i \in T : x = h[c].refs[i]
    BY <1>1, <1>2, <1>5, FirstOfFacts
  <2>2. x \in Live(h) /\ Handle(h, x) /\ x # c
    <3>1. i \in DOMAIN h[c].refs
      OBVIOUS
    <3> QED
      BY <1>1, <1>2, <2>1, <3>1, RefFacts
  <2> HIDE DEF x
  <2>3. \A d \in Chunk : Same(h, g, d)
    BY <1>1, <2>2, FreeHandleSame
  <2>4. Tree(g, n) /\ Live(g) = Live(h) \ {x}
    BY <1>1, <2>2, FreeHandleTree
  <2> HIDE DEF g
  <2>5. Rested(g, n)
    <3>1. \A d \in Chunk : g[d].loop \in BOOLEAN
      BY <2>4 DEF Tree, Heaps, Header
    <3> QED
      BY <1>1, <2>3, <3>1, SameRested
  <2> QED
    BY <2>2, <2>3, <2>4, <2>5 DEF x, g
<1>6. CASE /\ mine # {}
           /\ heap' = FreeHandle(h, FirstOf(h, c, mine))
           /\ ret' = 0
           /\ UNCHANGED <<null_context, stack, fault, ghosts>>
  <2>1. /\ Tree(heap', n) /\ Rested(heap', n)
        /\ \A d \in Live(h) \ Live(heap') : Handle(h, d)
    BY <1>3, <1>5, <1>6
  <2>2. TreeInv'
    BY <1>0, <1>1, <1>6, <2>1, QuietStep
  <2>3. stack' = << >> /\ own' = own
    BY <1>0, <1>6 DEF Idle, ghosts
  <2> QED
    BY <1>0, <2>1, <2>2, <2>3 DEF Asked
<1>7. CASE Begin(<<Call("free", c)>>, << >>, c)
  BY <1>0, <1>7, KeepsCall
<1>8. CASE /\ h[c].refs # << >> /\ other # {}
           /\ Give(FreeHandle(h, FirstOf(h, c, other)), p, c)
           /\ ret' = 0
           /\ UNCHANGED <<null_context, stack, ghosts>>
  <2> DEFINE x == FirstOf(h, c, other)
             g == FreeHandle(h, x)
             m == Context(p)
             k == _talloc_steal(g, m, c)
  <2>1. /\ x \in Live(h) /\ Handle(h, x) /\ x # c
        /\ Tree(g, n) /\ Rested(g, n) /\ Live(g) = Live(h) \ {x}
        /\ \A d \in Chunk : Same(h, g, d)
    BY <1>3, <1>5, <1>8
  <2>2. p \in Live(h) \cup {NULL} /\ (p # NULL => ~Handle(h, p))
    <3>1. 1 \in DOMAIN h[c].refs /\ Head(h[c].refs) = h[c].refs[1]
      BY <1>1, <1>2, <1>8, HeadRef
    <3> QED
      BY <1>1, <1>2, <3>1, RefFacts
  <2> HIDE DEF x, p
  <2>3. /\ m \in Live(g) \cup {NULL} /\ (m # NULL => ~Handle(g, m))
    <3>1. p # NULL => p \in Live(g) /\ ~Handle(g, p)
      BY <2>1, <2>2 DEF Same, Live
    <3>2. n # NULL => n \in Live(g) /\ ~Handle(g, n)
      BY <2>1 DEF Rested
    <3> QED
      BY <3>1, <3>2 DEF Context
  <2>4. /\ fault' = CASE ~({m, c} \ {NULL} \subseteq Live(g)) -> "stale"
                      [] m \in Subtree(g, c) \ {c} -> "loop"
                      [] OTHER -> "none"
        /\ heap' = IF fault' = "none" THEN _talloc_steal(g, m, c) ELSE g
    BY <1>8 DEF Give, x
  <2> HIDE DEF m, g
  <2>5. c \in Live(g) /\ {m, c} \ {NULL} \subseteq Live(g) /\ c \in Listed(g, NULL)
    BY <1>1, <1>2, <2>1, <2>3 DEF Listed, Rested
  <2>6. stack' = << >> /\ null_context' = n /\ own' = own /\ held' = held /\ spared' = spared
    BY <1>0, <1>8 DEF Idle, ghosts
  <2>7. stack' \in Seq(Frame)
    BY <2>6
  <2>8. CASE m \in Subtree(g, c) \ {c}
    <3>1. fault' = "loop" /\ heap' = g
      BY <2>4, <2>5, <2>8
    <3>2. TreeInv'
      BY <1>1, <1>8, <2>1, <2>6, <2>7, <3>1 DEF TreeInv, Types, StaleOnlyKnown
    <3> QED
      BY <1>0, <2>1, <2>6, <3>1, <3>2 DEF Asked
  <2>9. CASE m \notin Subtree(g, c) \ {c}
    <3>1. fault' = "none" /\ heap' = k
      BY <2>4, <2>5, <2>9
    <3>2. Tree(k, n) /\ OnlyLinks(g, k)
      BY <1>1, <1>2, <2>1, <2>3, <2>5, <2>9, StealTree
    <3> HIDE DEF k
    <3>3. Rested(k, n)
      BY <1>1, <2>1, <3>2 DEF Rested, Live, Handle, OnlyLinks, Ptr
    <3>4. fault = "none"
      BY <1>0 DEF Idle
    <3>5. TreeInv'
      BY <1>0, <1>1, <1>8, <2>6, <3>1, <3>2, <3>3, <3>4, QuietStep DEF ghosts, Idle
    <3>6. Live(heap') = Live(g)
      BY <3>1, <3>2 DEF Live, OnlyLinks
    <3> QED
      BY <1>0, <2>1, <2>6, <3>5, <3>6 DEF Asked
  <2> QED
    BY <2>8, <2>9
<1>9. CASE /\ ret' = -1
           /\ UNCHANGED <<heap, null_context, stack, fault, ghosts>>
  <2>1. TreeInv'
    BY <1>0, <1>1, <1>9, QuietStep
  <2>2. \A d \in Live(heap) : heap'[d].state = "live"
    BY <1>9 DEF Live
  <2> QED
    BY <1>0, <1>9, <2>1, <2>2, QuietAsked
<1> QED
  BY <1>4, <1>6, <1>7, <1>8, <1>9

-----------------------------------------------------------------------------
(* Each action keeps the invariant: _talloc_free() *)

\* A frame runs.
LEMMA RunFacts ==
  ASSUME TreeInv, NEW fns, NEW at, Running(fns, at)
  PROVE  /\ Types /\ Tree(heap, null_context) /\ Stacked(heap, stack, null_context)
         /\ stack \in Seq(Frame) /\ stack # << >> /\ null_context \in Ptr /\ heap \in Heaps
         /\ 1 \in DOMAIN stack /\ Top = stack[1] /\ Top \in Frame /\ Top.tc \in Chunk
         /\ Top.at \in at /\ Top.fn \in fns /\ fault = "none"
<1>1. stack \in Seq(Frame) /\ stack # << >> /\ Types /\ fault = "none"
  BY DEF TreeInv, Types, Running
<1>2. 1 \in DOMAIN stack
  BY <1>1
<1>3. stack[1] \in Frame /\ stack[1].tc \in Chunk
  BY <1>1, <1>2, FrameFacts
<1> QED
  BY <1>1, <1>2, <1>3 DEF TreeInv, Types, Running, Top, Tree

\* The walk up from a live chunk leaves live memory only by way of a chunk that is being freed
\* and whose parent or sibling went: everything else it passes is in a list, or a root.
LEMMA WalkedFacts ==
  ASSUME NEW h \in Heaps, NEW n, Tree(h, n), NEW c \in Live(h),
         \A q \in Walked(h, c) : ~Dangling(h, q)
  PROVE  Walked(h, c) \subseteq Live(h)
<1> DEFINE f == [d \in Chunk |-> h[d].prev]
           A == Ancestors(h, c)
           W == Walked(h, c)
           S == {a \in A : Along(f, a) \subseteq Live(h)}
<1>0. f \in [Chunk -> Ptr] /\ \A d \in Chunk : f[d] = h[d].prev
  BY DEF Heaps, Header
<1>1. W = UNION {Along(f, a) : a \in A} /\ c \in Chunk
  BY DEF Walked, Live
<1>2. PICK par \in [Chunk -> Ptr], pos \in [Chunk -> Nat], rank \in [Chunk -> Nat] :
        Forest(h, NULL, par, pos, rank)
  BY DEF Tree
<1>3. /\ A \in SUBSET Chunk /\ c \in A
      /\ \A d \in A : talloc_parent_chunk(h, d) \in A \cup {NULL}
      /\ \A U \in SUBSET Chunk :
           c \in U /\ (\A d \in U : talloc_parent_chunk(h, d) \in U \cup {NULL}) => A \subseteq U
  BY <1>1, AncestorsFacts
<1> HIDE DEF f, A, W
<1>4. ASSUME NEW a \in A
      PROVE  /\ Along(f, a) \in SUBSET Chunk /\ a \in Along(f, a) /\ Closed(f, Along(f, a))
             /\ \A U \in SUBSET Chunk : a \in U /\ Closed(f, U) => Along(f, a) \subseteq U
             /\ Along(f, a) \subseteq W
  BY <1>0, <1>1, <1>3, AlongFacts
<1>5. ASSUME NEW q \in W \cap Live(h)
      PROVE  {h[q].parent, h[q].prev} \subseteq Live(h) \cup {NULL}
  <2>1. CASE h[q].loop
    BY <2>1 DEF W, Dangling
  <2>2. CASE ~h[q].loop
    <3>1. q \in Listed(h, NULL)
      BY <2>2, TallocAssumption DEF Listed, Live
    <3> QED
      BY <1>2, <3>1 DEF Forest, PrevOK, ParentOK, Listed
  <2> QED
    BY <2>1, <2>2
<1>6. ASSUME NEW a \in A, a \in Live(h) PROVE a \in S
  <2> DEFINE T == Along(f, a) \cap Live(h)
  <2>1. T \in SUBSET Chunk /\ a \in T
    BY <1>4, <1>6
  <2>2. Closed(f, T)
    <3> SUFFICES ASSUME NEW d \in T PROVE f[d] \in T \cup {NULL}
      BY DEF Closed
    <3>1. f[d] \in Along(f, a) \cup {NULL}
      BY <1>4 DEF Closed
    <3>2. f[d] \in Live(h) \cup {NULL}
      BY <1>0, <1>4, <1>5
    <3> QED
      BY <3>1, <3>2
  <2>3. Along(f, a) \subseteq T
    <3> HIDE DEF T
    <3> QED
      BY <1>4, <2>1, <2>2
  <2> QED
    BY <2>3
<1>7. ASSUME NEW a \in S PROVE talloc_parent_chunk(h, a) \in S \cup {NULL}
  <2>1. First(h, a) \in Along(f, a)
    <3> DEFINE P(d) == h[d].prev = NULL \/ \A e \in Along(f, a) : h[e].prev # NULL
    <3>1. First(h, a) = CHOOSE d \in Along(f, a) : P(d)
      BY DEF First, f
    <3>2. \E d \in Along(f, a) : P(d)
      BY <1>4
    <3> HIDE DEF P
    <3> QED
      BY <3>1, <3>2, Zenon
  <2>2. talloc_parent_chunk(h, a) \in Live(h) \cup {NULL}
    BY <1>4, <1>5, <2>1 DEF talloc_parent_chunk
  <2>3. talloc_parent_chunk(h, a) \in A \cup {NULL}
    BY <1>3
  <2> HIDE DEF S
  <2> QED
    BY <1>6, <2>2, <2>3
<1>8. c \in S /\ S \in SUBSET Chunk
  BY <1>3, <1>6
<1>9. A \subseteq S
  <2> HIDE DEF S
  <2> QED
    BY <1>3, <1>7, <1>8
<1> QED
  BY <1>1, <1>9 DEF W

\* talloc_free() of a chunk with references drops the first and returns -1 or, if that was from
\* below the chunk, tries again.
LEMMA KeepsDropReference ==
  ASSUME TreeInv, DropReference
  PROVE  TreeInv' /\ Ran
<1> DEFINE h == heap
           n == null_context
           t == Top.tc
           x == Head(h[t].refs)
           g == FreeHandle(h, x)
<1>0. /\ Running({"free"}, {"entry"}) /\ h[t].refs # << >> /\ n' = n
      /\ \/ heap' = g /\ UNCHANGED <<stack, ret, fault, ghosts>>
         \/ /\ ~(Walked(h, x) \subseteq Live(h))
            /\ fault' = "stale" /\ UNCHANGED <<heap, stack, ret, ghosts>>
         \/ Return(g, -1)
  BY DEF DropReference
<1>1. /\ Types /\ Tree(h, n) /\ Stacked(h, stack, n)
      /\ stack \in Seq(Frame) /\ stack # << >> /\ n \in Ptr /\ h \in Heaps
      /\ 1 \in DOMAIN stack /\ Top = stack[1] /\ Top \in Frame /\ t \in Chunk
      /\ Top.at = "entry" /\ Top.fn = "free" /\ fault = "none"
  BY <1>0, RunFacts
<1>2. t \in Live(h)
  BY <1>1 DEF Stacked, CalledOK
<1>3. x \in Live(h) /\ Handle(h, x) /\ x # t /\ ~Handle(h, t) /\ h[x].ptr = t
  <2>1. 1 \in DOMAIN h[t].refs /\ x = h[t].refs[1]
    BY <1>0, <1>1, HeadRef
  <2> QED
    BY <1>1, <1>2, <2>1, RefFacts
<1>4. ~h[t].loop /\ ~Active(stack, 1)
  <2>1. \A i \in DOMAIN stack : Active(stack, i) => h[stack[i].tc].refs = << >>
    BY <1>1 DEF Stacked, ActiveOK
  <2>2. ~h[t].loop
    BY <1>0, <1>1, <2>1 DEF Stacked, ActiveOK
  <2> QED
    BY <1>1, <2>2 DEF Active
<1> HIDE DEF x
<1>5. Tree(g, n) /\ Live(g) = Live(h) \ {x} /\ KeptParents(h, g, NULL)
  BY <1>1, <1>3, FreeHandleTree
<1>6. \A d \in Chunk : Same(h, g, d)
  BY <1>1, <1>3, FreeHandleSame
<1> HIDE DEF g
<1>9. Trimmed(h, g, t)
  BY <1>3, <1>5 DEF Trimmed
<1>7. CASE heap' = g /\ UNCHANGED <<stack, ret, fault, ghosts>>
  <2>1. \A i \in DOMAIN stack :
          stack[i].at = "entry" \/ (stack[i].fn = "free_children" /\ stack[i].at = "kids")
           => stack[i].tc \in Live(g)
    <3> SUFFICES ASSUME NEW i \in DOMAIN stack,
                        stack[i].at = "entry" \/ (stack[i].fn = "free_children" /\ stack[i].at = "kids")
                 PROVE  stack[i].tc \in Live(g)
      OBVIOUS
    <3>1. i = 1
      BY <1>1 DEF Stacked, FrameOK
    <3> QED
      BY <1>1, <1>2, <1>3, <1>5, <3>1
  <2>2. Stacked(g, stack, n)
    BY <1>1, <1>6, <2>1, SameStacked
  <2>3. TreeInv'
    BY <1>0, <1>1, <1>5, <1>7, <2>2 DEF TreeInv, Types, StaleOnlyKnown, ghosts
  <2>4. Ran
    <3>1. \A d \in Chunk : d # Top.tc => heap'[d].loop = heap[d].loop
      BY <1>6, <1>7 DEF Same
    <3>2. stack' # << >> /\ About(stack') = About(stack) /\ UNCHANGED ghosts
      BY <1>1, <1>7
    <3>3. Trimmed(heap, heap', Top.tc)
      BY <1>7, <1>9
    <3> QED
      BY <1>1, <3>1, <3>2, <3>3, GoingOn
  <2> QED
    BY <2>3, <2>4
<1>8. CASE Return(g, -1)
  <2>1. t \in Listed(g, NULL)
    <3>1. g[t].loop = h[t].loop
      BY <1>1, <1>6 DEF Same
    <3> QED
      BY <1>1, <1>2, <1>3, <1>4, <1>5, <3>1, TallocAssumption DEF Listed
  <2>2. Left(h, g, stack)
    BY <1>4, <1>6 DEF Left
  <2>3. TreeInv' /\ Live(heap') = Live(g) /\ (fault' = "none" => Shifted(g, heap', Top.tc))
    BY <1>0, <1>1, <1>5, <1>8, <2>1, <2>2, Returned
  <2>4. t \in Live(g)
    BY <2>1 DEF Listed
  <2> QED
    BY <1>1, <1>8, <1>9, <2>2, <2>3, <2>4, Ending
<1>10. CASE /\ ~(Walked(h, x) \subseteq Live(h))
            /\ fault' = "stale" /\ UNCHANGED <<heap, stack, ret, ghosts>>
  <2>1. \E q \in Walked(h, x) : Dangling(h, q)
    BY <1>1, <1>3, <1>10, WalkedFacts
  <2>2. StaleOnlyKnown'
    <3>1. heap' = h /\ Top' = Top
      BY <1>10 DEF Top
    <3> QED
      BY <1>0, <1>1, <2>1, <3>1 DEF StaleOnlyKnown, x
  <2>3. TreeInv'
    BY <1>0, <1>1, <1>10, <2>2 DEF TreeInv, Types, ghosts
  <2>4. Ran
    <3>1. stack' # << >> /\ About(stack') = About(stack) /\ UNCHANGED ghosts
      BY <1>1, <1>10
    <3>2. Trimmed(heap, heap', Top.tc)
      BY <1>10, TrimmedSelf
    <3> QED
      BY <1>1, <1>10, <3>1, <3>2, GoingOn
  <2> QED
    BY <2>3, <2>4
<1> QED
  BY <1>0, <1>7, <1>8, <1>10

\* talloc_free() of a chunk that is being freed returns at once,
LEMMA KeepsLooping ==
  ASSUME TreeInv, Looping
  PROVE  TreeInv' /\ Ran
<1>0. Running({"free"}, {"entry"}) /\ null_context' = null_context /\ Return(heap, 0)
      /\ heap[Top.tc].loop
  BY DEF Looping
<1>1. /\ Types /\ Tree(heap, null_context) /\ Stacked(heap, stack, null_context)
      /\ stack # << >> /\ Top = stack[1] /\ Top.at = "entry" /\ Top.fn = "free"
      /\ Top.tc \in Chunk
  BY <1>0, RunFacts
<1>2. Left(heap, heap, stack)
  BY <1>1, SameSelf DEF Left, Active
<1>3. TreeInv' /\ Live(heap') = Live(heap) /\ (fault' = "none" => Shifted(heap, heap', Top.tc))
  BY <1>0, <1>1, <1>2, Returned
<1>4. \E i \in DOMAIN stack : i # 1 /\ stack[i].tc = Top.tc
  <2>1. PICK i \in DOMAIN stack : Active(stack, i) /\ stack[i].tc = Top.tc
    BY <1>0, <1>1 DEF Stacked, ActiveOK
  <2> QED
    BY <1>1, <2>1 DEF Active
<1> QED
  BY <1>0, <1>1, <1>2, <1>3, <1>4, TrimmedSelf, Ending

\* and so does talloc_free() of one whose destructor runs.
LEMMA KeepsBusy ==
  ASSUME TreeInv, Busy
  PROVE  TreeInv' /\ Ran
<1>0. Running({"free"}, {"entry"}) /\ null_context' = null_context /\ Return(heap, -1)
      /\ ~heap[Top.tc].loop
  BY DEF Busy
<1>1. /\ Types /\ Tree(heap, null_context) /\ Stacked(heap, stack, null_context)
      /\ stack # << >> /\ Top = stack[1] /\ Top.at = "entry" /\ Top.fn = "free"
      /\ 1 \in DOMAIN stack /\ Top.tc \in Chunk
  BY <1>0, RunFacts
<1>2. Left(heap, heap, stack)
  BY <1>1, SameSelf DEF Left, Active
<1>3. Top.tc \in Listed(heap, NULL)
  BY <1>0, <1>1, TallocAssumption DEF Listed, Stacked, CalledOK
<1>4. TreeInv' /\ Live(heap') = Live(heap) /\ (fault' = "none" => Shifted(heap, heap', Top.tc))
  BY <1>0, <1>1, <1>2, <1>3, Returned
<1>5. Top.tc \in Live(heap)
  BY <1>3 DEF Listed
<1> QED
  BY <1>0, <1>1, <1>2, <1>4, <1>5, TrimmedSelf, Ending

\* The destructor refuses: it is put back, and the call returns -1.
LEMMA KeepsRefused ==
  ASSUME TreeInv, DestructorRefuses
  PROVE  TreeInv' /\ Ran
<1> DEFINE h == heap
           n == null_context
           t == Top.tc
           g == Marked(h, t, "user")
<1>0. Running({"free"}, {"destructor", "destructor2"}) /\ n' = n /\ Return(g, -1)
  BY DEF DestructorRefuses, Marked
<1>1. /\ Types /\ Tree(h, n) /\ Stacked(h, stack, n)
      /\ stack \in Seq(Frame) /\ stack # << >> /\ n \in Ptr /\ h \in Heaps
      /\ 1 \in DOMAIN stack /\ Top = stack[1] /\ Top \in Frame /\ t \in Chunk
      /\ Top.at \in {"destructor", "destructor2"} /\ Top.fn = "free"
  BY <1>0, RunFacts
<1>2. Active(stack, 1) /\ ~Freeing(stack, 1)
  BY <1>1 DEF Active, Freeing
<1>3. t \in Live(h) /\ ~Handle(h, t) /\ ~h[t].loop
  BY <1>1, <1>2 DEF Stacked, ActiveOK
<1>4. /\ Tree(g, n) /\ g[t].destructor = "user" /\ KeptParents(h, g, NULL)
      /\ \A d \in Chunk : d # t => g[d] = h[d]
      /\ \A d \in Chunk : g[d].state = h[d].state /\ g[d].loop = h[d].loop
  BY <1>1, <1>3, MarkTree
<1> HIDE DEF g
<1>5. Left(h, g, stack)
  <2>1. \A d \in Chunk : d # t => Same(h, g, d)
    BY <1>4, SameSelf
  <2> QED
    BY <1>1, <1>2, <1>3, <1>4, <2>1 DEF Left, Live
<1>6. t \in Listed(g, NULL)
  BY <1>1, <1>3, <1>4, TallocAssumption DEF Listed, Live
<1>7. TreeInv' /\ Live(heap') = Live(g) /\ (fault' = "none" => Shifted(g, heap', Top.tc))
  BY <1>0, <1>1, <1>4, <1>5, <1>6, Returned
<1>8. Live(g) = Live(h)
  BY <1>4 DEF Live
<1>9. Trimmed(h, g, t)
  BY <1>4, <1>8 DEF Trimmed
<1> QED
  BY <1>0, <1>1, <1>3, <1>5, <1>7, <1>8, <1>9, Ending

\* talloc_free() of a handle runs talloc_reference_destructor().
LEMMA KeepsFreeReference ==
  ASSUME TreeInv, FreeReference
  PROVE  TreeInv' /\ Ran
<1> DEFINE h == heap
           n == null_context
           t == Top.tc
           g == FreeHandle(h, t)
<1>0. Running({"free"}, {"entry"}) /\ Handle(h, t) /\ n' = n /\ Return(g, 0)
  BY DEF FreeReference
<1>1. /\ Types /\ Tree(h, n) /\ Stacked(h, stack, n)
      /\ stack \in Seq(Frame) /\ stack # << >> /\ n \in Ptr /\ h \in Heaps
      /\ 1 \in DOMAIN stack /\ Top = stack[1] /\ Top \in Frame /\ t \in Chunk
      /\ Top.at = "entry" /\ Top.fn = "free"
  BY <1>0, RunFacts
<1>2. t \in Live(h)
  BY <1>1 DEF Stacked, CalledOK
<1>3. Tree(g, n) /\ Live(g) = Live(h) \ {t} /\ KeptParents(h, g, NULL)
  BY <1>0, <1>1, <1>2, FreeHandleTree
<1>4. \A d \in Chunk : Same(h, g, d)
  BY <1>0, <1>1, <1>2, FreeHandleSame
<1> HIDE DEF g
<1>5. Left(h, g, stack)
  BY <1>1, <1>4 DEF Left, Active
<1>6. TreeInv' /\ Live(heap') = Live(g) /\ (fault' = "none" => Shifted(g, heap', Top.tc))
  BY <1>0, <1>1, <1>3, <1>5, Returned
<1>7. Trimmed(h, g, t) /\ t \notin Live(g)
  BY <1>3 DEF Trimmed
<1> QED
  BY <1>0, <1>1, <1>5, <1>6, <1>7, Ending

\* No children are left: the chunk is gone, or talloc_free_children() returns.
LEMMA KeepsKidsDone ==
  ASSUME TreeInv, KidsDone
  PROVE  TreeInv' /\ Ran
<1> DEFINE h == heap
           n == null_context
           t == Top.tc
           g == Emptied(h, t)
<1>0. /\ Running({"free", "free_children"}, {"kids"}) /\ h[t].child = NULL /\ n' = n
      /\ Top.fn = "free" => Return(g, 0)
      /\ Top.fn # "free" => Return(h, 0)
  BY DEF KidsDone, Emptied
<1>1. /\ Types /\ Tree(h, n) /\ Stacked(h, stack, n)
      /\ stack \in Seq(Frame) /\ stack # << >> /\ n \in Ptr /\ h \in Heaps
      /\ 1 \in DOMAIN stack /\ Top = stack[1] /\ Top \in Frame /\ t \in Chunk
      /\ Top.at = "kids" /\ Top.fn \in {"free", "free_children"}
  BY <1>0, RunFacts
<1>2. CASE Top.fn = "free"
  <2>1. Active(stack, 1) /\ Freeing(stack, 1)
    BY <1>1, <1>2 DEF Active, Freeing
  <2>2. t \in Live(h) /\ ~Handle(h, t) /\ h[t].loop /\ h[t].refs = << >>
    BY <1>1, <2>1 DEF Stacked, ActiveOK
  <2>3. /\ Tree(g, n) /\ g[t] = Freed /\ Live(g) = Live(h) \ {t} /\ KeptParents(h, g, NULL)
        /\ \A d \in Chunk : d # t => g[d] = h[d]
    BY <1>0, <1>1, <2>2, FreedTree
  <2>4. Return(g, 0)
    BY <1>0, <1>2
  <2> HIDE DEF g
  <2>5. Left(h, g, stack)
    <3>1. \A d \in Chunk : d # t => Same(h, g, d)
      BY <2>3, SameSelf
    <3>2. Freed.loop = FALSE /\ Freed.destructor = "none" /\ Freed.state = "freed"
      BY DEF Freed, Unused
    <3>3. ~g[t].loop /\ g[t].destructor \notin {"busy", "reference"} /\ g[t].state # "unused"
      <4> HIDE DEF t
      <4> QED
        BY <2>3, <3>2
    <3>4. stack[1].tc = t
      BY <1>1
    <3> HIDE DEF t
    <3> QED
      BY <2>1, <3>1, <3>3, <3>4 DEF Left
  <2>6. TreeInv' /\ Live(heap') = Live(g) /\ (fault' = "none" => Shifted(g, heap', Top.tc))
    BY <1>0, <1>1, <2>3, <2>4, <2>5, Returned
  <2>7. Trimmed(h, g, t) /\ t \notin Live(g)
    BY <2>3 DEF Trimmed
  <2> QED
    BY <1>1, <2>4, <2>5, <2>6, <2>7, Ending
<1>3. CASE Top.fn # "free"
  <2>1. Left(h, h, stack)
    BY <1>1, <1>3, SameSelf DEF Left, Active
  <2>2. TreeInv' /\ Live(heap') = Live(h) /\ (fault' = "none" => Shifted(h, heap', Top.tc))
    BY <1>0, <1>1, <1>3, <2>1, Returned
  <2> QED
    BY <1>0, <1>1, <1>3, <2>1, <2>2, TrimmedSelf, Ending
<1> QED
  BY <1>2, <1>3

\* A chunk that is in its list and is not marked is about no frame but the innermost.
LEMMA OnlyTop ==
  ASSUME NEW h, NEW s \in Seq(Frame), NEW n, Stacked(h, s, n), 1 \in DOMAIN s, s[1].fn = "free",
         \/ s[1].at \in {"destructor", "destructor2"}
         \/ ~h[s[1].tc].loop /\ h[s[1].tc].destructor # "busy"
  PROVE  \A i \in DOMAIN s : i # 1 /\ Active(s, i) => s[i].tc # s[1].tc
<1>1. CASE s[1].at \in {"destructor", "destructor2"}
  <2>1. Active(s, 1)
    BY <1>1 DEF Active
  <2> QED
    BY <2>1 DEF Stacked, ActiveOK
<1>2. CASE ~h[s[1].tc].loop /\ h[s[1].tc].destructor # "busy"
  BY <1>2 DEF Stacked, ActiveOK
<1> QED
  BY <1>1, <1>2

\* Another place in the innermost call, and the calls are about what they were about.
LEMMA GotoAbout ==
  ASSUME NEW s \in Seq(Frame), s # << >>, NEW at
  PROVE  LET q == [s EXCEPT ![1].at = at] IN q # << >> /\ About(q) = About(s)
<1> DEFINE q == [s EXCEPT ![1].at = at]
<1>1. 1 \in DOMAIN s /\ s[1] \in Frame
  OBVIOUS
<1>2. DOMAIN q = DOMAIN s /\ \A i \in DOMAIN s : q[i].tc = s[i].tc
  BY <1>1 DEF Frame
<1> HIDE DEF q
<1>3. q # << >>
  BY <1>1, <1>2
<1>4. About(q) = About(s)
  BY <1>2 DEF About
<1> QED
  BY <1>3, <1>4 DEF q

\* talloc_free() calls the destructor of the chunk.
LEMMA KeepsCallDestructor ==
  ASSUME TreeInv, CallDestructor
  PROVE  TreeInv' /\ Ran
<1> DEFINE h == heap
           n == null_context
           s == stack
           t == Top.tc
           g == Marked(h, t, "busy")
           q == [s EXCEPT ![1].at = "destructor"]
<1>0. /\ Running({"free"}, {"entry"}) /\ h[t].refs = << >> /\ ~h[t].loop /\ h[t].destructor = "user"
      /\ heap' = g /\ stack' = q
      /\ n' = n /\ UNCHANGED <<ret, fault, ghosts>>
  BY DEF CallDestructor, Marked, Goto
<1>1. /\ Types /\ Tree(h, n) /\ Stacked(h, s, n)
      /\ s \in Seq(Frame) /\ s # << >> /\ n \in Ptr /\ h \in Heaps
      /\ 1 \in DOMAIN s /\ Top = s[1] /\ Top \in Frame /\ t \in Chunk
      /\ Top.at = "entry" /\ Top.fn = "free" /\ fault = "none"
  BY <1>0, RunFacts
<1>2. t \in Live(h) /\ ~Handle(h, t)
  BY <1>0, <1>1 DEF Stacked, CalledOK, Handle
<1>3. /\ Tree(g, n) /\ g[t].destructor = "busy" /\ KeptParents(h, g, NULL)
      /\ \A d \in Chunk : d # t => g[d] = h[d]
      /\ \A d \in Chunk : g[d].state = h[d].state /\ g[d].loop = h[d].loop /\ g[d].refs = h[d].refs
  BY <1>1, <1>2, MarkTree
<1> HIDE DEF g
<1>4. \A d \in Chunk : d # s[1].tc => Same(h, g, d)
  BY <1>1, <1>3, SameSelf
<1>5. \A i \in DOMAIN s : i # 1 /\ Active(s, i) => s[i].tc # s[1].tc
  BY <1>0, <1>1, OnlyTop
<1>6. /\ s[1].tc \in Live(g) /\ g[s[1].tc].refs = << >> /\ ~Handle(g, s[1].tc)
      /\ ~g[s[1].tc].loop /\ g[s[1].tc].destructor = "busy"
  BY <1>0, <1>1, <1>2, <1>3 DEF Live, Handle
<1>7. q \in Seq(Frame) /\ Stacked(g, q, n)
  BY <1>1, <1>4, <1>5, <1>6, GotoStacked
<1>8. TreeInv'
  BY <1>0, <1>1, <1>3, <1>7 DEF TreeInv, Types, StaleOnlyKnown, ghosts
<1>9. stack' # << >> /\ About(stack') = About(s)
  BY <1>0, <1>1, GotoAbout
<1> HIDE DEF q
<1>10. Trimmed(h, g, t)
  BY <1>3 DEF Trimmed, Live
<1> QED
  BY <1>0, <1>1, <1>3, <1>8, <1>9, <1>10, GoingOn

\* talloc_free() goes on to the children: the chunk is taken out of its list and marked
\* (DestructorAgrees and NoDestructor).
LEMMA KeepsCondemned ==
  ASSUME TreeInv, Running({"free"}, {"entry", "destructor", "destructor2"}),
         Top.at = "entry" => /\ heap[Top.tc].refs = << >> /\ ~heap[Top.tc].loop
                             /\ heap[Top.tc].destructor = "none",
         heap' = Condemned(heap, Top.tc), Goto("kids"),
         UNCHANGED <<null_context, ret, fault, ghosts>>
  PROVE  TreeInv' /\ Ran
<1> DEFINE h == heap
           n == null_context
           s == stack
           t == Top.tc
           g == Condemned(h, t)
           q == [s EXCEPT ![1].at = "kids"]
<1>1. /\ Types /\ Tree(h, n) /\ Stacked(h, s, n)
      /\ s \in Seq(Frame) /\ s # << >> /\ n \in Ptr /\ h \in Heaps
      /\ 1 \in DOMAIN s /\ Top = s[1] /\ Top \in Frame /\ t \in Chunk
      /\ Top.at \in {"entry", "destructor", "destructor2"} /\ Top.fn = "free" /\ fault = "none"
  BY RunFacts
<1>2. t \in Live(h) /\ ~Handle(h, t) /\ ~h[t].loop /\ h[t].refs = << >>
  <2>1. CASE Top.at = "entry"
    BY <1>1, <2>1 DEF Stacked, CalledOK, Handle
  <2>2. CASE Top.at # "entry"
    <3>1. Active(s, 1) /\ ~Freeing(s, 1)
      BY <1>1, <2>2 DEF Active, Freeing
    <3> QED
      BY <1>1, <3>1 DEF Stacked, ActiveOK
  <2> QED
    BY <2>1, <2>2
<1>3. t \in Listed(h, NULL) /\ t # NULL
  BY <1>1, <1>2, TallocAssumption DEF Listed
<1>4. /\ Tree(g, n) /\ g[t].loop = TRUE /\ g[t].destructor = "none" /\ KeptParents(h, g, NULL)
      /\ g[t].prev = h[t].prev
      /\ \A d \in Chunk : g[d].state = h[d].state /\ g[d].refs = h[d].refs
      /\ \A d \in Chunk : d # t => g[d].loop = h[d].loop /\ g[d].destructor = h[d].destructor
      /\ \A d \in Chunk \ Listed(h, NULL) : g[d].prev = h[d].prev
  BY <1>1, <1>2, <1>3, CondemnTree
<1> HIDE DEF g
<1>5. \A d \in Chunk : d # s[1].tc => Same(h, g, d)
  <2>1. \A d \in Chunk : h[d].loop => d \notin Listed(h, NULL)
    BY DEF Listed
  <2> QED
    BY <1>1, <1>4, <2>1 DEF Same, Handle
<1>6. \A i \in DOMAIN s : i # 1 /\ Active(s, i) => s[i].tc # s[1].tc
  <2>1. s[1].fn = "free" /\ (\/ s[1].at \in {"destructor", "destructor2"}
                             \/ ~h[s[1].tc].loop /\ h[s[1].tc].destructor # "busy")
    BY <1>1
  <2> QED
    BY <1>1, <2>1, OnlyTop
<1>7. s[1].tc \in Live(g) /\ g[s[1].tc].refs = << >> /\ ~Handle(g, s[1].tc) /\ g[s[1].tc].loop
  BY <1>1, <1>2, <1>4 DEF Live, Handle
<1>8. \A i \in DOMAIN s : i = 1 \/ Freeing(s, i) => g[s[1].tc].prev # s[i].tc
  <2>1. PICK par \in [Chunk -> Ptr], pos \in [Chunk -> Nat], rank \in [Chunk -> Nat] :
          Forest(h, NULL, par, pos, rank)
    BY <1>1 DEF Tree
  <2>2. h[t].prev # NULL => h[t].prev \in Listed(h, NULL) /\ h[h[t].prev].next = t
    BY <1>3, <2>1 DEF Forest, PrevOK
  <2>3. h[t].prev # t
    <3> SUFFICES ASSUME h[t].prev = t PROVE FALSE
      OBVIOUS
    <3>1. h[t].next = t
      BY <1>3, <2>2
    <3>2. pos[t] < pos[t] /\ pos[t] \in Nat
      BY <1>1, <1>3, <2>1, <3>1 DEF Forest, NextOK
    <3> QED
      BY <3>2
  <2>4. \A i \in DOMAIN s : Freeing(s, i) => h[s[i].tc].loop /\ s[i].tc \in Chunk
    BY <1>1, FrameFacts DEF Stacked, ActiveOK, Active, Freeing
  <2>5. \A i \in DOMAIN s : Freeing(s, i) => h[t].prev # s[i].tc
    BY <2>2, <2>4, TallocAssumption DEF Listed
  <2> QED
    BY <1>1, <1>4, <2>3, <2>5
<1>9. q \in Seq(Frame) /\ Stacked(g, q, n)
  <2>1. "kids" \in {"destructor", "kids"} /\ (g[s[1].tc].loop <=> "kids" = "kids")
        /\ ("kids" = "destructor" => g[s[1].tc].destructor = "busy")
    BY <1>7
  <2> QED
    BY <1>1, <1>5, <1>6, <1>7, <1>8, <2>1, GotoStacked
<1>10. heap' = g /\ stack' = q
  BY DEF Goto, g
<1>11. TreeInv'
  BY <1>1, <1>4, <1>9, <1>10 DEF TreeInv, Types, StaleOnlyKnown, ghosts
<1>12. stack' # << >> /\ About(stack') = About(s)
  BY <1>1, <1>10, GotoAbout
<1> HIDE DEF q
<1>13. Trimmed(h, g, t)
  BY <1>4 DEF Trimmed, Live
<1>14. UNCHANGED ghosts
  OBVIOUS
<1> QED
  BY <1>1, <1>4, <1>10, <1>11, <1>12, <1>13, <1>14, GoingOn

\* A call goes on to a child of its chunk.
Descends ==
  /\ heap' = heap /\ fault' = "none" /\ stack' # << >> /\ own' = own /\ spared' = spared
  /\ \E k \in Listed(heap, NULL) :
       talloc_parent_chunk(heap, k) = Top.tc /\ About(stack') = About(stack) \cup {k}

\* One more frame on top, and the calls are about one more chunk.
LEMMA PushAbout ==
  ASSUME NEW s \in Seq(Frame), s # << >>, NEW q \in Seq(Frame), Len(q) = Len(s) + 1,
         q[2].tc = s[1].tc, \A i \in DOMAIN q : i > 2 => q[i] = s[i - 1]
  PROVE  q # << >> /\ About(q) = About(s) \cup {q[1].tc}
<1>1. /\ Len(s) \in Nat /\ Len(s) >= 1 /\ DOMAIN s = 1..Len(s) /\ DOMAIN q = 1..(Len(s) + 1)
      /\ 1 \in DOMAIN q /\ 1 \in DOMAIN s /\ 2 \in DOMAIN q
  OBVIOUS
<1>2. ASSUME NEW i \in DOMAIN q PROVE q[i].tc \in About(s) \cup {q[1].tc}
  <2>1. CASE i = 1
    BY <2>1
  <2>2. CASE i = 2
    BY <1>1, <2>2, Zenon DEF About
  <2>3. CASE i > 2
    <3>1. i - 1 \in DOMAIN s /\ q[i] = s[i - 1]
      BY <1>1, <2>3
    <3> QED
      BY <3>1, Zenon DEF About
  <2> QED
    BY <1>1, <2>1, <2>2, <2>3
<1>3. ASSUME NEW i \in DOMAIN s PROVE s[i].tc \in About(q)
  <2>1. CASE i = 1
    BY <1>1, <2>1, Zenon DEF About
  <2>2. CASE i > 1
    <3>1. i + 1 \in DOMAIN q /\ i + 1 > 2 /\ (i + 1) - 1 = i
      BY <1>1, <2>2
    <3>2. q[i + 1] = s[i]
      BY <3>1
    <3> QED
      BY <3>1, <3>2, Zenon DEF About
  <2> QED
    BY <1>1, <2>1, <2>2
<1>4. q[1].tc \in About(q)
  BY <1>1, Zenon DEF About
<1>5. q # << >>
  BY <1>1
<1> QED
  BY <1>2, <1>3, <1>4, <1>5 DEF About

\* talloc_free() of the first child is called, the owner it would go to having been chosen.
LEMMA KeepsFreeKid ==
  ASSUME TreeInv, FreeKid
  PROVE  TreeInv' /\ Descends
<1> DEFINE h == heap
           n == null_context
           s == stack
           t == Top.tc
           k == h[t].child
           p == talloc_parent_chunk(h, Head(h[k].refs))
           new == IF h[k].refs # << >> /\ p # NULL THEN p ELSE n
           f == [s[1] EXCEPT !.at = "kid", !.new = new]
           r == [s EXCEPT ![1] = f]
           q == <<Call("free", k)>> \o r
<1>0. /\ Running({"free", "free_children"}, {"kids"}) /\ k # NULL /\ n' = n
      /\ stack' = <<Call("free", k)>> \o [s EXCEPT ![1].at = "kid", ![1].new = new]
      /\ UNCHANGED <<heap, ret, fault, ghosts>>
  BY DEF FreeKid
<1>1. /\ Types /\ Tree(h, n) /\ Stacked(h, s, n)
      /\ s \in Seq(Frame) /\ s # << >> /\ n \in Ptr /\ h \in Heaps
      /\ 1 \in DOMAIN s /\ Top = s[1] /\ Top \in Frame /\ t \in Chunk
      /\ Top.at = "kids" /\ Top.fn \in {"free", "free_children"} /\ fault = "none"
      /\ NULL \notin Chunk
  BY <1>0, RunFacts, TallocAssumption, SMTT(30)
<1>2. t \in Live(h)
  <2>1. CASE Top.fn = "free"
    <3>1. Active(s, 1)
      BY <1>1, <2>1 DEF Active
    <3> QED
      BY <1>1, <3>1 DEF Stacked, ActiveOK
  <2>2. CASE Top.fn = "free_children"
    BY <1>1, <2>2 DEF Stacked, CalledOK
  <2> QED
    BY <1>1, <2>1, <2>2
<1>3. /\ k \in Live(h) /\ k # n /\ k \in Chunk
      /\ k \in Listed(h, NULL) /\ talloc_parent_chunk(h, k) = t
  <2>1. PICK par \in [Chunk -> Ptr], pos \in [Chunk -> Nat], rank \in [Chunk -> Nat] :
          Forest(h, NULL, par, pos, rank) /\ (n # NULL => par[n] = NULL)
    BY <1>1 DEF Tree
  <2>2. k \in Listed(h, NULL) /\ h[k].parent = t /\ h[k].prev = NULL
    BY <1>0, <1>2, <2>1 DEF Forest, ChildOK
  <2>3. par[k] = t
    BY <2>1, <2>2 DEF Forest, ParentOK
  <2>4. talloc_parent_chunk(h, k) = t
    <3>1. k \in Chunk
      BY <2>2 DEF Listed, Live
    <3> QED
      BY <1>1, <2>2, <3>1, FirstFacts DEF talloc_parent_chunk
  <2> QED
    BY <1>0, <1>1, <2>1, <2>2, <2>3, <2>4 DEF Listed, Live
<1>4. new \in Ptr /\ (new # NULL => ~Handle(h, new))
  <2>1. n # NULL => ~Handle(h, n)
    BY <1>1 DEF Stacked, NullOK
  <2>2. ASSUME h[k].refs # << >>, p # NULL
        PROVE  p \in Ptr /\ ~Handle(h, p)
    <3>1. 1 \in DOMAIN h[k].refs /\ Head(h[k].refs) = h[k].refs[1]
      BY <1>1, <1>3, <2>2, HeadRef
    <3>2. p \in Live(h) \cup {NULL} /\ ~Handle(h, p)
      BY <1>1, <1>3, <2>2, <3>1, RefFacts, SMTT(30)
    <3> QED
      BY <3>2 DEF Live, Ptr
  <2> HIDE DEF p
  <2> QED
    BY <1>1, <2>1, <2>2
<1> HIDE DEF new, k
<1>5. /\ f \in Frame /\ f.fn = s[1].fn /\ f.tc = s[1].tc /\ f.at = "kid" /\ f.new = new
  BY <1>1, <1>4 DEF Frame
<1>6. [s EXCEPT ![1].at = "kid", ![1].new = new] = r
  BY <1>1
<1> HIDE DEF f, r
<1>7. /\ r \in Seq(Frame) /\ Len(r) = Len(s) /\ r[1] = f /\ \A i \in DOMAIN s : i # 1 => r[i] = s[i]
  BY <1>1, <1>5 DEF r
<1>8. Call("free", k) \in Frame
  BY <1>3 DEF Call, Frame, Ptr
<1>9. /\ q \in Seq(Frame) /\ Len(q) = Len(s) + 1 /\ q[1] = Call("free", k) /\ q[2] = f
      /\ \A i \in DOMAIN q : i > 2 => q[i] = s[i - 1]
  <2>1. <<Call("free", k)>> \in Seq(Frame) /\ Len(<<Call("free", k)>>) = 1
        /\ <<Call("free", k)>>[1] = Call("free", k)
    BY <1>8
  <2> DEFINE b == <<Call("free", k)>>
  <2> HIDE DEF b
  <2>2. b \in Seq(Frame) /\ Len(b) = 1 /\ b[1] = Call("free", k) /\ q = b \o r
    BY <2>1 DEF b
  <2> HIDE DEF q
  <2>3. /\ q \in Seq(Frame) /\ Len(q) = Len(s) + 1 /\ Len(s) \in Nat /\ Len(s) >= 1
        /\ DOMAIN q = 1..Len(q) /\ DOMAIN s = 1..Len(s)
    <3>1. q \in Seq(Frame) /\ Len(q) = Len(b) + Len(r)
      BY <1>7, <2>2, ConcatProperties
    <3>2. Len(s) \in Nat /\ Len(s) >= 1 /\ DOMAIN s = 1..Len(s)
      BY <1>1
    <3>3. Len(q) = Len(s) + 1
      BY <1>7, <2>2, <3>1, <3>2
    <3> QED
      BY <3>1, <3>2, <3>3
  <2>4. \A i \in 1..(Len(s) + 1) : q[i] = IF i <= 1 THEN b[i] ELSE r[i - 1]
    BY <1>7, <2>2, <2>3, ConcatProperties
  <2>5. q[1] = b[1] /\ q[2] = r[1]
    BY <2>3, <2>4
  <2>6. ASSUME NEW i \in DOMAIN q, i > 2 PROVE q[i] = s[i - 1]
    <3>1. i \in 1..(Len(s) + 1) /\ ~(i <= 1) /\ i - 1 \in DOMAIN s /\ i - 1 # 1
      BY <2>3, <2>6
    <3> QED
      BY <1>7, <2>4, <3>1
  <2> QED
    BY <1>7, <2>2, <2>3, <2>5, <2>6
<1>10. stack' = q
  BY <1>0, <1>6
<1> HIDE DEF q
<1>11. Stacked(h, q, n)
  <2>1. s[1].fn # "untrack" /\ s[1].at = "kids"
    BY <1>1
  <2>2. f.new # NULL => ~Handle(h, f.new)
    BY <1>4, <1>5
  <2> QED
    BY <1>1, <1>3, <1>5, <1>9, <2>1, <2>2, PushStacked
<1>12. TreeInv'
  BY <1>0, <1>1, <1>9, <1>10, <1>11 DEF TreeInv, Types, StaleOnlyKnown, ghosts
<1>13. stack' # << >> /\ About(stack') = About(s) \cup {k}
  <2>1. q[1].tc = k /\ q[2].tc = s[1].tc
    BY <1>5, <1>9 DEF Call
  <2>2. q # << >> /\ About(q) = About(s) \cup {q[1].tc}
    BY <1>1, <1>9, <2>1, PushAbout
  <2> QED
    BY <1>10, <2>1, <2>2
<1>14. heap' = h /\ fault' = "none" /\ own' = own /\ spared' = spared
  BY <1>0, <1>1 DEF ghosts
<1> QED
  BY <1>3, <1>12, <1>13, <1>14 DEF Descends

\* A destructor calls talloc_free() itself.
LEMMA KeepsNested ==
  ASSUME TreeInv, NEW c \in Mine, Nested(c)
  PROVE  TreeInv' /\ Begins(c)
<1> DEFINE h == heap
           n == null_context
           s == stack
           f == [Top EXCEPT !.at = "destructor2"]
           b == <<Call("free", c), f>>
           q == b \o Tail(s)
<1>0. Running({"free"}, {"destructor"}) /\ Begin(b, Tail(s), c)
  BY DEF Nested
<1>1. /\ Types /\ Tree(h, n) /\ Stacked(h, s, n)
      /\ s \in Seq(Frame) /\ s # << >> /\ n \in Ptr /\ h \in Heaps
      /\ 1 \in DOMAIN s /\ Top = s[1] /\ Top \in Frame
      /\ Top.at = "destructor" /\ Top.fn = "free" /\ fault = "none"
  BY <1>0, RunFacts
<1>2. c \in Live(h) /\ c # n /\ c \in Chunk
  BY DEF Mine, Live
<1>3. f \in Frame /\ f.fn = s[1].fn /\ f.tc = s[1].tc /\ f.at = "destructor2" /\ f.new = s[1].new
  BY <1>1 DEF Frame
<1> HIDE DEF f
<1>4. Call("free", c) \in Frame
  BY <1>2 DEF Call, Frame, Ptr
<1>5. b \in Seq(Frame) /\ Len(b) = 2 /\ b[1] = Call("free", c) /\ b[2] = f
  BY <1>3, <1>4
<1>6. /\ null_context' = n /\ ret' = 0 /\ fault' = "none" /\ heap' = heap /\ stack' = q
      /\ own' \subseteq Chunk /\ held' \subseteq Chunk /\ spared' \subseteq Chunk
  BY <1>0, <1>1, BeginTypes
<1> HIDE DEF b
<1>7. /\ q \in Seq(Frame) /\ Len(q) = Len(s) + 1 /\ q[1] = Call("free", c) /\ q[2] = f
      /\ \A i \in DOMAIN q : i > 2 => q[i] = s[i - 1]
  <2> DEFINE r == Tail(s)
  <2>1. /\ r \in Seq(Frame) /\ Len(r) = Len(s) - 1 /\ Len(s) \in Nat /\ Len(s) >= 1
        /\ \A i \in 1..Len(r) : r[i] = s[i + 1]
    BY <1>1, HeadTailProperties
  <2> HIDE DEF r
  <2>2. q = b \o r
    BY DEF r
  <2> HIDE DEF q
  <2>3. /\ q \in Seq(Frame) /\ Len(q) = Len(s) + 1 /\ DOMAIN q = 1..Len(q)
    <3>1. q \in Seq(Frame) /\ Len(q) = Len(b) + Len(r)
      BY <1>5, <2>1, <2>2, ConcatProperties
    <3>2. Len(q) = Len(s) + 1
      BY <1>5, <2>1, <3>1
    <3> QED
      BY <3>1, <3>2
  <2>4. \A i \in 1..(Len(s) + 1) : q[i] = IF i <= 2 THEN b[i] ELSE r[i - 2]
    BY <1>5, <2>1, <2>2, <2>3, ConcatProperties
  <2>5. q[1] = b[1] /\ q[2] = b[2]
    BY <2>1, <2>4
  <2>6. ASSUME NEW i \in DOMAIN q, i > 2 PROVE q[i] = s[i - 1]
    <3>1. i \in 1..(Len(s) + 1) /\ ~(i <= 2) /\ i - 2 \in 1..Len(r) /\ (i - 2) + 1 = i - 1
      BY <2>1, <2>3, <2>6
    <3> QED
      BY <2>1, <2>4, <3>1
  <2> QED
    BY <1>5, <2>3, <2>5, <2>6
<1> HIDE DEF q
<1>8. Stacked(h, q, n)
  <2>1. s[1].fn # "untrack" /\ s[1].at = "destructor"
    BY <1>1
  <2>2. f.new # NULL => ~Handle(h, f.new)
    BY <1>1, <1>3 DEF Stacked, CalledOK
  <2> QED
    BY <1>1, <1>2, <1>3, <1>7, <2>1, <2>2, PushStacked
<1>9. TreeInv'
  BY <1>1, <1>6, <1>7, <1>8 DEF TreeInv, Types, StaleOnlyKnown
<1>10. stack' # << >> /\ About(stack') = About(s) \cup {c}
  <2>1. q[1].tc = c /\ q[2].tc = s[1].tc
    BY <1>3, <1>7 DEF Call
  <2>2. q # << >> /\ About(q) = About(s) \cup {q[1].tc}
    BY <1>1, <1>7, <2>1, PushAbout
  <2> QED
    BY <1>6, <2>1, <2>2
<1>11. own' = own \cup Subtree(heap, c) /\ spared' = spared
  BY <1>0 DEF Begin
<1> QED
  BY <1>2, <1>6, <1>9, <1>10, <1>11 DEF Begins

\* talloc_disable_null_tracking() forgets null_context.
LEMMA KeepsUntrack ==
  ASSUME TreeInv, Untrack
  PROVE  TreeInv' /\ Ran
<1> DEFINE h == heap
           n == null_context
           s == stack
<1>0. Running({"untrack"}, {"kids"}) /\ null_context' = NULL /\ Return(h, 0)
  BY DEF Untrack
<1>1. /\ Types /\ Tree(h, n) /\ Stacked(h, s, n)
      /\ s \in Seq(Frame) /\ s # << >> /\ n \in Ptr /\ h \in Heaps
      /\ 1 \in DOMAIN s /\ Top = s[1] /\ Top.fn = "untrack"
  BY <1>0, RunFacts
<1>2. Len(s) = 1 /\ DOMAIN s = {1}
  <2>1. Len(s) = 1
    BY <1>1 DEF Stacked, FrameOK
  <2>2. DOMAIN s = 1..1
    BY <1>1, <2>1
  <2> QED
    BY <2>1, <2>2
<1>3. heap' = h /\ fault' = "none" /\ stack' = << >> /\ ret' = 0 /\ own' = {} /\ held' = {} /\ spared' = {}
  BY <1>0, <1>2 DEF Return
<1>4. Tree(h, NULL)
  BY <1>1 DEF Tree
<1>5. Rested(h, NULL)
  BY <1>1, <1>2 DEF Rested, Stacked, ActiveOK, Active
<1>6. Stacked(h, << >>, NULL)
  BY <1>1, <1>5, RestedStacked DEF Ptr
<1>7. TreeInv'
  BY <1>0, <1>3, <1>4, <1>6 DEF TreeInv, Types, StaleOnlyKnown, Ptr
<1>8. Lessened
  BY <1>3 DEF Lessened, KeptParents
<1>9. Over
  BY <1>1, <1>2, <1>3 DEF Over
<1> QED
  BY <1>7, <1>8, <1>9 DEF Ran

-----------------------------------------------------------------------------
(* The invariant holds throughout *)

\* Memory begins as a tree without chunks.
LEMMA TreeInit == Init => TreeInv
<1> SUFFICES ASSUME Init PROVE TreeInv
  OBVIOUS
<1>1. /\ heap = [c \in Chunk |-> Unused] /\ null_context = NULL /\ stack = << >> /\ ret = 0
      /\ fault = "none" /\ own = {} /\ held = {} /\ spared = {}
  BY DEF Init
<1>2. Unused \in Header
  BY DEF Unused, Header, Ptr
<1>3. /\ Unused.state = "unused" /\ Unused.loop = FALSE /\ Unused.destructor = "none"
      /\ Unused.parent = NULL
  BY DEF Unused
<1>4. heap \in Heaps /\ Live(heap) = {}
  BY <1>1, <1>2, <1>3 DEF Heaps, Live
<1>5. OwnersOK(heap) /\ Refs(heap)
  BY <1>1, <1>3, <1>4 DEF OwnersOK, Refs
<1>6. Tree(heap, NULL)
  <2> DEFINE par == [c \in Chunk |-> NULL]
             pos == [c \in Chunk |-> 0]
  <2>1. par \in [Chunk -> Ptr] /\ pos \in [Chunk -> Nat]
    BY DEF Ptr
  <2>2. Forest(heap, NULL, par, pos, pos)
    BY <1>4 DEF Forest, ChildOK, NextOK, PrevOK, ParentOK, ParOK, Listed
  <2> HIDE DEF par, pos
  <2> QED
    BY <1>4, <1>5, <2>1, <2>2 DEF Tree
<1>7. Rested(heap, NULL)
  BY <1>1, <1>3 DEF Rested
<1>8. Stacked(heap, << >>, NULL)
  BY <1>4, <1>7, RestedStacked DEF Ptr
<1> QED
  BY <1>1, <1>6, <1>8 DEF TreeInv, Types, StaleOnlyKnown, Ptr

\* A call is in progress.
Underway == fault = "none" /\ stack # << >>

\* Every step is of one of these kinds.
Kinds ==
  \/ Asked
  \/ fault = "none" /\ \E c \in Chunk : Begins(c)
  \/ Underway /\ (Descends \/ Ran)

\* Every step keeps the invariant, and is one of the kinds.
LEMMA TreeStep == TreeInv /\ Next => TreeInv' /\ Kinds
<1> SUFFICES ASSUME TreeInv, Next PROVE TreeInv' /\ Kinds
  OBVIOUS
<1>0. Mine \subseteq Chunk
  BY DEF Mine, Live
<1>1. ASSUME NEW c \in Mine, NEW d \in {"none", "user"}, talloc_set_destructor(c, d)
      PROVE  TreeInv' /\ Kinds
  BY <1>1, KeepsDestructor DEF Kinds
<1>2. ASSUME NEW c \in Mine, _talloc_realloc(c) PROVE TreeInv' /\ Kinds
  BY <1>2, KeepsRealloc DEF Kinds
<1>3. ASSUME NEW c \in Mine, talloc_free(c) \/ talloc_free_children(c) PROVE TreeInv' /\ Kinds
  <2>1. PICK fn \in {"free", "free_children"} : Idle /\ Begin(<<Call(fn, c)>>, << >>, c)
    BY <1>3 DEF talloc_free, talloc_free_children
  <2>2. TreeInv' /\ Begins(c) /\ fault = "none"
    BY <2>1, KeepsCall DEF Idle
  <2> QED
    BY <1>0, <2>2 DEF Kinds
<1>4. ASSUME NEW c \in Mine, Nested(c) PROVE TreeInv' /\ Kinds
  <2>1. fault = "none"
    BY <1>4 DEF Nested, Running
  <2> QED
    BY <1>0, <1>4, <2>1, KeepsNested DEF Kinds
<1>5. ASSUME NEW c \in Mine, NEW ctx \in Mine \cup {NULL}, talloc_reference(ctx, c)
      PROVE  TreeInv' /\ Kinds
  BY <1>5, KeepsReference DEF Kinds
<1>6. ASSUME NEW c \in Mine, NEW ctx \in Mine \cup {NULL}, talloc_steal(ctx, c)
      PROVE  TreeInv' /\ Kinds
  BY <1>6, KeepsSteal DEF Kinds
<1>7. ASSUME NEW c \in Mine, NEW ctx \in Mine \cup {NULL}, talloc_unlink(ctx, c)
      PROVE  TreeInv' /\ Kinds
  <2>1. fault = "none"
    BY <1>7 DEF talloc_unlink, Idle
  <2> QED
    BY <1>0, <1>7, <2>1, KeepsUnlink DEF Kinds
<1>8. ASSUME NEW ctx \in Mine \cup {NULL}, talloc_named_const(ctx) PROVE TreeInv' /\ Kinds
  BY <1>8, KeepsAlloc DEF Kinds
<1>9. CASE talloc_enable_null_tracking
  BY <1>9, KeepsTracking DEF Kinds
<1>10. CASE talloc_disable_null_tracking
  <2>1. fault = "none" /\ null_context \in Chunk
    BY <1>10 DEF talloc_disable_null_tracking, Idle, TreeInv, Types, Ptr
  <2> QED
    BY <1>10, <2>1, KeepsUntracking DEF Kinds
<1>11. CASE DestructorAgrees
  <2>1. Running({"free"}, {"entry", "destructor", "destructor2"}) /\ Top.at # "entry" /\ Underway
    BY <1>11 DEF DestructorAgrees, Running, Underway
  <2> QED
    BY <1>11, <2>1, KeepsCondemned DEF DestructorAgrees, Kinds
<1>12. CASE NoDestructor
  <2>1. Running({"free"}, {"entry", "destructor", "destructor2"}) /\ Underway
    BY <1>12 DEF NoDestructor, Running, Underway
  <2> QED
    BY <1>12, <2>1, KeepsCondemned DEF NoDestructor, Kinds
<1>13. CASE DropReference \/ Looping \/ Busy \/ CallDestructor \/ FreeReference \/ FreeKid
             \/ KidsDone \/ Untrack \/ DestructorRefuses
  <2>1. Underway
    BY <1>13 DEF DropReference, Looping, Busy, CallDestructor, FreeReference, FreeKid, KidsDone,
                 Untrack, DestructorRefuses, Running, Underway
  <2>2. TreeInv' /\ (Descends \/ Ran)
    BY <1>13, KeepsDropReference, KeepsLooping, KeepsBusy, KeepsCallDestructor,
       KeepsFreeReference, KeepsFreeKid, KeepsKidsDone, KeepsUntrack, KeepsRefused
  <2> QED
    BY <2>1, <2>2 DEF Kinds
<1> QED
  BY <1>1, <1>2, <1>3, <1>4, <1>5, <1>6, <1>7, <1>8, <1>9, <1>10, <1>11, <1>12, <1>13
     DEF Next, _talloc_free

\* So does a step that changes nothing.
LEMMA TreeNext == TreeInv /\ [Next]_vars => TreeInv'
<1> SUFFICES ASSUME TreeInv, [Next]_vars PROVE TreeInv'
  OBVIOUS
<1>1. CASE UNCHANGED vars
  <2>1. /\ heap' = heap /\ null_context' = null_context /\ stack' = stack /\ ret' = ret
        /\ fault' = fault /\ own' = own /\ held' = held /\ spared' = spared
    BY <1>1 DEF vars, ghosts
  <2> QED
    BY <2>1 DEF TreeInv, Types, StaleOnlyKnown, Top, Live
<1> QED
  BY <1>1, TreeStep

-----------------------------------------------------------------------------
(* Theorems about the heap *)

\* What the invariant says of the tree is that the lists are doubly linked,
LEMMA TreeWellFormed == TreeInv => WellFormed
<1> SUFFICES ASSUME TreeInv PROVE WellFormed
  OBVIOUS
<1>1. heap \in Heaps /\ Refs(heap) /\ Types /\ NULL \notin Chunk
  BY TallocAssumption DEF TreeInv, Tree
<1>2. PICK par \in [Chunk -> Ptr], pos \in [Chunk -> Nat], rank \in [Chunk -> Nat] :
        Forest(heap, NULL, par, pos, rank)
  BY DEF TreeInv, Tree
<1>3. TypeOK
  BY <1>1 DEF TypeOK, Types, Heaps
<1>4. WellLinked
  <2> SUFFICES ASSUME NEW c \in Live(heap)
               PROVE  LET x == heap[c] IN
                      /\ x.child # NULL =>
                           /\ x.child \in Live(heap)
                           /\ heap[x.child].parent = c /\ heap[x.child].prev = NULL
                      /\ ~x.loop =>
                           /\ x.next # NULL => x.next \in Live(heap) /\ heap[x.next].prev = c
                           /\ x.prev # NULL => x.prev \in Live(heap) /\ heap[x.prev].next = c
                           /\ x.parent # NULL => x.prev = NULL /\ heap[x.parent].child = c
    BY DEF WellLinked
  <2>1. heap[c].child # NULL =>
          /\ heap[c].child \in Live(heap)
          /\ heap[heap[c].child].parent = c /\ heap[heap[c].child].prev = NULL
    BY <1>2 DEF Forest, ChildOK, Listed
  <2>2. ASSUME ~heap[c].loop
        PROVE  /\ heap[c].next # NULL => heap[c].next \in Live(heap) /\ heap[heap[c].next].prev = c
               /\ heap[c].prev # NULL => heap[c].prev \in Live(heap) /\ heap[heap[c].prev].next = c
               /\ heap[c].parent # NULL => heap[c].prev = NULL /\ heap[heap[c].parent].child = c
    <3>1. c \in Listed(heap, NULL)
      BY <1>1, <2>2 DEF Listed, Live
    <3>2. heap[c].next # NULL => heap[c].next \in Live(heap) /\ heap[heap[c].next].prev = c
      BY <1>2, <3>1 DEF Forest, NextOK, Listed
    <3>3. heap[c].prev # NULL => /\ heap[c].prev \in Live(heap) /\ heap[heap[c].prev].next = c
                                 /\ heap[c].parent = NULL
      BY <1>2, <3>1 DEF Forest, PrevOK, Listed
    <3>4. heap[c].parent # NULL => heap[heap[c].parent].child = c
      BY <1>2, <3>1 DEF Forest, ParentOK
    <3> QED
      BY <3>2, <3>3, <3>4
  <2> QED
    BY <2>1, <2>2
<1>5. RefsAgree
  BY <1>1 DEF RefsAgree, Refs
<1> QED
  BY <1>3, <1>4, <1>5 DEF WellFormed

\* and that going up ends.
LEMMA TreeNoLoops == TreeInv => IsForest
<1> SUFFICES ASSUME TreeInv, Idle
             PROVE  /\ \A c \in Live(heap) : \E a \in Ancestors(heap, c) : talloc_parent_chunk(heap, a) = NULL
                    /\ \A c \in Live(heap) : ~heap[c].loop /\ heap[c].destructor # "busy"
  BY DEF IsForest, NoLoops, Unmarked
<1>1. /\ Rested(heap, null_context) /\ heap \in Heaps /\ Tree(heap, null_context)
      /\ Listed(heap, NULL) = Live(heap) /\ Live(heap) \subseteq Chunk
  BY IdleFacts DEF Live
<1>2. PICK par \in [Chunk -> Ptr], pos \in [Chunk -> Nat], rank \in [Chunk -> Nat] :
        Forest(heap, NULL, par, pos, rank)
  BY <1>1 DEF Tree
<1>3. \A d \in Live(heap) :
        talloc_parent_chunk(heap, d) = par[d] /\ par[d] \in Live(heap) \cup {NULL}
  <2> SUFFICES ASSUME NEW d \in Live(heap)
               PROVE  talloc_parent_chunk(heap, d) = par[d] /\ par[d] \in Live(heap) \cup {NULL}
    OBVIOUS
  <2>1. d \in Chunk /\ d \in Listed(heap, NULL)
    BY <1>1
  <2> QED
    BY <1>1, <1>2, <2>1, ParentChunk DEF Forest, ParOK
<1>4. ASSUME NEW c \in Live(heap)
      PROVE  \E a \in Ancestors(heap, c) : talloc_parent_chunk(heap, a) = NULL
  <2> DEFINE A == Ancestors(heap, c)
             T == {rank[a] : a \in A}
  <2>1. A \in SUBSET Chunk /\ c \in A
        /\ \A d \in A : talloc_parent_chunk(heap, d) \in A \cup {NULL}
    BY <1>1, AncestorsFacts
  <2>2. A \subseteq Live(heap)
    <3>1. Live(heap) \in SUBSET Chunk /\ \A d \in Live(heap) : talloc_parent_chunk(heap, d) \in Live(heap) \cup {NULL}
      BY <1>1, <1>3
    <3>2. c \in Chunk
      BY <1>1
    <3> QED
      BY <1>1, <3>1, <3>2, AncestorsFacts
  <2> HIDE DEF A
  <2>3. T \in SUBSET Nat /\ T # {}
    BY <2>1
  <2>4. PICK r \in T : \A y \in T : r <= y
    <3> HIDE DEF T
    <3> QED
      BY <2>3, Least
  <2>5. PICK a \in A : rank[a] = r
    OBVIOUS
  <2>6. talloc_parent_chunk(heap, a) = NULL
    <3> SUFFICES ASSUME talloc_parent_chunk(heap, a) # NULL PROVE FALSE
      OBVIOUS
    <3>1. a \in Live(heap) /\ a \in Listed(heap, NULL) /\ par[a] # NULL /\ par[a] \in A
      BY <1>1, <1>3, <2>1, <2>2
    <3>2. rank[par[a]] < rank[a]
      BY <1>2, <3>1 DEF Forest, ParOK
    <3>3. rank[par[a]] \in Nat /\ rank[a] \in Nat /\ rank[a] <= rank[par[a]]
      BY <2>1, <2>4, <2>5, <3>1
    <3> QED
      BY <3>2, <3>3
  <2> QED
    BY <2>6 DEF A
<1>5. \A c \in Live(heap) : ~heap[c].loop /\ heap[c].destructor # "busy"
  BY <1>1 DEF Rested
<1> QED
  BY <1>4, <1>5

\* The invariant holds throughout.
LEMMA TrialTree == TrialSpec => []TreeInv
<1>1. TrialInit => TreeInv
  BY TreeInit DEF TrialInit
<1>2. TreeInv /\ [TrialNext]_<<vars, input>> => TreeInv'
  <2>1. [TrialNext]_<<vars, input>> => [Next]_vars
    BY DEF TrialNext, vars, ghosts
  <2> QED
    BY <2>1, TreeNext
<1> QED
  BY <1>1, <1>2, PTL DEF TrialSpec

\* Whatever sequence of allocations, references, steals, unlinks and frees the program makes,
\* with destructors that refuse and free other chunks in the middle of it, the lists of talloc.c
\* stay doubly linked: first child and parent, next and prev point at each other, and a
\* reference and its handle do (_TLIST_ADD, _TLIST_REMOVE, talloc_reference(),
\* talloc_reference_destructor()).
THEOREM HeapIsWellFormed == TrialSpec => []WellFormed
  BY TrialTree, TreeWellFormed, PTL

\* Between two calls no chunk is its own ancestor, so that the loops of talloc_is_parent() and
\* talloc_parent_chunk() end, and none is still marked as being freed or as running its
\* destructor: _talloc_free() leaves no TALLOC_FLAG_LOOP and no (void *)-1 behind on any way out,
\* however calls, refusals and nested calls are interleaved.  talloc_free() itself can give a
\* chunk to one below it; there the model stops.
THEOREM HeapIsForest == TrialSpec => []IsForest
  BY TrialTree, TreeNoLoops, PTL

\* _talloc_free() and talloc_free_children() go on with freed memory in the four cases that
\* StaleOnlyKnown names and in no other, for any number of chunks and any depth of destructors
\* that free: through the parent or prev pointer a chunk keeps once it is taken out of its list,
\* to the owner that was chosen for a child before its destructor ran, and in the argument of
\* talloc_free_children(), which is not marked.
THEOREM StaleMemory == TrialSpec => []StaleOnlyKnown
<1>1. TreeInv => StaleOnlyKnown
  BY DEF TreeInv
<1> QED
  BY <1>1, TrialTree, PTL

-----------------------------------------------------------------------------
(* What a call frees, and what it leaves *)

\* While calls that free are in progress, own is closed under children; and whatever
\* of it is there has been spared, is what a call is about, or hangs below more of it.
OwnInv ==
  fault = "none" =>
    /\ About(stack) \subseteq own
    /\ \A d \in Listed(heap, NULL) : talloc_parent_chunk(heap, d) \in own => d \in own
    /\ \A c \in own \cap Live(heap) :
         \/ c \in spared \cup About(stack)
         \/ c \in Listed(heap, NULL) /\ talloc_parent_chunk(heap, c) \in own
    /\ stack = << >> => own = {}

\* What is below c is c, or a child of something below c.
LEMMA SubtreeUp ==
  ASSUME NEW h, NEW n, Tree(h, n), NEW c \in Chunk, NEW d \in Subtree(h, c), d # c, d \in Listed(h, NULL)
  PROVE  talloc_parent_chunk(h, d) \in Subtree(h, c)
<1> DEFINE p == talloc_parent_chunk(h, d)
<1>0. h \in Heaps /\ d \in Chunk /\ c \in Ancestors(h, d) /\ NULL \notin Chunk
  BY TallocAssumption DEF Tree, Subtree, Live, talloc_is_parent
<1>1. PICK par \in [Chunk -> Ptr], pos \in [Chunk -> Nat], rank \in [Chunk -> Nat] :
        Forest(h, NULL, par, pos, rank)
  BY DEF Tree
<1>2. p = par[d]
  BY <1>0, <1>1, ParentChunk
<1>3. p # NULL
  <2> SUFFICES ASSUME p = NULL PROVE FALSE
    OBVIOUS
  <2>1. {d} \in SUBSET Chunk /\ \A e \in {d} : talloc_parent_chunk(h, e) \in {d} \cup {NULL}
    BY <1>0
  <2>2. Ancestors(h, d) \subseteq {d}
    BY <1>0, <2>1, AncestorsFacts, ZenonT(30)
  <2> QED
    BY <1>0, <2>2
<1>4. p \in Live(h)
  BY <1>1, <1>2, <1>3 DEF Forest, ParOK
<1>5. Ancestors(h, d) \subseteq {d} \cup Ancestors(h, p)
  BY <1>0, <1>3, AncestorsUp
<1>6. c \in Ancestors(h, p)
  BY <1>0, <1>5
<1> QED
  BY <1>4, <1>6 DEF Subtree, talloc_is_parent

\* What has its parent in a subtree is in it.
LEMMA SubtreeDown ==
  ASSUME NEW h, NEW n, Tree(h, n), NEW c \in Chunk, NEW d \in Listed(h, NULL),
         talloc_parent_chunk(h, d) \in Subtree(h, c)
  PROVE  d \in Subtree(h, c)
<1>0. h \in Heaps /\ d \in Chunk
  BY DEF Tree, Listed, Live
<1>1. PICK par \in [Chunk -> Ptr], pos \in [Chunk -> Nat], rank \in [Chunk -> Nat] :
        Forest(h, NULL, par, pos, rank)
  BY DEF Tree
<1>2. talloc_parent_chunk(h, d) = par[d]
  BY <1>0, <1>1, ParentChunk
<1> QED
  BY <1>0, <1>1, <1>2, SubtreeFacts

\* A call that frees begins: its own is the subtree of its chunk, or is already part of what
\* the calls further out own.
LEMMA OwnBegins ==
  ASSUME TreeInv, OwnInv, fault = "none", NEW c \in Chunk, Begins(c)
  PROVE  OwnInv'
<1>0. /\ heap' = heap /\ fault' = "none" /\ stack' # << >> /\ spared' = spared
      /\ c \in Live(heap) /\ own' = own \cup Subtree(heap, c)
      /\ About(stack') = About(stack) \cup {c} /\ Listed(heap', NULL) = Listed(heap, NULL)
      /\ Live(heap') = Live(heap)
  BY DEF Begins
<1>1. Tree(heap, null_context) /\ heap \in Heaps /\ Stacked(heap, stack, null_context) /\ NULL \notin Chunk
  BY TallocAssumption DEF TreeInv, Tree
<1>2. c \in Subtree(heap, c)
  BY <1>0, <1>1, AncestorsFacts DEF Subtree, talloc_is_parent
<1>3. About(stack') \subseteq own'
  BY <1>0, <1>2 DEF OwnInv
<1>4. ASSUME NEW d \in Listed(heap, NULL), talloc_parent_chunk(heap, d) \in own' PROVE d \in own'
  <2>1. CASE talloc_parent_chunk(heap, d) \in own
    BY <1>0, <2>1 DEF OwnInv
  <2>2. CASE talloc_parent_chunk(heap, d) \in Subtree(heap, c)
    BY <1>0, <1>1, <2>2, SubtreeDown
  <2> QED
    BY <1>0, <1>4, <2>1, <2>2
<1>5. ASSUME NEW d \in own' \cap Live(heap)
      PROVE  \/ d \in spared' \cup About(stack')
             \/ d \in Listed(heap, NULL) /\ talloc_parent_chunk(heap, d) \in own'
  <2>1. CASE d \in own
    BY <1>0, <2>1 DEF OwnInv
  <2>2. CASE d \in Subtree(heap, c) /\ d = c
    BY <1>0, <2>2
  <2>3. CASE d \in Subtree(heap, c) /\ d # c /\ heap[d].loop
    <3>1. PICK i \in DOMAIN stack : stack[i].tc = d
      BY <1>1, <2>3 DEF Stacked, ActiveOK, Live
    <3>2. d \in About(stack)
      BY <3>1 DEF About
    <3> QED
      BY <1>0, <3>2
  <2>4. CASE d \in Subtree(heap, c) /\ d # c /\ ~heap[d].loop
    <3>1. d \in Listed(heap, NULL)
      BY <1>1, <2>4 DEF Listed, Live
    <3>2. talloc_parent_chunk(heap, d) \in Subtree(heap, c)
      BY <1>1, <2>4, <3>1, SubtreeUp
    <3> QED
      BY <1>0, <3>1, <3>2
  <2> QED
    BY <1>0, <1>5, <2>1, <2>2, <2>3, <2>4
<1> QED
  BY <1>0, <1>3, <1>4, <1>5 DEF OwnInv

\* talloc_free_children() goes down to a child, which is owned as well.
LEMMA OwnDescends ==
  ASSUME TreeInv, OwnInv, Underway, Descends
  PROVE  OwnInv'
<1>0. /\ heap' = heap /\ fault' = "none" /\ stack' # << >> /\ spared' = spared /\ own' = own
      /\ Listed(heap', NULL) = Listed(heap, NULL) /\ Live(heap') = Live(heap)
  BY DEF Descends
<1>1. PICK k \in Listed(heap, NULL) :
        talloc_parent_chunk(heap, k) = Top.tc /\ About(stack') = About(stack) \cup {k}
  BY DEF Descends
<1>2. Top.tc \in About(stack)
  BY DEF About, Top, Underway, TreeInv, Types
<1>3. k \in own
  BY <1>1, <1>2 DEF OwnInv, Underway
<1> QED
  BY <1>0, <1>1, <1>3 DEF OwnInv, Underway

\* The innermost call frees or moves its chunk: what hung below it hangs below more of what is
\* owned, or has been spared.
LEMMA OwnRan ==
  ASSUME TreeInv, OwnInv, Underway, Ran
  PROVE  OwnInv'
<1>1. Top.tc \in About(stack) /\ Top.tc \in own
  <2>1. Top.tc \in About(stack)
    BY DEF About, Top, Underway, TreeInv, Types
  <2> QED
    BY <2>1 DEF OwnInv, Underway
<1> SUFFICES ASSUME fault' = "none" PROVE OwnInv'
  BY DEF OwnInv
<1>2. CASE Over
  <2>1. stack' = << >> /\ own' = {}
    BY <1>2 DEF Over
  <2>2. About(stack') = {}
    BY <2>1 DEF About
  <2> QED
    BY <2>1, <2>2 DEF OwnInv
<1>3. CASE Within
  <2>0. /\ stack' # << >> /\ own' = own /\ spared \subseteq spared'
        /\ About(stack') \subseteq About(stack) /\ About(stack) \ {Top.tc} \subseteq About(stack')
        /\ Top.tc \in About(stack') \cup spared' \/ Top.tc \notin Live(heap')
    BY <1>3 DEF Within
  <2>1. /\ Live(heap') \subseteq Live(heap)
        /\ KeptParents(heap, heap', Top.tc)
        /\ \A d \in Listed(heap, NULL) \cap Live(heap') : d = Top.tc \/ d \in Listed(heap', NULL)
    BY DEF Ran, Lessened
  <2>2. /\ About(stack) \subseteq own
        /\ \A d \in Listed(heap, NULL) : talloc_parent_chunk(heap, d) \in own => d \in own
        /\ \A c \in own \cap Live(heap) :
             \/ c \in spared \cup About(stack)
             \/ c \in Listed(heap, NULL) /\ talloc_parent_chunk(heap, c) \in own
    BY DEF OwnInv, Underway
  <2>3. \A d \in Listed(heap', NULL) : talloc_parent_chunk(heap', d) \in own => d \in own
    BY <1>1, <2>1, <2>2 DEF KeptParents
  <2>4. ASSUME NEW c \in own \cap Live(heap')
        PROVE  \/ c \in spared' \cup About(stack')
               \/ c \in Listed(heap', NULL) /\ talloc_parent_chunk(heap', c) \in own
    <3>1. CASE c = Top.tc
      BY <2>0, <3>1
    <3>2. CASE c # Top.tc /\ c \in spared \cup About(stack)
      BY <2>0, <3>2
    <3>3. CASE c # Top.tc /\ c \in Listed(heap, NULL) /\ talloc_parent_chunk(heap, c) \in own
      <4>1. c \in Listed(heap', NULL)
        BY <2>1, <3>3
      <4>2. talloc_parent_chunk(heap', c) = talloc_parent_chunk(heap, c)
        BY <2>1, <3>3, <4>1 DEF KeptParents
      <4> QED
        BY <3>3, <4>1, <4>2
    <3> QED
      BY <2>1, <2>2, <3>1, <3>2, <3>3
  <2> QED
    BY <2>0, <2>2, <2>3, <2>4 DEF OwnInv
<1> QED
  BY <1>2, <1>3 DEF Ran

\* So does every step,
LEMMA OwnNext == TreeInv /\ OwnInv /\ [Next]_vars => OwnInv'
<1> SUFFICES ASSUME TreeInv, OwnInv, [Next]_vars PROVE OwnInv'
  OBVIOUS
<1>1. CASE UNCHANGED vars
  <2>1. /\ heap' = heap /\ stack' = stack /\ fault' = fault /\ own' = own /\ spared' = spared
    BY <1>1 DEF vars, ghosts
  <2> QED
    BY <2>1 DEF OwnInv, About, Live, Listed
<1>2. CASE Next
  <2>1. Kinds
    BY <1>2, TreeStep
  <2>2. CASE Asked
    <3>1. stack' = << >> /\ own' = {}
      BY <2>2 DEF Asked, Idle, OwnInv
    <3>2. About(stack') = {}
      BY <3>1 DEF About
    <3> QED
      BY <3>1, <3>2 DEF OwnInv
  <2> QED
    BY <2>1, <2>2, OwnBegins, OwnDescends, OwnRan DEF Kinds
<1> QED
  BY <1>1, <1>2

\* from the start,
LEMMA OwnInit == Init => OwnInv
<1> SUFFICES ASSUME Init PROVE OwnInv
  OBVIOUS
<1>1. stack = << >> /\ own = {}
  BY DEF Init
<1>2. About(stack) = {}
  BY <1>1 DEF About
<1> QED
  BY <1>1, <1>2 DEF OwnInv

\* and OwnInv holds throughout.
LEMMA TrialOwn == TrialSpec => [](TreeInv /\ OwnInv)
<1>1. TrialInit => TreeInv /\ OwnInv
  BY TreeInit, OwnInit DEF TrialInit
<1>2. TreeInv /\ OwnInv /\ [TrialNext]_<<vars, input>> => TreeInv' /\ OwnInv'
  <2>1. [TrialNext]_<<vars, input>> => [Next]_vars
    BY DEF TrialNext, vars, ghosts
  <2> QED
    BY <2>1, TreeNext, OwnNext
<1> QED
  BY <1>1, <1>2, PTL DEF TrialSpec

\* No call frees anything but what hung below the pointer it, or a destructor in it, was asked
\* to free, the references to that and, in talloc_unlink(), one reference; _talloc_realloc()
\* frees only the block it has moved.
THEOREM OnlyOwnIsFreed == TrialSpec => FreesOnlyOwn
<1> DEFINE A == \A c \in Live(heap) \ Live(heap') :
                  \/ c \in own
                  \/ Handle(heap, c) /\ (stack = << >> \/ heap[c].ptr \in own)
                  \/ \E d \in Live(heap') : heap' = Moved(heap, c, d)
<1>1. ASSUME TreeInv, OwnInv, Next PROVE A
  <2>1. Kinds
    BY <1>1, TreeStep
  <2>2. CASE Asked
    BY <2>2 DEF Asked, Idle
  <2>3. CASE \E c \in Chunk : Begins(c)
    <3>1. heap' = heap
      BY <2>3 DEF Begins
    <3> QED
      BY <3>1
  <2>4. CASE Descends
    <3>1. heap' = heap
      BY <2>4 DEF Descends
    <3> QED
      BY <3>1
  <2>5. CASE Underway /\ Ran
    <3>1. Top.tc \in own
      <4>1. Top.tc \in About(stack)
        BY <1>1, <2>5 DEF About, Top, Underway, TreeInv, Types
      <4> QED
        BY <1>1, <2>5, <4>1 DEF OwnInv, Underway
    <3>2. \A c \in Live(heap) \ Live(heap') : c = Top.tc \/ (Handle(heap, c) /\ heap[c].ptr = Top.tc)
      BY <2>5 DEF Ran, Lessened
    <3> QED
      BY <3>1, <3>2
  <2> QED
    BY <2>1, <2>2, <2>3, <2>4, <2>5 DEF Kinds
<1>2. TreeInv /\ OwnInv /\ [TrialNext]_<<vars, input>> => [A]_vars
  <2>1. [TrialNext]_<<vars, input>> => [Next]_vars
    BY DEF TrialNext, vars, ghosts
  <2> HIDE DEF A
  <2> QED
    BY <1>1, <2>1
<1> QED
  BY <1>2, TrialOwn, PTL DEF TrialSpec, FreesOnlyOwn

\* A step that returns to the caller.
LEMMA Returning ==
  ASSUME TreeInv, Next, Returns
  PROVE  /\ TreeInv' /\ Underway /\ Lessened /\ Over /\ fault' = "none"
         /\ Top = stack[1] /\ DOMAIN stack = {1} /\ About(stack) = {Top.tc}
<1>1. Kinds /\ TreeInv'
  BY TreeStep
<1>2. stack # << >> /\ stack' = << >> /\ fault' = "none"
  BY DEF Returns
<1>3. Underway /\ Ran
  BY <1>1, <1>2 DEF Kinds, Asked, Idle, Begins, Descends
<1>4. Over
  BY <1>2, <1>3 DEF Ran, Within
<1>5. DOMAIN stack = {1}
  <2>1. stack \in Seq(Frame) /\ Len(stack) = 1
    BY <1>4 DEF Over, TreeInv, Types
  <2>2. DOMAIN stack = 1..1
    BY <2>1
  <2> QED
    BY <2>2
<1> QED
  BY <1>1, <1>2, <1>3, <1>4, <1>5 DEF Ran, Top, About

\* Whatever destructors do meanwhile, talloc_free() returns 0 exactly if the chunk is gone, and
\* -1 if it is there.
THEOREM ReturnValueTells == TrialSpec => ReturnTells
<1> DEFINE A == Returns /\ Top.fn = "free" => (ret' = 0 <=> Top.tc \notin Live(heap'))
<1>1. ASSUME TreeInv, Next PROVE A
  BY <1>1, Returning DEF Over
<1>2. TreeInv /\ OwnInv /\ [TrialNext]_<<vars, input>> => [A]_vars
  <2>1. [TrialNext]_<<vars, input>> => [Next]_vars
    BY DEF TrialNext, vars, ghosts
  <2> HIDE DEF A
  <2> QED
    BY <1>1, <2>1
<1> QED
  BY <1>2, TrialOwn, PTL DEF TrialSpec, ReturnTells

\* What is left of own when the last call returns: follow it up to the chunk that was
\* spared.  The ranks of the forest fall on the way.
LEMMA Spared ==
  ASSUME TreeInv, OwnInv, Next, Returns, NEW c \in own \cap Live(heap')
  PROVE  Ancestors(heap', c) \cap Live(heap') \cap (spared \cup {Top.tc}) # {}
<1> DEFINE g == heap'
           S == Ancestors(g, c) \cap Live(g) \cap own
<1>0. /\ TreeInv' /\ Underway /\ Lessened /\ Over /\ fault' = "none" /\ stack' = << >>
      /\ About(stack) = {Top.tc}
  BY Returning DEF Returns
<1>1. /\ g \in Heaps /\ Listed(g, NULL) = Live(g) /\ Live(g) \subseteq Chunk
      /\ c \in Chunk /\ NULL \notin Chunk
  <2>1. Tree(g, null_context') /\ Stacked(g, << >>, null_context') /\ null_context' \in Ptr
    BY <1>0 DEF TreeInv, Types
  <2>2. g \in Heaps
    BY <2>1 DEF Tree
  <2>3. Rested(g, null_context')
    BY <2>1, <2>2, RestedStacked
  <2> QED
    BY <2>2, <2>3, TallocAssumption DEF Rested, Listed, Live
<1>2. PICK par \in [Chunk -> Ptr], pos \in [Chunk -> Nat], rank \in [Chunk -> Nat] :
        Forest(g, NULL, par, pos, rank)
  BY <1>0 DEF TreeInv, Tree
<1> HIDE DEF g
<1>3. c \in S /\ S \subseteq Chunk
  BY <1>1, AncestorsFacts DEF g
<1>4. PICK a \in S : \A b \in S : rank[a] <= rank[b]
  <2> DEFINE T == {rank[b] : b \in S}
  <2>1. T \in SUBSET Nat /\ T # {}
    BY <1>3
  <2>2. \E x \in T : \A y \in T : x <= y
    <3> HIDE DEF T
    <3> QED
      BY <2>1, Least
  <2> HIDE DEF S
  <2> QED
    BY <2>2
<1>5. SUFFICES ASSUME a \notin spared \cup {Top.tc} PROVE FALSE
  BY <1>4 DEF g
<1>6. a \in own /\ a \in Live(g) /\ a \in Ancestors(g, c) /\ a \in Live(heap)
  BY <1>0, <1>4 DEF Lessened, g
<1>7. a \in Listed(heap, NULL) /\ talloc_parent_chunk(heap, a) \in own
  BY <1>0, <1>5, <1>6 DEF OwnInv, Underway
<1>8. talloc_parent_chunk(g, a) = talloc_parent_chunk(heap, a)
  BY <1>0, <1>1, <1>5, <1>6 DEF Lessened, KeptParents, g
<1>9. talloc_parent_chunk(g, a) = par[a] /\ par[a] \in own /\ par[a] # NULL
  <2>1. talloc_parent_chunk(g, a) = par[a]
    <3>1. a \in Chunk /\ a \in Listed(g, NULL)
      BY <1>1, <1>6
    <3> QED
      BY <1>1, <1>2, <3>1, ParentChunk
  <2>2. own \subseteq Chunk
    BY DEF TreeInv, Types
  <2> QED
    BY <1>1, <1>7, <1>8, <2>1, <2>2
<1>10. par[a] \in Live(g) /\ rank[par[a]] < rank[a]
  BY <1>1, <1>2, <1>6, <1>9 DEF Forest, ParOK
<1>11. par[a] \in Ancestors(g, c)
  BY <1>1, <1>6, <1>9, AncestorsFacts
<1>12. par[a] \in S
  BY <1>9, <1>10, <1>11
<1>13. rank[a] \in Nat /\ rank[par[a]] \in Nat
  BY <1>1, <1>6, <1>10
<1> QED
  BY <1>4, <1>10, <1>12, <1>13

\* When talloc_free() returns, whatever is left of what it was to free hangs below a chunk that
\* was spared, because its destructor refused or it was referenced, or below the chunk itself:
\* the loop over the children gives every chunk it cannot free to a parent.
THEOREM NothingIsForgotten == TrialSpec => NothingForgotten
<1> DEFINE A == Returns /\ Top.fn = "free" =>
                  \A c \in own \cap Live(heap') :
                    Ancestors(heap', c) \cap Live(heap') \cap (spared \cup {Top.tc}) # {}
<1>1. ASSUME TreeInv, OwnInv, Next PROVE A
  BY <1>1, Spared
<1>2. TreeInv /\ OwnInv /\ [TrialNext]_<<vars, input>> => [A]_vars
  <2>1. [TrialNext]_<<vars, input>> => [Next]_vars
    BY DEF TrialNext, vars, ghosts
  <2> HIDE DEF A
  <2> QED
    BY <1>1, <2>1
<1> QED
  BY <1>2, TrialOwn, PTL DEF TrialSpec, NothingForgotten

\* The two together: the caller of talloc_free() can tell what is left.
THEOREM RestIsAccountedFor == TrialSpec => AccountsForRest
  BY NothingIsForgotten, ReturnValueTells DEF AccountsForRest
=============================================================================
