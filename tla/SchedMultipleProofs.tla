------------------------ MODULE SchedMultipleProofs ------------------------
(***************************************************************************)
(* Proofs about SchedMultiple, for any number of contexts and SPEs, any     *)
(* data file, any depth of the mailboxes and any number of messages that    *)
(* the kernel misroutes.                                                    *)
(***************************************************************************)
EXTENDS SchedMultiple, FiniteSetTheorems, SequenceTheorems, TLAPS

Msgs == Ctxs \cup {StopMsg}

-----------------------------------------------------------------------------
(* The inductive invariant: first what holds however the kernel behaves.      *)

\* Where main() is in its two loops, and what it has seen.
Loops ==
  /\ main \in {"write", "check"} => i \in 0..pattern_len - 1
  /\ main \in {"stop", "join"} => i \in Ctxs
  /\ main = "write" => \A c \in Ctxs : writes[c] <= i
  /\ main = "check" => \A c \in Ctxs : writes[c] <= i + 1
  /\ main \in {"stop", "join"} => \A c \in Ctxs : c < i => run_rc[c] = "1337"
  /\ main = "pass" => \A c \in Ctxs : run_rc[c] = "1337"
  /\ main = "fail" \/ thread_abort => \E c \in Ctxs : run_rc[c] = "0"

\* main() writes to a context only what the data file says.
Named == \A c \in Ctxs : writes[c] > 0 => \E k \in 1..pattern_len : pattern[k] = c

\* Before main() sends them there are no stop messages.
NoStopYet ==
  main \in {"write", "check"} =>
    \A c \in Ctxs : /\ \A k \in 1..Len(mbox[c]) : mbox[c][k] # StopMsg
                   /\ r3[c] # StopMsg /\ r4[c] # StopMsg

\* What the registers of a program and its stop code have to do with each other.
Program1(c) ==
  /\ IF pc[c] = "id" THEN r3[c] = None /\ r7[c] = 0 ELSE r3[c] # None
  /\ pc[c] \in {"count", "compare"} => r4[c] # None
  /\ pc[c] \in {"compare", "stop1337", "stop0"} => r7[c] >= 1
  /\ pc[c] = "stop1337" => r4[c] = StopMsg
  /\ run_rc[c] = "1337" => pc[c] = "stop1337"
  /\ run_rc[c] = "0" => pc[c] = "stop0"
  /\ run_rc[c] # "none" => c \notin loaded
  /\ thread[c] = "exited" => run_rc[c] # "none"

Programs == \A c \in Ctxs : Program1(c)

\* The messages in mailbox q that are for context c and before any stop message.
Own(q, c) == {k \in 1..Len(q) : q[k] = c /\ \A j \in 1..k : q[j] # StopMsg}

TookOwn(c) ==
  r3[c] = c \/ pc[c] = "stop0" \/ (pc[c] \in {"count", "compare"} /\ r4[c] = c)
TookStop(c) ==
  r3[c] = StopMsg \/ pc[c] = "stop1337" \/ (pc[c] \in {"count", "compare"} /\ r4[c] = StopMsg)

\* A program that has taken no message of its own has them before it, or the
\* kernel has misrouted them; after a stop message, the latter.
Foreign(c) ==
  ~TookOwn(c) => writes[c] <= faults + (IF TookStop(c) THEN 0 ELSE Cardinality(Own(mbox[c], c)))

OwnMessages == \A c \in Ctxs : Foreign(c)

(* Then what holds as long as the kernel makes no mistake.                    *)

StopSent(c) ==
  (main = "stop" /\ c < i) \/ (main = "join" /\ c <= i) \/ main = "pass"

\* A mailbox holds messages of its context and, as its last, the stop message;
\* nothing comes after the stop message.
OwnMailbox(c) ==
  /\ \A k \in 1..Len(mbox[c]) :
       /\ mbox[c][k] \in {c, StopMsg}
       /\ mbox[c][k] = StopMsg => k = Len(mbox[c]) /\ StopSent(c)
  /\ r3[c] \in {None, c, StopMsg}
  /\ r3[c] = StopMsg => pc[c] = "message" /\ mbox[c] = << >> /\ StopSent(c)
  /\ pc[c] \in {"count", "compare", "stop1337"} =>
       r4[c] \in {c, StopMsg} /\ (r4[c] = StopMsg => mbox[c] = << >> /\ StopSent(c))
  /\ pc[c] # "stop0"

\* Every message was taken, for the id or counted, or is in the mailbox.
Sent(c)  == IF StopSent(c) THEN writes[c] + 1 ELSE writes[c]
Taken(c) == CASE pc[c] = "id"    -> 0
              [] pc[c] = "count" -> r7[c] + 2
              [] OTHER           -> r7[c] + 1
Balance(c) == Sent(c) = Taken(c) + Len(mbox[c])

Faultless == faults = 0 => \A c \in Ctxs : OwnMailbox(c) /\ Balance(c)

IInv ==
  /\ TypeOK /\ Loops /\ Named /\ NoStopYet /\ Programs /\ OwnMessages
  /\ Faultless

-----------------------------------------------------------------------------
(* What the steps do to a mailbox *)

\* A write appends to one mailbox and leaves the others.
LEMMA PutEffect ==
  ASSUME TypeOK, NEW c \in Ctxs, NEW m \in Msgs, Put(c, m)
  PROVE  /\ mbox' \in [Ctxs -> Seq(Msgs)]
         /\ \A d \in Ctxs \ {c} : mbox'[d] = mbox[d]
         /\ Len(mbox'[c]) = Len(mbox[c]) + 1 /\ Len(mbox'[c]) <= Depth
         /\ \A k \in 1..Len(mbox[c]) : mbox'[c][k] = mbox[c][k]
         /\ mbox'[c][Len(mbox[c]) + 1] = m
<1>1. mbox \in [Ctxs -> Seq(Msgs)]
  BY DEF TypeOK, Msgs
<1>2. mbox' = [mbox EXCEPT ![c] = Append(mbox[c], m)] /\ Len(mbox[c]) < Depth
  BY DEF Put
<1>3. mbox[c] \in Seq(Msgs) /\ mbox'[c] = Append(mbox[c], m)
  BY <1>1, <1>2
<1>4. /\ mbox'[c] \in Seq(Msgs) /\ Len(mbox'[c]) = Len(mbox[c]) + 1
      /\ \A k \in 1..Len(mbox[c]) : mbox'[c][k] = mbox[c][k]
      /\ mbox'[c][Len(mbox[c]) + 1] = m
  BY <1>3
<1>5. mbox' \in [Ctxs -> Seq(Msgs)]
  BY <1>1, <1>2, <1>3, <1>4
<1>6. Len(mbox'[c]) <= Depth
  BY <1>2, <1>3, <1>4, SchedAssumption
<1> QED
  BY <1>1, <1>2, <1>4, <1>5, <1>6

\* A read takes the first message of one mailbox.
LEMMA TakeEffect ==
  ASSUME TypeOK, NEW c \in Ctxs, mbox[c] # << >>, mbox' = [mbox EXCEPT ![c] = Tail(@)]
  PROVE  /\ mbox' \in [Ctxs -> Seq(Msgs)]
         /\ \A d \in Ctxs \ {c} : mbox'[d] = mbox[d]
         /\ Len(mbox[c]) >= 1 /\ Len(mbox'[c]) = Len(mbox[c]) - 1
         /\ \A k \in 1..Len(mbox[c]) - 1 : mbox'[c][k] = mbox[c][k + 1]
         /\ Head(mbox[c]) = mbox[c][1] /\ Head(mbox[c]) \in Msgs
<1>1. mbox \in [Ctxs -> Seq(Msgs)]
  BY DEF TypeOK, Msgs
<1>2. mbox[c] \in Seq(Msgs) /\ mbox'[c] = Tail(mbox[c])
  BY <1>1
<1>3. /\ Tail(mbox[c]) \in Seq(Msgs) /\ Len(Tail(mbox[c])) = Len(mbox[c]) - 1
      /\ Head(mbox[c]) \in Msgs
      /\ \A k \in 1..Len(mbox[c]) - 1 : Tail(mbox[c])[k] = mbox[c][k + 1]
  BY <1>2, HeadTailProperties
<1>4. Len(mbox[c]) >= 1 /\ Head(mbox[c]) = mbox[c][1]
  BY <1>2
<1>5. mbox' \in [Ctxs -> Seq(Msgs)]
  BY <1>1, <1>3
<1> QED
  BY <1>1, <1>2, <1>3, <1>4, <1>5

\* The last message of one mailbox becomes the last of another.
LEMMA MisrouteEffect ==
  ASSUME TypeOK, NEW c \in Ctxs, NEW d \in Ctxs, Misroute(c, d)
  PROVE  /\ mbox' \in [Ctxs -> Seq(Msgs)]
         /\ \A e \in Ctxs \ {c, d} : mbox'[e] = mbox[e]
         /\ Len(mbox[c]) >= 1 /\ Len(mbox'[c]) = Len(mbox[c]) - 1
         /\ \A k \in 1..Len(mbox[c]) - 1 : mbox'[c][k] = mbox[c][k]
         /\ Len(mbox'[d]) = Len(mbox[d]) + 1 /\ Len(mbox'[d]) <= Depth
         /\ \A k \in 1..Len(mbox[d]) : mbox'[d][k] = mbox[d][k]
         /\ mbox'[d][Len(mbox[d]) + 1] = mbox[c][Len(mbox[c])]
<1>0. mbox \in [Ctxs -> Seq(Msgs)]
  BY DEF TypeOK, Msgs
<1>1. /\ mbox[c] \in Seq(Msgs) /\ mbox[d] \in Seq(Msgs) /\ c # d /\ mbox[c] # << >>
      /\ mbox'[c] = SubSeq(mbox[c], 1, Len(mbox[c]) - 1)
      /\ mbox'[d] = Append(mbox[d], mbox[c][Len(mbox[c])])
      /\ \A e \in Ctxs \ {c, d} : mbox'[e] = mbox[e]
      /\ mbox' = [e \in Ctxs |-> mbox'[e]]
      /\ Len(mbox[d]) < Depth
  BY <1>0 DEF Misroute, Front, Last
<1>2. Len(mbox[c]) \in Nat /\ Len(mbox[c]) >= 1
  BY <1>1
<1>3. /\ mbox'[c] \in Seq(Msgs) /\ Len(mbox'[c]) = Len(mbox[c]) - 1
      /\ \A k \in 1..Len(mbox[c]) - 1 : mbox'[c][k] = mbox[c][k]
  BY <1>1, <1>2
<1>4. mbox[c][Len(mbox[c])] \in Msgs
  BY <1>1, <1>2
<1>5. /\ mbox'[d] \in Seq(Msgs) /\ Len(mbox'[d]) = Len(mbox[d]) + 1
      /\ \A k \in 1..Len(mbox[d]) : mbox'[d][k] = mbox[d][k]
      /\ mbox'[d][Len(mbox[d]) + 1] = mbox[c][Len(mbox[c])]
  BY <1>1, <1>4
<1>6. \A e \in Ctxs : mbox'[e] \in Seq(Msgs)
  BY <1>0, <1>1, <1>3, <1>5
<1>7. mbox' \in [Ctxs -> Seq(Msgs)]
  BY <1>1, <1>6
<1>8. Len(mbox'[d]) <= Depth
  BY <1>1, <1>5, SchedAssumption
<1> QED
  BY <1>1, <1>2, <1>3, <1>5, <1>7, <1>8

-----------------------------------------------------------------------------
(* The messages of its own before a context *)

\* The messages of its own in a mailbox can be counted.
LEMMA OwnFinite ==
  ASSUME NEW q \in Seq(Msgs), NEW c
  PROVE  IsFiniteSet(Own(q, c)) /\ Cardinality(Own(q, c)) \in Nat
<1>1. IsFiniteSet(1..Len(q))
  BY FS_Interval
<1>2. Own(q, c) \in SUBSET (1..Len(q))
  BY DEF Own
<1>3. IsFiniteSet(Own(q, c))
  BY <1>1, <1>2, FS_Subset
<1> QED
  BY <1>3, FS_CardinalityType

\* A mailbox that grows loses none.
LEMMA OwnGrows ==
  ASSUME NEW q \in Seq(Msgs), NEW r \in Seq(Msgs), NEW c, Len(q) <= Len(r),
         \A k \in 1..Len(q) : r[k] = q[k]
  PROVE  Cardinality(Own(q, c)) <= Cardinality(Own(r, c))
<1>1. Own(q, c) \in SUBSET Own(r, c)
  BY DEF Own
<1> QED
  BY <1>1, OwnFinite, FS_Subset

\* A message of its own that comes before any stop message is one more.
LEMMA OwnAdded ==
  ASSUME NEW q \in Seq(Msgs), NEW r \in Seq(Msgs), NEW c, Len(r) = Len(q) + 1,
         \A k \in 1..Len(q) : r[k] = q[k] /\ q[k] # StopMsg,
         r[Len(q) + 1] = c, c # StopMsg
  PROVE  Cardinality(Own(r, c)) = Cardinality(Own(q, c)) + 1
<1>1. Own(r, c) = Own(q, c) \cup {Len(q) + 1}
  BY DEF Own
<1>2. Len(q) + 1 \notin Own(q, c)
  BY DEF Own
<1>3. IsFiniteSet(Own(q, c))
  BY OwnFinite
<1> QED
  BY <1>1, <1>2, <1>3, FS_AddElement

\* A mailbox that loses its last message loses at most one.
LEMMA OwnLost ==
  ASSUME NEW q \in Seq(Msgs), NEW r \in Seq(Msgs), NEW c, Len(r) = Len(q) - 1,
         \A k \in 1..Len(q) - 1 : r[k] = q[k]
  PROVE  Cardinality(Own(q, c)) <= Cardinality(Own(r, c)) + 1
<1>1. Own(q, c) \ {Len(q)} \in SUBSET Own(r, c)
  BY DEF Own
<1>2. Cardinality(Own(q, c) \ {Len(q)}) <= Cardinality(Own(r, c))
  BY <1>1, OwnFinite, FS_Subset
<1>3. Cardinality(Own(q, c) \ {Len(q)})
        = IF Len(q) \in Own(q, c) THEN Cardinality(Own(q, c)) - 1 ELSE Cardinality(Own(q, c))
  BY OwnFinite, FS_RemoveElement
<1>4. Cardinality(Own(q, c)) \in Nat /\ Cardinality(Own(r, c)) \in Nat
  BY OwnFinite
<1> QED
  BY <1>2, <1>3, <1>4

\* Taking another message loses none.
LEMMA OwnShifted ==
  ASSUME NEW q \in Seq(Msgs), NEW r \in Seq(Msgs), NEW c, Len(r) = Len(q) - 1,
         \A k \in 1..Len(q) - 1 : r[k] = q[k + 1],
         q[1] # c
  PROVE  Cardinality(Own(q, c)) <= Cardinality(Own(r, c))
<1> DEFINE f == [k \in Own(q, c) |-> k - 1]
<1>1. ASSUME NEW k \in Own(q, c) PROVE k - 1 \in Own(r, c)
  <2>1. k \in 1..Len(q) /\ q[k] = c /\ k # 1 /\ \A j \in 1..k : q[j] # StopMsg
    BY DEF Own
  <2>2. k - 1 \in 1..Len(r) /\ r[k - 1] = c
    BY <2>1
  <2>3. ASSUME NEW j \in 1..k - 1 PROVE r[j] # StopMsg
    <3>1. j \in 1..Len(q) - 1 /\ j + 1 \in 1..k
      BY <2>1
    <3> QED
      BY <2>1, <3>1
  <2> QED
    BY <2>2, <2>3 DEF Own
<1>2. \A k \in Own(q, c) : k \in Nat
  BY DEF Own
<1>3. f \in Injection(Own(q, c), Own(r, c))
  BY <1>1, <1>2 DEF Injection, IsInjective
<1> QED
  BY <1>3, OwnFinite, FS_Injection

\* There are none behind a stop message.
LEMMA OwnNone ==
  ASSUME NEW q, NEW c, q[1] = StopMsg
  PROVE  Cardinality(Own(q, c)) = 0
<1>1. Own(q, c) = {}
  BY DEF Own
<1> QED
  BY <1>1, FS_EmptySet

-----------------------------------------------------------------------------
(* The invariant is inductive *)

\* Contexts, the stop message and "no id yet" are told apart.
LEMMA ConstantFacts ==
  /\ Ctxs \subseteq Nat /\ IsFiniteSet(Ctxs)
  /\ StopMsg \in Nat \ Ctxs /\ None \notin Ctxs \cup {StopMsg}
<1>1. IsFiniteSet(Ctxs)
  BY SchedAssumption, FS_Interval DEF Ctxs
<1> QED
  BY <1>1, SchedAssumption DEF Ctxs, StopMsg, None

USE DEF mainVars, speVars, threadVars

\* A step that changes neither the mailboxes nor what depends on them.
LEMMA Unmoved ==
  ASSUME IInv, UNCHANGED <<mbox, pc, r3, r4, r7, writes, main, i, faults>>
  PROVE  NoStopYet' /\ OwnMessages' /\ Faultless'
<1>1. NoStopYet'
  BY DEF IInv, NoStopYet
<1>2. OwnMessages'
  BY DEF IInv, OwnMessages, Foreign, TookOwn, TookStop
<1>3. ASSUME NEW c \in Ctxs, faults = 0 PROVE OwnMailbox(c)' /\ Balance(c)'
  BY <1>3 DEF IInv, Faultless, OwnMailbox, Balance, Sent, Taken, StopSent
<1> QED
  BY <1>1, <1>2, <1>3 DEF Faultless

\* The loop goes on to the next number of the data file, or ends.
LEMMA CheckStep ==
  ASSUME IInv, Check
  PROVE  IInv'
<1> USE DEF IInv, Check
<1>0. main = "check" /\ i \in 0..pattern_len - 1
  BY DEF Loops
<1>1. TypeOK'
  <2>1. (main \in {"write", "check", "stop", "join", "pass", "fail"})'
    BY <1>0
  <2>2. (i \in 0..pattern_len \cup Ctxs)'
    BY <1>0, SchedAssumption DEF Ctxs
  <2> QED
    BY <2>1, <2>2 DEF TypeOK
<1>2. Loops'
  <2>1. CASE thread_abort
    BY <2>1, <1>0 DEF Loops
  <2>2. CASE ~thread_abort /\ i + 1 < pattern_len
    BY <2>2, <1>0, SchedAssumption DEF Loops
  <2>3. CASE ~thread_abort /\ ~(i + 1 < pattern_len)
    BY <2>3, <1>0, SchedAssumption DEF Loops, Ctxs
  <2> QED
    BY <2>1, <2>2, <2>3
<1>3. Named'
  BY DEF Named
<1>4. NoStopYet'
  BY <1>0 DEF NoStopYet
<1>5. Programs'
  BY DEF Programs, Program1
<1>6. OwnMessages'
  BY DEF OwnMessages, Foreign, TookOwn, TookStop
<1>7. ASSUME faults' = 0, NEW c \in Ctxs PROVE OwnMailbox(c)' /\ Balance(c)'
  <2>1. OwnMailbox(c) /\ Balance(c)
    BY <1>7 DEF Faultless
  <2>2. main' # "fail"
    BY <1>7, <1>0 DEF Loops, Programs, Program1, Faultless, OwnMailbox
  <2>3. ~StopSent(c) /\ ~StopSent(c)'
    BY <1>0, <2>2, ConstantFacts DEF StopSent, Ctxs
  <2> QED
    BY <2>1, <2>3 DEF OwnMailbox, Balance, Sent, Taken
<1> QED
  BY <1>1, <1>2, <1>3, <1>4, <1>5, <1>6, <1>7 DEF Faultless

\* A context is joined and judged, and the loop goes on to the next.
LEMMA JoinStep ==
  ASSUME IInv, Join
  PROVE  IInv'
<1> USE DEF IInv, Join
<1>0. main = "join" /\ i \in Ctxs /\ run_rc[i] # "none"
  BY DEF Loops, Programs, Program1
<1>1. TypeOK'
  <2>1. (main \in {"write", "check", "stop", "join", "pass", "fail"})'
    BY <1>0
  <2>2. (i \in 0..pattern_len \cup Ctxs)'
    BY <1>0, SchedAssumption DEF Ctxs
  <2> QED
    BY <2>1, <2>2 DEF TypeOK
<1>2. Loops'
  <2>1. CASE run_rc[i] # "1337"
    <3>1. run_rc[i] = "0"
      BY <1>0, <2>1 DEF TypeOK
    <3> QED
      BY <1>0, <2>1, <3>1 DEF Loops
  <2>2. CASE run_rc[i] = "1337" /\ i < n_spes - 1
    BY <2>2, <1>0, SchedAssumption DEF Loops, Ctxs
  <2>3. CASE run_rc[i] = "1337" /\ ~(i < n_spes - 1)
    BY <2>3, <1>0, SchedAssumption DEF Loops, Ctxs
  <2> QED
    BY <2>1, <2>2, <2>3
<1>3. Named'
  BY DEF Named
<1>4. NoStopYet'
  BY <1>0 DEF NoStopYet
<1>5. Programs'
  BY DEF Programs, Program1
<1>6. OwnMessages'
  BY DEF OwnMessages, Foreign, TookOwn, TookStop
<1>7. ASSUME faults' = 0, NEW c \in Ctxs PROVE OwnMailbox(c)' /\ Balance(c)'
  <2>1. OwnMailbox(c) /\ Balance(c)
    BY <1>7 DEF Faultless
  <2>2. run_rc[i] = "1337"
    BY <1>7, <1>0 DEF TypeOK, Programs, Program1, Faultless, OwnMailbox
  <2>3. StopSent(c)' = StopSent(c)
    BY <1>0, <2>2, SchedAssumption DEF StopSent, Ctxs
  <2> QED
    BY <2>1, <2>3 DEF OwnMailbox, Balance, Sent, Taken
<1> QED
  BY <1>1, <1>2, <1>3, <1>4, <1>5, <1>6, <1>7 DEF Faultless

\* The counter follows the messages taken.
LEMMA CountStep ==
  ASSUME IInv, NEW c \in Ctxs, Count(c)
  PROVE  IInv'
<1> USE DEF IInv, Count
<1>1. TypeOK'
  BY DEF TypeOK
<1>2. Loops'
  BY DEF Loops
<1>3. Named'
  BY DEF Named
<1>4. NoStopYet'
  BY DEF NoStopYet
<1>5. Programs'
  BY DEF TypeOK, Programs, Program1
<1>6. OwnMessages'
  BY DEF TypeOK, OwnMessages, Foreign, TookOwn, TookStop
<1>7. ASSUME faults' = 0, NEW d \in Ctxs PROVE OwnMailbox(d)' /\ Balance(d)'
  <2>1. OwnMailbox(d) /\ Balance(d) /\ StopSent(d)' = StopSent(d)
    BY <1>7 DEF Faultless, StopSent
  <2>2. OwnMailbox(d)'
    BY <2>1 DEF TypeOK, OwnMailbox
  <2>3. Balance(d)'
    BY <2>1 DEF TypeOK, Balance, Sent, Taken
  <2> QED
    BY <2>2, <2>3
<1> QED
  BY <1>1, <1>2, <1>3, <1>4, <1>5, <1>6, <1>7 DEF Faultless

\* The program tells its id, the stop message and others apart.
LEMMA CompareStep ==
  ASSUME IInv, NEW c \in Ctxs, Compare(c)
  PROVE  IInv'
<1> USE DEF IInv, Compare
<1>1. TypeOK'
  BY DEF TypeOK
<1>2. Loops'
  BY DEF Loops
<1>3. Named'
  BY DEF Named
<1>4. NoStopYet'
  BY DEF NoStopYet
<1>5. Programs'
  BY ConstantFacts DEF TypeOK, Programs, Program1
<1>6. ASSUME NEW d \in Ctxs PROVE Foreign(d)'
  <2>1. Foreign(d)
    BY DEF OwnMessages
  <2>2. CASE d # c
    BY <2>1, <2>2 DEF TypeOK, Foreign, TookOwn, TookStop
  <2>3. CASE d = c
    <3>1. TookOwn(c) => TookOwn(c)'
      BY ConstantFacts DEF TypeOK, TookOwn
    <3>2. ~TookOwn(c)' => TookStop(c)' = TookStop(c)
      BY ConstantFacts DEF TypeOK, TookOwn, TookStop
    <3> QED
      BY <2>1, <2>3, <3>1, <3>2 DEF Foreign
  <2> QED
    BY <2>2, <2>3
<1>7. ASSUME faults' = 0, NEW d \in Ctxs PROVE OwnMailbox(d)' /\ Balance(d)'
  <2>1. OwnMailbox(d) /\ Balance(d) /\ StopSent(d)' = StopSent(d)
    BY <1>7 DEF Faultless, StopSent
  <2>2. OwnMailbox(d)'
    BY <2>1, ConstantFacts DEF TypeOK, OwnMailbox, Programs, Program1
  <2>3. Balance(d)'
    BY <2>1 DEF TypeOK, Balance, Sent, Taken
  <2> QED
    BY <2>2, <2>3
<1> QED
  BY <1>1, <1>2, <1>3, <1>4, <1>5, <1>6, <1>7 DEF Faultless, OwnMessages

\* The program stops, and spu_run() returns its code.
LEMMA StopStep ==
  ASSUME IInv, NEW c \in Ctxs, Stop(c)
  PROVE  IInv'
<1> USE DEF IInv, Stop
<1>0. run_rc[c] = "none"
  BY DEF Programs, Program1
<1>1. TypeOK'
  <2>1. (loaded \subseteq Ctxs /\ Cardinality(loaded) <= Physical)'
    <3>1. IsFiniteSet(loaded) /\ Cardinality(loaded) \in Nat
      BY ConstantFacts, FS_Subset, FS_CardinalityType DEF TypeOK
    <3>2. Cardinality(loaded') = Cardinality(loaded) - 1
      BY <3>1, FS_RemoveElement
    <3> QED
      BY <3>1, <3>2, SchedAssumption DEF TypeOK
  <2> QED
    BY <2>1 DEF TypeOK
<1>2. Loops'
  BY <1>0 DEF TypeOK, Loops
<1>3. Named'
  BY DEF Named
<1>4. Programs'
  BY DEF TypeOK, Programs, Program1
<1> QED
  BY <1>1, <1>2, <1>3, <1>4, Unmoved

\* The thread ends once spu_run() has returned.
LEMMA ThreadEndsStep ==
  ASSUME IInv, NEW c \in Ctxs, ThreadEnds(c)
  PROVE  IInv'
<1> USE DEF IInv, ThreadEnds
<1>1. TypeOK'
  BY DEF TypeOK
<1>2. Loops'
  BY DEF TypeOK, Loops
<1>3. Named'
  BY DEF Named
<1>4. Programs'
  BY DEF TypeOK, Programs, Program1
<1> QED
  BY <1>1, <1>2, <1>3, <1>4, Unmoved

\* Loading a context changes nothing it counts.
LEMMA LoadStep ==
  ASSUME IInv, NEW c \in Ctxs, Load(c)
  PROVE  IInv'
<1> USE DEF IInv, Load
<1>1. TypeOK'
  <2>1. (loaded \subseteq Ctxs /\ Cardinality(loaded) <= Physical)'
    <3>1. IsFiniteSet(loaded) /\ Cardinality(loaded) \in Nat
      BY ConstantFacts, FS_Subset, FS_CardinalityType DEF TypeOK
    <3>2. Cardinality(loaded') = Cardinality(loaded) + 1
      BY <3>1, FS_AddElement
    <3> QED
      BY <3>1, <3>2, SchedAssumption DEF TypeOK
  <2> QED
    BY <2>1 DEF TypeOK
<1>2. Loops'
  BY DEF Loops
<1>3. Named'
  BY DEF Named
<1>4. Programs'
  BY DEF Programs, Program1
<1> QED
  BY <1>1, <1>2, <1>3, <1>4, Unmoved

\* Unloading a context changes nothing it counts.
LEMMA UnloadStep ==
  ASSUME IInv, NEW c \in Ctxs, Unload(c)
  PROVE  IInv'
<1> USE DEF IInv, Unload
<1>1. TypeOK'
  <2>1. (loaded \subseteq Ctxs /\ Cardinality(loaded) <= Physical)'
    <3>1. IsFiniteSet(loaded) /\ Cardinality(loaded) \in Nat
      BY ConstantFacts, FS_Subset, FS_CardinalityType DEF TypeOK
    <3>2. Cardinality(loaded') = Cardinality(loaded) - 1
      BY <3>1, FS_RemoveElement
    <3> QED
      BY <3>1, <3>2, SchedAssumption DEF TypeOK
  <2> QED
    BY <2>1 DEF TypeOK
<1>2. Loops'
  BY DEF Loops
<1>3. Named'
  BY DEF Named
<1>4. Programs'
  BY DEF Programs, Program1
<1> QED
  BY <1>1, <1>2, <1>3, <1>4, Unmoved

\* One more write, and one more message of its own before that context.
LEMMA WriteStep ==
  ASSUME IInv, Write
  PROVE  IInv'
<1> USE DEF IInv
<1>a. /\ main = "write" /\ i \in 0..pattern_len - 1 /\ i + 1 \in 1..pattern_len
      /\ pattern[i + 1] \in Ctxs
  BY SchedAssumption DEF Write, Loops, TypeOK
<1>0. PICK c \in Ctxs :
      /\ main = "write" /\ main' = "check" /\ i \in 0..pattern_len - 1 /\ i' = i
      /\ i + 1 \in 1..pattern_len /\ c = pattern[i + 1]
      /\ Put(c, c) /\ writes' = [writes EXCEPT ![c] = @ + 1]
      /\ UNCHANGED <<pattern, pc, r3, r4, r7, thread, run_rc, thread_abort, loaded, faults>>
  BY <1>a DEF Write
<1>1. /\ mbox' \in [Ctxs -> Seq(Msgs)]
      /\ \A d \in Ctxs \ {c} : mbox'[d] = mbox[d]
      /\ Len(mbox'[c]) = Len(mbox[c]) + 1 /\ Len(mbox'[c]) <= Depth
      /\ \A k \in 1..Len(mbox[c]) : mbox'[c][k] = mbox[c][k]
      /\ mbox'[c][Len(mbox[c]) + 1] = c
  BY <1>0, PutEffect DEF Msgs
<1>2. writes \in [Ctxs -> 0..pattern_len] /\ \A d \in Ctxs : writes[d] <= i
  BY <1>0 DEF TypeOK, Loops
<1>3. /\ writes' \in [Ctxs -> 0..pattern_len] /\ writes'[c] = writes[c] + 1
      /\ \A d \in Ctxs \ {c} : writes'[d] = writes[d]
      /\ \A d \in Ctxs : writes'[d] <= i + 1
  BY <1>0, <1>2, SchedAssumption
<1>4. TypeOK'
  <2>1. \A d \in Ctxs : Len(mbox'[d]) <= Depth
    BY <1>1 DEF TypeOK
  <2> QED
    BY <1>0, <1>1, <1>3, <2>1 DEF TypeOK, Msgs
<1>5. Loops'
  BY <1>0, <1>3 DEF Loops
<1>6. Named'
  <2>1. pattern[i + 1] = c
    BY <1>0
  <2> QED
    BY <1>0, <1>3, <2>1 DEF Named
<1>7. ASSUME NEW d \in Ctxs, NEW k \in 1..Len(mbox'[d]) PROVE mbox'[d][k] # StopMsg
  <2>1. CASE d # c
    <3>1. mbox'[d] = mbox[d]
      BY <1>1, <2>1
    <3>2. k \in 1..Len(mbox[d])
      BY <1>7, <3>1
    <3> QED
      BY <1>0, <3>1, <3>2 DEF NoStopYet
  <2>2. CASE d = c
    <3>1. Len(mbox[c]) \in Nat
      BY <1>0 DEF TypeOK
    <3>2. k \in 1..Len(mbox[c]) \/ k = Len(mbox[c]) + 1
      BY <1>1, <2>2, <3>1
    <3>3. ASSUME k \in 1..Len(mbox[c]) PROVE mbox'[c][k] # StopMsg
      BY <1>0, <1>1, <3>3 DEF NoStopYet
    <3>4. ASSUME k = Len(mbox[c]) + 1 PROVE mbox'[c][k] # StopMsg
      BY <1>0, <1>1, <3>4, ConstantFacts
    <3> QED
      BY <2>2, <3>2, <3>3, <3>4
  <2> QED
    BY <2>1, <2>2
<1>8. NoStopYet'
  BY <1>0, <1>7 DEF NoStopYet
<1>9. Programs'
  BY <1>0 DEF Programs, Program1
<1>10. ASSUME NEW d \in Ctxs PROVE Foreign(d)'
  <2>1. Foreign(d) /\ TookOwn(d)' = TookOwn(d) /\ ~TookStop(d) /\ ~TookStop(d)'
    BY <1>0 DEF OwnMessages, TookOwn, TookStop, NoStopYet, Programs, Program1
  <2>2. CASE d # c
    BY <1>0, <1>1, <1>3, <2>1, <2>2 DEF Foreign
  <2>3. CASE d = c
    <3>1. mbox[c] \in Seq(Msgs) /\ mbox'[c] \in Seq(Msgs)
      BY <1>0, <1>1 DEF TypeOK, Msgs
    <3>2. \A k \in 1..Len(mbox[c]) : mbox'[c][k] = mbox[c][k] /\ mbox[c][k] # StopMsg
      BY <1>0, <1>1 DEF NoStopYet
    <3>3. Cardinality(Own(mbox'[c], c)) = Cardinality(Own(mbox[c], c)) + 1
      <4>1. c # StopMsg
        BY ConstantFacts
      <4> QED
        BY <1>1, <3>1, <3>2, <4>1, OwnAdded
    <3>4. Cardinality(Own(mbox[c], c)) \in Nat
      BY <3>1, OwnFinite
    <3>5. faults \in Nat /\ writes[c] \in Nat
      BY <1>0, <1>2 DEF TypeOK
    <3> QED
      BY <1>0, <1>3, <2>1, <2>3, <3>3, <3>4, <3>5 DEF Foreign
  <2> QED
    BY <2>2, <2>3
<1>11. ASSUME faults' = 0, NEW d \in Ctxs PROVE OwnMailbox(d)' /\ Balance(d)'
  <2>1. OwnMailbox(d) /\ Balance(d) /\ ~StopSent(d) /\ ~StopSent(d)'
    BY <1>0, <1>11 DEF Faultless, StopSent
  <2>2. CASE d # c
    BY <1>0, <1>1, <1>3, <2>1, <2>2 DEF OwnMailbox, Balance, Sent, Taken
  <2>3. CASE d = c
    <3>1. Len(mbox[c]) \in Nat /\ writes[c] \in Nat /\ r7[c] \in Nat
      BY <1>0, <1>2 DEF TypeOK
    <3>2. \A k \in 1..Len(mbox'[c]) : mbox'[c][k] = c
      <4>1. \A k \in 1..Len(mbox'[c]) : k \in 1..Len(mbox[c]) \/ k = Len(mbox[c]) + 1
        BY <1>1, <3>1
      <4> QED
        BY <1>1, <2>1, <2>3, <4>1 DEF OwnMailbox
    <3>3. OwnMailbox(c)'
      BY <1>0, <2>1, <2>3, <3>2, ConstantFacts DEF OwnMailbox
    <3>4. Balance(c)'
      <4>1. Taken(c) \in Nat /\ Taken(c)' = Taken(c)
        BY <1>0, <3>1 DEF Taken
      <4>2. Sent(c) = writes[c] /\ Sent(c)' = writes[c] + 1
        BY <1>3, <2>1, <2>3 DEF Sent
      <4> QED
        BY <1>1, <2>1, <2>3, <3>1, <4>1, <4>2 DEF Balance
    <3> QED
      BY <2>3, <3>3, <3>4
  <2> QED
    BY <2>2, <2>3
<1> QED
  BY <1>4, <1>5, <1>6, <1>8, <1>9, <1>10, <1>11 DEF OwnMessages, Faultless

\* The stop message is the last that is written to a context.
LEMMA SendStopStep ==
  ASSUME IInv, SendStop
  PROVE  IInv'
<1> USE DEF IInv
<1>0. PICK c \in Ctxs :
      /\ main = "stop" /\ main' = "join" /\ i = c /\ i' = c /\ StopMsg \in Msgs
      /\ Put(c, StopMsg)
      /\ UNCHANGED <<pattern, writes, pc, r3, r4, r7, thread, run_rc, thread_abort, loaded,
                     faults>>
  BY DEF SendStop, Loops, Msgs
<1>1. /\ mbox' \in [Ctxs -> Seq(Msgs)]
      /\ \A d \in Ctxs \ {c} : mbox'[d] = mbox[d]
      /\ Len(mbox'[c]) = Len(mbox[c]) + 1 /\ Len(mbox'[c]) <= Depth
      /\ \A k \in 1..Len(mbox[c]) : mbox'[c][k] = mbox[c][k]
      /\ mbox'[c][Len(mbox[c]) + 1] = StopMsg
  BY <1>0, PutEffect
<1>4. TypeOK'
  <2>1. \A d \in Ctxs : Len(mbox'[d]) <= Depth
    BY <1>1 DEF TypeOK
  <2> QED
    BY <1>0, <1>1, <2>1 DEF TypeOK, Msgs
<1>5. Loops'
  BY <1>0 DEF Loops
<1>6. Named'
  BY <1>0 DEF Named
<1>8. NoStopYet'
  BY <1>0 DEF NoStopYet
<1>9. Programs'
  BY <1>0 DEF Programs, Program1
<1>10. ASSUME NEW d \in Ctxs PROVE Foreign(d)'
  <2>1. Foreign(d) /\ TookOwn(d)' = TookOwn(d) /\ TookStop(d) = TookStop(d)'
    BY <1>0 DEF OwnMessages, TookOwn, TookStop
  <2>2. mbox[d] \in Seq(Msgs) /\ mbox'[d] \in Seq(Msgs)
    BY <1>1 DEF TypeOK, Msgs
  <2>3. Cardinality(Own(mbox[d], d)) <= Cardinality(Own(mbox'[d], d))
    <3>1. Len(mbox[d]) <= Len(mbox'[d]) /\ \A k \in 1..Len(mbox[d]) : mbox'[d][k] = mbox[d][k]
      BY <1>1, <2>2
    <3> QED
      BY <2>2, <3>1, OwnGrows
  <2>4. Cardinality(Own(mbox[d], d)) \in Nat /\ Cardinality(Own(mbox'[d], d)) \in Nat
    BY <2>2, OwnFinite
  <2>5. faults \in Nat /\ writes[d] \in Nat
    BY DEF TypeOK
  <2> QED
    BY <1>0, <2>1, <2>3, <2>4, <2>5 DEF Foreign
<1>11. ASSUME faults' = 0, NEW d \in Ctxs PROVE OwnMailbox(d)' /\ Balance(d)'
  <2>1. OwnMailbox(d) /\ Balance(d)
    BY <1>0, <1>11 DEF Faultless
  <2>2. CASE d # c
    <3>1. StopSent(d)' = StopSent(d)
      BY <1>0, <2>2, ConstantFacts DEF StopSent
    <3> QED
      BY <1>0, <1>1, <2>1, <2>2, <3>1 DEF OwnMailbox, Balance, Sent, Taken
  <2>3. CASE d = c
    <3>0. ~StopSent(c) /\ StopSent(c)'
      BY <1>0, ConstantFacts DEF StopSent
    <3>1. Len(mbox[c]) \in Nat /\ writes[c] \in Nat /\ r7[c] \in Nat
      BY <1>0 DEF TypeOK
    <3>2. \A k \in 1..Len(mbox'[c]) : k \in 1..Len(mbox[c]) \/ k = Len(mbox[c]) + 1
      BY <1>1, <3>1
    <3>3. OwnMailbox(c)'
      BY <1>0, <1>1, <2>1, <2>3, <3>0, <3>2, ConstantFacts DEF OwnMailbox
    <3>4. Balance(c)'
      <4>1. Taken(c) \in Nat /\ Taken(c)' = Taken(c)
        BY <1>0, <3>1 DEF Taken
      <4>2. Sent(c) = writes[c] /\ Sent(c)' = writes[c] + 1
        BY <1>0, <3>0 DEF Sent
      <4> QED
        BY <1>1, <2>1, <2>3, <3>1, <4>1, <4>2 DEF Balance
    <3> QED
      BY <2>3, <3>3, <3>4
  <2> QED
    BY <2>2, <2>3
<1> QED
  BY <1>4, <1>5, <1>6, <1>8, <1>9, <1>10, <1>11 DEF OwnMessages, Faultless

\* Both reads of the mailbox: the first sets r3, the others set r4.
LEMMA ReadStep ==
  ASSUME IInv, NEW c \in Ctxs, ReadId(c) \/ ReadMessage(c)
  PROVE  IInv'
<1> DEFINE h == mbox[c][1]
<1> USE DEF IInv
<1>0. /\ c \in loaded /\ pc[c] \in {"id", "message"} /\ mbox[c] # << >>
      /\ mbox' = [mbox EXCEPT ![c] = Tail(@)]
      /\ UNCHANGED <<pattern, main, i, writes, r7, thread, run_rc, thread_abort, loaded, faults>>
  BY DEF ReadId, ReadMessage
<1>1. /\ mbox' \in [Ctxs -> Seq(Msgs)]
      /\ \A d \in Ctxs \ {c} : mbox'[d] = mbox[d]
      /\ Len(mbox[c]) >= 1 /\ Len(mbox'[c]) = Len(mbox[c]) - 1
      /\ \A k \in 1..Len(mbox[c]) - 1 : mbox'[c][k] = mbox[c][k + 1]
      /\ Head(mbox[c]) = h /\ h \in Msgs
  BY <1>0, TakeEffect
<1>2. mbox[c] \in Seq(Msgs) /\ mbox'[c] \in Seq(Msgs) /\ Len(mbox[c]) \in Nat
  BY <1>1 DEF TypeOK, Msgs
<1> HIDE DEF h
<1>3. /\ pc'[c] = IF pc[c] = "id" THEN "message" ELSE "count"
      /\ r3'[c] = IF pc[c] = "id" THEN h ELSE r3[c]
      /\ r4'[c] = IF pc[c] = "id" THEN r4[c] ELSE h
      /\ \A d \in Ctxs \ {c} : pc'[d] = pc[d] /\ r3'[d] = r3[d] /\ r4'[d] = r4[d]
  BY <1>1 DEF TypeOK, ReadId, ReadMessage
<1>4. TypeOK'
  <2>1. Len(mbox'[c]) <= Depth
    BY <1>1, <1>2, SchedAssumption DEF TypeOK
  <2>2. \A d \in Ctxs : Len(mbox'[d]) <= Depth
    BY <1>1, <2>1 DEF TypeOK
  <2>3. (/\ pc \in [Ctxs -> {"id", "message", "count", "compare", "stop1337", "stop0"}]
         /\ r3 \in [Ctxs -> Ctxs \cup {StopMsg, None}]
         /\ r4 \in [Ctxs -> Ctxs \cup {StopMsg, None}])'
    <3>1. Head(mbox[c]) \in Ctxs \cup {StopMsg, None}
      BY <1>1 DEF Msgs
    <3>2. CASE ReadId(c)
      BY <3>1, <3>2 DEF TypeOK, ReadId
    <3>3. CASE ReadMessage(c)
      BY <3>1, <3>3 DEF TypeOK, ReadMessage
    <3> QED
      BY <3>2, <3>3
  <2> QED
    BY <1>0, <1>1, <2>2, <2>3 DEF TypeOK, Msgs
<1>5. Loops'
  BY <1>0 DEF Loops
<1>6. Named'
  BY <1>0 DEF Named
<1>7. NoStopYet'
  <2> SUFFICES ASSUME main' \in {"write", "check"}, NEW d \in Ctxs
               PROVE  /\ \A k \in 1..Len(mbox'[d]) : mbox'[d][k] # StopMsg
                      /\ r3'[d] # StopMsg /\ r4'[d] # StopMsg
    BY DEF NoStopYet
  <2>1. /\ \A k \in 1..Len(mbox[d]) : mbox[d][k] # StopMsg
        /\ r3[d] # StopMsg /\ r4[d] # StopMsg
    BY <1>0 DEF NoStopYet
  <2>2. CASE d # c
    BY <1>0, <1>1, <1>3, <2>1, <2>2
  <2>3. CASE d = c
    <3>1. h # StopMsg
      BY <1>1, <1>2, <2>1, <2>3 DEF h
    <3>2. ASSUME NEW k \in 1..Len(mbox'[c]) PROVE mbox'[c][k] # StopMsg
      <4>1. k \in 1..Len(mbox[c]) - 1 /\ k + 1 \in 1..Len(mbox[c])
        BY <1>1, <1>2
      <4> QED
        BY <1>1, <2>1, <2>3, <4>1
    <3> QED
      BY <1>0, <1>3, <2>1, <2>3, <3>1, <3>2
  <2> QED
    BY <2>2, <2>3
<1>8. Programs'
  BY <1>0, <1>1, <1>3, ConstantFacts DEF Programs, Program1, Msgs
<1>9. ASSUME NEW d \in Ctxs PROVE Foreign(d)'
  <2>1. Foreign(d)
    BY DEF OwnMessages
  <2>2. CASE d # c
    BY <1>0, <1>1, <1>3, <2>1, <2>2 DEF Foreign, TookOwn, TookStop
  <2>3. CASE d = c
    <3> SUFFICES ASSUME ~TookOwn(c)'
                 PROVE  writes[c] <= faults + (IF TookStop(c)' THEN 0 ELSE Cardinality(Own(mbox'[c], c)))
      BY <1>0, <2>3 DEF Foreign
    <3>1. ~TookOwn(c) /\ h # c
      BY <1>0, <1>3, ConstantFacts DEF TookOwn, Programs, Program1
    <3>2. TookStop(c) => TookStop(c)'
      BY <1>0, <1>3, ConstantFacts DEF TookStop, Programs, Program1
    <3>3. h = StopMsg => TookStop(c)' /\ Cardinality(Own(mbox[c], c)) = 0
      BY <1>0, <1>3, OwnNone DEF TookStop, h
    <3>4. h # StopMsg => TookStop(c)' = TookStop(c)
      BY <1>0, <1>3, ConstantFacts DEF TookStop, Programs, Program1
    <3>5. Cardinality(Own(mbox[c], c)) <= Cardinality(Own(mbox'[c], c))
      BY <1>1, <1>2, <3>1, OwnShifted DEF h
    <3>6. Cardinality(Own(mbox[c], c)) \in Nat /\ Cardinality(Own(mbox'[c], c)) \in Nat
      BY <1>2, OwnFinite
    <3>7. faults \in Nat /\ writes[c] \in Nat
      BY DEF TypeOK
    <3> QED
      BY <2>1, <2>3, <3>1, <3>2, <3>3, <3>4, <3>5, <3>6, <3>7 DEF Foreign
  <2> QED
    BY <2>2, <2>3
<1>10. ASSUME faults' = 0, NEW d \in Ctxs PROVE OwnMailbox(d)' /\ Balance(d)'
  <2>1. OwnMailbox(d) /\ Balance(d) /\ StopSent(d)' = StopSent(d)
    BY <1>0, <1>10 DEF Faultless, StopSent
  <2>2. CASE d # c
    BY <1>0, <1>1, <1>3, <2>1, <2>2 DEF OwnMailbox, Balance, Sent, Taken
  <2>3. CASE d = c
    <3>1. h \in {c, StopMsg} /\ (h = StopMsg => Len(mbox[c]) = 1 /\ StopSent(c))
      <4>1. 1 \in 1..Len(mbox[c])
        BY <1>1, <1>2
      <4> QED
        BY <2>1, <2>3, <4>1 DEF OwnMailbox, h
    <3>2. h = StopMsg => mbox'[c] = << >>
      BY <1>1, <1>2, <3>1, EmptySeq
    <3>3. \A k \in 1..Len(mbox'[c]) :
            /\ mbox'[c][k] \in {c, StopMsg}
            /\ mbox'[c][k] = StopMsg => k = Len(mbox'[c]) /\ StopSent(c)
      <4> SUFFICES ASSUME NEW k \in 1..Len(mbox'[c])
                   PROVE  /\ mbox'[c][k] \in {c, StopMsg}
                          /\ mbox'[c][k] = StopMsg => k = Len(mbox'[c]) /\ StopSent(c)
        OBVIOUS
      <4>1. k \in 1..Len(mbox[c]) - 1 /\ k + 1 \in 1..Len(mbox[c]) /\ mbox'[c][k] = mbox[c][k + 1]
        BY <1>1, <1>2
      <4>2. /\ mbox[c][k + 1] \in {c, StopMsg}
            /\ mbox[c][k + 1] = StopMsg => k + 1 = Len(mbox[c]) /\ StopSent(c)
        BY <2>1, <2>3, <4>1 DEF OwnMailbox
      <4> QED
        BY <1>1, <1>2, <4>1, <4>2
    <3>4. OwnMailbox(c)'
      BY <1>0, <1>3, <2>1, <2>3, <3>1, <3>2, <3>3, ConstantFacts DEF OwnMailbox, Programs, Program1
    <3>5. Balance(c)'
      <4>1. r7[c] \in Nat
        BY DEF TypeOK
      <4>2. Taken(c) \in Nat /\ Taken(c)' = Taken(c) + 1
        BY <1>0, <1>3, <4>1 DEF Taken, Programs, Program1
      <4>3. Sent(c)' = Sent(c)
        BY <1>0, <2>1, <2>3 DEF Sent
      <4> QED
        BY <1>1, <1>2, <2>1, <2>3, <4>2, <4>3 DEF Balance
    <3> QED
      BY <2>3, <3>4, <3>5
  <2> QED
    BY <2>2, <2>3
<1> QED
  BY <1>4, <1>5, <1>6, <1>7, <1>8, <1>9, <1>10 DEF OwnMessages, Faultless

\* After a misrouted message only what was taken is sure.
LEMMA MisrouteStep ==
  ASSUME IInv, NEW c \in Ctxs, NEW d \in Ctxs, Misroute(c, d)
  PROVE  IInv'
<1> USE DEF IInv
<1>0. /\ faults' = faults + 1 /\ faults < MaxFaults /\ c # d
      /\ UNCHANGED <<pattern, main, i, writes, pc, r3, r4, r7, thread, run_rc, thread_abort, loaded>>
  BY DEF Misroute
<1>1. /\ mbox' \in [Ctxs -> Seq(Msgs)]
      /\ \A e \in Ctxs \ {c, d} : mbox'[e] = mbox[e]
      /\ Len(mbox[c]) >= 1 /\ Len(mbox'[c]) = Len(mbox[c]) - 1
      /\ \A k \in 1..Len(mbox[c]) - 1 : mbox'[c][k] = mbox[c][k]
      /\ Len(mbox'[d]) = Len(mbox[d]) + 1 /\ Len(mbox'[d]) <= Depth
      /\ \A k \in 1..Len(mbox[d]) : mbox'[d][k] = mbox[d][k]
      /\ mbox'[d][Len(mbox[d]) + 1] = mbox[c][Len(mbox[c])]
  BY MisrouteEffect
<1>2. \A e \in Ctxs : mbox[e] \in Seq(Msgs) /\ mbox'[e] \in Seq(Msgs) /\ Len(mbox[e]) \in Nat
  <2>1. mbox \in [Ctxs -> Seq(Msgs)]
    BY DEF TypeOK, Msgs
  <2> QED
    BY <1>1, <2>1
<1>3. faults \in Nat /\ faults' \in 0..MaxFaults
  BY <1>0, SchedAssumption DEF TypeOK
<1>4. TypeOK'
  <2>1. Len(mbox'[c]) <= Depth
    BY <1>1, <1>2, SchedAssumption DEF TypeOK
  <2>2. \A e \in Ctxs : Len(mbox'[e]) <= Depth
    BY <1>1, <2>1 DEF TypeOK
  <2> QED
    BY <1>0, <1>1, <1>3, <2>2 DEF TypeOK, Msgs
<1>5. Loops'
  BY <1>0 DEF Loops
<1>6. Named'
  BY <1>0 DEF Named
<1>7. NoStopYet'
  <2> SUFFICES ASSUME main \in {"write", "check"}, NEW e \in Ctxs, NEW k \in 1..Len(mbox'[e])
               PROVE  mbox'[e][k] # StopMsg
    BY <1>0 DEF NoStopYet
  <2>1. \A f \in Ctxs : \A j \in 1..Len(mbox[f]) : mbox[f][j] # StopMsg
    BY DEF NoStopYet
  <2>2. CASE e \notin {c, d}
    BY <1>1, <2>1, <2>2
  <2>3. CASE e = c
    <3>1. k \in 1..Len(mbox[c]) - 1 /\ k \in 1..Len(mbox[c])
      BY <1>1, <1>2, <2>3
    <3> QED
      BY <1>1, <2>1, <2>3, <3>1
  <2>4. CASE e = d
    <3>1. Len(mbox[c]) \in 1..Len(mbox[c])
      BY <1>1, <1>2
    <3>2. k \in 1..Len(mbox[d]) \/ k = Len(mbox[d]) + 1
      BY <1>1, <1>2, <2>4
    <3> QED
      BY <1>1, <2>1, <2>4, <3>1, <3>2
  <2> QED
    BY <2>2, <2>3, <2>4
<1>8. Programs'
  BY <1>0 DEF Programs, Program1
<1>9. ASSUME NEW e \in Ctxs PROVE Foreign(e)'
  <2>1. Foreign(e) /\ TookOwn(e)' = TookOwn(e) /\ TookStop(e)' = TookStop(e)
    BY <1>0 DEF OwnMessages, TookOwn, TookStop
  <2>2. Cardinality(Own(mbox[e], e)) \in Nat /\ Cardinality(Own(mbox'[e], e)) \in Nat
    BY <1>2, OwnFinite
  <2>3. Cardinality(Own(mbox[e], e)) <= Cardinality(Own(mbox'[e], e)) + 1
    <3>1. CASE e \notin {c, d}
      BY <1>1, <2>2, <3>1
    <3>2. CASE e = c
      BY <1>1, <1>2, <3>2, OwnLost
    <3>3. CASE e = d
      <4>1. Cardinality(Own(mbox[d], d)) <= Cardinality(Own(mbox'[d], d))
        <5>1. Len(mbox[d]) <= Len(mbox'[d])
          BY <1>1, <1>2
        <5> QED
          BY <1>1, <1>2, <5>1, OwnGrows
      <4> QED
        BY <2>2, <3>3, <4>1
    <3> QED
      BY <3>1, <3>2, <3>3
  <2>4. writes[e] \in Nat
    BY DEF TypeOK
  <2> QED
    BY <1>0, <1>3, <2>1, <2>2, <2>3, <2>4 DEF Foreign
<1>10. faults' # 0
  BY <1>0, <1>3
<1> QED
  BY <1>4, <1>5, <1>6, <1>7, <1>8, <1>9, <1>10 DEF OwnMessages, Faultless

\* Nothing is written, taken or counted at the start.
LEMMA InitialInvariant ==
  ASSUME Init
  PROVE  IInv
<1> USE DEF Init
<1>1. TypeOK
  <2>1. \A c \in Ctxs : mbox[c] = << >> /\ Len(mbox[c]) <= Depth
    BY SchedAssumption
  <2>2. mbox \in [Ctxs -> Seq(Ctxs \cup {StopMsg})]
    OBVIOUS
  <2>3. i \in 0..pattern_len /\ writes \in [Ctxs -> 0..pattern_len] /\ faults \in 0..MaxFaults
    BY SchedAssumption
  <2>4. loaded \subseteq Ctxs /\ Cardinality(loaded) <= Physical
    BY SchedAssumption, FS_EmptySet
  <2> QED
    BY <2>1, <2>2, <2>3, <2>4 DEF TypeOK
<1>2. Loops
  BY SchedAssumption DEF Loops, Ctxs
<1>3. Named /\ NoStopYet /\ Programs
  BY ConstantFacts DEF Named, NoStopYet, Programs, Program1
<1>4. ASSUME NEW c \in Ctxs PROVE Foreign(c)
  <2>1. mbox[c] \in Seq(Msgs) /\ writes[c] = 0 /\ faults = 0
    OBVIOUS
  <2>2. Cardinality(Own(mbox[c], c)) \in Nat
    BY <2>1, OwnFinite
  <2> QED
    BY <2>1, <2>2 DEF Foreign
<1>5. ASSUME NEW c \in Ctxs PROVE OwnMailbox(c) /\ Balance(c)
  <2>1. ~StopSent(c)
    BY ConstantFacts DEF StopSent
  <2> QED
    BY <2>1, ConstantFacts DEF OwnMailbox, Balance, Sent, Taken
<1> QED
  BY <1>1, <1>2, <1>3, <1>4, <1>5 DEF IInv, OwnMessages, Faultless

\* The invariant holds in every state of the test.
THEOREM Invariant == Spec => []IInv
<1>1. Init => IInv
  BY InitialInvariant
<1>2. IInv /\ [Next]_vars => IInv'
  <2> SUFFICES ASSUME IInv, [Next]_vars PROVE IInv'
    OBVIOUS
  <2>1. CASE Main
    BY <2>1, WriteStep, CheckStep, SendStopStep, JoinStep DEF Main
  <2>2. ASSUME NEW c \in Ctxs, Program(c) PROVE IInv'
    BY <2>2, ReadStep, CountStep, CompareStep, StopStep DEF Program
  <2>3. ASSUME NEW c \in Ctxs, ThreadEnds(c) \/ Load(c) \/ Unload(c) PROVE IInv'
    BY <2>3, ThreadEndsStep, LoadStep, UnloadStep
  <2>4. ASSUME NEW c \in Ctxs, NEW d \in Ctxs, Misroute(c, d) PROVE IInv'
    BY <2>4, MisrouteStep
  <2>5. CASE UNCHANGED vars
    <3>1. TypeOK' /\ Loops' /\ Named' /\ Programs'
      BY <2>5 DEF vars, IInv, TypeOK, Loops, Named, Programs, Program1
    <3> QED
      BY <2>5, <3>1, Unmoved DEF vars, IInv
  <2> QED
    BY <2>1, <2>2, <2>3, <2>4, <2>5 DEF Next, Terminated
<1> QED
  BY <1>1, <1>2, PTL DEF Spec

\* CountsRightly: no mailbox holds more than it can and no more contexts are loaded
\* than there are SPEs; and unless the kernel has misrouted a message, a program
\* that stops with 0x1337 has counted what main() has written to its mailbox.
THEOREM Counts == Spec => []CountsRightly
<1>1. ASSUME IInv, NEW c \in Ctxs, run_rc[c] = "1337", faults = 0
      PROVE  r7[c] = writes[c]
  <2>1. pc[c] = "stop1337" /\ r4[c] = StopMsg
    BY <1>1 DEF IInv, Programs, Program1
  <2>2. mbox[c] = << >> /\ StopSent(c) /\ Balance(c)
    BY <1>1, <2>1 DEF IInv, Faultless, OwnMailbox
  <2>3. r7[c] \in Nat /\ writes[c] \in Nat
    BY <1>1 DEF IInv, TypeOK
  <2> QED
    BY <2>1, <2>2, <2>3 DEF Balance, Sent, Taken
<1>2. IInv => CountsRightly
  BY <1>1 DEF CountsRightly, CountsWrites, IInv
<1> QED
  BY <1>2, Invariant, PTL

\* VerdictIsRight: the test fails only if the kernel has misrouted a message; if it
\* passes, a program with the id of another context was kept from all its own
\* messages by the kernel, and without a fault every context was in the data file.
THEOREM Verdict == Spec => []VerdictIsRight
<1>1. IInv => NoFalseAlarm
  <2> SUFFICES ASSUME IInv, main = "fail" \/ thread_abort, ~(faults > 0) PROVE FALSE
    BY DEF NoFalseAlarm
  <2>1. PICK c \in Ctxs : run_rc[c] = "0"
    BY DEF IInv, Loops
  <2>2. faults = 0
    BY DEF IInv, TypeOK
  <2> QED
    BY <2>1, <2>2 DEF IInv, Programs, Program1, Faultless, OwnMailbox
<1>2. IInv => ForeignIdNoticed
  <2> SUFFICES ASSUME IInv, main = "pass", NEW c \in Ctxs, r3[c] # c
               PROVE  writes[c] <= faults
    BY DEF ForeignIdNoticed
  <2>1. pc[c] = "stop1337"
    BY DEF IInv, Loops, Programs, Program1
  <2>2. ~TookOwn(c) /\ TookStop(c) /\ Foreign(c)
    BY <2>1 DEF IInv, OwnMessages, TookOwn, TookStop
  <2>3. faults \in Nat
    BY DEF IInv, TypeOK
  <2> QED
    BY <2>2, <2>3 DEF Foreign
<1>3. IInv => NeverPassesUncovered
  <2> SUFFICES ASSUME IInv, main = "pass", faults = 0, NEW c \in Ctxs
               PROVE  \E k \in 1..pattern_len : pattern[k] = c
    BY DEF NeverPassesUncovered, Covered
  <2>1. pc[c] = "stop1337" /\ r4[c] = StopMsg /\ r7[c] >= 1
    BY DEF IInv, Loops, Programs, Program1
  <2>2. mbox[c] = << >> /\ StopSent(c) /\ Balance(c)
    BY <2>1 DEF IInv, Faultless, OwnMailbox
  <2>3. r7[c] \in Nat /\ writes[c] \in Nat
    BY DEF IInv, TypeOK
  <2>4. writes[c] > 0
    BY <2>1, <2>2, <2>3 DEF Balance, Sent, Taken
  <2> QED
    BY <2>4 DEF IInv, Named
<1>4. IInv => VerdictIsRight
  BY <1>1, <1>2, <1>3 DEF VerdictIsRight
<1> QED
  BY <1>4, Invariant, PTL
=============================================================================
