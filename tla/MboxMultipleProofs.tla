------------------------- MODULE MboxMultipleProofs -------------------------
(***************************************************************************)
(* Proofs about MboxMultiple, for any number of messages, any interval and  *)
(* depth, and any number of messages lost or repeated and of calls that     *)
(* fail.                                                                    *)
(***************************************************************************)
EXTENDS MboxMultiple, FiniteSetTheorems, SequenceTheorems, TLAPS

Msgs == 0..StopMsg

-----------------------------------------------------------------------------
(* The inductive invariant: first what holds whatever the mailbox does.       *)

\* Where main() is, and what it can know of the SPE.
Loop ==
  /\ main \in {"send", "check", "regs"} => i < NrMsgs
  /\ main \in {"stopmsg", "join"} => i = NrMsgs \/ pc = "stop0" \/ run_rc = "error"
  /\ main = "pass" => run_rc = "1337"
  /\ main = "fail" => pc = "stop0" \/ ~loaded
  /\ run_rc = "1337" => pc = "stop1337"
  /\ run_rc = "0" => pc = "stop0"
  /\ run_rc = "error" => ~loaded /\ faults # 0
  /\ thread_abort \/ thread = "exited" => run_rc # "none"

\* The program has counted what it has accepted, one number after the other.
Accepted ==
  /\ pc # "stop0" => r0 = Len(got) /\ r0 <= NrMsgs
  /\ \A k \in 1..Len(got) : got[k] = k - 1

\* Before main() sends it there is no stop message; nothing else comes after it.
StopsLast ==
  /\ main \in {"send", "check", "regs", "stopmsg"} =>
       /\ \A k \in 1..Len(wbox) : wbox[k] # StopMsg
       /\ pc = "ceq" => r1 # StopMsg
       /\ pc # "stop1337"
  /\ \A j, k \in 1..Len(wbox) : j < k /\ wbox[j] = StopMsg => wbox[k] = StopMsg
  /\ pc = "ceq" /\ r1 = StopMsg => \A k \in 1..Len(wbox) : wbox[k] = StopMsg

\* The numbers that were sent and can no longer arrive.
Sent    == IF main \in {"check", "regs"} THEN i + 1 ELSE i
Missing == {n \in r0..Sent - 1 : /\ pc = "ceq" => n # r1
                                 /\ \A k \in 1..Len(wbox) : wbox[k] # n}

\* As long as the program goes on they are no more than the mailbox has lost; at
\* the stop message, they are all it has not accepted.
Losses ==
  /\ pc \in {"rdch", "ceq"} => Cardinality(Missing) <= faults
  /\ pc = "stop1337" => NrMsgs - r0 <= faults

(* Then what holds as long as the mailbox makes no mistake: the numbers and the *)
(* stop message, whose number is the next one, are in line without a gap.       *)

InLine ==
  /\ pc \in {"ceq", "stop1337"} => r1 = r0
  /\ pc = "stop1337" => r1 = StopMsg
  /\ pc # "stop0"
  /\ LET taken == IF pc = "rdch" THEN r0 ELSE r0 + 1
         sent  == IF main \in {"join", "pass", "fail"} THEN NrMsgs + 1 ELSE Sent
     IN  /\ \A k \in 1..Len(wbox) : wbox[k] = taken + k - 1
         /\ taken + Len(wbox) = sent
  /\ main # "fail"

Faultless == faults = 0 => InLine

IInv == TypeOK /\ Loop /\ Accepted /\ StopsLast /\ Losses /\ Faultless

-----------------------------------------------------------------------------
(* What the steps do to the mailbox *)

\* A message is written behind those in the mailbox.
LEMMA Appended ==
  ASSUME NEW q \in Seq(Msgs), NEW m \in Msgs
  PROVE  /\ Append(q, m) \in Seq(Msgs) /\ Len(Append(q, m)) = Len(q) + 1
         /\ \A k \in 1..Len(q) + 1 : Append(q, m)[k] = IF k = Len(q) + 1 THEN m ELSE q[k]
  OBVIOUS

\* A message is lost: those behind it move up.
LEMMA Removed ==
  ASSUME NEW q \in Seq(Msgs), NEW k \in 1..Len(q)
  PROVE  /\ RemoveAt(q, k) \in Seq(Msgs) /\ Len(RemoveAt(q, k)) = Len(q) - 1
         /\ \A j \in 1..Len(q) - 1 : RemoveAt(q, k)[j] = IF j < k THEN q[j] ELSE q[j + 1]
<1> DEFINE s == SubSeq(q, 1, k - 1)
           t == SubSeq(q, k + 1, Len(q))
<1>1. /\ s \in Seq(Msgs) /\ Len(s) = k - 1
      /\ \A j \in 1..k - 1 : s[j] = q[j]
  OBVIOUS
<1>2. /\ t \in Seq(Msgs) /\ Len(t) = Len(q) - k
      /\ \A j \in 1..Len(q) - k : t[j] = q[k + j]
  OBVIOUS
<1>3. RemoveAt(q, k) = s \o t
  BY DEF RemoveAt
<1> HIDE DEF s, t
<1>4. /\ s \o t \in Seq(Msgs) /\ Len(s \o t) = Len(s) + Len(t)
      /\ \A j \in 1..Len(s) + Len(t) : (s \o t)[j] = IF j <= Len(s) THEN s[j] ELSE t[j - Len(s)]
  BY <1>1, <1>2, ConcatProperties
<1>5. Len(s) + Len(t) = Len(q) - 1
  BY <1>1, <1>2
<1>6. ASSUME NEW j \in 1..Len(q) - 1
      PROVE  (s \o t)[j] = IF j < k THEN q[j] ELSE q[j + 1]
  <2>1. CASE j < k
    BY <1>1, <1>4, <1>5, <2>1
  <2>2. CASE ~(j < k)
    <3>1. (s \o t)[j] = t[j - (k - 1)] /\ j - (k - 1) \in 1..Len(q) - k
      BY <1>1, <1>4, <1>5, <2>2
    <3> QED
      BY <1>2, <2>2, <3>1
  <2> QED
    BY <2>1, <2>2
<1> QED
  BY <1>3, <1>4, <1>5, <1>6

\* A message is repeated in place.
LEMMA Inserted ==
  ASSUME NEW q \in Seq(Msgs), NEW k \in 1..Len(q)
  PROVE  /\ InsertAt(q, k, q[k]) \in Seq(Msgs) /\ Len(InsertAt(q, k, q[k])) = Len(q) + 1
         /\ \A j \in 1..Len(q) + 1 : InsertAt(q, k, q[k])[j] = IF j <= k THEN q[j] ELSE q[j - 1]
<1> DEFINE s == SubSeq(q, 1, k - 1)
           m == <<q[k]>>
           t == SubSeq(q, k, Len(q))
<1>1. /\ s \in Seq(Msgs) /\ Len(s) = k - 1
      /\ \A j \in 1..k - 1 : s[j] = q[j]
  OBVIOUS
<1>2. /\ t \in Seq(Msgs) /\ Len(t) = Len(q) - k + 1
      /\ \A j \in 1..Len(q) - k + 1 : t[j] = q[k + j - 1]
  OBVIOUS
<1>3. m \in Seq(Msgs) /\ Len(m) = 1 /\ m[1] = q[k]
  OBVIOUS
<1>4. InsertAt(q, k, q[k]) = (s \o m) \o t
  BY DEF InsertAt
<1> HIDE DEF s, m, t
<1>5. /\ s \o m \in Seq(Msgs) /\ Len(s \o m) = Len(s) + Len(m)
      /\ \A j \in 1..Len(s) + Len(m) : (s \o m)[j] = IF j <= Len(s) THEN s[j] ELSE m[j - Len(s)]
  BY <1>1, <1>3, ConcatProperties
<1>6. Len(s \o m) = k /\ \A j \in 1..k : (s \o m)[j] = q[j]
  <2>1. Len(s) + Len(m) = k
    BY <1>1, <1>3
  <2>2. ASSUME NEW j \in 1..k PROVE (s \o m)[j] = q[j]
    <3>1. CASE j <= k - 1
      BY <1>1, <1>5, <2>1, <3>1
    <3>2. CASE j = k
      <4>1. (s \o m)[k] = m[k - (k - 1)] /\ k - (k - 1) = 1
        BY <1>1, <1>5, <2>1
      <4> QED
        BY <1>3, <3>2, <4>1
    <3>3. j <= k - 1 \/ j = k
      OBVIOUS
    <3> QED
      BY <3>1, <3>2, <3>3
  <2> QED
    BY <1>5, <2>1, <2>2
<1> DEFINE u == s \o m
<1>7. u \in Seq(Msgs) /\ Len(u) = k /\ \A j \in 1..k : u[j] = q[j]
  BY <1>5, <1>6
<1>8. InsertAt(q, k, q[k]) = u \o t
  BY <1>4
<1> HIDE DEF u
<1>9. /\ u \o t \in Seq(Msgs) /\ Len(u \o t) = Len(u) + Len(t)
      /\ \A j \in 1..Len(u) + Len(t) : (u \o t)[j] = IF j <= Len(u) THEN u[j] ELSE t[j - Len(u)]
  BY <1>2, <1>7, ConcatProperties
<1>10. Len(u) + Len(t) = Len(q) + 1
  BY <1>2, <1>7
<1>11. ASSUME NEW j \in 1..Len(q) + 1
       PROVE  (u \o t)[j] = IF j <= k THEN q[j] ELSE q[j - 1]
  <2>1. CASE j <= k
    BY <1>7, <1>9, <1>10, <2>1
  <2>2. CASE ~(j <= k)
    <3>1. (u \o t)[j] = t[j - k] /\ j - k \in 1..Len(q) - k + 1 /\ k + (j - k) - 1 = j - 1
      BY <1>7, <1>9, <1>10, <2>2
    <3> QED
      BY <1>2, <2>2, <3>1
  <2> QED
    BY <2>1, <2>2
<1> QED
  BY <1>8, <1>9, <1>10, <1>11

-----------------------------------------------------------------------------
(* The invariant is inductive *)

USE MboxAssumption DEF StopMsg, speVars, threadVars

\* What is missing can be counted.
LEMMA MissingFinite ==
  ASSUME TypeOK
  PROVE  IsFiniteSet(Missing) /\ Cardinality(Missing) \in Nat
<1>1. r0 \in Int /\ Sent - 1 \in Int
  BY DEF TypeOK, Sent
<1>2. IsFiniteSet(r0..Sent - 1) /\ Missing \in SUBSET (r0..Sent - 1)
  BY <1>1, FS_Interval DEF Missing
<1> QED
  BY <1>2, FS_Subset, FS_CardinalityType

\* A step after which no more is missing keeps the bound.
LEMMA NoLoss ==
  ASSUME IInv, UNCHANGED <<r0, faults>>, pc' = pc \/ (pc = "rdch" /\ pc' = "ceq"),
         Missing' \subseteq Missing
  PROVE  Losses'
<1>1. Cardinality(Missing') <= Cardinality(Missing) /\ Cardinality(Missing') \in Nat
  BY MissingFinite, FS_Subset, FS_CardinalityType DEF IInv
<1> QED
  BY <1>1, MissingFinite DEF IInv, TypeOK, Losses

\* main() writes the next number: nothing is missing but what was.
LEMMA SendStep ==
  ASSUME IInv, Send
  PROVE  IInv'
<1> USE DEF IInv, Send
<1>0. /\ i \in Msgs /\ i < NrMsgs /\ wbox \in Seq(Msgs) /\ Sent = i /\ Sent' = i + 1
      /\ Len(wbox) \in Nat /\ r0 \in Nat
  BY DEF TypeOK, Loop, Msgs, Sent
<1>1. /\ wbox' \in Seq(Msgs) /\ Len(wbox') = Len(wbox) + 1
      /\ \A k \in 1..Len(wbox) + 1 : wbox'[k] = IF k = Len(wbox) + 1 THEN i ELSE wbox[k]
  BY <1>0, Appended
<1>2. TypeOK'
  BY <1>0, <1>1 DEF TypeOK, Msgs
<1>3. Loop' /\ Accepted'
  BY DEF Loop, Accepted
<1>4. StopsLast'
  <2>1. \A k \in 1..Len(wbox') : wbox'[k] # StopMsg
    BY <1>0, <1>1 DEF StopsLast
  <2> QED
    BY <2>1 DEF StopsLast
<1>5. Missing' \subseteq Missing
  <2> SUFFICES ASSUME NEW n \in Missing' PROVE n \in Missing
    OBVIOUS
  <2>1. /\ n \in r0..(i + 1) - 1 /\ (pc = "ceq" => n # r1)
        /\ \A k \in 1..Len(wbox) + 1 : wbox'[k] # n
    BY <1>0, <1>1 DEF Missing
  <2>2. n # i
    BY <1>0, <1>1, <2>1
  <2>3. \A k \in 1..Len(wbox) : wbox[k] # n
    BY <1>0, <1>1, <2>1
  <2>4. n \in r0..i - 1
    BY <1>0, <2>1, <2>2 DEF Msgs
  <2> QED
    BY <1>0, <2>1, <2>3, <2>4 DEF Missing
<1>6. Losses'
  BY <1>5, NoLoss
<1>7. ASSUME faults' = 0 PROVE InLine'
  <2>1. InLine
    BY <1>7 DEF Faultless
  <2> DEFINE taken == IF pc = "rdch" THEN r0 ELSE r0 + 1
  <2>2. taken \in Nat /\ taken + Len(wbox) = i /\ \A k \in 1..Len(wbox) : wbox[k] = taken + k - 1
    BY <1>0, <2>1 DEF InLine
  <2>3. /\ taken + Len(wbox') = i + 1
        /\ \A k \in 1..Len(wbox') : wbox'[k] = taken + k - 1
    BY <1>0, <1>1, <2>2
  <2> QED
    BY <1>0, <2>1, <2>3 DEF InLine
<1> QED
  BY <1>2, <1>3, <1>4, <1>6, <1>7 DEF Faultless

\* The stop message goes behind all numbers.
LEMMA SendStopStep ==
  ASSUME IInv, SendStop
  PROVE  IInv'
<1> USE DEF IInv, SendStop
<1>0. /\ StopMsg \in Msgs /\ wbox \in Seq(Msgs) /\ Sent = i /\ Sent' = i
      /\ Len(wbox) \in Nat /\ r0 \in Nat
  BY DEF TypeOK, Msgs, Sent
<1>1. /\ wbox' \in Seq(Msgs) /\ Len(wbox') = Len(wbox) + 1
      /\ \A k \in 1..Len(wbox) + 1 : wbox'[k] = IF k = Len(wbox) + 1 THEN StopMsg ELSE wbox[k]
  BY <1>0, Appended
<1>2. TypeOK'
  BY <1>0, <1>1 DEF TypeOK, Msgs
<1>3. Loop' /\ Accepted'
  BY DEF Loop, Accepted
<1>4. StopsLast'
  <2>1. ASSUME NEW j \in 1..Len(wbox'), NEW k \in 1..Len(wbox'), j < k
        PROVE  wbox'[j] # StopMsg
    BY <1>0, <1>1, <2>1 DEF StopsLast
  <2> QED
    BY <2>1 DEF StopsLast
<1>5. Missing' \subseteq Missing
  <2> SUFFICES ASSUME NEW n \in Missing' PROVE n \in Missing
    OBVIOUS
  <2>1. \A k \in 1..Len(wbox) : wbox[k] # n
    BY <1>0, <1>1 DEF Missing
  <2> QED
    BY <1>0, <2>1 DEF Missing
<1>6. Losses'
  BY <1>5, NoLoss
<1>7. ASSUME faults' = 0 PROVE InLine'
  <2>1. InLine /\ i = NrMsgs
    BY <1>7 DEF Faultless, InLine, Loop
  <2> DEFINE taken == IF pc = "rdch" THEN r0 ELSE r0 + 1
  <2>2. taken \in Nat /\ taken + Len(wbox) = i /\ \A k \in 1..Len(wbox) : wbox[k] = taken + k - 1
    BY <1>0, <2>1 DEF InLine
  <2>3. /\ taken + Len(wbox') = NrMsgs + 1
        /\ \A k \in 1..Len(wbox') : wbox'[k] = taken + k - 1
    BY <1>0, <1>1, <2>1, <2>2
  <2> QED
    BY <1>0, <2>1, <2>3 DEF InLine
<1> QED
  BY <1>2, <1>3, <1>4, <1>6, <1>7 DEF Faultless

\* A call that fails is a fault, and the program does not go on.
LEMMA FailingCallStep ==
  ASSUME IInv, WriteFails \/ RunFails
  PROVE  IInv'
<1> USE DEF IInv
<1>0. /\ faults \in Nat /\ faults' = faults + 1 /\ faults' \in 0..MaxFaults /\ loaded' = FALSE
      /\ UNCHANGED <<sched, i, wbox, pc, r0, r1, got, thread, thread_abort>>
      /\ \/ main \in {"send", "stopmsg"} /\ main' = "fail" /\ run_rc' = run_rc
         \/ main' = main /\ main # "fail" /\ main # "pass" /\ run_rc = "none" /\ run_rc' = "error"
  BY DEF WriteFails, RunFails, TypeOK
<1>1. TypeOK'
  BY <1>0 DEF TypeOK
<1>2. Loop' /\ Accepted' /\ StopsLast'
  BY <1>0 DEF Loop, Accepted, StopsLast
<1>3. Missing' = Missing
  BY <1>0 DEF Missing, Sent
<1>4. Losses'
  <2>1. Cardinality(Missing) \in Nat /\ r0 \in Nat
    BY MissingFinite DEF TypeOK
  <2> QED
    BY <1>0, <1>3, <2>1 DEF Losses
<1>5. faults' # 0
  BY <1>0
<1> QED
  BY <1>1, <1>2, <1>4, <1>5 DEF Faultless

\* The loop is left when thread_abort is seen.
LEMMA AbortStep ==
  ASSUME IInv, Abort
  PROVE  IInv'
<1> USE DEF IInv, Abort
<1>0. /\ pc = "stop0" \/ (run_rc = "error" /\ ~loaded /\ faults # 0)
      /\ i < NrMsgs /\ i \in Nat /\ r0 \in Nat
  BY DEF TypeOK, Loop, StopsLast
<1>1. TypeOK'
  BY DEF TypeOK
<1>2. Loop' /\ Accepted' /\ StopsLast'
  BY <1>0 DEF Loop, Accepted, StopsLast
<1>3. Missing' \subseteq Missing
  BY <1>0 DEF Missing, Sent
<1>4. Losses'
  BY <1>3, NoLoss
<1>5. faults # 0
  BY <1>0 DEF Faultless, InLine
<1> QED
  BY <1>1, <1>2, <1>4, <1>5 DEF Faultless

\* The two steps that go on to the next message.
LEMMA GoOnStep ==
  ASSUME IInv, GoOn \/ ReadRegs
  PROVE  IInv'
<1> USE DEF IInv
<1>0. /\ main \in {"check", "regs"} /\ i < NrMsgs /\ i \in Nat
      /\ \/ main' = "regs" /\ i' = i
         \/ main' = "send" /\ i' = i + 1 /\ i + 1 < NrMsgs
         \/ main' = "stopmsg" /\ i' = i + 1 /\ i + 1 = NrMsgs
      /\ UNCHANGED <<wbox, pc, r0, r1, got, thread, run_rc, thread_abort, faults>>
      /\ loaded' \in BOOLEAN /\ (loaded' => loaded) /\ sched' = sched
  <2>1. main \in {"check", "regs"} /\ i < NrMsgs /\ i \in Nat
    BY DEF GoOn, ReadRegs, TypeOK, Loop
  <2>2. loaded' \in BOOLEAN /\ (loaded' => loaded)
    <3>1. loaded \in BOOLEAN
      BY DEF TypeOK
    <3>2. loaded' = loaded \/ loaded' = FALSE
      <4>1. CASE GoOn
        BY <4>1 DEF GoOn
      <4>2. CASE ReadRegs
        BY <4>2 DEF ReadRegs
      <4> QED
        BY <4>1, <4>2
    <3>3. CASE loaded' = loaded
      BY <3>1, <3>3
    <3>4. CASE loaded' = FALSE
      BY <3>4
    <3> QED
      BY <3>2, <3>3, <3>4
  <2>3. NextMsg \/ (main' = "regs" /\ i' = i)
    BY DEF GoOn, ReadRegs
  <2>4. ASSUME NextMsg
        PROVE  \/ main' = "send" /\ i' = i + 1 /\ i + 1 < NrMsgs
               \/ main' = "stopmsg" /\ i' = i + 1 /\ i + 1 = NrMsgs
    BY <2>1, <2>4 DEF NextMsg
  <2> QED
    BY <2>1, <2>2, <2>3, <2>4 DEF GoOn, ReadRegs
<1>1. TypeOK'
  BY <1>0 DEF TypeOK
<1>2. Loop' /\ Accepted' /\ StopsLast'
  BY <1>0 DEF Loop, Accepted, StopsLast
<1>3. Sent' = Sent
  BY <1>0 DEF Sent
<1>4. Missing' = Missing
  BY <1>0, <1>3 DEF Missing
<1>5. Losses'
  BY <1>0, <1>4, NoLoss
<1>6. Faultless'
  BY <1>0, <1>3 DEF Faultless, InLine
<1> QED
  BY <1>1, <1>2, <1>5, <1>6

\* main() judges after the thread has ended.
LEMMA JoinStep ==
  ASSUME IInv, Join
  PROVE  IInv'
<1> USE DEF IInv, Join
<1>1. TypeOK'
  BY DEF TypeOK
<1>2. Loop' /\ Accepted' /\ StopsLast'
  BY DEF TypeOK, Loop, Accepted, StopsLast
<1>3. Missing' = Missing
  BY DEF Missing, Sent
<1>4. Losses'
  BY <1>3, NoLoss
<1>5. Faultless'
  BY DEF TypeOK, Loop, Faultless, InLine
<1> QED
  BY <1>1, <1>2, <1>4, <1>5

\* The program takes the first message.
LEMMA ReadMsgStep ==
  ASSUME IInv, ReadMsg
  PROVE  IInv'
<1> USE DEF IInv, ReadMsg
<1>0. wbox \in Seq(Msgs) /\ Len(wbox) \in Nat /\ r0 \in Nat /\ Sent' = Sent
  BY DEF TypeOK, Msgs, Sent
<1>1. /\ wbox' \in Seq(Msgs) /\ Len(wbox) >= 1 /\ Len(wbox') = Len(wbox) - 1
      /\ r1' = wbox[1] /\ r1' \in Msgs
      /\ \A k \in 1..Len(wbox) - 1 : wbox'[k] = wbox[k + 1]
  BY <1>0, HeadTailProperties
<1>2. TypeOK'
  BY <1>0, <1>1 DEF TypeOK, Msgs
<1>3. Loop' /\ Accepted'
  BY DEF Loop, Accepted
<1>4. StopsLast'
  <2>1. main \in {"send", "check", "regs", "stopmsg"} =>
          r1' # StopMsg /\ \A k \in 1..Len(wbox') : wbox'[k] # StopMsg
    BY <1>0, <1>1 DEF StopsLast
  <2>2. ASSUME NEW j \in 1..Len(wbox'), NEW k \in 1..Len(wbox'), j < k, wbox'[j] = StopMsg
        PROVE  wbox'[k] = StopMsg
    <3>1. /\ j + 1 \in 1..Len(wbox) /\ k + 1 \in 1..Len(wbox) /\ j + 1 < k + 1
          /\ wbox'[j] = wbox[j + 1] /\ wbox'[k] = wbox[k + 1]
      BY <1>0, <1>1, <2>2
    <3> QED
      BY <2>2, <3>1 DEF StopsLast
  <2>3. ASSUME r1' = StopMsg, NEW k \in 1..Len(wbox') PROVE wbox'[k] = StopMsg
    <3>1. 1 \in 1..Len(wbox) /\ k + 1 \in 1..Len(wbox) /\ 1 < k + 1 /\ wbox'[k] = wbox[k + 1]
      BY <1>0, <1>1
    <3> QED
      BY <1>1, <2>3, <3>1 DEF StopsLast
  <2> QED
    BY <2>1, <2>2, <2>3 DEF StopsLast
<1>5. Missing' \subseteq Missing
  <2> SUFFICES ASSUME NEW n \in Missing' PROVE n \in Missing
    OBVIOUS
  <2>1. /\ n \in r0..Sent - 1 /\ n # r1'
        /\ \A k \in 1..Len(wbox') : wbox'[k] # n
    BY <1>0 DEF Missing
  <2>2. ASSUME NEW k \in 1..Len(wbox) PROVE wbox[k] # n
    <3>1. CASE k = 1
      BY <1>1, <2>1, <3>1
    <3>2. CASE k # 1
      <4>1. k - 1 \in 1..Len(wbox') /\ wbox'[k - 1] = wbox[k]
        BY <1>0, <1>1, <3>2
      <4> QED
        BY <2>1, <4>1
    <3> QED
      BY <3>1, <3>2
  <2> QED
    BY <2>1, <2>2 DEF Missing
<1>6. Losses'
  BY <1>5, NoLoss
<1>7. ASSUME faults' = 0 PROVE InLine'
  <2>1. InLine
    BY <1>7 DEF Faultless
  <2> DEFINE sent == IF main \in {"join", "pass", "fail"} THEN NrMsgs + 1 ELSE Sent
  <2>2. r0 + Len(wbox) = sent /\ \A k \in 1..Len(wbox) : wbox[k] = r0 + k - 1
    BY <2>1 DEF InLine
  <2>3. r1' = r0
    BY <1>0, <1>1, <2>2
  <2>4. /\ r0 + 1 + Len(wbox') = sent
        /\ \A k \in 1..Len(wbox') : wbox'[k] = r0 + 1 + k - 1
    BY <1>0, <1>1, <2>2
  <2> QED
    BY <1>0, <2>1, <2>3, <2>4 DEF InLine
<1> QED
  BY <1>2, <1>3, <1>4, <1>6, <1>7 DEF Faultless

\* The message is accepted, is the stop message, or stops the program.
LEMMA CompareStep ==
  ASSUME IInv, Compare
  PROVE  IInv'
<1> USE DEF IInv
<1>0. /\ pc = "ceq" /\ r1 \in 0..NrMsgs /\ r0 = Len(got) /\ r0 \in 0..NrMsgs
      /\ got \in Seq(0..NrMsgs - 1) /\ Sent' = Sent /\ Sent \in Nat
      /\ UNCHANGED <<sched, main, i, wbox, loaded, r1, thread, run_rc, thread_abort, faults>>
      /\ run_rc = "none" /\ loaded
  BY DEF Compare, TypeOK, Accepted, Loop, Sent
<1>1. CASE r1 = StopMsg /\ pc' = "stop1337" /\ UNCHANGED <<r0, got>>
  <2>1. TypeOK'
    BY <1>0, <1>1 DEF TypeOK
  <2>2. Loop' /\ Accepted' /\ StopsLast'
    BY <1>0, <1>1 DEF Loop, Accepted, StopsLast
  <2>3. Sent = NrMsgs
    BY <1>0, <1>1 DEF TypeOK, Loop, StopsLast, Sent
  <2>4. Missing = r0..NrMsgs - 1
    <3>1. ASSUME NEW n \in r0..NrMsgs - 1 PROVE n # StopMsg
      BY <1>0
    <3> QED
      BY <1>0, <1>1, <2>3, <3>1 DEF Missing, StopsLast
  <2>5. Cardinality(Missing) = NrMsgs - r0
    <3>1. r0 \in Int /\ NrMsgs - 1 \in Int
      BY <1>0
    <3>2. Cardinality(r0..NrMsgs - 1) = IF r0 > NrMsgs - 1 THEN 0 ELSE (NrMsgs - 1) - r0 + 1
      BY <3>1, FS_Interval
    <3> QED
      BY <1>0, <2>4, <3>2
  <2>6. Losses'
    BY <1>0, <1>1, <2>5 DEF Losses
  <2>7. Faultless'
    BY <1>0, <1>1 DEF Faultless, InLine
  <2> QED
    BY <2>1, <2>2, <2>6, <2>7
<1>2. CASE r1 # StopMsg /\ r1 = r0 /\ pc' = "rdch" /\ r0' = r0 + 1 /\ got' = Append(got, r1)
  <2>1. r1 \in 0..NrMsgs - 1
    BY <1>0, <1>2
  <2>2. /\ got' \in Seq(0..NrMsgs - 1) /\ Len(got') = r0 + 1
        /\ \A k \in 1..Len(got') : got'[k] = IF k = r0 + 1 THEN r1 ELSE got[k]
    BY <1>0, <1>2, <2>1
  <2>3. TypeOK'
    BY <1>0, <1>2, <2>2 DEF TypeOK
  <2>4. Loop' /\ StopsLast'
    BY <1>0, <1>2 DEF Loop, StopsLast
  <2>5. Accepted'
    BY <1>0, <1>2, <2>1, <2>2 DEF Accepted
  <2>6. Missing' \subseteq Missing
    BY <1>0, <1>2 DEF Missing
  <2>7. Losses'
    <3>1. Cardinality(Missing') <= Cardinality(Missing)
      BY <2>6, MissingFinite, FS_Subset
    <3>2. Cardinality(Missing') \in Nat /\ Cardinality(Missing) \in Nat
      BY <2>6, MissingFinite, FS_Subset, FS_CardinalityType
    <3> QED
      BY <1>0, <1>2, <3>1, <3>2 DEF Losses, TypeOK
  <2>8. Faultless'
    BY <1>0, <1>2 DEF Faultless, InLine
  <2> QED
    BY <2>3, <2>4, <2>5, <2>7, <2>8
<1>3. CASE r1 # StopMsg /\ r1 # r0 /\ pc' = "stop0" /\ r0' = r0 + 1 /\ got' = got
  <2>1. TypeOK'
    BY <1>0, <1>3 DEF TypeOK
  <2>2. Loop' /\ Accepted' /\ StopsLast'
    BY <1>0, <1>3 DEF Loop, Accepted, StopsLast
  <2>3. Losses' /\ Faultless'
    BY <1>0, <1>3 DEF Losses, Faultless, InLine
  <2> QED
    BY <2>1, <2>2, <2>3
<1> QED
  BY <1>0, <1>1, <1>2, <1>3 DEF Compare

\* The steps that touch neither the mailbox nor the program's registers.
LEMMA ThreadStep ==
  ASSUME IInv, Stop \/ ThreadEnds \/ Load \/ UNCHANGED vars
  PROVE  IInv'
<1> USE DEF IInv
<1>0. UNCHANGED <<main, i, wbox, pc, r0, r1, got, faults>>
  BY DEF Stop, ThreadEnds, Load, vars
<1>1. TypeOK'
  <2>1. CASE Stop
    BY <2>1 DEF TypeOK, Stop
  <2>2. CASE ThreadEnds
    BY <2>2 DEF TypeOK, ThreadEnds
  <2>3. CASE Load
    BY <2>3 DEF TypeOK, Load
  <2>4. CASE UNCHANGED vars
    BY <2>4 DEF TypeOK, vars
  <2> QED
    BY <2>1, <2>2, <2>3, <2>4
<1>2. Loop'
  BY DEF TypeOK, Loop, Stop, ThreadEnds, Load, vars
<1>3. Accepted' /\ StopsLast'
  BY <1>0 DEF Accepted, StopsLast
<1>4. Missing' = Missing /\ Sent' = Sent
  BY <1>0 DEF Missing, Sent
<1>5. Losses' /\ Faultless'
  BY <1>0, <1>4 DEF Losses, Faultless, InLine
<1> QED
  BY <1>1, <1>2, <1>3, <1>5

\* A loss makes one more number missing, and one more fault.
LEMMA LoseStep ==
  ASSUME IInv, Lose
  PROVE  IInv'
<1> USE DEF IInv
<1>0. PICK k \in 1..Len(wbox) : wbox' = RemoveAt(wbox, k)
  BY DEF Lose
<1>1. wbox \in Seq(Msgs) /\ Len(wbox) \in Nat
  BY DEF TypeOK, Msgs
<1>2. /\ wbox' \in Seq(Msgs) /\ Len(wbox') = Len(wbox) - 1
      /\ \A j \in 1..Len(wbox) - 1 : wbox'[j] = IF j < k THEN wbox[j] ELSE wbox[j + 1]
  BY <1>0, <1>1, Removed
<1>3. /\ faults \in Nat /\ faults' = faults + 1 /\ faults' \in 0..MaxFaults
      /\ UNCHANGED <<sched, main, i, loaded, pc, r0, r1, got, thread, run_rc, thread_abort>>
  BY DEF Lose, TypeOK
<1>4. TypeOK'
  BY <1>1, <1>2, <1>3 DEF TypeOK, Msgs
<1>5. Loop' /\ Accepted'
  BY <1>3 DEF Loop, Accepted
<1>6. \A j \in 1..Len(wbox') : \E l \in 1..Len(wbox) :
        wbox'[j] = wbox[l] /\ l = IF j < k THEN j ELSE j + 1
  BY <1>1, <1>2
<1>7. StopsLast'
  <2>1. ASSUME NEW j \in 1..Len(wbox'), NEW m \in 1..Len(wbox'), j < m, wbox'[j] = StopMsg
        PROVE  wbox'[m] = StopMsg
    <3>1. PICK x \in 1..Len(wbox) : wbox'[j] = wbox[x] /\ x = IF j < k THEN j ELSE j + 1
      BY <1>6
    <3>2. PICK y \in 1..Len(wbox) : wbox'[m] = wbox[y] /\ y = IF m < k THEN m ELSE m + 1
      BY <1>6
    <3>3. x < y
      BY <1>1, <1>2, <2>1, <3>1, <3>2
    <3> QED
      BY <2>1, <3>1, <3>2, <3>3 DEF StopsLast
  <2> QED
    BY <1>3, <1>6, <2>1 DEF StopsLast
<1>8. Losses'
  <2>1. Missing' \subseteq Missing \cup {wbox[k]}
    <3> SUFFICES ASSUME NEW n \in Missing', n # wbox[k] PROVE n \in Missing
      OBVIOUS
    <3>1. ASSUME NEW j \in 1..Len(wbox) PROVE wbox[j] # n
      <4>1. CASE j < k
        BY <1>1, <1>2, <4>1 DEF Missing
      <4>2. CASE j = k
        BY <4>2
      <4>3. CASE j > k
        <5>1. j - 1 \in 1..Len(wbox') /\ wbox'[j - 1] = wbox[j]
          BY <1>1, <1>2, <4>3
        <5> QED
          BY <5>1 DEF Missing
      <4> QED
        BY <4>1, <4>2, <4>3
    <3> QED
      BY <1>3, <3>1 DEF Missing, Sent
  <2>2. IsFiniteSet(Missing) /\ Cardinality(Missing) \in Nat
    BY MissingFinite
  <2>3. /\ IsFiniteSet(Missing \cup {wbox[k]})
        /\ Cardinality(Missing \cup {wbox[k]}) \in {Cardinality(Missing), Cardinality(Missing) + 1}
    BY <2>2, FS_AddElement
  <2>4. IsFiniteSet(Missing') /\ Cardinality(Missing') <= Cardinality(Missing \cup {wbox[k]})
    BY <2>1, <2>3, FS_Subset
  <2>5. Cardinality(Missing') \in Nat
    BY <2>4, FS_CardinalityType
  <2>6. Cardinality(Missing') <= Cardinality(Missing) + 1
    BY <2>2, <2>3, <2>4, <2>5
  <2>7. r0 \in Nat
    BY DEF TypeOK
  <2> QED
    BY <1>3, <2>2, <2>5, <2>6, <2>7 DEF Losses
<1>9. faults' # 0
  BY <1>3
<1> QED
  BY <1>4, <1>5, <1>7, <1>8, <1>9 DEF Faultless

\* A repetition makes nothing missing.
LEMMA RepeatStep ==
  ASSUME IInv, Repeat
  PROVE  IInv'
<1> USE DEF IInv
<1>0. PICK k \in 1..Len(wbox) : wbox' = InsertAt(wbox, k, wbox[k])
  BY DEF Repeat
<1>1. wbox \in Seq(Msgs) /\ Len(wbox) \in Nat
  BY DEF TypeOK, Msgs
<1>2. /\ wbox' \in Seq(Msgs) /\ Len(wbox') = Len(wbox) + 1
      /\ \A j \in 1..Len(wbox) + 1 : wbox'[j] = IF j <= k THEN wbox[j] ELSE wbox[j - 1]
  BY <1>0, <1>1, Inserted
<1>3. /\ faults \in Nat /\ faults' = faults + 1 /\ faults' \in 0..MaxFaults
      /\ UNCHANGED <<sched, main, i, loaded, pc, r0, r1, got, thread, run_rc, thread_abort>>
      /\ Len(wbox) < Depth
  BY DEF Repeat, TypeOK
<1>4. TypeOK'
  BY <1>1, <1>2, <1>3 DEF TypeOK, Msgs
<1>5. Loop' /\ Accepted'
  BY <1>3 DEF Loop, Accepted
<1>6. \A j \in 1..Len(wbox') : \E l \in 1..Len(wbox) :
        wbox'[j] = wbox[l] /\ l = IF j <= k THEN j ELSE j - 1
  BY <1>1, <1>2
<1>7. StopsLast'
  <2>1. ASSUME NEW j \in 1..Len(wbox'), NEW m \in 1..Len(wbox'), j < m, wbox'[j] = StopMsg
        PROVE  wbox'[m] = StopMsg
    <3>1. PICK x \in 1..Len(wbox) : wbox'[j] = wbox[x] /\ x = IF j <= k THEN j ELSE j - 1
      BY <1>6
    <3>2. PICK y \in 1..Len(wbox) : wbox'[m] = wbox[y] /\ y = IF m <= k THEN m ELSE m - 1
      BY <1>6
    <3>3. x < y \/ x = y
      BY <1>1, <1>2, <2>1, <3>1, <3>2
    <3> QED
      BY <2>1, <3>1, <3>2, <3>3 DEF StopsLast
  <2> QED
    BY <1>3, <1>6, <2>1 DEF StopsLast
<1>8. Losses'
  <2>1. Missing' \subseteq Missing
    <3> SUFFICES ASSUME NEW n \in Missing' PROVE n \in Missing
      OBVIOUS
    <3>1. ASSUME NEW j \in 1..Len(wbox) PROVE wbox[j] # n
      <4>1. CASE j <= k
        BY <1>1, <1>2, <4>1 DEF Missing
      <4>2. CASE j > k
        <5>1. j + 1 \in 1..Len(wbox') /\ wbox'[j + 1] = wbox[j]
          BY <1>1, <1>2, <4>2
        <5> QED
          BY <5>1 DEF Missing
      <4> QED
        BY <4>1, <4>2
    <3> QED
      BY <1>3, <3>1 DEF Missing, Sent
  <2>2. IsFiniteSet(Missing) /\ Cardinality(Missing) \in Nat
    BY MissingFinite
  <2>3. IsFiniteSet(Missing') /\ Cardinality(Missing') <= Cardinality(Missing)
    BY <2>1, <2>2, FS_Subset
  <2>4. Cardinality(Missing') \in Nat
    BY <2>3, FS_CardinalityType
  <2>5. r0 \in Nat
    BY DEF TypeOK
  <2> QED
    BY <1>3, <2>2, <2>3, <2>4, <2>5 DEF Losses
<1>9. faults' # 0
  BY <1>3
<1> QED
  BY <1>4, <1>5, <1>7, <1>8, <1>9 DEF Faultless

\* Nothing is sent, missing or accepted at the start.
LEMMA InitialInvariant ==
  ASSUME Init
  PROVE  IInv
<1> USE DEF Init
<1>1. TypeOK
  <2>1. /\ i \in 0..NrMsgs /\ r0 \in 0..NrMsgs + 1 /\ r1 \in 0..StopMsg /\ faults \in 0..MaxFaults
        /\ Len(wbox) <= Depth
    OBVIOUS
  <2>2. wbox \in Seq(0..StopMsg) /\ got \in Seq(0..NrMsgs - 1)
    BY EmptySeq
  <2> QED
    BY <2>1, <2>2 DEF TypeOK
<1>2. Loop /\ Accepted /\ StopsLast /\ Faultless
  BY DEF Loop, Accepted, StopsLast, Faultless, InLine, Sent
<1>3. Missing = {}
  BY DEF Missing, Sent
<1>4. Losses
  BY <1>3, FS_EmptySet DEF Losses
<1> QED
  BY <1>1, <1>2, <1>4 DEF IInv

\* The invariant holds in every state of either test.
THEOREM Invariant == Spec => []IInv
<1>1. Init => IInv
  BY InitialInvariant
<1>2. IInv /\ [Next]_vars => IInv'
  BY SendStep, AbortStep, GoOnStep, SendStopStep, JoinStep, ReadMsgStep, CompareStep,
     ThreadStep, LoseStep, RepeatStep, FailingCallStep DEF Next, Main, Spe, Fail, Terminated
<1> QED
  BY <1>1, <1>2, PTL DEF Spec

\* VerdictIsRight: the mailbox never holds more than its entries; a test that passes
\* has seen the numbers from 0 on, in order, without a gap or a repetition, and
\* misses no more at the end than the mailbox has lost; one that fails, fails
\* because the mailbox was at fault, or write() or spu_run() was.
THEOREM Verdict == Spec => []VerdictIsRight
<1>1. ASSUME IInv, main = "pass"
      PROVE  got = [k \in 1..Len(got) |-> k - 1] /\ Len(got) >= NrMsgs - faults
  <2>1. pc = "stop1337"
    BY <1>1 DEF IInv, Loop
  <2>2. r0 = Len(got) /\ \A k \in 1..Len(got) : got[k] = k - 1
    BY <1>1, <2>1 DEF IInv, Accepted
  <2>3. NrMsgs - r0 <= faults /\ faults \in Nat /\ r0 \in Nat
    BY <1>1, <2>1 DEF IInv, Losses, TypeOK
  <2>4. got \in [1..Len(got) -> 0..NrMsgs - 1]
    BY <1>1, LenProperties DEF IInv, TypeOK
  <2> QED
    BY <2>2, <2>3, <2>4
<1>2. ASSUME IInv, main = "fail" PROVE faults > 0
  BY <1>2 DEF IInv, TypeOK, Faultless, InLine
<1>3. IInv => VerdictIsRight
  BY <1>1, <1>2 DEF VerdictIsRight, ReportsRightly, IInv
<1> QED
  BY <1>3, Invariant, PTL
=============================================================================
