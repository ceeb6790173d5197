--------------------------- MODULE DualRingProofs ---------------------------
(***************************************************************************)
(* Proofs about DualRing, for any number of gangs, any ring size from one  *)
(* up, any number of iterations and any scheduler.                         *)
(***************************************************************************)
EXTENDS DualRing, TLAPS

USE RingAssumption DEF Gangs, Spes, Ctxs, Empty

-----------------------------------------------------------------------------
(* The inductive invariant. *)

\* Where main() is, what the threads do and how the counter of a program goes
\* with its program counter.
Control ==
  /\ main = "run" => gang \in Gangs /\ spe = 0
  /\ main \in {"create", "join"} => gang \in Gangs
  /\ \A c \in Ctxs :
       /\ thread[c] = "exited" => main = "failed" \/ pc[c] = "stop"
       /\ pc[c] = "stop" <=> r3[c] = 0

\* The threads main() has joined have ended.
Ended == {"exited", "failed"}
Joined ==
  /\ main = "join" =>
       \A g \in Gangs, i \in Spes : g < gang \/ (g = gang /\ i < spe)
                                     => thread[<<g, i>>] \in Ended
  /\ main = "done" =>
       \A g \in Gangs, i \in Spes : thread[<<g, i>>] \in Ended

\* The message of gang g is at context p for the time r + 1: those before p
\* have passed it on once more than the others, and its value counts how often
\* it was passed on.
RingAt(g, p, r) ==
  /\ \A i \in Spes : Has(<<g, i>>) <=> i = p
  /\ \A i \in Spes : Passed(<<g, i>>) = IF i < p THEN r + 1 ELSE r
  /\ \/ pc[<<g, p>>] # "sndsig" /\ sig[<<g, p>>] = nr_spes * r + p
     \/ pc[<<g, p>>] = "sndsig" /\ sig[<<g, p>>] = Empty
                                /\ r10[<<g, p>>] = nr_spes * r + p + 1

\* A gang that has not been started has no message and has done nothing.
RingIdle(g) ==
  \A i \in Spes : sig[<<g, i>>] = Empty /\ pc[<<g, i>>] = "rdch"
                                        /\ r3[<<g, i>>] = ITERATIONS

Ring(g) == IF Started(g) THEN \E p \in Spes, r \in Nat : RingAt(g, p, r)
           ELSE RingIdle(g)

IInv == TypeOK /\ Control /\ Joined /\ \A g \in Gangs : Ring(g)

-----------------------------------------------------------------------------
\* The ring closes behind the last context.
LEMMA NextSpeLemma ==
  ASSUME NEW i \in Spes
  PROVE  /\ NextSpe(i) \in Spes
         /\ NextSpe(i) = IF i = nr_spes - 1 THEN 0 ELSE i + 1
BY DEF NextSpe

\* Every step keeps the types.
LEMMA TypeStep ==
  ASSUME TypeOK, Control, Next
  PROVE  TypeOK'
<1> USE DEF TypeOK, mainVars, speVars
<1>1. CASE CreateThread
  BY <1>1 DEF CreateThread, Advance, Control
<1>2. CASE CreateFails
  BY <1>2 DEF CreateFails
<1>3. CASE RunGang
  BY <1>3 DEF RunGang, Control
<1>4. CASE Join
  BY <1>4 DEF Join, Advance
<1>5. ASSUME NEW c \in Ctxs, ReadSignal(c) PROVE TypeOK'
  BY <1>5 DEF ReadSignal
<1>6. ASSUME NEW c \in Ctxs, SendSignal(c) PROVE TypeOK'
  BY <1>6 DEF SendSignal
<1>7. ASSUME NEW c \in Ctxs, Loop(c) PROVE TypeOK'
  BY <1>7, SMTT(30) DEF Loop, Control
<1>8. ASSUME NEW c \in Ctxs, Stop(c) \/ RunFails(c) PROVE TypeOK'
  BY <1>8 DEF Stop, RunFails
<1>9. ASSUME NEW S \in SUBSET Ctxs, Schedule(S) PROVE TypeOK'
  BY <1>9 DEF Schedule
<1>10. CASE Terminated
  BY <1>10 DEF Terminated, vars
<1> QED
  BY <1>1, <1>2, <1>3, <1>4, <1>5, <1>6, <1>7, <1>8, <1>9, <1>10
     DEF Next, Main, Program

\* A counter is zero exactly when its program has stopped.
LEMMA ControlStep ==
  ASSUME TypeOK, Control, Next
  PROVE  Control'
<1> USE DEF TypeOK, Control, mainVars, speVars
<1>1. CASE CreateThread
  BY <1>1 DEF CreateThread, Advance
<1>2. CASE CreateFails
  BY <1>2 DEF CreateFails
<1>3. CASE RunGang
  BY <1>3 DEF RunGang
<1>4. CASE Join
  BY <1>4 DEF Join, Advance
<1>5. ASSUME NEW c \in Ctxs, ReadSignal(c) PROVE Control'
  BY <1>5 DEF ReadSignal
<1>6. ASSUME NEW c \in Ctxs, SendSignal(c) PROVE Control'
  BY <1>6 DEF SendSignal
<1>7. ASSUME NEW c \in Ctxs, Loop(c) PROVE Control'
  BY <1>7 DEF Loop
<1>8. ASSUME NEW c \in Ctxs, Stop(c) \/ RunFails(c) PROVE Control'
  BY <1>8 DEF Stop, RunFails
<1>9. ASSUME NEW S \in SUBSET Ctxs, Schedule(S) PROVE Control'
  BY <1>9 DEF Schedule
<1>10. CASE Terminated
  BY <1>10 DEF Terminated, vars
<1> QED
  BY <1>1, <1>2, <1>3, <1>4, <1>5, <1>6, <1>7, <1>8, <1>9, <1>10
     DEF Next, Main, Program

\* pthread_join() goes through the threads in order.
LEMMA JoinedStep ==
  ASSUME TypeOK, Control, Joined, Next
  PROVE  Joined'
<1> USE DEF TypeOK, Control, Joined, Ended, mainVars, speVars
<1>1. CASE CreateThread
  BY <1>1 DEF CreateThread, Advance
<1>2. CASE CreateFails
  BY <1>2 DEF CreateFails
<1>3. CASE RunGang
  BY <1>3 DEF RunGang
<1>4. CASE Join
  <2>1. main = "join" /\ gang \in Gangs /\ thread' = thread
        /\ thread[<<gang, spe>>] \in Ended /\ Advance("done")
    BY <1>4 DEF Join
  <2>2. ASSUME NEW g \in Gangs, NEW i \in Spes,
               g < gang \/ (g = gang /\ i <= spe)
        PROVE  thread'[<<g, i>>] \in Ended
    <3>1. CASE g = gang /\ i = spe
      BY <2>1, <3>1
    <3>2. CASE g < gang \/ (g = gang /\ i < spe)
      BY <2>1, <3>2
    <3> QED
      BY <2>2, <3>1, <3>2
  <2>3. CASE spe < nr_spes - 1
    BY <2>1, <2>2, <2>3 DEF Advance
  <2>4. CASE spe = nr_spes - 1 /\ gang < NR_GANGS - 1
    BY <2>1, <2>2, <2>4 DEF Advance
  <2>5. CASE spe = nr_spes - 1 /\ gang = NR_GANGS - 1
    BY <2>1, <2>2, <2>5 DEF Advance
  <2> QED
    BY <2>1, <2>3, <2>4, <2>5
<1>5. ASSUME NEW c \in Ctxs, Program(c) \/ RunFails(c) PROVE Joined'
  <2>1. /\ UNCHANGED mainVars
        /\ \A e \in Ctxs : thread[e] \in Ended => thread'[e] \in Ended
    BY <1>5 DEF Program, ReadSignal, SendSignal, Loop, Stop, RunFails
  <2> QED
    BY <2>1
<1>6. ASSUME NEW S \in SUBSET Ctxs, Schedule(S) PROVE Joined'
  BY <1>6 DEF Schedule
<1>7. CASE Terminated
  BY <1>7 DEF Terminated, vars
<1> QED
  BY <1>1, <1>2, <1>3, <1>4, <1>5, <1>6, <1>7 DEF Next, Main

-----------------------------------------------------------------------------
(* The message moves along the ring. *)

\* A step that touches neither the registers and program counters of a gang
\* nor what main() has started leaves its ring as it is.
LEMMA RingFrame ==
  ASSUME NEW g \in Gangs, Ring(g), Started(g)' <=> Started(g),
         \A i \in Spes : /\ sig'[<<g, i>>] = sig[<<g, i>>]
                         /\ pc'[<<g, i>>] = pc[<<g, i>>]
                         /\ r3'[<<g, i>>] = r3[<<g, i>>]
                         /\ r10'[<<g, i>>] = r10[<<g, i>>]
  PROVE  Ring(g)'
<1>1. CASE Started(g)
  <2>1. PICK p \in Spes, r \in Nat : RingAt(g, p, r)
    BY <1>1 DEF Ring
  <2>2. RingAt(g, p, r)'
    BY <2>1 DEF RingAt, Has, Passed
  <2> QED
    BY <1>1, <2>2 DEF Ring
<1>2. CASE ~Started(g)
  BY <1>2 DEF Ring, RingIdle
<1> QED
  BY <1>1, <1>2

\* A program only runs in a gang that has been started, and only the context
\* that has the message can go past its rdch.
LEMMA RunsStarted ==
  ASSUME IInv, NEW g \in Gangs, NEW i \in Spes,
         ReadSignal(<<g, i>>) \/ SendSignal(<<g, i>>) \/ Loop(<<g, i>>)
  PROVE  Started(g)
BY DEF IInv, Ring, RingIdle, ReadSignal, SendSignal, Loop

\* Reading the signal keeps the message at its context.
LEMMA ReadStep ==
  ASSUME IInv, NEW g \in Gangs, NEW i \in Spes, ReadSignal(<<g, i>>)
  PROVE  Ring(g)'
<1>1. PICK p \in Spes, r \in Nat : RingAt(g, p, r)
  BY RunsStarted DEF IInv, Ring
<1>2. i = p
  BY <1>1 DEF RingAt, Has, ReadSignal
<1>3. /\ sig' = [sig EXCEPT ![<<g, i>>] = Empty]
      /\ pc' = [pc EXCEPT ![<<g, i>>] = "sndsig"]
      /\ r10' = [r10 EXCEPT ![<<g, i>>] = sig[<<g, i>>] + 1]
      /\ r3' = r3 /\ pc[<<g, i>>] = "rdch" /\ Started(g)'
  BY RunsStarted DEF ReadSignal, Started, mainVars
<1>4. \A j \in Spes : Has(<<g, j>>)' <=> j = p
  BY <1>1, <1>2, <1>3 DEF IInv, TypeOK, RingAt, Has
<1>5. \A j \in Spes : Passed(<<g, j>>)' = Passed(<<g, j>>)
  BY <1>3 DEF IInv, TypeOK, Passed
<1>6. RingAt(g, p, r)'
  BY <1>1, <1>2, <1>3, <1>4, <1>5 DEF IInv, TypeOK, RingAt
<1> QED
  BY <1>3, <1>6 DEF Ring

\* sndsig moves it to the next one, and from the last to the first.
LEMMA SendStep ==
  ASSUME IInv, NEW g \in Gangs, NEW i \in Spes, SendSignal(<<g, i>>)
  PROVE  Ring(g)'
<1>1. PICK p \in Spes, r \in Nat : RingAt(g, p, r)
  BY RunsStarted DEF IInv, Ring
<1>2. i = p
  BY <1>1 DEF RingAt, Has, SendSignal
<1> DEFINE q == NextSpe(i)
           s == IF i = nr_spes - 1 THEN r + 1 ELSE r
<1>3. /\ sig' = [sig EXCEPT ![<<g, q>>] = r10[<<g, i>>]]
      /\ pc' = [pc EXCEPT ![<<g, i>>] = "brnz"]
      /\ r3' = r3 /\ pc[<<g, i>>] = "sndsig" /\ Started(g)'
  BY RunsStarted DEF SendSignal, Started, mainVars, NextCtx
<1>4. q \in Spes /\ q = (IF i = nr_spes - 1 THEN 0 ELSE i + 1) /\ s \in Nat
  BY NextSpeLemma
<1>5. r10[<<g, i>>] = nr_spes * s + q
  <2>1. r10[<<g, i>>] = nr_spes * r + i + 1
    BY <1>1, <1>2, <1>3 DEF RingAt
  <2>2. nr_spes * (r + 1) = nr_spes * r + nr_spes
    OBVIOUS
  <2> QED
    BY <1>4, <2>1, <2>2
<1> HIDE DEF q, s
<1>6. \A j \in Spes : Has(<<g, j>>)' <=> j = q
  <2> SUFFICES ASSUME NEW j \in Spes PROVE Has(<<g, j>>)' <=> j = q
    OBVIOUS
  <2>1. /\ sig'[<<g, j>>] = IF j = q THEN r10[<<g, i>>] ELSE sig[<<g, j>>]
        /\ pc'[<<g, j>>] = IF j = i THEN "brnz" ELSE pc[<<g, j>>]
    BY <1>3, <1>4 DEF IInv, TypeOK
  <2>2. r10[<<g, i>>] \in Nat /\ sig[<<g, i>>] = Empty
    BY <1>1, <1>2, <1>3 DEF IInv, TypeOK, RingAt
  <2>3. (sig[<<g, j>>] # Empty \/ pc[<<g, j>>] = "sndsig") <=> j = i
    BY <1>1, <1>2 DEF RingAt, Has
  <2> QED
    BY <2>1, <2>2, <2>3 DEF Has
<1>7. \A j \in Spes : Passed(<<g, j>>)' = IF j < q THEN s + 1 ELSE s
  <2>1. \A j \in Spes : Passed(<<g, j>>)'
                          = Passed(<<g, j>>) + (IF j = i THEN 1 ELSE 0)
    BY <1>3 DEF IInv, TypeOK, Passed
  <2>2. \A j \in Spes : Passed(<<g, j>>) = IF j < i THEN r + 1 ELSE r
    BY <1>1, <1>2 DEF RingAt
  <2> QED
    BY <1>4, <2>1, <2>2 DEF s
<1>8. pc'[<<g, q>>] # "sndsig" /\ sig'[<<g, q>>] = nr_spes * s + q
  BY <1>1, <1>2, <1>3, <1>4, <1>5 DEF IInv, TypeOK, RingAt, Has
<1>9. RingAt(g, q, s)'
  BY <1>6, <1>7, <1>8 DEF RingAt
<1> QED
  BY <1>3, <1>4, <1>9 DEF Ring

\* The counter catches up with the pass that was made.
LEMMA LoopStep ==
  ASSUME IInv, NEW g \in Gangs, NEW i \in Spes, Loop(<<g, i>>)
  PROVE  Ring(g)'
<1>1. PICK p \in Spes, r \in Nat : RingAt(g, p, r)
  BY RunsStarted DEF IInv, Ring
<1>2. /\ pc' = [pc EXCEPT ![<<g, i>>] = IF r3[<<g, i>>] = 1 THEN "stop"
                                        ELSE "rdch"]
      /\ r3' = [r3 EXCEPT ![<<g, i>>] = @ - 1]
      /\ sig' = sig /\ r10' = r10 /\ pc[<<g, i>>] = "brnz" /\ Started(g)'
  BY RunsStarted DEF Loop, Started, mainVars
<1>3. \A j \in Spes : Has(<<g, j>>)' <=> j = p
  BY <1>1, <1>2 DEF IInv, TypeOK, RingAt, Has
<1>4. \A j \in Spes : Passed(<<g, j>>)' = Passed(<<g, j>>)
  BY <1>2 DEF IInv, TypeOK, Passed
<1>5. RingAt(g, p, r)'
  BY <1>1, <1>2, <1>3, <1>4 DEF IInv, TypeOK, RingAt
<1> QED
  BY <1>2, <1>5 DEF Ring

\* run_gang() puts the first message into an idle ring.
LEMMA RunStep ==
  ASSUME IInv, NEW g \in Gangs, RunGang
  PROVE  Ring(g)'
<1>1. CASE g = gang
  <2>1. RingIdle(g)
    BY <1>1 DEF IInv, RunGang, Ring, Started
  <2>2. sig' = [sig EXCEPT ![<<g, 0>>] = 0] /\ Started(g)'
        /\ UNCHANGED <<pc, r3, r10>>
    BY <1>1 DEF IInv, RunGang, Started
  <2>3. RingAt(g, 0, 0)'
    BY <2>1, <2>2 DEF IInv, TypeOK, RingIdle, RingAt, Has, Passed
  <2> QED
    BY <2>2, <2>3 DEF Ring
<1>2. CASE g # gang
  <2>1. Started(g)' <=> Started(g)
    BY <1>2 DEF IInv, Control, RunGang, Started
  <2>2. \A i \in Spes : sig'[<<g, i>>] = sig[<<g, i>>]
    BY <1>2 DEF IInv, TypeOK, Control, RunGang
  <2> QED
    BY <2>1, <2>2, RingFrame DEF IInv, RunGang
<1> QED
  BY <1>1, <1>2

\* Every step keeps the ring of every gang in order.
LEMMA RingStep ==
  ASSUME IInv, Next, NEW g \in Gangs
  PROVE  Ring(g)'
<1> USE DEF mainVars, speVars
<1>1. CASE RunGang
  BY <1>1, RunStep
<1>2. CASE CreateThread \/ CreateFails \/ Join
  <2>1. Started(g)' <=> Started(g)
    BY <1>2 DEF IInv, Control, TypeOK, CreateThread, CreateFails, Join, Advance,
                Started
  <2> QED
    BY <1>2, <2>1, RingFrame DEF IInv, CreateThread, CreateFails, Join
<1>3. ASSUME NEW c \in Ctxs, ReadSignal(c) \/ SendSignal(c) \/ Loop(c)
      PROVE  Ring(g)'
  <2>1. PICK h \in Gangs, i \in Spes : c = <<h, i>>
    OBVIOUS
  <2>2. CASE h = g
    BY <1>3, <2>1, <2>2, ReadStep, SendStep, LoopStep
  <2>3. CASE h # g
    <3>1. Started(g)' <=> Started(g)
      BY <1>3 DEF ReadSignal, SendSignal, Loop, Started
    <3>2. \A j \in Spes : /\ sig'[<<g, j>>] = sig[<<g, j>>]
                          /\ pc'[<<g, j>>] = pc[<<g, j>>]
                          /\ r3'[<<g, j>>] = r3[<<g, j>>]
                          /\ r10'[<<g, j>>] = r10[<<g, j>>]
      BY <1>3, <2>1, <2>3
         DEF IInv, TypeOK, ReadSignal, SendSignal, Loop, NextCtx
    <3> QED
      BY <3>1, <3>2, RingFrame DEF IInv
  <2> QED
    BY <2>2, <2>3
<1>4. ASSUME NEW c \in Ctxs, Stop(c) \/ RunFails(c)
      PROVE  Ring(g)'
  BY <1>4, RingFrame DEF IInv, Stop, RunFails, Started
<1>5. ASSUME NEW S \in SUBSET Ctxs, Schedule(S)
      PROVE  Ring(g)'
  BY <1>5, RingFrame DEF IInv, Schedule, Started
<1>6. CASE Terminated
  BY <1>6, RingFrame DEF IInv, Terminated, vars, Started
<1> QED
  BY <1>1, <1>2, <1>3, <1>4, <1>5, <1>6 DEF Next, Main, Program

-----------------------------------------------------------------------------
\* Initially all rings are idle.
LEMMA InitIInv == Init => IInv
<1> SUFFICES ASSUME Init PROVE IInv
  OBVIOUS
<1> USE DEF Init
<1>1. TypeOK /\ Control /\ Joined
  BY DEF TypeOK, Control, Joined, Ended
<1>2. ASSUME NEW g \in Gangs PROVE Ring(g)
  BY DEF Ring, RingIdle, Started
<1> QED
  BY <1>1, <1>2 DEF IInv

\* RingInvariant: in every reachable state each gang that was started has one
\* message, at one context, and everything else follows from where it is.
THEOREM RingInvariant == Spec => []IInv
<1>1. ASSUME IInv, [Next]_vars PROVE IInv'
  <2>1. CASE UNCHANGED vars
    <3>1. ASSUME NEW g \in Gangs PROVE Ring(g)'
      BY <1>1, <2>1, RingFrame DEF IInv, vars, mainVars, speVars, Started
    <3> QED
      BY <1>1, <2>1, <3>1
         DEF IInv, vars, mainVars, speVars, TypeOK, Control, Joined
  <2>2. CASE Next
    BY <1>1, <2>2, TypeStep, ControlStep, JoinedStep, RingStep DEF IInv
  <2> QED
    BY <1>1, <2>1, <2>2
<1> QED
  BY <1>1, InitIInv, PTL DEF Spec

\* RingTypes: TypeOK is an invariant; no counter goes below zero.
THEOREM RingTypes == Spec => []TypeOK
BY RingInvariant, PTL DEF IInv

\* MessageIsUnique: there is never a second message in a ring, nor one in a
\* ring that was not started.
THEOREM MessageIsUnique == Spec => []OneMessage
<1>1. IInv => OneMessage
  <2> SUFFICES ASSUME IInv, NEW g \in Gangs
               PROVE  /\ Started(g) <=> \E i \in Spes : Has(<<g, i>>)
                      /\ \A i, j \in Spes :
                           /\ Has(<<g, i>>) /\ Has(<<g, j>>) => i = j
                           /\ ~(sig[<<g, i>>] # Empty /\ pc[<<g, i>>] = "sndsig")
    BY DEF OneMessage
  <2>1. CASE Started(g)
    <3>1. PICK p \in Spes, r \in Nat : RingAt(g, p, r)
      BY <2>1 DEF IInv, Ring
    <3>2. /\ Has(<<g, p>>)
          /\ \A i, j \in Spes : Has(<<g, i>>) /\ Has(<<g, j>>) => i = j
      BY <3>1 DEF RingAt
    <3>3. \A i \in Spes : ~(sig[<<g, i>>] # Empty /\ pc[<<g, i>>] = "sndsig")
      BY <3>1 DEF RingAt, Has
    <3> QED
      BY <2>1, <3>2, <3>3
  <2>2. CASE ~Started(g)
    BY <2>2 DEF IInv, Ring, RingIdle, Has
  <2> QED
    BY <2>1, <2>2
<1> QED
  BY <1>1, RingInvariant, PTL

\* ContextsInStep: the contexts of a ring are at most one pass apart.
THEOREM ContextsInStep == Spec => []InStep
<1>1. IInv => InStep
  <2> SUFFICES ASSUME IInv, NEW g \in Gangs, NEW i \in Spes, NEW j \in Spes,
                      i < j
               PROVE  Passed(<<g, i>>) - Passed(<<g, j>>) \in {0, 1}
    BY DEF InStep
  <2>1. CASE Started(g)
    <3>1. PICK p \in Spes, r \in Nat : RingAt(g, p, r)
      BY <2>1 DEF IInv, Ring
    <3>2. /\ Passed(<<g, i>>) = IF i < p THEN r + 1 ELSE r
          /\ Passed(<<g, j>>) = IF j < p THEN r + 1 ELSE r
      BY <3>1 DEF RingAt
    <3> QED
      BY <3>2
  <2>2. CASE ~Started(g)
    BY <2>2 DEF IInv, Ring, RingIdle, Passed
  <2> QED
    BY <2>1, <2>2
<1> QED
  BY <1>1, RingInvariant, PTL

\* RingRight: however main(), the threads and the scheduler interleave, in every gang
\* one message goes round the SPE programs, which pass it on in turn.
THEOREM RingRight == Spec => []RingIsRight
BY RingTypes, MessageIsUnique, ContextsInStep, PTL DEF RingIsRight

\* NoSignalLost: no write to a signal notification register hits an unread
\* signal.
THEOREM NoSignalLost == Spec => NoOverwrite
<1>1. ASSUME IInv, [Next]_vars
      PROVE  [\A c \in Ctxs : sig'[c] # sig[c]
                => sig[c] = Empty \/ sig'[c] = Empty]_vars
  <2> SUFFICES ASSUME Next, NEW c \in Ctxs, sig'[c] # sig[c], sig'[c] # Empty
               PROVE  sig[c] = Empty
    BY <1>1
  <2>1. PICK g \in Gangs, i \in Spes : c = <<g, i>>
    OBVIOUS
  <2>2. CASE RunGang
    <3>1. g = gang
      BY <2>1, <2>2 DEF RunGang
    <3>2. RingIdle(g)
      BY <1>1, <2>2, <3>1 DEF IInv, RunGang, Ring, Started
    <3> QED
      BY <2>1, <3>2 DEF RingIdle
  <2>3. ASSUME NEW e \in Ctxs, SendSignal(e) PROVE sig[c] = Empty
    <3>1. PICK h \in Gangs, k \in Spes : e = <<h, k>>
      OBVIOUS
    <3>2. h = g /\ i = NextSpe(k)
      BY <2>1, <2>3, <3>1 DEF SendSignal, NextCtx
    <3>3. PICK p \in Spes, r \in Nat : RingAt(g, p, r)
      BY <1>1, <2>3, <3>1, <3>2, RunsStarted DEF IInv, Ring
    <3>4. k = p /\ sig[<<g, k>>] = Empty
      BY <2>3, <3>1, <3>2, <3>3 DEF RingAt, Has, SendSignal
    <3> QED
      BY <2>1, <3>3, <3>4 DEF RingAt, Has
  <2>4. ASSUME NEW e \in Ctxs, ReadSignal(e) PROVE FALSE
    BY <1>1, <2>4 DEF ReadSignal, IInv, TypeOK
  <2>5. CASE sig' = sig
    BY <2>5
  <2> QED
    BY <2>2, <2>3, <2>4, <2>5
       DEF Next, Main, CreateThread, CreateFails, Join, Program, Loop, Stop,
           RunFails, Schedule, Terminated, vars, speVars, mainVars
<1> QED
  BY <1>1, RingInvariant, PTL DEF Spec, NoOverwrite

\* RingIsComplete: when main() stops the clock, every context whose spu_run()
\* ended rightly has made its ITERATIONS passes, a gang in which all did has made
\* ITERATIONS rounds, and a failure that goes unnoticed costs a gang one round.
THEOREM RingIsComplete == Spec => []RingComplete
<1>1. IInv => RingComplete
  <2> SUFFICES ASSUME IInv, main = "done", NEW g \in Gangs
               PROVE  /\ \A i \in Spes : thread[<<g, i>>] = "exited" =>
                           /\ Passed(<<g, i>>) = ITERATIONS
                           /\ \A j \in Spes : Passed(<<g, j>>) >= ITERATIONS - 1
                      /\ (\A i \in Spes : thread[<<g, i>>] = "exited")
                           => sig[<<g, 0>>] = ITERATIONS * nr_spes
    BY DEF RingComplete
  <2>1. PICK p \in Spes, r \in Nat : RingAt(g, p, r)
    BY DEF IInv, Ring, Started
  <2>2. \A i \in Spes : Passed(<<g, i>>) = IF i < p THEN r + 1 ELSE r
    BY <2>1 DEF RingAt
  <2>3. ASSUME NEW i \in Spes, thread[<<g, i>>] = "exited"
        PROVE  pc[<<g, i>>] = "stop" /\ Passed(<<g, i>>) = ITERATIONS
    BY <2>3 DEF IInv, TypeOK, Control, Passed
  <2>4. ASSUME NEW i \in Spes, thread[<<g, i>>] = "exited", NEW j \in Spes
        PROVE  Passed(<<g, j>>) >= ITERATIONS - 1
    BY <2>2, <2>3, <2>4
  <2>5. ASSUME \A i \in Spes : thread[<<g, i>>] = "exited"
        PROVE  sig[<<g, 0>>] = ITERATIONS * nr_spes
    <3>1. \A i \in Spes : pc[<<g, i>>] = "stop" /\ Passed(<<g, i>>) = ITERATIONS
      BY <2>3, <2>5
    <3>2. r = ITERATIONS
      <4>1. Passed(<<g, p>>) = r /\ Passed(<<g, p>>) = ITERATIONS
        BY <2>2, <3>1
      <4> QED
        BY <4>1
    <3>3. p = 0
      <4>1. 0 \in Spes /\ (0 < p => Passed(<<g, 0>>) = r + 1)
        BY <2>2
      <4> QED
        BY <3>1, <3>2, <4>1
    <3>4. pc[<<g, p>>] = "stop"
      BY <3>1
    <3>5. sig[<<g, p>>] = nr_spes * r + p
      BY <2>1, <3>4 DEF RingAt
    <3> QED
      BY <3>2, <3>3, <3>5
  <2> QED
    BY <2>3, <2>4, <2>5
<1> QED
  BY <1>1, RingInvariant, PTL
=============================================================================
