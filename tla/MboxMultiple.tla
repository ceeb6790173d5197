---------------------------- MODULE MboxMultiple ----------------------------
(***************************************************************************)
(* tests/09-mailbox/02-mbox-multiple.c and 03-mbox-multiple+sched.c: main() *)
(* sends the numbers 0, 1, 2, ... to an SPE through its inbound mailbox,   *)
(* then a stop message; the SPE program stops with 0x1337 at the stop      *)
(* message and with 0 at any number that is not the next one.  Test 03     *)
(* also reads the regs file every sched_interval messages, for which the   *)
(* kernel must take the context off its SPE.                               *)
(*                                                                         *)
(* The mailbox is the kernel's, which is what the tests are there to find  *)
(* fault with: up to MaxFaults times it loses or repeats a message, or a   *)
(* write() or spu_run() fails.                                             *)
(***************************************************************************)
EXTENDS Integers, Sequences, SequencesExt

CONSTANTS
  NrMsgs,         \* nr_msgs
  SchedInterval,  \* sched_interval
  Depth,          \* entries of the mailbox (4 in the hardware)
  MaxFaults       \* bound: messages lost or repeated and calls that fail

ASSUME MboxAssumption ==
  /\ NrMsgs \in Nat \ {0} /\ SchedInterval \in Nat \ {0}
  /\ Depth \in Nat \ {0} /\ MaxFaults \in Nat

StopMsg == NrMsgs    \* 0xffffffff, which no message is

VARIABLES
  sched,          \* TRUE for test 03, FALSE for test 02
  main, i,        \* main() and its loop variable
  wbox,           \* the mailbox
  loaded,         \* the context is on an SPE
  pc, r0, r1,     \* the SPE program
  got,            \* the numbers it has accepted
  thread,         \* the thread in spu_run()
  run_rc,         \* thread.run_rc
  thread_abort,
  faults

speVars == <<pc, r0, r1, got>>
threadVars == <<thread, run_rc, thread_abort>>
vars == <<sched, main, i, wbox, loaded, speVars, threadVars, faults>>

\* TypeOK: every variable has its type; the mailbox never holds more than its
\* entries, and the count of the SPE program is at most one ahead.
TypeOK ==
  /\ sched \in BOOLEAN
  /\ main \in {"send", "check", "regs", "stopmsg", "join", "pass", "fail"}
  /\ i \in 0..NrMsgs
  /\ wbox \in Seq(0..StopMsg) /\ Len(wbox) <= Depth
  /\ loaded \in BOOLEAN
  /\ pc \in {"rdch", "ceq", "stop1337", "stop0"}
  /\ r0 \in 0..NrMsgs + 1 /\ r1 \in 0..StopMsg /\ got \in Seq(0..NrMsgs - 1)
  /\ thread \in {"running", "exited"} /\ run_rc \in {"none", "1337", "0", "error"}
  /\ thread_abort \in BOOLEAN /\ faults \in 0..MaxFaults

Init ==
  /\ sched \in BOOLEAN
  /\ main = "send" /\ i = 0
  /\ wbox = << >> /\ loaded = FALSE
  /\ pc = "rdch" /\ r0 = 0 /\ r1 = 0 /\ got = << >>
  /\ thread = "running" /\ run_rc = "none" /\ thread_abort = FALSE
  /\ faults = 0

-----------------------------------------------------------------------------
(* main() *)

\* Mutant of Send: write() does not wait.
Send_NoWait ==
  /\ main = "send"
  /\ wbox' = Append(wbox, i)
  /\ main' = "check"
  /\ UNCHANGED <<sched, i, loaded, speVars, threadVars, faults>>

\* write() to the mailbox waits for room.
Send ==
  /\ main = "send" /\ Len(wbox) < Depth
  /\ wbox' = Append(wbox, i)
  /\ main' = "check"
  /\ UNCHANGED <<sched, i, loaded, speVars, threadVars, faults>>

NextMsg ==
  /\ i' = i + 1
  /\ main' = IF i + 1 < NrMsgs THEN "send" ELSE "stopmsg"

\* Leave the loop when the SPE has stopped.  Test 03 has failed then; test 02
\* still sends its stop message and looks at the stop code.
Abort ==
  /\ main = "check" /\ thread_abort
  /\ main' = IF sched THEN "fail" ELSE "stopmsg"
  /\ UNCHANGED <<sched, i, wbox, loaded, speVars, threadVars, faults>>

GoOn ==
  /\ main = "check" /\ ~thread_abort
  /\ IF sched /\ i % SchedInterval = SchedInterval - 1
     THEN main' = "regs" /\ UNCHANGED i
     ELSE NextMsg
  /\ UNCHANGED <<sched, wbox, loaded, speVars, threadVars, faults>>

\* read() of regs: the context is scheduled out.
ReadRegs ==
  /\ main = "regs"
  /\ loaded' = FALSE
  /\ NextMsg
  /\ UNCHANGED <<sched, wbox, speVars, threadVars, faults>>

SendStop ==
  /\ main = "stopmsg" /\ Len(wbox) < Depth
  /\ wbox' = Append(wbox, StopMsg)
  /\ main' = "join"
  /\ UNCHANGED <<sched, i, loaded, speVars, threadVars, faults>>

\* A write() that fails ends the test, and with it the SPE program.
WriteFails ==
  /\ main \in {"send", "stopmsg"} /\ faults < MaxFaults
  /\ main' = "fail" /\ loaded' = FALSE
  /\ faults' = faults + 1
  /\ UNCHANGED <<sched, i, wbox, speVars, threadVars>>

Join ==
  /\ main = "join" /\ thread = "exited"
  /\ main' = IF run_rc = "1337" THEN "pass" ELSE "fail"
  /\ UNCHANGED <<sched, i, wbox, loaded, speVars, threadVars, faults>>

-----------------------------------------------------------------------------
(* The SPE program and its thread *)

\* rdch waits for a message.
ReadMsg ==
  /\ loaded /\ pc = "rdch" /\ wbox # << >>
  /\ r1' = Head(wbox) /\ wbox' = Tail(wbox)
  /\ pc' = "ceq"
  /\ UNCHANGED <<sched, main, i, loaded, r0, got, threadVars, faults>>

\* Mutant of Compare: the message is not compared with the count.
Compare_Trusting ==
  /\ loaded /\ pc = "ceq"
  /\ IF r1 = StopMsg THEN pc' = "stop1337" /\ UNCHANGED <<r0, got>>
     ELSE pc' = "rdch" /\ r0' = r0 /\ got' = Append(got, r1)
  /\ UNCHANGED <<sched, main, i, wbox, loaded, r1, threadVars, faults>>

\* Mutant of Compare: the count is incremented before the comparison.
Compare_Early ==
  /\ loaded /\ pc = "ceq"
  /\ IF r1 = StopMsg THEN pc' = "stop1337" /\ UNCHANGED <<r0, got>>
     ELSE IF r1 = r0 + 1
     THEN pc' = "rdch" /\ r0' = r0 + 1 /\ got' = Append(got, r1)
     ELSE pc' = "stop0" /\ r0' = r0 + 1 /\ UNCHANGED got
  /\ UNCHANGED <<sched, main, i, wbox, loaded, r1, threadVars, faults>>

\* Stop at the stop message; go on at the number that is expected next.
Compare ==
  /\ loaded /\ pc = "ceq"
  /\ IF r1 = StopMsg THEN pc' = "stop1337" /\ UNCHANGED <<r0, got>>
     ELSE IF r1 = r0
     THEN pc' = "rdch" /\ r0' = r0 + 1 /\ got' = Append(got, r1)
     ELSE pc' = "stop0" /\ r0' = r0 + 1 /\ UNCHANGED got
  /\ UNCHANGED <<sched, main, i, wbox, loaded, r1, threadVars, faults>>

\* spu_run() returns with the stop code.
Stop ==
  /\ loaded /\ pc \in {"stop1337", "stop0"} /\ thread = "running"
  /\ run_rc = "none"
  /\ run_rc' = IF pc = "stop1337" THEN "1337" ELSE "0"
  /\ UNCHANGED <<sched, main, i, wbox, loaded, speVars, thread, thread_abort, faults>>

\* spu_run() fails: the program is not run any further.
RunFails ==
  /\ run_rc = "none" /\ thread = "running" /\ main \notin {"pass", "fail"}
  /\ faults < MaxFaults
  /\ run_rc' = "error" /\ loaded' = FALSE
  /\ faults' = faults + 1
  /\ UNCHANGED <<sched, main, i, wbox, speVars, thread, thread_abort>>

\* The thread tells main(), whatever the code was.
ThreadEnds ==
  /\ run_rc # "none" /\ thread = "running"
  /\ thread' = "exited" /\ thread_abort' = TRUE
  /\ UNCHANGED <<sched, main, i, wbox, loaded, speVars, run_rc, faults>>

(* The kernel *)

Load ==
  /\ run_rc = "none" /\ main # "fail" /\ ~loaded
  /\ loaded' = TRUE
  /\ UNCHANGED <<sched, main, i, wbox, speVars, threadVars, faults>>

Lose ==
  /\ faults < MaxFaults
  /\ \E k \in 1..Len(wbox) : wbox' = RemoveAt(wbox, k)
  /\ faults' = faults + 1
  /\ UNCHANGED <<sched, main, i, loaded, speVars, thread, run_rc, thread_abort>>

Repeat ==
  /\ faults < MaxFaults /\ Len(wbox) < Depth
  /\ \E k \in 1..Len(wbox) : wbox' = InsertAt(wbox, k, wbox[k])
  /\ faults' = faults + 1
  /\ UNCHANGED <<sched, main, i, loaded, speVars, thread, run_rc, thread_abort>>

Main == Send \/ Abort \/ GoOn \/ ReadRegs \/ SendStop \/ Join
Spe  == ReadMsg \/ Compare \/ Stop \/ ThreadEnds
Fail == Lose \/ Repeat \/ WriteFails \/ RunFails

\* Waiting forever for room in the mailbox, or for a thread whose SPE waits for
\* a message, is a hang and not the end of the test.
Terminated == main \in {"pass", "fail"} /\ UNCHANGED vars

Next == Main \/ Spe \/ Load \/ Fail \/ Terminated

Spec == Init /\ [][Next]_vars

\* main(), the SPE and the scheduler go on whenever they can.
FairSpec == Spec /\ WF_vars(Main) /\ WF_vars(Load) /\ WF_vars(Spe)

-----------------------------------------------------------------------------
\* ReportsRightly: a test that passes has seen its messages in the order they
\* were sent, from the first and without a gap or a repetition, and misses no
\* more at the end than the mailbox has lost; one that fails does so because the
\* mailbox or a call was at fault.  (Messages lost at the end are not noticed:
\* AllReceived.)
ReportsRightly ==
  /\ main = "pass" => /\ got = [k \in 1..Len(got) |-> k - 1]
                      /\ Len(got) >= NrMsgs - faults
  /\ main = "fail" => faults > 0

\* EndsWithPass: on a mailbox without faults the test passes, however the
\* context is scheduled.
EndsWithPass == [](faults = 0) => <>(main = "pass")

\* VerdictIsRight: the test keeps to its types (the mailbox to its depth), and
\* what it reports is what has happened to the messages.
VerdictIsRight == TypeOK /\ ReportsRightly

(* Stated by a comment and refuted by the code. *)

\* AllReceived: a test that passes has seen all messages, in the right order.
AllReceived == main = "pass" => got = [k \in 1..NrMsgs |-> k - 1]
=============================================================================
