--------------------------- MODULE SchedMultiple ---------------------------
(***************************************************************************)
(* tests/20-scheduler/sched_multiple.c: n_spes contexts, one thread in     *)
(* spu_run() each, on fewer physical SPEs.  main() writes the numbers of   *)
(* the data file to the mailboxes of the contexts they name, then sends    *)
(* every context a stop message and joins its thread.                      *)
(*                                                                         *)
(* An SPE program takes its first message for its id and stops with 0x1337 *)
(* at a stop message, with 0 at a message that is not its id.  The kernel, *)
(* which the test is there to find fault with, may put up to MaxFaults     *)
(* messages into the wrong mailbox.                                        *)
(***************************************************************************)
EXTENDS Integers, Sequences, FiniteSets, SequencesExt

CONSTANTS
  n_spes,       \* contexts; the data file carries it
  pattern_len,  \* numbers in the data file
  Depth,        \* entries of a mailbox (4 in the hardware)
  Physical,     \* SPEs of the machine
  MaxFaults     \* bound: messages the kernel misroutes

ASSUME SchedAssumption ==
  /\ n_spes \in Nat \ {0} /\ pattern_len \in Nat
  /\ Depth \in Nat \ {0} /\ Physical \in Nat \ {0} /\ MaxFaults \in Nat

Ctxs    == 0..n_spes - 1
StopMsg == n_spes           \* 0xffffffff, which is no context
None    == -1

VARIABLES
  pattern,            \* the data file, as gen_datafile.py made it
  main, i,            \* main() and its loop variable
  writes,             \* threads[].writes
  mbox,               \* the mailboxes
  pc, r3, r4, r7,     \* the SPE programs: id, message, counter
  thread, run_rc,     \* the threads
  thread_abort,
  loaded,             \* the contexts that are on a physical SPE
  faults

mainVars   == <<pattern, main, i, writes>>
speVars    == <<pc, r3, r4, r7>>
threadVars == <<thread, run_rc, thread_abort>>
vars == <<mainVars, mbox, speVars, threadVars, loaded, faults>>

\* TypeOK: every variable has its type; no mailbox holds more than its entries
\* and no more contexts are loaded than there are SPEs.
TypeOK ==
  /\ pattern \in [1..pattern_len -> Ctxs]
  /\ main \in {"write", "check", "stop", "join", "pass", "fail"}
  /\ i \in 0..pattern_len \cup Ctxs
  /\ writes \in [Ctxs -> 0..pattern_len]
  /\ mbox \in [Ctxs -> Seq(Ctxs \cup {StopMsg})]
  /\ \A c \in Ctxs : Len(mbox[c]) <= Depth
  /\ pc \in [Ctxs -> {"id", "message", "count", "compare", "stop1337", "stop0"}]
  /\ r3 \in [Ctxs -> Ctxs \cup {StopMsg, None}]
  /\ r4 \in [Ctxs -> Ctxs \cup {StopMsg, None}]
  /\ r7 \in [Ctxs -> Nat]
  /\ thread \in [Ctxs -> {"running", "exited"}]
  /\ run_rc \in [Ctxs -> {"none", "1337", "0"}]
  /\ thread_abort \in BOOLEAN
  /\ loaded \subseteq Ctxs /\ Cardinality(loaded) <= Physical
  /\ faults \in 0..MaxFaults

\* The contexts and their threads have been set up.
Init ==
  /\ pattern \in [1..pattern_len -> Ctxs]
  /\ main = IF pattern_len = 0 THEN "stop" ELSE "write"
  /\ i = 0 /\ writes = [c \in Ctxs |-> 0]
  /\ mbox = [c \in Ctxs |-> << >>]
  /\ pc = [c \in Ctxs |-> "id"]
  /\ r3 = [c \in Ctxs |-> None] /\ r4 = [c \in Ctxs |-> None]
  /\ r7 = [c \in Ctxs |-> 0]
  /\ thread = [c \in Ctxs |-> "running"]
  /\ run_rc = [c \in Ctxs |-> "none"] /\ thread_abort = FALSE
  /\ loaded = {} /\ faults = 0

-----------------------------------------------------------------------------
(* main() *)

\* Mutant of Put: write() does not wait for room.
Put_NoWait(c, msg) == mbox' = [mbox EXCEPT ![c] = Append(@, msg)]

\* A blocking write() puts a message into a mailbox.
Put(c, msg) ==
  /\ Len(mbox[c]) < Depth
  /\ mbox' = [mbox EXCEPT ![c] = Append(@, msg)]

Write ==
  /\ main = "write"
  /\ LET c == pattern[i + 1]
     IN  /\ Put(c, c)
         /\ writes' = [writes EXCEPT ![c] = @ + 1]
  /\ main' = "check"
  /\ UNCHANGED <<pattern, i, speVars, threadVars, loaded, faults>>

\* Give up when a thread has exited early, else go on to the next number.
Check ==
  /\ main = "check"
  /\ IF thread_abort THEN main' = "fail" /\ UNCHANGED i
     ELSE IF i + 1 < pattern_len THEN main' = "write" /\ i' = i + 1
     ELSE main' = "stop" /\ i' = 0
  /\ UNCHANGED <<pattern, writes, mbox, speVars, threadVars, loaded, faults>>

SendStop ==
  /\ main = "stop"
  /\ Put(i, StopMsg)
  /\ main' = "join"
  /\ UNCHANGED <<pattern, i, writes, speVars, threadVars, loaded, faults>>

\* Join the thread that was sent the stop message, before the next one is.
Join ==
  /\ main = "join" /\ thread[i] = "exited"
  /\ IF run_rc[i] # "1337" THEN main' = "fail" /\ UNCHANGED i
     ELSE IF i < n_spes - 1 THEN main' = "stop" /\ i' = i + 1
     ELSE main' = "pass" /\ UNCHANGED i
  /\ UNCHANGED <<pattern, writes, mbox, speVars, threadVars, loaded, faults>>

-----------------------------------------------------------------------------
(* The SPE program and its thread *)

\* Mutant of ReadId: the first message is looked at, but not taken.
ReadId_Peeks(c) ==
  /\ c \in loaded /\ pc[c] = "id" /\ mbox[c] # << >>
  /\ r3' = [r3 EXCEPT ![c] = Head(mbox[c])]
  /\ pc' = [pc EXCEPT ![c] = "message"]
  /\ UNCHANGED <<mainVars, mbox, r4, r7, threadVars, loaded, faults>>

\* The first message is the id of the context.
ReadId(c) ==
  /\ c \in loaded /\ pc[c] = "id" /\ mbox[c] # << >>
  /\ r3' = [r3 EXCEPT ![c] = Head(mbox[c])]
  /\ mbox' = [mbox EXCEPT ![c] = Tail(@)]
  /\ pc' = [pc EXCEPT ![c] = "message"]
  /\ UNCHANGED <<mainVars, r4, r7, threadVars, loaded, faults>>

ReadMessage(c) ==
  /\ c \in loaded /\ pc[c] = "message" /\ mbox[c] # << >>
  /\ r4' = [r4 EXCEPT ![c] = Head(mbox[c])]
  /\ mbox' = [mbox EXCEPT ![c] = Tail(@)]
  /\ pc' = [pc EXCEPT ![c] = "count"]
  /\ UNCHANGED <<mainVars, r3, r7, threadVars, loaded, faults>>

\* The counter is incremented and stored at address 0, stop message or not.
Count(c) ==
  /\ c \in loaded /\ pc[c] = "count"
  /\ r7' = [r7 EXCEPT ![c] = @ + 1]
  /\ pc' = [pc EXCEPT ![c] = "compare"]
  /\ UNCHANGED <<mainVars, mbox, r3, r4, threadVars, loaded, faults>>

\* Mutants of Compare: the stop message is not told apart; the id is not looked
\* at; the id is looked for again after every message.
Compare_NoStop(c) ==
  /\ c \in loaded /\ pc[c] = "compare"
  /\ pc' = [pc EXCEPT ![c] = IF r4[c] = r3[c] THEN "message" ELSE "stop0"]
  /\ UNCHANGED <<mainVars, mbox, r3, r4, r7, threadVars, loaded, faults>>
Compare_AnyId(c) ==
  /\ c \in loaded /\ pc[c] = "compare"
  /\ pc' = [pc EXCEPT ![c] = IF r4[c] = StopMsg THEN "stop1337" ELSE "message"]
  /\ UNCHANGED <<mainVars, mbox, r3, r4, r7, threadVars, loaded, faults>>
Compare_IdAgain(c) ==
  /\ c \in loaded /\ pc[c] = "compare"
  /\ pc' = [pc EXCEPT ![c] = IF r4[c] = StopMsg THEN "stop1337"
                             ELSE IF r4[c] = r3[c] THEN "id" ELSE "stop0"]
  /\ UNCHANGED <<mainVars, mbox, r3, r4, r7, threadVars, loaded, faults>>

Compare(c) ==
  /\ c \in loaded /\ pc[c] = "compare"
  /\ pc' = [pc EXCEPT ![c] = IF r4[c] = StopMsg THEN "stop1337"
                             ELSE IF r4[c] = r3[c] THEN "message" ELSE "stop0"]
  /\ UNCHANGED <<mainVars, mbox, r3, r4, r7, threadVars, loaded, faults>>

\* spu_run() returns with the stop code, and the context gives its SPE up.
Stop(c) ==
  /\ c \in loaded /\ pc[c] \in {"stop1337", "stop0"}
  /\ run_rc' = [run_rc EXCEPT ![c] = IF pc[c] = "stop1337" THEN "1337" ELSE "0"]
  /\ loaded' = loaded \ {c}
  /\ UNCHANGED <<mainVars, mbox, speVars, thread, thread_abort, faults>>

ThreadEnds(c) ==
  /\ run_rc[c] # "none" /\ thread[c] = "running"
  /\ thread' = [thread EXCEPT ![c] = "exited"]
  /\ thread_abort' = (thread_abort \/ run_rc[c] # "1337")
  /\ UNCHANGED <<mainVars, mbox, speVars, run_rc, loaded, faults>>

-----------------------------------------------------------------------------
(* The kernel *)

\* A context in spu_run() gets a physical SPE, or loses it at the end of its
\* time slice.
Load(c) ==
  /\ run_rc[c] = "none" /\ c \notin loaded
  /\ Cardinality(loaded) < Physical
  /\ loaded' = loaded \cup {c}
  /\ UNCHANGED <<mainVars, mbox, speVars, threadVars, faults>>

Unload(c) ==
  /\ c \in loaded
  /\ loaded' = loaded \ {c}
  /\ UNCHANGED <<mainVars, mbox, speVars, threadVars, faults>>

\* A message ends up in the mailbox of another context.
Misroute(c, d) ==
  /\ faults < MaxFaults
  /\ c # d /\ mbox[c] # << >> /\ Len(mbox[d]) < Depth
  /\ mbox' = [mbox EXCEPT ![c] = Front(@), ![d] = Append(@, Last(mbox[c]))]
  /\ faults' = faults + 1
  /\ UNCHANGED <<mainVars, speVars, threadVars, loaded>>

Main       == Write \/ Check \/ SendStop \/ Join
Program(c) == ReadId(c) \/ ReadMessage(c) \/ Count(c) \/ Compare(c) \/ Stop(c)

\* What the threads do once main() has returned does not matter any more.
Terminated == main \in {"pass", "fail"} /\ UNCHANGED vars

Next ==
  \/ Main
  \/ \E c \in Ctxs : Program(c) \/ ThreadEnds(c) \/ Load(c) \/ Unload(c)
  \/ \E c, d \in Ctxs : Misroute(c, d)
  \/ Terminated

Spec == Init /\ [][Next]_vars

\* main() and the threads make progress, and the scheduler is fair: time slices
\* end, every context in spu_run() is loaded again and again, and a program
\* that can take a step each time it is loaded takes it at last.
FairSpec ==
  /\ Spec
  /\ WF_vars(Main)
  /\ \A c \in Ctxs : /\ WF_vars(ThreadEnds(c)) /\ WF_vars(Unload(c))
                    /\ SF_vars(Load(c)) /\ SF_vars(Program(c))

-----------------------------------------------------------------------------
\* Every context is named in the data file.
Covered == \A c \in Ctxs : \E k \in 1..pattern_len : pattern[k] = c

\* NoFalseAlarm: the test fails only if the kernel was at fault, however the
\* contexts are scheduled.
NoFalseAlarm == main = "fail" \/ thread_abort => faults > 0

\* CountsWrites: unless the kernel was at fault, a program that stops with
\* 0x1337 has counted the writes main() has made to its mailbox (its id is not
\* counted, the stop message is).
CountsWrites ==
  \A c \in Ctxs : run_rc[c] = "1337" /\ faults = 0 => r7[c] = writes[c]

\* ForeignIdNoticed: a program that was given another context's message for its
\* id goes unnoticed only if the kernel has also kept all messages of its own
\* from it.
ForeignIdNoticed ==
  main = "pass" => \A c \in Ctxs : r3[c] # c => writes[c] <= faults

\* NeverPassesUncovered: without faults, a context that the data file does not
\* name takes the stop message for its id and waits for another one: the test
\* does not pass.
NeverPassesUncovered == main = "pass" /\ faults = 0 => Covered

\* Completes: if every context is named in the data file and the kernel makes
\* no mistake, the test passes, on any number of SPEs.
Completes == Covered /\ [](faults = 0) => <>(main = "pass")

\* CountsRightly: the test keeps to its types (no mailbox overflows, no more
\* contexts are loaded than there are SPEs), and the programs count what was
\* written to them.
CountsRightly == TypeOK /\ CountsWrites

\* VerdictIsRight: what a failure of the test means, and what a success does.
VerdictIsRight == NoFalseAlarm /\ ForeignIdNoticed /\ NeverPassesUncovered
=============================================================================
