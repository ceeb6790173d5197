------------------------------ MODULE DualRing ------------------------------
(***************************************************************************)
(* benchmarks/04-gang-sched/01-dual-ring.c: NR_GANGS gangs of nr_spes SPE  *)
(* contexts each, every gang passing one message around a ring of signal   *)
(* notification registers.  A gang fills the machine: nr_spes is what      *)
(* count_spes() returns, so the kernel has to share the SPEs between the   *)
(* gangs.                                                                  *)
(*                                                                         *)
(* The parties are main(), one thread per context (in spu_run() while its  *)
(* SPE program runs) and the scheduler.  The value of the message is the   *)
(* number of times it has been passed on; ITERATIONS times nr_spes is far  *)
(* below 2^32, so it is a natural number.                                  *)
(***************************************************************************)
EXTENDS Integers, FiniteSets

CONSTANTS
  NR_GANGS,     \* 2 in the code
  nr_spes,      \* the SPEs of the machine, and the contexts of a gang
  ITERATIONS    \* times each context passes the message on

ASSUME RingAssumption ==
  /\ NR_GANGS \in Nat \ {0} /\ nr_spes \in Nat \ {0}
  /\ ITERATIONS \in Nat \ {0}

Gangs == 0..NR_GANGS - 1
Spes  == 0..nr_spes - 1
Ctxs  == Gangs \X Spes
Empty == -1              \* no signal is pending

VARIABLES
  main,     \* where main() is
  gang,     \* the gang it is at
  spe,      \* the context of that gang it is at
  thread,   \* the thread of each context, and how its spu_run() ended
  pc,       \* where its SPE program is
  sig,      \* its signal notification register 1
  r3,       \* iterations left
  r10,      \* the message, between reading and passing it on
  loaded    \* the contexts that are on a physical SPE

mainVars == <<main, gang, spe>>
speVars  == <<pc, sig, r3, r10>>
vars     == <<mainVars, thread, speVars, loaded>>

\* TypeOK: every variable has its type; the counter of a program stays within
\* 0 and ITERATIONS.
TypeOK ==
  /\ main \in {"create", "run", "join", "done", "failed"}
  /\ gang \in Gangs \cup {NR_GANGS} /\ spe \in Spes
  /\ thread \in [Ctxs -> {"none", "running", "exited", "failed"}]
  /\ pc \in [Ctxs -> {"rdch", "sndsig", "brnz", "stop"}]
  /\ sig \in [Ctxs -> Nat \cup {Empty}]
  /\ r3 \in [Ctxs -> 0..ITERATIONS]
  /\ r10 \in [Ctxs -> Nat]
  /\ loaded \subseteq Ctxs

Init ==
  /\ main = "create" /\ gang = 0 /\ spe = 0
  /\ thread = [c \in Ctxs |-> "none"]
  /\ pc = [c \in Ctxs |-> "rdch"]
  /\ sig = [c \in Ctxs |-> Empty]
  /\ r3 = [c \in Ctxs |-> ITERATIONS]
  /\ r10 = [c \in Ctxs |-> 0]
  /\ loaded = {}

\* Mutant of NextSpe: a context is its own neighbour.
NextSpe_Stays(i) == i % nr_spes

\* The context whose register a context of the same gang signals.
NextSpe(i) == (i + 1) % nr_spes
NextCtx(c) == <<c[1], NextSpe(c[2])>>

-----------------------------------------------------------------------------
(* main() *)

\* The place after context spe of gang: the next context, or context 0 of the
\* next gang; after the last gang main() goes on with step next.
Advance(next) ==
  IF spe < nr_spes - 1
  THEN spe' = spe + 1 /\ UNCHANGED <<main, gang>>
  ELSE /\ spe' = 0
       /\ IF gang < NR_GANGS - 1
          THEN gang' = gang + 1 /\ UNCHANGED main
          ELSE gang' = 0 /\ main' = next

\* create_gang(): the contexts of a gang are set up, then their threads are
\* started one by one.
CreateThread ==
  /\ main = "create"
  /\ thread' = [thread EXCEPT ![<<gang, spe>>] = "running"]
  /\ Advance("run")
  /\ UNCHANGED <<speVars, loaded>>

\* spu_create(), mmap() or pthread_create() fails: main() returns, which ends
\* the process with all its threads.
CreateFails ==
  /\ main = "create"
  /\ main' = "failed" /\ thread' = [c \in Ctxs |-> "exited"] /\ loaded' = {}
  /\ UNCHANGED <<gang, spe, speVars>>

\* Mutant of RunGang: the same gang is started every time.
RunGang_First ==
  /\ main = "run" /\ <<0, 0>> \in loaded
  /\ sig' = [sig EXCEPT ![<<0, 0>>] = 0]
  /\ IF gang < NR_GANGS - 1
     THEN gang' = gang + 1 /\ UNCHANGED main
     ELSE gang' = 0 /\ main' = "join"
  /\ UNCHANGED <<spe, thread, pc, r3, r10, loaded>>

\* run_gang(): the message is put into the register of context 0.  The access to
\* the mapped register waits until the context is loaded.
RunGang ==
  /\ main = "run" /\ <<gang, 0>> \in loaded
  /\ sig' = [sig EXCEPT ![<<gang, 0>>] = 0]
  /\ IF gang < NR_GANGS - 1
     THEN gang' = gang + 1 /\ UNCHANGED main
     ELSE gang' = 0 /\ main' = "join"
  /\ UNCHANGED <<spe, thread, pc, r3, r10, loaded>>

\* wait_for_gang_completion(): pthread_join() for one thread after the other,
\* which does not tell how its spu_run() ended.
Join ==
  /\ main = "join" /\ thread[<<gang, spe>>] \in {"exited", "failed"}
  /\ Advance("done")
  /\ UNCHANGED <<thread, speVars, loaded>>

-----------------------------------------------------------------------------
(* The SPE program: it runs while its context is loaded and its thread is in *)
(* spu_run().                                                               *)
Runs(c) == c \in loaded /\ thread[c] = "running"

\* Mutants of ReadSignal: the message is passed on as it came; the signal is
\* read but not taken.
ReadSignal_NoIncrement(c) ==
  /\ Runs(c) /\ pc[c] = "rdch" /\ sig[c] # Empty
  /\ r10' = [r10 EXCEPT ![c] = sig[c]]
  /\ sig' = [sig EXCEPT ![c] = Empty]
  /\ pc' = [pc EXCEPT ![c] = "sndsig"]
  /\ UNCHANGED <<mainVars, thread, r3, loaded>>
ReadSignal_Peeks(c) ==
  /\ Runs(c) /\ pc[c] = "rdch" /\ sig[c] # Empty
  /\ r10' = [r10 EXCEPT ![c] = sig[c] + 1]
  /\ pc' = [pc EXCEPT ![c] = "sndsig"]
  /\ UNCHANGED <<mainVars, thread, sig, r3, loaded>>

\* rdch: take the signal, if there is one, and increment the message.
ReadSignal(c) ==
  /\ Runs(c) /\ pc[c] = "rdch" /\ sig[c] # Empty
  /\ r10' = [r10 EXCEPT ![c] = sig[c] + 1]
  /\ sig' = [sig EXCEPT ![c] = Empty]
  /\ pc' = [pc EXCEPT ![c] = "sndsig"]
  /\ UNCHANGED <<mainVars, thread, r3, loaded>>

\* sndsig, and the wait for its completion: write the message to the register
\* of the next context, once that one is loaded too.
SendSignal(c) ==
  /\ Runs(c) /\ pc[c] = "sndsig" /\ NextCtx(c) \in loaded
  /\ sig' = [sig EXCEPT ![NextCtx(c)] = r10[c]]
  /\ pc' = [pc EXCEPT ![c] = "brnz"]
  /\ UNCHANGED <<mainVars, thread, r3, r10, loaded>>

\* Mutant of Loop: the counter is tested before it is decremented.
Loop_TestsFirst(c) ==
  /\ Runs(c) /\ pc[c] = "brnz"
  /\ r3' = [r3 EXCEPT ![c] = @ - 1]
  /\ pc' = [pc EXCEPT ![c] = IF r3[c] = 0 THEN "stop" ELSE "rdch"]
  /\ UNCHANGED <<mainVars, thread, sig, r10, loaded>>

\* Decrement the counter; loop or stop.
Loop(c) ==
  /\ Runs(c) /\ pc[c] = "brnz"
  /\ r3' = [r3 EXCEPT ![c] = @ - 1]
  /\ pc' = [pc EXCEPT ![c] = IF r3[c] = 1 THEN "stop" ELSE "rdch"]
  /\ UNCHANGED <<mainVars, thread, sig, r10, loaded>>

\* stop 0x1337: spu_run() returns 0x13370002, and the thread ends.
Stop(c) ==
  /\ Runs(c) /\ pc[c] = "stop"
  /\ thread' = [thread EXCEPT ![c] = "exited"]
  /\ loaded' = loaded \ {c}
  /\ UNCHANGED <<mainVars, speVars>>

\* spu_run() fails, or returns with another code, wherever the program is: the
\* thread says so and ends like any other.  The program stays where it is.
RunFails(c) ==
  /\ thread[c] = "running"
  /\ thread' = [thread EXCEPT ![c] = "failed"]
  /\ loaded' = loaded \ {c}
  /\ UNCHANGED <<mainVars, speVars>>

\* Somebody waits for the register of context c.
Accessed(c) ==
  \/ main = "run" /\ c = <<gang, 0>>
  \/ \E d \in Ctxs : thread[d] = "running" /\ pc[d] = "sndsig" /\ c = NextCtx(d)

\* The kernel's scheduler puts the contexts of S on the SPEs, and saves the
\* others with their registers.  It loads contexts whose thread is in spu_run()
\* or whose register is accessed.
Schedule(S) ==
  /\ main \notin {"done", "failed"}
  /\ \A c \in S : thread[c] = "running" \/ Accessed(c)
  /\ Cardinality(S) <= nr_spes
  /\ loaded' = S
  /\ UNCHANGED <<mainVars, thread, speVars>>

Program(c) == ReadSignal(c) \/ SendSignal(c) \/ Loop(c) \/ Stop(c)

Main == CreateThread \/ CreateFails \/ RunGang \/ Join

Terminated == main \in {"done", "failed"} /\ UNCHANGED vars

Next ==
  \/ Main
  \/ \E c \in Ctxs : Program(c) \/ RunFails(c)
  \/ \E S \in SUBSET Ctxs : Schedule(S)
  \/ Terminated

Spec == Init /\ [][Next]_vars

\* Context c is put on an SPE, together with the one whose register it waits for.
Together(c) ==
  \E S \in SUBSET Ctxs : /\ c \in S
                         /\ pc[c] = "sndsig" => NextCtx(c) \in S
                         /\ Schedule(S)

\* main() and the programs go on when again and again they can, and the
\* scheduler loads every context in spu_run() again and again, and together with
\* it the context that it is about to signal.
FairSpec ==
  /\ Spec
  /\ SF_vars(Main)
  /\ \A c \in Ctxs : SF_vars(Together(c)) /\ SF_vars(Program(c))

-----------------------------------------------------------------------------
\* The gang has been given its message.
Started(g) == main \in {"join", "done"} \/ (main = "run" /\ g < gang)

\* A context has the message, in its register or between two instructions.
Has(c) == sig[c] # Empty \/ pc[c] = "sndsig"

\* How often a context has passed the message on.
Passed(c) == ITERATIONS - r3[c] + (IF pc[c] = "brnz" THEN 1 ELSE 0)

\* OneMessage: there is exactly one message in a gang that was started, and
\* none in any other.
OneMessage ==
  \A g \in Gangs :
    /\ Started(g) <=> \E i \in Spes : Has(<<g, i>>)
    /\ \A i, j \in Spes :
         /\ Has(<<g, i>>) /\ Has(<<g, j>>) => i = j
         /\ ~(sig[<<g, i>>] # Empty /\ pc[<<g, i>>] = "sndsig")

\* InStep: the contexts of a gang go through their iterations in step: one that
\* comes later in the ring is never ahead and never more than one behind.
InStep ==
  \A g \in Gangs : \A i, j \in Spes :
    i < j => Passed(<<g, i>>) - Passed(<<g, j>>) \in {0, 1}

\* RingIsRight: in every gang one message goes round, and the contexts pass it on
\* in turn, however main(), the threads and the scheduler interleave.
RingIsRight == TypeOK /\ OneMessage /\ InStep

\* NoOverwrite: a signal is only ever written to a register that is empty,
\* by main() and by the SPEs, so that no message is lost.
NoOverwrite ==
  [][\A c \in Ctxs : sig'[c] # sig[c] => sig[c] = Empty \/ sig'[c] = Empty]_vars

\* RingComplete: when main() stops the clock every context whose spu_run() did
\* not fail has passed the message on ITERATIONS times, and in a gang without a
\* failure the message has been around the ring as often.  A failure that goes
\* unnoticed costs a gang its last round at most, unless all of it failed.
RingComplete ==
  main = "done" => \A g \in Gangs :
    /\ \A i \in Spes : thread[<<g, i>>] = "exited" =>
         /\ Passed(<<g, i>>) = ITERATIONS
         /\ \A j \in Spes : Passed(<<g, j>>) >= ITERATIONS - 1
    /\ (\A i \in Spes : thread[<<g, i>>] = "exited")
         => sig[<<g, 0>>] = ITERATIONS * nr_spes

\* Completes: the benchmark ends, however the scheduler interleaves the gangs,
\* unless the setup fails or the spu_run() of a context fails before its last pass:
\* then the contexts behind it wait for a signal, and main() for them.
Completes ==
  <>(\/ main \in {"done", "failed"}
     \/ \E c \in Ctxs : thread[c] = "failed" /\ Passed(c) < ITERATIONS)
=============================================================================
