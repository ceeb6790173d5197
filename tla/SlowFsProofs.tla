---------------------------- MODULE SlowFsProofs ----------------------------
(***************************************************************************)
(* Proofs about SlowFs, for any number of runs of the test, each of which   *)
(* may fail or be killed anywhere.                                          *)
(***************************************************************************)
EXTENDS SlowFs, TLAPS

-----------------------------------------------------------------------------
(* The inductive invariant, in six parts: where main() is tells what there is. *)

Before == {"start", "mkdir", "talloc"}
Mounting == {"fuse_mount", "fuse_new", "server"}
Asking == {"open", "opening", "fstat", "stating", "mmap", "spe"}
Switching == {"sleep", "regs", "join"}
Unmounting == {"fuse_unmount", "join_server", "talloc_free", "rmdir"}

\* A mount is on the directory, and it is this run's: a run that has made the
\* directory has found no mount.
Mounts ==
  /\ mounts <= 1
  /\ mounts = 1 => dir
  /\ main \in {"talloc", "fuse_mount"} => dir /\ mounts = 0
  /\ main \in {"fuse_new", "server", "fuse_exit", "fuse_unmount"} \cup Asking \cup Switching
       => mounts = 1
  /\ main \in {"join_server", "talloc_free", "rmdir"} => mounts = IF busy THEN 1 ELSE 0

\* What main() has allocated and started.
Owns ==
  /\ main \in Before => slowfs = "none"
  /\ main \in Mounting \cup Asking \cup Switching \cup {"fuse_exit"} => slowfs = "allocated"
  /\ main \in {"fuse_unmount", "join_server", "talloc_free"} => slowfs = "allocated"
  /\ main \in Before \cup Mounting => server = "none"
  /\ Alive /\ server = "none" => main \in Before \cup Mounting
  /\ main \in {"talloc_free", "rmdir"} => server = "done"
  /\ main \in Unmounting => exited
  /\ Alive /\ exited => main \in Unmounting

\* The server ends only when it is told to.
Serving ==
  /\ Alive /\ server \in {"out", "done"} => exited
  /\ Alive /\ server \in {"serve", "sleep"} => request # "none"
  /\ Alive /\ server = "sleep" => request = "read"

\* Who has asked the kernel for what.
Requests ==
  /\ Alive /\ request = "open" => main = "opening"
  /\ Alive /\ request = "getattr" => main = "stating"
  /\ Alive /\ request = "read" => spe = "fault"
  /\ main \in Switching => spe # "none"
  /\ Alive /\ spe \in {"start", "fault"} => main \in Switching

\* Only a run that got through everything returns 0.
Status ==
  /\ main \in Switching => mapped
  /\ main \in {"fuse_exit"} \cup Unmounting /\ rc = 0 => mapped
  /\ CleanExit

\* In a run in which no thread is held up, main() wakes up in the first of the
\* two seconds the read takes, if there is one.
Sleeping ==
  /\ Alive /\ nap > 0 => main = "sleep"
  /\ Alive /\ delay > 0 => server = "sleep"
  /\ prompt /\ main = "sleep" /\ nap > 0 =>
       \/ spe \in {"start", "failed"}
       \/ spe = "fault" /\ request = "read" /\ (server = "sleep" => delay = 2)
  /\ prompt /\ (main = "regs" \/ (main = "sleep" /\ nap = 0)) =>
       \/ spe = "failed"
       \/ spe = "fault" /\ request = "read" /\ server = "sleep" /\ delay = 1
  /\ SwitchesDuringFault

IInv == TypeOK /\ Mounts /\ Owns /\ Serving /\ Requests /\ Status /\ Sleeping

-----------------------------------------------------------------------------
USE SlowFsAssumption DEF kernel, local, threads, others, Alive, Before, Mounting, Asking, Switching,
    Unmounting

\* The invariant is inductive.
LEMMA InductiveInvariant ==
  ASSUME IInv, [Next]_vars
  PROVE  IInv'
<1> USE DEF IInv, TypeOK, Mounts, Owns, Serving, Requests, Status, CleanExit, Sleeping,
        SwitchesDuringFault
<1>1. CASE Start
  <2>1. TypeOK'
    <3>1. (mounts \in Nat /\ runs \in 0..MaxRuns /\ rc \in {0, 1} /\ nap \in 0..1 /\ delay \in 0..2)'
      BY <1>1 DEF Start
    <3>2. (dir \in BOOLEAN /\ prompt \in BOOLEAN)'
      BY <1>1, Zenon DEF Start
    <3> QED
      BY <1>1, <3>1, <3>2 DEF Start
  <2>2. Mounts'
    BY <1>1 DEF Start
  <2>3. Owns'
    BY <1>1 DEF Start
  <2>4. Serving'
    BY <1>1 DEF Start
  <2>5. Requests'
    BY <1>1 DEF Start
  <2>6. Status'
    BY <1>1 DEF Start
  <2>7. Sleeping'
    BY <1>1 DEF Start
  <2> QED
    BY <2>1, <2>2, <2>3, <2>4, <2>5, <2>6, <2>7 DEF IInv
<1>2. CASE Kill
  BY <1>2 DEF Kill, Exit
<1>3. CASE Setup
  BY <1>3 DEF Setup, Exit, At, Goto
<1>4. CASE MakeDir
  <2>1. At("mkdir")
    BY <1>4 DEF MakeDir
  <2>2. CASE ~dir /\ dir' = TRUE /\ Goto("talloc") /\ UNCHANGED <<mounts, runs, local, threads>>
    BY <2>1, <2>2 DEF At, Goto
  <2>3. CASE Exit(1)
    BY <2>3 DEF Exit
  <2> QED
    BY <1>4, <2>2, <2>3 DEF MakeDir
<1>5. CASE Allocate
  <2>1. At("talloc")
    BY <1>5 DEF Allocate
  <2>2. CASE /\ slowfs' = "allocated" /\ Goto("fuse_mount")
             /\ UNCHANGED <<kernel, rc, mapped, busy, nap, during, threads>>
    BY <2>1, <2>2 DEF At, Goto
  <2>3. CASE Exit(1)
    BY <2>3 DEF Exit
  <2> QED
    BY <1>5, <2>2, <2>3 DEF Allocate
<1>6. CASE FuseMount
  <2>1. At("fuse_mount")
    BY <1>6 DEF FuseMount
  <2>2. CASE /\ mounts' = mounts + 1 /\ Goto("fuse_new")
             /\ UNCHANGED <<dir, runs, local, threads>>
    BY <2>1, <2>2 DEF At, Goto
  <2>3. CASE Exit(1)
    BY <2>3 DEF Exit
  <2> QED
    BY <1>6, <2>2, <2>3 DEF FuseMount
<1>7. CASE FuseNew
  <2>1. At("fuse_new")
    BY <1>7 DEF FuseNew
  <2>2. CASE Goto("server") /\ UNCHANGED <<kernel, local, threads>>
    BY <2>1, <2>2 DEF At, Goto
  <2>3. CASE Exit(1)
    BY <2>3 DEF Exit
  <2> QED
    BY <1>7, <2>2, <2>3 DEF FuseNew
<1>8. CASE StartServer
  <2>1. At("server")
    BY <1>8 DEF StartServer
  <2>2. CASE /\ server' = "loop" /\ Goto("open")
             /\ UNCHANGED <<kernel, local, spe, exited, request, delay, prompt>>
    BY <2>1, <2>2 DEF At, Goto
  <2>3. CASE Exit(1)
    BY <2>3 DEF Exit
  <2> QED
    BY <1>8, <2>2, <2>3 DEF StartServer
<1>9. CASE Open
  BY <1>9 DEF Open, Ask, At, Goto
<1>10. CASE Opened
  BY <1>10 DEF Opened, Answered, At, Goto
<1>11. CASE Stat
  BY <1>11 DEF Stat, Ask, At, Goto
<1>12. CASE Stated
  BY <1>12 DEF Stated, Answered, At, Goto
<1>13. CASE Map
  BY <1>13 DEF Map, Answered, At, Goto
<1>14. CASE StartSpe
  BY <1>14 DEF StartSpe, At, Goto
<1>15. CASE WakeUp
  BY <1>15 DEF WakeUp, At, Goto
<1>16. CASE ReadRegs
  <2>1. At("regs")
    BY <1>16 DEF ReadRegs
  <2>2. CASE /\ during' = (spe = "fault" /\ request = "read")
             /\ Goto("join")
             /\ UNCHANGED <<kernel, rc, slowfs, mapped, busy, nap, threads>>
    BY <2>1, <2>2 DEF At, Goto
  <2>3. CASE Exit(1)
    BY <2>3 DEF Exit
  <2> QED
    BY <1>16, <2>2, <2>3 DEF ReadRegs
<1>17. CASE JoinSpe
  <2>1. TypeOK'
    BY <1>17 DEF JoinSpe, At, Goto
  <2>2. Mounts'
    BY <1>17 DEF JoinSpe, At, Goto
  <2>3. Owns'
    BY <1>17 DEF JoinSpe, At, Goto
  <2>4. Serving'
    BY <1>17 DEF JoinSpe, At, Goto
  <2>5. Requests'
    BY <1>17 DEF JoinSpe, At, Goto
  <2>6. Status'
    BY <1>17 DEF JoinSpe, At, Goto
  <2>7. Sleeping'
    BY <1>17 DEF JoinSpe, At, Goto
  <2> QED
    BY <2>1, <2>2, <2>3, <2>4, <2>5, <2>6, <2>7 DEF IInv
<1>18. CASE FuseExit
  BY <1>18 DEF FuseExit, At, Goto
<1>19. CASE FuseUnmount
  BY <1>19 DEF FuseUnmount, At, Goto
<1>20. CASE JoinServer
  BY <1>20 DEF JoinServer, At, Goto
<1>21. CASE Free
  BY <1>21 DEF Free, At, Goto
<1>22. CASE Finish
  BY <1>22 DEF Finish, At, Goto
<1>23. CASE DmaFault
  BY <1>23 DEF DmaFault, Ask
<1>24. CASE SpeStops
  BY <1>24 DEF SpeStops
<1>25. CASE RunFails
  BY <1>25 DEF RunFails
<1>26. CASE Loop
  BY <1>26 DEF Loop
<1>27. CASE Receive
  BY <1>27 DEF Receive
<1>28. CASE Serve
  BY <1>28 DEF Serve
<1>29. CASE ReadSleeps
  BY <1>29 DEF ReadSleeps
<1>30. CASE ReadAnswers
  BY <1>30 DEF ReadAnswers
<1>31. CASE Out
  BY <1>31 DEF Out
<1>32. CASE Tick
  BY <1>32 DEF Tick, Waiting
<1>33. CASE UNCHANGED vars
  BY <1>33 DEF vars
<1> QED
  BY <1>1, <1>2, <1>3, <1>4, <1>5, <1>6, <1>7, <1>8, <1>9, <1>10, <1>11,
     <1>12, <1>13, <1>14, <1>15, <1>16, <1>17, <1>18, <1>19, <1>20, <1>21, <1>22,
     <1>23, <1>24, <1>25, <1>26, <1>27, <1>28, <1>29, <1>30, <1>31, <1>32, <1>33
   DEF Next, Main, Spe, Server

\* Nothing is there before the first run.
LEMMA InitialInvariant ==
  ASSUME Init
  PROVE  IInv
<1> USE DEF Init
<1>1. TypeOK
  <2>1. runs \in 0..MaxRuns /\ nap \in 0..1 /\ delay \in 0..2
    OBVIOUS
  <2> QED
    BY <2>1 DEF TypeOK
<1>2. Mounts /\ Owns /\ Serving /\ Requests
  BY DEF Mounts, Owns, Serving, Requests
<1>3. Status /\ Sleeping
  BY DEF Status, CleanExit, Sleeping, SwitchesDuringFault
<1> QED
  BY <1>1, <1>2, <1>3 DEF IInv

\* The invariant holds in every state of every run.
THEOREM Invariant == Spec => []IInv
<1>1. Init => IInv
  BY InitialInvariant
<1> QED
  BY <1>1, InductiveInvariant, PTL DEF Spec

\* MountedOnce: whatever earlier runs have left when they failed or were killed, no
\* run of 05-schedule-during-fault.c mounts slowfs on top of a mount, because
\* mkdir() fails on the directory they left.
THEOREM MountsOnce == Spec => []MountedOnce
<1>1. IInv => MountedOnce
  BY DEF IInv, Mounts, MountedOnce
<1> QED
  BY <1>1, Invariant, PTL

\* ThreadsAreServed: slowfs_fn() has its structure as long as it runs, and every
\* request the kernel has passed on is one that a running server will see, on a
\* mount that is still there: slowfs_unmount() is called only when nobody waits.
THEOREM ThreadsServed == Spec => []ThreadsAreServed
<1>1. ASSUME IInv PROVE ServerHasMemory
  BY <1>1 DEF IInv, TypeOK, Owns, ServerHasMemory
<1>2. ASSUME IInv PROVE RequestsAnswered
  <2> SUFFICES ASSUME Alive, request # "none" PROVE RequestsAnswered!2
    BY DEF RequestsAnswered
  <2>1. main \in {"opening", "stating"} \cup Switching
    BY <1>2 DEF IInv, TypeOK, Requests
  <2> QED
    BY <1>2, <2>1 DEF IInv, TypeOK, Mounts, Owns, Serving, Requests
<1>3. IInv => ThreadsAreServed
  BY <1>1, <1>2 DEF ThreadsAreServed, IInv
<1> QED
  BY <1>3, Invariant, PTL

\* CleanExit: a run that returns 0 has removed the directory and the mount, unless
\* fuse_unmount() could not.
THEOREM ExitsClean == Spec => []CleanExit
<1>1. IInv => CleanExit
  BY DEF IInv, Status
<1> QED
  BY <1>1, Invariant, PTL

\* SwitchesDuringFault: in a run in which no thread is held up and spu_run() does
\* not fail, reading regs takes the context off its SPE during the page fault,
\* because the second main() sleeps is shorter than the two slowfs_read() does.
THEOREM SwitchesInFault == Spec => []SwitchesDuringFault
<1>1. IInv => SwitchesDuringFault
  BY DEF IInv, Sleeping
<1> QED
  BY <1>1, Invariant, PTL
=============================================================================
