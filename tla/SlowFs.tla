------------------------------- MODULE SlowFs -------------------------------
(***************************************************************************)
(* lib/slowfs/slowfs.c, a FUSE file system whose only file takes two        *)
(* seconds to read, and tests/14-dma/05-schedule-during-fault.c, which maps *)
(* that file, lets an SPE program DMA from it and takes the context off its *)
(* SPE while the page fault is under way.                                   *)
(*                                                                         *)
(* The test is one process with three threads: main(), spe_thread() and     *)
(* slowfs_fn(), the server of its own page fault.  It is run again and      *)
(* again; what outlives it are the directory and the mount.  It may be      *)
(* killed at any time, which is what the test runner does to a test that    *)
(* takes too long.                                                          *)
(***************************************************************************)
EXTENDS Naturals

CONSTANT MaxRuns     \* bound: how often the test is run

ASSUME SlowFsAssumption == MaxRuns \in Nat \ {0}

VARIABLES
  dir, mounts,       \* the directory exists; mounts on top of it
  runs,              \* how often the test was started
  main, rc,          \* where main() is, and its exit status
  spe, server,       \* where spe_thread() and slowfs_fn() are
  slowfs,            \* the memory of struct slowfs
  mapped,            \* map_slowfs_file() has succeeded
  busy,              \* fuse_unmount() could not unmount
  exited,            \* fuse_exit() was called
  request,           \* what the kernel has asked of the server
  nap, delay,        \* seconds main() and slowfs_read() have left to sleep
  prompt,            \* assumed of this run: a thread that can go on does so at once
  during             \* the context was switched during the page fault

kernel == <<dir, mounts, runs>>
local == <<rc, slowfs, mapped, busy, nap, during>>
threads == <<spe, server, exited, request, delay, prompt>>
vars == <<kernel, main, local, threads>>

TypeOK ==
  /\ dir \in BOOLEAN /\ mounts \in Nat /\ runs \in 0..MaxRuns
  /\ main \in {"gone", "start", "mkdir", "talloc", "fuse_mount", "fuse_new", "server",
               "open", "opening", "fstat", "stating", "mmap", "spe", "sleep", "regs", "join",
               "fuse_exit", "fuse_unmount", "join_server", "talloc_free", "rmdir"}
  /\ rc \in {0, 1} /\ slowfs \in {"none", "allocated", "freed"}
  /\ spe \in {"none", "start", "fault", "done", "failed"}
  /\ server \in {"none", "loop", "receive", "serve", "sleep", "out", "done"}
  /\ request \in {"none", "open", "getattr", "read"}
  /\ mapped \in BOOLEAN /\ busy \in BOOLEAN
  /\ exited \in BOOLEAN /\ prompt \in BOOLEAN /\ during \in BOOLEAN
  /\ nap \in 0..1 /\ delay \in 0..2

Init ==
  /\ dir = FALSE /\ mounts = 0 /\ runs = 0
  /\ main = "gone" /\ rc = 0 /\ spe = "none" /\ server = "none"
  /\ slowfs = "none" /\ mapped = FALSE /\ busy = FALSE
  /\ exited = FALSE /\ request = "none" /\ nap = 0 /\ delay = 0
  /\ prompt = FALSE /\ during = FALSE

-----------------------------------------------------------------------------
(* The process *)

Start ==
  /\ main = "gone" /\ runs < MaxRuns
  /\ runs' = runs + 1 /\ main' = "start" /\ rc' = 0
  /\ spe' = "none" /\ server' = "none" /\ slowfs' = "none"
  /\ mapped' = FALSE /\ busy' = FALSE
  /\ exited' = FALSE /\ request' = "none" /\ nap' = 0 /\ delay' = 0 /\ during' = FALSE
  /\ prompt' \in BOOLEAN
  /\ UNCHANGED <<dir, mounts>>

\* The process is gone with all its threads, and the connection to the kernel.
Exit(status) ==
  /\ main' = "gone" /\ rc' = status
  /\ request' = "none"
  /\ UNCHANGED <<kernel, slowfs, mapped, busy, nap, during, spe, server, exited, delay, prompt>>

\* The timeout of the test runner.
Kill == main # "gone" /\ Exit(1)

At(pc) == main = pc
Goto(pc) == main' = pc

\* The asserts before anything is mounted.
Setup ==
  /\ At("start")
  /\ \/ Goto("mkdir") /\ UNCHANGED <<kernel, local, threads>>
     \/ Exit(1)

\* Mutant of MakeDir: a directory that is there already is taken.
MakeDir_Takes ==
  /\ At("mkdir")
  /\ dir' = TRUE /\ Goto("talloc") /\ UNCHANGED <<mounts, runs, local, threads>>

\* map_slowfs_file(): a directory that is there already ends the test.
MakeDir ==
  /\ At("mkdir")
  /\ \/ ~dir /\ dir' = TRUE /\ Goto("talloc") /\ UNCHANGED <<mounts, runs, local, threads>>
     \/ Exit(1)

-----------------------------------------------------------------------------
(* slowfs_mount().  Every failure frees the structure, and makes main()        *)
(* return with what was done before it in place.                               *)

Allocate ==
  /\ At("talloc")
  /\ \/ /\ slowfs' = "allocated" /\ Goto("fuse_mount")
        /\ UNCHANGED <<kernel, rc, mapped, busy, nap, during, threads>>
     \/ Exit(1)

FuseMount ==
  /\ At("fuse_mount")
  /\ \/ /\ mounts' = mounts + 1 /\ Goto("fuse_new")
        /\ UNCHANGED <<dir, runs, local, threads>>
     \/ Exit(1)

\* fuse_daemonize(1) stays in the foreground and does nothing.
FuseNew ==
  /\ At("fuse_new")
  /\ \/ Goto("server") /\ UNCHANGED <<kernel, local, threads>>
     \/ Exit(1)

StartServer ==
  /\ At("server")
  /\ \/ /\ server' = "loop" /\ Goto("open")
        /\ UNCHANGED <<kernel, local, spe, exited, request, delay, prompt>>
     \/ Exit(1)

-----------------------------------------------------------------------------
(* map_slowfs_file(), continued: on an error it unmounts, and leaves the       *)
(* directory.                                                                  *)

Ask(op) == request = "none" /\ request' = op

Open ==
  /\ At("open") /\ Ask("open") /\ Goto("opening")
  /\ UNCHANGED <<kernel, local, spe, server, exited, delay, prompt>>

\* Back with the answer, or with an error.
Answered(next) ==
  /\ request = "none"
  /\ \/ Goto(next) /\ UNCHANGED rc
     \/ Goto("fuse_exit") /\ rc' = 1
  /\ UNCHANGED <<kernel, slowfs, mapped, busy, nap, during, threads>>

Opened == At("opening") /\ Answered("fstat")

Stat ==
  /\ At("fstat") /\ Ask("getattr") /\ Goto("stating")
  /\ UNCHANGED <<kernel, local, spe, server, exited, delay, prompt>>

Stated == At("stating") /\ Answered("mmap")

Map == At("mmap") /\ Answered("spe")

-----------------------------------------------------------------------------
(* main(), continued *)

\* Mutant of StartSpe: main() sleeps as long as the read takes.
StartSpe_SleepsLonger ==
  /\ At("spe") /\ mapped' = TRUE
  /\ spe' = "start" /\ nap' = 2 /\ Goto("sleep")
  /\ UNCHANGED <<kernel, rc, slowfs, busy, during, server, exited, request, delay, prompt>>

\* pthread_create(), then sleep(1).
StartSpe ==
  /\ At("spe") /\ mapped' = TRUE
  /\ \/ /\ spe' = "start" /\ nap' = 1 /\ Goto("sleep")
        /\ UNCHANGED <<rc, server, exited, request, delay, prompt>>
     \/ /\ rc' = 1 /\ Goto("fuse_exit")
        /\ UNCHANGED <<nap, threads>>
  /\ UNCHANGED <<kernel, slowfs, busy, during>>

WakeUp ==
  /\ At("sleep") /\ nap = 0 /\ Goto("regs")
  /\ UNCHANGED <<kernel, local, threads>>

\* Reading regs takes the context off its SPE; an error is an assert.
ReadRegs ==
  /\ At("regs")
  /\ \/ /\ during' = (spe = "fault" /\ request = "read")
        /\ Goto("join")
        /\ UNCHANGED <<kernel, rc, slowfs, mapped, busy, nap, threads>>
     \/ Exit(1)

\* Mutant of JoinSpe: main() does not wait.
JoinSpe_NoWait ==
  /\ At("join") /\ Goto("fuse_exit")
  /\ UNCHANGED <<kernel, local, threads>>

\* What spu_run() returned is looked at, and printed, but not returned.
JoinSpe ==
  /\ At("join") /\ spe \in {"done", "failed"} /\ Goto("fuse_exit")
  /\ UNCHANGED <<kernel, local, threads>>

-----------------------------------------------------------------------------
(* slowfs_unmount() *)

FuseExit ==
  /\ At("fuse_exit")
  /\ exited' = TRUE /\ Goto("fuse_unmount")
  /\ UNCHANGED <<kernel, local, spe, server, request, delay, prompt>>

\* Mutant of FuseUnmount: left to the end of the process.
FuseUnmount_Skipped ==
  /\ At("fuse_unmount") /\ Goto("join_server") /\ UNCHANGED <<kernel, local, threads>>

\* fuse_unmount() does not say if it could not.
FuseUnmount ==
  /\ At("fuse_unmount") /\ Goto("join_server")
  /\ busy' \in BOOLEAN
  /\ mounts' = IF busy' THEN mounts ELSE mounts - 1
  /\ UNCHANGED <<dir, runs, rc, slowfs, mapped, nap, during, threads>>

\* Mutant of JoinServer: main() does not wait.
JoinServer_NoWait ==
  /\ At("join_server") /\ Goto("talloc_free") /\ UNCHANGED <<kernel, local, threads>>

JoinServer ==
  /\ At("join_server") /\ server = "done" /\ Goto("talloc_free")
  /\ UNCHANGED <<kernel, local, threads>>

Free ==
  /\ At("talloc_free") /\ slowfs' = "freed" /\ Goto("rmdir")
  /\ UNCHANGED <<kernel, rc, mapped, busy, nap, during, threads>>

\* unmap_slow_file() removes the directory, if nothing is mounted on it, and does
\* not look at what rmdir() returns; map_slowfs_file() leaves it.  Either way main()
\* returns.
Finish ==
  /\ At("rmdir") /\ Goto("gone")
  /\ dir' = (dir /\ ~(mapped /\ mounts = 0))
  /\ UNCHANGED <<mounts, runs, local, threads>>

Main ==
  \/ Setup \/ MakeDir \/ Allocate \/ FuseMount \/ FuseNew \/ StartServer
  \/ Open \/ Opened \/ Stat \/ Stated \/ Map
  \/ StartSpe \/ WakeUp \/ ReadRegs \/ JoinSpe
  \/ FuseExit \/ FuseUnmount \/ JoinServer \/ Free \/ Finish

-----------------------------------------------------------------------------
(* spe_thread(): the DMA faults on the page, and the program stops when it is  *)
(* there, switched out in between or not.                                      *)

Alive == main # "gone"

DmaFault ==
  /\ Alive /\ spe = "start" /\ Ask("read") /\ spe' = "fault"
  /\ UNCHANGED <<kernel, main, local, server, exited, delay, prompt>>

SpeStops ==
  /\ Alive /\ spe = "fault" /\ request = "none" /\ spe' = "done"
  /\ UNCHANGED <<kernel, main, local, server, exited, request, delay, prompt>>

\* spu_run() fails at once: the thread says so, and is done.
RunFails ==
  /\ Alive /\ spe = "start" /\ spe' = "failed"
  /\ UNCHANGED <<kernel, main, local, server, exited, request, delay, prompt>>

Spe == DmaFault \/ SpeStops \/ RunFails

-----------------------------------------------------------------------------
(* slowfs_fn(): fuse_loop() looks if it is to end, waits for a request, which  *)
(* an unmount interrupts, and serves it.                                       *)

others == <<kernel, main, local, spe, exited, prompt>>

Loop ==
  /\ Alive /\ server = "loop"
  /\ server' = IF exited THEN "out" ELSE "receive"
  /\ UNCHANGED <<others, request, delay>>

Receive ==
  /\ Alive /\ server = "receive"
  /\ \/ request # "none" /\ server' = "serve"
     \/ mounts = 0 /\ server' = "out"
  /\ UNCHANGED <<others, request, delay>>

\* slowfs_getattr(), slowfs_readdir() and slowfs_open() answer at once.
Serve ==
  /\ Alive /\ server = "serve" /\ request # "read"
  /\ request' = "none" /\ server' = "loop"
  /\ UNCHANGED <<others, delay>>

\* Mutant of ReadSleeps: one second, as the comment of the test has it.
ReadSleeps_OneSecond ==
  /\ Alive /\ server = "serve" /\ request = "read"
  /\ server' = "sleep" /\ delay' = 1
  /\ UNCHANGED <<others, request>>

\* slowfs_read()
ReadSleeps ==
  /\ Alive /\ server = "serve" /\ request = "read"
  /\ server' = "sleep" /\ delay' = 2
  /\ UNCHANGED <<others, request>>

ReadAnswers ==
  /\ Alive /\ server = "sleep" /\ delay = 0
  /\ request' = "none" /\ server' = "loop"
  /\ UNCHANGED <<others, delay>>

\* The result of fuse_loop() is written to the structure.
Out ==
  /\ Alive /\ server = "out" /\ server' = "done"
  /\ UNCHANGED <<others, request, delay>>

Server == Loop \/ Receive \/ Serve \/ ReadSleeps \/ ReadAnswers \/ Out

-----------------------------------------------------------------------------
(* Time *)

\* Every thread sleeps or waits for another.
Waiting ==
  /\ \/ main = "sleep" /\ nap > 0
     \/ main = "join" /\ spe \notin {"done", "failed"}
     \/ main \in {"opening", "stating"} /\ request # "none"
     \/ main = "join_server" /\ server # "done"
  /\ spe \in {"none", "done", "failed"} \/ (spe = "fault" /\ request # "none")
  /\ \/ server \in {"none", "done"}
     \/ server = "receive" /\ request = "none" /\ mounts > 0
     \/ server = "sleep" /\ delay > 0

Tick ==
  /\ Alive /\ nap + delay > 0
  /\ prompt => Waiting
  /\ nap' = IF nap > 0 THEN nap - 1 ELSE 0
  /\ delay' = IF delay > 0 THEN delay - 1 ELSE 0
  /\ UNCHANGED <<kernel, main, rc, slowfs, mapped, busy, during, spe, server, exited,
                 request, prompt>>

Next == Start \/ Kill \/ Main \/ Spe \/ Server \/ Tick

\* The threads of a process are scheduled, and sleeps end.
Spec ==
  /\ Init /\ [][Next]_vars
  /\ WF_vars(Main) /\ WF_vars(Spe) /\ WF_vars(Server) /\ WF_vars(Tick)

-----------------------------------------------------------------------------
(* Properties *)

\* A test that returns 0 leaves no directory and no mount, unless fuse_unmount()
\* could not unmount: the next run starts from nothing.
CleanExit == main = "gone" /\ rc = 0 /\ ~busy => ~dir /\ mounts = 0

\* Whatever runs before it have left, no run mounts on top of a mount: the mkdir()
\* that fails on the directory of an earlier run is what prevents it.
MountedOnce == mounts <= 1

\* slowfs_fn() never touches struct slowfs after slowfs_unmount() has freed it.
ServerHasMemory == Alive /\ server \notin {"none", "done"} => slowfs = "allocated"

\* No page fault and no open() is under way when the file system goes: whoever
\* waits for the server gets its answer.
RequestsAnswered ==
  Alive /\ request # "none" =>
    mounts = 1 /\ ~exited /\ server \in {"loop", "receive", "serve", "sleep"}

\* The threads have what they work with: main() and the server keep to their
\* types, the server has its memory and every request somebody who answers it.
ThreadsAreServed == TypeOK /\ ServerHasMemory /\ RequestsAnswered

\* The point of the test: if no thread is held up and spu_run() does not fail, the
\* context is taken off its SPE while the page fault is under way.  (If spu_run()
\* fails there is no page fault, but main() returns 0 all the same.)
SwitchesDuringFault == prompt /\ main = "join" /\ spe # "failed" => during

\* The test ends: no two of main(), the SPE waiting for its page and the server
\* wait for each other.  Only when fuse_unmount() could not is there nobody to
\* wake the server, and the join of it may last until the test is killed.
TestEnds == (main = "start") ~> (main = "gone" \/ (main = "join_server" /\ busy))
=============================================================================
