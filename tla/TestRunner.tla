----------------------------- MODULE TestRunner -----------------------------
(***************************************************************************)
(* The test runner of bin/run-tests.c: main(), run_tests(), run_test() and *)
(* read_test_output(), together with the process of the test that is being *)
(* run, the pipe its output goes through, the SIGCHLD that announces its   *)
(* end and the clock that its deadline is measured with.                   *)
(*                                                                         *)
(* Three parties interleave: the runner (one step per system call whose    *)
(* result the others can influence), the test process, and a descendant of *)
(* the test that may keep the write end of the pipe open after the test    *)
(* itself has gone.                                                        *)
(***************************************************************************)
EXTENDS Integers, FiniteSets

CONSTANTS
  NTests,         \* number of entries of the array find_tests() returns
  Configs,        \* option records test_read_config() can produce
  ExitCodes,      \* exit statuses of a test process
  Signals,        \* signals that can end a test process
  CoreSignals,    \* those of them whose default action is to dump core
  SIGALRM,        \* the signal sent on timeout
  TPS,            \* clock ticks (milliseconds in the code: 1000) per second
  ReadSize,       \* readsize of read_test_output() (4096 in the code)
  PipeSize,       \* capacity of the pipe
  MaxOutput,      \* bound: what one test and its descendants ever write
  MaxDelay,       \* bound: ticks between fork() and gettimeofday()
  Descendants     \* TRUE: a test may leave a process holding its stdout

Tests == 1..NTests

ConfigType == [expected_rc : Nat, expected_sig : Nat, timeout : Nat,
               run : BOOLEAN]

ASSUME RunnerAssumption ==
  /\ NTests \in Nat
  /\ Configs \subseteq ConfigType /\ Configs # {}
  /\ ExitCodes \subseteq Nat
  /\ Signals \subseteq Nat \ {0} /\ SIGALRM \in Signals
  /\ CoreSignals \subseteq Signals
  /\ TPS \in Nat \ {0}
  /\ ReadSize \in Nat \ {0}
  /\ PipeSize \in Nat \ {0}
  /\ MaxOutput \in Nat /\ MaxDelay \in Nat
  /\ Descendants \in BOOLEAN

\* How the process of a test ended: siginfo's si_code and si_status.
EndCodes == [how : {"exited"}, status : ExitCodes]
              \cup [how : {"killed"}, status : Signals]
              \cup [how : {"dumped"}, status : CoreSignals]
NoEnd == [how |-> "none", status |-> 0]

VARIABLES
  \* main() and run_tests()
  pc,         \* where the runner is
  phase,      \* which array run_tests() works on
  opts,       \* --continue, --no-timeout and --benchmark
  conf,       \* the options of each test, as its tests.conf gives them
  cur,        \* the test the loop is at
  result,     \* test->result
  rc,         \* rc of run_tests(): TRUE when nonzero
  badness,    \* dmesg_check() would report something
  \* run_test()
  deadline,   \* timeout_tv
  wakeAt,     \* when the poll() under way times out, -1 for never
  bufsize,    \* output.bufsize
  outlen,     \* output.len
  \* the test process, its pipe, and the signals between it and the runner
  child,      \* the process of test cur
  end,        \* how the process of each test ended
  outOpen,    \* the test still has its stdout open
  holder,     \* a descendant of the test has the write end open
  pipe,       \* bytes in the pipe
  written,    \* bytes written by the test and its descendants
  alarm,      \* SIGALRM is pending for the test
  sigchld,    \* the runner's disposition of SIGCHLD
  intr,       \* SIGCHLD arrived while the runner was in poll()
  now,        \* wall clock, counted from the second the test was started in
  start       \* history: the clock when the test was started

mainVars  == <<phase, opts, conf, badness>>
loopVars  == <<cur, result, rc>>
runVars   == <<deadline, wakeAt, start>>
bufVars   == <<bufsize, outlen>>
procVars  == <<child, end, outOpen, holder>>
pipeVars  == <<pipe, written>>
sigVars   == <<alarm, sigchld, intr>>
vars == <<pc, mainVars, loopVars, runVars, bufVars, procVars, pipeVars,
          sigVars, now>>

-----------------------------------------------------------------------------
Running == {"spawned", "waitid", "expire", "poll"}

Phases == {"tests", "benchmarks"}

TypeLoop ==
  /\ pc \in {"begin", "next", "spawn", "summary", "exit", "crashed"} \cup Running
  /\ phase \in Phases
  /\ opts \in [cont : BOOLEAN, timeout : BOOLEAN, benchmark : BOOLEAN]
  /\ conf \in [Tests -> ConfigType]
  /\ cur \in 1..NTests + 1
  /\ result \in [Tests -> {"notrun", "passed", "failed", "skipped"}]
  /\ rc \in BOOLEAN

TypeTest ==
  /\ badness \in BOOLEAN
  /\ child \in {"none", "running", "exiting", "zombie", "gone"}
  /\ end \in [Tests -> EndCodes \cup {NoEnd}]
  /\ outOpen \in BOOLEAN
  /\ holder \in BOOLEAN
  /\ alarm \in BOOLEAN
  /\ sigchld \in {"dfl", "ign", "handler"}
  /\ intr \in BOOLEAN

TypeCount ==
  /\ deadline \in Nat
  /\ wakeAt \in Nat \cup {-1}
  /\ bufsize \in Nat
  /\ outlen \in Nat
  /\ pipe \in Nat
  /\ written \in Nat
  /\ now \in Nat
  /\ start \in Nat

\* TypeOK: every variable stays within the range of values the code gives it;
\* in particular the loop index, the buffer length and the poll timeout.
TypeOK == TypeLoop /\ TypeTest /\ TypeCount

\* main() after option parsing and find_tests(): nothing has run yet.  The
\* disposition of SIGCHLD is inherited from whoever started the runner.
Init ==
  /\ pc = "begin" /\ phase = "tests"
  /\ opts \in [cont : BOOLEAN, timeout : BOOLEAN, benchmark : BOOLEAN]
  /\ conf \in [Tests -> Configs]
  /\ cur = 1
  /\ result = [t \in Tests |-> "notrun"]
  /\ rc = FALSE
  /\ badness \in BOOLEAN
  /\ deadline = 0 /\ wakeAt = 0 /\ now = 0 /\ start = 0
  /\ bufsize = 0 /\ outlen = 0
  /\ child = "none" /\ end = [t \in Tests |-> NoEnd]
  /\ outOpen = FALSE /\ holder = FALSE
  /\ pipe = 0 /\ written = 0
  /\ alarm = FALSE /\ sigchld \in {"dfl", "ign"} /\ intr = FALSE

-----------------------------------------------------------------------------
(* The arguments main() passes to run_tests(): benchmarks are run with
   cont_on_failure and enable_timeout off. *)
ContOnFailure == phase = "tests" /\ opts.cont
EnableTimeout == phase = "tests" /\ opts.timeout

\* run_tests() up to its loop: the kernel log must be clean and the working
\* directory usable, otherwise nothing is run.
BeginTests ==
  /\ pc = "begin"
  /\ \/ ~badness /\ pc' = "next" /\ UNCHANGED rc
     \/ pc' = "summary" /\ rc' = TRUE
  /\ UNCHANGED <<mainVars, cur, result, runVars, bufVars, procVars, pipeVars,
                 sigVars, now>>

\* Mutants of Return: the rc of the last test only; an index that a success
\* steps twice; a loop that never stops early.
Return_LastOnly(failed) ==
  /\ rc' = failed
  /\ cur' = cur + 1
  /\ pc' = IF rc' /\ ~ContOnFailure THEN "summary" ELSE "next"
Return_StepsTwice(failed) ==
  /\ rc' = (rc \/ failed)
  /\ cur' = IF failed THEN cur + 1 ELSE cur + 2
  /\ pc' = IF rc' /\ ~ContOnFailure THEN "summary" ELSE "next"
Return_NeverStops(failed) ==
  /\ rc' = (rc \/ failed)
  /\ cur' = cur + 1
  /\ pc' = "next"

\* run_test() returns, run_tests() accumulates its rc and goes on or stops.
Return(failed) ==
  /\ rc' = (rc \/ failed)
  /\ cur' = cur + 1
  /\ pc' = IF rc' /\ ~ContOnFailure THEN "summary" ELSE "next"

\* run_test(): read the options of the test and skip it if it is disabled or
\* a capability it requires is missing.
SkipTest ==
  /\ pc = "next" /\ cur \in Tests /\ ~conf[cur].run
  /\ result' = [result EXCEPT ![cur] = "skipped"]
  /\ Return(FALSE)
  /\ UNCHANGED <<mainVars, runVars, bufVars, procVars, pipeVars, sigVars, now>>

SelectTest ==
  /\ pc = "next" /\ cur \in Tests /\ conf[cur].run
  /\ pc' = "spawn"
  /\ UNCHANGED <<mainVars, loopVars, runVars, bufVars, procVars, pipeVars,
                 sigVars, now>>

\* pipe() or fork() fails: the test is not run and run_test() returns -1.
SpawnFails ==
  /\ pc = "spawn"
  /\ Return(TRUE)
  /\ UNCHANGED <<mainVars, result, runVars, bufVars, procVars, pipeVars,
                 sigVars, now>>

\* pipe() and fork(): the child has the only write end of a new pipe as its
\* stdout and stderr.  The clock is somewhere within its current second.
Spawn ==
  /\ pc = "spawn"
  /\ pc' = "spawned"
  /\ child' = "running" /\ outOpen' = TRUE
  /\ now' \in 0..TPS - 1 /\ start' = now'
  /\ UNCHANGED <<mainVars, loopVars, deadline, wakeAt, bufVars, end, holder,
                 pipeVars, sigVars>>

\* Mutants of Arm: no sigaction(), an inherited SIG_IGN stays in force; a
\* deadline counted from the second the clock is in.
Arm_NoHandler ==
  /\ pc = "spawned"
  /\ deadline' = now + TPS * conf[cur].timeout
  /\ pc' = "waitid"
  /\ UNCHANGED <<mainVars, loopVars, wakeAt, start, bufVars, procVars, pipeVars,
                 sigVars, now>>
Arm_WholeSeconds ==
  /\ pc = "spawned"
  /\ sigchld' = "handler"
  /\ deadline' = TPS * (now \div TPS) + TPS * conf[cur].timeout
  /\ pc' = "waitid"
  /\ UNCHANGED <<mainVars, loopVars, wakeAt, start, bufVars, procVars, pipeVars,
                 alarm, intr, now>>

\* sigaction(SIGCHLD), then the deadline is taken from the clock.  The early
\* return behind sigaction() is not taken: it only fails for a signal number
\* or a pointer that is not valid.
Arm ==
  /\ pc = "spawned"
  /\ sigchld' = "handler"
  /\ deadline' = now + TPS * conf[cur].timeout
  /\ pc' = "waitid"
  /\ UNCHANGED <<mainVars, loopVars, wakeAt, start, bufVars, procVars, pipeVars,
                 alarm, intr, now>>

\* run_test() leaves its loop: the read end of the pipe is closed and what
\* belonged to this test is out of use.
Leave ==
  /\ child' = "none" /\ outOpen' = FALSE /\ holder' = FALSE
  /\ pipe' = 0 /\ written' = 0 /\ bufsize' = 0 /\ outlen' = 0
  /\ deadline' = 0 /\ wakeAt' = 0 /\ now' = 0 /\ start' = 0
  /\ alarm' = FALSE /\ intr' = FALSE

\* waitid() has nothing to wait for: the kernel reaped the test by itself.
WaitError ==
  /\ pc = "waitid" /\ child = "gone"
  /\ Leave
  /\ Return(TRUE)
  /\ UNCHANGED <<mainVars, result, end, sigchld>>

\* The verdict of run_test() on a process that ended as e under options c,
\* "notrun" where the code assigns no result.
Verdict(c, e, dirty) ==
  CASE e.how = "exited" -> IF /\ e.status = c.expected_rc
                              /\ c.expected_sig = 0
                              /\ ~dirty
                           THEN "passed" ELSE "failed"
    [] e.how = "killed" -> IF e.status = c.expected_sig
                           THEN "passed" ELSE "failed"
    [] OTHER -> "notrun"

\* waitid() reaps the test.  test_pass() of a benchmark trims the output it
\* collected, and dereferences a null pointer when it has collected none.
Reap ==
  /\ pc = "waitid" /\ child = "zombie"
  /\ LET v == Verdict(conf[cur], end[cur], badness)
     IN  /\ result' = IF v = "notrun" THEN result
                      ELSE [result EXCEPT ![cur] = v]
         /\ IF v = "passed" /\ phase = "benchmarks" /\ bufsize = 0
            THEN pc' = "crashed" /\ UNCHANGED <<cur, rc>>
            ELSE Return(v = "failed")
  /\ Leave
  /\ UNCHANGED <<mainVars, end, sigchld>>

\* waitid(WNOHANG) finds the test still alive.
StillRunning ==
  /\ pc = "waitid" /\ child \in {"running", "exiting"}
  /\ pc' = "expire"
  /\ UNCHANGED <<mainVars, loopVars, runVars, bufVars, procVars, pipeVars,
                 sigVars, now>>

\* Mutant of PollTimeout: wait for output or a signal only.
PollTimeout_None == -1

\* The timeout handed to poll(), in ticks: whole seconds to the deadline, plus
\* one.  A negative one makes poll() wait without limit.
PollTimeout == 1 + TPS * ((deadline \div TPS) - (now \div TPS))

\* Mutants of Expire: the deadline compared in whole seconds; a test whose time
\* is up is given up on without waiting for it.
Expire_WholeSeconds ==
  /\ pc = "expire"
  /\ alarm' = (alarm \/ (EnableTimeout /\ now \div TPS >= deadline \div TPS))
  /\ wakeAt' = IF PollTimeout < 0 THEN -1 ELSE now + PollTimeout
  /\ intr' = FALSE
  /\ pc' = "poll"
  /\ UNCHANGED <<mainVars, loopVars, deadline, start, bufVars, procVars,
                 pipeVars, sigchld, now>>
Expire_GivesUp ==
  /\ pc = "expire"
  /\ intr' = FALSE
  /\ IF EnableTimeout /\ now > deadline
     THEN alarm' = TRUE /\ Return(TRUE) /\ UNCHANGED wakeAt
     ELSE /\ wakeAt' = IF PollTimeout < 0 THEN -1 ELSE now + PollTimeout
          /\ pc' = "poll" /\ UNCHANGED <<alarm, cur, rc>>
  /\ UNCHANGED <<mainVars, result, deadline, start, bufVars, procVars, pipeVars,
                 sigchld, now>>

\* Kill the test if its time is up, then enter poll().
Expire ==
  /\ pc = "expire"
  /\ alarm' = (alarm \/ (EnableTimeout /\ now > deadline))
  /\ wakeAt' = IF PollTimeout < 0 THEN -1 ELSE now + PollTimeout
  /\ intr' = FALSE
  /\ pc' = "poll"
  /\ UNCHANGED <<mainVars, loopVars, deadline, start, bufVars, procVars,
                 pipeVars, sigchld, now>>

\* Mutant of PipeReady: a hangup of the pipe does not wake poll().
PipeReady_DataOnly == pipe > 0

\* poll() finds data in the pipe or its last writer gone.
PipeReady == pipe > 0 \/ (~outOpen /\ ~holder)

\* poll() is interrupted by SIGCHLD or times out.
PollBreaks ==
  /\ pc = "poll" /\ ~PipeReady
  /\ intr \/ (wakeAt # -1 /\ now >= wakeAt)
  /\ pc' = "waitid"
  /\ UNCHANGED <<mainVars, loopVars, runVars, bufVars, procVars, pipeVars,
                 sigVars, now>>

\* Mutant of GrownBuf: grown only when there is no room at all.
GrownBuf_WhenFull ==
  IF bufsize = outlen
  THEN IF ReadSize > bufsize * 2 THEN ReadSize ELSE bufsize * 2
  ELSE bufsize

\* The buffer read_test_output() reads into, grown when a full read might not
\* fit behind what it already holds.
GrownBuf ==
  IF bufsize - outlen < ReadSize
  THEN IF ReadSize > bufsize * 2 THEN ReadSize ELSE bufsize * 2
  ELSE bufsize

\* Mutant of ReadOutput: what was collected before is overwritten.
ReadOutput_Overwrites ==
  /\ pc = "poll" /\ PipeReady
  /\ LET n == IF pipe < ReadSize THEN pipe ELSE ReadSize
     IN  outlen' = n /\ pipe' = pipe - n
  /\ bufsize' = GrownBuf
  /\ pc' = "waitid"
  /\ UNCHANGED <<mainVars, loopVars, runVars, procVars, written, sigVars, now>>

\* poll() reports data or a hangup; read() appends what is there (nothing, at
\* end of file, whose error return the caller ignores).
ReadOutput ==
  /\ pc = "poll" /\ PipeReady
  /\ LET n == IF pipe < ReadSize THEN pipe ELSE ReadSize
     IN  outlen' = outlen + n /\ pipe' = pipe - n
  /\ bufsize' = GrownBuf
  /\ pc' = "waitid"
  /\ UNCHANGED <<mainVars, loopVars, runVars, procVars, written, sigVars, now>>

\* run_tests() has gone through the array.
EndTests ==
  /\ pc = "next" /\ cur = NTests + 1
  /\ pc' = "summary"
  /\ UNCHANGED <<mainVars, loopVars, runVars, bufVars, procVars, pipeVars,
                 sigVars, now>>

\* Mutant of Summary: the benchmarks are run whatever came of the tests.
Summary_Regardless ==
  /\ pc = "summary" /\ phase = "tests"
  /\ IF ~opts.benchmark
     THEN pc' = "exit" /\ UNCHANGED <<phase, conf, cur, result, end>>
     ELSE /\ pc' = "begin" /\ phase' = "benchmarks" /\ cur' = 1
          /\ conf' \in [Tests -> Configs]
          /\ result' = [t \in Tests |-> "notrun"]
          /\ end' = [t \in Tests |-> NoEnd]
  /\ UNCHANGED <<opts, badness, rc, runVars, bufVars, child, outOpen, holder,
                 pipeVars, sigVars, now>>

\* main() after run_tests(): print_summary(), then exit, or go on to the
\* benchmarks when they were asked for and nothing failed.
Summary ==
  /\ pc = "summary" /\ phase = "tests"
  /\ IF rc \/ ~opts.benchmark
     THEN pc' = "exit" /\ UNCHANGED <<phase, conf, cur, result, end>>
     ELSE /\ pc' = "begin" /\ phase' = "benchmarks" /\ cur' = 1
          /\ conf' \in [Tests -> Configs]
          /\ result' = [t \in Tests |-> "notrun"]
          /\ end' = [t \in Tests |-> NoEnd]
  /\ UNCHANGED <<opts, badness, rc, runVars, bufVars, child, outOpen, holder,
                 pipeVars, sigVars, now>>

\* main() returns 0 whatever run_tests() made of the benchmarks.
BenchmarksDone ==
  /\ pc = "summary" /\ phase = "benchmarks"
  /\ pc' = "exit" /\ rc' = FALSE
  /\ UNCHANGED <<mainVars, cur, result, runVars, bufVars, procVars, pipeVars,
                 sigVars, now>>

-----------------------------------------------------------------------------
(* The test process and its descendants (external to the runner). *)

Write ==
  /\ pc \in Running
  /\ (child = "running" /\ outOpen) \/ holder
  /\ pipe < PipeSize /\ written < MaxOutput
  /\ pipe' = pipe + 1 /\ written' = written + 1
  /\ UNCHANGED <<pc, mainVars, loopVars, runVars, bufVars, procVars, sigVars,
                 now>>

CloseStdout ==
  /\ child = "running" /\ outOpen
  /\ outOpen' = FALSE
  /\ UNCHANGED <<pc, mainVars, loopVars, runVars, bufVars, child, end, holder,
                 pipeVars, sigVars, now>>

\* The test leaves a process behind that inherited its stdout.
ForkHolder ==
  /\ Descendants /\ child = "running" /\ outOpen /\ ~holder
  /\ holder' = TRUE
  /\ UNCHANGED <<pc, mainVars, loopVars, runVars, bufVars, child, end, outOpen,
                 pipeVars, sigVars, now>>

HolderExits ==
  /\ pc \in Running /\ holder
  /\ holder' = FALSE
  /\ UNCHANGED <<pc, mainVars, loopVars, runVars, bufVars, child, end, outOpen,
                 pipeVars, sigVars, now>>

\* The process ends; the kernel closes its files first ...
Die(e) ==
  /\ child = "running"
  /\ child' = "exiting" /\ outOpen' = FALSE
  /\ end' = [end EXCEPT ![cur] = e]
  /\ UNCHANGED <<pc, mainVars, loopVars, runVars, bufVars, holder, pipeVars,
                 sigVars, now>>

TestEnds == \E e \in EndCodes : Die(e)

AlarmKills == alarm /\ Die([how |-> "killed", status |-> SIGALRM])

\* ... and then notifies the parent: SIGCHLD interrupts a poll() under way and
\* is lost otherwise; a parent that ignores it gets no zombie.
Notify ==
  /\ child = "exiting"
  /\ child' = IF sigchld = "ign" THEN "gone" ELSE "zombie"
  /\ intr' = (pc = "poll")
  /\ UNCHANGED <<pc, mainVars, loopVars, runVars, bufVars, end, outOpen, holder,
                 pipeVars, alarm, sigchld, now>>

\* The kernel logs a warning, or the last one drops out of its ring buffer.
KernelLogs ==
  /\ child = "running"
  /\ badness' = ~badness
  /\ UNCHANGED <<pc, phase, opts, conf, loopVars, runVars, bufVars, procVars,
                 pipeVars, sigVars, now>>

\* The clock advances.  Past the second after the deadline's nothing depends
\* on it any more: every poll() then waits without limit.
ClockBound == IF pc = "spawned" THEN start + MaxDelay
              ELSE TPS * ((deadline \div TPS) + 1)

Tick ==
  /\ pc \in Running /\ now < ClockBound
  /\ now' = now + 1
  /\ UNCHANGED <<pc, mainVars, loopVars, runVars, bufVars, procVars, pipeVars,
                 sigVars>>

\* Nothing is left to do.
Terminated == pc \in {"exit", "crashed"} /\ UNCHANGED vars

Runner ==
  \/ BeginTests \/ SkipTest \/ SelectTest \/ SpawnFails \/ Spawn \/ Arm
  \/ WaitError \/ Reap \/ StillRunning \/ Expire \/ PollBreaks \/ ReadOutput
  \/ EndTests \/ Summary \/ BenchmarksDone

Environment ==
  \/ Write \/ CloseStdout \/ ForkHolder \/ HolderExits
  \/ TestEnds \/ AlarmKills \/ Notify \/ KernelLogs \/ Tick

Next == Runner \/ Environment \/ Terminated

Spec == Init /\ [][Next]_vars

\* The scheduler runs the runner, the clock advances, a test that has SIGALRM
\* pending dies of it, and a process that is exiting gets to its end.
FairSpec ==
  /\ Spec
  /\ WF_vars(Runner) /\ WF_vars(Tick) /\ WF_vars(AlarmKills) /\ WF_vars(Notify)

-----------------------------------------------------------------------------
(* Safety. *)

\* What tests.conf asks of a test: the configured exit status when no signal is
\* expected, else death by that signal.
AsConfigured(c, e) ==
  \/ e.how = "exited" /\ e.status = c.expected_rc /\ c.expected_sig = 0
  \/ e.how \in {"killed", "dumped"} /\ e.status = c.expected_sig

\* What the code lets through as not failed: a test that dumped core as well,
\* which none of the branches on si_code looks at (EndIsJudged).
Accepted(t) ==
  \/ ~conf[t].run /\ result[t] = "skipped" /\ end[t] = NoEnd
  \/ conf[t].run /\ (AsConfigured(conf[t], end[t]) \/ end[t].how = "dumped")

\* SoundSuccess: a run of the tests that ends without an error (the rc main()
\* returns and that lets the benchmarks start) has been through every test,
\* and each was skipped because its configuration says so, ended as configured
\* or dumped core; no failure on the way was forgotten.
SoundSuccess ==
  pc = "summary" /\ phase = "tests" /\ ~rc => \A t \in Tests : Accepted(t)

\* FirstFailureStops: without --continue no test is started, skipped or judged
\* after one that failed.
FirstFailureStops ==
  \A t, u \in Tests :
    ~ContOnFailure /\ t < u /\ result[t] = "failed"
      => result[u] = "notrun" /\ end[u] = NoEnd

\* OneTestAtATime: whenever the runner is between two tests the process of the
\* last one has ended and been reaped; run_test() never leaves one behind.
OneTestAtATime == child # "none" => pc \in Running

\* KillsOwnTest: between the waitid() that finds the test alive and the kill()
\* of the timeout its pid cannot have been freed for another process, although
\* the test may die at any moment in between.
KillsOwnTest == pc = "expire" => child \in {"running", "exiting", "zombie"}

\* FullTime: SIGALRM is only sent to a test that has had the whole of its
\* configured timeout since it was started, wherever in a second that was and
\* whatever the runner did in between, and never with --no-timeout or to a
\* benchmark.
FullTime == alarm => EnableTimeout /\ now > start + TPS * conf[cur].timeout

\* OutputConserved: while a test runs, what it has written is in the buffer or
\* still in the pipe: nothing is lost, duplicated or taken from another test.
OutputConserved ==
  outlen + pipe = written /\ pipe <= PipeSize

\* ReadFits: read() is given readsize bytes behind output.len, and the buffer
\* has room for them, however the output was split over the reads before.
ReadFits == [][pc = "poll" /\ pc' = "waitid" /\ pipe' # pipe
                 => outlen + ReadSize <= bufsize']_vars

(* What run_tests() promises its caller, as an abstract specification: tests
   one at a time and in order, a verdict for each at most once, and benchmarks
   only after an unbroken run of all tests. *)
Suite == INSTANCE Suite WITH
  at      <- cur,
  live    <- child # "none",
  outcome <- result,
  stage   <- phase,
  clean   <- phase = "benchmarks" \/ ~rc

\* ImplementsSuite: every step of the runner, the test and the kernel is a step
\* of the abstract suite or invisible to it.
ImplementsSuite == Suite!Spec

(* Liveness, under FairSpec. *)

\* DeathNoticed: a test that ends without leaving a process behind that has its
\* output open is reaped, whatever the runner was about to do: the SIGCHLD that
\* comes too early to interrupt poll() is made up for by the hangup of the pipe.
DeathNoticed == child = "exiting" /\ ~holder ~> child = "none"

\* TestsPhaseEnds: with timeouts on, no test keeps the suite from ending: not
\* one that hangs, writes, or closes its output and goes on, unless a process
\* it has left behind keeps its output open for ever.
TestsPhaseEnds ==
  opts.timeout /\ []<>~holder => <>(phase = "benchmarks" \/ pc = "exit")

(* Stated by the documentation and the comment on sigchld_handler(), and refuted
   by the code. *)

\* EndIsJudged: SIGCHLD breaks the runner out of its wait, so that a test that
\* ends is reaped, and how it ended passes or fails it.
EndIsJudged ==
  \A t \in Tests :
    cur = t /\ child = "exiting"
      ~> child = "none" /\ (result[t] \in {"passed", "failed"} \/ rc)
=============================================================================
