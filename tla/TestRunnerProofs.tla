-------------------------- MODULE TestRunnerProofs --------------------------
(***************************************************************************)
(* Proofs about TestRunner, for any number of tests, any options, any      *)
(* timeouts, buffer and pipe sizes and any behaviour of the tests.         *)
(***************************************************************************)
EXTENDS TestRunner, TLAPS

-----------------------------------------------------------------------------
(* The inductive invariant, in five parts. *)

\* Where the runner is relative to the test it works on.
Placed ==
  /\ pc \in Running \cup {"spawn"} => cur \in Tests /\ conf[cur].run
  /\ pc \in Running <=> child # "none"
  /\ pc = "begin" => cur = 1

\* An inherited SIG_IGN can only cost the runner a test before sigaction().
Handled ==
  /\ pc \in {"waitid", "expire", "poll"} => sigchld = "handler"
  /\ child = "gone" => pc \in {"spawned", "waitid"}

\* The deadline leaves a test its configured time from its start on, stays what
\* it is once the test is under way, and SIGALRM is pending only behind it.
Timed ==
  /\ pc = "spawned" => start <= now
  /\ pc \in {"waitid", "expire", "poll"}
       => start + TPS * conf[cur].timeout <= deadline
  /\ alarm => /\ pc \in {"waitid", "expire", "poll"}
              /\ EnableTimeout
              /\ now > deadline

\* Output is in the pipe or the buffer, and the buffer is empty or can hold a
\* full read.
Collected ==
  /\ outlen + pipe = written
  /\ pipe <= PipeSize
  /\ outlen <= bufsize
  /\ bufsize = 0 \/ ReadSize <= bufsize
  /\ pc \notin Running => written = 0

\* Tests from cur on have no verdict yet, and no process of theirs has ended
\* but that of cur.
Ahead ==
  /\ \A u \in Tests : u > cur => result[u] = "notrun" /\ end[u] = NoEnd
  /\ pc # "crashed" /\ cur \in Tests => result[cur] = "notrun"
  /\ cur \in Tests /\ child \in {"none", "running"} /\ pc # "crashed"
       => end[cur] = NoEnd
  /\ child \in {"exiting", "zombie", "gone"} => end[cur] \in EndCodes

\* Tests before cur have been accepted unless rc says otherwise, and without
\* --continue a failure ends the run.
Behind ==
  /\ phase = "tests" /\ ~rc => \A t \in Tests : t < cur => Accepted(t)
  /\ pc = "summary" /\ ~rc => cur = NTests + 1
  /\ phase = "tests" => pc # "crashed"
  /\ ~ContOnFailure => \A t \in Tests : result[t] = "failed" =>
                         t = cur - 1 /\ pc \in {"summary", "exit"}

IInv == TypeOK /\ Placed /\ Handled /\ Timed /\ Collected /\ Ahead /\ Behind

-----------------------------------------------------------------------------
USE DEF mainVars, loopVars, runVars, bufVars, procVars, pipeVars, sigVars

\* The loop variables keep their types.
LEMMA TypeLoopStep ==
  ASSUME TypeLoop, Placed, Next
  PROVE  TypeLoop'
<1> USE RunnerAssumption DEF TypeLoop, Placed, Running, Tests, Phases
<1>1. CASE SkipTest
  BY <1>1 DEF SkipTest, Return, ContOnFailure
<1>2. CASE SpawnFails
  BY <1>2 DEF SpawnFails, Return, ContOnFailure
<1>3. CASE WaitError
  BY <1>3 DEF WaitError, Return, ContOnFailure, Leave
<1>4. CASE Reap
  <2> DEFINE v == Verdict(conf[cur], end[cur], badness)
  <2>1. v \in {"passed", "failed", "notrun"}
    BY DEF Verdict
  <2> HIDE DEF v
  <2>2. cur \in Tests
    BY <1>4 DEF Reap
  <2>3. result' = IF v = "notrun" THEN result
                  ELSE [result EXCEPT ![cur] = v]
    BY <1>4 DEF Reap, v
  <2>4. \/ pc' = "crashed" /\ UNCHANGED <<cur, rc>>
        \/ Return(v = "failed")
    BY <1>4 DEF Reap, v
  <2>5. UNCHANGED <<phase, opts, conf>>
    BY <1>4 DEF Reap
  <2>6. (result \in [Tests -> {"notrun", "passed", "failed", "skipped"}])'
    BY <2>1, <2>2, <2>3
  <2>7. CASE pc' = "crashed" /\ UNCHANGED <<cur, rc>>
    BY <2>5, <2>6, <2>7
  <2>8. CASE Return(v = "failed")
    BY <2>2, <2>5, <2>6, <2>8 DEF Return
  <2> QED
    BY <2>4, <2>7, <2>8
<1>5. CASE Summary
  BY <1>5 DEF Summary
<1>6. CASE Environment
  BY <1>6 DEF Environment, Write, CloseStdout, ForkHolder, HolderExits,
     TestEnds, AlarmKills, Notify, KernelLogs, Tick, Die, EndCodes,
     ClockBound
<1>7. CASE BeginTests \/ SelectTest \/ Spawn \/ Arm \/ StillRunning \/
            Expire \/ PollBreaks \/ ReadOutput \/ EndTests \/ BenchmarksDone
            \/ Terminated
  BY <1>7 DEF BeginTests, SelectTest, Spawn, Arm, StillRunning, Expire,
     PollBreaks, ReadOutput, EndTests, BenchmarksDone, Terminated,
     PollTimeout, EnableTimeout, PipeReady, GrownBuf, vars
<1> QED
  BY <1>1, <1>2, <1>3, <1>4, <1>5, <1>6, <1>7 DEF Next, Runner, Environment

\* So do those of the test process ...
LEMMA TypeTestStep ==
  ASSUME TypeLoop, TypeTest, Placed, Next
  PROVE  TypeTest'
<1> USE RunnerAssumption DEF TypeTest, Tests, Placed, TypeLoop, Running
<1>1. CASE Spawn
  BY <1>1 DEF Spawn
<1>2. CASE Arm
  BY <1>2 DEF Arm
<1>3. CASE WaitError
  BY <1>3 DEF WaitError, Return, ContOnFailure, Leave
<1>4. CASE Reap
  BY <1>4 DEF Reap, Return, ContOnFailure, Leave, Verdict, EndCodes, NoEnd
<1>5. CASE Expire
  BY <1>5 DEF Expire, PollTimeout, EnableTimeout
<1>6. CASE Summary
  BY <1>6 DEF Summary
<1>7. CASE CloseStdout
  BY <1>7 DEF CloseStdout
<1>8. CASE ForkHolder
  BY <1>8 DEF ForkHolder
<1>9. CASE HolderExits
  BY <1>9 DEF HolderExits
<1>10. CASE TestEnds
  <2>1. PICK e \in EndCodes : Die(e)
    BY <1>10 DEF TestEnds
  <2> QED
    BY <2>1 DEF Die
<1>11. CASE AlarmKills
  BY <1>11 DEF AlarmKills, Die, EndCodes
<1>12. CASE Notify
  BY <1>12 DEF Notify
<1>13. CASE KernelLogs
  BY <1>13 DEF KernelLogs
<1>14. CASE BeginTests \/ SkipTest \/ SelectTest \/ SpawnFails \/
            StillRunning \/ PollBreaks \/ ReadOutput \/ EndTests \/
            BenchmarksDone \/ Write \/ Tick \/ Terminated
  BY <1>14 DEF BeginTests, SkipTest, SelectTest, SpawnFails, StillRunning,
     PollBreaks, ReadOutput, EndTests, BenchmarksDone, Write, Tick,
     Terminated, Return, ContOnFailure, PipeReady, GrownBuf, ClockBound,
     vars
<1> QED
  BY <1>1, <1>2, <1>3, <1>4, <1>5, <1>6, <1>7, <1>8, <1>9, <1>10, <1>11,
     <1>12, <1>13, <1>14 DEF Next, Runner, Environment

\* ... and the counters.
LEMMA TypeCountStep ==
  ASSUME TypeLoop, TypeCount, Placed, Next
  PROVE  TypeCount'
<1> USE RunnerAssumption DEF TypeCount, TypeLoop, ConfigType, Placed, Running
<1>1. CASE Arm \/ Spawn
  BY <1>1 DEF Arm, Spawn
<1>2. CASE WaitError
  BY <1>2 DEF WaitError, Return, ContOnFailure, Leave
<1>3. CASE Reap
  BY <1>3 DEF Reap, Return, ContOnFailure, Leave, Verdict, EndCodes, NoEnd
<1>4. CASE Expire
  BY <1>4 DEF Expire, PollTimeout, EnableTimeout
<1>5. CASE ReadOutput
  BY <1>5 DEF ReadOutput, GrownBuf, PipeReady
<1>6. CASE Write
  BY <1>6 DEF Write
<1>7. CASE Tick
  BY <1>7 DEF Tick, ClockBound
<1>8. CASE BeginTests \/ SkipTest \/ SelectTest \/ SpawnFails \/
            StillRunning \/ PollBreaks \/ EndTests \/ Summary \/
            BenchmarksDone \/ CloseStdout \/ ForkHolder \/ HolderExits \/
            TestEnds \/ AlarmKills \/ Notify \/ KernelLogs \/ Terminated
  BY <1>8 DEF BeginTests, SkipTest, SelectTest, SpawnFails,
     StillRunning, PollBreaks, EndTests, Summary, BenchmarksDone,
     CloseStdout, ForkHolder, HolderExits, TestEnds, AlarmKills, Notify,
     KernelLogs, Terminated, Return, ContOnFailure, PipeReady, Die,
     EndCodes, vars
<1> QED
  BY <1>1, <1>2, <1>3, <1>4, <1>5, <1>6, <1>7, <1>8 DEF Next, Runner,
     Environment

\* A test is alive exactly while run_test() is in its loop.
LEMMA PlacedStep ==
  ASSUME TypeOK, Placed, Behind, Handled, Next
  PROVE  Placed'
<1> USE RunnerAssumption DEF TypeOK, TypeLoop, TypeTest, Placed, Running, Tests
<1>1. CASE SelectTest
  BY <1>1 DEF SelectTest
<1>2. CASE Spawn
  BY <1>2 DEF Spawn
<1>3. CASE WaitError
  BY <1>3 DEF WaitError, Return, ContOnFailure, Leave
<1>4. CASE Reap
  BY <1>4, SMTT(30) DEF Reap, Return, ContOnFailure, Leave, Verdict, EndCodes, NoEnd
<1>5. CASE Summary
  BY <1>5 DEF Summary
<1>6. CASE Environment
  BY <1>6 DEF Environment, Write, CloseStdout, ForkHolder, HolderExits,
     TestEnds, AlarmKills, Notify, KernelLogs, Tick, Die, EndCodes,
     ClockBound
<1>7. CASE BeginTests \/ SkipTest \/ SpawnFails \/ Arm \/ StillRunning \/
            Expire \/ PollBreaks \/ ReadOutput \/ EndTests \/ BenchmarksDone
            \/ Terminated
  BY <1>7 DEF BeginTests, SkipTest, SpawnFails, Arm, StillRunning, Expire,
     PollBreaks, ReadOutput, EndTests, BenchmarksDone, Terminated, Return,
     ContOnFailure, PollTimeout, EnableTimeout, PipeReady, GrownBuf, vars
<1> QED
  BY <1>1, <1>2, <1>3, <1>4, <1>5, <1>6, <1>7 DEF Next, Runner, Environment

\* The handler is installed before the first waitid().
LEMMA HandledStep ==
  ASSUME TypeOK, Placed, Handled, Next
  PROVE  Handled'
<1> USE RunnerAssumption DEF TypeOK, TypeLoop, TypeTest, Handled, Placed,
     Running
<1>1. CASE Arm
  BY <1>1 DEF Arm
<1>2. CASE StillRunning
  BY <1>2 DEF StillRunning
<1>3. CASE Notify
  BY <1>3 DEF Notify
<1>4. CASE BeginTests \/ SkipTest \/ SelectTest \/ SpawnFails \/ Spawn \/
            WaitError \/ Reap \/ Expire \/ PollBreaks \/ ReadOutput \/
            EndTests \/ Summary \/ BenchmarksDone \/ Write \/ CloseStdout \/
            ForkHolder \/ HolderExits \/ TestEnds \/ AlarmKills \/
            KernelLogs \/ Tick \/ Terminated
  BY <1>4 DEF BeginTests, SkipTest, SelectTest, SpawnFails, Spawn,
     WaitError, Reap, Expire, PollBreaks, ReadOutput, EndTests, Summary,
     BenchmarksDone, Write, CloseStdout, ForkHolder, HolderExits, TestEnds,
     AlarmKills, KernelLogs, Tick, Terminated, Return, ContOnFailure, Leave,
     Verdict, EndCodes, NoEnd, PollTimeout, EnableTimeout, PipeReady,
     GrownBuf, Die, ClockBound, vars
<1> QED
  BY <1>1, <1>2, <1>3, <1>4 DEF Next, Runner, Environment

\* SIGALRM is sent after the deadline only, and the clock does not go back.
LEMMA TimedStep ==
  ASSUME TypeOK, Placed, Timed, Next
  PROVE  Timed'
<1> USE RunnerAssumption DEF TypeOK, TypeTest, TypeCount, TypeLoop, Timed,
     EnableTimeout
<1>1. CASE Spawn
  BY <1>1 DEF Spawn
<1>2. CASE Arm
  <2>1. cur \in Tests /\ TPS * conf[cur].timeout \in Nat
    BY <1>2 DEF Arm, Placed, Running, ConfigType
  <2> QED
    BY <1>2, <2>1 DEF Arm
<1>3. CASE WaitError \/ Reap
  <2>1. ~alarm' /\ pc' \in {"next", "summary", "crashed"}
    BY <1>3 DEF WaitError, Reap, Return, Leave
  <2> QED
    BY <2>1
<1>4. CASE Expire
  BY <1>4 DEF Expire, PollTimeout, EnableTimeout
<1>5. CASE Tick
  BY <1>5 DEF Tick
<1>6. CASE StillRunning \/ PollBreaks \/ ReadOutput
  BY <1>6 DEF StillRunning, PollBreaks, ReadOutput
<1>7. CASE BeginTests \/ SkipTest \/ SelectTest \/ SpawnFails \/ EndTests \/
           Summary \/ BenchmarksDone
  <2>1. /\ alarm' = alarm /\ pc \notin {"waitid", "expire", "poll"}
        /\ pc' \notin {"spawned", "waitid", "expire", "poll"}
    BY <1>7 DEF BeginTests, SkipTest, SelectTest, SpawnFails, EndTests, Summary,
       BenchmarksDone, Return
  <2> QED
    BY <2>1
<1>8. CASE Write \/ CloseStdout \/ ForkHolder \/ HolderExits \/ TestEnds \/
           AlarmKills \/ Notify \/ KernelLogs \/ Terminated
  BY <1>8 DEF Write, CloseStdout, ForkHolder, HolderExits, TestEnds,
     AlarmKills, Notify, KernelLogs, Terminated, Die, vars
<1> QED
  BY <1>1, <1>2, <1>3, <1>4, <1>5, <1>6, <1>7, <1>8
     DEF Next, Runner, Environment

\* No output is lost between the pipe and the buffer.
LEMMA CollectedStep ==
  ASSUME TypeOK, Placed, Collected, Next
  PROVE  Collected'
<1> USE RunnerAssumption DEF TypeOK, TypeTest, TypeCount, TypeLoop, Collected,
     Running
<1>1. CASE Reap
  BY <1>1 DEF Reap, Return, ContOnFailure, Leave, Verdict, EndCodes, NoEnd
<1>2. CASE WaitError
  BY <1>2 DEF WaitError, Return, ContOnFailure, Leave
<1>3. CASE ReadOutput
  BY <1>3 DEF ReadOutput, GrownBuf, PipeReady
<1>4. CASE Write
  BY <1>4 DEF Write
<1>5. CASE BeginTests \/ SkipTest \/ SelectTest \/ SpawnFails \/ Spawn \/
            Arm \/ StillRunning \/ Expire \/ PollBreaks \/ EndTests \/
            Summary \/ BenchmarksDone \/ CloseStdout \/ ForkHolder \/
            HolderExits \/ TestEnds \/ AlarmKills \/ Notify \/ KernelLogs \/
            Tick \/ Terminated
  BY <1>5 DEF BeginTests, SkipTest, SelectTest, SpawnFails, Spawn, Arm,
     StillRunning, Expire, PollBreaks, EndTests, Summary, BenchmarksDone,
     CloseStdout, ForkHolder, HolderExits, TestEnds, AlarmKills, Notify,
     KernelLogs, Tick, Terminated, Return, ContOnFailure, PollTimeout,
     EnableTimeout, PipeReady, Die, EndCodes, ClockBound, vars
<1> QED
  BY <1>1, <1>2, <1>3, <1>4, <1>5 DEF Next, Runner, Environment

\* Nothing happens to a test before its turn.
LEMMA AheadStep ==
  ASSUME TypeOK, Placed, Ahead, Handled, Next
  PROVE  Ahead'
<1> USE RunnerAssumption DEF TypeOK, TypeTest, TypeLoop, Ahead, Running,
     Placed, Tests
<1>1. CASE SkipTest
  BY <1>1 DEF SkipTest, Return, ContOnFailure
<1>2. CASE SpawnFails
  BY <1>2 DEF SpawnFails, Return, ContOnFailure
<1>3. CASE WaitError
  BY <1>3 DEF WaitError, Return, ContOnFailure, Leave
<1>4. CASE Reap
  BY <1>4, SMTT(30) DEF Reap, Return, ContOnFailure, Leave, Verdict, EndCodes, NoEnd
<1>5. CASE Summary
  BY <1>5 DEF Summary
<1>6. CASE TestEnds
  BY <1>6 DEF TestEnds, Die
<1>7. CASE AlarmKills
  BY <1>7 DEF AlarmKills, Die, EndCodes
<1>8. CASE Notify
  BY <1>8 DEF Notify
<1>9. CASE BeginTests \/ SelectTest \/ Spawn \/ Arm \/ StillRunning \/
            Expire \/ PollBreaks \/ ReadOutput \/ EndTests \/ BenchmarksDone
            \/ Write \/ CloseStdout \/ ForkHolder \/ HolderExits \/
            KernelLogs \/ Tick \/ Terminated
  BY <1>9 DEF BeginTests, SelectTest, Spawn, Arm, StillRunning, Expire,
     PollBreaks, ReadOutput, EndTests, BenchmarksDone, Write, CloseStdout,
     ForkHolder, HolderExits, KernelLogs, Tick, Terminated, PollTimeout,
     EnableTimeout, PipeReady, GrownBuf, ClockBound, vars
<1> QED
  BY <1>1, <1>2, <1>3, <1>4, <1>5, <1>6, <1>7, <1>8, <1>9 DEF Next, Runner,
     Environment

\* Every test that is done with was accepted, or rc is set.
LEMMA BehindStep ==
  ASSUME TypeOK, Placed, Ahead, Behind, Handled, Next
  PROVE  Behind'
<1> USE RunnerAssumption DEF TypeOK, TypeTest, TypeLoop, Ahead, Behind,
     Running, Placed, Tests, Accepted, AsConfigured, NoEnd, ContOnFailure
<1>1. CASE SkipTest
  BY <1>1 DEF SkipTest, Return, ContOnFailure
<1>2. CASE SpawnFails
  BY <1>2 DEF SpawnFails, Return, ContOnFailure
<1>3. CASE WaitError
  BY <1>3 DEF WaitError, Return, ContOnFailure, Leave
<1>4. CASE Reap
  <2> DEFINE v == Verdict(conf[cur], end[cur], badness)
  <2>1. /\ v \in {"passed", "failed", "notrun"}
        /\ v # "failed" => \/ AsConfigured(conf[cur], end[cur])
                           \/ end[cur].how = "dumped"
    BY <1>4 DEF Verdict, EndCodes, Reap
  <2> HIDE DEF v
  <2>2. /\ cur \in Tests /\ conf[cur].run
        /\ result' = IF v = "notrun" THEN result
                     ELSE [result EXCEPT ![cur] = v]
        /\ UNCHANGED <<phase, opts, conf, end>>
    BY <1>4 DEF Reap, v
  <2>3. \/ pc' = "crashed" /\ phase = "benchmarks" /\ v = "passed"
           /\ UNCHANGED <<cur, rc>>
        \/ Return(v = "failed")
    BY <1>4 DEF Reap, v
  <2>4. pc = "waitid"
    BY <1>4 DEF Reap
  <2>5. CASE pc' = "crashed" /\ phase = "benchmarks" /\ v = "passed"
             /\ UNCHANGED <<cur, rc>>
    BY <2>1, <2>2, <2>4, <2>5
  <2>6. CASE Return(v = "failed")
    <3>0. /\ cur' = cur + 1 /\ (~rc' => ~rc /\ v # "failed")
          /\ v = "failed" /\ ~ContOnFailure => pc' = "summary"
      BY <2>6 DEF Return
    <3>1. ASSUME phase = "tests", ~rc', NEW t \in Tests, t < cur'
          PROVE  Accepted(t)'
      <4>1. CASE t = cur
        BY <2>1, <2>2, <3>0, <3>1, <4>1
      <4>2. CASE t # cur
        <5>1. t < cur
          BY <2>2, <3>0, <3>1, <4>2
        <5>2. Accepted(t)
          BY <3>0, <3>1, <5>1
        <5>3. result'[t] = result[t] /\ conf' = conf /\ end' = end
          BY <2>2, <4>2
        <5> QED
          BY <5>2, <5>3
      <4> QED
        BY <4>1, <4>2
    <3>2. ASSUME ~ContOnFailure, NEW t \in Tests, result'[t] = "failed"
          PROVE  t = cur' - 1 /\ pc' \in {"summary", "exit"}
      <4>1. t = cur /\ v = "failed"
        BY <2>1, <2>2, <2>4, <3>2
      <4> QED
        BY <2>2, <3>0, <3>2, <4>1
    <3>3. pc' # "crashed" /\ (pc' = "summary" => rc')
      BY <2>6 DEF Return
    <3> QED
      BY <2>2, <3>1, <3>2, <3>3
  <2> QED
    BY <2>3, <2>5, <2>6
<1>5. CASE EndTests
  BY <1>5 DEF EndTests
<1>6. CASE Summary
  BY <1>6 DEF Summary
<1>7. CASE TestEnds
  BY <1>7 DEF TestEnds, Die
<1>8. CASE AlarmKills
  BY <1>8 DEF AlarmKills, Die, EndCodes
<1>9. CASE BeginTests \/ SelectTest \/ Spawn \/ Arm \/ StillRunning \/
            Expire \/ PollBreaks \/ ReadOutput \/ BenchmarksDone \/ Write \/
            CloseStdout \/ ForkHolder \/ HolderExits \/ Notify \/ KernelLogs
            \/ Tick \/ Terminated
  BY <1>9 DEF BeginTests, SelectTest, Spawn, Arm, StillRunning, Expire,
     PollBreaks, ReadOutput, BenchmarksDone, Write, CloseStdout, ForkHolder,
     HolderExits, Notify, KernelLogs, Tick, Terminated, PollTimeout,
     EnableTimeout, PipeReady, GrownBuf, ClockBound, vars
<1> QED
  BY <1>1, <1>2, <1>3, <1>4, <1>5, <1>6, <1>7, <1>8, <1>9 DEF Next, Runner,
     Environment

-----------------------------------------------------------------------------
\* The states main() starts run_tests() in satisfy the invariant.
LEMMA InitIInv == Init => IInv
<1> SUFFICES ASSUME Init PROVE IInv
  OBVIOUS
<1> USE RunnerAssumption DEF Init, Tests, Running
<1>1. TypeOK
  <2>1. TypeLoop
    <3>1. conf \in [Tests -> ConfigType]
      BY DEF ConfigType
    <3>2. cur \in 1..NTests + 1
      OBVIOUS
    <3> QED
      BY <3>1, <3>2 DEF TypeLoop, Phases
  <2>2. TypeTest
    BY DEF TypeTest
  <2>3. TypeCount
    BY DEF TypeCount
  <2> QED
    BY <2>1, <2>2, <2>3 DEF TypeOK
<1>2. Placed /\ Handled /\ Timed
  BY DEF Placed, Handled, Timed
<1>3. Collected
  BY DEF Collected
<1>4. Ahead /\ Behind
  BY DEF Ahead, Behind, NoEnd
<1> QED
  BY <1>1, <1>2, <1>3, <1>4 DEF IInv

\* A step that changes nothing preserves it.
LEMMA StutterIInv ==
  ASSUME IInv, UNCHANGED vars
  PROVE  IInv'
BY DEF IInv, vars, TypeOK, TypeLoop, TypeTest, TypeCount, Placed, Handled,
       Timed, EnableTimeout, Collected, Ahead, Behind, Accepted,
       ContOnFailure

\* InductiveInvariant: the conjunction of the parts holds in every reachable
\* state of the runner.
THEOREM InductiveInvariant == Spec => []IInv
<1>1. ASSUME IInv, [Next]_vars PROVE IInv'
  <2>1. CASE UNCHANGED vars
    BY <1>1, <2>1, StutterIInv
  <2>2. CASE Next
    <3> USE <1>1, <2>2 DEF IInv
    <3>1. TypeOK'
      BY TypeLoopStep, TypeTestStep, TypeCountStep DEF TypeOK
    <3>2. Placed' /\ Handled' /\ Timed'
      BY PlacedStep, HandledStep, TimedStep
    <3>3. Collected' /\ Ahead' /\ Behind'
      BY CollectedStep, AheadStep, BehindStep
    <3> QED
      BY <3>1, <3>2, <3>3
  <2> QED
    BY <1>1, <2>1, <2>2
<1> QED
  BY <1>1, InitIInv, PTL DEF Spec

\* TypeCorrect: TypeOK is an invariant of run-tests.
THEOREM TypeCorrect == Spec => []TypeOK
BY InductiveInvariant, PTL DEF IInv

\* SuccessIsSound: an rc of zero from run_tests() on the tests means that every
\* one of them was skipped as configured, ended as configured or dumped core.
THEOREM SuccessIsSound == Spec => []SoundSuccess
<1>1. IInv => SoundSuccess
  <2> SUFFICES ASSUME IInv, pc = "summary", phase = "tests", ~rc,
                      NEW t \in Tests
               PROVE  Accepted(t)
    BY DEF SoundSuccess
  <2>1. t < cur
    BY RunnerAssumption DEF IInv, Behind, Tests
  <2> QED
    BY <2>1 DEF IInv, Behind
<1> QED
  BY <1>1, InductiveInvariant, PTL

\* FailureStops: without --continue nothing happens to the tests behind the
\* first one that fails.
THEOREM FailureStops == Spec => []FirstFailureStops
<1>1. IInv => FirstFailureStops
  <2> SUFFICES ASSUME IInv, NEW t \in Tests, NEW u \in Tests,
                      ~ContOnFailure, t < u, result[t] = "failed"
               PROVE  result[u] = "notrun" /\ end[u] = NoEnd
    BY DEF FirstFailureStops
  <2>1. t = cur - 1 /\ pc \in {"summary", "exit"}
    BY DEF IInv, Behind
  <2>2. cur \in Tests /\ (u = cur \/ u > cur)
    BY <2>1, RunnerAssumption DEF IInv, TypeOK, TypeLoop, Tests
  <2>3. child = "none"
    BY <2>1 DEF IInv, Placed, Running
  <2> QED
    BY <2>1, <2>2, <2>3 DEF IInv, Ahead
<1> QED
  BY <1>1, InductiveInvariant, PTL

\* TestsNeverOverlap: run_test() returns only when its test has been reaped.
THEOREM TestsNeverOverlap == Spec => []OneTestAtATime
<1>1. IInv => OneTestAtATime
  BY DEF IInv, Placed, OneTestAtATime
<1> QED
  BY <1>1, InductiveInvariant, PTL

\* TimeoutHitsOwnTest: the pid the timeout signals is still the test's own.
THEOREM TimeoutHitsOwnTest == Spec => []KillsOwnTest
<1>1. IInv => KillsOwnTest
  BY DEF IInv, TypeOK, TypeTest, Placed, Handled, Running, KillsOwnTest
<1> QED
  BY <1>1, InductiveInvariant, PTL

\* TimeoutIsNeverEarly: no test gets SIGALRM before its configured timeout has
\* passed since run_test() started it.
THEOREM TimeoutIsNeverEarly == Spec => []FullTime
<1>1. IInv => FullTime
  <2> SUFFICES ASSUME IInv, alarm
               PROVE  EnableTimeout /\ now > start + TPS * conf[cur].timeout
    BY DEF FullTime
  <2>1. pc \in Running \ {"spawned"} /\ EnableTimeout /\ now > deadline
        /\ start + TPS * conf[cur].timeout <= deadline
    BY DEF IInv, Timed, Running
  <2>2. cur \in Tests /\ TPS * conf[cur].timeout \in Nat
    BY <2>1, RunnerAssumption
       DEF IInv, TypeOK, TypeLoop, Placed, Running, ConfigType
  <2> QED
    BY <2>1, <2>2 DEF IInv, TypeOK, TypeCount
<1> QED
  BY <1>1, InductiveInvariant, PTL

\* OutputIsConserved: output is neither lost nor duplicated while a test runs.
THEOREM OutputIsConserved == Spec => []OutputConserved
<1>1. IInv => OutputConserved
  BY DEF IInv, Collected, OutputConserved
<1> QED
  BY <1>1, InductiveInvariant, PTL

\* What the growth rule of read_test_output() guarantees.
LEMMA GrownBufFits ==
  ASSUME TypeCount, Collected
  PROVE  outlen + ReadSize <= GrownBuf
BY RunnerAssumption DEF TypeCount, Collected, GrownBuf

\* ReadsNeverOverflow: every read() into the output buffer has room for
\* readsize bytes.
THEOREM ReadsNeverOverflow == Spec => ReadFits
<1>1. ASSUME IInv, [Next]_vars
      PROVE  [pc = "poll" /\ pc' = "waitid" /\ pipe' # pipe
                => outlen + ReadSize <= bufsize']_vars
  <2> SUFFICES ASSUME Next, pc = "poll", pc' = "waitid", pipe' # pipe
               PROVE  outlen + ReadSize <= bufsize'
    BY <1>1
  <2>1. bufsize' = GrownBuf
    BY DEF Next, Runner, Environment, Terminated, BeginTests, SkipTest,
           SelectTest, SpawnFails, Spawn, Arm, WaitError, Reap, StillRunning,
           Expire, PollBreaks, ReadOutput, EndTests, Summary, BenchmarksDone,
           Write, CloseStdout, ForkHolder, HolderExits, TestEnds, AlarmKills,
           Die, Notify, KernelLogs, Tick, vars
  <2> QED
    BY <1>1, <2>1, GrownBufFits DEF IInv, TypeOK
<1> QED
  BY <1>1, InductiveInvariant, PTL DEF Spec, ReadFits

-----------------------------------------------------------------------------
(* The runner implements Suite. *)

USE DEF Suite!Tests, Suite!Spoil, Suite!Finish

\* Before anything has run, nothing has been promised or broken.
LEMMA SuiteInit == Init => Suite!Init
BY DEF Init, Suite!Init, Tests

\* Steps that neither move the loop on nor create or remove the process.
LEMMA SuiteStutter ==
  ASSUME IInv,
         \/ SelectTest \/ Arm \/ StillRunning \/ Expire \/ PollBreaks
         \/ ReadOutput \/ EndTests \/ BenchmarksDone \/ Environment
         \/ Terminated
  PROVE  UNCHANGED Suite!vars
BY DEF Suite!vars, SelectTest, Arm, StillRunning, Expire, PollBreaks,
       ReadOutput, EndTests, BenchmarksDone, Environment, Write, CloseStdout,
       ForkHolder, HolderExits, TestEnds, AlarmKills, Die, Notify, KernelLogs,
       Tick, Terminated, vars

\* Every step of the runner is a step of the suite or invisible to it.
LEMMA SuiteStep ==
  ASSUME IInv, Next
  PROVE  [Suite!Next]_(Suite!vars)
<1> USE DEF IInv, TypeOK, TypeLoop, TypeTest
<1>1. CASE BeginTests
  BY <1>1 DEF BeginTests, Placed, Running, Suite!Refuse, Suite!Next, Suite!vars
<1>2. CASE SkipTest
  <2>1. child = "none"
    BY <1>2 DEF SkipTest, Placed, Running
  <2>2. Suite!Skip
    BY <1>2, <2>1 DEF SkipTest, Return, Tests, Suite!Skip
  <2> QED
    BY <2>2 DEF Suite!Next
<1>3. CASE SpawnFails
  <2>1. child = "none"
    BY <1>3 DEF SpawnFails, Placed, Running
  <2>2. Suite!NotStarted
    BY <1>3, <2>1 DEF SpawnFails, Return, Placed, Tests, Suite!NotStarted
  <2> QED
    BY <2>2 DEF Suite!Next
<1>4. CASE Spawn
  <2>1. child = "none"
    BY <1>4 DEF Spawn, Placed, Running
  <2>2. Suite!Start
    BY <1>4, <2>1 DEF Spawn, Placed, Tests, Suite!Start
  <2> QED
    BY <2>2 DEF Suite!Next
<1>5. CASE WaitError
  <2>1. cur \in Tests /\ result[cur] = "notrun"
    BY <1>5 DEF WaitError, Placed, Ahead, Running
  <2>2. result = [result EXCEPT ![cur] = "notrun"]
    BY <2>1
  <2>3. Suite!Finish("notrun", TRUE)
    BY <1>5, <2>1, <2>2 DEF WaitError, Return, Leave
  <2> QED
    BY <2>3 DEF Suite!Next
<1>6. CASE Reap
  <2> DEFINE v == Verdict(conf[cur], end[cur], badness)
  <2>1. v \in {"passed", "failed", "notrun"}
    BY DEF Verdict
  <2> HIDE DEF v
  <2>2. cur \in Tests /\ result[cur] = "notrun"
    BY <1>6 DEF Reap, Placed, Ahead, Running
  <2>3. result' = [result EXCEPT ![cur] = v]
    <3>1. result' = IF v = "notrun" THEN result
                    ELSE [result EXCEPT ![cur] = v]
      BY <1>6 DEF Reap, v
    <3> QED
      BY <2>2, <3>1
  <2>4. child # "none" /\ child' = "none" /\ UNCHANGED phase
    BY <1>6 DEF Reap, Leave
  <2>5. \/ v = "passed" /\ phase = "benchmarks" /\ UNCHANGED <<cur, rc>>
        \/ Return(v = "failed")
    BY <1>6 DEF Reap, v
  <2>6. CASE v = "passed" /\ phase = "benchmarks" /\ UNCHANGED <<cur, rc>>
    BY <2>3, <2>4, <2>6 DEF Suite!Abandon, Suite!Next
  <2>7. CASE Return(v = "failed")
    <3>1. cur' = cur + 1 /\ rc' = (rc \/ v = "failed")
      BY <2>7 DEF Return
    <3>2. Suite!Finish(v, v = "failed")
      BY <2>3, <2>4, <3>1
    <3> QED
      BY <2>1, <3>2 DEF Suite!Next
  <2> QED
    BY <2>5, <2>6, <2>7
<1>7. CASE Summary
  <2>1. child = "none"
    BY <1>7 DEF Summary, Placed, Running
  <2> QED
    BY <1>7, <2>1 DEF Summary, Behind, Tests, Suite!NextStage, Suite!Next,
                      Suite!vars
<1>8. CASE \/ SelectTest \/ Arm \/ StillRunning \/ Expire \/ PollBreaks
           \/ ReadOutput \/ EndTests \/ BenchmarksDone \/ Environment
           \/ Terminated
  BY <1>8, SuiteStutter
<1> QED
  BY <1>1, <1>2, <1>3, <1>4, <1>5, <1>6, <1>7, <1>8 DEF Next, Runner

\* RunnerImplementsSuite: run_tests() keeps the promise that Suite states.
THEOREM RunnerImplementsSuite == Spec => ImplementsSuite
<1>1. ASSUME IInv, [Next]_vars PROVE [Suite!Next]_(Suite!vars)
  <2>1. CASE UNCHANGED vars
    BY <2>1 DEF vars, Suite!vars
  <2>2. CASE Next
    BY <1>1, <2>2, SuiteStep
  <2> QED
    BY <1>1, <2>1, <2>2
<1> QED
  BY <1>1, SuiteInit, InductiveInvariant, PTL
     DEF Spec, ImplementsSuite, Suite!Spec
=============================================================================
