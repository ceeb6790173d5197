---------------------------- MODULE MCTestRunner ----------------------------
(***************************************************************************)
(* Small instances of TestRunner for TLC.  MCSpec looks closely, at every  *)
(* interleaving of its output, its end, the processes it leaves behind,    *)
(* the clock and the runner, at suites of one test that runs and one that  *)
(* is disabled.  With all other suites and options, benchmarks included,   *)
(* the tests write nothing, keep their output open and leave nothing       *)
(* behind, and are started with the second, without delay: their results   *)
(* and their order are what is of interest.                                *)
(***************************************************************************)
EXTENDS TestRunner

\* A test with the default options, one that is expected to die of a signal,
\* and one that is disabled.
Plain     == [expected_rc |-> 0, expected_sig |-> 0, timeout |-> 1, run |-> TRUE]
Signalled == [expected_rc |-> 0, expected_sig |-> 11, timeout |-> 0, run |-> TRUE]
Disabled  == [expected_rc |-> 0, expected_sig |-> 0, timeout |-> 1, run |-> FALSE]

MCConfigs == {Plain, Signalled, Disabled}

\* Two ways to run a test, for the runs that only look at one.
MCEnabled == {Plain, Signalled}

\* The suites that are looked at closely.
Closely ==
  /\ ~opts.cont /\ ~opts.benchmark
  /\ conf[1] \in MCEnabled /\ conf[2] = Disabled

\* Nothing is written, closed or left behind, and the deadline of a test that
\* starts with a second is set in no time.
LittleHappens ==
  /\ written = 0 /\ (child = "running" => outOpen) /\ ~holder
  /\ start = 0 /\ (pc = "spawned" => now = start)

MCNext == Next /\ (Closely \/ LittleHappens')

\* None of the actions left out keeps a fair one from being taken in the end.
MCSpec ==
  /\ Init /\ [][MCNext]_vars
  /\ WF_vars(Runner) /\ WF_vars(Tick) /\ WF_vars(AlarmKills) /\ WF_vars(Notify)
=============================================================================
