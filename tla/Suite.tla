-------------------------------- MODULE Suite --------------------------------
(***************************************************************************)
(* What run_tests() promises main(): the tests of an array are handled one *)
(* at a time and in order, a test gets its verdict once, when its process  *)
(* has ended, and the benchmarks are started only after every test has     *)
(* been handled and none has failed.  How the runner waits for a process,  *)
(* collects its output and enforces its timeout is not part of the promise.*)
(***************************************************************************)
EXTENDS Integers

CONSTANT NTests

Tests == 1..NTests

VARIABLES
  at,        \* the test to be handled next, or being handled
  live,      \* the process of test at exists
  outcome,   \* the verdict on each test
  stage,     \* "tests" or "benchmarks"
  clean      \* nothing has gone wrong with a test

vars == <<at, live, outcome, stage, clean>>

Init ==
  /\ at = 1 /\ live = FALSE
  /\ outcome = [t \in Tests |-> "notrun"]
  /\ stage = "tests" /\ clean = TRUE

\* Something goes wrong: it is remembered until the end of the tests; what
\* happens to a benchmark is not recorded.
Spoil(bad) == clean' = (clean /\ (stage = "benchmarks" \/ ~bad))

\* The suite refuses to run anything.
Refuse ==
  /\ at = 1 /\ ~live
  /\ Spoil(TRUE)
  /\ UNCHANGED <<at, live, outcome, stage>>

Skip ==
  /\ at \in Tests /\ ~live
  /\ outcome' = [outcome EXCEPT ![at] = "skipped"]
  /\ at' = at + 1
  /\ UNCHANGED <<live, stage, clean>>

\* The process of a test cannot be created.
NotStarted ==
  /\ at \in Tests /\ ~live
  /\ Spoil(TRUE)
  /\ at' = at + 1
  /\ UNCHANGED <<live, outcome, stage>>

Start ==
  /\ at \in Tests /\ ~live
  /\ live' = TRUE
  /\ UNCHANGED <<at, outcome, stage, clean>>

\* The process is gone and the test is judged; "notrun" leaves it without a
\* verdict, for a process the suite knows nothing about (an error) or makes
\* nothing of (no error).
Finish(v, bad) ==
  /\ live
  /\ live' = FALSE
  /\ outcome' = [outcome EXCEPT ![at] = v]
  /\ v = "failed" => bad
  /\ Spoil(bad)
  /\ at' = at + 1
  /\ UNCHANGED stage

\* The suite dies while it reports on a benchmark that has passed.
Abandon ==
  /\ live /\ stage = "benchmarks"
  /\ live' = FALSE
  /\ outcome' = [outcome EXCEPT ![at] = "passed"]
  /\ UNCHANGED <<at, stage, clean>>

\* All tests are through without an error: the benchmarks are next.
NextStage ==
  /\ stage = "tests" /\ clean /\ ~live /\ at = NTests + 1
  /\ stage' = "benchmarks" /\ at' = 1
  /\ outcome' = [t \in Tests |-> "notrun"]
  /\ UNCHANGED <<live, clean>>

Next ==
  \/ Refuse \/ Skip \/ NotStarted \/ Start \/ Abandon \/ NextStage
  \/ \E v \in {"notrun", "passed", "failed"}, bad \in BOOLEAN : Finish(v, bad)

Spec == Init /\ [][Next]_vars

=============================================================================
