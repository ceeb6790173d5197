---------------------------- MODULE MCTestConfig ----------------------------
(* Small instances of TestConfig for TLC: two tests in two directories. *)
EXTENDS TestConfig, SequencesExt

MCDir  == <<"A", "B">>
MCName == <<"01", "02">>

\* Requirements on what can change while the suite runs.
MCTokens == {Option("disabled"), CapToken("sputrace", FALSE),
             CapToken("sputrace", TRUE)}

\* Options without an argument and with one.
MCOptions == {Option("disabled"), Option("signal")}

\* Files of up to two lines; a line without a newline is the only one of its
\* file, or follows one that asks for a capability for all tests.
Ended(nl) == {[present |-> TRUE, lines |-> ls, newline |-> nl] :
                ls \in SeqOf(FileLines, 2)}
MCConfs ==
  Ended(TRUE) \cup
  {f \in Ended(FALSE) : \/ Len(f.lines) = 1
                       \/ /\ Len(f.lines) = 2
                          /\ f.lines[1] = Line("*", CapToken("sputrace", FALSE))}

MCSystems == [root : BOOLEAN, affinity : {TRUE}, sputrace : {FALSE},
              hugepages : {"absent"}]
=============================================================================
