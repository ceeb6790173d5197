----------------------------- MODULE TestConfig -----------------------------
(***************************************************************************)
(* The configuration of the tests: test_read_config(), test_should_run()   *)
(* of bin/test.c and the capabilities of bin/capabilities.c, as run_test() *)
(* calls them for one test after the other.                                *)
(*                                                                         *)
(* tests.conf is read into a 4096-byte array on the stack that is neither  *)
(* cleared nor terminated: behind what read() stored there is what earlier *)
(* calls left.  The array is a row of Cells lines of one option each.  A   *)
(* stale line is what the last call left there, or has been overwritten by *)
(* the calls made since, as the stack happens to be laid out.  A last line *)
(* without a newline runs on into what is behind it.                       *)
(***************************************************************************)
EXTENDS Integers, Sequences

CONSTANTS
  NTests,      \* the suite: tests 1..NTests, run in this order
  Dir,         \* the directory each test is in
  Name,        \* its file name
  Tokens,      \* option tokens tests.conf may carry
  Confs,       \* the tests.conf a directory may have
  Systems,     \* systems the suite may be run on
  Cells,       \* bound: lines that fit the array
  Safe         \* leading lines that calls made after the return cannot reach

Tests == 1..NTests

Option(o)        == [opt |-> o, cap |-> "", invert |-> FALSE]
CapToken(c, inv) == [opt |-> "cap", cap |-> c, invert |-> inv]

\* A line of tests.conf: "<pat>: <tok>", pat being a file name or "*".  It is
\* ended once its newline has been replaced by a null character.
Line(p, tok) == [pat |-> p, tok |-> tok, ended |-> FALSE]
FileLines == {Line(p, tok) : p \in {Name[t] : t \in Tests} \cup {"*"},
                             tok \in Tokens}

\* A tests.conf, if there is one: its lines, and whether the last of them has its
\* newline.
FileType == [present : BOOLEAN, lines : Seq(FileLines), newline : BOOLEAN]
NoFile   == [present |-> FALSE, lines |-> << >>, newline |-> TRUE]

\* The tokens and the lines the array may hold.
Words     == {tok.opt : tok \in Tokens} \cup {tok.cap : tok \in Tokens} \cup {"", "?"}
TokenType == [opt : Words, cap : Words, invert : BOOLEAN]
BufLines  == [pat : {Name[t] : t \in Tests} \cup {"*", "", "?"}, tok : TokenType,
              ended : BOOLEAN]

Zeroes  == [pat |-> "", tok |-> Option(""), ended |-> TRUE]
Garbage == [pat |-> "?", tok |-> Option(""), ended |-> FALSE]

\* The table caps[] of capabilities.c; other names are unknown to it.
Known == {"always", "never", "root", "affinity", "hugepages", "sputrace"}

ASSUME ConfigAssumption ==
  /\ NTests \in Nat
  /\ Tests \subseteq DOMAIN Dir /\ Tests \subseteq DOMAIN Name
  /\ Tokens \subseteq TokenType
  /\ Systems \subseteq [root : BOOLEAN, affinity : BOOLEAN, sputrace : BOOLEAN,
                        hugepages : {"absent", "zero", "some", "unreadable"}]
  /\ Cells \in Nat \ {0} /\ Safe \in 0..Cells

ASSUME FilesAssumption ==
  /\ \A t \in Tests : Name[t] # ""
  /\ Confs \subseteq [present : {TRUE}, lines : Seq(FileLines), newline : BOOLEAN]

VARIABLES
  files,     \* tests.conf of each directory
  buf,       \* the array of test_read_config()
  n,         \* the test run_test() is called for
  pc,
  test,      \* the options of that test
  x,         \* the line of the capability that was checked last
  decided,   \* what became of each test
  sys,       \* the system the capabilities are probed on
  caps,      \* value and valid of each struct capability
  modprobes  \* how often loading the sputrace module was tried, as root or not

vars == <<files, buf, n, pc, test, x, decided, sys, caps, modprobes>>

\* test_create(): what is not in set has its default.
Defaults == [disabled |-> FALSE, set |-> {}, caps |-> << >>]

\* TypeOK: every variable has its type; the index into the required capabilities
\* stays within them and the index of the test within the suite.
TypeOK ==
  /\ files \in [{Dir[t] : t \in Tests} -> FileType]
  /\ buf \in [1..Cells -> BufLines]
  /\ n \in 1..NTests + 1
  /\ pc \in {"config", "check"} /\ (pc = "check" => n \in Tests)
  /\ DOMAIN test = {"disabled", "set", "caps"} /\ test.disabled \in BOOLEAN
  /\ x \in {0} \cup DOMAIN test.caps /\ DOMAIN test.caps \subseteq 1..Cells
  /\ \A i \in DOMAIN test.caps : test.caps[i] \in TokenType
  /\ decided \in [Tests -> {"no", "run", "skipped"}]
  /\ caps \in [Known -> {"invalid", "yes", "no"}]
  /\ modprobes \in [root : Nat, user : Nat]

Init ==
  /\ files \in [{Dir[t] : t \in Tests} -> Confs \cup {NoFile}]
  /\ buf \in {[i \in 1..Cells |-> Zeroes], [i \in 1..Cells |-> Garbage]}
  /\ n = 1 /\ pc = "config" /\ test = Defaults /\ x = 0
  /\ decided = [t \in Tests |-> "no"]
  /\ sys \in Systems
  /\ caps = [c \in Known |-> "invalid"]
  /\ modprobes = [root |-> 0, user |-> 0]

-----------------------------------------------------------------------------
(* test_read_config() *)

\* What is in the array when read() is called: what the last call left there, of
\* which the cells in lost have been overwritten since.
Left(lost) == [i \in 1..Cells |-> IF i \in lost THEN Garbage ELSE buf[i]]

\* A token with more text behind it: an unknown option or an unknown capability;
\* a number is still a number.
RunOn(tok) ==
  IF tok.opt = "cap" THEN [tok EXCEPT !.cap = "?"]
  ELSE IF tok.opt \in {"disabled", "ignored"} THEN [tok EXCEPT !.opt = "?"]
  ELSE tok

\* What becomes of a line without a newline where old was: a null character ends
\* it, or the rest of the text that was there goes on to the next newline or null
\* character.  (Text behind a blank would be further options of the line.)
Unended(l, old) ==
  IF old = Zeroes THEN {[l EXCEPT !.ended = TRUE]}
  ELSE [pat : {l.pat}, tok : {l.tok, RunOn(l.tok)}, ended : BOOLEAN]

\* How the last line of a file may read, if it runs on.
Ends(conf, left) ==
  LET k == Len(conf.lines)
  IN  IF k \in 1..Cells /\ ~conf.newline THEN Unended(conf.lines[k], left[k])
      ELSE {Zeroes}

\* What read() makes of the array: the file as far as it fits, the last line of
\* which reads as last if it has no newline, then what was left.
Fill(conf, left, last) ==
  [i \in 1..Cells |-> IF i > Len(conf.lines) THEN left[i]
                      ELSE IF i = Len(conf.lines) /\ ~conf.newline THEN last
                      ELSE conf.lines[i]]

\* The loop over the lines ends at the first null character: in a part of the
\* array that never held a line, or where a match has replaced a newline.
Parsed(b) ==
  {i \in 1..Cells : b[i] # Zeroes /\ \A j \in 1..i - 1 : ~b[j].ended}

\* Mutant of Matches: lines for all tests of the directory are not recognised.
Matches_NamedOnly(b, t) == {i \in Parsed(b) : b[i].pat = Name[t]}

Matches(b, t) == {i \in Parsed(b) : b[i].pat \in {Name[t], "*"}}

\* What the lines of b with index in m, one after the other, make of the options of
\* a test.  Capabilities are added in the order of their lines.
handle_testconf_token(b, m) ==
  [disabled |-> \E i \in m : b[i].tok.opt = "disabled",
   set |-> {b[i].tok.opt : i \in m} \cap {"ignored", "timeout", "expected_rc", "signal"},
   caps |-> [i \in {j \in m : b[j].tok.opt = "cap"} |-> b[i].tok]]

\* The names of required capabilities are pointers into the array, which is
\* dead by the time they are looked up: those in cells that the calls made in
\* between reach may read as anything.
Dangle(b, gone) ==
  [i \in 1..Cells |-> IF i \in gone /\ b[i].tok.opt = "cap"
                      THEN [b[i] EXCEPT !.tok.cap = "?"] ELSE b[i]]

ReadConfig ==
  /\ pc = "config" /\ n \in Tests
  /\ pc' = "check" /\ x' = 0
  /\ LET conf == files[Dir[n]]
     IN  IF ~conf.present
         THEN test' = Defaults /\ UNCHANGED buf
         ELSE \E lost \in SUBSET {i \in 1..Cells : i >= Len(conf.lines)},
                 gone \in SUBSET (Safe + 1..Cells) :
              \E last \in Ends(conf, Left(lost)) :
                LET b == Fill(conf, Left(lost), last)
                    m == Matches(b, n)
                IN  /\ test' = handle_testconf_token(Dangle(b, gone), m)
                    /\ buf' = [i \in 1..Cells |->
                                 IF i \in m THEN [b[i] EXCEPT !.ended = TRUE]
                                 ELSE b[i]]
  /\ UNCHANGED <<files, n, decided, sys, caps, modprobes>>

-----------------------------------------------------------------------------
(* test_should_run() and the capabilities *)

\* Mutant of Decide: the index is not reset for the next test.
Decide_KeepsIndex(d) ==
  /\ decided' = [decided EXCEPT ![n] = d]
  /\ n' = n + 1 /\ pc' = "config"
  /\ test' = Defaults /\ UNCHANGED x
  /\ UNCHANGED <<files, buf>>

\* test_should_run() returns: the test is run, or test_skip() is called.
Decide(d) ==
  /\ decided' = [decided EXCEPT ![n] = d]
  /\ n' = n + 1 /\ pc' = "config"
  /\ test' = Defaults /\ x' = 0
  /\ UNCHANGED <<files, buf>>

SkipDisabled ==
  /\ pc = "check" /\ test.disabled
  /\ Decide("skipped")
  /\ UNCHANGED <<sys, caps, modprobes>>

\* The answers the probe of a capability may give; that of sputrace depends on
\* whether its module is there.  The first character of nr_hugepages is looked
\* at even if it could not be read.
Probe(c, loaded) ==
  CASE c = "always"    -> {"yes"}
    [] c = "never"     -> {"no"}
    [] c = "root"      -> IF sys.root THEN {"yes"} ELSE {"no"}
    [] c = "affinity"  -> IF sys.affinity THEN {"yes"} ELSE {"no"}
    [] c = "hugepages" -> (CASE sys.hugepages = "some"       -> {"yes"}
                             [] sys.hugepages = "unreadable" -> {"yes", "no"}
                             [] OTHER                        -> {"no"})
    [] c = "sputrace"  -> IF sys.root /\ loaded THEN {"yes"} ELSE {"no"}

\* Mutant of LoadsModule: the module is loaded without asking who we are.
LoadsModule_AnyUser(c) == c = "sputrace" /\ ~sys.sputrace

\* cap_sputrace() runs modprobe when root finds no /proc/sputrace.
LoadsModule(c) == c = "sputrace" /\ sys.root /\ ~sys.sputrace

\* Mutant of __cap_available: the capability is probed on every use.
__cap_available_Uncached(c, v) ==
  \E loaded \in IF LoadsModule(c) THEN BOOLEAN ELSE {sys.sputrace} :
    /\ v \in Probe(c, loaded)
    /\ caps' = [caps EXCEPT ![c] = v]
    /\ sys' = [sys EXCEPT !.sputrace = loaded]
    /\ modprobes' = IF ~LoadsModule(c) THEN modprobes
                    ELSE IF sys.root THEN [modprobes EXCEPT !.root = @ + 1]
                    ELSE [modprobes EXCEPT !.user = @ + 1]

\* __cap_available(): probe once, then answer from the table.
__cap_available(c, v) ==
  IF caps[c] # "invalid"
  THEN v = caps[c] /\ UNCHANGED <<caps, sys, modprobes>>
  ELSE \E loaded \in IF LoadsModule(c) THEN BOOLEAN ELSE {sys.sputrace} :
         /\ v \in Probe(c, loaded)
         /\ caps' = [caps EXCEPT ![c] = v]
         /\ sys' = [sys EXCEPT !.sputrace = loaded]
         /\ modprobes' = IF ~LoadsModule(c) THEN modprobes
                         ELSE IF sys.root THEN [modprobes EXCEPT !.root = @ + 1]
                         ELSE [modprobes EXCEPT !.user = @ + 1]

\* cap_available(): a name that is not in the table is not available.
cap_available(c, v) ==
  IF c \in Known THEN __cap_available(c, v)
  ELSE v = "no" /\ UNCHANGED <<caps, sys, modprobes>>

\* The loop over the required capabilities: one that is not as required skips
\* the test.
CheckCap ==
  /\ pc = "check" /\ ~test.disabled
  /\ \E i \in DOMAIN test.caps, v \in {"yes", "no"} :
       /\ i > x /\ \A j \in DOMAIN test.caps : j > x => i <= j
       /\ cap_available(test.caps[i].cap, v)
       /\ IF (v = "yes") = test.caps[i].invert
          THEN Decide("skipped")
          ELSE x' = i /\ UNCHANGED <<files, buf, n, pc, test, decided>>

RunTest ==
  /\ pc = "check" /\ ~test.disabled /\ \A i \in DOMAIN test.caps : i <= x
  /\ Decide("run")
  /\ UNCHANGED <<sys, caps, modprobes>>

\* The system changes while the suite runs: huge pages are set up or released,
\* the module is loaded or removed, by a test or from outside.
SystemChanges ==
  /\ n \in Tests
  /\ \E h \in {"zero", "some"}, s \in BOOLEAN :
       sys' = [sys EXCEPT !.sputrace = s,
                 !.hugepages = IF @ \in {"zero", "some"} THEN h ELSE @]
  /\ UNCHANGED <<files, buf, n, pc, test, x, decided, caps, modprobes>>

Done == n = NTests + 1 /\ UNCHANGED vars

Next == \/ ReadConfig \/ SkipDisabled \/ CheckCap \/ RunTest \/ SystemChanges
        \/ Done

Spec == Init /\ [][Next]_vars

-----------------------------------------------------------------------------
\* The lines of its own tests.conf that concern a test, as far as they fit, by
\* index; those of them that end in the file; and those whose capability names
\* are also sure to be there when looked up.
OwnLines(t) ==
  {j \in 1..Len(files[Dir[t]].lines) :
     j <= Cells /\ files[Dir[t]].lines[j].pat \in {Name[t], "*"}}
EndedLines(t) ==
  {j \in OwnLines(t) : j < Len(files[Dir[t]].lines) \/ files[Dir[t]].newline}
SafeLines(t) == {j \in EndedLines(t) : j <= Safe}

\* The token of such a line.
Tok(t, j) == files[Dir[t]].lines[j].tok

Satisfied(tok) ==
  IF tok.cap \in Known THEN caps[tok.cap] = (IF tok.invert THEN "no" ELSE "yes")
  ELSE tok.invert

\* RunsOnlyIfAllowed: a test that is run is not disabled by its own tests.conf
\* and has all capabilities required there, whatever the array held before,
\* whatever has overwritten the names since and whatever has changed on the
\* system since they were probed.  A last line without a newline only counts for
\* the capabilities it requires, and the absence of a capability is only sure as
\* long as its name is.
RunsOnlyIfAllowed ==
  \A t \in Tests : decided[t] = "run" =>
    /\ \A j \in OwnLines(t) : Tok(t, j).opt = "cap" /\ ~Tok(t, j).invert
                               => Satisfied(Tok(t, j))
    /\ \A j \in EndedLines(t) : Tok(t, j).opt # "disabled"
    /\ \A j \in SafeLines(t) : Tok(t, j).opt = "cap" => Satisfied(Tok(t, j))

\* Requires(t, c, inv): a line of its own asks for the capability in t.
Requires(t, c, inv) == \E j \in SafeLines(t) : Tok(t, j) = CapToken(c, inv)

\* NeverBothWays: two tests of which one requires a capability and the other
\* its absence are never both run, even if the system changes in between.
NeverBothWays ==
  \A t, u \in Tests, c \in Known :
    Requires(t, c, FALSE) /\ Requires(u, c, TRUE)
      => ~(decided[t] = "run" /\ decided[u] = "run")

\* LoadsModuleOnce: the suite tries to load the sputrace module at most once,
\* and only as root.
LoadsModuleOnce == modprobes.root <= 1 /\ modprobes.user = 0

\* CacheIsRight: the table of capabilities keeps to its types, and one probe is
\* the answer for the whole suite.
CacheIsRight == TypeOK /\ NeverBothWays /\ LoadsModuleOnce

(* Stated by the documentation and refuted by the code. *)

\* OptionsAsListed: a test has the options that the lines for it in its own
\* tests.conf give it, and the default options if there are none.
OptionsAsListed ==
  pc = "check" => test = handle_testconf_token(files[Dir[n]].lines, OwnLines(n))
=============================================================================
