-------------------------- MODULE TestConfigProofs --------------------------
(***************************************************************************)
(* Proofs about TestConfig, for any suite, any tests.conf, any content of   *)
(* the array, and a system that changes while the suite runs.               *)
(***************************************************************************)
EXTENDS TestConfig, SequenceTheorems, TLAPS

-----------------------------------------------------------------------------
(* The inductive invariant *)

Conf(t) == files[Dir[t]]

\* A tests.conf that is not there has no lines.
Absent == \A t \in Tests : ~Conf(t).present => Conf(t).lines = << >>

\* test_read_config() has seen all lines of its own file that concern the test; what
\* it took for the name of a capability is that name, or, behind the safe lines, no
\* name at all.
Seen ==
  pc = "check" =>
    \A j \in OwnLines(n) :
      /\ j \in EndedLines(n) /\ Tok(n, j).opt = "disabled" => test.disabled
      /\ Tok(n, j).opt = "cap" => /\ j \in DOMAIN test.caps
                                  /\ test.caps[j].invert = Tok(n, j).invert
                                  /\ test.caps[j].cap \in {Tok(n, j).cap, "?"}
                                  /\ j \in SafeLines(n) => test.caps[j].cap = Tok(n, j).cap

\* The capabilities checked so far are as required.
Checked ==
  pc = "check" => \A i \in DOMAIN test.caps : i <= x => Satisfied(test.caps[i])

\* The module is loaded only to fill its entry in the table.
Loaded ==
  /\ LoadsModuleOnce
  /\ caps["sputrace"] = "invalid" => modprobes.root = 0

IInv == TypeOK /\ Absent /\ Seen /\ Checked /\ Loaded /\ RunsOnlyIfAllowed

-----------------------------------------------------------------------------
(* Lemmas about the operators *)

\* The table only fills up, so that what was satisfied once stays satisfied.
LEMMA StaysSatisfied ==
  ASSUME NEW tok, Satisfied(tok), \A c \in Known : caps[c] # "invalid" => caps'[c] = caps[c]
  PROVE  Satisfied(tok)'
  BY DEF Satisfied

\* What the files say of a test does not change.
LEMMA SameLines ==
  ASSUME files' = files
  PROVE  /\ \A t : /\ OwnLines(t)' = OwnLines(t) /\ EndedLines(t)' = EndedLines(t)
                   /\ SafeLines(t)' = SafeLines(t)
         /\ \A t, j : Tok(t, j)' = Tok(t, j)
<1>1. \A t : OwnLines(t)' = OwnLines(t)
  BY DEF OwnLines
<1>2. \A t : EndedLines(t)' = EndedLines(t)
  BY <1>1 DEF EndedLines
<1>3. \A t : SafeLines(t)' = SafeLines(t)
  BY <1>2 DEF SafeLines
<1> QED
  BY <1>1, <1>2, <1>3 DEF Tok

\* ... and so does the verdict on the tests so far.
LEMMA StaysAllowed ==
  ASSUME RunsOnlyIfAllowed, \A c \in Known : caps[c] # "invalid" => caps'[c] = caps[c],
         UNCHANGED <<files, decided>>
  PROVE  RunsOnlyIfAllowed'
BY SameLines, StaysSatisfied DEF RunsOnlyIfAllowed

\* cap_available() gives the answer in the table from then on, and loads the module
\* only if there was no answer yet.
LEMMA Available ==
  ASSUME TypeOK, Loaded, NEW c, NEW v \in {"yes", "no"}, cap_available(c, v)
  PROVE  /\ caps' \in [Known -> {"invalid", "yes", "no"}]
         /\ modprobes' \in [root : Nat, user : Nat]
         /\ \A d \in Known : caps[d] # "invalid" => caps'[d] = caps[d]
         /\ c \in Known => caps'[c] = v
         /\ c \notin Known => v = "no"
         /\ Loaded'
<1>1. CASE c \notin Known \/ caps[c] # "invalid"
  BY <1>1 DEF cap_available, __cap_available, TypeOK, Loaded, LoadsModuleOnce
<1>2. CASE c \in Known /\ caps[c] = "invalid"
  <2>1. PICK loaded : /\ caps' = [caps EXCEPT ![c] = v]
                      /\ sys' = [sys EXCEPT !.sputrace = loaded]
                      /\ modprobes' = IF ~LoadsModule(c) THEN modprobes
                                      ELSE IF sys.root THEN [modprobes EXCEPT !.root = @ + 1]
                                      ELSE [modprobes EXCEPT !.user = @ + 1]
    BY <1>2 DEF cap_available, __cap_available
  <2>2. /\ caps' \in [Known -> {"invalid", "yes", "no"}]
        /\ \A d \in Known : caps[d] # "invalid" => caps'[d] = caps[d]
        /\ caps'[c] = v
    BY <1>2, <2>1 DEF TypeOK
  <2>3. CASE LoadsModule(c)
    <3>1. c = "sputrace" /\ sys.root /\ modprobes.root = 0 /\ modprobes.user = 0
      BY <1>2, <2>3 DEF LoadsModule, Loaded, LoadsModuleOnce
    <3>2. modprobes' = [modprobes EXCEPT !.root = 1]
      BY <2>1, <2>3, <3>1
    <3>3. modprobes' \in [root : Nat, user : Nat] /\ modprobes'.root = 1 /\ modprobes'.user = 0
      BY <3>1, <3>2 DEF TypeOK
    <3> QED
      BY <1>2, <2>2, <3>1, <3>3 DEF Loaded, LoadsModuleOnce
  <2>4. CASE ~LoadsModule(c)
    <3>1. modprobes' = modprobes
      BY <2>1, <2>4
    <3>2. caps'["sputrace"] = "invalid" => caps["sputrace"] = "invalid"
      BY <1>2, <2>2 DEF TypeOK, Known
    <3> QED
      BY <1>2, <2>2, <3>1, <3>2 DEF Loaded, LoadsModuleOnce, TypeOK
  <2> QED
    BY <2>3, <2>4
<1> QED
  BY <1>1, <1>2

\* To replace the name in a token leaves its other fields.
LEMMA Renamed ==
  ASSUME NEW tok \in TokenType, NEW u, u = [tok EXCEPT !.cap = "?"]
  PROVE  u \in TokenType /\ u.cap = "?" /\ u.opt = tok.opt /\ u.invert = tok.invert
<1>1. "?" \in Words
  BY DEF Words
<1> QED
  BY <1>1 DEF TokenType

\* What a line of a tests.conf is.
LEMMA LineFacts ==
  ASSUME NEW l \in FileLines
  PROVE  l \in BufLines /\ l.ended = FALSE /\ l.tok \in TokenType /\ l # Zeroes
<1>1. PICK p \in {Name[t] : t \in Tests} \cup {"*"}, tok \in Tokens :
        l = [pat |-> p, tok |-> tok, ended |-> FALSE]
  BY DEF FileLines, Line
<1>2. tok \in TokenType
  BY ConfigAssumption
<1>3. l \in BufLines
  BY <1>1, <1>2 DEF BufLines
<1>4. l.ended = FALSE /\ l.tok = tok /\ Zeroes.ended = TRUE
  BY <1>1 DEF Zeroes
<1> QED
  BY <1>2, <1>3, <1>4

\* What the array holds where there never was a line.
LEMMA Fillers == Zeroes \in BufLines /\ Garbage \in BufLines
<1>1. "" \in Words
  BY DEF Words
<1>2. Option("") \in TokenType
  BY <1>1 DEF TokenType, Option
<1> QED
  BY <1>2 DEF Zeroes, Garbage, BufLines

\* What was in the array before are lines too.
LEMMA LeftType ==
  ASSUME TypeOK, NEW lost
  PROVE  Left(lost) \in [1..Cells -> BufLines]
BY Fillers DEF Left, TypeOK

\* A line that runs on keeps its pattern, and a capability it names is that one or
\* none.
LEMMA UnendedFacts ==
  ASSUME NEW l \in FileLines, NEW o, NEW k \in Unended(l, o)
  PROVE  /\ k \in BufLines /\ k.pat = l.pat /\ k # Zeroes
         /\ l.tok.opt = "cap" => /\ k.tok.opt = "cap" /\ k.tok.invert = l.tok.invert
                                 /\ k.tok.cap \in {l.tok.cap, "?"}
<1>1. PICK p \in {Name[t] : t \in Tests} \cup {"*"}, tok \in Tokens :
        l = [pat |-> p, tok |-> tok, ended |-> FALSE]
  BY DEF FileLines, Line
<1>2. tok \in TokenType
  BY ConfigAssumption
<1>3. "?" \in Words
  BY DEF Words
<1>4. PICK u \in {tok, RunOn(tok)}, e \in BOOLEAN : k = [pat |-> p, tok |-> u, ended |-> e]
  <2>0. l.tok = tok /\ l.pat = p
    BY <1>1
  <2>1. CASE o = Zeroes
    <3>1. k = [l EXCEPT !.ended = TRUE]
      BY <2>1 DEF Unended
    <3>2. k = [pat |-> p, tok |-> tok, ended |-> TRUE]
      BY <1>1, <3>1
    <3> QED
      BY <3>2
  <2>2. CASE o # Zeroes
    <3>1. k \in [pat : {p}, tok : {tok, RunOn(tok)}, ended : BOOLEAN]
      BY <2>0, <2>2 DEF Unended
    <3>2. k = [pat |-> p, tok |-> k.tok, ended |-> k.ended]
      BY <3>1
    <3> QED
      BY <3>1, <3>2
  <2> QED
    BY <2>1, <2>2
<1>5. /\ u \in TokenType
      /\ tok.opt = "cap" => u.opt = "cap" /\ u.invert = tok.invert /\ u.cap \in {tok.cap, "?"}
  <2>1. CASE u = tok
    BY <1>2, <2>1
  <2>2. CASE u = RunOn(tok) /\ tok.opt = "cap"
    <3>1. u = [tok EXCEPT !.cap = "?"]
      BY <2>2 DEF RunOn
    <3> QED
      BY <1>2, <2>2, <3>1, Renamed
  <2>3. CASE u = RunOn(tok) /\ tok.opt \in {"disabled", "ignored"}
    <3>1. u = [tok EXCEPT !.opt = "?"]
      BY <2>3 DEF RunOn
    <3>2. u \in TokenType
      BY <1>2, <1>3, <3>1 DEF TokenType
    <3> QED
      BY <2>3, <3>2
  <2>4. CASE u = RunOn(tok) /\ tok.opt \notin {"cap", "disabled", "ignored"}
    BY <1>2, <2>4 DEF RunOn
  <2> QED
    BY <1>4, <2>1, <2>2, <2>3, <2>4
<1>6. k \in BufLines
  BY <1>4, <1>5 DEF BufLines
<1>7. p # ""
  BY FilesAssumption
<1> QED
  BY <1>1, <1>4, <1>5, <1>6, <1>7 DEF Zeroes

\* read() puts the file at the front of the array, as far as it fits: its lines, of
\* which the last may run on.
LEMMA FillType ==
  ASSUME TypeOK, NEW conf \in FileType, NEW lost, NEW last \in Ends(conf, Left(lost))
  PROVE  LET b == Fill(conf, Left(lost), last)
         IN  /\ b \in [1..Cells -> BufLines]
             /\ \A j \in 1..Cells : j <= Len(conf.lines) =>
                  /\ conf.lines[j] \in FileLines
                  /\ j < Len(conf.lines) \/ conf.newline => b[j] = conf.lines[j]
                  /\ ~(j < Len(conf.lines) \/ conf.newline)
                       => b[j] \in Unended(conf.lines[j], Left(lost)[j])
<1> DEFINE b == Fill(conf, Left(lost), last)
           left == Left(lost)
<1>0. /\ conf.lines \in Seq(FileLines) /\ Len(conf.lines) \in Nat /\ conf.newline \in BOOLEAN
      /\ Cells \in Nat \ {0} /\ left \in [1..Cells -> BufLines]
  BY LeftType, ConfigAssumption DEF FileType
<1>1. \A j \in 1..Cells : j <= Len(conf.lines) => conf.lines[j] \in FileLines
  BY <1>0
<1>2. \A j \in 1..Cells : b[j] = IF j > Len(conf.lines) THEN left[j]
                                 ELSE IF j = Len(conf.lines) /\ ~conf.newline THEN last
                                 ELSE conf.lines[j]
  BY DEF Fill
<1>3. ASSUME NEW j \in 1..Cells, j = Len(conf.lines), ~conf.newline
      PROVE  last \in Unended(conf.lines[j], left[j])
  BY <1>3 DEF Ends
<1>4. b = [j \in 1..Cells |-> b[j]]
  BY DEF Fill
<1> HIDE DEF b, left
<1>5. \A j \in 1..Cells : j <= Len(conf.lines) =>
         /\ j < Len(conf.lines) \/ conf.newline => b[j] = conf.lines[j]
         /\ ~(j < Len(conf.lines) \/ conf.newline) => b[j] \in Unended(conf.lines[j], left[j])
  BY <1>0, <1>2, <1>3
<1>6. ASSUME NEW j \in 1..Cells PROVE b[j] \in BufLines
  <2>1. CASE j > Len(conf.lines)
    BY <1>0, <1>2, <2>1
  <2>2. CASE j <= Len(conf.lines)
    <3>1. conf.lines[j] \in FileLines
      BY <1>1, <2>2
    <3>2. conf.lines[j] \in BufLines
      BY <3>1, LineFacts
    <3>3. b[j] = conf.lines[j] \/ b[j] \in Unended(conf.lines[j], left[j])
      BY <1>5, <2>2
    <3> QED
      BY <3>1, <3>2, <3>3, UnendedFacts
  <2> QED
    BY <1>0, <2>1, <2>2
<1>7. b \in [1..Cells -> BufLines]
  BY <1>4, <1>6
<1> QED
  BY <1>1, <1>5, <1>7 DEF b, left

\* The loop over the lines reaches every line of the file that was read, and takes
\* those that are for the test.
LEMMA TakesOwnLines ==
  ASSUME TypeOK, NEW t, NEW conf \in FileType, NEW lost, NEW last \in Ends(conf, Left(lost)),
         NEW j \in 1..Cells, j <= Len(conf.lines), conf.lines[j].pat \in {Name[t], "*"}
  PROVE  j \in Matches(Fill(conf, Left(lost), last), t)
<1> DEFINE b == Fill(conf, Left(lost), last)
<1>0. Len(conf.lines) \in Nat /\ Cells \in Nat \ {0}
  BY ConfigAssumption DEF FileType
<1>1. \A k \in 1..j - 1 : b[k] = conf.lines[k] /\ conf.lines[k] \in FileLines
  BY <1>0, FillType
<1>2. /\ conf.lines[j] \in FileLines
      /\ b[j] = conf.lines[j] \/ b[j] \in Unended(conf.lines[j], Left(lost)[j])
  BY FillType
<1> HIDE DEF b
<1>3. b[j] # Zeroes /\ b[j].pat = conf.lines[j].pat
  <2>1. CASE b[j] = conf.lines[j]
    BY <1>2, <2>1, LineFacts
  <2>2. CASE b[j] \in Unended(conf.lines[j], Left(lost)[j])
    BY <1>2, <2>2, UnendedFacts
  <2> QED
    BY <1>2, <2>1, <2>2
<1>4. ASSUME NEW k \in 1..j - 1 PROVE ~b[k].ended
  <2>1. b[k].ended = FALSE
    BY <1>1, LineFacts
  <2> QED
    BY <2>1
<1>5. j \in Matches(b, t)
  BY <1>3, <1>4 DEF Matches, Parsed
<1> QED
  BY <1>5 DEF b

\* A name may be gone by the time it is looked up, but nothing else of its line.
LEMMA DangleFacts ==
  ASSUME NEW b \in [1..Cells -> BufLines], NEW gone, NEW j \in 1..Cells
  PROVE  LET d == Dangle(b, gone)
         IN  /\ d[j].tok \in TokenType
             /\ d[j].tok.opt = b[j].tok.opt /\ d[j].tok.invert = b[j].tok.invert
             /\ d[j].tok.cap \in {b[j].tok.cap, "?"}
             /\ j \notin gone => d[j].tok.cap = b[j].tok.cap
<1> DEFINE d == Dangle(b, gone)
<1>1. b[j] \in BufLines /\ b[j].tok \in TokenType
  BY DEF BufLines
<1>2. CASE j \in gone /\ b[j].tok.opt = "cap"
  <2>1. d[j] = [b[j] EXCEPT !.tok = [b[j].tok EXCEPT !.cap = "?"]]
    BY <1>2 DEF Dangle
  <2>2. d[j].tok = [b[j].tok EXCEPT !.cap = "?"]
    BY <1>1, <2>1 DEF BufLines
  <2> HIDE DEF d
  <2>3. /\ d[j].tok \in TokenType /\ d[j].tok.cap = "?"
        /\ d[j].tok.opt = b[j].tok.opt /\ d[j].tok.invert = b[j].tok.invert
    BY <1>1, <2>2, Renamed
  <2> QED
    BY <1>2, <2>3 DEF d
<1>3. CASE ~(j \in gone /\ b[j].tok.opt = "cap")
  <2>1. d[j] = b[j]
    BY <1>3 DEF Dangle
  <2> QED
    BY <1>1, <2>1
<1> QED
  BY <1>2, <1>3

-----------------------------------------------------------------------------
(* The invariant is inductive *)

\* test_read_config() sees every line of its own file, whatever is behind them.
LEMMA ReadConfigStep ==
  ASSUME IInv, ReadConfig
  PROVE  IInv'
<1> DEFINE conf == Conf(n)
<1> USE DEF IInv
<1>0. /\ pc = "config" /\ n \in Tests /\ pc' = "check" /\ x' = 0
      /\ UNCHANGED <<files, n, decided, sys, caps, modprobes>>
  BY DEF ReadConfig
<1>1. conf \in FileType /\ conf.lines \in Seq(FileLines)
  BY <1>0 DEF TypeOK, Conf, FileType
<1>2. Absent' /\ Loaded' /\ RunsOnlyIfAllowed'
  <2>1. Absent' /\ Loaded'
    BY <1>0 DEF Absent, Conf, Loaded, LoadsModuleOnce
  <2> QED
    BY <1>0, <2>1, StaysAllowed
<1>3. CASE ~conf.present
  <2>1. test' = Defaults /\ buf' = buf
    BY <1>3 DEF ReadConfig, Conf
  <2>2. test'.caps = << >> /\ DOMAIN test'.caps = {} /\ test'.disabled = FALSE
        /\ DOMAIN test' = {"disabled", "set", "caps"}
    BY <2>1 DEF Defaults
  <2>3. TypeOK'
    BY <1>0, <2>1, <2>2 DEF TypeOK
  <2>4. conf.lines = << >>
    BY <1>0, <1>3 DEF Absent
  <2>5. OwnLines(n)' = {}
    BY <1>0, <2>4 DEF OwnLines, Conf
  <2>6. Seen' /\ Checked'
    BY <1>0, <2>2, <2>5 DEF Seen, Checked
  <2> QED
    BY <1>2, <2>3, <2>6
<1>4. CASE conf.present
  <2>0. PICK lost \in SUBSET (1..Cells), gone \in SUBSET (Safe + 1..Cells) :
          \E last \in Ends(conf, Left(lost)) :
            LET b == Fill(conf, Left(lost), last)
                m == Matches(b, n)
            IN  /\ test' = handle_testconf_token(Dangle(b, gone), m)
                /\ buf' = [i \in 1..Cells |-> IF i \in m THEN [b[i] EXCEPT !.ended = TRUE] ELSE b[i]]
    BY <1>4 DEF ReadConfig, Conf
  <2>1. PICK last \in Ends(conf, Left(lost)) :
          LET b == Fill(conf, Left(lost), last)
              m == Matches(b, n)
          IN  /\ test' = handle_testconf_token(Dangle(b, gone), m)
              /\ buf' = [i \in 1..Cells |-> IF i \in m THEN [b[i] EXCEPT !.ended = TRUE] ELSE b[i]]
    BY <2>0
  <2> DEFINE b == Fill(conf, Left(lost), last)
             m == Matches(b, n)
             d == Dangle(b, gone)
             cs == {j \in m : d[j].tok.opt = "cap"}
  <2>2. b \in [1..Cells -> BufLines] /\ m \subseteq 1..Cells
    BY <1>1, FillType DEF Matches, Parsed
  <2>3. buf' \in [1..Cells -> BufLines]
    BY <2>1, <2>2 DEF BufLines
  <2>4. /\ DOMAIN test' = {"disabled", "set", "caps"}
        /\ test'.disabled = (\E i \in m : d[i].tok.opt = "disabled")
        /\ test'.caps = [i \in cs |-> d[i].tok]
    BY <2>1 DEF handle_testconf_token
  <2>5. \A i \in 1..Cells : d[i].tok \in TokenType
    BY <2>2, DangleFacts
  <2>6. TypeOK'
    <3>1. test'.disabled \in BOOLEAN
      BY <2>4
    <3>2. DOMAIN test'.caps = cs /\ cs \subseteq 1..Cells
      BY <2>2, <2>4
    <3>3. \A i \in DOMAIN test'.caps : test'.caps[i] \in TokenType
      BY <2>4, <2>5, <3>2
    <3> QED
      BY <1>0, <2>3, <2>4, <3>1, <3>2, <3>3 DEF TypeOK
  <2>7. Checked'
    <3>1. \A i \in DOMAIN test'.caps : ~(i <= 0)
      BY <2>2, <2>4, ConfigAssumption
    <3> QED
      BY <1>0, <3>1 DEF Checked
  <2>8. Seen'
    <3> SUFFICES ASSUME NEW j \in OwnLines(n)
                 PROVE  LET tok == conf.lines[j].tok
                            whole == j < Len(conf.lines) \/ conf.newline
                        IN  /\ whole /\ tok.opt = "disabled" => test'.disabled
                            /\ tok.opt = "cap" => /\ j \in DOMAIN test'.caps
                                                  /\ test'.caps[j].invert = tok.invert
                                                  /\ test'.caps[j].cap \in {tok.cap, "?"}
                                                  /\ whole /\ j <= Safe => test'.caps[j].cap = tok.cap
      <4>1. n' = n /\ OwnLines(n)' = OwnLines(n) /\ \A j : Tok(n, j)' = conf.lines[j].tok
        BY <1>0, SameLines DEF Tok, Conf
      <4>2. \A j \in OwnLines(n) : j \in EndedLines(n)' <=> (j < Len(conf.lines) \/ conf.newline)
        BY <1>0, SameLines DEF EndedLines, Conf
      <4>3. \A j : j \in SafeLines(n)' <=> j \in EndedLines(n)' /\ j <= Safe
        BY <1>0, SameLines DEF SafeLines
      <4> HIDE DEF conf
      <4> QED
        BY <1>0, <4>1, <4>2, <4>3 DEF Seen
    <3>1. j \in 1..Cells /\ j <= Len(conf.lines) /\ conf.lines[j].pat \in {Name[n], "*"}
      BY <1>1, ConfigAssumption DEF OwnLines, Conf
    <3> DEFINE whole == j < Len(conf.lines) \/ conf.newline
               tok   == conf.lines[j].tok
    <3>2. j \in m
      BY <1>1, <2>1, <3>1, TakesOwnLines
    <3>3. /\ whole => b[j].tok = tok
          /\ tok.opt = "cap" => /\ b[j].tok.opt = "cap" /\ b[j].tok.invert = tok.invert
                                /\ b[j].tok.cap \in {tok.cap, "?"}
      <4>1. /\ conf.lines[j] \in FileLines
            /\ whole => b[j] = conf.lines[j]
            /\ ~whole => b[j] \in Unended(conf.lines[j], Left(lost)[j])
        BY <1>1, <2>1, <3>1, FillType
      <4> HIDE DEF b, conf
      <4> QED
        BY <4>1, UnendedFacts
    <3>4. j <= Safe => j \notin gone
      BY <2>1, <3>1, ConfigAssumption
    <3>5. /\ d[j].tok.opt = b[j].tok.opt /\ d[j].tok.invert = b[j].tok.invert
          /\ d[j].tok.cap \in {b[j].tok.cap, "?"}
          /\ j <= Safe => d[j].tok.cap = b[j].tok.cap
      BY <2>2, <3>1, <3>4, DangleFacts, ZenonT(30)
    <3> HIDE DEF b, m, d, conf, whole, tok
    <3>6. whole /\ tok.opt = "disabled" => test'.disabled
      BY <2>4, <3>2, <3>3, <3>5
    <3>7. tok.opt = "cap" => /\ j \in DOMAIN test'.caps
                             /\ test'.caps[j].invert = tok.invert
                             /\ test'.caps[j].cap \in {tok.cap, "?"}
                             /\ whole /\ j <= Safe => test'.caps[j].cap = tok.cap
      BY <2>4, <3>2, <3>3, <3>5
    <3> QED
      BY <3>6, <3>7 DEF whole, tok
  <2> QED
    BY <1>2, <2>6, <2>7, <2>8
<1> QED
  BY <1>3, <1>4

\* The test that run_test() goes on to after this one has the default options.
LEMMA DecideStep ==
  ASSUME IInv, pc = "check", NEW d \in {"run", "skipped"}, Decide(d),
         caps' \in [Known -> {"invalid", "yes", "no"}], modprobes' \in [root : Nat, user : Nat]
  PROVE  TypeOK' /\ Absent' /\ Seen' /\ Checked'
<1>1. /\ n \in Tests /\ n' = n + 1 /\ pc' = "config" /\ x' = 0 /\ test' = Defaults
      /\ files' = files /\ buf' = buf /\ decided' = [decided EXCEPT ![n] = d]
  BY DEF IInv, TypeOK, Decide
<1>2. n' \in 1..NTests + 1
  BY <1>1, ConfigAssumption DEF Tests
<1>3. test'.caps = << >> /\ DOMAIN test'.caps = {} /\ test'.disabled = FALSE
      /\ DOMAIN test' = {"disabled", "set", "caps"}
  BY <1>1 DEF Defaults
<1>4. decided' \in [Tests -> {"no", "run", "skipped"}]
  BY <1>1 DEF IInv, TypeOK
<1>5. TypeOK'
  BY <1>1, <1>2, <1>3, <1>4 DEF IInv, TypeOK
<1>6. Absent'
  BY <1>1 DEF IInv, Absent, Conf
<1>7. Seen' /\ Checked'
  BY <1>1 DEF Seen, Checked
<1> QED
  BY <1>5, <1>6, <1>7

\* To skip a test takes nothing from the verdict on the others.
LEMMA SkipAllowed ==
  ASSUME IInv, Decide("skipped"), \A c \in Known : caps[c] # "invalid" => caps'[c] = caps[c]
  PROVE  RunsOnlyIfAllowed'
<1>1. /\ files' = files
      /\ \A t \in Tests : decided'[t] = "run" => decided[t] = "run"
  BY DEF IInv, TypeOK, Decide
<1> QED
  BY <1>1, SameLines, StaysSatisfied DEF IInv, RunsOnlyIfAllowed

\* test_should_run() says no to a test that is disabled.
LEMMA SkipDisabledStep ==
  ASSUME IInv, SkipDisabled
  PROVE  IInv'
<1>1. pc = "check" /\ Decide("skipped") /\ UNCHANGED <<sys, caps, modprobes>>
  BY DEF SkipDisabled
<1>2. TypeOK' /\ Absent' /\ Seen' /\ Checked'
  BY <1>1, DecideStep DEF IInv, TypeOK
<1>3. RunsOnlyIfAllowed'
  BY <1>1, SkipAllowed
<1>4. Loaded'
  BY <1>1 DEF IInv, Loaded, LoadsModuleOnce
<1> QED
  BY <1>2, <1>3, <1>4 DEF IInv

\* A capability that is as required goes with those checked before it.
LEMMA CheckCapStep ==
  ASSUME IInv, CheckCap
  PROVE  IInv'
<1>1. PICK i \in DOMAIN test.caps, v \in {"yes", "no"} :
        /\ i > x /\ \A j \in DOMAIN test.caps : j > x => i <= j
        /\ cap_available(test.caps[i].cap, v)
        /\ IF (v = "yes") = test.caps[i].invert
           THEN Decide("skipped")
           ELSE x' = i /\ UNCHANGED <<files, buf, n, pc, test, decided>>
  BY DEF CheckCap
<1>2. pc = "check" /\ test.caps[i] \in TokenType /\ test.caps[i].invert \in BOOLEAN
  BY DEF CheckCap, IInv, TypeOK, TokenType
<1> DEFINE c == test.caps[i].cap
<1>3. /\ caps' \in [Known -> {"invalid", "yes", "no"}]
      /\ modprobes' \in [root : Nat, user : Nat]
      /\ \A d \in Known : caps[d] # "invalid" => caps'[d] = caps[d]
      /\ c \in Known => caps'[c] = v
      /\ c \notin Known => v = "no"
      /\ Loaded'
  BY <1>1, Available DEF IInv
<1>4. CASE Decide("skipped")
  BY <1>2, <1>3, <1>4, DecideStep, SkipAllowed DEF IInv
<1>5. CASE /\ ~((v = "yes") = test.caps[i].invert)
           /\ x' = i /\ UNCHANGED <<files, buf, n, pc, test, decided>>
  <2>1. TypeOK' /\ Absent' /\ Seen'
    <3>1. TypeOK'
      BY <1>3, <1>5 DEF IInv, TypeOK
    <3> QED
      BY <1>5, <3>1, SameLines DEF IInv, Absent, Seen, Conf
  <2>2. RunsOnlyIfAllowed'
    BY <1>3, <1>5, StaysAllowed DEF IInv
  <2>3. Satisfied(test.caps[i])'
    BY <1>1, <1>2, <1>3, <1>5 DEF Satisfied
  <2>4. ASSUME NEW j \in DOMAIN test.caps, j <= i
        PROVE  Satisfied(test.caps[j])'
    <3>1. CASE j = i
      BY <2>3, <3>1
    <3>2. CASE j # i
      <4>1. j <= x
        BY <1>1, <2>4, <3>2, ConfigAssumption DEF IInv, TypeOK
      <4>2. Satisfied(test.caps[j])
        BY <1>2, <4>1 DEF IInv, Checked
      <4> QED
        BY <1>3, <1>5, <4>2, StaysSatisfied DEF Satisfied
    <3> QED
      BY <3>1, <3>2
  <2>5. Checked'
    BY <1>2, <1>5, <2>4 DEF Checked
  <2> QED
    BY <1>3, <2>1, <2>2, <2>5 DEF IInv
<1> QED
  BY <1>1, <1>4, <1>5

\* A test that is run has had all capabilities checked that its own lines require.
LEMMA RunTestStep ==
  ASSUME IInv, RunTest
  PROVE  IInv'
<1>1. /\ pc = "check" /\ n \in Tests /\ ~test.disabled /\ \A i \in DOMAIN test.caps : i <= x
      /\ Decide("run") /\ UNCHANGED <<sys, caps, modprobes>>
  BY DEF IInv, TypeOK, RunTest
<1>2. TypeOK' /\ Absent' /\ Seen' /\ Checked'
  BY <1>1, DecideStep DEF IInv, TypeOK
<1>3. Loaded'
  BY <1>1 DEF IInv, Loaded, LoadsModuleOnce
<1>4. /\ files' = files
      /\ \A t \in Tests : decided'[t] = "run" => t = n \/ decided[t] = "run"
      /\ \A tok : Satisfied(tok)' = Satisfied(tok)
  BY <1>1 DEF IInv, TypeOK, Decide, Satisfied
<1>5. ASSUME NEW j \in EndedLines(n) PROVE Tok(n, j).opt # "disabled"
  BY <1>1, <1>5 DEF IInv, Seen, EndedLines
<1>6. ASSUME NEW j \in OwnLines(n), NEW tok, tok = Tok(n, j), tok.opt = "cap",
             ~tok.invert \/ j \in SafeLines(n)
      PROVE  Satisfied(tok)
  <2>1. /\ j \in DOMAIN test.caps /\ test.caps[j].invert = tok.invert
        /\ test.caps[j].cap \in {tok.cap, "?"}
        /\ j \in SafeLines(n) => test.caps[j].cap = tok.cap
    BY <1>1, <1>6 DEF IInv, Seen
  <2>2. Satisfied(test.caps[j])
    BY <1>1, <2>1 DEF IInv, Checked
  <2>3. test.caps[j].cap = tok.cap
    BY <1>6, <2>1, <2>2 DEF Satisfied, Known
  <2> QED
    BY <2>1, <2>2, <2>3 DEF Satisfied
<1>7. /\ \A j \in OwnLines(n) : Tok(n, j).opt = "cap" /\ ~Tok(n, j).invert
                                => Satisfied(Tok(n, j))
      /\ \A j \in SafeLines(n) : Tok(n, j).opt = "cap" => Satisfied(Tok(n, j))
  BY <1>6 DEF SafeLines, EndedLines
<1>8. RunsOnlyIfAllowed'
  BY <1>4, <1>5, <1>7, SameLines DEF IInv, RunsOnlyIfAllowed
<1> QED
  BY <1>2, <1>3, <1>8 DEF IInv

\* No test is decided and no capability probed at the start.
LEMMA Initial == Init => IInv
<1> SUFFICES ASSUME Init PROVE IInv
  OBVIOUS
<1>1. \A d \in {Dir[t] : t \in Tests} :
        files[d] \in FileType /\ (~files[d].present => files[d].lines = << >>)
  <2> SUFFICES ASSUME NEW d \in {Dir[t] : t \in Tests}
               PROVE  files[d] \in FileType /\ (~files[d].present => files[d].lines = << >>)
    OBVIOUS
  <2>1. CASE files[d] \in Confs
    BY <2>1, FilesAssumption DEF FileType
  <2>2. CASE files[d] = NoFile
    <3>1. << >> \in Seq(FileLines)
      OBVIOUS
    <3> QED
      BY <2>2, <3>1 DEF NoFile, FileType
  <2> QED
    BY <2>1, <2>2 DEF Init
<1>2. files \in [{Dir[t] : t \in Tests} -> FileType]
  BY <1>1 DEF Init
<1>3. Absent
  BY <1>1 DEF Absent, Conf
<1>4. buf \in [1..Cells -> BufLines]
  BY Fillers DEF Init
<1>5. test.caps = << >> /\ DOMAIN test.caps = {} /\ test.disabled = FALSE
      /\ DOMAIN test = {"disabled", "set", "caps"}
  BY DEF Init, Defaults
<1>6. TypeOK
  <2>1. n \in 1..NTests + 1 /\ modprobes \in [root : Nat, user : Nat]
    BY ConfigAssumption DEF Init
  <2>2. decided \in [Tests -> {"no", "run", "skipped"}] /\ caps \in [Known -> {"invalid", "yes", "no"}]
    BY DEF Init
  <2>3. pc = "config" /\ x = 0
    BY DEF Init
  <2> QED
    BY <1>2, <1>4, <1>5, <2>1, <2>2, <2>3 DEF TypeOK
<1>7. Loaded /\ Seen /\ Checked /\ RunsOnlyIfAllowed
  BY DEF Init, Loaded, LoadsModuleOnce, Seen, Checked, RunsOnlyIfAllowed
<1> QED
  BY <1>3, <1>6, <1>7 DEF IInv

\* Every step keeps the invariant.
LEMMA Inductive == IInv /\ [Next]_vars => IInv'
<1> SUFFICES ASSUME IInv, [Next]_vars PROVE IInv'
  OBVIOUS
<1>1. CASE ReadConfig
  BY <1>1, ReadConfigStep
<1>2. CASE SkipDisabled
  BY <1>2, SkipDisabledStep
<1>3. CASE CheckCap
  BY <1>3, CheckCapStep
<1>4. CASE RunTest
  BY <1>4, RunTestStep
<1>5. CASE UNCHANGED <<files, buf, n, pc, test, x, decided, caps, modprobes>>
  <2>1. TypeOK'
    BY <1>5 DEF IInv, TypeOK
  <2>2. Absent' /\ Seen' /\ Checked' /\ Loaded'
    <3>1. Absent' /\ Loaded'
      BY <1>5 DEF IInv, Absent, Loaded, LoadsModuleOnce, Conf
    <3>2. Seen'
      BY <1>5, SameLines DEF IInv, Seen
    <3>3. Checked'
      BY <1>5 DEF IInv, Checked, Satisfied
    <3> QED
      BY <3>1, <3>2, <3>3
  <2>3. RunsOnlyIfAllowed'
    BY <1>5, StaysAllowed DEF IInv
  <2> QED
    BY <2>1, <2>2, <2>3 DEF IInv
<1> QED
  BY <1>1, <1>2, <1>3, <1>4, <1>5 DEF Next, SystemChanges, Done, vars

-----------------------------------------------------------------------------
(* The theorems *)

\* The parts of the invariant hold together in every reachable state: what
\* test_read_config() made of a tests.conf and which of it has been checked.
THEOREM Invariant == Spec => []IInv
<1>1. Init => IInv
  BY Initial
<1>2. IInv /\ [Next]_vars => IInv'
  BY Inductive
<1> QED
  BY <1>1, <1>2, PTL DEF Spec

\* run_test() runs no test that a line of its own tests.conf disables or for which a
\* capability required there is missing, whatever test_read_config() finds in its array
\* behind the file, and whatever changes on the system after the probe; a last line
\* without a newline disables nothing for sure.
THEOREM RunsAllowed == Spec => []RunsOnlyIfAllowed
<1>1. IInv => RunsOnlyIfAllowed
  BY DEF IInv
<1> QED
  BY <1>1, Invariant, PTL

\* __cap_available() answers for the whole suite: no two tests run of which one needs
\* what the other must not find, and modprobe is run at most once, and by root.
THEOREM CacheRight == Spec => []CacheIsRight
<1>1. IInv => NeverBothWays
  <2> SUFFICES ASSUME IInv, NEW t \in Tests, NEW u \in Tests, NEW c \in Known,
                      Requires(t, c, FALSE), Requires(u, c, TRUE),
                      decided[t] = "run", decided[u] = "run"
               PROVE  FALSE
    BY DEF NeverBothWays
  <2>1. PICK j \in SafeLines(t) : Tok(t, j) = CapToken(c, FALSE)
    BY DEF Requires
  <2>2. PICK k \in SafeLines(u) : Tok(u, k) = CapToken(c, TRUE)
    BY DEF Requires
  <2>3. Satisfied(Tok(t, j)) /\ Satisfied(Tok(u, k))
    <3>1. Tok(t, j).opt = "cap" /\ Tok(u, k).opt = "cap"
      BY <2>1, <2>2 DEF CapToken
    <3> QED
      BY <2>1, <2>2, <3>1 DEF IInv, RunsOnlyIfAllowed
  <2> QED
    BY <2>1, <2>2, <2>3 DEF Satisfied, CapToken
<1>2. IInv => CacheIsRight
  BY <1>1 DEF IInv, CacheIsRight, Loaded
<1> QED
  BY <1>2, Invariant, PTL
=============================================================================
