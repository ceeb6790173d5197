------------------------------ MODULE MCTalloc ------------------------------
(***************************************************************************)
(* Where the model checker starts with the talloc modules: from nothing,   *)
(* with four chunks to hand out, and from a tree of five that calls have   *)
(* made, for what takes more: a reference to a chunk from its own parent,  *)
(* next to a sibling whose destructor can free what is above them.         *)
(***************************************************************************)
EXTENDS TallocString

Made == [Unused EXCEPT !.state = "live"]

\* The first chunk has been allocated and freed again.
Empty == [c \in Chunk |-> IF c = 1 THEN Freed ELSE Unused]

\* 2 is below 1 and has the children 5, 4 and 3: 5 is its reference to 3, and 4
\* has a destructor.
Built ==
  <<[Made EXCEPT !.child = 2],
    [Made EXCEPT !.parent = 1, !.child = 5],
    [Made EXCEPT !.prev = 4, !.refs = <<5>>],
    [Made EXCEPT !.prev = 5, !.next = 3, !.destructor = "user"],
    [Made EXCEPT !.parent = 2, !.next = 4, !.ptr = 3, !.destructor = "reference"]>>

MCInit ==
  /\ \/ heap = Empty /\ input \in Input \cup {NULL}
     \/ heap = Built /\ input = NULL
  /\ null_context = NULL
  /\ stack = << >> /\ ret = 0 /\ fault = "none"
  /\ own = {} /\ held = {} /\ spared = {}

MCSpec == MCInit /\ [][TrialNext]_<<vars, input>>
=============================================================================
