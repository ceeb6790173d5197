------------------------------- MODULE Talloc -------------------------------
(***************************************************************************)
(* lib/talloc/talloc.c: hierarchical memory allocation.  Every chunk has an *)
(* owner, its parent, and is freed with it; talloc_reference() adds a       *)
(* further owner by hanging a handle below it; a destructor may refuse.     *)
(*                                                                         *)
(* The heap is modelled pointer by pointer, because the representation is   *)
(* where the library is delicate: siblings are a doubly linked list, and    *)
(* only the first of them knows the parent.  A call of talloc_free() is a   *)
(* stack of frames: destructors are the caller's code and run in the middle *)
(* of it, and may call talloc_free() again.  Everything else is atomic.     *)
(* Contents, sizes and names of chunks are left out; so are calls that fail  *)
(* because malloc() does, which change nothing.                             *)
(***************************************************************************)
EXTENDS Integers, Sequences, FiniteSets, SequencesExt

CONSTANTS
  Chunk,           \* the addresses malloc() can return
  NULL,
  MaxDestructors,  \* bound: chunks with a destructor at a time
  MaxNested        \* bound: frames below which a destructor calls talloc_free()

ASSUME TallocAssumption ==
  /\ IsFiniteSet(Chunk) /\ Chunk \subseteq Nat
  /\ NULL \notin Chunk
  /\ MaxDestructors \in Nat /\ MaxNested \in Nat

VARIABLES
  heap,               \* what is at each address
  null_context,
  stack,              \* the calls in progress, the innermost first
  ret,                \* what the last call to return has returned
  fault               \* the library has read freed memory, or lost a chunk

\* For the properties: what the caller has asked to be freed, what a reference
\* from elsewhere ought to keep, and whom a call of _talloc_free() has spared.
VARIABLES own, held, spared

ghosts == <<own, held, spared>>
vars == <<heap, null_context, stack, ret, fault, ghosts>>

Ptr == Chunk \cup {NULL}

\* struct talloc_chunk, with the ptr of a struct talloc_reference_handle.
Header ==
  [state : {"unused", "live", "freed"}, loop : BOOLEAN, next : Ptr, prev : Ptr, parent : Ptr,
   child : Ptr, refs : Seq(Chunk), ptr : Ptr,
   destructor : {"none", "user", "busy", "reference"}]

Frame ==
  [fn : {"free", "free_children", "untrack"}, tc : Chunk, new : Ptr,
   at : {"entry", "destructor", "destructor2", "kids", "kid"}]

TypeOK ==
  /\ heap \in [Chunk -> Header]
  /\ null_context \in Ptr
  /\ stack \in Seq(Frame) /\ ret \in {0, -1} /\ fault \in {"none", "stale", "loop"}
  /\ own \subseteq Chunk /\ held \subseteq Chunk /\ spared \subseteq Chunk

Unused ==
  [state |-> "unused", loop |-> FALSE, next |-> NULL, prev |-> NULL,
   parent |-> NULL, child |-> NULL, refs |-> << >>,
   ptr |-> NULL, destructor |-> "none"]

Freed == [Unused EXCEPT !.state = "freed"]

Init ==
  /\ heap = [c \in Chunk |-> Unused]
  /\ null_context = NULL
  /\ stack = << >> /\ ret = 0 /\ fault = "none"
  /\ own = {} /\ held = {} /\ spared = {}

-----------------------------------------------------------------------------
(* The tree.  h is a heap; the operators that change it return one. *)

Live(h) == {c \in Chunk : h[c].state = "live"}
Handle(h, c) == h[c].destructor = "reference"

SetNext(h, c, v) == IF c = NULL THEN h ELSE [h EXCEPT ![c].next = v]
SetPrev(h, c, v) == IF c = NULL THEN h ELSE [h EXCEPT ![c].prev = v]
SetParent(h, c, v) == IF c = NULL THEN h ELSE [h EXCEPT ![c].parent = v]
SetChild(h, c, v) == IF c = NULL THEN h ELSE [h EXCEPT ![c].child = v]

Bypass(h, c) == SetPrev(SetNext(h, h[c].prev, h[c].next), h[c].next, h[c].prev)

\* _TLIST_REMOVE on the list of p's children.
TListRemove(h, p, c) ==
  LET g == IF h[p].child = c
           THEN SetPrev(SetChild(h, p, h[c].next), h[c].next, NULL)
           ELSE Bypass(h, c)
  IN  [g EXCEPT ![c].next = NULL, ![c].prev = NULL]

\* Mutants of Unhook: only the first child is taken out; the new first child does
\* not learn who its parent is.
Unhook_FirstOnly(h, c) ==
  LET p == h[c].parent IN
  IF p = NULL THEN h
  ELSE LET g == TListRemove(h, p, c) IN SetParent(g, g[p].child, p)
Unhook_NoNewFirst(h, c) ==
  IF h[c].parent = NULL THEN Bypass(h, c) ELSE TListRemove(h, h[c].parent, c)

\* Take c out of its list.  It keeps its parent pointer, or its place behind a
\* sibling if it was not the first.
Unhook(h, c) ==
  LET p == h[c].parent IN
  IF p = NULL THEN Bypass(h, c)
  ELSE LET g == TListRemove(h, p, c) IN SetParent(g, g[p].child, p)

\* Put c in front of the children of p.
Hook(h, p, c) ==
  LET k == h[p].child IN
  [SetPrev(SetParent(h, k, NULL), k, c)
     EXCEPT ![c].next = k, ![c].prev = NULL, ![c].parent = p, ![p].child = c]

\* No walk is longer.
MaxHops == Cardinality(Chunk)
Hops == 0..MaxHops

\* Where one comes from c along f, a pointer of every chunk.
Along(f, c) ==
  LET walk[x \in Ptr \X Hops] ==
        IF x[1] = NULL THEN {}
        ELSE {x[1]} \cup IF x[2] = 0 THEN {} ELSE walk[<<f[x[1]], x[2] - 1>>]
  IN  walk[<<c, MaxHops>>]

\* The chunk at the start of c's list (any of it, should it not have one).
First(h, c) ==
  LET back == Along([d \in Chunk |-> h[d].prev], c)
  IN  CHOOSE d \in back : h[d].prev = NULL \/ \A e \in back : h[e].prev # NULL

talloc_parent_chunk(h, c) == h[First(h, c)].parent

\* talloc_parent_chunk() comes to a sibling that has been freed.
Stale(h, c) == h[First(h, c)].state # "live"

\* The contexts for which talloc_is_parent(c, .) is true.
Ancestors(h, c) == Along([d \in Chunk |-> talloc_parent_chunk(h, d)], c)

talloc_is_parent(h, c, p) == p \in Ancestors(h, c)

\* What talloc_is_parent(c, .) reads on its way to the top: the contexts above c and
\* the siblings in front of each.
Walked(h, c) == UNION {Along([d \in Chunk |-> h[d].prev], a) : a \in Ancestors(h, c)}

Subtree(h, c) == {d \in Live(h) : talloc_is_parent(h, d, c)}

\* Mutant of _talloc_steal: a chunk can become its own parent.
_talloc_steal_Unchecked(h, new, c) ==
  IF new = NULL THEN [Unhook(h, c) EXCEPT ![c].parent = NULL, ![c].next = NULL, ![c].prev = NULL]
  ELSE Hook(Unhook(h, c), new, c)

_talloc_steal(h, new, c) ==
  CASE new = NULL ->
         [Unhook(h, c) EXCEPT ![c].parent = NULL, ![c].next = NULL,
                              ![c].prev = NULL]
    [] new # NULL /\ (new = c \/ h[c].parent = new) -> h
    [] OTHER -> Hook(Unhook(h, c), new, c)

Without(refs, x) == RemoveAt(refs, CHOOSE i \in DOMAIN refs : refs[i] = x)

\* Mutant of FreeHandle: the chunk keeps it in its list of references.
FreeHandle_StaysListed(h, x) == [Unhook(h, x) EXCEPT ![x] = Freed]

\* _talloc_free() of a handle: talloc_reference_destructor() takes it out of
\* the list of references, and nothing can refuse or be left behind.
FreeHandle(h, x) ==
  [Unhook([h EXCEPT ![h[x].ptr].refs = Without(@, x)], x) EXCEPT ![x] = Freed]

Context(c) == IF c = NULL THEN null_context ELSE c

\* malloc() takes the next address.  None is used twice, so that a pointer to
\* freed memory can be told.
Room == \E c \in Chunk : heap[c].state = "unused"
Fresh == CHOOSE c \in Chunk :
           /\ heap[c].state = "unused"
           /\ \A d \in Chunk : heap[d].state = "unused" => c <= d

\* __talloc(): new chunk, below ctx if there is one.
__talloc(h, ctx, c) ==
  LET g == [h EXCEPT ![c] = [Unused EXCEPT !.state = "live"]]
  IN  IF Context(ctx) = NULL THEN g ELSE Hook(g, Context(ctx), c)

-----------------------------------------------------------------------------
(* What the caller may do, and with which pointers: it holds none to handles, *)
(* to names and to null_context.                                              *)

Idle == stack = << >> /\ fault = "none"

Mine == {c \in Live(heap) : ~Handle(heap, c)} \ {null_context}

quiet == ret' = 0 /\ UNCHANGED <<stack, fault, ghosts>>

talloc_named_const(ctx) ==
  /\ Idle /\ Room
  /\ heap' = __talloc(heap, ctx, Fresh)
  /\ quiet /\ UNCHANGED null_context

talloc_set_destructor(c, d) ==
  /\ Idle
  /\ d = "user" =>
       Cardinality({x \in Mine : heap[x].destructor = "user"}) < MaxDestructors
  /\ heap' = [heap EXCEPT ![c].destructor = d]
  /\ quiet /\ UNCHANGED null_context

\* Also talloc_increase_ref_count(), for ctx = NULL.
talloc_reference(ctx, c) ==
  /\ Idle /\ Room
  /\ heap' = [__talloc(heap, ctx, Fresh)
                EXCEPT ![Fresh].destructor = "reference", ![Fresh].ptr = c,
                       ![c].refs = <<Fresh>> \o @]
  /\ quiet /\ UNCHANGED null_context

\* talloc_steal(), talloc_move().  The library does not check that the new
\* parent is outside of what is moved; the caller does.
talloc_steal(new, c) ==
  /\ Idle
  /\ new # NULL => ~talloc_is_parent(heap, new, c)
  /\ heap' = _talloc_steal(heap, Context(new), c)
  /\ quiet /\ UNCHANGED null_context

\* realloc() moves the chunk to another address.
Moved(h, c, d) ==
  LET g == [h EXCEPT ![d] = h[c], ![c] = Freed]
  IN  SetPrev(SetNext(SetParent(SetChild(g, g[d].parent, d), g[d].child, d),
                      g[d].prev, d), g[d].next, d)

_talloc_realloc(c) ==
  /\ Idle /\ Room
  /\ heap[c].refs = << >>
  /\ heap' = Moved(heap, c, Fresh)
  /\ quiet /\ UNCHANGED null_context

talloc_enable_null_tracking ==
  /\ Idle /\ Room /\ null_context = NULL
  /\ heap' = __talloc(heap, NULL, Fresh)
  /\ null_context' = Fresh
  /\ quiet

-----------------------------------------------------------------------------
(* Calls that free *)

Call(fn, c) == [fn |-> fn, tc |-> c, new |-> NULL,
                at |-> IF fn = "free" THEN "entry" ELSE "kids"]

\* What references keep when p is freed: those of contexts outside of p, other
\* than NULL, unless the chunk is also referenced from below itself.
HeldFrom(h, p) ==
  {c \in Subtree(h, p) \ {p} :
     /\ \E x \in Range(h[c].refs) :
          /\ ~talloc_is_parent(h, x, p)
          /\ talloc_parent_chunk(h, x) \notin {NULL, null_context}
     /\ \A x \in Range(h[c].refs) : ~talloc_is_parent(h, x, c)}

\* What c owns, by a reference too.
Reach(h, c) == Subtree(h, c) \cup {h[x].ptr : x \in {y \in Subtree(h, c) : Handle(h, y)}}

Begin(frames, below, c) ==
  /\ stack' = frames \o below
  /\ own' = own \cup Subtree(heap, c)
  /\ held' = IF stack = << >> THEN HeldFrom(heap, c) ELSE held \ Reach(heap, c)
  /\ ret' = 0
  /\ UNCHANGED <<heap, null_context, fault, spared>>

\* Also what realloc to size zero does.
talloc_free(c) == Idle /\ Begin(<<Call("free", c)>>, << >>, c)

talloc_free_children(c) == Idle /\ Begin(<<Call("free_children", c)>>, << >>, c)

talloc_disable_null_tracking ==
  /\ Idle /\ null_context # NULL
  /\ Begin(<<Call("free", null_context), Call("untrack", null_context)>>,
           << >>, null_context)

\* talloc_steal() out of the library, which stops where it goes wrong: with
\* memory that was freed, or with a new parent below the chunk, which takes
\* both out of everybody's reach.
Give(h, new, c) ==
  LET n == Context(new) IN
  /\ fault' = CASE ~({n, c} \ {NULL} \subseteq Live(h)) -> "stale"
                [] n \in Subtree(h, c) \ {c} -> "loop"
                [] OTHER -> "none"
  /\ heap' = IF fault' = "none" THEN _talloc_steal(h, n, c) ELSE h

\* talloc_unreference(): the references that hang off the context; the first goes.
HandleOf(h, ctx, c) ==
  {i \in DOMAIN h[c].refs : talloc_parent_chunk(h, h[c].refs[i]) = ctx}
FirstOf(h, c, places) == h[c].refs[CHOOSE i \in places : \A j \in places : i <= j]

talloc_unlink(ctx, c) ==
  LET mine  == HandleOf(heap, Context(ctx), c)
      p     == talloc_parent_chunk(heap, Head(heap[c].refs))
      other == HandleOf(heap, Context(p), c)
  IN
  /\ Idle
  /\ \/ /\ mine # {}
        /\ heap' = FreeHandle(heap, FirstOf(heap, c, mine))
        /\ ret' = 0
        /\ UNCHANGED <<null_context, stack, fault, ghosts>>
     \/ /\ mine = {} /\ talloc_parent_chunk(heap, c) = Context(ctx)
        /\ heap[c].refs = << >>
        /\ Begin(<<Call("free", c)>>, << >>, c)
     \/ /\ mine = {} /\ talloc_parent_chunk(heap, c) = Context(ctx)
        /\ heap[c].refs # << >> /\ other # {}
        /\ Give(FreeHandle(heap, FirstOf(heap, c, other)), p, c)
        /\ ret' = 0
        /\ UNCHANGED <<null_context, stack, ghosts>>
     \/ /\ mine = {}
        /\ \/ talloc_parent_chunk(heap, c) # Context(ctx)
           \/ heap[c].refs # << >> /\ other = {}
        /\ ret' = -1
        /\ UNCHANGED <<heap, null_context, stack, fault, ghosts>>

-----------------------------------------------------------------------------
(* _talloc_free() *)

Top == stack[1]
Running(fns, at) == fault = "none" /\ stack # << >> /\ Top.at \in at /\ Top.fn \in fns
Goto(at) == stack' = [stack EXCEPT ![1].at = at]


\* The child refuses, or was referenced: it is given to the owner of the
\* reference, else to the parent of what is being freed, else to null_context.
NewParent(h, f) ==
  LET p == talloc_parent_chunk(h, f.tc)
  IN  IF f.new = null_context /\ p # NULL THEN p ELSE f.new

\* A call of f has returned rc: f goes on with a chunk that was freed, or looks
\* for its parent behind one.
Gone(h, f, rc) ==
  \/ f.at \in {"kid", "destructor2"} /\ f.tc \notin Live(h)
  \/ f.at = "kid" /\ rc = -1 /\ f.new = null_context /\ Stale(h, f.tc)

\* The innermost call returns rc and leaves the heap h.  A caller that frees its
\* children gives away the one that is left, and goes on.
Return(h, rc) ==
  LET f == stack[2] IN
  /\ CASE Len(stack) > 1 /\ Gone(h, f, rc) -> fault' = "stale" /\ heap' = h
       [] Len(stack) > 1 /\ ~Gone(h, f, rc) /\ f.at = "kid" /\ rc = -1 ->
            Give(h, NewParent(h, f), Top.tc)
       [] OTHER -> fault' = "none" /\ heap' = h
  /\ stack' = IF Len(stack) = 1 THEN << >>
              ELSE [Tail(stack) EXCEPT ![1].at = IF @ = "kid" THEN "kids" ELSE @,
                                       ![1].new = IF fault' = "none" THEN NULL ELSE @]
  /\ IF Len(stack) = 1
     THEN ret' = rc /\ own' = {} /\ held' = {} /\ spared' = {}
     ELSE /\ UNCHANGED <<ret, own, held>>
          /\ spared' = IF rc = -1 THEN spared \cup {Top.tc} ELSE spared

\* Mutants of DropReference: it returns how many references are left; it goes on
\* to free the chunk whoever the reference was from.
DropReference_Count ==
  LET x == Head(heap[Top.tc].refs) IN
  /\ Running({"free"}, {"entry"}) /\ heap[Top.tc].refs # << >>
  /\ Return(FreeHandle(heap, x), Len(heap[Top.tc].refs) - 1)
  /\ UNCHANGED null_context
DropReference_GoesOn ==
  /\ Running({"free"}, {"entry"}) /\ heap[Top.tc].refs # << >>
  /\ heap' = FreeHandle(heap, Head(heap[Top.tc].refs))
  /\ UNCHANGED <<null_context, stack, ret, fault, ghosts>>

\* A reference is dropped instead; if it was from below, try again.  The walk that
\* finds out passes chunks that are being freed, and what these still point to.
DropReference ==
  LET x     == Head(heap[Top.tc].refs)
      below == talloc_is_parent(heap, x, Top.tc)
      stale == ~below /\ ~(Walked(heap, x) \subseteq Live(heap))
  IN
  /\ Running({"free"}, {"entry"})
  /\ heap[Top.tc].refs # << >>
  /\ CASE below -> heap' = FreeHandle(heap, x) /\ UNCHANGED <<stack, ret, fault, ghosts>>
       [] stale -> fault' = "stale" /\ UNCHANGED <<heap, stack, ret, ghosts>>
       [] OTHER -> Return(FreeHandle(heap, x), -1)
  /\ UNCHANGED null_context

\* Already being freed further out.
Looping ==
  /\ Running({"free"}, {"entry"})
  /\ heap[Top.tc].refs = << >> /\ heap[Top.tc].loop
  /\ Return(heap, 0)
  /\ UNCHANGED null_context

\* Its destructor is running further out.
Busy ==
  /\ Running({"free"}, {"entry"})
  /\ heap[Top.tc].refs = << >> /\ ~heap[Top.tc].loop
  /\ heap[Top.tc].destructor = "busy"
  /\ Return(heap, -1)
  /\ UNCHANGED null_context

CallDestructor ==
  /\ Running({"free"}, {"entry"})
  /\ heap[Top.tc].refs = << >> /\ ~heap[Top.tc].loop
  /\ heap[Top.tc].destructor = "user"
  /\ heap' = [heap EXCEPT ![Top.tc].destructor = "busy"]
  /\ Goto("destructor")
  /\ UNCHANGED <<null_context, ret, fault, ghosts>>

\* A destructor frees something; once, and only below MaxNested calls.
Nested(c) ==
  /\ Running({"free"}, {"destructor"}) /\ Len(stack) <= MaxNested
  /\ Begin(<<Call("free", c), [Top EXCEPT !.at = "destructor2"]>>, Tail(stack), c)

\* Mutants of DestructorRefuses: the destructor is not put back; success is
\* returned.
DestructorRefuses_StaysBusy ==
  /\ Running({"free"}, {"destructor", "destructor2"})
  /\ Return(heap, -1)
  /\ UNCHANGED null_context
DestructorRefuses_SaysFreed ==
  /\ Running({"free"}, {"destructor", "destructor2"})
  /\ Return([heap EXCEPT ![Top.tc].destructor = "user"], 0)
  /\ UNCHANGED null_context

DestructorRefuses ==
  /\ Running({"free"}, {"destructor", "destructor2"})
  /\ Return([heap EXCEPT ![Top.tc].destructor = "user"], -1)
  /\ UNCHANGED null_context

\* Mutant of Condemned: not marked as being freed.
Condemned_Unmarked(h, c) == [Unhook(h, c) EXCEPT ![c].destructor = "none"]

\* Out of the tree, then for the children.
Condemned(h, c) ==
  [Unhook(h, c) EXCEPT ![c].loop = TRUE, ![c].destructor = "none"]

DestructorAgrees ==
  /\ Running({"free"}, {"destructor", "destructor2"})
  /\ heap' = Condemned(heap, Top.tc)
  /\ Goto("kids")
  /\ UNCHANGED <<null_context, ret, fault, ghosts>>

\* A handle has nothing below it, and its destructor does not refuse.
FreeReference ==
  /\ Running({"free"}, {"entry"}) /\ Handle(heap, Top.tc)
  /\ Return(FreeHandle(heap, Top.tc), 0)
  /\ UNCHANGED null_context

NoDestructor ==
  /\ Running({"free"}, {"entry"})
  /\ heap[Top.tc].refs = << >> /\ ~heap[Top.tc].loop
  /\ heap[Top.tc].destructor = "none"
  /\ heap' = Condemned(heap, Top.tc)
  /\ Goto("kids")
  /\ UNCHANGED <<null_context, ret, fault, ghosts>>

\* Who would own an abandoned child, and the call to free it.
FreeKid ==
  LET k == heap[Top.tc].child
      p == talloc_parent_chunk(heap, Head(heap[k].refs))
  IN
  /\ Running({"free", "free_children"}, {"kids"}) /\ k # NULL
  /\ stack' = <<Call("free", k)>> \o
       [stack EXCEPT ![1].at = "kid",
          ![1].new = IF heap[k].refs # << >> /\ p # NULL THEN p
                     ELSE null_context]
  /\ UNCHANGED <<heap, null_context, ret, fault, ghosts>>

\* Mutant of KidsDone: one child is tried and the others are left.
KidsDone_TriesOne ==
  /\ Running({"free", "free_children"}, {"kids"})
  /\ Return(IF Top.fn = "free" THEN [heap EXCEPT ![Top.tc] = Freed] ELSE heap, 0)
  /\ UNCHANGED null_context

KidsDone ==
  /\ Running({"free", "free_children"}, {"kids"}) /\ heap[Top.tc].child = NULL
  /\ Return(IF Top.fn = "free" THEN [heap EXCEPT ![Top.tc] = Freed] ELSE heap, 0)
  /\ UNCHANGED null_context

\* talloc_disable_null_tracking() after the call.
Untrack ==
  /\ Running({"untrack"}, {"kids"})
  /\ null_context' = NULL
  /\ Return(heap, 0)

_talloc_free ==
  \/ DropReference \/ Looping \/ Busy \/ CallDestructor \/ DestructorAgrees
  \/ NoDestructor \/ FreeReference \/ FreeKid  \/ KidsDone \/ Untrack

Next ==
  \/ \E c \in Mine :
       \/ \E d \in {"none", "user"} : talloc_set_destructor(c, d)
       \/ _talloc_realloc(c)
       \/ talloc_free(c) \/ talloc_free_children(c) \/ Nested(c)
       \/ \E ctx \in Mine \cup {NULL} :
            talloc_reference(ctx, c) \/ talloc_steal(ctx, c) \/ talloc_unlink(ctx, c)
  \/ \E ctx \in Mine \cup {NULL} : talloc_named_const(ctx)
  \/ talloc_enable_null_tracking \/ talloc_disable_null_tracking
  \/ _talloc_free \/ DestructorRefuses

Spec == Init /\ [][Next]_vars

-----------------------------------------------------------------------------
(* Invariants of the representation *)

\* talloc_total_blocks(): from the chunk down.  A chunk in progress is marked,
\* and counts nothing.
talloc_total_blocks(h, c) ==
  LET total[marked \in SUBSET Chunk, d \in Ptr] ==
        IF d = NULL THEN 0
        ELSE total[marked, h[d].next] +
               IF d \in marked THEN 0 ELSE 1 + total[marked \cup {d}, h[d].child]
  IN  1 + total[{c}, h[c].child]

\* Every list of children is doubly linked, between live chunks, and its first
\* element and nobody else points to the parent, at every step of a free: what
\* destructors and nested calls see is never half a list.
WellLinked ==
  \A c \in Live(heap) :
    LET x == heap[c] IN
    /\ x.child # NULL =>
         /\ x.child \in Live(heap)
         /\ heap[x.child].parent = c /\ heap[x.child].prev = NULL
    /\ ~x.loop =>
         /\ x.next # NULL => x.next \in Live(heap) /\ heap[x.next].prev = c
         /\ x.prev # NULL => x.prev \in Live(heap) /\ heap[x.prev].next = c
         /\ x.parent # NULL => x.prev = NULL /\ heap[x.parent].child = c

\* No reference points to freed memory and none is lost: handles and the
\* reference lists of live chunks are two views of the same relation.
RefsAgree ==
  \A c \in Live(heap) :
    /\ Handle(heap, c) => heap[c].ptr \in Live(heap) /\ c \in Range(heap[heap[c].ptr].refs)
    /\ \A x \in Range(heap[c].refs) : x \in Live(heap) /\ heap[x].ptr = c

\* The heap is well-formed at every step: types, lists and references.
WellFormed == TypeOK /\ WellLinked /\ RefsAgree

\* Between calls the walk down, over child and next, and the walk up, over prev
\* and parent, see the same tree.
WalksAgree ==
  Idle => \A c \in Live(heap) :
            talloc_total_blocks(heap, c) = Cardinality(Subtree(heap, c))

\* Every chunk hangs off a context that has no parent: no sequence of calls closes
\* a cycle, but for the ones where the model stops with "loop".
NoLoops ==
  \A c \in Live(heap) : \E a \in Ancestors(heap, c) : talloc_parent_chunk(heap, a) = NULL

\* No mark of an earlier free is left to stop a walk, and no destructor stays busy.
Unmarked == \A c \in Live(heap) : ~heap[c].loop /\ heap[c].destructor # "busy"

\* Between calls the heap is a forest, and whoever walks it gets to the end.
IsForest == Idle => NoLoops /\ Unmarked

\* What is being freed was taken out of its list but still knows its parent, or its
\* place behind a sibling, and that went meanwhile.
Dangling(h, c) == h[c].loop /\ ~({h[c].parent, h[c].prev} \subseteq Live(h) \cup {NULL})

\* The library goes on with freed memory in four cases only.  What is being freed
\* has a parent or sibling that went meanwhile, and that is asked for; or it is
\* passed on the walk up from a reference that is to be dropped; or the owner that
\* was chosen for a child before its destructor ran went in the destructor; or the
\* argument of talloc_free_children(), which is not marked, did.
StaleOnlyKnown ==
  fault = "stale" =>
    LET x == heap[Top.tc] IN
    \/ Dangling(heap, Top.tc)
    \/ /\ Top.at = "entry" /\ x.refs # << >>
       /\ \E q \in Walked(heap, Head(x.refs)) : Dangling(heap, q)
    \/ Top.new \notin Live(heap) \cup {NULL}
    \/ Top.fn = "free_children" /\ x.state = "freed"

-----------------------------------------------------------------------------
(* What a call does *)

Returns == stack # << >> /\ stack' = << >> /\ fault' = "none"

\* Memory goes only if it was below a pointer the caller, or a destructor, asked
\* to be freed; a reference goes with what it refers to.
FreesOnlyOwn ==
  [][\A c \in Live(heap) \ Live(heap') :
       \/ c \in own
       \/ Handle(heap, c) /\ (stack = << >> \/ heap[c].ptr \in own)
       \/ \E d \in Live(heap') : heap' = Moved(heap, c, d)]_vars

\* A chunk that a context outside of the freed tree refers to is still there when
\* the call returns: "the pointer remains valid until both the original caller
\* and this given context are freed".
HeldSurvive == [][Returns => held \subseteq Live(heap')]_vars

\* What was to be freed and is still there hangs off a chunk that a reference or
\* a destructor has spared.
NothingForgotten ==
  [][Returns /\ Top.fn = "free" =>
       \A c \in own \cap Live(heap') :
         Ancestors(heap', c) \cap Live(heap') \cap (spared \cup {Top.tc}) # {}]_vars

\* "return 0 if the memory is actually freed, otherwise -1".
ReturnTells ==
  [][Returns /\ Top.fn = "free" => (ret' = 0 <=> Top.tc \notin Live(heap'))]_vars

\* The caller can tell what is left: the chunk itself from the return value, the
\* rest from who has spared it.
AccountsForRest == NothingForgotten /\ ReturnTells

\* How far the calls in progress are from returning: first what can still be
\* freed or unhooked; then, for every child of a chunk that is being freed, the
\* calls it can be passed out through; then destructors and the steps of a frame.
Remaining ==
  LET whole == {c \in Live(heap) : ~heap[c].loop}
      freeing == {i \in DOMAIN stack :
                    stack[i].at \in {"kids", "kid"} /\ stack[i].fn # "untrack"}
      Kids(p) == {c \in whole : talloc_parent_chunk(heap, c) = p}
      steps == [entry |-> 1, destructor |-> 6, destructor2 |-> 1, kids |-> 3, kid |-> 1]
  IN  10^6 * (Cardinality(Live(heap)) + Cardinality(whole))
      + 10^3 * Cardinality(UNION {Kids(stack[i].tc) \X (i..Len(stack)) : i \in freeing})
      + 7 * Cardinality({c \in Live(heap) : heap[c].destructor = "user"})
      + Cardinality(UNION {{i} \X (1..steps[stack[i].at]) : i \in DOMAIN stack})

=============================================================================
