---------------------------- MODULE TallocString ----------------------------
(***************************************************************************)
(* lib/talloc/talloc.c: strings and arrays.  A talloc'ed buffer is the      *)
(* sequence of its bytes, so that its length is the size talloc knows; a    *)
(* C string is what comes before the first NUL.  The functions that append  *)
(* come in two kinds, at the end of the string and at the end of the        *)
(* buffer, and for text that is given, cut at n, or formatted.              *)
(***************************************************************************)
EXTENDS Talloc

CONSTANTS
  Byte,              \* the bytes a string consists of, without NUL
  MaxLength,         \* bound: of the buffers, and of the strings of any bytes
  MaxText,           \* bound: of the strings of one byte over and over
  MAX_TALLOC_SIZE,
  INT_MAX,
  SizeMax,           \* size_t counts modulo this
  FAILED,            \* vsnprintf() returns an error
  OVERRUN            \* more is copied than the memory holds

\* unsigned counts modulo this.
UnsignedMax == 2 * (INT_MAX + 1)

ASSUME StringAssumption ==
  /\ Byte \subseteq Nat \ {0}
  /\ MaxLength \in Nat /\ MaxText \in Nat
  /\ MAX_TALLOC_SIZE \in Nat \ {0} /\ MaxLength < MAX_TALLOC_SIZE
  /\ INT_MAX \in Nat /\ MAX_TALLOC_SIZE <= INT_MAX + 1
  /\ SizeMax \in Nat /\ SizeMax >= UnsignedMax
  /\ NULL \notin Seq(Nat) /\ FAILED \notin Seq(Nat) /\ OVERRUN \notin Seq(Nat)   \* no buffers
  /\ NULL # OVERRUN

NUL == 0

\* One byte, k times.
Repeated(k) == {[i \in 1..k |-> b] : b \in Byte}

\* What a caller can have: a string, and a talloc'ed buffer with anything in it.
String == BoundedSeq(Byte, MaxLength) \cup UNION {Repeated(k) : k \in 0..MaxText}
Buffer == BoundedSeq(Byte \cup {NUL}, MaxLength)

strnlen(b, n) ==
  CHOOSE k \in 0..Len(b) :
    /\ k = n \/ k = Len(b) \/ b[k + 1] = NUL
    /\ k <= n
    /\ \A i \in 1..k : b[i] # NUL
strlen(b) == strnlen(b, Len(b))

\* __talloc() for so many bytes, which are copied there.
Alloc(bytes) == IF Len(bytes) >= MAX_TALLOC_SIZE THEN NULL ELSE bytes

\* Mutant of Realloc: a pointer with references is moved away from under them.
Realloc_Moves(refs, bytes) == Alloc(bytes)

\* talloc_realloc() of a pointer to as many chars as there are bytes, which are copied
\* there.  The number becomes an unsigned; 0 is to free the pointer, and one that
\* has references (refs) is left as it is.
Realloc(refs, bytes) ==
  LET count == Len(bytes) % UnsignedMax IN
  CASE count >= MAX_TALLOC_SIZE \/ count = 0 \/ refs -> NULL
    [] OTHER -> IF count < Len(bytes) THEN OVERRUN ELSE bytes

-----------------------------------------------------------------------------
(* Strings *)

__talloc_strlendup(p, len) == Alloc(SubSeq(p, 1, len) \o <<NUL>>)

talloc_strdup(p) == IF p = NULL THEN NULL ELSE __talloc_strlendup(p, strlen(p))

\* Mutant of talloc_strndup: n is not looked at.
talloc_strndup_Uncut(p, n) ==
  IF p = NULL THEN NULL ELSE __talloc_strlendup(p, strlen(p))
talloc_strndup(p, n) ==
  IF p = NULL THEN NULL ELSE __talloc_strlendup(p, strnlen(p, n))

__talloc_strlendup_append(s, refs, slen, a, alen) ==
  Realloc(refs, SubSeq(s, 1, slen) \o SubSeq(a, 1, alen) \o <<NUL>>)

\* Mutant of BufferEnd: behind the last byte.
BufferEnd_NoDecrement(s) == Len(s)

\* The end of the buffer: before its last byte, if it has one.
BufferEnd(s) == IF Len(s) > 0 THEN Len(s) - 1 ELSE 0

talloc_strdup_append(s, refs, a) ==
  CASE s = NULL -> talloc_strdup(a)
    [] s # NULL /\ a = NULL -> s
    [] OTHER -> __talloc_strlendup_append(s, refs, strlen(s), a, strlen(a))

talloc_strdup_append_buffer(s, refs, a) ==
  CASE s = NULL -> talloc_strdup(a)
    [] s # NULL /\ a = NULL -> s
    [] OTHER -> __talloc_strlendup_append(s, refs, BufferEnd(s), a, strlen(a))

talloc_strndup_append(s, refs, a, n) ==
  CASE s = NULL -> talloc_strdup(a)
    [] s # NULL /\ a = NULL -> s
    [] OTHER -> __talloc_strlendup_append(s, refs, strlen(s), a, strnlen(a, n))

talloc_strndup_append_buffer(s, refs, a, n) ==
  CASE s = NULL -> talloc_strdup(a)
    [] s # NULL /\ a = NULL -> s
    [] OTHER -> __talloc_strlendup_append(s, refs, BufferEnd(s), a, strnlen(a, n))

\* out is what the format comes to, or FAILED; vsnprintf() returns its length as an int.
vsnprintf(out) == IF out # FAILED /\ Len(out) > INT_MAX THEN FAILED ELSE out

talloc_vasprintf(out) == IF vsnprintf(out) = FAILED THEN NULL ELSE Alloc(out \o <<NUL>>)

__talloc_vaslenprintf_append(s, refs, slen, out) ==
  IF vsnprintf(out) \in {FAILED, << >>} THEN s
  ELSE Realloc(refs, SubSeq(s, 1, slen) \o out \o <<NUL>>)

\* Mutant of talloc_vasprintf_append: at the end of the buffer.
talloc_vasprintf_append_AtSize(s, refs, out) ==
  IF s = NULL THEN talloc_vasprintf(out)
  ELSE __talloc_vaslenprintf_append(s, refs, BufferEnd(s), out)
talloc_vasprintf_append(s, refs, out) ==
  IF s = NULL THEN talloc_vasprintf(out)
  ELSE __talloc_vaslenprintf_append(s, refs, strlen(s), out)

talloc_vasprintf_append_buffer(s, refs, out) ==
  IF s = NULL THEN talloc_vasprintf(out)
  ELSE __talloc_vaslenprintf_append(s, refs, BufferEnd(s), out)

-----------------------------------------------------------------------------
(* Arrays *)

\* Mutant of _talloc_array: the product is compared, after it may have wrapped.
_talloc_array_Product(el_size, count) ==
  IF (el_size * count) % SizeMax >= MAX_TALLOC_SIZE THEN NULL
  ELSE (el_size * count) % SizeMax

\* The size that is asked of __talloc(), or NULL.
_talloc_array(el_size, count) ==
  IF count >= MAX_TALLOC_SIZE \div el_size THEN NULL
  ELSE (el_size * count) % SizeMax

-----------------------------------------------------------------------------
(* One call is tried on every input; the tree of chunks is left to the         *)
(* behaviours without an input.                                                *)

Input ==
  [kind : {"string"}, s : Buffer, refs : BOOLEAN, a : String, n : 0..MaxLength]
    \cup [kind : {"array"}, el_size : 1..(SizeMax - 1), count : 0..(UnsignedMax - 1)]

VARIABLE input

TrialInit == Init /\ input \in Input \cup {NULL}
TrialNext == input = NULL /\ Next /\ UNCHANGED input
TrialSpec == TrialInit /\ [][TrialNext]_<<vars, input>>

Trial(kind) == input # NULL /\ input.kind = kind

-----------------------------------------------------------------------------
(* Properties *)

Text(b) == SubSeq(b, 1, strlen(b))

\* The buffer ends where its string ends; it ends with NUL at least.
Exact(b) == Len(b) > 0 /\ strlen(b) = Len(b) - 1
Terminated(b) == Len(b) > 0 /\ Last(b) = NUL

\* What the functions of either kind make of s and the text a.
StringEnd(s, refs, a) ==
  {talloc_strdup_append(s, refs, a), talloc_strndup_append(s, refs, a, Len(a) + 1),
   talloc_vasprintf_append(s, refs, a)}
BufferEndOf(s, refs, a) ==
  {talloc_strdup_append_buffer(s, refs, a),
   talloc_strndup_append_buffer(s, refs, a, Len(a) + 1),
   talloc_vasprintf_append_buffer(s, refs, a)}

\* On a string that fills its buffer the two kinds of functions do the same and
\* leave a string that fills its buffer, so that a caller who only ever appends
\* can mix them.  If the text gets too long or the string is referenced NULL comes
\* back, or the string as it was if the format came to nothing or failed; only a
\* length that an unsigned does not hold can be taken for a shorter one.
AppendsMix ==
  Trial("string") /\ Exact(input.s) =>
    LET s == input.s  a == input.a  refs == input.refs
        size == Len(Text(s)) + Len(a) + 1
    IN
    \A r \in StringEnd(s, refs, a) \cup BufferEndOf(s, refs, a) :
      IF size < MAX_TALLOC_SIZE /\ ~refs
      THEN Exact(r) /\ Text(r) = Text(s) \o a
      ELSE \/ r = NULL
           \/ r = s /\ (a = << >> \/ Len(a) > INT_MAX)
           \/ r = OVERRUN /\ size > UnsignedMax /\ ~refs

\* A string shorter than its buffer, and text that can be formatted: the plain
\* functions append to the string, whatever was behind it; after the buffer
\* functions the string itself is as it was, and what was appended is found behind
\* all that was there.
AppendsWhereSaid ==
  Trial("string") /\ Terminated(input.s) /\ ~Exact(input.s)
    /\ Len(input.a) \in 1..INT_MAX =>
    LET s == input.s  a == input.a  refs == input.refs IN
    /\ \A r \in StringEnd(s, refs, a) \ {NULL} : Exact(r) /\ Text(r) = Text(s) \o a
    /\ \A r \in BufferEndOf(s, refs, a) \ {NULL} :
         Text(r) = Text(s) /\ IsPrefix(Front(s), r) /\ IsSuffix(a \o <<NUL>>, r)

\* Appending in pieces to a string that nobody refers to: the first n bytes with the
\* functions that cut, then the rest, comes to the same as appending all.  (Without
\* a string to append to they do not cut: talloc_strdup() takes all of a.)
PiecesAddUp ==
  Trial("string") /\ ~input.refs /\ Terminated(input.s) /\ input.n <= Len(input.a)
    /\ strlen(input.s) + Len(input.a) + 1 < MAX_TALLOC_SIZE =>
    LET s == input.s  a == input.a  n == input.n
        rest == SubSeq(a, n + 1, Len(a))
        once == talloc_strdup_append(s, FALSE, a)
        head == talloc_strndup_append(s, FALSE, a, n)
        bufhead == talloc_strndup_append_buffer(s, FALSE, a, n)
    IN  /\ talloc_strdup_append(head, FALSE, rest) = once
        /\ talloc_strdup_append_buffer(head, FALSE, rest) = once
        /\ talloc_strdup_append(talloc_strndup(a, n), FALSE, rest) = talloc_strdup(a)
        /\ talloc_vasprintf_append(talloc_strdup_append(NULL, FALSE, rest), FALSE, a) =
             talloc_strdup_append_buffer(talloc_vasprintf_append(NULL, FALSE, rest), FALSE, a)
        /\ bufhead # NULL =>
             talloc_strdup_append_buffer(bufhead, FALSE, rest) =
               talloc_strdup_append_buffer(s, FALSE, a)

\* Appending is right for full buffers, for others, and in pieces.
AppendsRightly == AppendsMix /\ AppendsWhereSaid /\ PiecesAddUp

\* The check for overflow of the array functions is enough: no product that is
\* let through has wrapped, and none reaches the limit.
NoArrayWraps ==
  Trial("array") =>
    LET size == _talloc_array(input.el_size, input.count) IN
    size # NULL => size = input.el_size * input.count /\ size < MAX_TALLOC_SIZE
=============================================================================
