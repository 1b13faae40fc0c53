---------------------------- MODULE StringBuilder ---------------------------
(***************************************************************************)
(* The NUL-terminated string builder of ds/string_builder.c.  Bytes past   *)
(* the terminator are never read and stand at Junk after a clear.          *)
(***************************************************************************)
EXTENDS Allocator, Sequences

CONSTANTS
    Chars, Nul,
    Views,              \* the views appended, sequences of Chars
    Hints,              \* the capacities callers ask for
    SbMinCapacity,      \* D4NP_SB_MIN_CAPACITY
    SbLimit             \* the largest block, in bytes

\* What a byte of the block may hold.
SbBytes == Chars \cup {Nul, Junk}

\* No block takes up the whole address space, and NULL is none.
ASSUME StringBuilderAssumption ==
    /\ Nul \notin Chars /\ Views \subseteq Seq(Chars)
    /\ \A v \in Views : Len(v) < Word
    /\ Hints \subseteq 0..(Word - 1)
    /\ SbMinCapacity \in 1..(Word - 1)
    /\ 2 < Word /\ SbLimit \in Nat /\ SbLimit < Word - 1
    /\ \A n \in 1..SbLimit : Null \notin [0..(n - 1) -> SbBytes]

VARIABLES
    sb,                 \* the d4np_string_builder_t: [data, len, capacity]
    text,               \* the characters appended since the last clear
    sbStatus            \* of the last call

sbVars == <<sb, text, sbStatus>>

EmptyBuilder == [data |-> Null, len |-> 0, capacity |-> 0]

SbStart == sb = EmptyBuilder /\ text = <<>> /\ sbStatus = "none"

\* The capacity after the doublings; the last step takes needed itself when
\* doubling would pass SIZE_MAX.
NewCap(capacity, needed) ==
    LET first    == IF capacity = 0 THEN SbMinCapacity ELSE capacity
        double[k \in 0..Word] ==
            IF k = 0 THEN first
            ELSE LET c == double[k - 1] IN
                 IF c >= needed THEN c ELSE IF c > (Word - 1) \div 2 THEN needed ELSE c * 2
    IN  double[Word]

\* The builders and statuses with which sb_ensure may return.
Ensure(b, needed) ==
    IF needed <= b.capacity THEN {<<b, "ok">>}
    ELSE LET n == NewCap(b.capacity, needed) IN
         {IF p = Null THEN <<b, "oom">>
          ELSE <<[b EXCEPT !.data = p, !.capacity = n], "ok">> :
             p \in Realloc(b.data, n, 1, SbLimit)}

\* The builder with the characters s written from offset len on, and a NUL after
\* them; a write outside the block is lost.
Written(b, s) ==
    LET end == b.len + Len(s) IN
    [b EXCEPT !.data = [i \in DOMAIN @ |->
                           IF i \in b.len..(end - 1) THEN s[i - b.len + 1]
                           ELSE IF i = end THEN Nul ELSE @[i]],
              !.len = end]

SbInit(hint) ==
    /\ sb = EmptyBuilder
    /\ \E r \in Ensure(EmptyBuilder, hint) :
           /\ sbStatus' = r[2]
           /\ sb' = IF hint > 0 /\ r[2] = "ok" THEN Written(r[1], <<>>) ELSE r[1]
    /\ UNCHANGED text

SbDestroy ==
    /\ sb.data # Null
    /\ sb' = EmptyBuilder /\ text' = <<>>
    /\ UNCHANGED sbStatus

\* Seeded fault: a reserve before the first append leaves the block unterminated.
ReserveUnterminated(min) ==
    /\ \E r \in Ensure(sb, min) : sb' = r[1] /\ sbStatus' = r[2]
    /\ UNCHANGED text

SbReserve(min) ==
    /\ \E r \in Ensure(sb, min) :
           /\ sbStatus' = r[2]
           /\ sb' = IF r[2] = "ok" /\ r[1].data # Null /\ r[1].len = 0
                    THEN Written(r[1], <<>>) ELSE r[1]
    /\ UNCHANGED text

\* The end of both appends: make room for needed bytes, or fail and change nothing.
AppendWith(needed, s) ==
    \E r \in Ensure(sb, needed) :
        /\ sbStatus' = r[2]
        /\ IF r[2] = "ok"
           THEN sb' = Written(r[1], s) /\ text' = text \o s
           ELSE sb' = r[1] /\ UNCHANGED text

\* Also append, whose view is that of a C string.
SbAppendView(view) ==
    IF view # <<>> /\ Len(view) > (Word - 1) - sb.len - 1
    THEN sbStatus' = "overflow" /\ UNCHANGED <<sb, text>>
    ELSE AppendWith((sb.len + Len(view) + 1) % Word, view)

SbAppendChar(c) == AppendWith((sb.len + 2) % Word, <<c>>)

SbClear ==
    /\ sb' = IF sb.data = Null THEN [sb EXCEPT !.len = 0]
             ELSE Written([sb EXCEPT !.len = 0, !.data = Resized(Null, sb.capacity)], <<>>)
    /\ text' = <<>>
    /\ UNCHANGED sbStatus

SbNext ==
    \/ \E n \in Hints : SbInit(n) \/ SbReserve(n)
    \/ \E v \in Views : SbAppendView(v)
    \/ \E c \in Chars : SbAppendChar(c)
    \/ SbClear \/ SbDestroy

SbSpec == SbStart /\ [][SbNext]_sbVars

\* What a reader of d4np_sb_cstr finds before the first NUL in the block.
CStr ==
    IF sb.data = Null THEN <<>>
    ELSE LET end == CHOOSE n \in 0..sb.capacity :
                        /\ n = sb.capacity \/ sb.data[n] = Nul
                        /\ \A i \in 0..(n - 1) : sb.data[i] # Nul
         IN  [i \in 1..end |-> sb.data[i - 1]]

-----------------------------------------------------------------------------
\* After every call, failed ones included, the buffer is the text appended since
\* the last clear with a NUL inside the block: d4np_sb_cstr and d4np_sb_view read
\* the same characters and never past the block, though len + 1, len + 2 and the
\* doubled capacity are computed in a size_t that wraps.
AlwaysTerminated ==
    /\ CStr = text /\ sb.len = Len(text)
    /\ sb.data = Null => sb.len = 0 /\ sb.capacity = 0
    /\ sb.data # Null => sb.len < sb.capacity /\ DOMAIN sb.data = 0..(sb.capacity - 1)
=============================================================================
