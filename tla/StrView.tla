------------------------------- MODULE StrView ------------------------------
(***************************************************************************)
(* The string views of str/str_view.c.  A view is a pointer into a buffer, *)
(* an index from 1 on, or 0 for NULL, and a length.  split_next is called  *)
(* in a loop by its caller; every call is a step.                          *)
(***************************************************************************)
EXTENDS Naturals, Sequences, SequencesExt

CONSTANTS
    SplitTexts,     \* the buffers split
    Sep,            \* the separator
    MaxOuts         \* sizes of the caller's array of fields

VARIABLES
    subject,        \* the buffer
    whole,          \* the view the loop started from
    sv,             \* the view that split_next advances
    tokens,         \* the fields it has produced
    loop            \* "idle", "running", or "done" once split_next answered false

viewVars == <<subject, whole, sv, tokens, loop>>

\* from_str and from_buf: a NULL buffer yields the view {NULL, 0}.
View(ptr, n) == [ptr |-> ptr, len |-> IF ptr = 0 THEN 0 ELSE n]

Bytes(buf, v) == SubSeq(buf, v.ptr, v.ptr + v.len - 1)

\* The contents decide, except that empty views are equal whatever they point to.
Equals(buf, a, b) ==
    a.len = b.len /\ (a.len = 0 \/ Bytes(buf, a) = Bytes(buf, b))

\* Seeded fault: the field after a trailing separator is lost.
SplitNextDropsLast(buf, v) ==
    LET seps == {i \in 0..(v.len - 1) : buf[v.ptr + i] = Sep}
        i    == CHOOSE k \in seps : \A j \in seps : k <= j
    IN  IF v.ptr = 0 THEN [more |-> FALSE, out |-> v, rest |-> v]
        ELSE IF seps # {} /\ i < v.len - 1
        THEN [more |-> TRUE, out |-> View(v.ptr, i), rest |-> View(v.ptr + i + 1, v.len - i - 1)]
        ELSE [more |-> TRUE, out |-> View(v.ptr, v.len), rest |-> View(0, 0)]

\* A NULL pointer is the mark of an exhausted view.
SplitNext(buf, v) ==
    LET seps == {i \in 0..(v.len - 1) : buf[v.ptr + i] = Sep}
        i    == CHOOSE k \in seps : \A j \in seps : k <= j
    IN  IF v.ptr = 0 THEN [more |-> FALSE, out |-> v, rest |-> v]
        ELSE IF seps # {}
        THEN [more |-> TRUE, out |-> View(v.ptr, i), rest |-> View(v.ptr + i + 1, v.len - i - 1)]
        ELSE [more |-> TRUE, out |-> View(v.ptr, v.len), rest |-> View(0, 0)]

\* str_split: the fields stored in the caller's array, and the count of all.
Split(buf, v, max_out) ==
    LET after[k \in 0..(Len(buf) + 1)] ==    \* k iterations
            IF k = 0 THEN [rest |-> v, out |-> <<>>, count |-> 0]
            ELSE LET s == after[k - 1]
                     n == SplitNext(buf, s.rest)
                 IN  IF ~n.more THEN s
                     ELSE [rest  |-> n.rest,
                           out   |-> IF s.count < max_out THEN Append(s.out, n.out) ELSE s.out,
                           count |-> s.count + 1]
    IN  after[Len(buf) + 1]

NoView == View(0, 0)

ViewStart == subject = <<>> /\ whole = NoView /\ sv = NoView /\ tokens = <<>> /\ loop = "idle"

\* The caller makes a view over a buffer, or over no buffer at all.
MakeView(buf, ptr) ==
    /\ loop # "running"
    /\ subject' = buf /\ whole' = View(ptr, Len(buf)) /\ sv' = whole'
    /\ tokens' = <<>> /\ loop' = "running"

NextToken ==
    LET n == SplitNext(subject, sv) IN
    /\ loop = "running"
    /\ sv' = n.rest /\ loop' = IF n.more THEN "running" ELSE "done"
    /\ tokens' = IF n.more THEN Append(tokens, n.out) ELSE tokens
    /\ UNCHANGED <<subject, whole>>

ViewNext == NextToken \/ MakeView(<<>>, 0) \/ \E b \in SplitTexts : MakeView(b, 1)

-----------------------------------------------------------------------------
\* The fields found so far, with a separator after each that is not the last.
Rejoined ==
    FoldLeft(LAMBDA acc, t : acc \o Bytes(subject, t) \o <<Sep>>, <<>>, tokens)
        \o Bytes(subject, sv)

\* While the loop runs, the fields and what is left of the view make up the text
\* again, separators included; no field holds a separator; and str_split into an
\* array of any size counts the same fields and stores the first of them.
SplitExact ==
    /\ whole.ptr # 0 =>
           /\ sv.ptr # 0 => Rejoined = subject
           /\ sv.ptr = 0 => Rejoined = Append(subject, Sep)
    /\ \A k \in DOMAIN tokens : ~Contains(Bytes(subject, tokens[k]), Sep)
    /\ loop = "done" => \A max \in MaxOuts :
                   LET s == Split(subject, whole, max) IN
                   /\ s.count = Len(tokens)
                   /\ Len(s.out) = (IF max < s.count THEN max ELSE s.count)
                   /\ \A k \in DOMAIN s.out : Equals(subject, s.out[k], tokens[k])

\* "The empty view yields exactly one empty field": a finished loop over a view
\* of no bytes has produced one field.
EmptyViewOneField ==
    loop = "done" /\ whole.len = 0 => Len(tokens) = 1
=============================================================================
