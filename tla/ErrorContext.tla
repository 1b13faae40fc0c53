---------------------------- MODULE ErrorContext ----------------------------
(***************************************************************************)
(* One thread's error trail of sys/error_context.c: a stack of frames in   *)
(* static storage, each with its own message buffer.  pop hands out a      *)
(* pointer to the buffer of the frame it drops.                            *)
(***************************************************************************)
EXTENDS Naturals, Sequences

CONSTANTS
    Statuses,
    Messages,           \* sequences of characters; NoMessage is the NULL pointer
    NoMessage,
    MsgNul,
    MaxDepth,           \* D4NP_ERROR_CONTEXT_MAX_DEPTH
    MessageCap          \* D4NP_ERROR_MESSAGE_CAP

ASSUME ErrorContextAssumption ==
    /\ MaxDepth \in Nat \ {0} /\ MessageCap \in Nat \ {0} /\ NoMessage \notin Messages
    /\ \A m \in Messages : m \in Seq({m[i] : i \in DOMAIN m})

VARIABLES
    g_stack, g_depth,
    trail,              \* the frames a handler should find, oldest first
    readable            \* the messages popped and still promised: [slot, message]

errorVars == <<g_stack, g_depth, trail, readable>>

ErrorStart ==
    /\ g_stack = [d \in 0..(MaxDepth - 1) |->
                     [status |-> "ok", message |-> [i \in 0..(MessageCap - 1) |-> MsgNul]]]
    /\ g_depth = 0 /\ trail = <<>> /\ readable = {}

\* Seeded fault: the copy fills the buffer and leaves no room for the NUL.
CopyFills(buf, message) ==
    LET n == IF message = NoMessage THEN 0
             ELSE IF Len(message) < MessageCap THEN Len(message) ELSE MessageCap
    IN  [i \in DOMAIN buf |-> IF i < n THEN message[i + 1]
                              ELSE IF i = n THEN MsgNul ELSE buf[i]]

\* The copy loop: at most MessageCap - 1 characters, then the NUL.
Copy(buf, message) ==
    LET n == IF message = NoMessage THEN 0
             ELSE IF Len(message) < MessageCap THEN Len(message) ELSE MessageCap - 1
    IN  [i \in DOMAIN buf |-> IF i < n THEN message[i + 1]
                              ELSE IF i = n THEN MsgNul ELSE buf[i]]

Truncated(message) ==
    IF message = NoMessage THEN <<>>
    ELSE SubSeq(message, 1, IF Len(message) < MessageCap THEN Len(message) ELSE MessageCap - 1)

\* A push beyond the last frame is dropped.
ErrorPush(status, message) ==
    IF g_depth < MaxDepth
    THEN /\ g_stack' = [g_stack EXCEPT ![g_depth] =
                           [status |-> status, message |-> Copy(@.message, message)]]
         /\ g_depth' = g_depth + 1
         /\ trail' = Append(trail, <<status, Truncated(message)>>)
         /\ readable' = {r \in readable : r.slot # g_depth}
    ELSE UNCHANGED errorVars

\* pop also returns the status of the frame; it has no effect on an empty stack.
ErrorPop ==
    /\ g_depth # 0
    /\ g_depth' = g_depth - 1
    /\ readable' = readable \cup {[slot |-> g_depth - 1, message |-> trail[Len(trail)][2]]}
    /\ trail' = SubSeq(trail, 1, Len(trail) - 1)
    /\ UNCHANGED g_stack

ErrorClear ==
    /\ g_depth' = 0 /\ trail' = <<>> /\ readable' = {}
    /\ UNCHANGED g_stack

ErrorNext ==
    \/ \E s \in Statuses, m \in Messages \cup {NoMessage} : ErrorPush(s, m)
    \/ ErrorPop \/ ErrorClear

ErrorSpec == ErrorStart /\ [][ErrorNext]_errorVars

-----------------------------------------------------------------------------
\* Reading a message buffer as a C string; it may run off an unterminated one.
Reads(buf, message) ==
    /\ Len(message) < MessageCap /\ buf[Len(message)] = MsgNul
    /\ \A i \in 1..Len(message) : buf[i - 1] = message[i]

\* The frames on the stack are the earliest MaxDepth pushes, with their statuses
\* and their messages cut to fit, and a message that pop handed out by pointer
\* still reads as it was pushed until a push at its depth or a clear.
TrailKept ==
    /\ g_depth = Len(trail) /\ g_depth <= MaxDepth
    /\ \A d \in 0..(g_depth - 1) : /\ g_stack[d].status = trail[d + 1][1]
                                   /\ Reads(g_stack[d].message, trail[d + 1][2])
    /\ \A r \in readable : Reads(g_stack[r.slot].message, r.message)
=============================================================================
