-------------------------------- MODULE Log ---------------------------------
(***************************************************************************)
(* The logger of sys/log.c: state set up on first use behind an atomic     *)
(* guard, an output stream under a mutex, a minimum level read without it. *)
(* A record is written in three pieces: prefix, message, newline.          *)
(***************************************************************************)
EXTENDS Naturals, Sequences

CONSTANTS
    Threads, Free,
    Levels,         \* D4NP_LOG_INFO = 0 .. D4NP_LOG_ERROR
    Streams,        \* the sinks callers may set
    Stderr,
    MaxCalls        \* bounds the number of API calls

ASSUME LogAssumption ==
    /\ Free \notin Threads /\ "raw" \notin Threads \cup {Free}
    /\ Stderr \in Streams /\ "null" \notin Streams
    /\ 0 \in Levels /\ Levels \subseteq Nat /\ MaxCalls \in Nat

VARIABLES
    g_once, g_min_level, g_stream,
    mutex,          \* "raw" before d4np_mutex_init, then its holder or Free
    pc, call,       \* each thread: its next step, the call it is in
    calls,
    out,            \* what each stream has received: <<thread, piece>>
    sink, floor     \* the sink and the level set last, by a call that returned

logVars == <<g_once, g_min_level, g_stream, mutex, pc, call, calls, out, sink, floor>>

Calls == [op : {"write"}, level : Levels] \cup [op : {"set_output"}, stream : Streams \cup {"null"}]
         \cup [op : {"set_min_level"}, level : Levels]
Idle == [op |-> "none"]

LogInit ==
    /\ g_once = 0 /\ g_min_level = 0 /\ g_stream = "null" /\ mutex = "raw"
    /\ pc = [t \in Threads |-> "idle"] /\ call = [t \in Threads |-> Idle]
    /\ calls = 0 /\ out = [s \in Streams |-> <<>>]
    /\ sink = Stderr /\ floor = 0

Goto(t, to) == pc' = [pc EXCEPT ![t] = to]
Step(t, from, to) == pc[t] = from /\ Goto(t, to)
globals == <<g_once, g_min_level, g_stream, mutex>>
ghosts  == <<calls, out, sink, floor>>

Begin(t, c) ==
    /\ calls < MaxCalls /\ Step(t, "idle", "load")
    /\ call' = [call EXCEPT ![t] = c] /\ calls' = calls + 1
    /\ UNCHANGED <<globals, out, sink, floor>>

-----------------------------------------------------------------------------
(* log_ensure_init *)

LoadOnce(t) ==
    /\ pc[t] = "load"
    /\ Goto(t, IF g_once = 2 THEN call[t].op ELSE "cas")
    /\ UNCHANGED <<globals, call, ghosts>>

\* Seeded fault: a plain load and store in place of the compare-and-exchange,
\* and both threads saw 0.
CasAlwaysWins(t) ==
    /\ pc[t] = "cas"
    /\ g_once' = 1 /\ Goto(t, "init")
    /\ UNCHANGED <<g_min_level, g_stream, mutex, call, ghosts>>

CompareExchange(t) ==
    /\ pc[t] = "cas"
    /\ IF g_once = 0 THEN g_once' = 1 /\ Goto(t, "init")
                     ELSE Goto(t, "spin") /\ UNCHANGED g_once
    /\ UNCHANGED <<g_min_level, g_stream, mutex, call, ghosts>>

InitMutex(t) ==
    /\ Step(t, "init", "stream") /\ mutex' = Free
    /\ UNCHANGED <<g_once, g_min_level, g_stream, call, ghosts>>

InitStream(t) ==
    /\ Step(t, "stream", "level") /\ g_stream' = Stderr
    /\ UNCHANGED <<g_once, g_min_level, mutex, call, ghosts>>

InitLevel(t) ==
    /\ Step(t, "level", "ready") /\ g_min_level' = 0
    /\ UNCHANGED <<g_once, g_stream, mutex, call, ghosts>>

\* Seeded fault: the end of the initialisation is not published.
ReadyUnpublished(t) ==
    /\ Step(t, "ready", call[t].op)
    /\ UNCHANGED <<globals, call, ghosts>>

InitReady(t) ==
    /\ Step(t, "ready", call[t].op) /\ g_once' = 2
    /\ UNCHANGED <<g_min_level, g_stream, mutex, call, ghosts>>

\* Seeded fault: the loser of the race does not wait for the winner.
SpinNot(t) ==
    /\ pc[t] = "spin" /\ Goto(t, call[t].op)
    /\ UNCHANGED <<globals, call, ghosts>>

Spin(t) ==
    /\ pc[t] = "spin" /\ Goto(t, IF g_once = 2 THEN call[t].op ELSE "spin")
    /\ UNCHANGED <<globals, call, ghosts>>

EnsureInit(t) ==
    \/ LoadOnce(t) \/ CompareExchange(t) \/ Spin(t)
    \/ InitMutex(t) \/ InitStream(t) \/ InitLevel(t) \/ InitReady(t)

-----------------------------------------------------------------------------
(* d4np_log_set_output, _set_min_level, _write *)

Lock(t, from, to) ==
    /\ Step(t, from, to) /\ mutex = Free /\ mutex' = t
    /\ UNCHANGED <<g_once, g_min_level, g_stream, call, ghosts>>

SetOutputLock(t) == Lock(t, "set_output", "set")

SetOutput(t) ==
    /\ Step(t, "set", "idle")
    /\ g_stream' = IF call[t].stream = "null" THEN Stderr ELSE call[t].stream
    /\ sink' = g_stream'
    /\ mutex' = Free /\ call' = [call EXCEPT ![t] = Idle]
    /\ UNCHANGED <<g_once, g_min_level, calls, out, floor>>

SetMinLevel(t) ==
    /\ Step(t, "set_min_level", "idle")
    /\ g_min_level' = call[t].level /\ floor' = call[t].level
    /\ call' = [call EXCEPT ![t] = Idle]
    /\ UNCHANGED <<g_once, g_stream, mutex, calls, out, sink>>

\* Records below the minimum level are dropped here, without the lock.
WriteCheck(t) ==
    /\ pc[t] = "write"
    /\ \/ call[t].level < g_min_level /\ Goto(t, "idle") /\ call' = [call EXCEPT ![t] = Idle]
       \/ call[t].level >= g_min_level /\ Goto(t, "lock") /\ UNCHANGED call
    /\ UNCHANGED <<globals, ghosts>>

\* Seeded fault: the record is written without the mutex.
WriteUnlocked(t) ==
    /\ Step(t, "lock", "prefix")
    /\ UNCHANGED <<globals, call, ghosts>>

WriteLock(t) == Lock(t, "lock", "prefix")

Emit(t, from, to) ==
    /\ Step(t, from, to)
    /\ out' = [out EXCEPT ![g_stream] = Append(@, <<t, from>>)]
    /\ UNCHANGED <<globals, call, calls, sink, floor>>

WriteRecord(t) == \/ Emit(t, "prefix", "body") \/ Emit(t, "body", "newline")
                  \/ Emit(t, "newline", "unlock")

WriteUnlock(t) ==
    /\ Step(t, "unlock", "idle")
    /\ mutex' = Free /\ call' = [call EXCEPT ![t] = Idle]
    /\ UNCHANGED <<g_once, g_min_level, g_stream, ghosts>>

Operate(t) == \/ SetOutputLock(t) \/ SetOutput(t) \/ SetMinLevel(t)
              \/ WriteCheck(t) \/ WriteLock(t) \/ WriteRecord(t) \/ WriteUnlock(t)

Done == calls = MaxCalls /\ (\A t \in Threads : pc[t] = "idle") /\ UNCHANGED logVars

LogNext ==
    \/ \E t \in Threads : EnsureInit(t) \/ Operate(t) \/ \E c \in Calls : Begin(t, c)
    \/ Done

LogSpec == LogInit /\ [][LogNext]_logVars

\* A thread that is in a call keeps taking steps.
FairSpec == LogSpec /\ \A t \in Threads : WF_logVars(EnsureInit(t) \/ Operate(t))

-----------------------------------------------------------------------------
\* No thread is past log_ensure_init before the mutex and the stream are set up:
\* the mutex is never locked raw, and never initialised again while it is in use.
ReadyBeforeUse ==
    \A t \in Threads :
        /\ pc[t] \in {"set_output", "set", "set_min_level", "write", "lock", "prefix",
                      "body", "newline", "unlock"}
              => g_once = 2 /\ mutex # "raw" /\ g_stream # "null"
        /\ pc[t] \in {"set", "prefix", "body", "newline", "unlock"} => mutex = t

\* What a returned set_output or set_min_level chose stays in force: the lazy
\* initialisation of another thread does not put the defaults back.
SettingsStick == g_once = 2 => g_stream = sink /\ g_min_level = floor

\* "Lines from concurrent threads never interleave": every stream is a sequence
\* of whole records, the last one perhaps in progress.
NoInterleaving ==
    \A s \in Streams : \A k \in DOMAIN out[s] :
        /\ out[s][k][2] = <<"prefix", "body", "newline">>[((k - 1) % 3) + 1]
        /\ k % 3 # 1 => out[s][k][1] = out[s][k - 1][1]

\* Every call returns: the spin in log_ensure_init ends, and so does the wait
\* for the mutex.
CallsReturn == \A t \in Threads : pc[t] # "idle" ~> pc[t] = "idle"
=============================================================================
