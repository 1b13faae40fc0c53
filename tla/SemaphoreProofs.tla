--------------------------- MODULE SemaphoreProofs ---------------------------
(***************************************************************************)
(* Proofs about the POSIX build of concurrency/semaphore.c, for every      *)
(* number of threads and of permits: no wake-up is lost, and the mutex and *)
(* the condition variable implement the atomic semaphore of module         *)
(* AtomicSemaphore.  Then about concurrency/named_semaphore.c, for every   *)
(* set of processes and of keys, every length of a name and every limit:   *)
(* permits are conserved and a key names one semaphore, in both builds.    *)
(***************************************************************************)
EXTENDS Semaphore, NamedSemaphore, Integers, TLAPS, FiniteSetTheorems, SequenceTheorems

\* Only d4np_semaphore_wait sleeps, and nobody is in a call of a semaphore
\* that has not been initialised.
CallsInv ==
    /\ \A t \in Threads : pc[t] = "sleep" => op[t] = "wait"
    /\ ~live => \A t \in Threads : pc[t] = "idle"

\* The callers do not post past the limit: the permits, and the permits of the
\* posts under way, fit.
PermitsInv == count + Cardinality(Posting) <= MaxPermits

\* The inductive invariant.
SemInv == TypeOK /\ CallsInv /\ PermitsInv /\ NoLostWakeup

-----------------------------------------------------------------------------
\* The sets of threads that are counted are finite.
LEMMA FiniteCounts ==
    /\ IsFiniteSet(Posting) /\ Cardinality(Posting) \in Nat
    /\ IsFiniteSet(Awake) /\ Cardinality(Awake) \in Nat
    /\ IsFiniteSet(Posting') /\ Cardinality(Posting') \in Nat
    /\ IsFiniteSet(Awake') /\ Cardinality(Awake') \in Nat
<1>1. /\ Posting \subseteq Threads /\ Awake \subseteq Threads
      /\ Posting' \subseteq Threads /\ Awake' \subseteq Threads
  BY DEF Posting, Awake
<1> QED
  BY <1>1, SemaphoreAssumption, FS_Subset, FS_CardinalityType

\* One more thread in a finite set of threads.
LEMMA OneMore ==
    ASSUME NEW S, NEW t, IsFiniteSet(S), t \notin S
    PROVE  Cardinality(S \cup {t}) = Cardinality(S) + 1
BY FS_AddElement

\* And one fewer.
LEMMA OneFewer ==
    ASSUME NEW S, NEW t \in S, IsFiniteSet(S)
    PROVE  Cardinality(S \ {t}) = Cardinality(S) - 1
BY FS_RemoveElement

-----------------------------------------------------------------------------
\* Every step keeps the types.
LEMMA TypeStep == TypeOK /\ [Next]_vars => TypeOK'
<1> SUFFICES ASSUME TypeOK, [Next]_vars PROVE TypeOK'
  OBVIOUS
<1>1. CASE SemInit \/ SemDestroy
  <2>1. live' \in BOOLEAN
    BY <1>1, Zenon DEF SemInit, SemDestroy
  <2> QED
    BY <1>1, <2>1, SemaphoreAssumption DEF SemInit, SemDestroy, TypeOK
<1>2. ASSUME NEW t \in Threads, NEW o \in {"wait", "try", "post"}, Call(t, o) PROVE TypeOK'
  BY <1>2 DEF Call, TypeOK
<1>3. ASSUME NEW t \in Threads, Step(t) \/ SpuriousWakeup(t) PROVE TypeOK'
  <2>1. CASE Lock(t) \/ Unlock(t) \/ SpuriousWakeup(t)
    BY <2>1 DEF Lock, Unlock, SpuriousWakeup, TypeOK
  <2>2. CASE Wait(t) \/ TryWait(t)
    BY <2>2 DEF Wait, TryWait, TypeOK
  <2>3. CASE Post(t)
    BY <2>3 DEF Post, Sleepers, TypeOK
  <2> QED
    BY <1>3, <2>1, <2>2, <2>3 DEF Step
<1>4. CASE UNCHANGED vars
  BY <1>4 DEF vars, TypeOK
<1> QED
  BY <1>1, <1>2, <1>3, <1>4 DEF Next

\* Every step keeps what CallsInv says: a call begins only on a live semaphore.
LEMMA CallsStep == TypeOK /\ CallsInv /\ [Next]_vars => CallsInv'
<1> SUFFICES ASSUME TypeOK, CallsInv, [Next]_vars PROVE CallsInv'
  OBVIOUS
<1>1. CASE SemInit \/ SemDestroy
  BY <1>1 DEF SemInit, SemDestroy, CallsInv
<1>2. ASSUME NEW t \in Threads, NEW o \in {"wait", "try", "post"}, Call(t, o) PROVE CallsInv'
  BY <1>2 DEF Call, TypeOK, CallsInv
<1>3. ASSUME NEW t \in Threads, Step(t) \/ SpuriousWakeup(t) PROVE CallsInv'
  <2>1. CASE Lock(t) \/ Unlock(t) \/ SpuriousWakeup(t)
    BY <2>1 DEF Lock, Unlock, SpuriousWakeup, TypeOK, CallsInv
  <2>2. CASE Wait(t) \/ TryWait(t)
    BY <2>2 DEF Wait, TryWait, TypeOK, CallsInv
  <2>3. CASE Post(t)
    BY <2>3 DEF Post, Sleepers, TypeOK, CallsInv
  <2> QED
    BY <1>3, <2>1, <2>2, <2>3 DEF Step
<1>4. CASE UNCHANGED vars
  BY <1>4 DEF vars, CallsInv
<1> QED
  BY <1>1, <1>2, <1>3, <1>4 DEF Next

\* The posts under way stay within the limit: a post is called only with room
\* for its permit, and gives up its place when the permit is in the counter.
LEMMA PermitsStep == SemInv /\ [Next]_vars => PermitsInv'
<1> SUFFICES ASSUME TypeOK, CallsInv, PermitsInv, [Next]_vars PROVE PermitsInv'
  BY DEF SemInv
<1>0. count \in Nat /\ MaxPermits \in Nat
  BY SemaphoreAssumption DEF TypeOK
<1>1. CASE SemInit
  <2>1. Posting' = {}
    BY <1>1 DEF SemInit, CallsInv, Posting
  <2>2. count' \in 0..MaxPermits
    BY <1>1 DEF SemInit
  <2> QED
    BY <1>0, <2>1, <2>2, FS_EmptySet DEF PermitsInv
<1>2. CASE SemDestroy \/ UNCHANGED vars
  BY <1>2 DEF SemDestroy, vars, Posting, PermitsInv
<1>3. ASSUME NEW t \in Threads, NEW o \in {"wait", "try", "post"}, Call(t, o)
      PROVE  PermitsInv'
  <2>1. CASE o = "post"
    <3>1. t \notin Posting /\ Posting' = Posting \cup {t}
      BY <1>3, <2>1 DEF Call, TypeOK, Posting
    <3>2. count + Cardinality(Posting) < MaxPermits /\ count' = count
      BY <1>3, <2>1 DEF Call
    <3>3. Cardinality(Posting') = Cardinality(Posting) + 1
      BY <3>1, FiniteCounts, OneMore
    <3> QED
      BY <1>0, <3>2, <3>3, FiniteCounts DEF PermitsInv
  <2>2. CASE o # "post"
    <3>1. Posting' = Posting /\ count' = count
      BY <1>3, <2>2 DEF Call, TypeOK, Posting
    <3> QED
      BY <3>1 DEF PermitsInv
  <2> QED
    BY <2>1, <2>2
<1>4. ASSUME NEW t \in Threads, Lock(t) \/ Unlock(t) \/ SpuriousWakeup(t) \/ Wait(t) \/ TryWait(t)
      PROVE  PermitsInv'
  <2>1. Posting' = Posting
    BY <1>4 DEF Lock, Unlock, SpuriousWakeup, Wait, TryWait, TypeOK, CallsInv, Posting
  <2>2. count' \in Nat /\ count' <= count
    BY <1>0, <1>4 DEF Lock, Unlock, SpuriousWakeup, Wait, TryWait
  <2> QED
    BY <1>0, <2>1, <2>2, FiniteCounts DEF PermitsInv
<1>5. ASSUME NEW t \in Threads, Post(t) PROVE PermitsInv'
  <2>1. t \in Posting /\ Posting' = Posting \ {t}
    BY <1>5 DEF Post, Sleepers, TypeOK, CallsInv, Posting
  <2>2. Cardinality(Posting') = Cardinality(Posting) - 1
    BY <2>1, FiniteCounts, OneFewer
  <2>3. count' = count + 1
    BY <1>5 DEF Post
  <2> QED
    BY <1>0, <2>2, <2>3, FiniteCounts DEF PermitsInv
<1> QED
  BY <1>1, <1>2, <1>3, <1>4, <1>5 DEF Next, Step

\* The heart of the proof, step by step: a post that adds a permit beside a
\* sleeper wakes one, and a waiter that leaves the awake ones takes a permit
\* with it or has found none.
LEMMA WakeupStep == SemInv /\ [Next]_vars => NoLostWakeup'
<1> SUFFICES ASSUME TypeOK, CallsInv, NoLostWakeup, [Next]_vars PROVE NoLostWakeup'
  BY DEF SemInv
<1>0. count \in Nat
  BY DEF TypeOK
<1>1. CASE SemInit
  BY <1>1 DEF SemInit, CallsInv, NoLostWakeup, Sleepers
<1>2. CASE SemDestroy \/ UNCHANGED vars
  BY <1>2 DEF SemDestroy, vars, NoLostWakeup, Sleepers, Awake
<1>3. ASSUME NEW t \in Threads, NEW o \in {"wait", "try", "post"}, Call(t, o)
      PROVE  NoLostWakeup'
  <2>1. Sleepers' = Sleepers /\ Awake \subseteq Awake' /\ count' = count
    BY <1>3 DEF Call, TypeOK, Sleepers, Awake
  <2>2. Cardinality(Awake) <= Cardinality(Awake')
    BY <2>1, FiniteCounts, FS_Subset
  <2> QED
    BY <1>0, <2>1, <2>2, FiniteCounts DEF NoLostWakeup
<1>4. ASSUME NEW t \in Threads, Lock(t) \/ Unlock(t) PROVE NoLostWakeup'
  <2>1. Sleepers' = Sleepers /\ Awake' = Awake /\ count' = count
    BY <1>4 DEF Lock, Unlock, TypeOK, Sleepers, Awake
  <2> QED
    BY <2>1 DEF NoLostWakeup
<1>5. ASSUME NEW t \in Threads, SpuriousWakeup(t) PROVE NoLostWakeup'
  <2>1. Sleepers' \subseteq Sleepers /\ Awake \subseteq Awake' /\ count' = count
    BY <1>5 DEF SpuriousWakeup, TypeOK, Sleepers, Awake
  <2>2. Cardinality(Awake) <= Cardinality(Awake')
    BY <2>1, FiniteCounts, FS_Subset
  <2> QED
    BY <1>0, <2>1, <2>2, FiniteCounts DEF NoLostWakeup
<1>6. ASSUME NEW t \in Threads, Wait(t), count = 0 PROVE NoLostWakeup'
  BY <1>6, FiniteCounts DEF Wait, NoLostWakeup
<1>7. ASSUME NEW t \in Threads, Wait(t), count # 0 PROVE NoLostWakeup'
  <2>1. t \in Awake /\ Awake' = Awake \ {t} /\ Sleepers' = Sleepers
    BY <1>7 DEF Wait, TypeOK, Sleepers, Awake
  <2>2. Cardinality(Awake') = Cardinality(Awake) - 1
    BY <2>1, FiniteCounts, OneFewer
  <2>3. count' = count - 1
    BY <1>7 DEF Wait
  <2> QED
    BY <1>0, <2>1, <2>2, <2>3, FiniteCounts DEF NoLostWakeup
<1>8. ASSUME NEW t \in Threads, TryWait(t) PROVE NoLostWakeup'
  <2>1. Awake' = Awake /\ Sleepers' = Sleepers
    BY <1>8 DEF TryWait, TypeOK, Sleepers, Awake
  <2>2. count' \in Nat /\ count' <= count
    BY <1>0, <1>8 DEF TryWait
  <2> QED
    BY <1>0, <2>1, <2>2, FiniteCounts DEF NoLostWakeup
<1>9. ASSUME NEW t \in Threads, Post(t) PROVE NoLostWakeup'
  <2>1. CASE Sleepers = {}
    BY <1>9, <2>1 DEF Post, TypeOK, NoLostWakeup, Sleepers
  <2>2. CASE Sleepers # {}
    <3>1. PICK s \in Sleepers : pc' = [pc EXCEPT ![t] = "posted", ![s] = "lock"]
      BY <1>9, <2>2 DEF Post
    <3>2. s \notin Awake /\ Awake' = Awake \cup {s}
      BY <1>9, <3>1 DEF Post, TypeOK, CallsInv, Sleepers, Awake
    <3>3. Cardinality(Awake') = Cardinality(Awake) + 1
      BY <3>2, FiniteCounts, OneMore
    <3>4. count' = count + 1
      BY <1>9 DEF Post
    <3> QED
      BY <1>0, <2>2, <3>3, <3>4, FiniteCounts DEF NoLostWakeup
  <2> QED
    BY <2>1, <2>2
<1> QED
  BY <1>1, <1>2, <1>3, <1>4, <1>5, <1>6, <1>7, <1>8, <1>9 DEF Next, Step

-----------------------------------------------------------------------------
\* The inductive invariant holds in every reachable state of the semaphore.
THEOREM SemInvariance == Spec => []SemInv
<1>1. Init => SemInv
  <2> SUFFICES ASSUME Init PROVE SemInv
    OBVIOUS
  <2>1. live \in BOOLEAN
    BY Zenon DEF Init
  <2>2. TypeOK
    BY <2>1 DEF Init, TypeOK
  <2>3. Posting = {} /\ Sleepers = {}
    BY DEF Init, Posting, Sleepers
  <2>4. PermitsInv
    BY <2>3, FS_EmptySet, SemaphoreAssumption DEF Init, PermitsInv
  <2> QED
    BY <2>2, <2>3, <2>4 DEF Init, SemInv, CallsInv, NoLostWakeup
<1>2. SemInv /\ [Next]_vars => SemInv'
  BY TypeStep, CallsStep, PermitsStep, WakeupStep DEF SemInv
<1> QED
  BY <1>1, <1>2, PTL DEF Spec

\* The counter of semaphore.c stays a count and every thread stays in one of
\* the places of its call.
THEOREM SemaphoreTypes == Spec => []TypeOK
<1>1. SemInv => TypeOK
  BY DEF SemInv
<1> QED
  BY SemInvariance, <1>1, PTL

\* No wake-up is lost: pthread_cond_signal for each post is enough, whatever
\* the number of threads and whoever takes the mutex first.
THEOREM NoWakeupIsLost == Spec => []NoLostWakeup
<1>1. SemInv => NoLostWakeup
  BY DEF SemInv
<1> QED
  BY SemInvariance, <1>1, PTL

-----------------------------------------------------------------------------
\* Where the atomic semaphore sees a thread.
St == [t \in Threads |-> IF pc[t] \in {"lock", "test", "sleep"} THEN op[t] ELSE pc[t]]

\* A step on the way to the counter is invisible: taking the mutex, going to
\* sleep, and waking up.
LEMMA InvisibleStep ==
    ASSUME TypeOK, NEW t \in Threads,
           Lock(t) \/ SpuriousWakeup(t) \/ (Wait(t) /\ count = 0)
    PROVE  UNCHANGED Atomic!vars
<1>1. St' = St
  BY DEF Lock, SpuriousWakeup, Wait, TypeOK, St
<1>2. live' = live /\ count' = count
  BY DEF Lock, SpuriousWakeup, Wait
<1> QED
  BY <1>1, <1>2 DEF Atomic!vars, St

\* Each other step is the atomic operation of the same name.
LEMMA AtomicStep == SemInv /\ [Next]_vars => [Atomic!Next]_Atomic!vars
<1> SUFFICES ASSUME TypeOK, CallsInv, PermitsInv, [Next]_vars
             PROVE  Atomic!Next \/ UNCHANGED Atomic!vars
  BY DEF SemInv
<1>0. count \in Nat /\ MaxPermits \in Nat
  BY SemaphoreAssumption DEF TypeOK
<1>1. CASE SemInit
  <2>1. Atomic!Create
    BY <1>1 DEF SemInit, Atomic!Create
  <2> QED
    BY <2>1 DEF Atomic!Next
<1>2. CASE SemDestroy
  <2>1. Atomic!Destroy
    BY <1>2 DEF SemDestroy, Atomic!Destroy
  <2> QED
    BY <2>1 DEF Atomic!Next
<1>3. ASSUME NEW t \in Threads, NEW o \in {"wait", "try", "post"}, Call(t, o)
      PROVE  Atomic!Next
  <2>1. St[t] = "idle" /\ St' = [St EXCEPT ![t] = o]
    BY <1>3, Zenon DEF Call, TypeOK, St
  <2>2. Atomic!Call(t, o)
    BY <1>3, <2>1 DEF Call, Atomic!Call, St
  <2> QED
    BY <2>2 DEF Atomic!Next
<1>4. ASSUME NEW t \in Threads, Lock(t) \/ SpuriousWakeup(t) \/ (Wait(t) /\ count = 0)
      PROVE  UNCHANGED Atomic!vars
  BY <1>4, InvisibleStep
<1>5. ASSUME NEW t \in Threads, Wait(t), count # 0 PROVE Atomic!Next
  <2>1. St[t] = "wait" /\ St' = [St EXCEPT ![t] = "granted"]
    BY <1>5 DEF Wait, TypeOK, St
  <2>2. Atomic!Wait(t)
    BY <1>0, <1>5, <2>1 DEF Wait, Atomic!Wait, St
  <2> QED
    BY <2>2 DEF Atomic!Next
<1>6. ASSUME NEW t \in Threads, TryWait(t) PROVE Atomic!Next
  <2>1. /\ St[t] = "try"
        /\ count > 0 => St' = [St EXCEPT ![t] = "granted"]
        /\ ~(count > 0) => St' = [St EXCEPT ![t] = "refused"]
    BY <1>6, Zenon DEF TryWait, TypeOK, St
  <2>2. Atomic!TryWait(t)
    BY <1>6, <2>1, Zenon DEF TryWait, Atomic!TryWait, St
  <2> QED
    BY <2>2 DEF Atomic!Next
<1>7. ASSUME NEW t \in Threads, Post(t) PROVE Atomic!Next
  <2>1. St[t] = "post" /\ St' = [St EXCEPT ![t] = "posted"]
    BY <1>7, Zenon DEF Post, Sleepers, TypeOK, CallsInv, St
  <2>2. count < MaxPermits
    <3>1. t \in Posting
      BY <1>7, Zenon DEF Post, Posting
    <3>2. Cardinality(Posting) # 0
      BY <3>1, FiniteCounts, FS_EmptySet
    <3> QED
      BY <1>0, <3>2, FiniteCounts DEF PermitsInv
  <2>3. Atomic!Post(t)
    BY <1>7, <2>1, <2>2, Zenon DEF Post, Atomic!Post, St
  <2> QED
    BY <2>3 DEF Atomic!Next
<1>8. ASSUME NEW t \in Threads, Unlock(t) PROVE Atomic!Next
  <2>1. St[t] \in {"granted", "refused", "posted"} /\ St' = [St EXCEPT ![t] = "idle"]
    BY <1>8, Zenon DEF Unlock, TypeOK, St
  <2>2. Atomic!Return(t)
    BY <1>8, <2>1 DEF Unlock, Atomic!Return, St
  <2> QED
    BY <2>2 DEF Atomic!Next
<1>9. CASE UNCHANGED vars
  BY <1>9 DEF vars, Atomic!vars
<1> QED
  BY <1>1, <1>2, <1>3, <1>4, <1>5, <1>6, <1>7, <1>8, <1>9 DEF Next, Step

\* semaphore.c implements the atomic semaphore: between its call and its return
\* every wait, trywait and post takes effect on the counter in one step, so no
\* permit is lost, invented, or refused while there is one.
THEOREM MutexAndConditionImplementSemaphore == Spec => ImplementsAtomic
<1>1. Init => Atomic!Init
  BY DEF Init, Atomic!Init
<1>2. SemInv /\ [Next]_vars => [Atomic!Next]_Atomic!vars
  BY AtomicStep
<1> QED
  BY <1>1, <1>2, SemInvariance, PTL DEF Spec, ImplementsAtomic, Atomic!Spec

-----------------------------------------------------------------------------
(* Named semaphores *)

NamedTypes ==
    /\ platform \in {"posix", "win32"}
    /\ bound \in [Names -> 0..MaxObjects]
    /\ value \in [Objects -> Nat]
    /\ permits \in [Objects -> Int]
    /\ handle \in [Processes -> [object : 0..MaxObjects, key : SemKeys \cup {<<>>},
                                 linked : BOOLEAN]]
    /\ call \in [Processes -> {"none", "waiting", "granted", "interrupted"}]

\* A process that is in a call has a handle, and a handle comes from a key whose
\* name was accepted.
HandlesInv ==
    \A p \in Processes :
        /\ call[p] # "none" => handle[p].object # 0
        /\ handle[p].object # 0 => handle[p].key \in SemKeys /\ Name(handle[p].key).ok

\* A name in use is the one made from the key of those who hold its object, no
\* object has two, and the key of a handle that was not unlinked leads to its
\* object.
NamesInv ==
    /\ \A n, m \in Names : bound[n] # 0 /\ bound[n] = bound[m] => n = m
    /\ \A p \in Processes : handle[p].object # 0 =>
        /\ \A n \in Names : bound[n] = handle[p].object => n = Name(handle[p].key).name
        /\ handle[p].linked => bound[Name(handle[p].key).name] = handle[p].object

\* The inductive invariant.
NamedInv == NamedTypes /\ HandlesInv /\ NamesInv /\ PermitsConserved /\ SameKeySameSemaphore

-----------------------------------------------------------------------------
(* Names *)

\* The name of a key is one of the names.
LEMMA NameIsName ==
    ASSUME NEW k \in SemKeys
    PROVE  Name(k).name \in Names
BY DEF Name, Names

\* A key that fits is printed whole, behind a slash.
LEMMA PrintedWhole ==
    ASSUME NEW k \in SemKeys, Len(k) + 1 < NameSize
    PROVE  /\ Len(k) \in Nat /\ DOMAIN k = 1..Len(k)
           /\ k = [i \in 1..Len(k) |-> k[i]]
           /\ Len(Printed(k)) = Len(k) + 1
           /\ \A i \in 1..Len(k) : Printed(k)[i + 1] = k[i]
<1> DEFINE S == {k[i] : i \in DOMAIN k} \cup {"/"}
           s == <<"/">> \o k
<1>1. k \in Seq(S) /\ <<"/">> \in Seq(S)
  <2>1. k \in Seq({k[i] : i \in DOMAIN k})
    BY NamedSemaphoreAssumption
  <2>2. k \in Seq(S)
    BY <2>1, SeqMonotonic
  <2> QED
    BY <2>2
<1> HIDE DEF S
<1>2. Len(k) \in Nat /\ DOMAIN k = 1..Len(k) /\ k = [i \in 1..Len(k) |-> k[i]]
  BY <1>1
<1>3. /\ s \in Seq(S) /\ Len(s) = Len(k) + 1
      /\ \A i \in 1..Len(k) : s[i + 1] = k[i]
  BY <1>1, <1>2, ConcatProperties
<1> HIDE DEF s
<1>4. Printed(k) = SubSeq(s, 1, Len(k) + 1)
  BY DEF Printed, s
<1>5. Len(Printed(k)) = Len(k) + 1 /\ \A j \in 1..(Len(k) + 1) : Printed(k)[j] = s[j]
  BY <1>2, <1>3, <1>4
<1> QED
  BY <1>2, <1>3, <1>5

\* Keys that are accepted do not share a name.
LEMMA NamesApart ==
    ASSUME NEW k \in SemKeys, NEW l \in SemKeys, platform \in {"posix", "win32"},
           Name(k).ok, Name(l).ok, Name(k).name = Name(l).name
    PROVE  k = l
<1>1. CASE platform = "win32"
  BY <1>1 DEF Name
<1>2. CASE platform = "posix"
  <2>1. Len(k) + 1 < NameSize /\ Len(l) + 1 < NameSize /\ Printed(k) = Printed(l)
    BY <1>2, Zenon DEF Name
  <2>2. Len(k) = Len(l) /\ Len(k) \in Nat
    BY <2>1, PrintedWhole
  <2>3. \A i \in 1..Len(k) : k[i] = l[i]
    BY <2>1, <2>2, PrintedWhole
  <2>4. k = [i \in 1..Len(k) |-> k[i]] /\ l = [i \in 1..Len(k) |-> l[i]]
    BY <2>1, <2>2, PrintedWhole
  <2> QED
    BY <2>3, <2>4
<1> QED
  BY <1>1, <1>2

-----------------------------------------------------------------------------
(* Types and handles *)

\* The calls that leave every name and every handle as it is.
Counting(p) ==
    \/ NamedWait(p) \/ WaitGranted(p) \/ WaitInterrupted(p) \/ WaitLoop(p)
    \/ NamedTrywait(p) \/ NamedPost(p)

\* They open, close and unlink nothing.
LEMMA CountingKeeps ==
    ASSUME NEW p \in Processes, Counting(p)
    PROVE  UNCHANGED <<platform, bound, handle>>
BY DEF Counting, NamedWait, WaitGranted, WaitInterrupted, WaitLoop, NamedTrywait, NamedPost

\* Every step keeps the types.
LEMMA TypesStep == NamedTypes /\ HandlesInv /\ [NamedNext]_namedVars => NamedTypes'
<1> SUFFICES ASSUME NamedTypes, HandlesInv, [NamedNext]_namedVars
             PROVE  NamedTypes'
  OBVIOUS
<1> USE DEF NamedTypes
<1>1. ASSUME NEW p \in Processes, NEW k \in SemKeys, NEW n \in 0..MaxValue, NamedOpen(p, k, n)
      PROVE  NamedTypes'
  <2>1. Name(k).name \in Names
    BY NameIsName
  <2>2. \A o \in 0..MaxObjects : Attach(p, k, o) =>
            handle' \in [Processes -> [object : 0..MaxObjects, key : SemKeys \cup {<<>>},
                                       linked : BOOLEAN]]
    BY DEF Attach
  <2>3. CASE bound[Name(k).name] # 0
    BY <1>1, <2>1, <2>2, <2>3 DEF NamedOpen
  <2>4. CASE bound[Name(k).name] = 0
    <3>1. PICK o \in Objects :
              /\ bound' = [bound EXCEPT ![Name(k).name] = o]
              /\ value' = [value EXCEPT ![o] = n]
              /\ permits' = [permits EXCEPT ![o] = n]
              /\ Attach(p, k, o)
      BY <1>1, <2>4 DEF NamedOpen, Unused
    <3>2. o \in 0..MaxObjects /\ n \in Nat /\ n \in Int
      BY NamedSemaphoreAssumption DEF Objects
    <3> QED
      BY <1>1, <2>1, <2>2, <3>1, <3>2, Zenon DEF NamedOpen
  <2> QED
    BY <2>3, <2>4
<1>2. ASSUME NEW p \in Processes, NamedClose(p) \/ ProcessDies(p)
      PROVE  NamedTypes'
  <2>1. handle' = [handle EXCEPT ![p] = NoHandle] /\ platform' = platform
    BY <1>2 DEF NamedClose, ProcessDies, Detach
  <2>2. handle' \in [Processes -> [object : 0..MaxObjects, key : SemKeys \cup {<<>>},
                                   linked : BOOLEAN]]
    <3>1. NoHandle \in [object : 0..MaxObjects, key : SemKeys \cup {<<>>}, linked : BOOLEAN]
      BY NamedSemaphoreAssumption DEF NoHandle
    <3> QED
      BY <2>1, <3>1
  <2>3. bound' \in [Names -> 0..MaxObjects]
    <3>1. Detach(p)
      BY <1>2 DEF NamedClose, ProcessDies
    <3>2. 0 \in 0..MaxObjects
      BY NamedSemaphoreAssumption
    <3> QED
      BY <3>1, <3>2 DEF Detach
  <2>4. value' \in [Objects -> Nat]
    BY <1>2 DEF NamedClose, ProcessDies, Reclaimed
  <2>5. Passed(p) \in [Objects -> Int]
    <3>1. handle[p].object # 0
      BY <1>2 DEF NamedClose, ProcessDies
    <3>2. handle[p].object \in Objects
      BY <3>1, NamedSemaphoreAssumption DEF Objects
    <3> QED
      BY <3>2 DEF Passed
  <2>6. permits' \in [Objects -> Int]
    BY <1>2, <2>5 DEF NamedClose, ProcessDies, Reclaimed
  <2>7. call' \in [Processes -> {"none", "waiting", "granted", "interrupted"}]
    BY <1>2, Zenon DEF NamedClose, ProcessDies
  <2> QED
    BY <2>1, <2>2, <2>3, <2>4, <2>6, <2>7
<1>3. ASSUME NEW p \in Processes, Counting(p)
      PROVE  NamedTypes'
  <2>1. UNCHANGED <<platform, bound, handle>>
    BY <1>3, CountingKeeps
  <2>2. call' \in [Processes -> {"none", "waiting", "granted", "interrupted"}]
    BY <1>3, Zenon DEF Counting, NamedWait, WaitGranted, WaitInterrupted, WaitLoop, NamedTrywait,
                NamedPost
  <2>3. handle[p].object # 0 => handle[p].object \in Objects
    BY NamedSemaphoreAssumption DEF Objects
  <2>4. handle[p].object # 0
    BY <1>3, Zenon DEF Counting, NamedWait, WaitGranted, WaitInterrupted, WaitLoop, NamedTrywait,
                NamedPost, HandlesInv
  <2>5. value' \in [Objects -> Nat]
    BY <1>3, <2>3, <2>4 DEF Counting, NamedWait, WaitGranted, WaitInterrupted, WaitLoop,
                            NamedTrywait, NamedPost, Take
  <2>6. permits' \in [Objects -> Int]
    BY <1>3, <2>3, <2>4 DEF Counting, NamedWait, WaitGranted, WaitInterrupted, WaitLoop,
                            NamedTrywait, NamedPost, Passed
  <2> QED
    BY <2>1, <2>2, <2>5, <2>6
<1>4. ASSUME NEW k \in SemKeys, NamedUnlink(k)
      PROVE  NamedTypes'
  <2>1. Name(k).name \in Names
    BY NameIsName
  <2>2. handle' \in [Processes -> [object : 0..MaxObjects, key : SemKeys \cup {<<>>},
                                   linked : BOOLEAN]]
    <3>1. ASSUME NEW p \in Processes
          PROVE  [handle[p] EXCEPT !.linked = @ /\ handle[p].key # k] \in
                     [object : 0..MaxObjects, key : SemKeys \cup {<<>>}, linked : BOOLEAN]
      <4>1. (handle[p].linked /\ handle[p].key # k) \in BOOLEAN
        BY Zenon
      <4> QED
        BY <4>1, Zenon
    <3> QED
      BY <1>4, <3>1 DEF NamedUnlink
  <2> QED
    BY <1>4, <2>1, <2>2, NamedSemaphoreAssumption DEF NamedUnlink, Reclaimed
<1>5. CASE UNCHANGED namedVars
  BY <1>5 DEF namedVars
<1> QED
  BY <1>1, <1>2, <1>3, <1>4, <1>5, Zenon DEF NamedNext, Counting

\* Every step leaves the callers with handles, and the handles with accepted keys.
LEMMA HandlesStep == NamedTypes /\ HandlesInv /\ [NamedNext]_namedVars => HandlesInv'
<1> SUFFICES ASSUME NamedTypes, HandlesInv, [NamedNext]_namedVars
             PROVE  HandlesInv'
  BY Zenon
<1> USE DEF NamedTypes, HandlesInv
<1>1. ASSUME NEW p \in Processes, NEW k \in SemKeys, NEW n \in 0..MaxValue, NamedOpen(p, k, n)
      PROVE  HandlesInv'
  <2>1. PICK o : Attach(p, k, o)
    BY <1>1, Zenon DEF NamedOpen
  <2>2. call[p] = "none" /\ call' = call /\ platform' = platform /\ Name(k).ok
    BY <1>1, Zenon DEF NamedOpen
  <2> QED
    BY <2>1, <2>2, Zenon DEF Attach, Name
<1>2. ASSUME NEW p \in Processes, NamedClose(p) \/ ProcessDies(p)
      PROVE  HandlesInv'
  <2>1. handle' = [handle EXCEPT ![p] = NoHandle] /\ platform' = platform
    BY <1>2, Zenon DEF NamedClose, ProcessDies, Detach
  <2>2. (call' = call /\ call[p] = "none") \/ call' = [call EXCEPT ![p] = "none"]
    BY <1>2 DEF NamedClose, ProcessDies
  <2> QED
    BY <2>1, <2>2, Zenon DEF NoHandle, Name
<1>3. ASSUME NEW p \in Processes, Counting(p)
      PROVE  HandlesInv'
  BY <1>3, Zenon DEF Counting, NamedWait, WaitGranted, WaitInterrupted, WaitLoop, NamedTrywait,
              NamedPost, Name
<1>4. ASSUME NEW k \in SemKeys, NamedUnlink(k)
      PROVE  HandlesInv'
  BY <1>4 DEF NamedUnlink, Name
<1>5. CASE UNCHANGED namedVars
  BY <1>5 DEF namedVars, Name
<1> QED
  BY <1>1, <1>2, <1>3, <1>4, <1>5, Zenon DEF NamedNext, Counting

-----------------------------------------------------------------------------
(* Names and objects *)

\* Opening a key: either its name is bound and p gets that object, or p gets an
\* object that no name and no handle refers to, and the name is bound to it.
LEMMA Opened ==
    ASSUME NamedTypes, NEW p \in Processes, NEW k \in SemKeys, NEW n \in 0..MaxValue,
           NamedOpen(p, k, n)
    PROVE  \E o \in Objects :
              /\ handle' = [handle EXCEPT ![p] = [object |-> o, key |-> k, linked |-> TRUE]]
              /\ \/ bound[Name(k).name] = o /\ UNCHANGED <<bound, value, permits>>
                 \/ /\ bound[Name(k).name] = 0 /\ o \in Unused(bound, handle)
                    /\ bound' = [bound EXCEPT ![Name(k).name] = o]
                    /\ value' = [value EXCEPT ![o] = n]
                    /\ permits' = [permits EXCEPT ![o] = n]
<1>1. Name(k).name \in Names
  BY NameIsName
<1>2. CASE bound[Name(k).name] # 0
  <2>1. bound[Name(k).name] \in Objects
    BY <1>1, <1>2, NamedSemaphoreAssumption DEF NamedTypes, Objects
  <2> QED
    BY <1>2, <2>1, Zenon DEF NamedOpen, Attach
<1>3. CASE bound[Name(k).name] = 0
  <2>1. PICK o \in Unused(bound, handle) :
            /\ bound' = [bound EXCEPT ![Name(k).name] = o]
            /\ value' = [value EXCEPT ![o] = n]
            /\ permits' = [permits EXCEPT ![o] = n]
            /\ Attach(p, k, o)
    BY <1>3, Zenon DEF NamedOpen
  <2>2. o \in Objects
    BY DEF Unused
  <2> QED
    BY <1>3, <2>1, <2>2, Zenon DEF Attach
<1> QED
  BY <1>2, <1>3, Zenon

\* Every step keeps the relation between names, keys and objects.
LEMMA NamesStep ==
    NamedTypes /\ HandlesInv /\ NamesInv /\ [NamedNext]_namedVars => NamesInv'
<1> SUFFICES ASSUME NamedTypes, HandlesInv, NamesInv, [NamedNext]_namedVars
             PROVE  NamesInv'
  OBVIOUS
<1> USE DEF NamesInv
<1>0. 0 \notin Objects
  BY DEF Objects
<1>1. ASSUME NEW p \in Processes, NEW k \in SemKeys, NEW n \in 0..MaxValue, NamedOpen(p, k, n)
      PROVE  NamesInv'
  <2>1. /\ handle[p].object = 0 /\ Name(k).ok /\ Name(k).name \in Names
        /\ \A l : Name(l)' = Name(l)
    BY <1>1, NameIsName, Zenon DEF NamedOpen, Name
  <2>2. PICK o \in Objects :
            /\ handle' = [handle EXCEPT ![p] = [object |-> o, key |-> k, linked |-> TRUE]]
            /\ \/ bound[Name(k).name] = o /\ UNCHANGED <<bound, value, permits>>
               \/ /\ bound[Name(k).name] = 0 /\ o \in Unused(bound, handle)
                  /\ bound' = [bound EXCEPT ![Name(k).name] = o]
    BY <1>1, Opened
  <2>3. CASE bound[Name(k).name] = o /\ UNCHANGED bound
    BY <1>0, <2>1, <2>2, <2>3, Zenon DEF NamedTypes
  <2>4. CASE /\ bound[Name(k).name] = 0 /\ o \in Unused(bound, handle)
             /\ bound' = [bound EXCEPT ![Name(k).name] = o]
    <3>1. /\ \A m \in Names : bound[m] # o
          /\ \A q \in Processes : handle[q].object # o
      BY <2>4, Zenon DEF Unused
    <3>2. \A m, l \in Names : bound'[m] # 0 /\ bound'[m] = bound'[l] => m = l
      BY <2>4, <3>1, Zenon DEF NamedTypes
    <3>3. ASSUME NEW q \in Processes, handle'[q].object # 0
          PROVE  /\ \A m \in Names : bound'[m] = handle'[q].object
                                         => m = Name(handle'[q].key).name
                 /\ handle'[q].linked => bound'[Name(handle'[q].key).name] = handle'[q].object
      <4>1. CASE q = p
        BY <2>1, <2>2, <2>4, <3>1, <4>1, Zenon DEF NamedTypes
      <4>2. CASE q # p
        <5>1. handle'[q] = handle[q] /\ handle[q].object # 0
          BY <2>2, <3>3, <4>2, Zenon DEF NamedTypes
        <5>2. Name(handle[q].key).name \in Names
          BY <5>1, NameIsName, Zenon DEF HandlesInv
        <5> QED
          BY <2>1, <2>4, <3>1, <5>1, <5>2 DEF NamedTypes
      <4> QED
        BY <4>1, <4>2, Zenon
    <3> QED
      BY <2>1, <3>2, <3>3, Zenon
  <2> QED
    BY <2>2, <2>3, <2>4, Zenon
<1>2. ASSUME NEW p \in Processes, NamedClose(p) \/ ProcessDies(p)
      PROVE  NamesInv'
  <2>1. Detach(p) /\ \A l : Name(l)' = Name(l)
    BY <1>2, Zenon DEF NamedClose, ProcessDies, Name
  <2>2. /\ \A q \in Processes : handle'[q] = IF q = p THEN NoHandle ELSE handle[q]
        /\ \A m \in Names : bound'[m] \in {0, bound[m]}
        /\ \A m \in Names, q \in Processes :
              q # p /\ bound[m] = handle[q].object => bound'[m] = bound[m]
    BY <2>1, Zenon DEF Detach, NamedTypes
  <2>3. ASSUME NEW q \in Processes, handle'[q].object # 0
        PROVE  /\ \A m \in Names : bound'[m] = handle'[q].object
                                       => m = Name(handle'[q].key).name
               /\ handle'[q].linked => bound'[Name(handle'[q].key).name] = handle'[q].object
    <3>1. q # p /\ handle'[q] = handle[q]
      BY <2>2, <2>3 DEF NoHandle
    <3>2. Name(handle[q].key).name \in Names
      BY <2>3, <3>1, NameIsName, Zenon DEF HandlesInv
    <3> QED
      BY <2>2, <2>3, <3>1, <3>2
  <2> QED
    BY <2>1, <2>2, <2>3
<1>3. ASSUME NEW p \in Processes, Counting(p)
      PROVE  NamesInv'
  BY <1>3, CountingKeeps DEF Name
<1>4. ASSUME NEW k \in SemKeys, NamedUnlink(k)
      PROVE  NamesInv'
  <2>1. /\ Name(k).ok /\ Name(k).name \in Names /\ \A l : Name(l)' = Name(l)
        /\ bound' = [bound EXCEPT ![Name(k).name] = 0]
    BY <1>4, NameIsName DEF NamedUnlink, Name
  <2>2. \A q \in Processes : /\ handle'[q].object = handle[q].object
                             /\ handle'[q].key = handle[q].key
                             /\ handle'[q].linked => handle[q].linked /\ handle[q].key # k
    <3> SUFFICES ASSUME NEW q \in Processes
                 PROVE  /\ handle'[q].object = handle[q].object
                        /\ handle'[q].key = handle[q].key
                        /\ handle'[q].linked => handle[q].linked /\ handle[q].key # k
      OBVIOUS
    <3>1. handle[q] \in [object : 0..MaxObjects, key : SemKeys \cup {<<>>}, linked : BOOLEAN]
      BY DEF NamedTypes
    <3>2. PICK b \in BOOLEAN : b = (handle[q].linked /\ handle[q].key # k)
      BY Zenon
    <3>3. handle'[q] = [handle[q] EXCEPT !.linked = b]
      BY <1>4, <3>2 DEF NamedUnlink
    <3> QED
      BY <3>1, <3>2, <3>3, Zenon
  <2>3. ASSUME NEW q \in Processes, handle'[q].object # 0
        PROVE  /\ \A m \in Names : bound'[m] = handle'[q].object
                                       => m = Name(handle'[q].key).name
               /\ handle'[q].linked => bound'[Name(handle'[q].key).name] = handle'[q].object
    <3>1. handle[q].key \in SemKeys /\ Name(handle[q].key).ok
      BY <2>2, <2>3, Zenon DEF HandlesInv
    <3>2. handle'[q].linked => Name(handle[q].key).name # Name(k).name
      BY <2>1, <2>2, <3>1, NamesApart, Zenon DEF NamedTypes
    <3>3. Name(handle[q].key).name \in Names
      BY <3>1, NameIsName, Zenon
    <3> QED
      BY <2>1, <2>2, <2>3, <3>2, <3>3 DEF NamedTypes
  <2> QED
    BY <2>1, <2>3, Zenon DEF NamedTypes
<1>5. CASE UNCHANGED namedVars
  BY <1>5, Zenon DEF namedVars, Name
<1> QED
  BY <1>1, <1>2, <1>3, <1>4, <1>5, Zenon DEF NamedNext, Counting

\* Every step keeps one semaphore for one key.
LEMMA SameKeyStep ==
    /\ NamedTypes /\ HandlesInv /\ NamesInv /\ SameKeySameSemaphore /\ NamesInv' /\ HandlesInv'
    /\ [NamedNext]_namedVars
    => SameKeySameSemaphore'
<1> SUFFICES ASSUME NamedTypes, HandlesInv, NamesInv, SameKeySameSemaphore, NamesInv',
                    HandlesInv', [NamedNext]_namedVars,
                    NEW p \in Processes, NEW q \in Processes,
                    handle'[p].object # 0, handle'[q].object # 0
             PROVE  /\ handle'[p].object = handle'[q].object => handle'[p].key = handle'[q].key
                    /\ handle'[p].key = handle'[q].key /\ handle'[p].linked /\ handle'[q].linked
                           => handle'[p].object = handle'[q].object
  BY Zenon DEF SameKeySameSemaphore
<1>1. handle'[p].key = handle'[q].key /\ handle'[p].linked /\ handle'[q].linked
          => handle'[p].object = handle'[q].object
  BY DEF NamesInv
<1>2. ASSUME NEW r \in Processes, NEW k \in SemKeys, NEW n \in 0..MaxValue, NamedOpen(r, k, n),
             handle'[p].object = handle'[q].object
      PROVE  handle'[p].key = handle'[q].key
  <2>1. PICK o \in Objects :
            /\ handle' = [handle EXCEPT ![r] = [object |-> o, key |-> k, linked |-> TRUE]]
            /\ bound[Name(k).name] = o \/ o \in Unused(bound, handle)
    BY <1>2, Opened
  <2>2. Name(k).ok /\ Name(k).name \in Names /\ o # 0
    BY <1>2, NameIsName DEF NamedOpen, Objects
  <2>3. ASSUME NEW s \in Processes, handle[s].object = o
        PROVE  handle[s].key = k
    <3>1. bound[Name(k).name] = o
      BY <2>1, <2>3, Zenon DEF Unused
    <3>2. /\ handle[s].key \in SemKeys /\ Name(handle[s].key).ok
          /\ Name(handle[s].key).name = Name(k).name
      BY <2>2, <2>3, <3>1 DEF HandlesInv, NamesInv
    <3> QED
      BY <2>2, <3>2, NamesApart, Zenon DEF NamedTypes
  <2> QED
    BY <1>2, <2>1, <2>3, Zenon DEF NamedTypes, SameKeySameSemaphore
<1>3. ASSUME NEW r \in Processes, NamedClose(r) \/ ProcessDies(r),
             handle'[p].object = handle'[q].object
      PROVE  handle'[p].key = handle'[q].key
  <2>1. handle' = [handle EXCEPT ![r] = NoHandle]
    BY <1>3, Zenon DEF NamedClose, ProcessDies, Detach
  <2> QED
    BY <1>3, <2>1, Zenon DEF NamedTypes, NoHandle, SameKeySameSemaphore
<1>4. ASSUME NEW r \in Processes, Counting(r), handle'[p].object = handle'[q].object
      PROVE  handle'[p].key = handle'[q].key
  <2>1. handle' = handle
    BY <1>4, CountingKeeps
  <2> QED
    BY <1>4, <2>1, Zenon DEF SameKeySameSemaphore
<1>5. ASSUME NEW k \in SemKeys, NamedUnlink(k), handle'[p].object = handle'[q].object
      PROVE  handle'[p].key = handle'[q].key
  <2>1. \A r \in Processes : /\ handle'[r].object = handle[r].object
                             /\ handle'[r].key = handle[r].key
    BY <1>5 DEF NamedUnlink, NamedTypes
  <2> QED
    BY <1>5, <2>1 DEF SameKeySameSemaphore
<1>6. CASE UNCHANGED namedVars
  BY <1>6, Zenon DEF namedVars, SameKeySameSemaphore
<1>7. ASSUME NamedNext, handle'[p].object = handle'[q].object
      PROVE  handle'[p].key = handle'[q].key
  BY <1>2, <1>3, <1>4, <1>5, <1>7, Zenon DEF NamedNext, Counting
<1> QED
  BY <1>1, <1>6, <1>7, Zenon

-----------------------------------------------------------------------------
(* Permits *)

\* The processes that have been granted a permit of o and are still in the call.
Granted(o) == {p \in Processes : handle[p].object = o /\ call[p] = "granted"}

\* The grants of an object can be counted.
LEMMA GrantsCount ==
    ASSUME NEW o
    PROVE  /\ IsFiniteSet(Granted(o)) /\ Cardinality(Granted(o)) \in Nat
           /\ IsFiniteSet(Granted(o)') /\ Cardinality(Granted(o)') \in Nat
<1>1. Granted(o) \subseteq Processes /\ Granted(o)' \subseteq Processes
  BY DEF Granted
<1> QED
  BY <1>1, NamedSemaphoreAssumption, FS_Subset, FS_CardinalityType

\* Nobody has been granted a permit of an object that no handle refers to, so the
\* permits of objects are conserved when the unused ones are reclaimed.
LEMMA ReclaimConserves ==
    ASSUME NEW c, NEW d, NEW o \in Objects,
           value' = Reclaimed(c), permits' = Reclaimed(d),
           c[o] + Cardinality(Granted(o)') = d[o]
    PROVE  value'[o] + Cardinality(Granted(o)') = permits'[o]
<1>1. CASE o \in Unused(bound', handle')
  <2>1. Granted(o)' = {}
    BY <1>1, Zenon DEF Unused, Granted
  <2>2. value'[o] = 0 /\ permits'[o] = 0
    BY <1>1, Zenon DEF Reclaimed
  <2> QED
    BY <2>1, <2>2, FS_EmptySet
<1>2. CASE o \notin Unused(bound', handle')
  BY <1>2, Zenon DEF Reclaimed
<1> QED
  BY <1>1, <1>2, Zenon

\* Every step conserves permits.
LEMMA NamedPermitsStep ==
    NamedTypes /\ HandlesInv /\ PermitsConserved /\ [NamedNext]_namedVars => PermitsConserved'
<1> SUFFICES ASSUME NamedTypes, HandlesInv, PermitsConserved, [NamedNext]_namedVars,
                    NEW o \in Objects
             PROVE  value'[o] + Cardinality(Granted(o)') = permits'[o]
  BY Zenon DEF PermitsConserved, Granted
<1>0. value[o] + Cardinality(Granted(o)) = permits[o]
  BY DEF PermitsConserved, Granted
<1> DEFINE Goal == value'[o] + Cardinality(Granted(o)') = permits'[o]
<1>1. ASSUME NEW p \in Processes, NEW k \in SemKeys, NEW n \in 0..MaxValue, NamedOpen(p, k, n)
      PROVE  Goal
  <2>1. PICK u \in Objects :
            /\ handle' = [handle EXCEPT ![p] = [object |-> u, key |-> k, linked |-> TRUE]]
            /\ \/ UNCHANGED <<value, permits>>
               \/ /\ u \in Unused(bound, handle)
                  /\ value' = [value EXCEPT ![u] = n]
                  /\ permits' = [permits EXCEPT ![u] = n]
    BY <1>1, Opened
  <2>2. call' = call /\ call[p] = "none"
    BY <1>1, Zenon DEF NamedOpen, HandlesInv
  <2>3. Granted(o)' = Granted(o)
    BY <2>1, <2>2, Zenon DEF Granted, NamedTypes
  <2>4. CASE u = o /\ u \in Unused(bound, handle)
    <3>1. Granted(o) = {}
      BY <2>4 DEF Unused, Granted
    <3> QED
      BY <1>0, <2>1, <2>3, <2>4, <3>1, FS_EmptySet DEF NamedTypes
  <2> QED
    BY <1>0, <2>1, <2>3, <2>4, Zenon DEF NamedTypes
<1>2. ASSUME NEW p \in Processes, NamedClose(p)
      PROVE  Goal
  <2>1. Granted(o)' = Granted(o)
    BY <1>2, Zenon DEF NamedClose, Detach, NoHandle, Granted, NamedTypes
  <2> QED
    BY <1>0, <1>2, <2>1, ReclaimConserves, Zenon DEF NamedClose
<1>3. ASSUME NEW p \in Processes, ProcessDies(p)
      PROVE  Goal
  <2>1. Granted(o)' = Granted(o) \ {p}
    BY <1>3, Zenon DEF ProcessDies, Detach, NoHandle, Granted, NamedTypes
  <2>2. CASE p \in Granted(o)
    <3>1. Cardinality(Granted(o)') = Cardinality(Granted(o)) - 1
      BY <2>1, <2>2, GrantsCount, FS_RemoveElement
    <3>2. Passed(p)[o] = permits[o] - 1 /\ call[p] = "granted"
      BY <2>2 DEF Granted, Passed, NamedTypes
    <3>3. value[o] + Cardinality(Granted(o)') = Passed(p)[o]
      BY <1>0, <3>1, <3>2, GrantsCount DEF NamedTypes
    <3> QED
      BY <1>3, <3>2, <3>3, ReclaimConserves, Zenon DEF ProcessDies
  <2>3. CASE p \notin Granted(o)
    <3>1. Granted(o)' = Granted(o)
      BY <2>1, <2>3, Zenon
    <3>2. (IF call[p] = "granted" THEN Passed(p) ELSE permits)[o] = permits[o]
      BY <2>3 DEF Granted, Passed, NamedTypes
    <3> QED
      BY <1>0, <1>3, <3>1, <3>2, ReclaimConserves, Zenon DEF ProcessDies
  <2> QED
    BY <2>2, <2>3, Zenon
<1>4. ASSUME NEW p \in Processes, NamedWait(p) \/ WaitInterrupted(p)
      PROVE  Goal
  <2>1. Granted(o)' = Granted(o) /\ value' = value /\ permits' = permits
    BY <1>4, Zenon DEF NamedWait, WaitInterrupted, Granted, NamedTypes
  <2> QED
    BY <1>0, <2>1, Zenon
<1>5. ASSUME NEW p \in Processes, WaitGranted(p)
      PROVE  Goal
  <2>1. CASE handle[p].object = o
    <3>1. Granted(o)' = Granted(o) \cup {p} /\ p \notin Granted(o)
      BY <1>5, <2>1 DEF WaitGranted, Granted, NamedTypes
    <3>2. Cardinality(Granted(o)') = Cardinality(Granted(o)) + 1
      BY <3>1, GrantsCount, FS_AddElement, Zenon
    <3>3. value'[o] = value[o] - 1 /\ permits' = permits
      BY <1>5, <2>1, Zenon DEF WaitGranted, Take, NamedTypes
    <3> QED
      BY <1>0, <3>2, <3>3, GrantsCount DEF NamedTypes
  <2>2. CASE handle[p].object # o
    <3>1. Granted(o)' = Granted(o) /\ value'[o] = value[o] /\ permits' = permits
      BY <1>5, <2>2, Zenon DEF WaitGranted, Take, Granted, NamedTypes
    <3> QED
      BY <1>0, <3>1, Zenon
  <2> QED
    BY <2>1, <2>2, Zenon
<1>6. ASSUME NEW p \in Processes, WaitLoop(p)
      PROVE  Goal
  <2>1. CASE p \in Granted(o)
    <3>1. Granted(o)' = Granted(o) \ {p} /\ value' = value /\ permits'[o] = permits[o] - 1
      BY <1>6, <2>1, Zenon DEF WaitLoop, Passed, Granted, NamedTypes
    <3>2. Cardinality(Granted(o)') = Cardinality(Granted(o)) - 1
      BY <2>1, <3>1, GrantsCount, FS_RemoveElement, Zenon
    <3> QED
      BY <1>0, <3>1, <3>2, GrantsCount DEF NamedTypes
  <2>2. CASE p \notin Granted(o)
    <3>1. Granted(o)' = Granted(o) /\ value' = value /\ permits'[o] = permits[o]
      BY <1>6, <2>2, Zenon DEF WaitLoop, Passed, Granted, NamedTypes
    <3> QED
      BY <1>0, <3>1, Zenon
  <2> QED
    BY <2>1, <2>2, Zenon
<1>7. ASSUME NEW p \in Processes, NamedTrywait(p) \/ NamedPost(p)
      PROVE  Goal
  <2>1. Granted(o)' = Granted(o)
    BY <1>7, Zenon DEF NamedTrywait, NamedPost, Granted
  <2>2. value'[o] - value[o] = permits'[o] - permits[o] /\ value'[o] \in Int /\ permits'[o] \in Int
    BY <1>7 DEF NamedTrywait, NamedPost, Take, Passed, NamedTypes
  <2>3. value[o] \in Int /\ permits[o] \in Int /\ Cardinality(Granted(o)) \in Int
    BY GrantsCount DEF NamedTypes
  <2> QED
    BY <1>0, <2>1, <2>2, <2>3
<1>8. ASSUME NEW k \in SemKeys, NamedUnlink(k)
      PROVE  Goal
  <2>1. \A p \in Processes : handle'[p].object = handle[p].object
    BY <1>8 DEF NamedUnlink, NamedTypes
  <2>2. Granted(o)' = Granted(o)
    BY <1>8, <2>1 DEF NamedUnlink, Granted
  <2> QED
    BY <1>0, <1>8, <2>2, ReclaimConserves DEF NamedUnlink
<1>9. CASE UNCHANGED namedVars
  BY <1>0, <1>9, Zenon DEF namedVars, Granted
<1> QED
  BY <1>1, <1>2, <1>3, <1>4, <1>5, <1>6, <1>7, <1>8, <1>9, Zenon DEF NamedNext

-----------------------------------------------------------------------------
(* Theorems *)

\* The inductive invariant holds.
THEOREM NamedInvariance == NamedSpec => []NamedInv
<1>1. NamedStart => NamedInv
  <2> SUFFICES ASSUME NamedStart PROVE NamedInv
    OBVIOUS
  <2>1. NamedTypes
    BY NamedSemaphoreAssumption DEF NamedStart, NamedTypes, NoHandle
  <2>2. \A p \in Processes : handle[p].object = 0 /\ call[p] = "none"
    BY Zenon DEF NamedStart, NoHandle
  <2>3. HandlesInv /\ NamesInv /\ SameKeySameSemaphore
    BY <2>2, Zenon DEF NamedStart, HandlesInv, NamesInv, SameKeySameSemaphore
  <2>4. \A o \in Objects : Granted(o) = {} /\ value[o] = 0 /\ permits[o] = 0
    BY <2>2, Zenon DEF NamedStart, Granted
  <2>5. PermitsConserved
    <3>1. \A o \in Objects : value[o] + Cardinality(Granted(o)) = permits[o]
      BY <2>4, FS_EmptySet
    <3> QED
      BY <3>1, Zenon DEF PermitsConserved, Granted
  <2> QED
    BY <2>1, <2>3, <2>5, Zenon DEF NamedInv
<1>2. NamedInv /\ [NamedNext]_namedVars => NamedInv'
  BY TypesStep, HandlesStep, NamesStep, SameKeyStep, NamedPermitsStep, Zenon DEF NamedInv
<1> QED
  BY <1>1, <1>2, PTL DEF NamedSpec

\* Every wait on a named semaphore that returns takes a permit some post or the
\* creating open gave, and no permit appears or gets lost, in any number of
\* processes that are interrupted, die and start again.
THEOREM NamedPermitsConserved == NamedSpec => []PermitsConserved
<1>1. NamedInv => PermitsConserved
  BY DEF NamedInv
<1> QED
  BY <1>1, NamedInvariance, PTL

\* A key names one semaphore in all processes until it is unlinked, and two keys
\* never name the same one, whatever the length to which POSIX names are cut.
THEOREM KeyNamesOneSemaphore == NamedSpec => []SameKeySameSemaphore
<1>1. NamedInv => SameKeySameSemaphore
  BY DEF NamedInv
<1> QED
  BY <1>1, NamedInvariance, PTL
=============================================================================
