---------------------------- MODULE SharedMutex ----------------------------
(***************************************************************************)
(* coro/shared_mutex: a readers-writer mutex for coroutines.               *)
(*                                                                         *)
(* _state counts, in one atomic word, the writers that hold or want the    *)
(* mutex and the readers that do.  While there is a writer, a reader that  *)
(* has counted itself must go through the spinlock: it takes a pass left   *)
(* by an earlier unlock or queues.  The first writer that finds readers    *)
(* inside waits until _readers_wait of them have left; the others queue.   *)
(* The last reader out, and every unlocking writer, hand the mutex on.     *)
(*                                                                         *)
(* A step is one atomic access, or what a thread does to the state that    *)
(* the spinlock protects.  _state is the pair (writers, readers);          *)
(* _readers_wait is a 32 bit word and wraps, here modulo Word.             *)
(*                                                                         *)
(* The definitions whose names end in an underscore and a word (X_Word)    *)
(* are faulty variants of X that show that the properties can fail; the    *)
(* specification does not use them.                                        *)
(***************************************************************************)
EXTENDS Naturals, FiniteSets, Sequences, SequencesExt

CONSTANTS
    Readers,    \* coroutines that lock shared
    Writers,    \* coroutines that lock exclusively
    Templates,  \* template arguments to check: pairs <<FIFO, ReadersFIFO>>
    Word,       \* modulus of _readers_wait
    None

ASSUME ConstantsAssumption ==
    /\ Readers \cap Writers = {} /\ IsFiniteSet(Readers)
    /\ None \notin Readers \cup Writers
    /\ Templates \subseteq BOOLEAN \X BOOLEAN
    /\ Word \in Nat /\ Word > 2 * Cardinality(Readers)

Coroutines == Readers \cup Writers

VARIABLES
    fifo, readersFifo,  \* the template arguments of SharedMutex
    writers, readers,   \* the two halves of _state
    readersWait,        \* _readers_wait
    lock,               \* the thread that holds the spinlock
    first,              \* _writers_first
    wqueue,             \* _writers_head ... _writers_tail
    prio,               \* _writers_prio
    rqueue,             \* _readers, in the order it will be popped
    pass,               \* _readers_pass
    pc,                 \* where a coroutine is
    seen,               \* local s: what _state was, as <<writers, readers>>
    ahead               \* readers that queued before a queued writer (history)

stateWord == <<writers, readers>>
spinVars == <<first, wqueue, prio, rqueue, pass>>
templates == <<fifo, readersFifo>>
vars == <<templates, stateWord, readersWait, lock, spinVars, pc, seen, ahead>>

\* _readers_size
ReadersSize == Len(rqueue)

States == {"out",       \* does not use the mutex
           "await",     \* await_ready failed
           "counted",   \* AwaitLock: has added itself to _state
           "waiting",   \* suspended
           "granted",   \* submitted to its executor, has the mutex
           "cs",        \* in the critical section
           "leaving",   \* UnlockHereShared: a writer is waiting
           "slow",      \* UnlockHere: somebody is waiting
           "pick"}      \* SlowUnlock: has subtracted itself from _state

Init ==
    /\ \E t \in Templates : fifo = t[1] /\ readersFifo = t[2]
    /\ writers = 0 /\ readers = 0
    /\ readersWait = 0
    /\ lock = None
    /\ first = None
    /\ wqueue = <<>>
    /\ prio = 0
    /\ rqueue = <<>>
    /\ pass = 0
    /\ pc = [c \in Coroutines |-> "out"]
    /\ seen = [c \in Coroutines |-> <<0, 0>>]
    /\ ahead = [w \in Writers |-> {}]

-----------------------------------------------------------------------------
(***************************************************************************)
(* Readers.                                                                *)
(***************************************************************************)

\* TryLockSharedAwait: count first, then see whether there is a writer.
TryLockSharedAwait(r) ==
    /\ pc[r] = "out"
    /\ readers' = readers + 1
    /\ pc' = [pc EXCEPT ![r] = IF writers = 0 THEN "cs" ELSE "await"]
    /\ UNCHANGED <<templates, writers, readersWait, lock, spinVars, seen, ahead>>

\* TryLockShared: counts itself only if there is no writer.
TryLockShared(r) ==
    /\ pc[r] = "out"
    /\ writers = 0
    /\ readers' = readers + 1
    /\ pc' = [pc EXCEPT ![r] = "cs"]
    /\ UNCHANGED <<templates, writers, readersWait, lock, spinVars, seen, ahead>>

AwaitLockShared_NoPass(r) ==
    /\ pc[r] = "await"
    /\ lock = None
    /\ rqueue' = IF readersFifo THEN Append(rqueue, r) ELSE <<r>> \o rqueue
    /\ pc' = [pc EXCEPT ![r] = "waiting"]
    /\ UNCHANGED <<templates, stateWord, readersWait, lock, first, wqueue, prio, pass, seen, ahead>>

\* AwaitLockShared, under the spinlock: use a pass or queue.
AwaitLockShared(r) ==
    /\ pc[r] = "await"
    /\ lock = None
    /\ IF pass # 0
       THEN /\ pass' = pass - 1
            /\ pc' = [pc EXCEPT ![r] = "cs"]
            /\ UNCHANGED rqueue
       ELSE /\ rqueue' = IF readersFifo THEN Append(rqueue, r) ELSE <<r>> \o rqueue
            /\ pc' = [pc EXCEPT ![r] = "waiting"]
            /\ UNCHANGED pass
    /\ UNCHANGED <<templates, stateWord, readersWait, lock, first, wqueue, prio, seen, ahead>>

\* UnlockHereShared: the subtraction from _state ...
UnlockHereShared(r) ==
    /\ pc[r] = "cs"
    /\ readers' = readers - 1
    /\ pc' = [pc EXCEPT ![r] = IF writers # 0 THEN "leaving" ELSE "out"]
    /\ UNCHANGED <<templates, writers, readersWait, lock, spinVars, seen, ahead>>

LastReader_OffByOne(r) ==
    /\ pc[r] = "leaving"
    /\ readersWait' = (readersWait + Word - 1) % Word
    /\ pc' = IF readersWait = 2 THEN [pc EXCEPT ![r] = "out", ![first] = "granted"]
                                ELSE [pc EXCEPT ![r] = "out"]
    /\ UNCHANGED <<templates, stateWord, lock, spinVars, seen, ahead>>

\* ... and from _readers_wait; the last reader runs the first writer.
LastReader(r) ==
    /\ pc[r] = "leaving"
    /\ readersWait' = (readersWait + Word - 1) % Word
    /\ pc' = IF readersWait = 1 THEN [pc EXCEPT ![r] = "out", ![first] = "granted"]
                                ELSE [pc EXCEPT ![r] = "out"]
    /\ UNCHANGED <<templates, stateWord, lock, spinVars, seen, ahead>>

-----------------------------------------------------------------------------
(***************************************************************************)
(* Writers.                                                                *)
(***************************************************************************)

\* TryLockAwait, for TryLock and for await_ready.
TryLockAwait(w) ==
    /\ pc[w] = "out"
    /\ writers = 0 /\ readers = 0
    /\ writers' = 1
    /\ pc' = [pc EXCEPT ![w] = "cs"]
    /\ UNCHANGED <<templates, readers, readersWait, lock, spinVars, seen, ahead>>

Suspend(w) ==
    /\ pc[w] = "out"
    /\ writers # 0 \/ readers # 0
    /\ pc' = [pc EXCEPT ![w] = "await"]
    /\ UNCHANGED <<templates, stateWord, readersWait, lock, spinVars, seen, ahead>>

\* AwaitLock: take the spinlock and count itself.
AwaitLockCount(w) ==
    /\ pc[w] = "await"
    /\ lock = None
    /\ lock' = w
    /\ seen' = [seen EXCEPT ![w] = <<writers, readers>>]
    /\ writers' = writers + 1
    /\ pc' = [pc EXCEPT ![w] = "counted"]
    /\ UNCHANGED <<templates, readers, readersWait, spinVars, ahead>>

\* Waiting for the readers inside, unless they left already.
AwaitReaders(w) ==
    LET r == seen[w][2]
    IN  /\ first' = w
        /\ readersWait' = (readersWait + r) % Word
        /\ pc' = [pc EXCEPT ![w] = IF r # 0 /\ readersWait # (Word - r) % Word
                                   THEN "waiting" ELSE "cs"]
        /\ UNCHANGED <<wqueue, prio, ahead>>

QueueWriter_AlwaysPrio(w) ==
    /\ wqueue' = Append(wqueue, w)
    /\ prio' = IF fifo THEN prio + 1 ELSE prio
    /\ ahead' = [ahead EXCEPT ![w] = ToSet(rqueue)]
    /\ pc' = [pc EXCEPT ![w] = "waiting"]
    /\ UNCHANGED <<first, readersWait>>

\* Behind another writer: queue.  With FIFO a writer that finds no reader in
\* the queue will be run before the readers that come after it.
QueueWriter(w) ==
    /\ wqueue' = Append(wqueue, w)
    /\ prio' = IF fifo /\ rqueue = <<>> THEN prio + 1 ELSE prio
    /\ ahead' = [ahead EXCEPT ![w] = ToSet(rqueue)]
    /\ pc' = [pc EXCEPT ![w] = "waiting"]
    /\ UNCHANGED <<first, readersWait>>

\* AwaitLock: the rest, up to the release of the spinlock.
AwaitLockQueue(w) ==
    /\ pc[w] = "counted"
    /\ IF seen[w][1] = 0 THEN AwaitReaders(w) ELSE QueueWriter(w)
    /\ lock' = None
    /\ seen' = [seen EXCEPT ![w] = <<0, 0>>]
    /\ UNCHANGED <<templates, stateWord, rqueue, pass>>

\* UnlockHere: nobody else wants the mutex.
UnlockHere(w) ==
    /\ pc[w] = "cs"
    /\ IF writers = 1 /\ readers = 0
       THEN /\ writers' = 0
            /\ pc' = [pc EXCEPT ![w] = "out"]
       ELSE /\ pc' = [pc EXCEPT ![w] = "slow"]
            /\ UNCHANGED writers
    /\ UNCHANGED <<templates, readers, readersWait, lock, spinVars, seen, ahead>>

\* SlowUnlock: take the spinlock and leave _state.
SlowUnlock(w) ==
    /\ pc[w] = "slow"
    /\ lock = None
    /\ lock' = w
    /\ seen' = [seen EXCEPT ![w] = <<writers, readers>>]
    /\ writers' = writers - 1
    /\ pc' = [pc EXCEPT ![w] = "pick"]
    /\ UNCHANGED <<templates, readers, readersWait, spinVars, ahead>>

\* RunWriter: the next queued writer gets the mutex.
RunWriter(w) ==
    /\ prio' = IF fifo THEN prio - 1 ELSE prio
    /\ wqueue' = Tail(wqueue)
    /\ pc' = [pc EXCEPT ![w] = "out", ![Head(wqueue)] = "granted"]
    /\ UNCHANGED <<readersWait, first, rqueue, pass, ahead>>

\* PassReaders: the readers that have counted themselves and will come to the
\* spinlock later may enter.
PassReaders(w) == pass' = pass + (seen[w][2] - ReadersSize)

RunReaders_KeepPrio(w) ==
    /\ IF seen[w][1] # 1
       THEN /\ readersWait' = ReadersSize
            /\ first' = Head(wqueue)
            /\ wqueue' = Tail(wqueue)
            /\ UNCHANGED <<pass, prio>>
       ELSE /\ PassReaders(w)
            /\ UNCHANGED <<readersWait, first, wqueue, prio>>
    /\ pc' = [c \in Coroutines |-> IF c \in ToSet(rqueue) THEN "granted"
                                   ELSE IF c = w THEN "out" ELSE pc[c]]
    /\ rqueue' = <<>>
    /\ ahead' = [v \in Writers |-> ahead[v] \ ToSet(rqueue)]

\* RunReaders: resume all queued readers; the next writer, if any, waits for
\* them.
RunReaders(w) ==
    /\ IF seen[w][1] # 1
       THEN /\ readersWait' = ReadersSize
            /\ first' = Head(wqueue)
            /\ wqueue' = Tail(wqueue)
            /\ prio' = IF fifo THEN seen[w][1] - 2 ELSE prio
            /\ UNCHANGED pass
       ELSE /\ PassReaders(w)
            /\ UNCHANGED <<readersWait, first, wqueue, prio>>
    /\ pc' = [c \in Coroutines |-> IF c \in ToSet(rqueue) THEN "granted"
                                   ELSE IF c = w THEN "out" ELSE pc[c]]
    /\ rqueue' = <<>>
    /\ ahead' = [v \in Writers |-> ahead[v] \ ToSet(rqueue)]

\* The choice SlowUnlock makes under the spinlock.
Choice(w) ==
    IF fifo /\ prio # 0 THEN "writer"
    ELSE IF rqueue # <<>> THEN "readers"
    ELSE IF ~fifo /\ seen[w][1] # 1 THEN "writer"
    ELSE "pass"

\* SlowUnlock: hand the mutex on and release the spinlock.
SlowUnlockPick(w) ==
    /\ pc[w] = "pick"
    /\ \/ Choice(w) = "writer" /\ RunWriter(w)
       \/ Choice(w) = "readers" /\ RunReaders(w)
       \/ /\ Choice(w) = "pass" /\ PassReaders(w)
          /\ pc' = [pc EXCEPT ![w] = "out"]
          /\ UNCHANGED <<readersWait, first, wqueue, prio, rqueue, ahead>>
    /\ lock' = None
    /\ seen' = [seen EXCEPT ![w] = <<0, 0>>]
    /\ UNCHANGED <<templates, stateWord>>

\* The executor resumes a coroutine that was given the mutex.
Resume(c) ==
    /\ pc[c] = "granted"
    /\ pc' = [pc EXCEPT ![c] = "cs"]
    /\ UNCHANGED <<templates, stateWord, readersWait, lock, spinVars, seen, ahead>>

-----------------------------------------------------------------------------
Read(r) ==
    \/ TryLockSharedAwait(r) \/ TryLockShared(r) \/ AwaitLockShared(r)
    \/ UnlockHereShared(r) \/ LastReader(r)

Write(w) ==
    \/ TryLockAwait(w) \/ Suspend(w) \/ AwaitLockCount(w) \/ AwaitLockQueue(w)
    \/ UnlockHere(w) \/ SlowUnlock(w) \/ SlowUnlockPick(w)

Next ==
    \/ \E r \in Readers : Read(r)
    \/ \E w \in Writers : Write(w)
    \/ \E c \in Coroutines : Resume(c)

Spec == Init /\ [][Next]_vars

\* A coroutine that has begun to lock goes on and leaves its critical section;
\* executors resume what was submitted to them.  Nobody has to lock.
Fairness ==
    /\ \A r \in Readers :
          WF_vars(AwaitLockShared(r) \/ UnlockHereShared(r) \/ LastReader(r))
    /\ \A w \in Writers :
          WF_vars(AwaitLockCount(w) \/ AwaitLockQueue(w) \/ UnlockHere(w)
                    \/ SlowUnlock(w) \/ SlowUnlockPick(w))
    /\ \A c \in Coroutines : WF_vars(Resume(c))

FairSpec == Spec /\ Fairness

-----------------------------------------------------------------------------
(***************************************************************************)
(* Properties.                                                             *)
(***************************************************************************)

\* Every variable keeps its type; _writers_prio and the halves of _state are
\* never decremented below zero.
TypeOK ==
    /\ fifo \in BOOLEAN /\ readersFifo \in BOOLEAN
    /\ writers \in Nat /\ readers \in Nat
    /\ readersWait \in 0 .. Word - 1
    /\ lock \in Writers \cup {None}
    /\ first \in Writers \cup {None}
    /\ wqueue \in Seq(Writers) /\ rqueue \in Seq(Readers)
    /\ prio \in Nat /\ pass \in Nat
    /\ pc \in [Coroutines -> States]
    /\ seen \in [Coroutines -> Nat \X Nat]
    /\ ahead \in [Writers -> SUBSET Readers]

\* The coroutine has the mutex: it is inside or about to be resumed inside.
Inside(c) == pc[c] \in {"cs", "granted", "slow"}

\* A writer is alone, in particular against readers that were given the mutex
\* and have not been resumed yet, and against readers holding a pass.
ReadWriteExclusion ==
    \A w \in Writers : Inside(w) =>
        /\ \A c \in Coroutines \ {w} : ~Inside(c)
        /\ pass = 0

\* Every suspended coroutine can be found by the unlock that has to run it: a
\* reader in _readers, a writer in the writers' list, or as _writers_first while
\* there are readers to wait for.
WaitersQueued ==
    /\ IsInjective(rqueue) /\ IsInjective(wqueue)
    /\ ToSet(rqueue) = {r \in Readers : pc[r] = "waiting"}
    /\ \A w \in ToSet(wqueue) : pc[w] = "waiting"
    /\ \A w \in Writers : pc[w] = "waiting" =>
          w \in ToSet(wqueue) \/ (w = first /\ readersWait # 0)

\* The assertions of AwaitLockShared, RunWriter and PassReaders: a reader queues
\* only behind a writer, _writers_prio counts queued writers, and a writer that
\* lets the readers pass is the last one and has counted them all.
AssertionsHold ==
    /\ \A r \in Readers : (pc[r] = "await" /\ lock = None /\ pass = 0) => writers # 0
    /\ \A w \in Writers : pc[w] = "pick" =>
          /\ Choice(w) = "writer" => wqueue # <<>> /\ seen[w][1] > 1
          /\ Choice(w) = "pass" => seen[w][1] = 1 /\ seen[w][2] >= ReadersSize
          /\ Choice(w) = "readers" =>
                IF seen[w][1] = 1 THEN seen[w][2] >= ReadersSize ELSE wqueue # <<>>
    /\ \A w \in Writers : Inside(w) => prio <= Len(wqueue)

\* What the unlocking coroutine finds in the lists is what it needs: nobody is
\* lost, and no list is empty or counter wrong where the code relies on it.
ListsConsistent == WaitersQueued /\ AssertionsHold

\* With FIFO a writer never overtakes a reader that queued before it.
WritersKeepOrder ==
    fifo => \A w \in Writers : pc[w] = "granted" => ahead[w] = {}

\* "It is fair, with any options": a coroutine that was suspended is resumed
\* inside, whatever the others do.  (Nothing is said of a thread that has not
\* got the spinlock yet: the spinlock is not fair.)
NobodyWaitsForever == \A c \in Coroutines : pc[c] = "waiting" ~> pc[c] = "cs"
=============================================================================
