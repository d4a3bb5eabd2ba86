------------------------------- MODULE Mutex -------------------------------
(***************************************************************************)
(* coro/mutex: a mutex that suspends coroutines instead of blocking        *)
(* threads.                                                                *)
(*                                                                         *)
(* _sender is the lock word: not locked, locked, or the head of a stack of *)
(* suspended coroutines that arrived while it was locked.  _receiver is a  *)
(* batch of waiters that an earlier unlock took off that stack; only the   *)
(* thread that holds the mutex reads or writes it.  Unlocking hands the    *)
(* mutex to the next waiter without making it free in between.             *)
(*                                                                         *)
(* With batching, Unlock resumes the next waiter on the current thread and *)
(* sends the unlocking coroutine away to the waiter's executor.  UnlockOn  *)
(* submits the unlocking coroutine first and unlocks afterwards: from then *)
(* on the coroutine and the unlock run on two threads.                     *)
(*                                                                         *)
(* The load that precedes the compare-exchange in TryLockAwait and         *)
(* TryUnlockAwait only saves a doomed compare-exchange, so the two are one *)
(* step.  The intrusive lists are sequences; comparing _sender with an     *)
(* expected pointer compares their heads.                                  *)
(*                                                                         *)
(* The definitions whose names end in an underscore and a word (X_Word)    *)
(* are faulty variants of X that show that the properties can fail; the    *)
(* specification does not use them.                                        *)
(***************************************************************************)
EXTENDS Naturals, Sequences, SequencesExt

CONSTANTS
    Coroutines,  \* coroutines that use the mutex
    Executors,   \* executors they run on
    Templates,   \* template arguments to check: pairs <<Batching, FIFO>>
    NotLocked,   \* kNotLocked
    Null         \* the null pointer, which is also kLockedNoWaiters

ASSUME ConstantsAssumption ==
    /\ NotLocked \notin Coroutines \cup Seq(Coroutines)
    /\ Null \notin Coroutines \cup Executors
    /\ NotLocked # Null
    /\ Templates \subseteq BOOLEAN \X BOOLEAN

VARIABLES
    batching, fifo,  \* the template arguments of Mutex
    sender,          \* _sender: NotLocked, or the stack of waiters
    receiver,        \* _receiver: the rest of the batch being served
    pc,              \* where a coroutine is
    expected,        \* local of AwaitLock
    exec,            \* _executor of the coroutine
    thread,          \* the executor on whose thread it is running, or Null
    guard,           \* "sticky" from locking a StickyGuard until it is released
    sticky,          \* StickyGuard::_executor
    home,            \* the executor it had before it locked (history)
    rel,             \* the rest of its AwaitUnlockOn, on the thread it left
    relExec,         \* curr_executor in AwaitUnlockOn
    relThread        \* the executor that thread belongs to

lockVars == <<sender, receiver>>
stickyVars == <<guard, sticky, home>>
relVars == <<rel, relExec, relThread>>
vars == <<batching, fifo, lockVars, pc, expected, exec, thread, stickyVars, relVars>>

States == {"out",      \* outside of the critical section
           "cas",      \* AwaitLock: in the compare-exchange loop
           "waiting",  \* suspended, in one of the two lists
           "granted",  \* submitted to its executor, inside the mutex
           "sent",     \* submitted to its executor, outside
           "cs",       \* in the critical section
           "handoff",  \* TryUnlockAwait failed: UnlockHereAwait comes next
           "batch"}    \* TryUnlockAwait failed: AwaitUnlock comes next

Pointer(s) == IF s = NotLocked THEN NotLocked ELSE IF s = <<>> THEN Null ELSE Head(s)

Init ==
    /\ \E t \in Templates : batching = t[1] /\ fifo = t[2]
    /\ sender = NotLocked
    /\ receiver = <<>>
    /\ pc = [c \in Coroutines |-> "out"]
    /\ expected = [c \in Coroutines |-> Null]
    /\ exec \in [Coroutines -> Executors]
    /\ thread = exec
    /\ guard = [c \in Coroutines |-> "plain"]
    /\ sticky = [c \in Coroutines |-> Null]
    /\ home = [c \in Coroutines |-> Null]
    /\ rel = [c \in Coroutines |-> "none"]
    /\ relExec = [c \in Coroutines |-> Null]
    /\ relThread = [c \in Coroutines |-> Null]

\* The guard has released the mutex; the next Lock resets StickyGuard::_executor.
DropGuard(c) ==
    /\ guard' = [guard EXCEPT ![c] = "plain"]
    /\ sticky' = [sticky EXCEPT ![c] = Null]
    /\ home' = [home EXCEPT ![c] = Null]

-----------------------------------------------------------------------------
(***************************************************************************)
(* Locking.                                                                *)
(***************************************************************************)

\* MutexImpl::TryLockAwait, for TryLock, TryGuard and await_ready.
LockFree(c) ==
    /\ sender = NotLocked
    /\ sender' = <<>>
    /\ pc' = [pc EXCEPT ![c] = "cs"]

\* TryLock, or Lock / Guard / GuardSticky that succeeds in await_ready.
Acquire(c, g) ==
    /\ pc[c] = "out"
    /\ LockFree(c)
    /\ guard' = [guard EXCEPT ![c] = g]
    /\ sticky' = [sticky EXCEPT ![c] = Null]
    /\ home' = [home EXCEPT ![c] = IF g = "sticky" THEN exec[c] ELSE Null]
    /\ UNCHANGED <<batching, fifo, receiver, expected, exec, thread, relVars>>

\* await_ready failed: AwaitLock loads _sender.  That load sees what await_ready
\* saw; had the word changed in between, AwaitLockReload would follow.
\* LockStickyAwaiter remembers the executor first.
Suspend(c, g) ==
    /\ pc[c] = "out"
    /\ sender # NotLocked
    /\ pc' = [pc EXCEPT ![c] = "cas"]
    /\ expected' = [expected EXCEPT ![c] = Pointer(sender)]
    /\ guard' = [guard EXCEPT ![c] = g]
    /\ sticky' = [sticky EXCEPT ![c] = IF g = "sticky" THEN exec[c] ELSE Null]
    /\ home' = [home EXCEPT ![c] = IF g = "sticky" THEN exec[c] ELSE Null]
    /\ UNCHANGED <<batching, fifo, lockVars, exec, thread, relVars>>

\* A failed compare-exchange reloads expected.
AwaitLockReload(c) ==
    /\ pc[c] = "cas"
    /\ Pointer(sender) # expected[c]
    /\ expected' = [expected EXCEPT ![c] = Pointer(sender)]
    /\ UNCHANGED <<batching, fifo, lockVars, pc, exec, thread, stickyVars, relVars>>

AwaitLockAcquire_Steal(c) ==
    /\ pc[c] = "cas"
    /\ expected[c] = NotLocked
    /\ sender' = <<>>
    /\ pc' = [pc EXCEPT ![c] = "cs"]
    /\ sticky' = [sticky EXCEPT ![c] = Null]
    /\ expected' = [expected EXCEPT ![c] = Null]
    /\ UNCHANGED <<batching, fifo, receiver, exec, thread, guard, home, relVars>>

\* AwaitLock finds the mutex free: the coroutine does not suspend.
AwaitLockAcquire(c) ==
    /\ pc[c] = "cas"
    /\ expected[c] = NotLocked
    /\ LockFree(c)
    /\ sticky' = [sticky EXCEPT ![c] = Null]
    /\ expected' = [expected EXCEPT ![c] = Null]
    /\ UNCHANGED <<batching, fifo, receiver, exec, thread, guard, home, relVars>>


\* AwaitLock pushes the coroutine on the stack of waiters.
AwaitLockPush(c) ==
    /\ pc[c] = "cas"
    /\ expected[c] # NotLocked
    /\ Pointer(sender) = expected[c]
    /\ sender' = <<c>> \o sender
    /\ pc' = [pc EXCEPT ![c] = "waiting"]
    /\ thread' = [thread EXCEPT ![c] = Null]
    /\ expected' = [expected EXCEPT ![c] = Null]
    /\ UNCHANGED <<batching, fifo, receiver, exec, stickyVars, relVars>>

-----------------------------------------------------------------------------
(***************************************************************************)
(* Unlocking.                                                              *)
(***************************************************************************)

\* MutexImpl::TryUnlockAwait: nobody waits, so the mutex becomes free.
TryUnlockAwait == receiver = <<>> /\ sender = <<>>

BatchingPossible == batching /\ receiver # <<>>

\* MutexImpl::GetHead: the batch, taken from the stack if it has run out.
GetHead ==
    IF receiver # <<>> THEN receiver
    ELSE IF fifo THEN Reverse(sender) ELSE sender

TakeHead_KeepStack ==
    /\ receiver' = Tail(GetHead)
    /\ UNCHANGED sender

TakeHead_LoseBatch ==
    /\ receiver' = <<>>
    /\ sender' = IF receiver # <<>> THEN sender ELSE <<>>

\* What GetHead and the removal of its first element leave behind.
TakeHead ==
    /\ receiver' = Tail(GetHead)
    /\ sender' = IF receiver # <<>> THEN sender ELSE <<>>

\* The unlocking coroutine tries TryUnlockAwait; if somebody waits it goes to then.
TryUnlock(c, then) ==
    /\ pc[c] = "cs"
    /\ IF TryUnlockAwait
       THEN /\ sender' = NotLocked
            /\ pc' = [pc EXCEPT ![c] = "out"]
       ELSE /\ pc' = [pc EXCEPT ![c] = then]
            /\ UNCHANGED sender
    /\ UNCHANGED <<batching, fifo, receiver, expected, exec, thread, relVars>>

\* Unlock, UnlockHere and ~Guard, as far as TryUnlockAwait.  They also release a
\* mutex that was locked through a StickyGuard, and pay no attention to the
\* executor it remembers.
Unlock(c, here) ==
    /\ TryUnlock(c, IF ~here /\ BatchingPossible THEN "batch" ELSE "handoff")
    /\ DropGuard(c)

\* UnlockHereAwait: submit the next waiter to its executor.
UnlockHereAwait(c) ==
    /\ pc[c] = "handoff"
    /\ TakeHead
    /\ pc' = [pc EXCEPT ![c] = "out", ![Head(GetHead)] = "granted"]
    /\ DropGuard(c)
    /\ UNCHANGED <<batching, fifo, expected, exec, thread, relVars>>

AwaitUnlock_NoSwap(c) ==
    LET next == Head(receiver)
    IN  /\ pc[c] = "batch"
        /\ receiver' = Tail(receiver)
        /\ pc' = [pc EXCEPT ![c] = "sent", ![next] = "cs"]
        /\ thread' = [thread EXCEPT ![c] = Null, ![next] = thread[c]]
        /\ UNCHANGED <<batching, fifo, sender, expected, exec, stickyVars, relVars>>

\* AwaitUnlock: swap executors with the next waiter, submit the current
\* coroutine, go on as the waiter.
AwaitUnlock(c) ==
    LET next == Head(receiver)
    IN  /\ pc[c] = "batch"
        /\ receiver' = Tail(receiver)
        /\ exec' = [exec EXCEPT ![c] = exec[next], ![next] = exec[c]]
        /\ pc' = [pc EXCEPT ![c] = "sent", ![next] = "cs"]
        /\ thread' = [thread EXCEPT ![c] = Null, ![next] = thread[c]]
        /\ UNCHANGED <<batching, fifo, sender, expected, stickyVars, relVars>>

\* AwaitUnlockOn up to executor.Submit(curr).
AwaitUnlockOn(c, e) ==
    /\ pc[c] = "cs"
    /\ exec' = [exec EXCEPT ![c] = e]
    /\ relExec' = [relExec EXCEPT ![c] = exec[c]]
    /\ relThread' = [relThread EXCEPT ![c] = thread[c]]
    /\ rel' = [rel EXCEPT ![c] = "try"]
    /\ pc' = [pc EXCEPT ![c] = "sent"]
    /\ thread' = [thread EXCEPT ![c] = Null]
    /\ UNCHANGED <<batching, fifo, lockVars, expected>>

\* UnlockOn(e) of the mutex or of a guard, with an executor of the caller's choice.
UnlockOn(c) ==
    /\ \E e \in Executors : AwaitUnlockOn(c, e)
    /\ DropGuard(c)

\* co_await guard.Unlock() of a StickyGuard whose lock was awaited:
\* UnlockStickyAwaiter goes back to the executor it was awaited on.
UnlockSticky(c) ==
    /\ sticky[c] # Null
    /\ AwaitUnlockOn(c, sticky[c])
    /\ UNCHANGED stickyVars

\* The same if the lock was not awaited: UnlockStickyAwaiter::await_ready calls
\* UnlockHere.
UnlockStickyHere(c) ==
    /\ guard[c] = "sticky"
    /\ sticky[c] = Null
    /\ TryUnlock(c, "handoff")
    /\ IF TryUnlockAwait THEN DropGuard(c) ELSE UNCHANGED stickyVars

\* The thread that AwaitUnlockOn was called on is done with the mutex.
RelEnd(c) ==
    /\ rel' = [rel EXCEPT ![c] = "none"]
    /\ relExec' = [relExec EXCEPT ![c] = Null]
    /\ relThread' = [relThread EXCEPT ![c] = Null]

\* The rest of AwaitUnlockOn.
UnlockOnTry(c) ==
    /\ rel[c] = "try"
    /\ IF TryUnlockAwait
       THEN /\ sender' = NotLocked
            /\ RelEnd(c)
       ELSE /\ rel' = [rel EXCEPT ![c] = "head"]
            /\ UNCHANGED <<sender, relExec, relThread>>
    /\ UNCHANGED <<batching, fifo, receiver, pc, expected, exec, thread, stickyVars>>

UnlockOnHead(c) ==
    LET next == Head(GetHead)
    IN  /\ rel[c] = "head"
        /\ TakeHead
        /\ IF BatchingPossible
           THEN /\ exec' = [exec EXCEPT ![next] = relExec[c]]
                /\ pc' = [pc EXCEPT ![next] = "cs"]
                /\ thread' = [thread EXCEPT ![next] = relThread[c]]
           ELSE /\ pc' = [pc EXCEPT ![next] = "granted"]
                /\ UNCHANGED <<exec, thread>>
        /\ RelEnd(c)
        /\ UNCHANGED <<batching, fifo, expected, stickyVars>>

\* The executor resumes a coroutine that was submitted to it.
Resume(c) ==
    /\ \/ pc[c] = "granted" /\ pc' = [pc EXCEPT ![c] = "cs"] /\ UNCHANGED stickyVars
       \/ pc[c] = "sent" /\ pc' = [pc EXCEPT ![c] = "out"] /\ DropGuard(c)
    /\ thread' = [thread EXCEPT ![c] = exec[c]]
    /\ UNCHANGED <<batching, fifo, lockVars, expected, exec, relVars>>

-----------------------------------------------------------------------------
Lock(c) ==
    \/ \E g \in {"plain", "sticky"} : Acquire(c, g) \/ Suspend(c, g)
    \/ AwaitLockReload(c) \/ AwaitLockAcquire(c) \/ AwaitLockPush(c)

LeaveCriticalSection(c) ==
    \/ \E here \in BOOLEAN : Unlock(c, here)
    \/ UnlockOn(c)
    \/ UnlockSticky(c)
    \/ UnlockStickyHere(c)

FinishUnlock(c) ==
    \/ UnlockHereAwait(c)
    \/ AwaitUnlock(c)
    \/ UnlockOnTry(c)
    \/ UnlockOnHead(c)

Next == \E c \in Coroutines : Lock(c) \/ LeaveCriticalSection(c) \/ FinishUnlock(c) \/ Resume(c)

Spec == Init /\ [][Next]_vars

\* Coroutines leave their critical sections, threads inside the mutex go on,
\* executors resume what was submitted to them.  Nobody has to lock.
Fairness == \A c \in Coroutines :
    /\ WF_vars(LeaveCriticalSection(c))
    /\ WF_vars(UnlockHereAwait(c) \/ AwaitUnlock(c))
    /\ WF_vars(UnlockOnTry(c) \/ UnlockOnHead(c))
    /\ WF_vars(Resume(c))

FairSpec == Spec /\ Fairness

-----------------------------------------------------------------------------
(***************************************************************************)
(* Properties.                                                             *)
(***************************************************************************)

\* Every variable keeps its type; a coroutine always has an executor, also after
\* the swap in AwaitUnlock.
TypeOK ==
    /\ fifo \in BOOLEAN /\ batching \in BOOLEAN
    /\ sender \in {NotLocked} \cup Seq(Coroutines)
    /\ receiver \in Seq(Coroutines)
    /\ pc \in [Coroutines -> States]
    /\ expected \in [Coroutines -> Coroutines \cup {NotLocked, Null}]
    /\ exec \in [Coroutines -> Executors]
    /\ thread \in [Coroutines -> Executors \cup {Null}]
    /\ guard \in [Coroutines -> {"plain", "sticky"}]
    /\ sticky \in [Coroutines -> Executors \cup {Null}]
    /\ home \in [Coroutines -> Executors \cup {Null}]
    /\ rel \in [Coroutines -> {"none", "try", "head"}]
    /\ relExec \in [Coroutines -> Executors \cup {Null}]
    /\ relThread \in [Coroutines -> Executors \cup {Null}]

\* The coroutine, running or about to be resumed, has the mutex.
Inside(c) == pc[c] \in {"cs", "handoff", "batch", "granted"}

\* The unlock it left behind in AwaitUnlockOn still has it.
Releasing(c) == rel[c] # "none"

Holds(c) == Inside(c) \/ Releasing(c)

\* At most one coroutine is inside, and none is while the unlock left behind by
\* UnlockOn has not released the mutex: that unlock reads and writes _receiver.
MutualExclusion ==
    /\ \A c, d \in Coroutines : Holds(c) /\ Holds(d) => c = d
    /\ \A c \in Coroutines : ~(Inside(c) /\ Releasing(c))

Queue == (IF sender = NotLocked THEN <<>> ELSE sender) \o receiver

\* A suspended coroutine is in exactly one of the lists, once, and the lists
\* hold no other: no waiter is lost, none is resumed twice, and the mutex does
\* not become free while somebody waits.  The lock word tells the truth: free
\* exactly if nobody holds the mutex.
WaitersQueued ==
    /\ sender = NotLocked <=> \A c \in Coroutines : ~Holds(c)
    /\ ToSet(Queue) = {c \in Coroutines : pc[c] = "waiting"}
    /\ IsInjective(Queue)
    /\ sender = NotLocked => Queue = <<>>

\* A coroutine always runs on a thread of the executor it thinks it runs on,
\* although batching and UnlockOn pass threads from one coroutine to another.
RunsOnItsExecutor ==
    \A c \in Coroutines :
        pc[c] \notin {"waiting", "granted", "sent"} => thread[c] = exec[c]

\* co_await guard.Unlock() of a StickyGuard returns in this step.
StickyUnlockEnds(c) ==
    /\ guard[c] = "sticky"
    /\ pc'[c] = "out"
    /\ pc[c] \in {"handoff", "sent"} \/ UnlockStickyHere(c)

\* Executors survive the hand-over of threads from coroutine to coroutine:
\* every step leaves each coroutine on a thread of its executor, and code after
\* co_await guard.Unlock() of a StickyGuard runs on the executor of the code
\* before the lock, whether or not the lock had to be awaited and on whatever
\* thread it was handed over.  (The other ways to release a sticky guard, its
\* destructor, UnlockHere and UnlockOn, do not promise that.)
ExecutorsKept ==
    [][/\ RunsOnItsExecutor'
       /\ \A c \in Coroutines : StickyUnlockEnds(c) => exec'[c] = home[c]]_vars

\* Nobody waits forever, with FIFO = false too: a batch is served to its end
\* before the next one is taken.
NoStarvation == \A c \in Coroutines : pc[c] = "waiting" ~> pc[c] = "cs"
=============================================================================
