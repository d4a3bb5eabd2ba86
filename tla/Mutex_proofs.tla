---------------------------- MODULE Mutex_proofs ----------------------------
(***************************************************************************)
(* The safety of the coroutine mutex, for any number of coroutines and     *)
(* executors, with every template argument.  The second part is about the  *)
(* simulator of threads, for any number of fibers and any programs.        *)
(***************************************************************************)
EXTENDS Mutex, Integers, SequenceLemmas, FiniteSetTheorems, WellFoundedInduction, TLAPS

\* The stack of waiters, empty when the mutex is free.
Stack == IF sender = NotLocked THEN <<>> ELSE sender

Waiting == {c \in Coroutines : pc[c] = "waiting"}

\* sender is free exactly if nobody holds the mutex.
LockWord == sender = NotLocked <=> \A c \in Coroutines : ~Holds(c)

\* The two lists, one by one.
Lists ==
    /\ ToSet(Stack) \cup ToSet(receiver) = Waiting
    /\ ToSet(Stack) \cap ToSet(receiver) = {}
    /\ IsInjective(Stack) /\ IsInjective(receiver)
    /\ sender = NotLocked => receiver = <<>>

\* An unlock that has not released the mutex has somebody to hand it to; what
\* TryUnlockAwait saw stays true because only the holder shortens the lists.
SomebodyToResume ==
    \A c \in Coroutines :
        /\ pc[c] = "handoff" \/ rel[c] = "head" => receiver # <<>> \/ sender # <<>>
        /\ pc[c] = "batch" => receiver # <<>>

\* The thread that is left behind in AwaitUnlockOn belongs to the executor that
\* the coroutine had.
LeftThread ==
    \A c \in Coroutines :
        rel[c] # "none" => relExec[c] \in Executors /\ relThread[c] = relExec[c]

\* A StickyGuard: home is the executor before the lock; the guard remembers it
\* from the moment the coroutine can lose it.
StickyExecutor ==
    \A c \in Coroutines :
        IF guard[c] = "sticky"
          THEN /\ pc[c] \notin {"out", "batch"}
               /\ home[c] \in Executors
               /\ sticky[c] \in {Null, home[c]}
               /\ pc[c] = "handoff" => sticky[c] = Null
               /\ pc[c] \in {"cas", "sent"} \/ sticky[c] = Null => exec[c] = home[c]
               /\ pc[c] \in {"cas", "waiting", "granted"} => sticky[c] # Null
          ELSE sticky[c] = Null

\* The inductive invariant.
Inv ==
    /\ TypeOK
    /\ MutualExclusion
    /\ LockWord
    /\ Lists
    /\ SomebodyToResume
    /\ RunsOnItsExecutor
    /\ LeftThread
    /\ StickyExecutor

USE DEF Inv

-----------------------------------------------------------------------------
(***************************************************************************)
(* What Inv says about the lists.                                          *)
(***************************************************************************)

\* The stack is a list of coroutines, in the lock word unless that says free.
LEMMA StackType ==
    ASSUME TypeOK
    PROVE  Stack \in Seq(Coroutines) /\ (sender # NotLocked => Stack = sender)
BY DEF TypeOK, Stack

\* The two lists as one.
LEMMA QueueOfLists ==
    ASSUME TypeOK, Lists, LockWord
    PROVE  WaitersQueued
<1>1. Stack \in Seq(Coroutines) /\ receiver \in Seq(Coroutines)
  BY StackType DEF TypeOK
<1>2. Queue = Stack \o receiver
  BY DEF Queue, Stack
<1>3. ToSet(Queue) = Waiting /\ IsInjective(Queue)
  <2>1. /\ ToSet(Stack \o receiver) = ToSet(Stack) \cup ToSet(receiver)
        /\ IsInjective(Stack) /\ IsInjective(receiver) /\ ToSet(Stack) \cap ToSet(receiver) = {}
             => IsInjective(Stack \o receiver)
    BY <1>1, ListConcat
  <2> QED
    BY <1>2, <2>1 DEF Lists
<1>4. sender = NotLocked => Queue = <<>>
  BY <1>1, <1>2, ConcatEmptySeq DEF Lists, Stack
<1> QED
  BY <1>3, <1>4 DEF WaitersQueued, LockWord, Waiting

\* The holder keeps the lock word from being free.
LEMMA HolderLocks ==
    ASSUME Inv, NEW c \in Coroutines, Holds(c)
    PROVE  sender # NotLocked /\ sender \in Seq(Coroutines) /\ Stack = sender
BY DEF LockWord, TypeOK, Stack

\* Nobody else is inside, and nobody else is releasing.
LEMMA HolderAlone ==
    ASSUME Inv, NEW c \in Coroutines, Holds(c), NEW d \in Coroutines, d # c
    PROVE  ~Holds(d)
BY DEF MutualExclusion

\* GetHead finds a waiter, and what is left of the lists has all the others.
LEMMA TakeHeadLists ==
    ASSUME Inv, NEW c \in Coroutines, Holds(c), TakeHead, receiver # <<>> \/ sender # <<>>
    PROVE  /\ Head(GetHead) \in Waiting
           /\ sender' \in Seq(Coroutines) /\ receiver' \in Seq(Coroutines)
           /\ ToSet(sender') \cup ToSet(receiver') = Waiting \ {Head(GetHead)}
           /\ ToSet(sender') \cap ToSet(receiver') = {}
           /\ IsInjective(sender') /\ IsInjective(receiver')
<1> DEFINE next == Head(GetHead)
<1>1. sender \in Seq(Coroutines) /\ Stack = sender /\ receiver \in Seq(Coroutines)
  BY HolderLocks DEF TypeOK
<1>2. CASE receiver # <<>>
  <2>1. GetHead = receiver /\ receiver' = Tail(receiver) /\ sender' = sender
    BY <1>2 DEF TakeHead, GetHead
  <2>2. /\ next \in Coroutines /\ Tail(receiver) \in Seq(Coroutines)
        /\ ToSet(receiver) = {next} \cup ToSet(Tail(receiver))
        /\ next \notin ToSet(Tail(receiver)) /\ IsInjective(Tail(receiver))
    BY <1>1, <1>2, <2>1, ListPop DEF Lists
  <2> QED
    BY <1>1, <2>1, <2>2 DEF Lists, Waiting
<1>3. CASE receiver = <<>>
  <2> DEFINE h == GetHead
  <2>1. h = (IF fifo THEN Reverse(sender) ELSE sender) /\ receiver' = Tail(h) /\ sender' = <<>>
    BY <1>3 DEF TakeHead, GetHead
  <2>2. h \in Seq(Coroutines) /\ ToSet(h) = ToSet(sender) /\ IsInjective(h)
    BY <1>1, <2>1, ListReverse DEF Lists
  <2> HIDE DEF h
  <2>3. h # <<>>
    BY <1>1, <1>3, <2>2, ListElements
  <2>4. /\ Head(h) \in Coroutines /\ Tail(h) \in Seq(Coroutines)
        /\ ToSet(h) = {Head(h)} \cup ToSet(Tail(h))
        /\ Head(h) \notin ToSet(Tail(h)) /\ IsInjective(Tail(h))
    BY <2>2, <2>3, ListPop
  <2>5. ToSet(receiver) = {}
    BY <1>3, ListEmpty
  <2>6. ToSet(sender') = {} /\ IsInjective(sender') /\ sender' \in Seq(Coroutines)
    BY <2>1, ListEmpty, EmptySeq
  <2>7. next = Head(h)
    BY DEF h
  <2> QED
    BY <1>1, <2>1, <2>2, <2>4, <2>5, <2>6, <2>7 DEF Lists, Waiting
<1> QED
  BY <1>2, <1>3

\* A list in the lock word does not say that the mutex is free.
LEMMA LockedWord ==
    /\ \A s \in Seq(Coroutines) : s # NotLocked
    /\ <<>> \in Seq(Coroutines)
BY ConstantsAssumption, EmptySeq

-----------------------------------------------------------------------------
(***************************************************************************)
(* Every action preserves Inv.                                             *)
(***************************************************************************)

\* The compare-exchange of a free lock word: nobody waits then.
LEMMA AcquireInv ==
    ASSUME Inv, NEW c \in Coroutines, NEW g \in {"plain", "sticky"}, Acquire(c, g)
    PROVE  Inv'
<1> USE DEF Acquire, LockFree, relVars
<1>1. TypeOK'
  BY LockedWord DEF TypeOK, States
<1>2. MutualExclusion'
  BY DEF MutualExclusion, LockWord, Holds, Inside, Releasing, TypeOK
<1>3. LockWord'
  BY LockedWord DEF LockWord, Holds, Inside, TypeOK
<1>4. Lists'
  <2>1. Stack = <<>> /\ Stack' = <<>>
    BY DEF Stack
  <2>2. Waiting' = Waiting
    BY DEF Waiting, TypeOK
  <2> QED
    BY <2>1, <2>2 DEF Lists
<1>5. SomebodyToResume'
  BY DEF SomebodyToResume, LockWord, Holds, Inside, Releasing, TypeOK
<1>6. RunsOnItsExecutor'
  BY DEF RunsOnItsExecutor, TypeOK
<1>7. LeftThread'
  BY DEF LeftThread
<1>8. StickyExecutor'
  BY DEF StickyExecutor, TypeOK
<1> QED
  BY <1>1, <1>2, <1>3, <1>4, <1>5, <1>6, <1>7, <1>8

\* AwaitLock's first load.
LEMMA SuspendInv ==
    ASSUME Inv, NEW c \in Coroutines, NEW g \in {"plain", "sticky"}, Suspend(c, g)
    PROVE  Inv'
<1> USE DEF Suspend, lockVars, relVars
<1>0. Pointer(sender) \in Coroutines \cup {NotLocked, Null}
  BY ListPop DEF TypeOK, Pointer
<1>1. TypeOK'
  BY <1>0 DEF TypeOK, States
<1>2. MutualExclusion'
  BY DEF MutualExclusion, Holds, Inside, Releasing, TypeOK
<1>3. LockWord'
  BY DEF LockWord, Holds, Inside, Releasing, TypeOK
<1>4. Lists'
  <2>1. Waiting' = Waiting /\ Stack' = Stack
    BY DEF Waiting, Stack, TypeOK
  <2> QED
    BY <2>1 DEF Lists
<1>5. SomebodyToResume'
  BY DEF SomebodyToResume, TypeOK
<1>6. RunsOnItsExecutor'
  BY DEF RunsOnItsExecutor, TypeOK
<1>7. LeftThread'
  BY DEF LeftThread
<1>8. StickyExecutor'
  BY ConstantsAssumption DEF StickyExecutor, TypeOK
<1> QED
  BY <1>1, <1>2, <1>3, <1>4, <1>5, <1>6, <1>7, <1>8

\* Only the local expected changes.
LEMMA AwaitLockReloadInv ==
    ASSUME Inv, NEW c \in Coroutines, AwaitLockReload(c)
    PROVE  Inv'
<1> USE DEF AwaitLockReload, lockVars, stickyVars, relVars
<1>0. Pointer(sender) \in Coroutines \cup {NotLocked, Null}
  BY ListPop DEF TypeOK, Pointer
<1>1. TypeOK'
  BY <1>0 DEF TypeOK
<1>2. MutualExclusion' /\ LockWord'
  BY DEF MutualExclusion, LockWord, Holds, Inside, Releasing
<1>3. Lists'
  BY DEF Lists, Waiting, Stack
<1>4. SomebodyToResume' /\ RunsOnItsExecutor' /\ LeftThread' /\ StickyExecutor'
  BY DEF SomebodyToResume, RunsOnItsExecutor, LeftThread, StickyExecutor
<1> QED
  BY <1>1, <1>2, <1>3, <1>4

\* The mutex became free before the coroutine was suspended.
LEMMA AwaitLockAcquireInv ==
    ASSUME Inv, NEW c \in Coroutines, AwaitLockAcquire(c)
    PROVE  Inv'
<1> USE DEF AwaitLockAcquire, LockFree, relVars
<1>1. TypeOK'
  BY LockedWord DEF TypeOK, States
<1>2. MutualExclusion'
  BY DEF MutualExclusion, LockWord, Holds, Inside, Releasing, TypeOK
<1>3. LockWord'
  BY LockedWord DEF LockWord, Holds, Inside, TypeOK
<1>4. Lists'
  <2>1. Stack = <<>> /\ Stack' = <<>>
    BY DEF Stack
  <2>2. Waiting' = Waiting
    BY DEF Waiting, TypeOK
  <2> QED
    BY <2>1, <2>2 DEF Lists
<1>5. SomebodyToResume'
  BY DEF SomebodyToResume, LockWord, Holds, Inside, Releasing, TypeOK
<1>6. RunsOnItsExecutor'
  BY DEF RunsOnItsExecutor, TypeOK
<1>7. LeftThread'
  BY DEF LeftThread
<1>8. StickyExecutor'
  BY DEF StickyExecutor, TypeOK
<1> QED
  BY <1>1, <1>2, <1>3, <1>4, <1>5, <1>6, <1>7, <1>8

\* The compare-exchange that pushes the coroutine: the lock word is a list, the
\* one that expected is the head of, and the coroutine was not in it.
LEMMA AwaitLockPushInv ==
    ASSUME Inv, NEW c \in Coroutines, AwaitLockPush(c)
    PROVE  Inv'
<1> USE DEF AwaitLockPush, stickyVars, relVars
<1>0. sender # NotLocked /\ sender \in Seq(Coroutines) /\ Stack = sender
  BY DEF Pointer, TypeOK, Stack
<1>a. /\ sender' \in Seq(Coroutines) /\ sender' # <<>> /\ sender' # NotLocked
      /\ ToSet(sender') = {c} \cup ToSet(sender)
      /\ c \notin ToSet(sender) /\ IsInjective(sender) => IsInjective(sender')
  BY <1>0, ListPush, LockedWord
<1>1. TypeOK'
  BY <1>a DEF TypeOK, States
<1>2. MutualExclusion'
  BY DEF MutualExclusion, Holds, Inside, Releasing, TypeOK
<1>3. LockWord'
  BY <1>0, <1>a DEF LockWord, Holds, Inside, Releasing, TypeOK
<1>4. Lists'
  <2>1. Stack' = sender'
    BY <1>a DEF Stack
  <2>2. Waiting' = Waiting \cup {c} /\ c \notin Waiting
    BY DEF Waiting, TypeOK
  <2> QED
    BY <1>0, <1>a, <2>1, <2>2 DEF Lists
<1>5. SomebodyToResume'
  BY <1>a DEF SomebodyToResume, TypeOK
<1>6. RunsOnItsExecutor'
  BY DEF RunsOnItsExecutor, TypeOK
<1>7. LeftThread'
  BY DEF LeftThread
<1>8. StickyExecutor'
  BY DEF StickyExecutor, TypeOK
<1> QED
  BY <1>1, <1>2, <1>3, <1>4, <1>5, <1>6, <1>7, <1>8

\* Unlock up to TryUnlockAwait: the mutex becomes free if both lists are empty,
\* and otherwise the coroutine keeps it.  A sticky guard stays on the way to
\* UnlockHereAwait only if it remembers no executor.
LEMMA UnlockInv ==
    ASSUME Inv, NEW c \in Coroutines, NEW here \in BOOLEAN, Unlock(c, here) \/ UnlockStickyHere(c)
    PROVE  Inv'
<1> USE DEF Unlock, UnlockStickyHere, TryUnlock, DropGuard, relVars, stickyVars
<1>0. Holds(c) /\ Inside(c) /\ ~Releasing(c) /\ \A d \in Coroutines : d # c => ~Holds(d)
  BY HolderAlone DEF Holds, Inside, MutualExclusion
<1>1. TypeOK'
  <2>1. pc' \in [Coroutines -> States] /\ sender' \in {NotLocked} \cup Seq(Coroutines)
    BY DEF TypeOK, States
  <2>2. /\ guard' \in [Coroutines -> {"plain", "sticky"}]
        /\ sticky' \in [Coroutines -> Executors \cup {Null}]
        /\ home' \in [Coroutines -> Executors \cup {Null}]
    BY DEF TypeOK
  <2> QED
    BY <2>1, <2>2 DEF TypeOK
<1>2. MutualExclusion'
  BY <1>0 DEF MutualExclusion, Holds, Inside, Releasing, TypeOK
<1>3. LockWord'
  BY <1>0 DEF LockWord, TryUnlockAwait, Holds, Inside, Releasing, TypeOK
<1>4. Lists'
  <2>1. Stack' = Stack
    BY DEF Stack, TryUnlockAwait
  <2>2. Waiting' = Waiting
    BY DEF Waiting, TypeOK
  <2> QED
    BY <2>1, <2>2, <1>0, HolderLocks DEF Lists, TryUnlockAwait
<1>5. SomebodyToResume'
  BY <1>0 DEF SomebodyToResume, TryUnlockAwait, BatchingPossible, Holds, Inside, Releasing, TypeOK
<1>6. RunsOnItsExecutor'
  BY DEF RunsOnItsExecutor, TypeOK
<1>7. LeftThread'
  BY DEF LeftThread
<1>8. StickyExecutor'
  BY DEF StickyExecutor, TypeOK
<1> QED
  BY <1>1, <1>2, <1>3, <1>4, <1>5, <1>6, <1>7, <1>8

\* The mutex passes to the next waiter, which is submitted.
LEMMA UnlockHereAwaitInv ==
    ASSUME Inv, NEW c \in Coroutines, UnlockHereAwait(c)
    PROVE  Inv'
<1> USE DEF UnlockHereAwait, DropGuard, relVars
<1> DEFINE next == Head(GetHead)
<1>0. Holds(c) /\ Inside(c) /\ ~Releasing(c) /\ \A d \in Coroutines : d # c => ~Holds(d)
  BY HolderAlone DEF Holds, Inside, MutualExclusion
<1>a. /\ next \in Waiting
      /\ sender' \in Seq(Coroutines) /\ receiver' \in Seq(Coroutines)
      /\ ToSet(sender') \cup ToSet(receiver') = Waiting \ {next}
      /\ ToSet(sender') \cap ToSet(receiver') = {}
      /\ IsInjective(sender') /\ IsInjective(receiver')
  BY <1>0, TakeHeadLists DEF SomebodyToResume
<1>b. next \in Coroutines /\ pc[next] = "waiting" /\ next # c
  BY <1>a DEF Waiting
<1>c. pc' = [pc EXCEPT ![c] = "out", ![next] = "granted"]
  OBVIOUS
<1>d. sender' # NotLocked
  BY <1>a, LockedWord
<1> HIDE DEF next
<1>1. TypeOK'
  BY <1>a, <1>b, <1>c DEF TypeOK, States
<1>2. MutualExclusion'
  BY <1>0, <1>b, <1>c DEF MutualExclusion, Holds, Inside, Releasing, TypeOK
<1>3. LockWord'
  BY <1>b, <1>c, <1>d DEF LockWord, Holds, Inside, TypeOK
<1>4. Lists'
  <2>1. Stack' = sender'
    BY <1>d DEF Stack
  <2>2. Waiting' = Waiting \ {next}
    BY <1>b, <1>c DEF Waiting, TypeOK
  <2> QED
    BY <1>a, <1>d, <2>1, <2>2 DEF Lists
<1>5. SomebodyToResume'
  BY <1>0, <1>b, <1>c DEF SomebodyToResume, Holds, Inside, Releasing, TypeOK
<1>6. RunsOnItsExecutor'
  BY <1>b, <1>c DEF RunsOnItsExecutor, TypeOK
<1>7. LeftThread'
  BY DEF LeftThread
<1>8. StickyExecutor'
  BY <1>b, <1>c DEF StickyExecutor, TypeOK
<1> QED
  BY <1>1, <1>2, <1>3, <1>4, <1>5, <1>6, <1>7, <1>8

\* With batching the next waiter goes on here, with the executor of the
\* coroutine that unlocks.
LEMMA AwaitUnlockInv ==
    ASSUME Inv, NEW c \in Coroutines, AwaitUnlock(c)
    PROVE  Inv'
<1> USE DEF AwaitUnlock, relVars, stickyVars
<1> DEFINE next == Head(receiver)
<1>0. Holds(c) /\ Inside(c) /\ ~Releasing(c) /\ \A d \in Coroutines : d # c => ~Holds(d)
  BY HolderAlone DEF Holds, Inside, MutualExclusion
<1>a. /\ next \in Coroutines /\ Tail(receiver) \in Seq(Coroutines)
      /\ ToSet(receiver) = {next} \cup ToSet(Tail(receiver))
      /\ next \notin ToSet(Tail(receiver)) /\ IsInjective(Tail(receiver))
  BY ListPop DEF TypeOK, Lists, SomebodyToResume
<1>b. next \in Coroutines /\ pc[next] = "waiting" /\ next # c
  BY <1>a DEF Lists, Waiting
<1>c. /\ receiver' = Tail(receiver)
      /\ exec' = [exec EXCEPT ![c] = exec[next], ![next] = exec[c]]
      /\ pc' = [pc EXCEPT ![c] = "sent", ![next] = "cs"]
      /\ thread' = [thread EXCEPT ![c] = Null, ![next] = thread[c]]
  OBVIOUS
<1>d. sender # NotLocked /\ Stack = sender /\ sender' = sender
  BY <1>0, HolderLocks
<1> HIDE DEF next
<1>1. TypeOK'
  <2>1. exec' \in [Coroutines -> Executors] /\ thread' \in [Coroutines -> Executors \cup {Null}]
    BY <1>b, <1>c DEF TypeOK
  <2>2. pc' \in [Coroutines -> States]
    BY <1>b, <1>c DEF TypeOK, States
  <2> QED
    BY <1>a, <1>c, <2>1, <2>2 DEF TypeOK
<1>2. MutualExclusion'
  BY <1>0, <1>b, <1>c DEF MutualExclusion, Holds, Inside, Releasing, TypeOK
<1>3. LockWord'
  BY <1>b, <1>c, <1>d DEF LockWord, Holds, Inside, TypeOK
<1>4. Lists'
  <2>1. Stack' = Stack
    BY <1>d DEF Stack
  <2>2. Waiting' = Waiting \ {next}
    BY <1>b, <1>c DEF Waiting, TypeOK
  <2> QED
    BY <1>a, <1>c, <1>d, <2>1, <2>2 DEF Lists
<1>5. SomebodyToResume'
  BY <1>0, <1>b, <1>c DEF SomebodyToResume, Holds, Inside, Releasing, TypeOK
<1>6. RunsOnItsExecutor'
  BY <1>b, <1>c DEF RunsOnItsExecutor, TypeOK
<1>7. LeftThread'
  BY DEF LeftThread
<1>8. StickyExecutor'
  <2>1. guard[c] = "plain" /\ sticky[c] = Null
    BY DEF StickyExecutor, TypeOK
  <2>2. guard[next] = "sticky" => sticky[next] # Null
    BY <1>b DEF StickyExecutor
  <2>3. ASSUME NEW d \in Coroutines, d # c, d # next
        PROVE  pc'[d] = pc[d] /\ exec'[d] = exec[d]
    BY <1>b, <1>c, <2>3 DEF TypeOK
  <2>4. pc'[next] = "cs"
    BY <1>b, <1>c DEF TypeOK
  <2>5. guard' = guard /\ sticky' = sticky /\ home' = home
    OBVIOUS
  <2> QED
    BY <1>b, <2>1, <2>2, <2>3, <2>4, <2>5, ZenonT(60) DEF StickyExecutor
<1> QED
  BY <1>1, <1>2, <1>3, <1>4, <1>5, <1>6, <1>7, <1>8

\* The coroutine is submitted; the thread it leaves behind has the mutex.  A
\* sticky guard submits it to the executor it came from.
LEMMA AwaitUnlockOnInv ==
    ASSUME Inv, NEW c \in Coroutines, NEW e \in Executors, AwaitUnlockOn(c, e),
           DropGuard(c) \/ (guard[c] = "sticky" /\ sticky[c] = e /\ UNCHANGED stickyVars)
    PROVE  Inv'
<1> USE DEF AwaitUnlockOn, DropGuard, lockVars, stickyVars
<1>0. Holds(c) /\ Inside(c) /\ ~Releasing(c) /\ \A d \in Coroutines : d # c => ~Holds(d)
  BY HolderAlone DEF Holds, Inside, MutualExclusion
<1>1. TypeOK'
  BY DEF TypeOK, States
<1>2. MutualExclusion'
  BY <1>0 DEF MutualExclusion, Holds, Inside, Releasing, TypeOK
<1>3. LockWord'
  BY <1>0 DEF LockWord, Holds, Inside, Releasing, TypeOK
<1>4. Lists'
  <2>1. Stack' = Stack /\ Waiting' = Waiting
    BY DEF Stack, Waiting, TypeOK
  <2> QED
    BY <2>1 DEF Lists
<1>5. SomebodyToResume'
  BY DEF SomebodyToResume, TypeOK
<1>6. RunsOnItsExecutor'
  BY DEF RunsOnItsExecutor, TypeOK
<1>7. LeftThread'
  BY DEF LeftThread, RunsOnItsExecutor, TypeOK
<1>8. StickyExecutor'
  BY ConstantsAssumption DEF StickyExecutor, TypeOK
<1> QED
  BY <1>1, <1>2, <1>3, <1>4, <1>5, <1>6, <1>7, <1>8

\* TryUnlockAwait on the thread left behind.
LEMMA UnlockOnTryInv ==
    ASSUME Inv, NEW c \in Coroutines, UnlockOnTry(c)
    PROVE  Inv'
<1> USE DEF UnlockOnTry, RelEnd, stickyVars
<1>0. Holds(c) /\ ~Inside(c) /\ \A d \in Coroutines : d # c => ~Holds(d)
  BY HolderAlone DEF Holds, Releasing, MutualExclusion
<1>1. TypeOK'
  BY DEF TypeOK
<1>2. MutualExclusion'
  BY <1>0 DEF MutualExclusion, Holds, Inside, Releasing, TypeOK
<1>3. LockWord'
  BY <1>0 DEF LockWord, Holds, Inside, Releasing, TypeOK
<1>4. Lists'
  <2>1. Stack' = Stack /\ Waiting' = Waiting
    BY DEF Stack, Waiting, TryUnlockAwait
  <2> QED
    BY <2>1, <1>0, HolderLocks DEF Lists, TryUnlockAwait
<1>5. SomebodyToResume'
  BY <1>0 DEF SomebodyToResume, TryUnlockAwait, Holds, Inside, Releasing, TypeOK
<1>6. RunsOnItsExecutor'
  BY DEF RunsOnItsExecutor
<1>7. LeftThread'
  BY DEF LeftThread, TypeOK
<1>8. StickyExecutor'
  BY DEF StickyExecutor
<1> QED
  BY <1>1, <1>2, <1>3, <1>4, <1>5, <1>6, <1>7, <1>8

\* The thread left behind hands the mutex on, and with batching itself.  The
\* next waiter may be the very coroutine that left.
LEMMA UnlockOnHeadInv ==
    ASSUME Inv, NEW c \in Coroutines, UnlockOnHead(c)
    PROVE  Inv'
<1> USE DEF UnlockOnHead, RelEnd, stickyVars
<1> DEFINE next == Head(GetHead)
<1>0. Holds(c) /\ ~Inside(c) /\ \A d \in Coroutines : d # c => ~Holds(d)
  BY HolderAlone DEF Holds, Releasing, MutualExclusion
<1>a. /\ next \in Waiting
      /\ sender' \in Seq(Coroutines) /\ receiver' \in Seq(Coroutines)
      /\ ToSet(sender') \cup ToSet(receiver') = Waiting \ {next}
      /\ ToSet(sender') \cap ToSet(receiver') = {}
      /\ IsInjective(sender') /\ IsInjective(receiver')
  BY <1>0, TakeHeadLists DEF SomebodyToResume
<1>b. next \in Coroutines /\ pc[next] = "waiting"
  BY <1>a DEF Waiting
<1>c. /\ \/ /\ exec' = [exec EXCEPT ![next] = relExec[c]]
            /\ pc' = [pc EXCEPT ![next] = "cs"]
            /\ thread' = [thread EXCEPT ![next] = relThread[c]]
         \/ /\ pc' = [pc EXCEPT ![next] = "granted"]
            /\ exec' = exec /\ thread' = thread
      /\ relExec[c] \in Executors /\ relThread[c] = relExec[c]
  BY DEF LeftThread
<1>d. sender' # NotLocked
  BY <1>a, LockedWord
<1> HIDE DEF next
<1>1. TypeOK'
  BY <1>a, <1>b, <1>c DEF TypeOK, States
<1>2. MutualExclusion'
  BY <1>0, <1>b, <1>c DEF MutualExclusion, Holds, Inside, Releasing, TypeOK
<1>3. LockWord'
  BY <1>b, <1>c, <1>d DEF LockWord, Holds, Inside, TypeOK
<1>4. Lists'
  <2>1. Stack' = sender'
    BY <1>d DEF Stack
  <2>2. Waiting' = Waiting \ {next}
    BY <1>b, <1>c DEF Waiting, TypeOK
  <2> QED
    BY <1>a, <1>d, <2>1, <2>2 DEF Lists
<1>5. SomebodyToResume'
  BY <1>0, <1>b, <1>c DEF SomebodyToResume, Holds, Inside, Releasing, TypeOK
<1>6. RunsOnItsExecutor'
  BY <1>b, <1>c DEF RunsOnItsExecutor, TypeOK
<1>7. LeftThread'
  BY DEF LeftThread, TypeOK
<1>8. StickyExecutor'
  <2>1. guard[next] = "sticky" => sticky[next] # Null
    BY <1>b DEF StickyExecutor
  <2>2. ASSUME NEW d \in Coroutines, d # next
        PROVE  pc'[d] = pc[d] /\ exec'[d] = exec[d]
    BY <1>b, <1>c, <2>2 DEF TypeOK
  <2>3. pc'[next] \in {"cs", "granted"}
    BY <1>b, <1>c DEF TypeOK
  <2> QED
    BY <1>b, <2>1, <2>2, <2>3 DEF StickyExecutor
<1> QED
  BY <1>1, <1>2, <1>3, <1>4, <1>5, <1>6, <1>7, <1>8

\* An executor runs a coroutine that was submitted to it.
LEMMA ResumeInv ==
    ASSUME Inv, NEW c \in Coroutines, Resume(c)
    PROVE  Inv'
<1> USE DEF Resume, DropGuard, lockVars, stickyVars, relVars
<1>1. TypeOK'
  BY DEF TypeOK, States
<1>2. MutualExclusion'
  BY DEF MutualExclusion, Holds, Inside, Releasing, TypeOK
<1>3. LockWord'
  BY DEF LockWord, Holds, Inside, Releasing, TypeOK
<1>4. Lists'
  <2>1. Stack' = Stack /\ Waiting' = Waiting
    BY DEF Stack, Waiting, TypeOK
  <2> QED
    BY <2>1 DEF Lists
<1>5. SomebodyToResume'
  BY DEF SomebodyToResume, TypeOK
<1>6. RunsOnItsExecutor'
  BY DEF RunsOnItsExecutor, TypeOK
<1>7. LeftThread'
  BY DEF LeftThread
<1>8. StickyExecutor'
  BY DEF StickyExecutor, TypeOK
<1> QED
  BY <1>1, <1>2, <1>3, <1>4, <1>5, <1>6, <1>7, <1>8

-----------------------------------------------------------------------------
(***************************************************************************)
(* The theorems.                                                           *)
(***************************************************************************)

\* Inv holds at first.
LEMMA InitInv == Init => Inv
<1> SUFFICES ASSUME Init PROVE Inv
  OBVIOUS
<1> USE DEF Init
<1>1. TypeOK
  <2>1. PICK t \in Templates : batching = t[1] /\ fifo = t[2]
    OBVIOUS
  <2>2. batching \in BOOLEAN /\ fifo \in BOOLEAN
    BY <2>1, ConstantsAssumption
  <2> QED
    BY <2>2, LockedWord DEF TypeOK, States
<1>2. MutualExclusion /\ LockWord
  BY DEF MutualExclusion, LockWord, Holds, Inside, Releasing
<1>3. Lists
  BY ListEmpty DEF Lists, Stack, Waiting
<1>4. SomebodyToResume /\ RunsOnItsExecutor /\ LeftThread /\ StickyExecutor
  BY DEF SomebodyToResume, RunsOnItsExecutor, LeftThread, StickyExecutor
<1> QED
  BY <1>1, <1>2, <1>3, <1>4

\* A step that changes nothing.
LEMMA StutterInv ==
    ASSUME Inv, UNCHANGED vars
    PROVE  Inv'
BY DEF vars, lockVars, stickyVars, relVars, TypeOK, MutualExclusion, LockWord, Lists,
       SomebodyToResume, RunsOnItsExecutor, LeftThread, StickyExecutor,
       Holds, Inside, Releasing, Stack, Waiting

\* Every step preserves Inv.
LEMMA NextInv ==
    ASSUME Inv, [Next]_vars
    PROVE  Inv'
<1>1. ASSUME NEW c \in Coroutines, Lock(c) PROVE Inv'
  BY <1>1, AcquireInv, SuspendInv, AwaitLockReloadInv, AwaitLockAcquireInv, AwaitLockPushInv DEF Lock
<1>2. ASSUME NEW c \in Coroutines, UnlockOn(c) PROVE Inv'
  BY <1>2, AwaitUnlockOnInv DEF UnlockOn
<1>3. ASSUME NEW c \in Coroutines, UnlockSticky(c) PROVE Inv'
  <2>1. sticky[c] \in Executors /\ guard[c] = "sticky"
    BY <1>3 DEF UnlockSticky, TypeOK, StickyExecutor
  <2> QED
    BY <1>3, <2>1, AwaitUnlockOnInv DEF UnlockSticky
<1>4. ASSUME NEW c \in Coroutines, LeaveCriticalSection(c) PROVE Inv'
  BY <1>2, <1>3, <1>4, UnlockInv DEF LeaveCriticalSection
<1>5. ASSUME NEW c \in Coroutines, FinishUnlock(c) PROVE Inv'
  BY <1>5, UnlockHereAwaitInv, AwaitUnlockInv, UnlockOnTryInv, UnlockOnHeadInv DEF FinishUnlock
<1> QED
  BY <1>1, <1>4, <1>5, ResumeInv, StutterInv DEF Next

\* Inv is an invariant.
THEOREM Invariance == Spec => []Inv
BY InitInv, NextInv, PTL DEF Spec

\* Every variable keeps its type.
THEOREM TypeCorrect == Spec => []TypeOK
BY Invariance, PTL

\* At most one coroutine has the mutex, or the unlock it left behind.
THEOREM Exclusion == Spec => []MutualExclusion
BY Invariance, PTL

\* No waiter is lost or queued twice, and the lock word tells the truth.
THEOREM NoWaiterLost == Spec => []WaitersQueued
<1>1. Inv => WaitersQueued
  BY QueueOfLists
<1> QED
  BY <1>1, Invariance, PTL

\* Executors survive the hand-over of threads, and co_await guard.Unlock() of a
\* StickyGuard brings the coroutine back to the executor it came from.
THEOREM ExecutorsAreKept == Spec => ExecutorsKept
<1>1. ASSUME Inv, [Next]_vars, NEW c \in Coroutines, StickyUnlockEnds(c)
      PROVE  exec'[c] = home[c]
  <2> USE <1>1
  <2>1. CASE UnlockStickyHere(c)
    BY <2>1 DEF StickyUnlockEnds, UnlockStickyHere, TryUnlock, StickyExecutor
  <2> SUFFICES ASSUME guard[c] = "sticky", pc[c] \in {"handoff", "sent"}, pc'[c] = "out"
               PROVE  exec'[c] = home[c]
    BY <2>1 DEF StickyUnlockEnds
  <2>2. exec[c] = home[c]
    BY DEF StickyExecutor
  <2>3. ASSUME NEW d \in Coroutines, Lock(d) PROVE FALSE
    BY <2>3 DEF Lock, Acquire, Suspend, AwaitLockReload, AwaitLockAcquire, LockFree, AwaitLockPush, TypeOK
  <2>4. ASSUME NEW d \in Coroutines, LeaveCriticalSection(d) PROVE FALSE
    BY <2>4 DEF LeaveCriticalSection, Unlock, UnlockStickyHere, TryUnlock, UnlockOn, UnlockSticky,
                AwaitUnlockOn, TypeOK
  <2>5. ASSUME NEW d \in Coroutines, UnlockHereAwait(d) PROVE exec' = exec
    BY <2>5 DEF UnlockHereAwait
  <2>6. ASSUME NEW d \in Coroutines, AwaitUnlock(d) \/ UnlockOnTry(d) \/ UnlockOnHead(d) PROVE FALSE
    BY <2>6 DEF AwaitUnlock, UnlockOnTry, UnlockOnHead, TypeOK
  <2>7. ASSUME NEW d \in Coroutines, Resume(d) PROVE exec' = exec
    BY <2>7 DEF Resume
  <2>8. CASE UNCHANGED vars
    BY <2>8 DEF vars
  <2> QED
    BY <2>2, <2>3, <2>4, <2>5, <2>6, <2>7, <2>8 DEF Next, FinishUnlock
<1>2. Inv /\ [Next]_vars =>
        /\ RunsOnItsExecutor'
        /\ \A c \in Coroutines : StickyUnlockEnds(c) => exec'[c] = home[c]
  BY <1>1, NextInv
<1> QED
  BY <1>2, Invariance, PTL DEF Spec, ExecutorsKept

-----------------------------------------------------------------------------
(* The fiber simulator.  Its module is instantiated, not extended; from    *)
(* here on a variable that both modules have, pc or thread, is the         *)
(* simulator's.                                                            *)

CONSTANTS Fibers, Main, Worlds, Delays, None

VARIABLES world, running, cur, rq, sleep, st, q, lk, held, atomic, reg, adds,
          until, op, left, alive, joining, freed

F == INSTANCE Fiber

Queues == {"x", "s", "cv", "atomic"}
Places == {"run", "do", "wait", "queue", "after", "join"}
Ops == F!Injected \cup F!Plain

\* The operations in which a fiber waits in each queue.
WaitsIn(n) ==
    CASE n = "x" -> {"lock", "lock_shared", "try_lock_until"}
      [] n = "s" -> {"try_lock_shared_until"}
      [] n = "cv" -> {"wait", "wait_until"}
      [] n = "atomic" -> {"atomic_wait"}

FiberTypes ==
    /\ world \in Worlds
    /\ cur \in Fibers \cup {None} /\ rq \in SUBSET Fibers
    /\ DOMAIN sleep \in SUBSET Int /\ sleep \in [DOMAIN sleep -> SUBSET Fibers]
    /\ \A k \in DOMAIN sleep : k + F!TickLength >= 1
    /\ st \in [Fibers -> F!FiberStates \cup {None}]
    /\ q \in [Queues -> SUBSET Fibers]
    /\ op \in [Fibers -> Ops \cup {None}] /\ pc \in [Fibers -> Places]
    /\ until \in [Fibers -> Int]

\* The Threads: main has all of them, and creates them at once.
FiberThreads ==
    /\ thread \in [Fibers -> {None, Main}] /\ joining \in [Fibers -> {None, Main}]
    /\ alive \in SUBSET Fibers
    /\ thread[Main] = None /\ joining[Main] = None /\ Main \in alive /\ st[Main] # None
    /\ \A f, g \in Fibers \ {Main} : st[f] = None => st[g] = None
    /\ \A f \in Fibers \ {Main} :
         /\ st[f] = None => thread[f] = None /\ joining[f] = None /\ f \in alive
         /\ st[f] \notin {None, "Completed"} => (f \in alive <=> thread[f] = Main)
    /\ freed = [f \in Fibers |-> IF st[f] = "Completed" /\ f # Main /\ thread[f] = None THEN 1 ELSE 0]

\* The thread that is being joined.
Joined(g) == joining[g] = Main /\ thread[g] = Main

FiberJoins ==
    /\ \A g \in Fibers : joining[g] = Main /\ thread[g] = None => st[g] = "Completed"
    /\ \A g \in Fibers : Joined(g) =>
         /\ pc[Main] = "join"
         /\ st[g] = "Completed" => Main \in rq \cup {cur}
         /\ st[g] # "Completed" => st[Main] = "Suspended" /\ Main \notin rq
    /\ \A g, h \in Fibers : Joined(g) /\ Joined(h) => g = h
    /\ \A f \in Fibers : pc[f] = "join" => f = Main /\ \E g \in Fibers : Joined(g)

\* Where a fiber may be: in one list at most, and in the queue of a primitive
\* only as long as it waits there.
Place(f) ==
    /\ st[f] = "Running" <=> cur = f
    /\ st[f] = "Waiting" => f \in rq /\ \A n \in Queues : f \notin q[n]
    /\ f \in rq => st[f] \in {"Waiting", "Suspended"} /\ \A k \in DOMAIN sleep : f \notin sleep[k]
    /\ \A k, l \in DOMAIN sleep : f \in sleep[k] /\ f \in sleep[l] => k = l
    /\ \A k \in DOMAIN sleep : f \in sleep[k] =>
         st[f] = "Suspended" /\ (pc[f] = "run" \/ (pc[f] = "wait" /\ op[f] \in F!Timed))
    /\ \A n \in Queues : f \in q[n] =>
         /\ pc[f] = "wait" /\ op[f] \in WaitsIn(n) /\ st[f] \in {"Running", "Suspended"}
         /\ f \in rq \/ cur = f => op[f] \in F!Timed
    /\ st[f] \in {None, "Completed"} => pc[f] = "run"

FiberPlaces == \A f \in Fibers : Place(f)

\* Who is suspended has somebody who will wake it.
FiberWakes ==
    \A f \in Fibers : st[f] = "Suspended" =>
        \/ f \in rq
        \/ \E k \in DOMAIN sleep : f \in sleep[k]
        \/ op[f] \notin F!Timed /\ \E n \in Queues : f \in q[n]
        \/ pc[f] = "join" /\ \E g \in Fibers : Joined(g) /\ st[g] # "Completed"

\* A fiber that is going to erase the entry of the sleep list it slept in.
Eraser(f, k) ==
    f \in rq \cup {cur} /\ pc[f] = "wait" /\ op[f] \in F!Timed /\ until[f] = k

\* An empty entry whose time has not come has somebody to erase it.  (A tick may
\* pass over the others.)
Entries ==
    /\ \A f \in Fibers, k \in DOMAIN sleep : k >= 0 /\ f \in sleep[k] /\ pc[f] = "wait" => until[f] = k
    /\ \A k \in DOMAIN sleep : k >= 0 /\ sleep[k] = {} => \E f \in Fibers : Eraser(f, k)

FiberLists == FiberTypes /\ FiberThreads /\ FiberJoins /\ FiberPlaces /\ FiberWakes /\ Entries

\* The mutex that is called std::mutex: who holds it, and that a fiber that
\* queues for it while it is free has another one on the way.
LockTypes ==
    /\ lk = [i \in DOMAIN lk |-> lk[i]] /\ "occupied" \in DOMAIN lk
    /\ held \in [Fibers -> [x : Int, s : Int]]

LockFields ==
    /\ \A f \in Fibers : held[f].s = 0 /\ held[f].x \in {0, 1} /\ op[f] \notin F!Special
    /\ \A f, g \in Fibers : held[f].x = 1 /\ held[g].x = 1 => f = g
    /\ lk.occupied <=> \E f \in Fibers : held[f].x = 1
    /\ \A f \in Fibers : pc[f] = "do" /\ op[f] \in {"unlock", "wait", "wait_until"} => held[f].x = 1

\* A fiber that was woken, and looks at the mutex again.
Looks(f) == op[f] = "lock" /\ pc[f] = "wait" /\ f \in rq \cup {cur}

LockHandOver == q["x"] # {} /\ ~lk.occupied => \E f \in Fibers : Looks(f)

FiberLock == LockTypes /\ (world.kind = "mutex" => LockFields /\ LockHandOver)

\* The atomic.
FiberWord == atomic \in Int /\ adds = atomic /\ reg \in [Fibers -> Int]

FiberInv == FiberLists /\ FiberLock /\ FiberWord

\* What the constants are told apart from.
LEMMA FiberConstants ==
    ASSUME F!ConstantsAssumption
    PROVE  /\ Main \in Fibers /\ None \notin Fibers
           /\ None \notin F!FiberStates /\ None \notin Ops
BY DEF F!ConstantsAssumption, Ops

\* A fiber waits in one queue at a time.
LEMMA OneQueue ==
    ASSUME NEW m \in Queues, NEW n \in Queues, NEW o, o \in WaitsIn(m), o \in WaitsIn(n)
    PROVE  m = n
BY DEF Queues, WaitsIn

\* The running fiber, when it neither returns from a timed wait nor joins.
Free(f) == f \in Fibers /\ cur = f /\ pc[f] # "join" /\ ~(pc[f] = "wait" /\ op[f] \in F!Timed)

\* Such a fiber is in no list.
LEMMA FreeIsNowhere ==
    ASSUME F!ConstantsAssumption, FiberLists, NEW f, Free(f)
    PROVE  /\ st[f] = "Running" /\ f \notin rq
           /\ \A n \in Queues : f \notin q[n]
           /\ \A k \in DOMAIN sleep : f \notin sleep[k]
BY DEF FiberLists, FiberPlaces, Place, Free

\* The fibers a notification takes out of a queue are all suspended: it wakes
\* every one of them.
LEMMA NotifyWakes ==
    ASSUME F!ConstantsAssumption, FiberLists, NEW f, Free(f),
           NEW n \in Queues, NEW W \in SUBSET q[n], F!Notify(n, W)
    PROVE  /\ f \notin W /\ W \in SUBSET Fibers
           /\ \A g \in W : st[g] = "Suspended" /\ pc[g] = "wait" /\ op[g] \in WaitsIn(n) /\ cur # g
           /\ q' = [q EXCEPT ![n] = @ \ W]
           /\ rq' = rq \cup W
           /\ st' = [g \in Fibers |-> IF g \in W THEN "Waiting" ELSE st[g]]
           /\ sleep' = [k \in DOMAIN sleep |-> sleep[k] \ W]
<1>1. f \notin W
  BY FreeIsNowhere
<1>2. W \in SUBSET Fibers
  BY DEF FiberLists, FiberTypes
<1>3. \A g \in W : st[g] = "Suspended" /\ pc[g] = "wait" /\ op[g] \in WaitsIn(n) /\ cur # g
  BY <1>1, <1>2 DEF FiberLists, FiberPlaces, Place, Free
<1>4. {g \in W : st[g] # "Waiting"} = W
  BY <1>3
<1> QED
  BY <1>1, <1>2, <1>3, <1>4 DEF F!Notify, F!ScheduleAndRemove, F!Schedule

\* A step of the running fiber that does not suspend it, with the
\* notifications it sends.
LEMMA FiberStays ==
    ASSUME F!ConstantsAssumption, FiberLists, NEW f, Free(f),
           NEW n \in Queues, NEW W \in SUBSET q[n], F!Notify(n, W),
           NEW o \in Ops \cup {None}, NEW p \in Places \ {"wait", "join"},
           op' = [op EXCEPT ![f] = o], pc' = [pc EXCEPT ![f] = p],
           UNCHANGED <<world, cur, until, thread, alive, joining, freed>>
    PROVE  FiberLists'
<1> USE FiberConstants
<1>1. /\ f \in Fibers /\ f \notin W /\ W \in SUBSET Fibers
      /\ \A g \in W : st[g] = "Suspended" /\ pc[g] = "wait" /\ op[g] \in WaitsIn(n) /\ cur # g
      /\ q' = [q EXCEPT ![n] = @ \ W]
      /\ rq' = rq \cup W
      /\ st' = [g \in Fibers |-> IF g \in W THEN "Waiting" ELSE st[g]]
      /\ sleep' = [k \in DOMAIN sleep |-> sleep[k] \ W]
  BY NotifyWakes DEF Free
<1>2. /\ st[f] = "Running" /\ f \notin rq /\ cur = f /\ pc[f] # "join"
      /\ \A m \in Queues : f \notin q[m]
      /\ \A k \in DOMAIN sleep : f \notin sleep[k]
  BY FreeIsNowhere DEF Free
<1>3. FiberTypes'
  BY <1>1 DEF FiberLists, FiberTypes, F!FiberStates, F!TickLength
<1>4. FiberThreads'
  <2>1. \A g \in Fibers : (st'[g] = None <=> st[g] = None) /\ (st'[g] = "Completed" <=> st[g] = "Completed")
    BY <1>1 DEF F!FiberStates
  <2> QED
    BY <2>1, <1>1 DEF FiberLists, FiberThreads
<1>5. FiberJoins'
  BY <1>1, <1>2 DEF FiberLists, FiberJoins, FiberTypes, FiberThreads, Joined
<1>6. FiberPlaces'
  <2> SUFFICES ASSUME NEW h \in Fibers PROVE Place(h)'
    BY DEF FiberPlaces
  <2>0. Place(h)
    BY DEF FiberLists, FiberPlaces
  <2>1. CASE h = f
    BY <2>0, <2>1, <1>1, <1>2 DEF FiberLists, FiberTypes, Place, F!FiberStates
  <2>2. CASE h \in W
    <3>1. \A m \in Queues : h \notin q'[m]
      BY <2>0, <2>2, <1>1, OneQueue DEF FiberLists, FiberTypes, Place
    <3> QED
      BY <2>0, <2>2, <3>1, <1>1, <1>2 DEF FiberLists, FiberTypes, Place, F!FiberStates
  <2>3. CASE h # f /\ h \notin W
    BY <2>0, <2>3, <1>1, <1>2 DEF FiberLists, FiberTypes, Place
  <2> QED
    BY <2>1, <2>2, <2>3
<1>7. FiberWakes'
  BY <1>1, <1>2 DEF FiberLists, FiberTypes, FiberWakes, FiberThreads, Joined
<1>8. Entries'
  <2>1. Entries
    BY DEF FiberLists
  <2>3. \A h \in Fibers, k \in DOMAIN sleep' : k >= 0 /\ h \in sleep'[k] /\ pc'[h] = "wait" => until'[h] = k
    BY <2>1, <1>1, <1>2 DEF FiberLists, FiberTypes, Entries
  <2>4. ASSUME NEW k \in DOMAIN sleep', k >= 0, sleep'[k] = {}
        PROVE  \E h \in Fibers : Eraser(h, k)'
    <3>1. CASE sleep[k] = {}
      <4>1. PICK h \in Fibers : Eraser(h, k)
        BY <3>1, <2>1, <2>4, <1>1 DEF Entries
      <4>2. h # f
        BY <4>1 DEF Free, Eraser
      <4> QED
        BY <4>1, <4>2, <1>1 DEF FiberLists, FiberTypes, Eraser
    <3>2. CASE sleep[k] # {}
      <4>1. PICK h : h \in sleep[k] /\ h \in W
        BY <3>2, <2>4, <1>1
      <4>2. op[h] \in F!Timed /\ pc[h] = "wait" /\ until[h] = k /\ h # f /\ h \in Fibers
        BY <4>1, <2>1, <2>4, <1>1 DEF FiberLists, FiberPlaces, Place, Entries
      <4> QED
        BY <4>1, <4>2, <1>1 DEF FiberLists, FiberTypes, Eraser
    <3> QED
      BY <3>1, <3>2
  <2> QED
    BY <2>3, <2>4 DEF Entries
<1> QED
  BY <1>3, <1>4, <1>5, <1>6, <1>7, <1>8 DEF FiberLists

\* The running fiber goes to the end of the queue of the scheduler.
LEMMA FiberYields ==
    ASSUME F!ConstantsAssumption, FiberLists, NEW f, Free(f), F!Reschedule(f),
           NEW o \in Ops \cup {None}, NEW p \in Places \ {"wait", "join"},
           op' = [op EXCEPT ![f] = o], pc' = [pc EXCEPT ![f] = p],
           UNCHANGED <<world, sleep, until, q, thread, alive, joining, freed>>
    PROVE  FiberLists'
<1> USE FiberConstants
<1>1. /\ f \in Fibers /\ rq' = rq \cup {f} /\ cur' = None
      /\ st' = [st EXCEPT ![f] = "Suspended"]
  BY DEF Free, F!Reschedule, F!Suspend
<1>2. /\ st[f] = "Running" /\ f \notin rq /\ cur = f /\ pc[f] # "join"
      /\ \A m \in Queues : f \notin q[m]
      /\ \A k \in DOMAIN sleep : f \notin sleep[k]
  BY FreeIsNowhere DEF Free
<1>3. FiberTypes'
  BY <1>1 DEF FiberLists, FiberTypes, F!FiberStates, F!TickLength
<1>4. FiberThreads'
  <2>1. \A g \in Fibers : (st'[g] = None <=> st[g] = None) /\ (st'[g] = "Completed" <=> st[g] = "Completed")
    BY <1>1, <1>2 DEF FiberLists, FiberTypes, F!FiberStates
  <2> QED
    BY <2>1, <1>1 DEF FiberLists, FiberThreads
<1>5. FiberJoins'
  BY <1>1, <1>2 DEF FiberLists, FiberJoins, FiberTypes, FiberThreads, Joined
<1>6. FiberPlaces'
  <2> SUFFICES ASSUME NEW h \in Fibers PROVE Place(h)'
    BY DEF FiberPlaces
  <2>0. Place(h)
    BY DEF FiberLists, FiberPlaces
  <2>1. CASE h = f
    BY <2>0, <2>1, <1>1, <1>2 DEF FiberLists, FiberTypes, Place, F!FiberStates
  <2>2. CASE h # f
    BY <2>0, <2>2, <1>1, <1>2 DEF FiberLists, FiberTypes, Place
  <2> QED
    BY <2>1, <2>2
<1>7. FiberWakes'
  BY <1>1, <1>2 DEF FiberLists, FiberTypes, FiberWakes, FiberThreads, Joined
<1>8. Entries'
  BY <1>1, <1>2 DEF FiberLists, FiberTypes, Entries, Eraser, Free, F!TickLength
<1> QED
  BY <1>3, <1>4, <1>5, <1>6, <1>7, <1>8 DEF FiberLists

\* The running fiber waits in a queue, without a time.
LEMMA FiberWaits ==
    ASSUME F!ConstantsAssumption, FiberLists, NEW f, Free(f), NEW n \in Queues, F!WaitIn(f, n),
           op[f] \in WaitsIn(n) \ F!Timed,
           UNCHANGED <<world, op, thread, alive, joining, freed>>
    PROVE  FiberLists'
<1> USE FiberConstants
<1>1. /\ f \in Fibers /\ rq' = rq /\ cur' = None /\ sleep' = sleep /\ until' = until
      /\ st' = [st EXCEPT ![f] = "Suspended"]
      /\ pc' = [pc EXCEPT ![f] = "wait"]
      /\ q' = [q EXCEPT ![n] = @ \cup {f}]
  BY DEF Free, F!WaitIn, F!Suspend
<1>2. /\ st[f] = "Running" /\ f \notin rq /\ cur = f /\ pc[f] # "join"
      /\ \A m \in Queues : f \notin q[m]
      /\ \A k \in DOMAIN sleep : f \notin sleep[k]
  BY FreeIsNowhere DEF Free
<1>3. FiberTypes'
  BY <1>1 DEF FiberLists, FiberTypes, F!FiberStates, Places, F!TickLength
<1>4. FiberThreads'
  <2>1. \A g \in Fibers : (st'[g] = None <=> st[g] = None) /\ (st'[g] = "Completed" <=> st[g] = "Completed")
    BY <1>1, <1>2 DEF FiberLists, FiberTypes, F!FiberStates
  <2> QED
    BY <2>1, <1>1 DEF FiberLists, FiberThreads
<1>5. FiberJoins'
  BY <1>1, <1>2 DEF FiberLists, FiberJoins, FiberTypes, FiberThreads, Joined
<1>6. FiberPlaces'
  <2> SUFFICES ASSUME NEW h \in Fibers PROVE Place(h)'
    BY DEF FiberPlaces
  <2>0. Place(h)
    BY DEF FiberLists, FiberPlaces
  <2>1. CASE h = f
    BY <2>0, <2>1, <1>1, <1>2 DEF FiberLists, FiberTypes, Place, F!FiberStates
  <2>2. CASE h # f
    BY <2>0, <2>2, <1>1, <1>2 DEF FiberLists, FiberTypes, Place
  <2> QED
    BY <2>1, <2>2
<1>7. FiberWakes'
  BY <1>1, <1>2 DEF FiberLists, FiberTypes, FiberWakes, FiberThreads, Joined
<1>8. Entries'
  BY <1>1, <1>2 DEF FiberLists, FiberTypes, Entries, Eraser, Free, F!TickLength
<1> QED
  BY <1>3, <1>4, <1>5, <1>6, <1>7, <1>8 DEF FiberLists

\* The running fiber sleeps, and waits in a queue meanwhile or in none.
LEMMA FiberSleeps ==
    ASSUME F!ConstantsAssumption, FiberLists, NEW f, Free(f), NEW d \in Delays, d > 0, F!SleepUntil(f, d),
           NEW N \in SUBSET Queues, NEW p \in {"run", "wait"},
           q' \in [Queues -> SUBSET Fibers],
           \A n \in Queues : q'[n] = IF n \in N THEN q[n] \cup {f} ELSE q[n],
           pc' = [pc EXCEPT ![f] = p],
           p = "run" => N = {} /\ until' = until,
           p = "wait" => op[f] \in F!Timed /\ until' = [until EXCEPT ![f] = d] /\ \A n \in N : op[f] \in WaitsIn(n),
           UNCHANGED <<world, rq, op, thread, alive, joining, freed>>
    PROVE  FiberLists'
<1> USE FiberConstants
<1>1. /\ f \in Fibers /\ cur' = None /\ d \in Int /\ ~(d <= 0) /\ d >= 0
      /\ st' = [st EXCEPT ![f] = "Suspended"]
      /\ sleep' = [k \in DOMAIN sleep \cup {d} |->
                     (IF k \in DOMAIN sleep THEN sleep[k] ELSE {}) \cup (IF k = d THEN {f} ELSE {})]
  BY DEF Free, F!SleepUntil, F!Suspend, F!ConstantsAssumption
<1>2. /\ st[f] = "Running" /\ f \notin rq /\ cur = f /\ pc[f] # "join"
      /\ \A m \in Queues : f \notin q[m]
      /\ \A k \in DOMAIN sleep : f \notin sleep[k]
  BY FreeIsNowhere DEF Free
<1>a. /\ DOMAIN sleep' = DOMAIN sleep \cup {d}
      /\ \A k \in DOMAIN sleep' : f \in sleep'[k] <=> k = d
      /\ \A k \in DOMAIN sleep' : \A h : h # f => (h \in sleep'[k] <=> k \in DOMAIN sleep /\ h \in sleep[k])
  BY <1>1, <1>2
<1>3. FiberTypes'
  <2>1. sleep' \in [DOMAIN sleep' -> SUBSET Fibers] /\ DOMAIN sleep' \in SUBSET Int
    BY <1>1 DEF FiberLists, FiberTypes
  <2>3. F!TickLength \in Nat
    BY DEF FiberLists, FiberTypes, F!TickLength, F!ConstantsAssumption
  <2>4. \A k \in DOMAIN sleep' : k + F!TickLength >= 1
    BY <1>1, <1>a, <2>3 DEF FiberLists, FiberTypes
  <2>2. until' \in [Fibers -> Int]
    BY <1>1 DEF FiberLists, FiberTypes
  <2> QED
    BY <2>1, <2>2, <2>4, <1>1 DEF FiberLists, FiberTypes, F!FiberStates, Places, F!TickLength
<1>4. FiberThreads'
  <2>1. \A g \in Fibers : (st'[g] = None <=> st[g] = None) /\ (st'[g] = "Completed" <=> st[g] = "Completed")
    BY <1>1, <1>2 DEF FiberLists, FiberTypes, F!FiberStates
  <2> QED
    BY <2>1, <1>1 DEF FiberLists, FiberThreads
<1>5. FiberJoins'
  BY <1>1, <1>2 DEF FiberLists, FiberJoins, FiberTypes, FiberThreads, Joined
<1>6. FiberPlaces'
  <2> SUFFICES ASSUME NEW h \in Fibers PROVE Place(h)'
    BY DEF FiberPlaces
  <2>0. Place(h)
    BY DEF FiberLists, FiberPlaces
  <2>1. CASE h = f
    BY <2>0, <2>1, <1>1, <1>2, <1>a DEF FiberLists, FiberTypes, Place, F!FiberStates
  <2>2. CASE h # f
    BY <2>0, <2>2, <1>1, <1>2, <1>a DEF FiberLists, FiberTypes, Place
  <2> QED
    BY <2>1, <2>2
<1>7. FiberWakes'
  <2> SUFFICES ASSUME NEW h \in Fibers, st'[h] = "Suspended"
               PROVE  \/ h \in rq'
                      \/ \E k \in DOMAIN sleep' : h \in sleep'[k]
                      \/ op'[h] \notin F!Timed /\ \E n \in Queues : h \in q'[n]
                      \/ pc'[h] = "join" /\ \E g \in Fibers : Joined(g)' /\ st'[g] # "Completed"
    BY DEF FiberWakes
  <2>1. CASE h = f
    BY <2>1, <1>a
  <2>2. CASE h # f
    BY <2>2, <1>1, <1>2, <1>a DEF FiberLists, FiberTypes, FiberWakes, FiberThreads, Joined
  <2> QED
    BY <2>1, <2>2
<1>8. Entries'
  <2>1. Entries
    BY DEF FiberLists
  <2>3. \A h \in Fibers, k \in DOMAIN sleep' : k >= 0 /\ h \in sleep'[k] /\ pc'[h] = "wait" => until'[h] = k
    BY <2>1, <1>1, <1>2, <1>a DEF FiberLists, FiberTypes, Entries
  <2>4. ASSUME NEW k \in DOMAIN sleep', k >= 0, sleep'[k] = {}
        PROVE  \E h \in Fibers : Eraser(h, k)'
    <3>1. k \in DOMAIN sleep /\ sleep[k] = {}
      BY <2>4, <1>1, <1>a
    <3>2. PICK h \in Fibers : Eraser(h, k)
      BY <3>1, <2>1, <2>4 DEF Entries
    <3>3. h # f /\ h # None
      BY <3>2 DEF Free, Eraser
    <3> QED
      BY <3>2, <3>3, <1>1, <1>2 DEF FiberLists, FiberTypes, Eraser
  <2> QED
    BY <2>3, <2>4 DEF Entries
<1> QED
  BY <1>3, <1>4, <1>5, <1>6, <1>7, <1>8 DEF FiberLists

\* A timed wait whose time is past does not suspend the fiber.
LEMMA FiberWaitsNot ==
    ASSUME F!ConstantsAssumption, FiberLists, NEW f, Free(f), NEW n \in Queues, NEW d \in Delays, d = 0,
           op[f] \in WaitsIn(n) \cap F!Timed, F!WaitUntil(f, n, d),
           UNCHANGED <<world, op, thread, alive, joining, freed>>
    PROVE  FiberLists'
<1> USE FiberConstants
<1>1. /\ f \in Fibers /\ rq' = rq /\ cur' = cur /\ sleep' = sleep /\ st' = st
      /\ pc' = [pc EXCEPT ![f] = "wait"]
      /\ until' = [until EXCEPT ![f] = d] /\ d \in Int
      /\ q' = [q EXCEPT ![n] = @ \cup {f}]
  BY DEF Free, F!WaitUntil, F!SleepUntil
<1>2. /\ st[f] = "Running" /\ f \notin rq /\ cur = f /\ pc[f] # "join"
      /\ \A m \in Queues : f \notin q[m]
      /\ \A k \in DOMAIN sleep : f \notin sleep[k]
  BY FreeIsNowhere DEF Free
<1>3. FiberTypes'
  BY <1>1 DEF FiberLists, FiberTypes, F!FiberStates, Places, F!TickLength
<1>4. FiberThreads'
  BY <1>1 DEF FiberLists, FiberThreads
<1>5. FiberJoins'
  BY <1>1, <1>2 DEF FiberLists, FiberJoins, FiberTypes, FiberThreads, Joined
<1>6. FiberPlaces'
  <2> SUFFICES ASSUME NEW h \in Fibers PROVE Place(h)'
    BY DEF FiberPlaces
  <2>0. Place(h)
    BY DEF FiberLists, FiberPlaces
  <2>1. CASE h = f
    BY <2>0, <2>1, <1>1, <1>2 DEF FiberLists, FiberTypes, Place, F!FiberStates
  <2>2. CASE h # f
    BY <2>0, <2>2, <1>1, <1>2 DEF FiberLists, FiberTypes, Place
  <2> QED
    BY <2>1, <2>2
<1>7. FiberWakes'
  BY <1>1, <1>2 DEF FiberLists, FiberTypes, FiberWakes, FiberThreads, Joined
<1>8. Entries'
  BY <1>1, <1>2 DEF FiberLists, FiberTypes, Entries, Eraser, Free, F!TickLength
<1> QED
  BY <1>3, <1>4, <1>5, <1>6, <1>7, <1>8 DEF FiberLists

\* A set of integers that is bounded below has a smallest element.
LEMMA MinOfKeys ==
    ASSUME NEW S \in SUBSET Int, S # {}, NEW b \in Nat, \A k \in S : k + b >= 0
    PROVE  F!Min(S) \in S /\ \A k \in S : F!Min(S) <= k
<1> DEFINE T == {k + b : k \in S}
<1>1. T \subseteq Nat /\ T # {}
  <2>1. \A k \in S : k + b \in Nat
    OBVIOUS
  <2> QED
    BY <2>1
<1>2. PICK t \in T : \A u \in T : <<u, t>> \notin OpToRel(<, Nat)
  BY <1>1, WFMin, NatLessThanWellFounded, Zenon
<1>3. \A u \in T : ~(u < t)
  BY <1>1, <1>2, Zenon DEF OpToRel
<1>4. PICK x \in S : t = x + b
  OBVIOUS
<1>5. \A k \in S : x <= k
  <2>1. SUFFICES ASSUME NEW k \in S PROVE x <= k
    OBVIOUS
  <2>2. ~(k + b < x + b)
    BY <1>3, <1>4
  <2> QED
    BY <2>2
<1>6. \E z \in S : \A k \in S : z <= k
  BY <1>5
<1> QED
  BY <1>6 DEF F!Min

\* How far the time moves, and whom that wakes.
LEMMA TimeMoves ==
    ASSUME F!ConstantsAssumption, FiberLists
    PROVE  /\ F!TickLength \in Nat /\ F!AdvanceTime \in Nat
           /\ rq # {} => F!AdvanceTime = 0
           /\ \A k \in DOMAIN sleep : k \in F!Ripe <=> k <= F!AdvanceTime
           /\ F!Ripe \in SUBSET DOMAIN sleep /\ F!Polled \in SUBSET Fibers
           /\ \A h : h \in F!Polled <=> h \in rq \/ \E k \in F!Ripe : h \in sleep[k]
           /\ rq = {} /\ DOMAIN sleep # {} => \E k \in F!Ripe : TRUE
<1>1. F!TickLength \in Nat
  BY DEF FiberLists, FiberTypes, F!TickLength, F!ConstantsAssumption
<1>2. /\ DOMAIN sleep # {} => F!Min(DOMAIN sleep) \in DOMAIN sleep
      /\ DOMAIN sleep \in SUBSET Int
  <2>1. DOMAIN sleep \in SUBSET Int /\ \A k \in DOMAIN sleep : k + F!TickLength >= 0
    BY <1>1 DEF FiberLists, FiberTypes
  <2> QED
    BY <1>1, <2>1, MinOfKeys
<1>3. F!AdvanceTime \in Nat
  BY <1>2 DEF F!AdvanceTime
<1>4. rq = {} /\ DOMAIN sleep # {} => F!Min(DOMAIN sleep) \in F!Ripe
  BY <1>2 DEF F!AdvanceTime, F!Ripe
<1>5. F!Polled \in SUBSET Fibers
  BY DEF FiberLists, FiberTypes, F!Ripe, F!Polled
<1> QED
  BY <1>1, <1>3, <1>4, <1>5 DEF F!AdvanceTime, F!Ripe, F!Polled

\* RunLoop resumes a fiber.
LEMMA FiberRunLoop ==
    ASSUME F!ConstantsAssumption, FiberLists, F!RunLoop
    PROVE  FiberLists'
<1> USE FiberConstants
<1>1. PICK a \in Nat, t \in Nat, R \in SUBSET DOMAIN sleep, P \in SUBSET Fibers :
        /\ a = F!AdvanceTime /\ t = F!TickLength /\ R = F!Ripe /\ P = F!Polled
        /\ rq # {} => a = 0
        /\ \A k \in DOMAIN sleep : k \in R <=> k <= a
        /\ \A h : h \in P <=> h \in rq \/ \E k \in R : h \in sleep[k]
  BY TimeMoves
<1>2. PICK f \in P :
        /\ cur' = f /\ rq' = P \ {f}
        /\ sleep' = F!LaterSleep([k \in DOMAIN sleep \ R |-> sleep[k]], a + t)
        /\ until' = F!LaterUntil(a + t)
        /\ st' = [st EXCEPT ![f] = "Running"]
  BY <1>1 DEF F!RunLoop
<1>3. /\ cur = None /\ world' = world /\ q' = q /\ op' = op /\ pc' = pc
      /\ thread' = thread /\ alive' = alive /\ joining' = joining /\ freed' = freed
  BY DEF F!RunLoop, F!prog, F!life
<1>4. PICK n \in Nat : n = a + t
  OBVIOUS
<1>5. /\ DOMAIN sleep' \in SUBSET Int
      /\ \A k \in DOMAIN sleep' : k + n \in DOMAIN sleep \ R /\ sleep'[k] = sleep[k + n]
      /\ \A j \in DOMAIN sleep \ R : j - n \in DOMAIN sleep' /\ sleep'[j - n] = sleep[j]
      /\ sleep' \in [DOMAIN sleep' -> SUBSET Fibers]
  <2>1. DOMAIN sleep \in SUBSET Int /\ sleep \in [DOMAIN sleep -> SUBSET Fibers]
    BY DEF FiberLists, FiberTypes
  <2>2. sleep' = [k \in {j - n : j \in DOMAIN sleep \ R} |-> [i \in DOMAIN sleep \ R |-> sleep[i]][k + n]]
    BY <1>2, <1>4 DEF F!LaterSleep
  <2>3. \A j \in DOMAIN sleep \ R : (j - n) + n = j
    BY <2>1
  <2> QED
    BY <2>1, <2>2, <2>3
<1>6. /\ until' = [h \in Fibers |-> IF until[h] < n THEN -1 ELSE until[h] - n]
  BY <1>2, <1>4 DEF F!LaterUntil
<1>7. f \in Fibers /\ st[f] \in {"Waiting", "Suspended"} /\ \A k \in DOMAIN sleep' : f \notin sleep'[k]
  <2>1. Place(f)
    BY DEF FiberLists, FiberPlaces
  <2> QED
    BY <2>1, <1>1, <1>5 DEF Place
<1>8. FiberTypes'
  <2>1. \A k \in DOMAIN sleep' : k + t >= 1
    BY <1>1, <1>4, <1>5 DEF FiberLists, FiberTypes
  <2>2. until' \in [Fibers -> Int]
    BY <1>6 DEF FiberLists, FiberTypes
  <2> QED
    BY <2>1, <2>2, <1>1, <1>2, <1>3, <1>5, <1>7 DEF FiberLists, FiberTypes, F!FiberStates, F!TickLength
<1>9. FiberThreads'
  <2>1. \A g \in Fibers : (st'[g] = None <=> st[g] = None) /\ (st'[g] = "Completed" <=> st[g] = "Completed")
    BY <1>2, <1>7 DEF FiberLists, FiberTypes, F!FiberStates
  <2> QED
    BY <2>1, <1>3 DEF FiberLists, FiberThreads
<1>10. FiberJoins'
  <2>1. \A g \in Fibers : st'[g] = "Completed" <=> st[g] = "Completed"
    BY <1>2, <1>7 DEF FiberLists, FiberTypes
  <2>2. Main \in rq => Main \in rq' \cup {cur'}
    BY <1>1, <1>2
  <2>3. pc[Main] = "join" /\ Main \notin rq => Main \notin P
    BY <1>1 DEF FiberLists, FiberPlaces, Place
  <2> QED
    BY <2>1, <2>2, <2>3, <1>2, <1>3 DEF FiberLists, FiberJoins, FiberTypes, Joined
<1>11. FiberPlaces'
  <2> SUFFICES ASSUME NEW h \in Fibers PROVE Place(h)'
    BY DEF FiberPlaces
  <2>0. Place(h)
    BY DEF FiberLists, FiberPlaces
  <2>a. \A k, l \in DOMAIN sleep' : h \in sleep'[k] /\ h \in sleep'[l] => k = l
    BY <2>0, <1>5 DEF Place
  <2>b. h \in P => st[h] \in {"Waiting", "Suspended"} /\ \A k \in DOMAIN sleep' : h \notin sleep'[k]
    BY <2>0, <1>1, <1>5 DEF Place
  <2>c. h \in rq => h \in P
    BY <1>1
  <2>d. h \in P => h \in rq \/ (pc[h] = "wait" => op[h] \in F!Timed)
    BY <2>0, <1>1 DEF Place
  <2>e. \A k \in DOMAIN sleep' : h \in sleep'[k] =>
          st[h] = "Suspended" /\ (pc[h] = "run" \/ (pc[h] = "wait" /\ op[h] \in F!Timed))
    BY <2>0, <1>5 DEF Place
  <2>f. st'[h] = (IF h = f THEN "Running" ELSE st[h]) /\ cur' = f /\ cur = None
    BY <1>2, <1>3 DEF FiberLists, FiberTypes
  <2>1. CASE h = f
    <3>1. st'[h] = "Running" /\ cur' = h /\ h \notin rq' /\ h \in P /\ "Running" # None
      BY <2>1, <2>f, <1>2 DEF F!FiberStates
    <3>2. \A m \in Queues : h \in q'[m] => pc'[h] = "wait" /\ op'[h] \in WaitsIn(m) /\ op'[h] \in F!Timed
      BY <2>0, <3>1, <2>d, <1>3 DEF Place
    <3> QED
      BY <3>1, <3>2, <2>a, <2>b DEF Place
  <2>2. CASE h # f
    BY <2>0, <2>2, <2>a, <2>b, <2>c, <2>d, <2>e, <2>f, <1>2, <1>3 DEF Place
  <2> QED
    BY <2>1, <2>2
<1>12. FiberWakes'
  <2> SUFFICES ASSUME NEW h \in Fibers, st'[h] = "Suspended"
               PROVE  \/ h \in rq'
                      \/ \E k \in DOMAIN sleep' : h \in sleep'[k]
                      \/ op'[h] \notin F!Timed /\ \E m \in Queues : h \in q'[m]
                      \/ pc'[h] = "join" /\ \E g \in Fibers : Joined(g)' /\ st'[g] # "Completed"
    BY DEF FiberWakes
  <2>1. h # f /\ st[h] = "Suspended"
    BY <1>2, <1>7 DEF FiberLists, FiberTypes
  <2>2. CASE h \in rq
    BY <2>1, <2>2, <1>1, <1>2
  <2>3. CASE \E k \in DOMAIN sleep : h \in sleep[k]
    <3>1. PICK k \in DOMAIN sleep : h \in sleep[k]
      BY <2>3
    <3>2. CASE k \in R
      BY <2>1, <3>1, <3>2, <1>1, <1>2
    <3>3. CASE k \notin R
      BY <3>1, <3>3, <1>5
    <3> QED
      BY <3>2, <3>3
  <2>4. CASE op[h] \notin F!Timed /\ \E m \in Queues : h \in q[m]
    BY <2>4, <1>3
  <2>5. CASE pc[h] = "join" /\ \E g \in Fibers : Joined(g) /\ st[g] # "Completed"
    BY <2>5, <1>2, <1>3, <1>7 DEF FiberLists, FiberTypes, Joined
  <2> QED
    BY <2>1, <2>2, <2>3, <2>4, <2>5 DEF FiberLists, FiberWakes
<1>13. Entries'
  <2>1. Entries
    BY <1>1 DEF FiberLists
  <2>2. \A k \in DOMAIN sleep' : k \in Int /\ k + n \in DOMAIN sleep /\ (k >= 0 => k + n >= n /\ k + n >= 0)
    BY <1>1, <1>4, <1>5 DEF FiberLists, FiberTypes
  <2>3. \A h \in Fibers, k \in DOMAIN sleep' : k >= 0 /\ until[h] = k + n => until'[h] = k
    BY <2>2, <1>5, <1>6
  <2>4. \A h \in Fibers, k \in DOMAIN sleep' : k >= 0 /\ h \in sleep'[k] /\ pc'[h] = "wait" => until'[h] = k
    BY <2>1, <2>2, <2>3, <1>3, <1>5 DEF Entries
  <2>5. ASSUME NEW k \in DOMAIN sleep', k >= 0, sleep'[k] = {}
        PROVE  \E h \in Fibers : Eraser(h, k)'
    <3>1. PICK h \in Fibers : Eraser(h, k + n)
      BY <2>1, <2>2, <2>5, <1>5 DEF Entries
    <3> QED
      BY <3>1, <2>3, <2>5, <1>1, <1>2, <1>3 DEF Eraser
  <2> QED
    BY <2>4, <2>5 DEF Entries
<1> QED
  BY <1>8, <1>9, <1>10, <1>11, <1>12, <1>13 DEF FiberLists

\* A fiber returns from a wait in a queue, notified or not.
LEMMA FiberWoken ==
    ASSUME F!ConstantsAssumption, FiberLists, NEW f \in Fibers, cur = f, pc[f] = "wait",
           NEW n \in Queues, op[f] \in WaitsIn(n), F!WokenIn(f, n),
           NEW o \in Ops \cup {None}, NEW p \in Places \ {"wait", "join"},
           op' = [op EXCEPT ![f] = o], pc' = [pc EXCEPT ![f] = p],
           UNCHANGED <<world, cur, rq, st, thread, alive, joining, freed>>
    PROVE  FiberLists'
<1> USE FiberConstants
<1>1. /\ q' = [q EXCEPT ![n] = @ \ {f}]
      /\ until' = [until EXCEPT ![f] = -1]
  BY DEF F!WokenIn
<1>2. /\ st[f] = "Running" /\ f \notin rq
      /\ \A k \in DOMAIN sleep : f \notin sleep[k]
  BY DEF FiberLists, FiberPlaces, Place
<1>3. /\ DOMAIN sleep' \in SUBSET DOMAIN sleep
      /\ \A k \in DOMAIN sleep' : sleep'[k] = sleep[k] /\ ~(k = until[f] /\ k >= 0 /\ sleep[k] = {})
      /\ \A k \in DOMAIN sleep \ DOMAIN sleep' : sleep[k] = {}
      /\ sleep' \in [DOMAIN sleep' -> SUBSET Fibers]
  <2>1. F!EraseSleep(f) /\ sleep \in [DOMAIN sleep -> SUBSET Fibers]
    BY DEF F!WokenIn, FiberLists, FiberTypes
  <2>2. CASE until[f] \in DOMAIN sleep /\ until[f] >= 0 /\ sleep[until[f]] = {}
    BY <2>1, <2>2 DEF F!EraseSleep
  <2>3. CASE ~(until[f] \in DOMAIN sleep /\ until[f] >= 0 /\ sleep[until[f]] = {})
    BY <2>1, <2>3 DEF F!EraseSleep
  <2> QED
    BY <2>2, <2>3
<1>4. \A m \in Queues : f \notin q'[m]
  BY <1>1, OneQueue DEF FiberLists, FiberTypes, FiberPlaces, Place
<1>5. FiberTypes'
  BY <1>1, <1>3 DEF FiberLists, FiberTypes, F!TickLength
<1>6. FiberThreads'
  BY DEF FiberLists, FiberThreads
<1>7. FiberJoins'
  BY DEF FiberLists, FiberJoins, FiberTypes, FiberThreads, Joined
<1>8. FiberPlaces'
  <2> SUFFICES ASSUME NEW h \in Fibers PROVE Place(h)'
    BY DEF FiberPlaces
  <2>0. Place(h)
    BY DEF FiberLists, FiberPlaces
  <2>1. CASE h = f
    BY <2>0, <2>1, <1>2, <1>3, <1>4 DEF FiberLists, FiberTypes, Place, F!FiberStates
  <2>2. CASE h # f
    BY <2>0, <2>2, <1>1, <1>3 DEF FiberLists, FiberTypes, Place
  <2> QED
    BY <2>1, <2>2
<1>9. FiberWakes'
  <2> SUFFICES ASSUME NEW h \in Fibers, st[h] = "Suspended"
               PROVE  \/ h \in rq
                      \/ \E k \in DOMAIN sleep' : h \in sleep'[k]
                      \/ op'[h] \notin F!Timed /\ \E m \in Queues : h \in q'[m]
                      \/ pc'[h] = "join" /\ \E g \in Fibers : Joined(g) /\ st[g] # "Completed"
    BY DEF FiberWakes, Joined
  <2>1. h # f
    BY <1>2
  <2> QED
    BY <2>1, <1>1, <1>3 DEF FiberLists, FiberTypes, FiberWakes
<1>10. Entries'
  <2>1. Entries
    BY DEF FiberLists
  <2>3. \A h \in Fibers, k \in DOMAIN sleep' : k >= 0 /\ h \in sleep'[k] /\ pc'[h] = "wait" => until'[h] = k
    BY <2>1, <1>1, <1>2, <1>3 DEF FiberLists, FiberTypes, Entries
  <2>4. ASSUME NEW k \in DOMAIN sleep', k >= 0, sleep'[k] = {}
        PROVE  \E h \in Fibers : Eraser(h, k)'
    <3>1. PICK h \in Fibers : Eraser(h, k)
      BY <2>1, <2>4, <1>3 DEF Entries
    <3>2. h # f
      BY <3>1, <2>4, <1>3 DEF Eraser
    <3> QED
      BY <3>1, <3>2, <1>1 DEF FiberLists, FiberTypes, Eraser
  <2> QED
    BY <2>3, <2>4 DEF Entries
<1> QED
  BY <1>5, <1>6, <1>7, <1>8, <1>9, <1>10 DEF FiberLists

\* main creates the threads.
LEMMA FiberSpawn ==
    ASSUME F!ConstantsAssumption, FiberLists, F!Spawn
    PROVE  FiberLists'
<1> USE FiberConstants
<1>1. /\ cur = Main /\ pc[Main] = "run"
      /\ rq' = rq \cup (Fibers \ {Main})
      /\ st' = [g \in Fibers |-> IF g \in Fibers \ {Main} THEN "Waiting" ELSE st[g]]
      /\ thread' = [g \in Fibers |-> IF g = Main THEN None ELSE Main]
      /\ world' = world /\ cur' = cur /\ sleep' = sleep /\ until' = until /\ q' = q /\ op' = op /\ pc' = pc
      /\ alive' = alive /\ joining' = joining /\ freed' = freed
  BY DEF F!Spawn, F!Schedule, F!prog
<1>2. \A g \in Fibers \ {Main} : st[g] = None
  BY DEF F!Spawn, FiberLists, FiberThreads
<1>3. \A g \in Fibers \ {Main} :
        /\ g \notin rq /\ cur # g /\ pc[g] = "run"
        /\ \A k \in DOMAIN sleep : g \notin sleep[k]
        /\ \A n \in Queues : g \notin q[n]
  BY <1>2 DEF FiberLists, FiberPlaces, Place, F!FiberStates
<1>4. FiberTypes'
  BY <1>1 DEF FiberLists, FiberTypes, F!FiberStates, F!TickLength
<1>5. FiberThreads'
  BY <1>1, <1>2 DEF FiberLists, FiberTypes, FiberThreads, F!FiberStates
<1>6. FiberJoins'
  <2>1. \A g \in Fibers : joining[g] = None
    BY <1>2 DEF FiberLists, FiberThreads
  <2>2. \A f \in Fibers : pc[f] # "join"
    BY <1>1 DEF FiberLists, FiberJoins
  <2> QED
    BY <2>1, <2>2, <1>1 DEF FiberJoins, Joined
<1>7. FiberPlaces'
  <2> SUFFICES ASSUME NEW h \in Fibers PROVE Place(h)'
    BY DEF FiberPlaces
  <2>0. Place(h)
    BY DEF FiberLists, FiberPlaces
  <2>1. CASE h = Main
    BY <2>0, <2>1, <1>1 DEF FiberLists, FiberTypes, Place
  <2>2. CASE h # Main
    BY <2>2, <1>1, <1>3 DEF Place, F!FiberStates
  <2> QED
    BY <2>1, <2>2
<1>8. FiberWakes'
  <2>1. st[Main] = "Running"
    BY <1>1 DEF FiberLists, FiberPlaces, Place
  <2> QED
    BY <2>1, <1>1 DEF FiberWakes
<1>9. Entries'
  BY <1>1 DEF FiberLists, FiberTypes, Entries, Eraser, F!TickLength
<1> QED
  BY <1>4, <1>5, <1>6, <1>7, <1>8, <1>9 DEF FiberLists

\* A Thread is given up: the fiber is deleted now if it is done, and by RunLoop
\* if it is not.
LEMMA ThreadGivenUp ==
    ASSUME F!ConstantsAssumption, FiberLists, NEW g \in Fibers, thread[g] = Main, F!AfterJoinOrDetach(g),
           UNCHANGED <<st, joining>>
    PROVE  FiberThreads' /\ g # Main
<1> USE FiberConstants
<1>1. g # Main
  BY DEF FiberLists, FiberThreads
<1>2. thread' = [thread EXCEPT ![g] = None]
  BY DEF F!AfterJoinOrDetach
<1>3. st[g] # None
  BY <1>1 DEF FiberLists, FiberThreads
<1>4. CASE st[g] = "Completed"
  <2>1. freed' = [freed EXCEPT ![g] = @ + 1] /\ alive' = alive
    BY <1>4 DEF F!AfterJoinOrDetach
  <2>2. freed' = [f \in Fibers |-> IF st[f] = "Completed" /\ f # Main /\ thread'[f] = None THEN 1 ELSE 0]
    BY <1>1, <1>2, <1>4, <2>1 DEF FiberLists, FiberThreads
  <2> QED
    BY <1>1, <1>2, <1>3, <1>4, <2>1, <2>2 DEF FiberLists, FiberThreads
<1>5. CASE st[g] # "Completed"
  <2>1. freed' = freed /\ alive' = alive \ {g}
    BY <1>5 DEF F!AfterJoinOrDetach
  <2>2. freed' = [f \in Fibers |-> IF st[f] = "Completed" /\ f # Main /\ thread'[f] = None THEN 1 ELSE 0]
    BY <1>1, <1>2, <1>5, <2>1 DEF FiberLists, FiberThreads
  <2> QED
    BY <1>1, <1>2, <1>3, <1>5, <2>1, <2>2 DEF FiberLists, FiberThreads
<1> QED
  BY <1>1, <1>4, <1>5

\* main detaches a thread.
LEMMA FiberDetach ==
    ASSUME F!ConstantsAssumption, FiberLists, NEW f \in Fibers, NEW g \in Fibers, F!Detach(f, g)
    PROVE  FiberLists'
<1> USE FiberConstants
<1>1. /\ cur = f /\ pc[f] = "run" /\ thread[g] = f /\ F!AfterJoinOrDetach(g)
      /\ world' = world /\ cur' = cur /\ rq' = rq /\ sleep' = sleep /\ st' = st /\ until' = until
      /\ q' = q /\ op' = op /\ pc' = pc /\ joining' = joining
  BY DEF F!Detach, F!sched, F!prog
<1>2. f = Main
  BY <1>1 DEF FiberLists, FiberThreads
<1>3. thread' = [thread EXCEPT ![g] = None]
  BY <1>1 DEF F!AfterJoinOrDetach
<1>4. \A h \in Fibers : ~Joined(h)
  BY <1>1, <1>2 DEF FiberLists, FiberJoins
<1>5. FiberTypes' /\ FiberPlaces' /\ Entries'
  BY <1>1 DEF FiberLists, FiberTypes, FiberPlaces, Place, Entries, Eraser, F!TickLength
<1>6. FiberThreads'
  BY <1>1, <1>2, ThreadGivenUp
<1>7. FiberJoins'
  BY <1>1, <1>2, <1>3, <1>4 DEF FiberLists, FiberThreads, FiberJoins, Joined
<1>8. FiberWakes'
  BY <1>1, <1>4 DEF FiberLists, FiberWakes
<1> QED
  BY <1>5, <1>6, <1>7, <1>8 DEF FiberLists

\* main joins a thread, or waits for it.
LEMMA FiberJoin ==
    ASSUME F!ConstantsAssumption, FiberLists, NEW f \in Fibers, NEW g \in Fibers, F!Join(f, g)
    PROVE  FiberLists'
<1> USE FiberConstants
<1>1. /\ cur = f /\ thread[g] = f
      /\ pc[f] = "run" \/ (pc[f] = "join" /\ joining[g] = f)
      /\ world' = world /\ rq' = rq /\ sleep' = sleep /\ until' = until /\ q' = q /\ op' = op
  BY DEF F!Join
<1>2. f = Main /\ g # Main
  BY <1>1 DEF FiberLists, FiberThreads
<1>3. st[f] = "Running" /\ f \notin rq /\ \A k \in DOMAIN sleep : f \notin sleep[k]
  BY <1>1 DEF FiberLists, FiberPlaces, Place
<1>4. \A h \in Fibers : Joined(h) => h = g /\ st[g] = "Completed"
  <2> SUFFICES ASSUME NEW h \in Fibers, Joined(h) PROVE h = g /\ st[g] = "Completed"
    OBVIOUS
  <2>1. Joined(g)
    BY <1>1, <1>2 DEF FiberLists, FiberJoins, Joined
  <2> QED
    BY <2>1, <1>2, <1>3 DEF FiberLists, FiberJoins
<1>5. \A n \in Queues : f \notin q[n]
  BY <1>1 DEF FiberLists, FiberPlaces, Place
<1>6. CASE st[g] = "Completed"
  <2>1. /\ F!AfterJoinOrDetach(g) /\ thread' = [thread EXCEPT ![g] = None]
        /\ pc' = [pc EXCEPT ![f] = "run"] /\ st' = st /\ cur' = cur /\ joining' = joining
    BY <1>6 DEF F!Join, F!Go, F!AfterJoinOrDetach
  <2>2. FiberTypes'
    BY <1>1, <2>1 DEF FiberLists, FiberTypes, F!TickLength, Places
  <2>3. FiberPlaces'
    <3> SUFFICES ASSUME NEW h \in Fibers PROVE Place(h)'
      BY DEF FiberPlaces
    <3>0. Place(h)
      BY DEF FiberLists, FiberPlaces
    <3> QED
      BY <3>0, <1>1, <1>3, <1>5, <2>1 DEF Place, FiberLists, FiberTypes
  <2>4. Entries'
    BY <1>1, <1>3, <2>1 DEF FiberLists, FiberTypes, Entries, Eraser, F!TickLength
  <2>5. FiberThreads'
    BY <1>1, <1>2, <2>1, ThreadGivenUp
  <2>6. FiberJoins'
    BY <1>1, <1>2, <1>4, <1>6, <2>1 DEF FiberLists, FiberTypes, FiberThreads, FiberJoins, Joined
  <2>7. FiberWakes'
    BY <1>1, <1>3, <1>4, <2>1 DEF FiberLists, FiberTypes, FiberWakes
  <2> QED
    BY <2>2, <2>3, <2>4, <2>5, <2>6, <2>7 DEF FiberLists
<1>7. CASE st[g] # "Completed"
  <2>1. /\ joining' = [joining EXCEPT ![g] = f]
        /\ st' = [st EXCEPT ![f] = "Suspended"] /\ cur' = None
        /\ pc' = [pc EXCEPT ![f] = "join"]
        /\ thread' = thread /\ alive' = alive /\ freed' = freed
    BY <1>7 DEF F!Join, F!Go, F!Suspend
  <2>2. FiberTypes'
    BY <1>1, <2>1 DEF FiberLists, FiberTypes, F!TickLength, Places, F!FiberStates
  <2>3. FiberPlaces'
    <3> SUFFICES ASSUME NEW h \in Fibers PROVE Place(h)'
      BY DEF FiberPlaces
    <3>0. Place(h)
      BY DEF FiberLists, FiberPlaces
    <3>1. CASE h = f
      BY <3>1, <1>1, <1>3, <1>5, <2>1 DEF Place, FiberLists, FiberTypes, F!FiberStates
    <3>2. CASE h # f
      BY <3>0, <3>2, <1>1, <2>1 DEF Place, FiberLists, FiberTypes
    <3> QED
      BY <3>1, <3>2
  <2>4. Entries'
    <3>1. Entries
      BY DEF FiberLists
    <3>2. \A h \in Fibers, k \in DOMAIN sleep : Eraser(h, k) => Eraser(h, k)'
      BY <1>1, <2>1 DEF FiberLists, FiberTypes, Eraser
    <3> QED
      BY <1>1, <1>3, <2>1, <3>1, <3>2 DEF FiberLists, FiberTypes, Entries
  <2>5. FiberThreads'
    <3>1. \A h \in Fibers : (st'[h] = None <=> st[h] = None) /\ (st'[h] = "Completed" <=> st[h] = "Completed")
      BY <1>3, <2>1 DEF FiberLists, FiberTypes, F!FiberStates
    <3>2. st[g] # None
      BY <1>1, <1>2 DEF FiberLists, FiberThreads
    <3> QED
      BY <3>1, <3>2, <1>2, <2>1 DEF FiberLists, FiberThreads
  <2>6. FiberJoins'
    <3>1. \A h \in Fibers : Joined(h)' <=> h = g
      BY <1>1, <1>2, <1>4, <1>7, <2>1 DEF FiberLists, FiberThreads, Joined
    <3>2. \A h \in Fibers : st'[h] = "Completed" <=> st[h] = "Completed"
      BY <1>3, <2>1 DEF FiberLists, FiberTypes, F!FiberStates
    <3>3. \A h \in Fibers : joining'[h] = Main /\ thread'[h] = None => st'[h] = "Completed"
      BY <1>1, <1>2, <2>1, <3>2 DEF FiberLists, FiberThreads, FiberJoins
    <3>4. pc'[Main] = "join" /\ st'[Main] = "Suspended" /\ \A h \in Fibers : pc'[h] = "join" => h = Main
      BY <1>2, <2>1 DEF FiberLists, FiberTypes, FiberJoins
    <3> QED
      BY <3>1, <3>2, <3>3, <3>4, <1>1, <1>2, <1>3, <1>7 DEF FiberJoins
  <2>7. FiberWakes'
    <3>1. Joined(g)' /\ pc'[f] = "join" /\ st'[g] # "Completed"
      BY <1>1, <1>2, <1>7, <2>1 DEF FiberLists, FiberTypes, FiberThreads, Joined
    <3> QED
      BY <3>1, <1>1, <1>4, <2>1, <1>7 DEF FiberLists, FiberTypes, FiberWakes
  <2> QED
    BY <2>2, <2>3, <2>4, <2>5, <2>6, <2>7 DEF FiberLists
<1> QED
  BY <1>6, <1>7

\* A fiber exits, and wakes main if main joins it.
LEMMA FiberExit ==
    ASSUME F!ConstantsAssumption, FiberLists, NEW f \in Fibers, F!Exit(f)
    PROVE  FiberLists'
<1> USE FiberConstants
<1>1. /\ cur = f /\ pc[f] = "run" /\ cur' = None
      /\ world' = world /\ sleep' = sleep /\ until' = until /\ q' = q /\ op' = op /\ pc' = pc
      /\ thread' = thread /\ alive' = alive /\ joining' = joining
  BY DEF F!Exit, F!prog
<1>2. /\ st[f] = "Running" /\ f \notin rq
      /\ \A k \in DOMAIN sleep : f \notin sleep[k]
      /\ \A n \in Queues : f \notin q[n]
  BY <1>1 DEF FiberLists, FiberPlaces, Place
<1>3. joining[f] = Main => Joined(f) /\ f \in alive /\ f # Main
  <2> SUFFICES ASSUME joining[f] = Main PROVE Joined(f) /\ f \in alive /\ f # Main
    OBVIOUS
  <2>1. thread[f] = Main
    BY <1>2 DEF FiberLists, FiberThreads, FiberJoins
  <2>2. f # Main
    BY DEF FiberLists, FiberThreads
  <2>3. st[f] \notin {None, "Completed"}
    BY <1>2 DEF F!FiberStates
  <2> QED
    BY <2>1, <2>2, <2>3 DEF FiberLists, FiberThreads, Joined
<1>4. PICK W \in SUBSET {Main} :
        /\ W = IF joining[f] = Main THEN {Main} ELSE {}
        /\ W = F!ExitWakes(f)
  <2>1. joining[f] \in {None, Main} /\ Main # None
    BY DEF FiberLists, FiberThreads
  <2>2. CASE joining[f] = Main
    BY <2>1, <2>2, <1>3 DEF F!ExitWakes
  <2>3. CASE joining[f] = None
    BY <2>1, <2>3 DEF F!ExitWakes
  <2> QED
    BY <2>1, <2>2, <2>3
<1>5. /\ rq' = rq \cup W
      /\ st' = [g \in Fibers |-> IF g = f THEN "Completed" ELSE IF g \in W THEN "Waiting" ELSE st[g]]
      /\ freed' = [freed EXCEPT ![f] = @ + (IF f \notin alive THEN 1 ELSE 0)]
  BY <1>4 DEF F!Exit, F!RunLoopDeletes
<1>6. Main \in W =>
        /\ Main # f /\ st[Main] = "Suspended" /\ Main \notin rq /\ pc[Main] = "join" /\ Joined(f)
        /\ \A k \in DOMAIN sleep : Main \notin sleep[k]
        /\ \A n \in Queues : Main \notin q[n]
  <2> SUFFICES ASSUME Main \in W
               PROVE  /\ Main # f /\ st[Main] = "Suspended" /\ Main \notin rq /\ pc[Main] = "join" /\ Joined(f)
                      /\ \A k \in DOMAIN sleep : Main \notin sleep[k]
                      /\ \A n \in Queues : Main \notin q[n]
    OBVIOUS
  <2>1. Main # f /\ Joined(f)
    BY <1>3, <1>4
  <2>2. st[Main] = "Suspended" /\ Main \notin rq /\ pc[Main] = "join"
    BY <2>1, <1>2 DEF FiberLists, FiberJoins
  <2> QED
    BY <2>1, <2>2 DEF FiberLists, FiberPlaces, Place
<1>7. \A g \in Fibers : Joined(g)' <=> Joined(g)
  BY <1>1 DEF Joined
<1>8. FiberTypes'
  BY <1>1, <1>5 DEF FiberLists, FiberTypes, F!FiberStates, F!TickLength
<1>9. FiberThreads'
  <2>1. \A g \in Fibers :
          /\ st'[g] = None <=> st[g] = None
          /\ st'[g] = "Completed" <=> g = f \/ st[g] = "Completed"
    BY <1>2, <1>4, <1>5, <1>6 DEF FiberLists, FiberTypes, F!FiberStates
  <2>2. freed' = [g \in Fibers |-> IF st'[g] = "Completed" /\ g # Main /\ thread'[g] = None THEN 1 ELSE 0]
    <3>1. st[f] \notin {None, "Completed"}
      BY <1>2 DEF F!FiberStates
    <3>2. f \notin alive <=> f # Main /\ thread[f] = None
      BY <3>1 DEF FiberLists, FiberThreads
    <3>3. freed[f] = 0
      BY <3>1 DEF FiberLists, FiberThreads
    <3> QED
      BY <2>1, <3>2, <3>3, <1>1, <1>5 DEF FiberLists, FiberThreads
  <2> QED
    BY <2>1, <2>2, <1>1 DEF FiberLists, FiberThreads
<1>10. FiberJoins'
  <2>1. \A g \in Fibers : joining'[g] = Main /\ thread'[g] = None => st'[g] = "Completed"
    <3> SUFFICES ASSUME NEW g \in Fibers, joining[g] = Main, thread[g] = None PROVE st'[g] = "Completed"
      BY <1>1
    <3>1. st[g] = "Completed" /\ g # Main
      BY DEF FiberLists, FiberJoins, FiberThreads
    <3> QED
      BY <3>1, <1>4, <1>5
  <2>2. ASSUME NEW g \in Fibers, Joined(g)
        PROVE  /\ pc'[Main] = "join"
               /\ st'[g] = "Completed" => Main \in rq' \cup {cur'}
               /\ st'[g] # "Completed" => st'[Main] = "Suspended" /\ Main \notin rq'
    <3>1. pc[Main] = "join" /\ Main # f /\ g # Main
      BY <2>2, <1>1 DEF FiberLists, FiberJoins, FiberThreads, Joined
    <3>2. CASE g = f
      BY <2>2, <3>1, <3>2, <1>1, <1>4, <1>5 DEF Joined
    <3>3. CASE g # f
      <4>1. W = {}
        BY <2>2, <3>3, <1>3, <1>4 DEF FiberLists, FiberJoins
      <4> QED
        BY <2>2, <3>1, <3>3, <4>1, <1>1, <1>5 DEF FiberLists, FiberJoins
    <3> QED
      BY <3>2, <3>3
  <2> QED
    BY <2>1, <2>2, <1>1, <1>7 DEF FiberLists, FiberJoins
<1>11. FiberPlaces'
  <2> SUFFICES ASSUME NEW h \in Fibers PROVE Place(h)'
    BY DEF FiberPlaces
  <2>0. Place(h)
    BY DEF FiberLists, FiberPlaces
  <2>1. CASE h = f
    BY <2>1, <1>1, <1>2, <1>4, <1>5, <1>6 DEF Place
  <2>2. CASE h # f /\ h \in W
    BY <2>2, <1>1, <1>4, <1>5, <1>6 DEF Place, F!FiberStates
  <2>3. CASE h # f /\ h \notin W
    BY <2>0, <2>3, <1>1, <1>5 DEF Place
  <2> QED
    BY <2>1, <2>2, <2>3
<1>12. FiberWakes'
  <2> SUFFICES ASSUME NEW h \in Fibers, st'[h] = "Suspended"
               PROVE  \/ h \in rq'
                      \/ \E k \in DOMAIN sleep : h \in sleep[k]
                      \/ op[h] \notin F!Timed /\ \E m \in Queues : h \in q[m]
                      \/ pc[h] = "join" /\ \E g \in Fibers : Joined(g) /\ st'[g] # "Completed"
    BY <1>1, <1>7 DEF FiberWakes
  <2>1. h # f /\ st[h] = "Suspended" /\ h \notin W
    BY <1>5
  <2>2. ASSUME pc[h] = "join", NEW g \in Fibers, Joined(g), st[g] # "Completed" PROVE st'[g] # "Completed"
    <3>1. h = Main
      BY <2>2 DEF FiberLists, FiberJoins
    <3>2. g # f
      BY <2>1, <2>2, <3>1, <1>4 DEF Joined
    <3> QED
      BY <2>2, <3>2, <1>5
  <2> QED
    BY <2>1, <2>2, <1>5 DEF FiberLists, FiberWakes
<1>13. Entries'
  <2>1. Entries
    BY DEF FiberLists
  <2>2. \A h \in Fibers, k \in DOMAIN sleep : Eraser(h, k) => Eraser(h, k)'
    BY <1>1, <1>5 DEF FiberLists, FiberTypes, Eraser
  <2> QED
    BY <2>1, <2>2, <1>1 DEF Entries
<1> QED
  BY <1>8, <1>9, <1>10, <1>11, <1>12, <1>13 DEF FiberLists

-----------------------------------------------------------------------------
(* The operations, one by one.                                             *)

\* A step that notifies nobody.
LEMMA NotifiesNobody ==
    ASSUME F!ConstantsAssumption, FiberLists, UNCHANGED <<q, rq, st, sleep>>
    PROVE  {} \in SUBSET q["x"] /\ "x" \in Queues /\ F!Notify("x", {})
<1>1. q' = [q EXCEPT !["x"] = @ \ {}]
  BY DEF FiberLists, FiberTypes, Queues
<1>2. st' = [g \in Fibers |-> IF g \in {} THEN "Waiting" ELSE st[g]]
  BY DEF FiberLists, FiberTypes
<1>3. sleep' = [k \in DOMAIN sleep |-> sleep[k] \ {}]
  BY DEF FiberLists, FiberTypes
<1>4. {g \in {} : st[g] # "Waiting"} = {}
  OBVIOUS
<1> QED
  BY <1>1, <1>2, <1>3, <1>4 DEF F!Notify, F!ScheduleAndRemove, F!Schedule, Queues

\* Every way to notify is one of Notify.
LEMMA Notifies ==
    ASSUME F!ConstantsAssumption, FiberLists, NEW n \in Queues, F!NotifyOne(n) \/ F!NotifyAll(n)
    PROVE  \E m \in Queues : \E W \in SUBSET q[m] : F!Notify(m, W)
<1>1. CASE F!NotifyAll(n)
  BY <1>1 DEF F!NotifyAll
<1>2. CASE F!NotifyOne(n) /\ q[n] = {}
  BY <1>2, NotifiesNobody DEF F!NotifyOne
<1>3. CASE F!NotifyOne(n) /\ q[n] # {}
  BY <1>3 DEF F!NotifyOne
<1> QED
  BY <1>1, <1>2, <1>3

\* What an unlock notifies.
LEMMA WakesNext ==
    ASSUME F!ConstantsAssumption, FiberLists, NEW m, F!WakeNext(m)
    PROVE  \E n \in Queues : \E W \in SUBSET q[n] : F!Notify(n, W)
<1>1. F!NotifyOne("x") \/ F!NotifyAll("s") \/ UNCHANGED <<q, rq, st, sleep>>
  BY DEF F!WakeNext
<1>2. "x" \in Queues /\ "s" \in Queues
  BY DEF Queues
<1> QED
  BY <1>1, <1>2, Notifies, NotifiesNobody

\* A step of the running fiber that does not suspend it and notifies nobody.
LEMMA FiberGoesOn ==
    ASSUME F!ConstantsAssumption, FiberLists, NEW f, Free(f),
           NEW o \in Ops \cup {None}, NEW p \in Places \ {"wait", "join"},
           op' = [op EXCEPT ![f] = o], pc' = [pc EXCEPT ![f] = p],
           UNCHANGED <<q, rq, st, sleep, world, cur, until, thread, alive, joining, freed>>
    PROVE  FiberLists'
BY NotifiesNobody, FiberStays

\* Call, and Returned.
LEMMA FiberCalls ==
    ASSUME F!ConstantsAssumption, FiberLists, NEW f \in Fibers,
           F!Returned(f) \/ \E o \in F!Injected \cup F!Plain : F!Call(f, o)
    PROVE  FiberLists'
<1>1. PICK o \in Ops \cup {None}, p \in {"do", "run"} :
        /\ cur = f /\ pc[f] \in {"run", "after"}
        /\ op' = [op EXCEPT ![f] = o] /\ pc' = [pc EXCEPT ![f] = p]
        /\ UNCHANGED <<rq, st, cur>> \/ F!Reschedule(f)
        /\ UNCHANGED <<world, sleep, until, q, thread, alive, joining, freed>>
  <2>1. CASE F!Returned(f)
    BY <2>1 DEF F!Returned, F!InjectFault, F!life
  <2>2. CASE \E o \in F!Injected \cup F!Plain : F!Call(f, o)
    BY <2>2 DEF F!Call, F!InjectFault, F!life, Ops
  <2> QED
    BY <2>1, <2>2
<1>2. Free(f)
  BY <1>1 DEF Free
<1>3. p \in Places \ {"wait", "join"}
  BY DEF Places
<1>4. CASE F!Reschedule(f)
  BY <1>1, <1>2, <1>3, <1>4, FiberYields
<1>5. CASE UNCHANGED <<rq, st, cur>>
  BY <1>1, <1>2, <1>3, <1>5, FiberGoesOn
<1> QED
  BY <1>1, <1>4, <1>5

\* A step that returns from its operation, or goes on in it, without a wait.
LEMMA FiberActs ==
    ASSUME F!ConstantsAssumption, FiberLists, NEW f \in Fibers, cur = f,
           pc[f] \in {"do", "wait"}, op[f] \notin F!Timed \/ pc[f] = "do",
           NEW p \in {"after", "queue", "run"}, F!Go(f, p),
           \/ UNCHANGED <<q, rq, st, sleep>>
           \/ \E n \in Queues : \E W \in SUBSET q[n] : F!Notify(n, W),
           UNCHANGED <<world, cur, until, op, thread, alive, joining, freed>>
    PROVE  FiberLists'
<1>1. Free(f)
  BY DEF Free
<1>2. op' = [op EXCEPT ![f] = op[f]] /\ op[f] \in Ops \cup {None}
  BY DEF FiberLists, FiberTypes
<1>3. pc' = [pc EXCEPT ![f] = p] /\ p \in Places \ {"wait", "join"}
  BY DEF F!Go, Places
<1>4. CASE UNCHANGED <<q, rq, st, sleep>>
  BY <1>1, <1>2, <1>3, <1>4, FiberGoesOn
<1>5. CASE \E n \in Queues : \E W \in SUBSET q[n] : F!Notify(n, W)
  <2>0. PICK n \in Queues : \E W \in SUBSET q[n] : F!Notify(n, W)
    BY <1>5
  <2>1. PICK W \in SUBSET q[n] : F!Notify(n, W)
    BY <2>0
  <2> QED
    BY <1>1, <1>2, <1>3, <2>1, FiberStays
<1> QED
  BY <1>4, <1>5

\* A timed wait.
LEMMA FiberWaitsUntil ==
    ASSUME F!ConstantsAssumption, FiberLists, NEW f \in Fibers, cur = f,
           pc[f] \in {"do", "queue"}, NEW n \in Queues, NEW d \in Delays,
           op[f] \in WaitsIn(n) \cap F!Timed, F!WaitUntil(f, n, d),
           UNCHANGED <<world, op, thread, alive, joining, freed>>
    PROVE  FiberLists'
<1>1. Free(f)
  BY DEF Free
<1>2. d \in Nat
  BY DEF F!ConstantsAssumption
<1>3. CASE d = 0
  BY <1>1, <1>3, FiberWaitsNot
<1>4. CASE d # 0
  <2>1. d > 0
    BY <1>2, <1>4
  <2>2. /\ F!SleepUntil(f, d) /\ rq' = rq
        /\ q' = [q EXCEPT ![n] = @ \cup {f}]
        /\ until' = [until EXCEPT ![f] = d]
        /\ pc' = [pc EXCEPT ![f] = "wait"]
    BY DEF F!WaitUntil
  <2>a. PICK N \in SUBSET Queues : N = {n}
    OBVIOUS
  <2>b. PICK p \in {"run", "wait"} : p = "wait"
    OBVIOUS
  <2>3. q' \in [Queues -> SUBSET Fibers] /\ \A m \in Queues : q'[m] = IF m \in N THEN q[m] \cup {f} ELSE q[m]
    BY <2>2, <2>a DEF FiberLists, FiberTypes
  <2>4. p = "run" => N = {} /\ until' = until
    BY <2>b
  <2>5. p = "wait" => op[f] \in F!Timed /\ until' = [until EXCEPT ![f] = d] /\ \A m \in N : op[f] \in WaitsIn(m)
    BY <2>2, <2>a
  <2>6. pc' = [pc EXCEPT ![f] = p]
    BY <2>2, <2>b
  <2>7. UNCHANGED <<world, rq, op, thread, alive, joining, freed>>
    BY <2>2
  <2> QED
    BY <1>1, <2>1, <2>2, <2>3, <2>4, <2>5, <2>6, <2>7, FiberSleeps
<1> QED
  BY <1>3, <1>4

\* lock, try_lock and their timed and shared forms.
LEMMA FiberLocks ==
    ASSUME F!ConstantsAssumption, FiberLists, NEW f \in Fibers,
           F!Lock(f) \/ F!TryLock(f) \/ F!TimedLock(f) \/ F!TimedLockWoken(f)
    PROVE  FiberLists'
<1> USE DEF Queues, WaitsIn, F!Timed
<1>1. CASE F!Lock(f)
  <2>1. /\ cur = f /\ pc[f] \in {"do", "wait"} /\ op[f] \in {"lock", "lock_shared"}
        /\ UNCHANGED <<world, op, thread, alive, joining, freed>>
    BY <1>1 DEF F!Lock, F!At, F!life
  <2>2. \/ F!WaitIn(f, "x")
        \/ F!Go(f, "after") /\ UNCHANGED <<q, rq, st, sleep, cur, until>>
    BY <1>1 DEF F!Lock, F!Return, F!sched
  <2>3. CASE F!WaitIn(f, "x")
    <3>1. Free(f)
      BY <2>1 DEF Free
    <3> QED
      BY <2>1, <2>3, <3>1, FiberWaits
  <2>4. CASE F!Go(f, "after") /\ UNCHANGED <<q, rq, st, sleep, cur, until>>
    BY <2>1, <2>4, FiberActs
  <2> QED
    BY <2>2, <2>3, <2>4
<1>2. CASE F!TryLock(f)
  BY <1>2, FiberActs DEF F!TryLock, F!At, F!life, F!Return, F!sched
<1>3. CASE F!TimedLock(f)
  <2>1. /\ cur = f /\ pc[f] = "do"
        /\ UNCHANGED <<world, op, thread, alive, joining, freed>>
    BY <1>3 DEF F!TimedLock, F!At, F!life
  <2>2. PICK n \in Queues : n = F!Mode(op[f]) /\ op[f] \in WaitsIn(n) \cap F!Timed
    BY <1>3 DEF F!TimedLock, F!At, F!Mode
  <2>3. \/ \E d \in Delays : F!WaitUntil(f, n, d)
        \/ F!Go(f, "after") /\ UNCHANGED <<q, rq, st, sleep, cur, until>>
    BY <1>3, <2>2 DEF F!TimedLock, F!Return, F!sched
  <2> HIDE DEF Queues, WaitsIn, F!Timed
  <2>4. CASE \E d \in Delays : F!WaitUntil(f, n, d)
    BY <2>1, <2>2, <2>4, FiberWaitsUntil
  <2>5. CASE F!Go(f, "after") /\ UNCHANGED <<q, rq, st, sleep, cur, until>>
    BY <2>1, <2>5, FiberActs
  <2> QED
    BY <2>3, <2>4, <2>5
<1>4. CASE F!TimedLockWoken(f)
  <2>1. /\ cur = f /\ pc[f] = "wait" /\ F!Go(f, "after")
        /\ UNCHANGED <<world, cur, rq, st, op, thread, alive, joining, freed>>
    BY <1>4 DEF F!TimedLockWoken, F!At, F!life, F!Return
  <2>2. PICK n \in Queues : n = F!Mode(op[f]) /\ op[f] \in WaitsIn(n) \cap F!Timed
    BY <1>4 DEF F!TimedLockWoken, F!At, F!Mode
  <2>3. F!WokenIn(f, n)
    BY <1>4, <2>2 DEF F!TimedLockWoken
  <2> HIDE DEF Queues, WaitsIn, F!Timed
  <2>4. op' = [op EXCEPT ![f] = op[f]] /\ op[f] \in Ops \cup {None}
    BY <2>1 DEF FiberLists, FiberTypes
  <2>5. pc' = [pc EXCEPT ![f] = "after"] /\ "after" \in Places \ {"wait", "join"}
    BY <2>1 DEF F!Go, Places
  <2> QED
    BY <2>1, <2>2, <2>3, <2>4, <2>5, FiberWoken
<1> QED
  BY <1>1, <1>2, <1>3, <1>4

\* unlock, and the notifications of condition variables and atomics.
LEMMA FiberNotifies ==
    ASSUME F!ConstantsAssumption, FiberLists, NEW f \in Fibers,
           F!Unlock(f) \/ F!CvUnlock(f) \/ F!CvNotify(f) \/ F!AtomicNotify(f)
    PROVE  FiberLists'
<1>1. PICK p \in {"after", "queue"} :
        /\ cur = f /\ pc[f] = "do" /\ F!Go(f, p)
        /\ UNCHANGED <<world, cur, until, op, thread, alive, joining, freed>>
  BY DEF F!Unlock, F!CvUnlock, F!CvNotify, F!AtomicNotify, F!At, F!Return, F!life
<1>2. \E n \in Queues : \E W \in SUBSET q[n] : F!Notify(n, W)
  <2>1. \/ \E m \in {"x", "s"} : F!WakeNext(m)
        \/ \E n \in Queues : F!NotifyOne(n) \/ F!NotifyAll(n)
    BY DEF F!Unlock, F!CvUnlock, F!CvNotify, F!AtomicNotify, F!Mode, Queues
  <2> QED
    BY <2>1, WakesNext, Notifies
<1> QED
  BY <1>1, <1>2, FiberActs

\* The waits of condition variables and atomics.
LEMMA FiberCvWaits ==
    ASSUME F!ConstantsAssumption, FiberLists, NEW f \in Fibers,
           F!CvQueue(f) \/ F!CvWoken(f) \/ F!AtomicWait(f)
    PROVE  FiberLists'
<1> USE DEF Queues, WaitsIn, F!Timed
<1>1. CASE F!CvQueue(f)
  <2>1. UNCHANGED <<world, op, thread, alive, joining, freed>>
    BY <1>1 DEF F!CvQueue, F!life
  <2>2. CASE F!At(f, "wait", "queue") /\ F!WaitIn(f, "cv")
    <3>1. Free(f)
      BY <2>2 DEF Free, F!At
    <3> QED
      BY <2>1, <2>2, <3>1, FiberWaits DEF F!At
  <2>3. CASE F!At(f, "wait_until", "queue") /\ \E d \in Delays : F!WaitUntil(f, "cv", d)
    BY <2>1, <2>3, FiberWaitsUntil DEF F!At
  <2> QED
    BY <1>1, <2>2, <2>3 DEF F!CvQueue
<1>2. CASE F!CvWoken(f)
  <2>1. /\ cur = f /\ pc[f] = "wait" /\ op[f] \in WaitsIn("cv") /\ F!WokenIn(f, "cv")
        /\ UNCHANGED <<world, cur, rq, st, thread, alive, joining, freed>>
    BY <1>2 DEF F!CvWoken, F!At, F!life
  <2>2. op' = [op EXCEPT ![f] = "lock"] /\ "lock" \in Ops \cup {None}
    BY <1>2 DEF F!CvWoken, Ops, F!Injected
  <2>3. pc' = [pc EXCEPT ![f] = "do"] /\ "do" \in Places \ {"wait", "join"}
    BY <1>2 DEF F!CvWoken, F!Go, Places
  <2>4. "cv" \in Queues
    OBVIOUS
  <2> HIDE DEF Queues, WaitsIn, F!Timed
  <2> QED
    BY <2>1, <2>2, <2>3, <2>4, FiberWoken
<1>3. CASE F!AtomicWait(f)
  <2>1. /\ cur = f /\ pc[f] \in {"do", "wait"} /\ op[f] = "atomic_wait"
        /\ UNCHANGED <<world, op, thread, alive, joining, freed>>
    BY <1>3 DEF F!AtomicWait, F!At, F!life
  <2>2. CASE F!WaitIn(f, "atomic")
    <3>1. Free(f)
      BY <2>1 DEF Free
    <3> QED
      BY <2>1, <2>2, <3>1, FiberWaits
  <2>3. CASE F!Go(f, "after") /\ UNCHANGED <<q, rq, st, sleep, cur, until>>
    BY <2>1, <2>3, FiberActs
  <2> QED
    BY <1>3, <2>2, <2>3 DEF F!AtomicWait, F!Return, F!sched
<1> QED
  BY <1>1, <1>2, <1>3

\* Sleeping, yielding and the accesses to the atomic.
LEMMA FiberOthers ==
    ASSUME F!ConstantsAssumption, FiberLists, NEW f \in Fibers,
           F!Atomic(f) \/ F!SleepFor(f) \/ F!Yield(f)
    PROVE  FiberLists'
<1>1. CASE F!Atomic(f)
  BY <1>1, FiberActs DEF F!Atomic, F!At, F!life, F!Return, F!sched
<1>2. CASE F!SleepFor(f)
  <2>1. PICK d \in Delays : F!SleepUntil(f, d)
    BY <1>2 DEF F!SleepFor
  <2>2. /\ cur = f /\ pc[f] = "do" /\ F!Go(f, "run")
        /\ UNCHANGED <<world, rq, until, q, op, thread, alive, joining, freed>>
    BY <1>2 DEF F!SleepFor, F!At, F!life
  <2>3. d \in Nat
    BY DEF F!ConstantsAssumption
  <2>4. CASE d = 0
    <3>1. UNCHANGED <<q, rq, st, sleep, cur>>
      BY <2>1, <2>2, <2>4 DEF F!SleepUntil
    <3> QED
      BY <2>2, <3>1, FiberActs
  <2>5. CASE d # 0
    <3>1. Free(f) /\ d > 0
      BY <2>2, <2>3, <2>5 DEF Free
    <3>2. q' \in [Queues -> SUBSET Fibers] /\ \A n \in Queues : q'[n] = IF n \in {} THEN q[n] \cup {f} ELSE q[n]
      BY <2>2 DEF FiberLists, FiberTypes
    <3>3. pc' = [pc EXCEPT ![f] = "run"] /\ "run" \in {"run", "wait"} /\ "run" # "wait"
      BY <2>2 DEF F!Go
    <3>4. {} \in SUBSET Queues
      OBVIOUS
    <3> QED
      BY <2>1, <2>2, <3>1, <3>2, <3>3, <3>4, FiberSleeps
  <2> QED
    BY <2>4, <2>5
<1>3. CASE F!Yield(f)
  <2>1. /\ cur = f /\ pc[f] = "do" /\ F!Reschedule(f) /\ F!Go(f, "run")
        /\ UNCHANGED <<world, sleep, until, q, op, thread, alive, joining, freed>>
    BY <1>3 DEF F!Yield, F!At, F!life
  <2>2. Free(f)
    BY <2>1 DEF Free
  <2>3. op' = [op EXCEPT ![f] = op[f]] /\ op[f] \in Ops \cup {None}
    BY <2>1 DEF FiberLists, FiberTypes
  <2>4. pc' = [pc EXCEPT ![f] = "run"] /\ "run" \in Places \ {"wait", "join"}
    BY <2>1 DEF F!Go, Places
  <2> QED
    BY <2>1, <2>2, <2>3, <2>4, FiberYields
<1> QED
  BY <1>1, <1>2, <1>3

\* Every step keeps the lists, the joins and the Threads.
LEMMA FiberListsStep ==
    ASSUME F!ConstantsAssumption, FiberLists, [F!Next]_F!vars
    PROVE  FiberLists'
<1>1. CASE F!RunLoop
  BY <1>1, FiberRunLoop
<1>2. CASE F!Spawn
  BY <1>2, FiberSpawn
<1>3. ASSUME NEW f \in Fibers, F!Step(f) PROVE FiberLists'
  BY <1>3, FiberCalls, FiberLocks, FiberNotifies, FiberCvWaits, FiberOthers,
     FiberDetach, FiberJoin, FiberExit DEF F!Step
<1>4. CASE F!LoopEnds \/ UNCHANGED F!vars
  <2>1. UNCHANGED <<world, cur, rq, sleep, st, q, op, pc, until, thread, alive, joining, freed>>
    BY <1>4 DEF F!LoopEnds, F!vars, F!sched, F!prog, F!life
  <2> QED
    BY <2>1 DEF FiberLists, FiberTypes, FiberThreads, FiberJoins, FiberPlaces, Place, FiberWakes,
       Entries, Eraser, Joined, F!TickLength
<1> QED
  BY <1>1, <1>2, <1>3, <1>4 DEF F!Next

-----------------------------------------------------------------------------
(* The plain mutex.                                                        *)

\* What taking and releasing a mutex of any class does to its fields.
LEMMA LockTypesKept ==
    ASSUME LockTypes, NEW f \in Fibers, NEW m \in {"x", "s"},
           \/ UNCHANGED <<lk, held>>
           \/ \E h \in {"x", "s"} : F!Take(f, m, h)
           \/ lk' = F!Released(m) /\ held' = [held EXCEPT ![f][m] = @ - 1]
    PROVE  LockTypes'
<1>1. CASE UNCHANGED <<lk, held>>
  BY <1>1 DEF LockTypes
<1>2. CASE \E h \in {"x", "s"} : F!Take(f, m, h)
  <2>1. held' = [held EXCEPT ![f][m] = @ + 1]
    BY <1>2 DEF F!Take
  <2>2. held' \in [Fibers -> [x : Int, s : Int]]
    BY <2>1 DEF LockTypes
  <2>3. \/ lk' = [lk EXCEPT !.occupied = TRUE]
        \/ lk' = [lk EXCEPT !.count = @ + 1, !.owner = f]
        \/ lk' = [lk EXCEPT !.occupied = TRUE, !.exclusive = TRUE]
        \/ lk' = [lk EXCEPT !.occupied = TRUE, !.exclusive = FALSE, !.owners = @ + 1]
    BY <1>2 DEF F!Take
  <2>4. lk' = [i \in DOMAIN lk' |-> lk'[i]] /\ "occupied" \in DOMAIN lk'
    BY <2>3 DEF LockTypes
  <2> QED
    BY <2>2, <2>4 DEF LockTypes
<1>3. CASE lk' = F!Released(m) /\ held' = [held EXCEPT ![f][m] = @ - 1]
  <2>1. held' \in [Fibers -> [x : Int, s : Int]]
    BY <1>3 DEF LockTypes
  <2>2. \/ lk' = [lk EXCEPT !.count = @ - 1, !.owner = IF lk.count = 1 THEN None ELSE @]
        \/ lk' = [lk EXCEPT !.owners = @ - 1, !.occupied = IF lk.owners = 1 THEN FALSE ELSE @]
        \/ lk' = [lk EXCEPT !.occupied = FALSE]
    BY <1>3 DEF F!Released
  <2>3. lk' = [i \in DOMAIN lk' |-> lk'[i]] /\ "occupied" \in DOMAIN lk'
    BY <2>2 DEF LockTypes
  <2> QED
    BY <2>1, <2>3 DEF LockTypes
<1> QED
  BY <1>1, <1>2, <1>3

\* A step of the running fiber that has nothing to do with the mutex.
LEMMA LockKept ==
    ASSUME F!ConstantsAssumption, FiberLists, FiberLock, NEW f \in Fibers, cur = f,
           UNCHANGED <<world, lk, held>>,
           NEW o, NEW p, op' = [op EXCEPT ![f] = o], pc' = [pc EXCEPT ![f] = p],
           world.kind = "mutex" =>
             /\ o \notin F!Special /\ ~(op[f] = "lock" /\ pc[f] = "wait")
             /\ p = "do" /\ o \in {"unlock", "wait", "wait_until"} => held[f].x = 1,
           rq \subseteq rq', q'["x"] \subseteq q["x"]
    PROVE  FiberLock'
<1>1. LockTypes'
  BY DEF FiberLock, LockTypes
<1> SUFFICES ASSUME world.kind = "mutex" PROVE LockFields' /\ LockHandOver'
  BY <1>1 DEF FiberLock
<1>2. op \in [Fibers -> Ops \cup {None}] /\ pc \in [Fibers -> Places]
  BY DEF FiberLists, FiberTypes
<1>3. LockFields'
  BY <1>2 DEF FiberLock, LockFields
<1>4. LockHandOver'
  <2>1. \A h \in Fibers : Looks(h) => Looks(h)'
    BY <1>2 DEF Looks
  <2> QED
    BY <2>1 DEF FiberLock, LockHandOver
<1> QED
  BY <1>3, <1>4

\* The running fiber takes the plain mutex.
LEMMA LockTaken ==
    ASSUME F!ConstantsAssumption, FiberLists, FiberLock, NEW f \in Fibers, world.kind = "mutex", world' = world,
           NEW m, m = F!Mode(op[f]), ~F!Blocked(f, m), F!Take(f, m, m), F!Go(f, "after"), UNCHANGED op
    PROVE  LockFields' /\ LockHandOver'
<1>1. m = "x"
  BY DEF F!Mode, FiberLock, LockFields, F!Special
<1>2. ~lk.occupied
  BY DEF F!Blocked
<1>3. lk' = [lk EXCEPT !.occupied = TRUE] /\ held' = [held EXCEPT ![f].x = @ + 1]
  BY <1>1 DEF F!Take
<1>4. \A h \in Fibers : held[h].x = 0
  BY <1>2 DEF FiberLock, LockFields
<1>5. /\ \A h \in Fibers : held'[h].s = held[h].s /\ held'[h].x = IF h = f THEN 1 ELSE 0
      /\ lk'.occupied = TRUE
  BY <1>3, <1>4 DEF FiberLock, LockTypes
<1>6. pc' = [pc EXCEPT ![f] = "after"] /\ pc \in [Fibers -> Places]
  BY DEF F!Go, FiberLists, FiberTypes
<1>7. LockFields'
  BY <1>4, <1>5, <1>6 DEF FiberLock, LockFields
<1> QED
  BY <1>5, <1>7 DEF LockHandOver

\* The running fiber releases the plain mutex, and wakes a waiter.
LEMMA LockReleased ==
    ASSUME F!ConstantsAssumption, FiberLists, FiberLock, NEW f \in Fibers, cur = f, world.kind = "mutex",
           pc[f] = "do", op[f] \in {"unlock", "wait", "wait_until"},
           lk' = F!Released("x"), held' = [held EXCEPT ![f].x = @ - 1], F!WakeNext("x"),
           NEW p \in {"after", "queue"}, F!Go(f, p), UNCHANGED <<op, world, cur>>
    PROVE  LockFields' /\ LockHandOver'
<1>1. lk' = [lk EXCEPT !.occupied = FALSE]
  BY DEF F!Released
<1>2. held[f].x = 1 /\ \A h \in Fibers : h # f => held[h].x = 0
  BY DEF FiberLock, LockFields
<1>3. /\ \A h \in Fibers : held'[h].s = held[h].s /\ held'[h].x = 0
      /\ lk'.occupied = FALSE
  BY <1>1, <1>2 DEF FiberLock, LockTypes
<1>4. pc' = [pc EXCEPT ![f] = p] /\ pc \in [Fibers -> Places]
  BY DEF F!Go, FiberLists, FiberTypes
<1>5. LockFields'
  BY <1>3, <1>4 DEF FiberLock, LockFields
<1>6. LockHandOver'
  <2>1. F!NotifyOne("x")
    BY DEF F!WakeNext
  <2>2. CASE q["x"] = {}
    BY <2>1, <2>2 DEF F!NotifyOne, LockHandOver
  <2>3. CASE q["x"] # {}
    <3>1. PICK g \in q["x"] : F!Notify("x", {g})
      BY <2>1, <2>3 DEF F!NotifyOne
    <3>2. "x" \in Queues /\ Free(f) /\ {g} \in SUBSET q["x"]
      BY DEF Free, Queues
    <3>3. /\ g \in Fibers /\ g # f /\ pc[g] = "wait" /\ op[g] \in WaitsIn("x")
          /\ rq' = rq \cup {g}
      BY <3>1, <3>2, NotifyWakes
    <3>4. op[g] = "lock"
      BY <3>3 DEF WaitsIn, FiberLock, LockFields, F!Special
    <3>5. Looks(g)'
      BY <3>3, <3>4, <1>4 DEF Looks
    <3> QED
      BY <3>3, <3>5 DEF LockHandOver
  <2> QED
    BY <2>2, <2>3
<1> QED
  BY <1>5, <1>6

\* lock, try_lock and their timed and shared forms.
LEMMA LocksLock ==
    ASSUME F!ConstantsAssumption, FiberLists, FiberLock, NEW f \in Fibers,
           F!Lock(f) \/ F!TryLock(f) \/ F!TimedLock(f) \/ F!TimedLockWoken(f)
    PROVE  FiberLock'
<1>1. LockTypes'
  <2>1. PICK m \in {"x", "s"} : m = F!Mode(op[f])
    BY DEF F!Mode
  <2>2. UNCHANGED <<lk, held>> \/ \E h \in {"x", "s"} : F!Take(f, m, h)
    BY <2>1 DEF F!Lock, F!TryLock, F!TimedLock, F!TimedLockWoken, F!mutex
  <2>3. LockTypes
    BY DEF FiberLock
  <2> QED
    BY <2>2, <2>3, LockTypesKept
<1>2. world' = world /\ op' = op /\ cur = f
  BY DEF F!Lock, F!TryLock, F!TimedLock, F!TimedLockWoken, F!At
<1> SUFFICES ASSUME world.kind = "mutex" PROVE LockFields' /\ LockHandOver'
  BY <1>1, <1>2 DEF FiberLock
<1>3. op[f] \notin F!Special
  BY DEF FiberLock, LockFields
<1>4. F!Lock(f) \/ F!TryLock(f)
  BY <1>3 DEF F!TimedLock, F!TimedLockWoken, F!At, F!Special
<1>5. PICK m : m = F!Mode(op[f])
  OBVIOUS
<1>6. m = "x"
  BY <1>3, <1>5 DEF F!Mode, F!Special
<1>7. op \in [Fibers -> Ops \cup {None}] /\ pc \in [Fibers -> Places] /\ q \in [Queues -> SUBSET Fibers] /\ "x" \in Queues
  BY DEF FiberLists, FiberTypes, Queues
<1>8. CASE F!WaitIn(f, "x") /\ UNCHANGED <<lk, held>> /\ F!LockAgain(f, m)
  <2>1. lk.occupied
    BY <1>8 DEF F!LockAgain, F!Blocked
  <2>2. pc' = [pc EXCEPT ![f] = "wait"]
    BY <1>8 DEF F!WaitIn
  <2>3. LockFields'
    BY <1>2, <1>7, <1>8, <2>2 DEF FiberLock, LockFields
  <2> QED
    BY <1>8, <2>1, <2>3 DEF LockHandOver
<1>9. CASE UNCHANGED <<lk, held, q, rq>> /\ F!Go(f, "after") /\ op[f] = "try_lock"
  <2>1. pc' = [pc EXCEPT ![f] = "after"]
    BY <1>9 DEF F!Go
  <2>2. rq \subseteq rq' /\ q'["x"] \subseteq q["x"]
    BY <1>9
  <2>3. op' = [op EXCEPT ![f] = op[f]]
    BY <1>2, <1>7
  <2>4. FiberLock'
    BY <1>2, <1>3, <1>9, <2>1, <2>2, <2>3, LockKept
  <2> QED
    BY <1>2, <2>4 DEF FiberLock
<1>10. CASE ~F!Blocked(f, m) /\ F!Take(f, m, m) /\ F!Go(f, "after")
  BY <1>2, <1>5, <1>10, LockTaken
<1>11. CASE F!Lock(f)
  <2>1. CASE F!LockAgain(f, m)
    BY <1>5, <1>8, <1>11, <2>1 DEF F!Lock, F!mutex
  <2>2. CASE ~F!LockAgain(f, m)
    <3>1. F!Take(f, m, m) /\ F!Go(f, "after")
      BY <1>5, <1>11, <2>2 DEF F!Lock, F!Return
    <3>2. ~F!Blocked(f, m)
      BY <2>2 DEF F!LockAgain
    <3> QED
      BY <3>1, <3>2, <1>10
  <2> QED
    BY <2>1, <2>2
<1>12. CASE F!TryLock(f)
  <2>1. op[f] = "try_lock" /\ F!Go(f, "after") /\ UNCHANGED <<q, rq>>
    BY <1>3, <1>12 DEF F!TryLock, F!At, F!Return, F!Special, F!sched
  <2>2. CASE F!Blocked(f, m)
    BY <1>5, <1>9, <1>12, <2>1, <2>2 DEF F!TryLock, F!mutex
  <2>3. CASE ~F!Blocked(f, m)
    BY <1>5, <1>10, <1>12, <2>1, <2>3 DEF F!TryLock
  <2> QED
    BY <2>2, <2>3
<1> QED
  BY <1>4, <1>11, <1>12

\* unlock, also inside of a condition variable.
LEMMA UnlocksLock ==
    ASSUME F!ConstantsAssumption, FiberLists, FiberLock, NEW f \in Fibers, F!Unlock(f) \/ F!CvUnlock(f)
    PROVE  FiberLock'
<1>1. PICK m \in {"x", "s"}, p \in {"after", "queue"} :
        /\ cur = f /\ pc[f] = "do" /\ op[f] \in {"unlock", "unlock_shared", "wait", "wait_until"}
        /\ m = F!Mode(op[f])
        /\ lk' = F!Released(m) /\ held' = [held EXCEPT ![f][m] = @ - 1]
        /\ F!WakeNext(m) /\ F!Go(f, p) /\ UNCHANGED <<op, world, cur>>
  <2>1. CASE F!Unlock(f)
    <3>1. F!Mode(op[f]) \in {"x", "s"}
      BY DEF F!Mode
    <3> QED
      BY <2>1, <3>1 DEF F!Unlock, F!At, F!Return
  <2>2. CASE F!CvUnlock(f)
    <3>1. F!Mode(op[f]) = "x"
      BY <2>2 DEF F!Mode, F!CvUnlock, F!At
    <3> QED
      BY <2>2, <3>1 DEF F!CvUnlock, F!At
  <2> QED
    BY <2>1, <2>2
<1>2. LockTypes'
  BY <1>1, LockTypesKept DEF FiberLock
<1> SUFFICES ASSUME world.kind = "mutex" PROVE LockFields' /\ LockHandOver'
  BY <1>1, <1>2 DEF FiberLock
<1>3. m = "x" /\ op[f] # "unlock_shared"
  BY <1>1 DEF FiberLock, LockFields, F!Special, F!Mode
<1> QED
  BY <1>1, <1>3, LockReleased

\* A fiber calls only what its mutex has, and unlocks only what it holds.
LEMMA CallsLock ==
    ASSUME F!ConstantsAssumption, FiberLists, FiberLock, NEW f \in Fibers,
           NEW o \in F!Injected \cup F!Plain, F!Call(f, o)
    PROVE  FiberLock'
<1>1. /\ cur = f /\ pc[f] = "run" /\ F!CanCall(f, o)
      /\ op' = [op EXCEPT ![f] = o] /\ pc' = [pc EXCEPT ![f] = "do"]
      /\ UNCHANGED <<world, lk, held, q>>
  BY DEF F!Call, F!mutex
<1>2. rq \subseteq rq' /\ q'["x"] \subseteq q["x"]
  BY <1>1 DEF F!Call, F!InjectFault, F!Reschedule
<1>3. ASSUME world.kind = "mutex"
      PROVE  o \notin F!Special /\ (o \in {"unlock", "wait", "wait_until"} => held[f].x = 1)
  <2>1. held[f].x \in {0, 1} /\ held[f].s = 0
    BY <1>3 DEF FiberLock, LockFields
  <2>2. world.ops \cap F!Special = {}
    BY <1>3 DEF FiberLists, FiberTypes, F!ConstantsAssumption, F!Offers
  <2>3. o \in {"unlock", "wait", "wait_until"} => held[f].x > 0
    BY <1>1 DEF F!CanCall
  <2>4. o # "unlock_shared"
    BY <1>1, <2>1 DEF F!CanCall
  <2>5. o \in F!Special \ {"unlock_shared"} => o \in world.ops
    BY <1>1 DEF F!CanCall, F!Special
  <2> QED
    BY <2>1, <2>2, <2>3, <2>4, <2>5
<1> QED
  BY <1>1, <1>2, <1>3, LockKept

\* Every step keeps the mutex.
LEMMA FiberLockStep ==
    ASSUME F!ConstantsAssumption, FiberLists, FiberLock, [F!Next]_F!vars
    PROVE  FiberLock'
<1>0. op \in [Fibers -> Ops \cup {None}] /\ pc \in [Fibers -> Places]
  BY DEF FiberLists, FiberTypes
<1>1. CASE F!RunLoop
  <2>1. UNCHANGED <<world, lk, held, q, op, pc>> /\ cur = None /\ None \notin Fibers /\ rq \subseteq rq' \cup {cur'}
    BY <1>1, TimeMoves, FiberConstants DEF F!RunLoop, F!mutex, F!prog
  <2>2. \A h \in Fibers : Looks(h) => Looks(h)'
    BY <2>1 DEF Looks
  <2> QED
    BY <2>1, <2>2 DEF FiberLock, LockTypes, LockFields, LockHandOver
<1>2. CASE F!Spawn \/ F!LoopEnds \/ UNCHANGED F!vars
  <2>1. UNCHANGED <<world, lk, held, q, op, pc, cur>> /\ rq \subseteq rq'
    BY <1>2 DEF F!Spawn, F!Schedule, F!LoopEnds, F!vars, F!sched, F!mutex, F!prog
  <2>2. \A h \in Fibers : Looks(h) => Looks(h)'
    BY <2>1 DEF Looks
  <2> QED
    BY <2>1, <2>2 DEF FiberLock, LockTypes, LockFields, LockHandOver
<1>3. ASSUME NEW f \in Fibers, F!Step(f) PROVE FiberLock'
  <2>1. CASE \E o \in F!Injected \cup F!Plain : F!Call(f, o)
    BY <2>1, CallsLock
  <2>2. CASE F!Lock(f) \/ F!TryLock(f) \/ F!TimedLock(f) \/ F!TimedLockWoken(f)
    BY <2>2, LocksLock
  <2>3. CASE F!Unlock(f) \/ F!CvUnlock(f)
    BY <2>3, UnlocksLock
  <2>4. ASSUME cur = f, UNCHANGED <<world, lk, held>>, rq \subseteq rq', q'["x"] \subseteq q["x"],
               NEW p, NEW o, op' = [op EXCEPT ![f] = o], pc' = [pc EXCEPT ![f] = p],
               o \in {op[f], None, "lock"},
               ~(op[f] = "lock" /\ pc[f] = "wait"), p # "do" \/ o = "lock"
        PROVE  FiberLock'
    <3>1. world.kind = "mutex" => o \notin F!Special
      BY <2>4, <1>0, FiberConstants DEF FiberLock, LockFields, F!Special, Ops, F!Injected, F!Timed
    <3>2. p = "do" /\ o \in {"unlock", "wait", "wait_until"} => held[f].x = 1
      BY <2>4
    <3> QED
      BY <2>4, <3>1, <3>2, LockKept
  <2>5. op' = op => op' = [op EXCEPT ![f] = op[f]]
    BY <1>0
  <2>6. pc' = pc => pc' = [pc EXCEPT ![f] = pc[f]]
    BY <1>0
  <2>7. CASE F!Returned(f)
    <3>1. rq \subseteq rq' /\ q' = q
      BY <2>7 DEF F!Returned, F!InjectFault, F!Reschedule
    <3> QED
      BY <2>4, <2>7, <3>1 DEF F!Returned, F!mutex
  <2>8. CASE F!CvQueue(f)
    <3>1. rq \subseteq rq' /\ q'["x"] \subseteq q["x"] /\ pc' = [pc EXCEPT ![f] = "wait"]
      BY <2>8 DEF F!CvQueue, F!WaitIn, F!WaitUntil, FiberLists, FiberTypes, Queues
    <3> QED
      BY <2>4, <2>5, <2>8, <3>1 DEF F!CvQueue, F!At, F!mutex
  <2>9. CASE F!CvWoken(f)
    <3>1. rq \subseteq rq' /\ q'["x"] \subseteq q["x"]
      BY <2>9 DEF F!CvWoken, F!WokenIn, FiberLists, FiberTypes, Queues
    <3> QED
      BY <2>4, <2>9, <3>1 DEF F!CvWoken, F!At, F!Go, F!mutex
  <2>10. CASE F!CvNotify(f) \/ F!AtomicNotify(f)
    <3>1. cur = f /\ pc[f] = "do" /\ F!Go(f, "after") /\ UNCHANGED <<world, lk, held, op>>
      BY <2>10 DEF F!CvNotify, F!AtomicNotify, F!At, F!Return, F!mutex
    <3>2. \E n \in Queues : F!NotifyOne(n) \/ F!NotifyAll(n)
      BY <2>10 DEF F!CvNotify, F!AtomicNotify, Queues
    <3>3. PICK m \in Queues : \E W \in SUBSET q[m] : F!Notify(m, W)
      BY <3>2, Notifies
    <3>4. rq \subseteq rq' /\ q'["x"] \subseteq q["x"]
      BY <3>3 DEF F!Notify, F!ScheduleAndRemove, F!Schedule, FiberLists, FiberTypes, Queues
    <3> QED
      BY <2>4, <2>5, <3>1, <3>4 DEF F!Go
  <2>11. CASE F!Atomic(f)
    <3>1. cur = f /\ pc[f] = "do" /\ F!Go(f, "after") /\ UNCHANGED <<world, lk, held, op, rq, q>>
      BY <2>11 DEF F!Atomic, F!At, F!Return, F!mutex, F!sched
    <3> QED
      BY <2>4, <2>5, <3>1 DEF F!Go
  <2>12. CASE F!AtomicWait(f)
    <3>1. cur = f /\ op[f] = "atomic_wait" /\ UNCHANGED <<world, lk, held, op>>
      BY <2>12 DEF F!AtomicWait, F!At, F!mutex
    <3>2. /\ rq \subseteq rq' /\ q'["x"] \subseteq q["x"]
          /\ pc' = [pc EXCEPT ![f] = "wait"] \/ pc' = [pc EXCEPT ![f] = "after"]
      BY <2>12 DEF F!AtomicWait, F!WaitIn, F!Return, F!Go, F!sched, FiberLists, FiberTypes, Queues
    <3> QED
      BY <2>4, <2>5, <3>1, <3>2
  <2>13. CASE F!SleepFor(f) \/ F!Yield(f)
    <3>1. cur = f /\ pc[f] = "do" /\ F!Go(f, "run") /\ UNCHANGED <<world, lk, held, op, q>> /\ rq \subseteq rq'
      BY <2>13 DEF F!SleepFor, F!Yield, F!At, F!mutex, F!Reschedule
    <3> QED
      BY <2>4, <2>5, <3>1 DEF F!Go
  <2>14. CASE \E g \in Fibers : F!Detach(f, g)
    <3>1. cur = f /\ pc[f] = "run" /\ UNCHANGED <<world, lk, held, op, pc, q, rq>>
      BY <2>14 DEF F!Detach, F!mutex, F!sched, F!prog
    <3> QED
      BY <2>4, <2>5, <2>6, <3>1
  <2>15. CASE \E g \in Fibers : F!Join(f, g)
    <3>1. cur = f /\ pc[f] \in {"run", "join"} /\ UNCHANGED <<world, lk, held, op, q, rq>>
      BY <2>15 DEF F!Join, F!mutex
    <3>2. pc' = [pc EXCEPT ![f] = "run"] \/ pc' = [pc EXCEPT ![f] = "join"]
      BY <2>15 DEF F!Join, F!Go
    <3> QED
      BY <2>4, <2>5, <3>1, <3>2
  <2>16. CASE F!Exit(f)
    <3>1. cur = f /\ pc[f] = "run" /\ UNCHANGED <<world, lk, held, op, pc, q>> /\ rq \subseteq rq'
      BY <2>16 DEF F!Exit, F!mutex, F!prog
    <3> QED
      BY <2>4, <2>5, <2>6, <3>1
  <2> QED
    BY <1>3, <2>1, <2>2, <2>3, <2>7, <2>8, <2>9, <2>10, <2>11, <2>12, <2>13, <2>14, <2>15, <2>16 DEF F!Step
<1> QED
  BY <1>1, <1>2, <1>3 DEF F!Next

-----------------------------------------------------------------------------
(* The theorems about the simulator.                                       *)

\* Before the loop runs only main is there.
LEMMA FiberInitial ==
    ASSUME F!ConstantsAssumption, F!Init
    PROVE  FiberInv
<1> USE FiberConstants
<1>1. FiberTypes
  BY DEF F!Init, FiberTypes, F!FiberStates, Queues, Places
<1>2. FiberThreads
  BY DEF F!Init, FiberThreads, F!FiberStates
<1>3. FiberJoins
  BY DEF F!Init, FiberJoins, Joined
<1>4. FiberPlaces
  BY DEF F!Init, FiberPlaces, Place, Queues, F!FiberStates
<1>5. FiberWakes
  BY DEF F!Init, FiberWakes, F!FiberStates
<1>6. Entries
  BY DEF F!Init, Entries
<1>7. FiberLock
  <2>1. lk = [i \in DOMAIN lk |-> lk[i]] /\ "occupied" \in DOMAIN lk /\ lk.occupied = FALSE
    BY DEF F!Init
  <2>2. \A f \in Fibers : held[f].x = 0 /\ held[f].s = 0 /\ op[f] = None /\ pc[f] = "run"
    BY DEF F!Init
  <2>3. held \in [Fibers -> [x : Int, s : Int]] /\ q["x"] = {}
    BY DEF F!Init
  <2>4. None \notin F!Special
    BY DEF F!Special, Ops, F!Injected, F!Timed
  <2>5. LockFields
    BY <2>1, <2>2, <2>4 DEF LockFields
  <2> QED
    BY <2>1, <2>3, <2>5 DEF FiberLock, LockTypes, LockHandOver
<1>8. FiberWord
  BY DEF F!Init, FiberWord
<1> QED
  BY <1>1, <1>2, <1>3, <1>4, <1>5, <1>6, <1>7, <1>8 DEF FiberInv, FiberLists

\* Every increment of the atomic is counted.
LEMMA FiberWordStep ==
    ASSUME FiberWord, [F!Next]_F!vars
    PROVE  FiberWord'
<1>1. UNCHANGED <<atomic, reg, adds>> \/ \E f \in Fibers : F!Atomic(f)
  <2>1. CASE F!RunLoop \/ F!LoopEnds \/ F!Spawn \/ UNCHANGED F!vars
    BY <2>1 DEF F!RunLoop, F!LoopEnds, F!Spawn, F!vars, F!word
  <2>2. ASSUME NEW f \in Fibers, F!Step(f), ~F!Atomic(f) PROVE UNCHANGED <<atomic, reg, adds>>
    BY <2>2 DEF F!Step, F!Call, F!Returned, F!Lock, F!TryLock, F!TimedLock, F!TimedLockWoken, F!Unlock,
       F!CvUnlock, F!CvQueue, F!CvWoken, F!CvNotify, F!AtomicWait, F!AtomicNotify, F!SleepFor, F!Yield,
       F!Detach, F!Join, F!Exit, F!word
  <2> QED
    BY <2>1, <2>2 DEF F!Next
<1>2. CASE UNCHANGED <<atomic, reg, adds>>
  BY <1>2 DEF FiberWord
<1>3. ASSUME NEW f \in Fibers, F!Atomic(f) PROVE FiberWord'
  BY <1>3 DEF FiberWord, F!Atomic, F!CompareExchangeHelper
<1> QED
  BY <1>1, <1>2, <1>3

\* FiberInv is inductive: every reachable state of the simulator satisfies it.
THEOREM FiberInvariance ==
    ASSUME F!ConstantsAssumption
    PROVE  F!Spec => []FiberInv
<1>1. F!Init => FiberInv
  BY FiberInitial
<1>2. FiberInv /\ [F!Next]_F!vars => FiberInv'
  BY FiberListsStep, FiberLockStep, FiberWordStep DEF FiberInv
<1> QED
  BY <1>1, <1>2, PTL DEF F!Spec

\* The two modules count in the same way.
LEMMA SmallSets ==
    ASSUME NEW S
    PROVE  /\ S = {} => F!Cardinality(S) = 0
           /\ \A e : S = {e} => F!Cardinality(S) = 1
<1>1. F!Cardinality(S) = Cardinality(S)
  BY DEF F!Cardinality, Cardinality
<1> QED
  BY <1>1, FS_EmptySet, FS_Singleton

\* Nobody is in two lists, or in none without somebody to wake it.
LEMMA ListsForgetNobody ==
    ASSUME F!ConstantsAssumption, FiberLists
    PROVE  F!NobodyForgotten
<1> USE FiberConstants
<1> SUFFICES ASSUME NEW f \in Fibers
             PROVE  LET ready == f \in rq
                        timed == op[f] \in F!Timed /\ pc[f] = "wait"
                        lists == F!Cardinality(F!Asleep(f)) + (IF ready THEN 1 ELSE 0) + (IF cur = f THEN 1 ELSE 0)
                    IN IF st[f] \in {None, "Completed"}
                         THEN lists = 0 /\ F!Queued(f) = {}
                         ELSE \/ lists = 1 /\ (F!Queued(f) # {} => timed)
                              \/ lists = 0 /\ F!Cardinality(F!Queued(f)) = 1 /\ ~timed
                              \/ lists = 0 /\ pc[f] = "join" /\ \E g \in Fibers : joining[g] = f /\ st[g] # "Completed"
  BY DEF F!NobodyForgotten
<1>1. Place(f)
  BY DEF FiberLists, FiberPlaces
<1>2. PICK n : n = F!Cardinality(F!Asleep(f))
  OBVIOUS
<1>3. \A k \in DOMAIN sleep : f \in sleep[k] => n = 1
  <2> SUFFICES ASSUME NEW k \in DOMAIN sleep, f \in sleep[k] PROVE n = 1
    OBVIOUS
  <2>1. F!Asleep(f) = {k}
    BY <1>1 DEF Place, F!Asleep
  <2> QED
    BY <2>1, <1>2, SmallSets
<1>4. (\A k \in DOMAIN sleep : f \notin sleep[k]) => n = 0
  BY <1>2, SmallSets DEF F!Asleep
<1>5. DOMAIN q = Queues /\ st[f] \in F!FiberStates \cup {None}
  BY DEF FiberLists, FiberTypes
<1>6. F!Queued(f) # {} => \E m \in Queues : f \in q[m] /\ F!Queued(f) = {m}
  BY <1>1, <1>5, OneQueue DEF Place, F!Queued
<1>7. CASE st[f] \in {None, "Completed"}
  <2>1. f \notin rq /\ cur # f /\ n = 0 /\ F!Queued(f) = {}
    BY <1>1, <1>4, <1>6, <1>7 DEF Place, F!FiberStates
  <2> QED
    BY <1>2, <1>7, <2>1
<1>8. CASE st[f] \in {"Running", "Waiting"}
  <2>1. n = 0 /\ (f \in rq <=> cur # f) /\ (F!Queued(f) # {} => op[f] \in F!Timed /\ pc[f] = "wait")
    BY <1>1, <1>4, <1>6, <1>8 DEF Place
  <2> QED
    BY <1>2, <1>8, <2>1 DEF F!FiberStates
<1>9. CASE st[f] = "Suspended"
  <2>1. cur # f /\ st[f] \notin {None, "Completed"}
    BY <1>1, <1>9 DEF Place, F!FiberStates
  <2>2. CASE f \in rq
    <3>1. n = 0 /\ (F!Queued(f) # {} => op[f] \in F!Timed /\ pc[f] = "wait")
      BY <1>1, <1>4, <1>6, <2>2 DEF Place
    <3> QED
      BY <1>2, <2>1, <2>2, <3>1
  <2>3. CASE f \notin rq /\ \E k \in DOMAIN sleep : f \in sleep[k]
    <3>1. n = 1 /\ (F!Queued(f) # {} => op[f] \in F!Timed /\ pc[f] = "wait")
      BY <1>1, <1>3, <1>6, <2>3 DEF Place
    <3> QED
      BY <1>2, <2>1, <2>3, <3>1
  <2>4. CASE f \notin rq /\ ~(\E k \in DOMAIN sleep : f \in sleep[k])
    <3>1. n = 0
      BY <1>4, <2>4
    <3>2. CASE op[f] \notin F!Timed /\ \E m \in Queues : f \in q[m]
      <4>1. F!Cardinality(F!Queued(f)) = 1
        BY <1>5, <1>6, <3>2, SmallSets DEF F!Queued
      <4> QED
        BY <1>2, <2>1, <2>4, <3>1, <3>2, <4>1
    <3>3. CASE pc[f] = "join" /\ \E g \in Fibers : Joined(g) /\ st[g] # "Completed"
      <4>1. \E g \in Fibers : joining[g] = f /\ st[g] # "Completed"
        BY <3>3 DEF Joined, FiberLists, FiberJoins
      <4> QED
        BY <1>2, <2>1, <2>4, <3>1, <3>3, <4>1
    <3> QED
      BY <1>9, <2>4, <3>2, <3>3 DEF FiberLists, FiberWakes
  <2> QED
    BY <2>2, <2>3, <2>4
<1> QED
  BY <1>5, <1>7, <1>8, <1>9 DEF F!FiberStates

\* Whatever the length of a tick, the scheduler of the simulator polls an empty
\* queue only when a tick has passed over an entry that was emptied before.
THEOREM PollsFindFibers ==
    ASSUME F!ConstantsAssumption
    PROVE  F!Spec => []F!PollFindsAFiber
<1>1. FiberInv => F!PollFindsAFiber
  <2> SUFFICES ASSUME FiberLists, cur = None, DOMAIN sleep # {}, F!Polled = {}
               PROVE  F!PassedOver
    BY DEF FiberInv, F!PollFindsAFiber, F!PollsNobody
  <2>1. rq = {}
    BY DEF F!Polled
  <2>2. PICK k \in DOMAIN sleep : k \in F!Ripe
    BY <2>1, TimeMoves
  <2>3. sleep[k] = {}
    BY <2>2, TimeMoves
  <2>4. k \in Int /\ ~(k >= 0)
    BY <2>1, <2>3, FiberConstants DEF FiberLists, FiberTypes, Entries, Eraser
  <2>5. F!TickLength \in Nat /\ k + F!TickLength >= 1
    BY TimeMoves DEF FiberLists, FiberTypes
  <2> QED
    BY <2>3, <2>4, <2>5 DEF F!PassedOver
<1> QED
  BY <1>1, FiberInvariance, PTL

\* A fiber is deleted once, by the last one who needs it, and nothing refers
\* to it then.
LEMMA ListsFreeOnce ==
    ASSUME F!ConstantsAssumption, FiberLists
    PROVE  F!FreedOnce
<1> SUFFICES ASSUME NEW f \in Fibers
             PROVE  /\ freed[f] = IF st[f] = "Completed" /\ f # Main /\ thread[f] = None THEN 1 ELSE 0
                    /\ freed[f] = 1 => /\ f \notin rq \cup F!Sleepers \cup UNION {q[n] : n \in DOMAIN q}
                                       /\ \A g \in Fibers : joining[g] = f => st[g] = "Completed"
  BY DEF F!FreedOnce
<1>1. freed[f] = IF st[f] = "Completed" /\ f # Main /\ thread[f] = None THEN 1 ELSE 0
  BY DEF FiberLists, FiberThreads
<1>2. ASSUME freed[f] = 1 PROVE f \notin rq \cup F!Sleepers \cup UNION {q[n] : n \in DOMAIN q}
  <2>1. Place(f) /\ st[f] = "Completed" /\ DOMAIN q = Queues
    BY <1>1, <1>2 DEF FiberLists, FiberPlaces, FiberTypes
  <2> QED
    BY <2>1 DEF Place, F!Sleepers
<1>3. ASSUME freed[f] = 1, NEW g \in Fibers, joining[g] = f PROVE st[g] = "Completed"
  BY <1>1, <1>3, FiberConstants DEF FiberLists, FiberThreads
<1> QED
  BY <1>1, <1>2, <1>3

\* The scheduler of the simulator loses no fiber, links none twice and deletes
\* each once.
THEOREM SchedulerLosesNobody ==
    ASSUME F!ConstantsAssumption
    PROVE  F!Spec => []F!FibersAccounted
<1>1. FiberInv => F!FibersAccounted
  BY ListsForgetNobody, ListsFreeOnce DEF FiberInv, F!FibersAccounted
<1> QED
  BY <1>1, FiberInvariance, PTL

\* The simulated mutex excludes and loses no waiter, and no increment of the
\* simulated atomic is lost.
THEOREM SimulatedPrimitives ==
    ASSUME F!ConstantsAssumption
    PROVE  F!Spec => []F!PrimitivesSound
<1>1. FiberInv => F!PrimitivesSound
  <2> SUFFICES ASSUME FiberLock, FiberWord PROVE F!PrimitivesSound
    BY DEF FiberInv
  <2>1. F!IncrementsCount
    BY DEF FiberWord, F!IncrementsCount
  <2>2. ASSUME world.kind = "mutex"
        PROVE  /\ \A f, g \in Fibers : f # g => held[f].x + held[g].x <= 1
               /\ lk.occupied <=> \E f \in Fibers : held[f].x = 1
               /\ q["x"] # {} /\ ~lk.occupied =>
                    \E f \in Fibers : op[f] = "lock" /\ pc[f] = "wait" /\ f \in rq \cup {cur}
    <3>1. LockFields /\ LockHandOver
      BY <2>2 DEF FiberLock
    <3>2. ASSUME NEW f \in Fibers, NEW g \in Fibers, f # g PROVE held[f].x + held[g].x <= 1
      <4>1. held[f].x \in {0, 1} /\ held[g].x \in {0, 1} /\ ~(held[f].x = 1 /\ held[g].x = 1)
        BY <3>1, <3>2 DEF LockFields
      <4> QED
        BY <4>1
    <3> QED
      BY <3>1, <3>2 DEF LockFields, LockHandOver, Looks
  <2> QED
    BY <2>1, <2>2 DEF F!PrimitivesSound, F!MutexSound
<1> QED
  BY <1>1, FiberInvariance, PTL
=============================================================================
