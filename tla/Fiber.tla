------------------------------- MODULE Fiber -------------------------------
(***************************************************************************)
(* The fiber simulator of YACLIB_FAULT=FIBER: fault/detail/fiber and its   *)
(* sources, with the yaclib_std wrappers that call InjectFault around      *)
(* every operation.                                                        *)
(*                                                                         *)
(* All fibers run on one thread.  RunLoop picks a fiber at random, adds a  *)
(* tick to the simulated time and resumes it; it runs until it suspends,   *)
(* so that a step below is what a fiber does between two points where      *)
(* another one may run.  Fibers wait in FiberQueues, with or without a     *)
(* time to stop at; a fiber that waits with one is in a queue and in the   *)
(* sleep list at once.  The client is any sequence of calls from `ops' a   *)
(* program may make: it unlocks only what it has locked, joins or detaches *)
(* each thread once and exits holding nothing; main creates the threads.   *)
(*                                                                         *)
(* A BiList is a set: a random pick may take any element of a short list.  *)
(* Times are relative to now.  Definitions named X_Word are faulty         *)
(* variants of X that show that the properties can fail; the specification *)
(* does not use them.                                                      *)
(***************************************************************************)
EXTENDS Integers, FiniteSets, FiniteSetsExt

CONSTANTS
    Fibers,
    Main,        \* the fiber of the program's main thread
    Worlds,      \* programs: the mutex class, the operations they use, for each fiber
                 \* a bound on the operations that it calls, and the length of a tick
    Delays,      \* how long a timed operation may wait, the random part added
    None

Kinds == {"mutex", "timed", "recursive", "shared"}

\* the operations with a time to stop at, those that InjectFault surrounds, and the others
Timed == {"try_lock_until", "try_lock_shared_until", "wait_until"}
Injected == Timed \cup {"lock", "try_lock", "unlock", "lock_shared", "try_lock_shared", "unlock_shared",
                        "wait", "notify_one", "notify_all",
                        "load", "fetch_add", "cas", "cas_weak", "atomic_wait", "atomic_notify"}
Plain == {"sleep", "yield"}

\* what a mutex class has besides lock, try_lock and unlock
Special == {"try_lock_until", "lock_shared", "try_lock_shared", "try_lock_shared_until", "unlock_shared"}
Offers(k) ==
    CASE k = "mutex" -> {}
      [] k \in {"timed", "recursive"} -> {"try_lock_until"}
      [] k = "shared" -> Special

FiberStates == {"Running", "Waiting", "Suspended", "Completed"}

ASSUME ConstantsAssumption ==
    /\ Main \in Fibers /\ None \notin Fibers \cup FiberStates \cup Injected \cup Plain
    /\ Delays \subseteq Nat
    /\ \A w \in Worlds :
         /\ w.kind \in Kinds /\ w.ops \subseteq Injected \cup Plain /\ w.ops \cap Special \subseteq Offers(w.kind)
         /\ w.calls \in [Fibers -> Nat] /\ w.tick \in Nat

VARIABLES
    world,    \* an element of Worlds
    running,  \* RunLoop is running
    cur,      \* sCurrent, None inside RunLoop
    rq,       \* _queue of the scheduler
    sleep,    \* _sleep_list: time from now -> fibers; an entry may be empty
    st,       \* fiber -> FiberState, None before it is created
    q,        \* FiberQueues: "x" and "s" of the mutex, "cv", "atomic"
    lk,       \* the fields of the mutex
    held,     \* fiber -> exclusive and shared locks it has
    atomic,   \* the value of an atomic
    reg,      \* fiber -> the value it last read of it
    adds,     \* increments that succeeded
    until,    \* fiber -> when its timed wait ends, -1 when that is past
    op, pc,   \* fiber -> the operation it is in, and where
    left,     \* fiber -> operations it may still call
    thread,   \* fiber -> the fiber that has its Thread, None when nobody has
    alive,    \* fibers with _thread_alive
    joining,  \* fiber -> _joining_fiber
    freed     \* fiber -> how often it was deleted

sched == <<running, cur, rq, sleep, st, until>>
mutex == <<lk, held>>
word == <<atomic, reg, adds>>
prog == <<op, pc, left>>
life == <<thread, alive, joining, freed>>
vars == <<world, sched, q, mutex, word, prog, life>>

Init ==
    /\ world \in Worlds
    /\ running = TRUE /\ cur = None
    /\ rq = {Main} /\ sleep = [k \in {} |-> {}]
    /\ st = [f \in Fibers |-> IF f = Main THEN "Waiting" ELSE None]
    /\ q = [n \in {"x", "s", "cv", "atomic"} |-> {}]
    /\ lk = [occupied |-> FALSE, exclusive |-> FALSE, owners |-> 0, owner |-> None, count |-> 0]
    /\ held = [f \in Fibers |-> [x |-> 0, s |-> 0]]
    /\ atomic = 0 /\ reg = [f \in Fibers |-> 0] /\ adds = 0
    /\ until = [f \in Fibers |-> -1]
    /\ op = [f \in Fibers |-> None] /\ pc = [f \in Fibers |-> "run"]
    /\ left = world.calls
    /\ thread = [f \in Fibers |-> None]
    /\ alive = Fibers
    /\ joining = [f \in Fibers |-> None]
    /\ freed = [f \in Fibers |-> 0]

-----------------------------------------------------------------------------
(* The scheduler.                                                          *)

\* sTickLength
TickLength == world.tick

\* n nanoseconds pass
LaterSleep(s, n) == [k \in {j - n : j \in DOMAIN s} |-> s[k + n]]
LaterUntil(n) == [f \in Fibers |-> IF until[f] < n THEN -1 ELSE until[f] - n]

\* how far AdvanceTime moves the time when nobody is ready
AdvanceTime ==
    IF rq = {} /\ DOMAIN sleep # {} /\ Min(DOMAIN sleep) >= 0 THEN Min(DOMAIN sleep) ELSE 0

\* the entries that WakeUpNeeded moves to the queue once that time has passed
Ripe_NotNow == {k \in DOMAIN sleep : k < AdvanceTime}
Ripe == {k \in DOMAIN sleep : k <= AdvanceTime}

\* the queue that GetNext polls
Polled == rq \cup UNION {sleep[k] : k \in Ripe}

\* one turn of RunLoop, up to the switch to the fiber it resumes
RunLoop ==
    /\ running /\ cur = None
    /\ \E f \in Polled :
         LET passed == AdvanceTime + TickLength
         IN /\ cur' = f
            /\ rq' = Polled \ {f}
            /\ sleep' = LaterSleep([k \in DOMAIN sleep \ Ripe |-> sleep[k]], passed)
            /\ until' = LaterUntil(passed)
            /\ st' = [st EXCEPT ![f] = "Running"]
    /\ UNCHANGED <<world, running, q, mutex, word, prog, life>>

\* nothing is left to run
LoopEnds ==
    /\ running /\ cur = None
    /\ rq = {} /\ DOMAIN sleep = {}
    /\ running' = FALSE
    /\ UNCHANGED <<world, cur, rq, sleep, st, until, q, mutex, word, prog, life>>

\* FiberBase::Suspend
Suspend(f) ==
    /\ st' = [st EXCEPT ![f] = "Suspended"]
    /\ cur' = None

\* RescheduleCurrent
Reschedule(f) == rq' = rq \cup {f} /\ Suspend(f)

\* Scheduler::Sleep: the fiber suspends if that time is not past yet
SleepUntil(f, d) ==
    IF d <= 0
      THEN UNCHANGED <<sleep, st, cur>>
      ELSE /\ sleep' = [k \in DOMAIN sleep \cup {d} |->
                          (IF k \in DOMAIN sleep THEN sleep[k] ELSE {}) \cup (IF k = d THEN {f} ELSE {})]
           /\ Suspend(f)

Schedule(G) ==
    /\ rq' = rq \cup G
    /\ st' = [g \in Fibers |-> IF g \in G THEN "Waiting" ELSE st[g]]

-----------------------------------------------------------------------------
(* FiberQueue.                                                             *)

\* fibers W leave queue n, and the list of the scheduler they may be in
ScheduleAndRemove(W) ==
    LET G == {g \in W : st[g] # "Waiting"}
    IN Schedule(G) /\ sleep' = [k \in DOMAIN sleep |-> sleep[k] \ G]

Notify(n, W) ==
    /\ q' = [q EXCEPT ![n] = @ \ W]
    /\ ScheduleAndRemove(W)

NotifyOne(n) == IF q[n] = {} THEN UNCHANGED <<q, rq, st, sleep>> ELSE \E g \in q[n] : Notify(n, {g})
NotifyAll(n) == Notify(n, q[n])

\* Wait(NoTimeoutTag)
WaitIn(f, n) ==
    /\ q' = [q EXCEPT ![n] = @ \cup {f}]
    /\ Suspend(f)
    /\ pc' = [pc EXCEPT ![f] = "wait"]
    /\ UNCHANGED <<rq, sleep, until>>

\* Wait(time_point) up to where Sleep returns, at once if the time is past
WaitUntil(f, n, d) ==
    /\ q' = [q EXCEPT ![n] = @ \cup {f}]
    /\ SleepUntil(f, d)
    /\ until' = [until EXCEPT ![f] = d]
    /\ pc' = [pc EXCEPT ![f] = "wait"]
    /\ UNCHANGED rq

\* the end of SleepPreemptive: an entry nobody sleeps in any more goes.  When
\* two fibers of one entry were notified, the second finds none: what it reads
\* at end() decides whether it erases a key that is not there
EraseSleep_Keep(f) == UNCHANGED sleep
EraseSleep(f) ==
    IF until[f] \in DOMAIN sleep /\ until[f] >= 0 /\ sleep[until[f]] = {}
      THEN sleep' = [k \in DOMAIN sleep \ {until[f]} |-> sleep[k]]
      ELSE UNCHANGED sleep

\* Wait(time_point) returns: it was not notified if it is still queued
WokenIn(f, n) ==
    /\ EraseSleep(f)
    /\ q' = [q EXCEPT ![n] = @ \ {f}]
    /\ until' = [until EXCEPT ![f] = -1]

Ready(f, n) == f \notin q[n]

-----------------------------------------------------------------------------
(* Calls.  A fiber chooses an operation and is injected a fault before and *)
(* after it; which call of InjectFault yields is random.                   *)

CanCall(f, o) ==
    LET has == held[f].x + held[f].s
        may == o \in world.ops /\ left[f] > 0
    IN CASE o = "unlock" -> held[f].x > 0
         [] o = "unlock_shared" -> held[f].s > 0
         [] o \in {"lock", "try_lock", "try_lock_until"} ->
              may /\ (has = 0 \/ world.kind = "recursive")
         [] o \in {"lock_shared", "try_lock_shared", "try_lock_shared_until"} -> may /\ has = 0
         [] o \in {"wait", "wait_until"} -> may /\ held[f].x > 0
         [] OTHER -> may

\* MaybeInject
InjectFault(f) == UNCHANGED <<rq, st, cur>> \/ Reschedule(f)

Call(f, o) ==
    /\ cur = f /\ pc[f] = "run" /\ CanCall(f, o)
    /\ op' = [op EXCEPT ![f] = o]
    /\ pc' = [pc EXCEPT ![f] = "do"]
    /\ left' = [left EXCEPT ![f] = IF o \in {"unlock", "unlock_shared"} THEN @ ELSE @ - 1]
    /\ IF o \in Injected THEN InjectFault(f) ELSE UNCHANGED <<rq, st, cur>>
    /\ UNCHANGED <<world, running, sleep, until, q, mutex, word, life>>

Returned(f) ==
    /\ cur = f /\ pc[f] = "after"
    /\ pc' = [pc EXCEPT ![f] = "run"]
    /\ op' = [op EXCEPT ![f] = None]
    /\ InjectFault(f)
    /\ UNCHANGED <<world, running, sleep, until, q, mutex, word, left, life>>

At(f, o, p) == cur = f /\ op[f] = o /\ pc[f] = p
Go(f, p) == pc' = [pc EXCEPT ![f] = p]
Return(f) == Go(f, "after")

-----------------------------------------------------------------------------
(* The mutex classes.                                                      *)

Mode(o) == IF o \in {"lock_shared", "try_lock_shared", "try_lock_shared_until", "unlock_shared"} THEN "s" ELSE "x"

Blocked(f, m) ==
    CASE world.kind \in {"mutex", "timed"} -> lk.occupied
      [] world.kind = "recursive" -> lk.count # 0 /\ lk.owner # f
      [] world.kind = "shared" -> lk.occupied /\ (m = "x" \/ lk.exclusive)

\* LockHelper and SharedLockHelper: h is the helper that is called
Take(f, m, h) ==
    /\ lk' = CASE world.kind \in {"mutex", "timed"} -> [lk EXCEPT !.occupied = TRUE]
               [] world.kind = "recursive" -> [lk EXCEPT !.count = @ + 1, !.owner = f]
               [] world.kind = "shared" /\ h = "x" -> [lk EXCEPT !.occupied = TRUE, !.exclusive = TRUE]
               [] OTHER -> [lk EXCEPT !.occupied = TRUE, !.exclusive = FALSE, !.owners = @ + 1]
    /\ held' = [held EXCEPT ![f][m] = @ + 1]

\* lock and lock_shared: only Mutex looks again when it is woken
LockAgain_Once(f, m) == pc[f] = "do" /\ Blocked(f, m)
LockAgain(f, m) == Blocked(f, m) /\ (pc[f] = "do" \/ world.kind \in {"mutex", "timed"})

Lock(f) ==
    /\ \E p \in {"do", "wait"} : At(f, "lock", p) \/ At(f, "lock_shared", p)
    /\ LET m == Mode(op[f])
       IN IF LockAgain(f, m)
            THEN WaitIn(f, "x") /\ UNCHANGED mutex
            ELSE Take(f, m, m) /\ Return(f) /\ UNCHANGED <<sched, q>>
    /\ UNCHANGED <<world, running, word, op, left, life>>

TryLock(f) ==
    /\ At(f, "try_lock", "do") \/ At(f, "try_lock_shared", "do")
    /\ LET m == Mode(op[f])
       IN IF Blocked(f, m) THEN UNCHANGED mutex ELSE Take(f, m, m)
    /\ Return(f)
    /\ UNCHANGED <<world, sched, q, word, op, left, life>>

\* TimedWaitHelper; SharedTimedMutex takes the lock with SharedLockHelper
TimedLock(f) ==
    /\ At(f, "try_lock_until", "do") \/ At(f, "try_lock_shared_until", "do")
    /\ LET m == Mode(op[f])
       IN IF Blocked(f, m)
            THEN \E d \in Delays : WaitUntil(f, m, d) /\ UNCHANGED mutex
            ELSE Take(f, m, "s") /\ Return(f) /\ UNCHANGED <<sched, q>>
    /\ UNCHANGED <<world, running, word, op, left, life>>

TimedLockWoken(f) ==
    /\ At(f, "try_lock_until", "wait") \/ At(f, "try_lock_shared_until", "wait")
    /\ LET m == Mode(op[f])
       IN /\ WokenIn(f, m)
          /\ IF Ready(f, m) THEN Take(f, m, "s") ELSE UNCHANGED mutex
    /\ Return(f)
    /\ UNCHANGED <<world, running, cur, rq, st, word, op, left, life>>

\* what unlock of each class does to the fields and to the queues
Released(m) ==
    CASE world.kind = "recursive" ->
           [lk EXCEPT !.count = @ - 1, !.owner = IF lk.count = 1 THEN None ELSE @]
      [] world.kind # "recursive" /\ m = "s" -> [lk EXCEPT !.owners = @ - 1, !.occupied = IF lk.owners = 1 THEN FALSE ELSE @]
      [] OTHER -> [lk EXCEPT !.occupied = FALSE]

WakeNext(m) ==
    LET shared == world.kind = "shared"
    IN \/ /\ \/ world.kind \in {"mutex", "timed"}
             \/ shared /\ m = "x" /\ (q["s"] = {} \/ q["x"] # {})
             \/ shared /\ m = "s" /\ lk.owners = 1
          /\ NotifyOne("x")
       \/ shared /\ m = "x" /\ q["s"] # {} /\ NotifyAll("s")
       \/ /\ world.kind = "recursive" \/ (shared /\ m = "s" /\ lk.owners # 1)
          /\ UNCHANGED <<q, rq, st, sleep>>

Unlock(f) ==
    /\ At(f, "unlock", "do") \/ At(f, "unlock_shared", "do")
    /\ LET m == Mode(op[f])
       IN /\ lk' = Released(m)
          /\ held' = [held EXCEPT ![f][m] = @ - 1]
          /\ WakeNext(m)
    /\ Return(f)
    /\ UNCHANGED <<world, running, cur, until, word, op, left, life>>

-----------------------------------------------------------------------------
(* ConditionVariable.                                                      *)

\* WaitImpl unlocks and queues in one go: f stays current between the two steps
CvUnlock(f) ==
    /\ At(f, "wait", "do") \/ At(f, "wait_until", "do")
    /\ lk' = Released("x")
    /\ held' = [held EXCEPT ![f].x = @ - 1]
    /\ WakeNext("x")
    /\ Go(f, "queue")
    /\ UNCHANGED <<world, running, cur, until, word, op, left, life>>

CvQueue(f) ==
    /\ \/ At(f, "wait", "queue") /\ WaitIn(f, "cv")
       \/ At(f, "wait_until", "queue") /\ \E d \in Delays : WaitUntil(f, "cv", d)
    /\ UNCHANGED <<world, running, mutex, word, op, left, life>>

\* the wait is over, notified or not: lock.lock() follows
CvWoken(f) ==
    /\ At(f, "wait", "wait") \/ At(f, "wait_until", "wait")
    /\ WokenIn(f, "cv")
    /\ op' = [op EXCEPT ![f] = "lock"]
    /\ Go(f, "do")
    /\ UNCHANGED <<world, running, cur, rq, st, mutex, word, left, life>>

CvNotify(f) ==
    /\ \/ At(f, "notify_one", "do") /\ NotifyOne("cv")
       \/ At(f, "notify_all", "do") /\ NotifyAll("cv")
    /\ Return(f)
    /\ UNCHANGED <<world, running, cur, until, mutex, word, op, left, life>>

-----------------------------------------------------------------------------
(* Atomics: every access is one step of its fiber.                         *)

\* CompareExchangeHelper: an increment of the value the fiber read before
CompareExchangeHelper(f) ==
    IF atomic = reg[f] THEN [value |-> reg[f] + 1, done |-> TRUE] ELSE [value |-> atomic, done |-> FALSE]

Atomic(f) ==
    /\ \/ /\ At(f, "load", "do")
          /\ reg' = [reg EXCEPT ![f] = atomic] /\ UNCHANGED <<atomic, adds>>
       \/ /\ At(f, "fetch_add", "do")
          /\ reg' = [reg EXCEPT ![f] = atomic]
          /\ atomic' = atomic + 1 /\ adds' = adds + 1
       \/ /\ At(f, "cas", "do") \/ At(f, "cas_weak", "do")
          /\ LET r == CompareExchangeHelper(f)
             IN /\ atomic' = r.value
                /\ adds' = IF r.done THEN adds + 1 ELSE adds
                /\ reg' = [reg EXCEPT ![f] = IF r.done THEN @ ELSE atomic]
       \/ /\ At(f, "cas_weak", "do")                    \* ShouldFailAtomicWeak
          /\ reg' = [reg EXCEPT ![f] = atomic] /\ UNCHANGED <<atomic, adds>>
    /\ Return(f)
    /\ UNCHANGED <<world, sched, q, mutex, op, left, life>>

\* wait(old) for the value the fiber has read
AtomicWait(f) ==
    /\ \E p \in {"do", "wait"} : At(f, "atomic_wait", p)
    /\ IF atomic = reg[f]
         THEN WaitIn(f, "atomic")
         ELSE Return(f) /\ UNCHANGED <<sched, q>>
    /\ UNCHANGED <<world, running, mutex, word, op, left, life>>

AtomicNotify(f) ==
    /\ At(f, "atomic_notify", "do")
    /\ NotifyOne("atomic") \/ NotifyAll("atomic")
    /\ Return(f)
    /\ UNCHANGED <<world, running, cur, until, mutex, word, op, left, life>>

-----------------------------------------------------------------------------
(* this_thread and Thread.                                                 *)

SleepFor(f) ==
    /\ At(f, "sleep", "do")
    /\ \E d \in Delays : SleepUntil(f, d)
    /\ Go(f, "run")
    /\ UNCHANGED <<world, running, rq, until, q, mutex, word, op, left, life>>

Yield(f) ==
    /\ At(f, "yield", "do")
    /\ Reschedule(f)
    /\ Go(f, "run")
    /\ UNCHANGED <<world, running, sleep, until, q, mutex, word, op, left, life>>

\* Thread(func) for every thread; nothing suspends main between two
Spawn ==
    /\ cur = Main /\ pc[Main] = "run" /\ \E g \in Fibers : st[g] = None
    /\ Schedule(Fibers \ {Main})
    /\ thread' = [g \in Fibers |-> IF g = Main THEN None ELSE Main]
    /\ UNCHANGED <<world, running, cur, sleep, until, q, mutex, word, prog, alive, joining, freed>>

\* AfterJoinOrDetach
AfterJoinOrDetach(g) ==
    /\ thread' = [thread EXCEPT ![g] = None]
    /\ IF st[g] = "Completed"
         THEN freed' = [freed EXCEPT ![g] = @ + 1] /\ UNCHANGED alive
         ELSE alive' = alive \ {g} /\ UNCHANGED freed

Detach(f, g) ==
    /\ cur = f /\ pc[f] = "run" /\ thread[g] = f
    /\ AfterJoinOrDetach(g)
    /\ UNCHANGED <<world, sched, q, mutex, word, prog, joining>>

\* join: it looks at the state again whenever it is resumed
Join(f, g) ==
    /\ cur = f /\ thread[g] = f
    /\ pc[f] = "run" \/ (pc[f] = "join" /\ joining[g] = f)
    /\ IF st[g] = "Completed"
         THEN AfterJoinOrDetach(g) /\ Go(f, "run") /\ UNCHANGED <<st, cur, joining>>
         ELSE /\ joining' = [joining EXCEPT ![g] = f]
              /\ Suspend(f)
              /\ Go(f, "join")
              /\ UNCHANGED <<thread, alive, freed>>
    /\ UNCHANGED <<world, running, rq, sleep, until, q, mutex, word, op, left>>

\* Exit, and the end of the turn of RunLoop that resumed f
ExitWakes(f) == IF joining[f] # None /\ f \in alive THEN {joining[f]} ELSE {}
RunLoopDeletes_Alive(f) == TRUE
RunLoopDeletes(f) == f \notin alive

Exit(f) ==
    /\ cur = f /\ pc[f] = "run"
    /\ held[f] = [x |-> 0, s |-> 0] /\ \A g \in Fibers : thread[g] # f
    /\ rq' = rq \cup ExitWakes(f)
    /\ st' = [g \in Fibers |-> IF g = f THEN "Completed"
                               ELSE IF g \in ExitWakes(f) THEN "Waiting" ELSE st[g]]
    /\ freed' = [freed EXCEPT ![f] = @ + (IF RunLoopDeletes(f) THEN 1 ELSE 0)]
    /\ cur' = None
    /\ UNCHANGED <<world, running, sleep, until, q, mutex, word, prog, thread, alive, joining>>

-----------------------------------------------------------------------------

Step(f) ==
    \/ \E o \in Injected \cup Plain : Call(f, o)
    \/ Returned(f)
    \/ Lock(f) \/ TryLock(f) \/ TimedLock(f) \/ TimedLockWoken(f) \/ Unlock(f)
    \/ CvUnlock(f) \/ CvQueue(f) \/ CvWoken(f) \/ CvNotify(f)
    \/ Atomic(f) \/ AtomicWait(f) \/ AtomicNotify(f)
    \/ SleepFor(f) \/ Yield(f)
    \/ \E g \in Fibers : Detach(f, g) \/ Join(f, g)
    \/ Exit(f)

Next == RunLoop \/ LoopEnds \/ Spawn \/ \E f \in Fibers : Step(f)

\* one thread runs the loop and every fiber
Spec == Init /\ [][Next]_vars /\ WF_vars(Next)

-----------------------------------------------------------------------------
(* Properties.                                                             *)

Sleepers == UNION {sleep[k] : k \in DOMAIN sleep}
Asleep(f) == {k \in DOMAIN sleep : f \in sleep[k]}
Queued(f) == {n \in DOMAIN q : f \in q[n]}

\* A tick has passed over the time of an entry that a notification had emptied:
\* the fiber that slept in it found that time past and left the entry.
PassedOver ==
    TickLength > 1 /\ \E k \in DOMAIN sleep : k < 0 /\ sleep[k] = {}

\* RunLoop is about to fail the assertion "Queue can't be empty" of GetNext.
PollsNobody == running /\ cur = None /\ DOMAIN sleep # {} /\ Polled = {}

\* Waking the sleepers of the earliest entry gives GetNext somebody to poll, as
\* it asserts ("Queue can't be empty"), with the one exception that a tick has
\* passed over an emptied entry: no other entry outlives the fibers that slept
\* in it, whoever notified them and in whatever order they come back.
PollFindsAFiber == PollsNobody => PassedOver

\* No fiber is forgotten or linked twice: a fiber that is not done and does not
\* run is in exactly one list of the scheduler, or in none and then somebody
\* has it to wake: a FiberQueue it waits in without a time, or the thread that
\* it joins.
NobodyForgotten ==
    \A f \in Fibers :
        LET ready == f \in rq
            timed == op[f] \in Timed /\ pc[f] = "wait"
            lists == Cardinality(Asleep(f)) + (IF ready THEN 1 ELSE 0) + (IF cur = f THEN 1 ELSE 0)
        IN IF st[f] \in {None, "Completed"}
             THEN lists = 0 /\ Queued(f) = {}
             ELSE \/ lists = 1 /\ (Queued(f) # {} => timed)
                  \/ lists = 0 /\ Cardinality(Queued(f)) = 1 /\ ~timed
                  \/ lists = 0 /\ pc[f] = "join" /\ \E g \in Fibers : joining[g] = f /\ st[g] # "Completed"

\* fiber::Mutex, the class the library's own code is tested with, excludes,
\* and its unlock loses no waiter: while fibers queue for a free mutex, one of
\* them has been woken and will look again, whoever takes it in between.
MutexSound ==
    world.kind = "mutex" =>
        /\ \A f, g \in Fibers : f # g => held[f].x + held[g].x <= 1
        /\ lk.occupied <=> \E f \in Fibers : held[f].x = 1
        /\ q["x"] # {} /\ ~lk.occupied =>
             \E f \in Fibers : op[f] = "lock" /\ pc[f] = "wait" /\ f \in rq \cup {cur}

\* A fiber object is deleted once, by whoever comes last: RunLoop when a
\* detached fiber is done, join or detach when the fiber is done before.
\* Nothing refers to it then, and a fiber done without a Thread is not leaked.
FreedOnce ==
    \A f \in Fibers :
        /\ freed[f] = IF st[f] = "Completed" /\ f # Main /\ thread[f] = None THEN 1 ELSE 0
        /\ freed[f] = 1 => f \notin rq \cup Sleepers \cup UNION {q[n] : n \in DOMAIN q}
                           /\ \A g \in Fibers : joining[g] = f => st[g] = "Completed"

\* From its creation to its deletion a fiber is in the scheduler's hands: not
\* forgotten while it lives, deleted once when it is done.
FibersAccounted == NobodyForgotten /\ FreedOnce

\* An increment is not lost when the fiber yields between its load and its
\* compare_exchange, and a spurious failure adds none.
IncrementsCount == atomic = adds

\* The simulated primitives are what std:: promises of them.
PrimitivesSound == MutexSound /\ IncrementsCount

\* The simulation ends: the time passes for every sleeper, and what still
\* waits then waits for a notification, a thread or a mutex nobody will give.
\* The only other end is the failing assertion of PollFindsAFiber's exception.
SimulationEnds == <>((~running /\ Sleepers = {}) \/ (PollsNobody /\ PassedOver))
=============================================================================
