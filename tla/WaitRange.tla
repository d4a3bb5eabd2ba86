----------------------------- MODULE WaitRange -----------------------------
(***************************************************************************)
(* Waiting for several futures at once: Wait, WaitFor and WaitUntil of a   *)
(* thread, AwaitInline, AwaitSticky and AwaitOn of a coroutine.            *)
(*                                                                         *)
(* The waiter puts an event on its stack, or in its coroutine's frame, and *)
(* a callback into every core that has no result yet.  The event counts    *)
(* the callbacks still to come and the waiter itself.  Whoever takes the   *)
(* count to zero ends the wait: the waiter by not going to sleep, a        *)
(* callback by Set or by resuming the coroutine.  A timed wait that runs   *)
(* out of time takes back the callbacks that have not been called.         *)
(*                                                                         *)
(* Future i has the unique core i or is, for i in dup, a copy of one       *)
(* SharedFuture: core 0.  A step is one atomic access, or what happens     *)
(* under the mutex of a MutexEvent.  Definitions named X_Word are faulty   *)
(* variants of X that show that the properties can fail; the specification *)
(* does not use them.                                                      *)
(***************************************************************************)
EXTENDS Integers, FiniteSets, FiniteSetsExt

CONSTANTS
    MaxFutures,  \* bound on the number of futures
    Modes,       \* kinds of wait to check
    Events,      \* "mutex", "futex1", "futex2": MutexEvent, AtomicEvent with YACLIB_FUTEX
    Waiter,
    None

ASSUME ConstantsAssumption ==
    /\ MaxFutures \in Nat \ {0}
    /\ Modes \subseteq {"Wait", "WaitFor", "AwaitInline", "AwaitSticky", "AwaitOn"}
    /\ Events \subseteq {"mutex", "futex1", "futex2"}
    /\ None \notin {Waiter} /\ {None, Waiter} \cap (1 .. MaxFutures) = {}

VARIABLES
    mode,     \* the function called
    event,    \* the event a blocking wait uses
    n, dup,   \* number of futures; those that are one SharedFuture
    dynamic,  \* called with a range
    ready,    \* cores that have their result
    at,       \* future -> where its callback is
    pc,       \* where the waiter is
    pos,      \* the future it attaches to or resets next
    attached, \* wait_count
    resets,   \* reset_count
    count,    \* the event's counter
    alive,    \* the event exists
    owner,    \* owner of the event's mutex
    state,    \* _is_ready or _state of the event
    next,     \* the event's InlineCore::next: "list", "promise"
    expired,  \* the timed wait has run out of time
    ret       \* what the call returned

input == <<event, n, dup, dynamic>>
vars == <<mode, input, ready, at, pc, pos, attached, resets, count, alive, owner, state, next, expired, ret>>

Futures == 1 .. n
Core(i) == IF i \in dup THEN 0 ELSE i
Coroutine == mode \in {"AwaitInline", "AwaitSticky", "AwaitOn"}

\* a callback on its way to the event
Coming == {"called", "set", "notify", "last"}
AllReady == \A i \in Futures : Core(i) \in ready

Init ==
    /\ mode \in Modes
    /\ event \in IF mode = "Wait" THEN Events ELSE {"mutex"}
    /\ n \in 1 .. MaxFutures
    /\ dup \in SUBSET Futures
    /\ dynamic \in BOOLEAN /\ (dynamic => dup \in {{}, Futures})
    /\ mode = "WaitFor" => dup = {}
    /\ Coroutine /\ ~dynamic => n > 1
    /\ ready = {}
    /\ at = [i \in Futures |-> "idle"]
    /\ pc = "start" /\ pos = 1 /\ attached = 0 /\ resets = 0
    /\ count = 0 /\ alive = FALSE /\ owner = None /\ state = 0 /\ next = None
    /\ expired = FALSE /\ ret = None

\* OneCounter: Sub always ends the wait, SubEqual never does
OneCounter == ~Coroutine /\ n = 1

\* StaticSharedEvent, DynamicSharedEvent: shared futures get nodes of their own
HelperCallbacks ==
    CASE Coroutine -> dup # {}
      [] ~Coroutine /\ dynamic -> dup # {} /\ n > 1
      [] OTHER -> Cardinality(dup) > 1

\* the event is made, on the stack or in the frame of the coroutine
Begin ==
    /\ pc = "start"
    /\ pc' = "attach" /\ pos' = 1 /\ attached' = 0 /\ resets' = 0
    /\ count' = n + 1 /\ alive' = TRUE /\ owner' = None /\ state' = 0 /\ next' = None
    /\ expired' = FALSE /\ ret' = None
    /\ UNCHANGED <<mode, input, ready, at>>

\* SetCallback on the next future
Attach ==
    /\ pc = "attach" /\ pos \in Futures
    /\ IF Core(pos) \in ready
         THEN UNCHANGED <<at, attached, next>>
         ELSE /\ at' = [at EXCEPT ![pos] = "attached"]
              /\ attached' = attached + 1
              /\ next' = IF pos \in dup /\ ~HelperCallbacks THEN "list" ELSE next
    /\ pos' = pos + 1
    /\ UNCHANGED <<mode, input, ready, pc, resets, count, alive, owner, state, ret, expired>>

\* the wait is over: the event goes away with the stack frame
Return(r) == pc' = "done" /\ ret' = r /\ alive' = FALSE

Subtracted_NotItself(k) == k

\* what WaitRange subtracts: the callbacks that are not attached and itself
Subtracted(k) == k + 1

\* WaitRange after the callbacks are set
SubEqual ==
    /\ pc = "attach" /\ pos = n + 1 /\ ~Coroutine
    /\ LET k == Subtracted(n - attached)
       IN CASE attached = 0 -> Return(TRUE) /\ UNCHANGED count
            [] attached # 0 /\ OneCounter -> pc' = "make" /\ UNCHANGED <<count, ret, alive>>
            [] OTHER -> /\ count' = count - k
                        /\ IF count = k THEN Return(TRUE) ELSE pc' = "make" /\ UNCHANGED <<ret, alive>>
    /\ UNCHANGED <<mode, input, ready, at, pos, attached, resets, owner, state, next, expired>>

-----------------------------------------------------------------------------
(* The waiter sleeps on a MutexEvent or an AtomicEvent.                    *)

\* Make of a MutexEvent locks; also how a sleeper that was woken gets back in
Lock ==
    /\ pc \in {"make", "relock", "timedout"}
    /\ event = "mutex" => owner = None
    /\ owner' = IF event = "mutex" THEN Waiter ELSE None
    /\ pc' = CASE pc = "timedout" /\ state = 0 -> "reset" [] OTHER -> "wait"
    /\ pos' = IF pc = "timedout" THEN 1 ELSE pos
    /\ UNCHANGED <<mode, input, ready, at, attached, resets, count, alive, state, next, ret, expired>>

Finished == CASE event = "futex1" -> state = 2 [] OTHER -> state # 0

\* Wait: sleep while the event is not set; the timed one has the first try
Wait ==
    /\ pc = "wait"
    /\ CASE Finished -> Return(resets = 0) /\ owner' = None
         [] state = 0 -> pc' = "asleep" /\ owner' = None /\ UNCHANGED <<ret, alive>>
         [] OTHER -> FALSE
    /\ UNCHANGED <<mode, input, ready, at, pos, attached, resets, count, state, next, expired>>

\* a condition variable, and a futex, may wake its waiter for no reason
Spurious ==
    /\ pc = "asleep"
    /\ pc' = "relock"
    /\ UNCHANGED <<mode, input, ready, at, pos, attached, resets, count, alive, owner, state, next, ret, expired>>

Timeout ==
    /\ pc = "asleep" /\ mode = "WaitFor" /\ ~expired
    /\ pc' = "timedout" /\ expired' = TRUE
    /\ UNCHANGED <<mode, input, ready, at, pos, attached, resets, count, alive, owner, state, next, ret>>

\* ResetImpl: only a callback that nobody has taken to call it comes back
Taken(i) == at[i] = "attached"

Reset ==
    /\ pc = "reset" /\ pos \in Futures
    /\ IF Taken(pos)
         THEN at' = [at EXCEPT ![pos] = "idle"] /\ resets' = resets + 1
         ELSE UNCHANGED <<at, resets>>
    /\ pos' = pos + 1
    /\ UNCHANGED <<mode, input, ready, pc, attached, count, alive, owner, state, next, ret, expired>>

AfterReset_NoWait ==
    /\ pc = "reset" /\ pos = n + 1
    /\ IF resets # 0 THEN Return(FALSE) /\ owner' = None ELSE pc' = "wait" /\ UNCHANGED <<ret, alive, owner>>
    /\ UNCHANGED <<mode, input, ready, at, pos, attached, resets, count, state, next, expired>>

\* WaitRange after the reset: the callbacks that could not be taken back use
\* the event, so it must stay until they have
AfterReset ==
    /\ pc = "reset" /\ pos = n + 1
    /\ CASE resets # 0 /\ resets = attached -> Return(FALSE) /\ owner' = None /\ UNCHANGED count
         [] resets # 0 /\ resets # attached /\ ~OneCounter ->
              /\ count' = count - resets
              /\ IF count = resets THEN Return(FALSE) /\ owner' = None
                                   ELSE pc' = "wait" /\ UNCHANGED <<ret, alive, owner>>
         [] OTHER -> pc' = "wait" /\ UNCHANGED <<count, ret, alive, owner>>
    /\ UNCHANGED <<mode, input, ready, at, pos, attached, resets, state, next, expired>>

\* a caller whose timed wait failed may wait again, without a timeout
Again ==
    /\ pc = "done" /\ ret = FALSE
    /\ mode' = "Wait" /\ pc' = "start"
    /\ UNCHANGED <<input, ready, at, pos, attached, resets, count, alive, owner, state, next, ret, expired>>

-----------------------------------------------------------------------------
(* A coroutine awaits.                                                     *)

\* SetCallbacksStatic, SetCallbacksDynamic: the callbacks that are not attached
Subtract ==
    /\ pc = "attach" /\ pos = n + 1 /\ Coroutine
    /\ count' = count - (n - attached)
    /\ pc' = IF mode = "AwaitOn" THEN "suspend" ELSE "ready?"
    /\ UNCHANGED <<mode, input, ready, at, pos, attached, resets, alive, owner, state, next, ret, expired>>

AwaitReady ==
    /\ pc = "ready?"
    /\ IF count = 1 THEN Return(TRUE) ELSE pc' = "suspend" /\ UNCHANGED <<ret, alive>>
    /\ UNCHANGED <<mode, input, ready, at, pos, attached, resets, count, owner, state, next, expired>>

\* the event learns whom to resume before it may be told to
AwaitSuspend ==
    /\ pc = "suspend"
    /\ next' = IF mode = "AwaitOn" THEN next ELSE "promise"
    /\ count' = count - 1
    /\ IF count = 1 THEN Return(TRUE) ELSE pc' = "suspended" /\ UNCHANGED <<ret, alive>>
    /\ UNCHANGED <<mode, input, ready, at, pos, attached, resets, owner, state, expired>>

-----------------------------------------------------------------------------
(* The producers.                                                          *)

Fulfil(c) ==
    /\ c \notin ready /\ \E i \in Futures : Core(i) = c
    /\ ready' = ready \cup {c}
    /\ at' = [i \in Futures |-> IF Core(i) = c /\ at[i] = "attached" THEN "called" ELSE at[i]]
    /\ UNCHANGED <<mode, input, pc, pos, attached, resets, count, alive, owner, state, next, ret, expired>>

\* a core calls its callbacks one at a time
Turn(i) == \A j \in Futures : Core(j) = Core(i) /\ at[j] \in Coming => j = i \/ (at[j] = "called" /\ j < i)

\* CallCallback::Impl, AwaitEvent::Impl, AwaitOnEvent::Impl
Sub(i) ==
    /\ at[i] = "called" /\ Turn(i)
    /\ count' = IF OneCounter THEN count ELSE count - 1
    /\ IF OneCounter \/ count = 1
         THEN IF Coroutine THEN Return(TRUE) /\ at' = [at EXCEPT ![i] = "idle"]
                           ELSE at' = [at EXCEPT ![i] = "set"] /\ UNCHANGED <<pc, ret, alive>>
         ELSE at' = [at EXCEPT ![i] = "idle"] /\ UNCHANGED <<pc, ret, alive>>
    /\ UNCHANGED <<mode, input, ready, pos, attached, resets, owner, state, next, expired>>

SetReady_Unlocked(i) ==
    /\ at[i] = "set"
    /\ event = "mutex" => owner = None
    /\ state' = 1
    /\ at' = [at EXCEPT ![i] = "notify"]
    /\ UNCHANGED <<mode, input, ready, pc, pos, attached, resets, count, alive, owner, next, ret, expired>>

\* Set: MutexEvent locks and keeps the lock until it has notified
SetReady(i) ==
    /\ at[i] = "set"
    /\ event = "mutex" => owner = None
    /\ owner' = IF event = "mutex" THEN i ELSE None
    /\ state' = 1
    /\ at' = [at EXCEPT ![i] = "notify"]
    /\ UNCHANGED <<mode, input, ready, pc, pos, attached, resets, count, alive, next, ret, expired>>

SetNotify(i) ==
    /\ at[i] = "notify"
    /\ pc' = IF pc = "asleep" THEN "relock" ELSE pc
    /\ owner' = IF owner = i THEN None ELSE owner
    /\ at' = [at EXCEPT ![i] = IF event = "futex1" THEN "last" ELSE "idle"]
    /\ UNCHANGED <<mode, input, ready, pos, attached, resets, count, alive, state, next, ret, expired>>

\* AtomicEvent with YACLIB_FUTEX == 1 releases its waiter last
SetLast(i) ==
    /\ at[i] = "last"
    /\ state' = 2
    /\ at' = [at EXCEPT ![i] = "idle"]
    /\ UNCHANGED <<mode, input, ready, pc, pos, attached, resets, count, alive, owner, next, ret, expired>>

Callback(i) == Sub(i) \/ SetReady(i) \/ SetNotify(i) \/ SetLast(i)
WaiterStep == Begin \/ Attach \/ SubEqual \/ Lock \/ Wait \/ Reset \/ AfterReset
              \/ Subtract \/ AwaitReady \/ AwaitSuspend

Next ==
    \/ WaiterStep \/ Spurious \/ Timeout \/ Again
    \/ \E c \in 0 .. MaxFutures : Fulfil(c)
    \/ \E i \in Futures : Callback(i)

\* threads go on, a thread that asks for a mutex again and again gets it, and
\* the deadline of a timed wait stays where it is when the waiter is woken
Spec ==
    /\ Init /\ [][Next]_vars
    /\ SF_vars(Lock) /\ WF_vars(WaiterStep) /\ SF_vars(Timeout)
    /\ \A i \in 1 .. MaxFutures : WF_vars(i \in Futures /\ Callback(i)) /\ SF_vars(i \in Futures /\ SetReady(i))

-----------------------------------------------------------------------------
(* Properties.                                                             *)

\* A callback that has been called, or can still be, finds the event it was
\* made for; in the build with YACLIB_FUTEX == 2 the notify_one of Set is the
\* exception, and uses no more than the address (wait_impl.hpp:58 "we must
\* wait until event was not used by cores"; atomic_event.cpp, mutex_event.cpp)
EventOutlivesCallbacks ==
    \A i \in Futures :
        at[i] \in Coming \cup {"attached"} => alive \/ (event = "futex2" /\ at[i] = "notify")

\* A wait that says yes left every future with its result; one that says no
\* left no callback behind, and it is the clock that ended it (WaitRange,
\* MultiAwaitAwaiter::await_ready and await_suspend)
ReturnsTheTruth ==
    pc = "done" =>
        /\ ret => AllReady
        /\ ~ret => mode = "WaitFor" /\ \A i \in Futures : at[i] = "idle"

\* The event's own next field links it into a shared core's list or names the
\* coroutine to resume, and is not overwritten while the other use needs it;
\* no two callbacks of one shared core use it (SetCallbacksStatic,
\* AwaitInline's choice of event against WaitCore's)
NextNotShared ==
    LET own == {i \in dup : at[i] = "attached" /\ ~HelperCallbacks}
    IN /\ Cardinality(own) <= 1
       /\ own # {} => next = "list"
       /\ pc = "suspended" /\ mode # "AwaitOn" => next = "promise"

\* The event on the waiter's stack is safe to use for every callback it made
EventSound == EventOutlivesCallbacks /\ NextNotShared

\* Once the results are there the waiter returns, and a timed wait returns
\* whether or not they come
WaitEnds ==
    /\ (pc # "start" /\ AllReady) ~> (pc = "done")
    /\ (pc # "start" /\ mode = "WaitFor") ~> (pc = "done")
=============================================================================
