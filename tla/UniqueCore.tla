----------------------------- MODULE UniqueCore -----------------------------
(***************************************************************************)
(* A pipeline of unique cores: the shared state behind Promise, Future and *)
(* the continuations attached with Then, ThenInline and Detach.            *)
(*                                                                         *)
(* Core 0 is the core of a contract (or of MakeFuture); core i + 1 is the  *)
(* continuation attached to the future of core i.  Every core has one      *)
(* atomic word, _callback, over which the thread that completes the core   *)
(* and the thread that owns its future race: SetResult exchanges kResult   *)
(* into it, SetCallback compare-exchanges a callback into an empty word.   *)
(* Whoever comes second runs the callback, and the callback releases the   *)
(* core.                                                                   *)
(*                                                                         *)
(* One action is one access to an atomic word, or one stretch of code      *)
(* between two of them.  The load that precedes the compare-exchange in    *)
(* SetCallbackImpl and ResetImpl only saves a doomed compare-exchange, so  *)
(* load and compare-exchange are one step.  A core made by Detach has no   *)
(* result; its slot is written here like any other and never read.         *)
(***************************************************************************)
EXTENDS Naturals

CONSTANTS
    MaxThen,       \* bound: continuations the consumer attaches
    MaxWaits,      \* bound: Wait / WaitFor calls the consumer makes
    Executors,     \* executors a continuation can be submitted to
    Null,          \* the null IExecutorPtr
    QueryAttached  \* may Ready() be called on a future attached to a WaitGroup
                   \* before that WaitGroup has been waited for?

ASSUME BoundsAssumption == MaxThen \in Nat /\ MaxWaits \in Nat
ASSUME ExecutorsAssumption == Null \notin Executors /\ "inline" \notin Executors
                                                    /\ Null # "inline"
ASSUME QueryAttachedAssumption == QueryAttached \in BOOLEAN

Cores == 0 .. MaxThen

\* What the completing thread can find in _callback.
Callbacks == {"next", "event", "group", "drop"}
CallbackWord == {"kEmpty", "kResult"} \cup Callbacks

\* What the union { _result; _self; } of a ResultCore holds.
Results == {"value", "error", "stop"}
Slot == {"none", "self", "moved"} \cup Results

\* How far the completion of a core has come.
Phases == {"absent",   \* not constructed yet
           "wait",     \* constructed, nobody is completing it
           "here",     \* some thread is about to run Here(caller)
           "queued",   \* submitted to its executor
           "run",      \* CallImpl with the caller's result
           "dropped",  \* CallImpl with StopTag
           "stored",   \* result stored, SetResult comes next
           "ready"}    \* kResult is in _callback

Actors == {"none", "promise", "consumer", "worker"}

\* Functor signatures: callable with Result<V>, with V, or with the error.
Functors == {"result", "value", "error"}
NoFunctor == "none"

\* What the owner of the future is in the middle of.
Futures == {"idle",
            "timed",      \* WaitFor / WaitUntil: event.Wait(token, timeout)
            "timedout",   \* ... which returned false
            "waiting",    \* event.Wait(token)
            "getting",    \* event.Wait(token) inside Get() &&
            "got",        \* Get() &&: Wait has returned
            "attached",   \* the future is in a WaitGroup
            "gone"}       \* the future has been consumed

VARIABLES
    callback,  \* _callback of every core
    slot,      \* its union
    alive,     \* its memory has not been deleted
    phase,     \* how far its completion is
    by,        \* the thread that completes it
    taken,     \* callback the completing thread got from exchange, not run yet
    functor,   \* signature of the functor of a continuation
    call,      \* CoreType::Call: run on the executor, not inline
    exec,      \* _executor
    given,     \* the executor argument (history, for ExecutorInherited)
    resolved,  \* how often the functor was invoked or passed over (history)
    top,       \* the core whose future the consumer holds
    future,    \* what the consumer is doing with that future
    event,     \* the event on the stack of WaitRange
    waits,     \* waits made so far
    premature  \* Ready() said true of a future without a result (history)

coreVars == <<callback, slot, alive, phase, by, taken>>
contVars == <<functor, call, exec, given, resolved>>
userVars == <<top, future, event, waits, premature>>
vars == <<coreVars, contVars, userVars>>

-----------------------------------------------------------------------------
(* Definitions named X_Fault, such as Detach_Now, are faulty variants of X. *)
(* They are not part of the specification; substituting one for X shows     *)
(* which property notices the fault.                                        *)

\* T::Ok
Ok(r) == r = "value"

\* Whether CallImpl invokes a functor of signature f on r or passes r on.
Invokes(f, r) ==
    \/ f = "result"
    \/ f = "value" /\ Ok(r)
    \/ f = "error" /\ ~Ok(r)

\* BaseCore::Empty; FutureBase::Ready is its negation.
Empty(i) == callback[i] = "kEmpty"
Ready(i) == ~Empty(i)

\* The consumer thread is not inside a callback it runs inline.
ConsumerFree ==
    \A i \in Cores : by[i] = "consumer" => phase[i] = "queued"

\* DecRef of a unique core deletes it.
DecRef(i) == alive' = [alive EXCEPT ![i] = FALSE]

\* FutureOn: Then(f) without an executor exists only on such a future.
IsOn == \E i \in 0 .. top : given[i] # Null

-----------------------------------------------------------------------------
\* MakeContract, MakeContractOn, MakeFuture.
Init ==
    /\ \/ /\ callback = [i \in Cores |-> "kEmpty"]
          /\ slot = [i \in Cores |-> "none"]
          /\ phase = [i \in Cores |-> IF i = 0 THEN "wait" ELSE "absent"]
       \/ /\ callback = [i \in Cores |-> IF i = 0 THEN "kResult" ELSE "kEmpty"]
          /\ \E r \in {"value", "error"} :
                slot = [i \in Cores |-> IF i = 0 THEN r ELSE "none"]
          /\ phase = [i \in Cores |-> IF i = 0 THEN "ready" ELSE "absent"]
    /\ alive = [i \in Cores |-> i = 0]
    /\ by = [i \in Cores |-> "none"]
    /\ taken = [i \in Cores |-> "kEmpty"]
    /\ functor = [i \in Cores |-> NoFunctor]
    /\ call = [i \in Cores |-> FALSE]
    /\ \E e \in Executors \cup {Null} :
          /\ exec = [i \in Cores |-> IF i = 0 /\ e # Null THEN e ELSE "inline"]
          /\ given = [i \in Cores |-> IF i = 0 THEN e ELSE Null]
    /\ resolved = [i \in Cores |-> 0]
    /\ top = 0
    /\ future = "idle"
    /\ event = "none"
    /\ waits = 0
    /\ premature = FALSE

-----------------------------------------------------------------------------
(***************************************************************************)
(* Completing a core.                                                      *)
(***************************************************************************)

\* Promise::Set stores a result, ~Promise stores StopTag.
PromiseSet ==
    /\ phase[0] = "wait"
    /\ \E r \in Results : slot' = [slot EXCEPT ![0] = r]
    /\ phase' = [phase EXCEPT ![0] = "stored"]
    /\ by' = [by EXCEPT ![0] = "promise"]
    /\ UNCHANGED <<callback, alive, taken, contVars, userVars>>

\* BaseCore::SetResultImpl<_, false>: exchange kResult, keep what was there.
SetResult(i) ==
    /\ phase[i] = "stored"
    /\ callback' = [callback EXCEPT ![i] = "kResult"]
    /\ taken' = [taken EXCEPT ![i] = callback[i]]
    /\ phase' = [phase EXCEPT ![i] = "ready"]
    /\ by' = IF callback[i] = "kEmpty" THEN [by EXCEPT ![i] = "none"] ELSE by
    /\ UNCHANGED <<slot, alive, contVars, userVars>>

\* Loop: hand core i to its continuation, on the thread that got it.
StepNext(i) ==
    /\ taken[i] = "next"
    /\ taken' = [taken EXCEPT ![i] = "kEmpty"]
    /\ phase' = [phase EXCEPT ![i + 1] = "here"]
    /\ by' = [by EXCEPT ![i + 1] = by[i], ![i] = "none"]
    /\ UNCHANGED <<callback, slot, alive, contVars, userVars>>

\* Drop::Here releases the core nobody wants.
StepDrop(i) ==
    /\ taken[i] = "drop"
    /\ taken' = [taken EXCEPT ![i] = "kEmpty"]
    /\ by' = [by EXCEPT ![i] = "none"]
    /\ DecRef(i)
    /\ UNCHANGED <<callback, slot, phase, contVars, userVars>>

\* CallCallback::Here of a WaitRange event: Sub(1), which sets it.
StepEvent(i) ==
    /\ taken[i] = "event"
    /\ taken' = [taken EXCEPT ![i] = "kEmpty"]
    /\ by' = [by EXCEPT ![i] = "none"]
    /\ event' = "set"
    /\ UNCHANGED <<callback, slot, alive, phase, contVars, top, future, waits, premature>>

\* CallCallback::Here of a WaitGroup: one Done; its counter is not modelled here.
StepGroup(i) ==
    /\ taken[i] = "group"
    /\ taken' = [taken EXCEPT ![i] = "kEmpty"]
    /\ by' = [by EXCEPT ![i] = "none"]
    /\ UNCHANGED <<callback, slot, alive, phase, contVars, userVars>>

TransferExecutorTo_Always(i) ==
    exec' = [exec EXCEPT ![i] = exec[i - 1], ![i - 1] = Null]

\* BaseCore::TransferExecutorTo<false>: a continuation without an executor
\* takes over its caller's.
TransferExecutorTo(i) ==
    exec' = IF exec[i] = Null
            THEN [exec EXCEPT ![i] = exec[i - 1], ![i - 1] = Null]
            ELSE exec

\* Core::Impl of a continuation: remember the caller, then Submit or go on.
Here(i) ==
    /\ phase[i] = "here"
    /\ slot' = [slot EXCEPT ![i] = "self"]
    /\ TransferExecutorTo(i)
    /\ phase' = [phase EXCEPT ![i] = IF call[i] THEN "queued" ELSE "run"]
    /\ UNCHANGED <<callback, alive, by, taken, functor, call, given, resolved, userVars>>

\* The executor calls the job, or drops it (a stopped pool), on a worker or
\* before Submit returns.
ExecutorRun(i) ==
    /\ phase[i] = "queued"
    /\ \/ phase' = [phase EXCEPT ![i] = "run"]
       \/ phase' = [phase EXCEPT ![i] = "dropped"]
    /\ \E w \in {"worker", by[i]} : by' = [by EXCEPT ![i] = w]
    /\ UNCHANGED <<callback, slot, alive, taken, contVars, userVars>>

\* The result the functor of core i is resolved against.
Argument(i) == IF phase[i] = "dropped" THEN "stop" ELSE slot[i - 1]

\* Core::CallImpl and Core::Done: invoke the functor or pass the result on,
\* store, release the caller, destroy the functor.  A functor may throw.
CallImpl(i) ==
    /\ phase[i] \in {"run", "dropped"}
    /\ IF Invokes(functor[i], Argument(i))
       THEN \E out \in {"value", "error"} :
               slot' = [slot EXCEPT ![i] = out, ![i - 1] = "moved"]
       ELSE slot' = [slot EXCEPT ![i] = Argument(i), ![i - 1] = "moved"]
    /\ resolved' = [resolved EXCEPT ![i] = @ + 1]
    /\ DecRef(i - 1)
    /\ functor' = [functor EXCEPT ![i] = NoFunctor]
    /\ phase' = [phase EXCEPT ![i] = "stored"]
    /\ UNCHANGED <<callback, by, taken, call, exec, given, userVars>>

Complete(i) ==
    \/ SetResult(i)
    \/ StepNext(i)
    \/ StepDrop(i)
    \/ StepEvent(i)
    \/ StepGroup(i)

Continue(i) ==
    \/ Here(i)
    \/ ExecutorRun(i)
    \/ CallImpl(i)

-----------------------------------------------------------------------------
(***************************************************************************)
(* The owner of the future.                                                *)
(***************************************************************************)

\* SetCallbackImpl<false> on the consumer's core, and its callers: the thread
\* that finds the result already there runs the callback itself.
SetCallback_NotRun(c) ==
    /\ callback' = IF Empty(top) THEN [callback EXCEPT ![top] = c] ELSE callback
    /\ UNCHANGED <<taken, by>>

SetCallback(c) ==
    IF Empty(top)
    THEN /\ callback' = [callback EXCEPT ![top] = c]
         /\ UNCHANGED <<taken, by>>
    ELSE /\ taken' = [taken EXCEPT ![top] = c]
         /\ by' = [by EXCEPT ![top] = "consumer"]
         /\ UNCHANGED callback

\* MakeCore: the continuation of the consumer's core.
MakeCore(f, c, e) ==
    LET i == top + 1
    IN  /\ functor' = [functor EXCEPT ![i] = f]
        /\ call' = [call EXCEPT ![i] = c]
        /\ exec' = [exec EXCEPT ![i] = e]
        /\ given' = [given EXCEPT ![i] = e]
        /\ alive' = [alive EXCEPT ![i] = TRUE]
        /\ phase' = [phase EXCEPT ![i] = "wait"]
        /\ UNCHANGED <<slot, resolved>>

\* SetInlineImpl of the continuation on the consumer's core; a continuation
\* made by Detach starts with MakeDrop as its own callback.
SetInline_RunAlways(own) ==
    /\ callback' = [callback EXCEPT ![top + 1] = own,
                                    ![top] = IF @ = "kEmpty" THEN "next" ELSE @]
    /\ taken' = [taken EXCEPT ![top] = "next"]
    /\ by' = [by EXCEPT ![top] = "consumer"]

SetInline(own) ==
    /\ callback' = [callback EXCEPT ![top + 1] = own,
                                    ![top] = IF @ = "kEmpty" THEN "next" ELSE @]
    /\ taken' = IF Empty(top) THEN taken ELSE [taken EXCEPT ![top] = "next"]
    /\ by' = IF Empty(top) THEN by ELSE [by EXCEPT ![top] = "consumer"]

\* detail::SetCallback behind Then, ThenInline, Detach(f) and DetachInline.
Continuation(own, after) ==
    /\ future = "idle" /\ ConsumerFree
    /\ top < MaxThen
    /\ \E f \in Functors, c \in BOOLEAN, e \in Executors \cup {Null} :
          /\ ~c => e = Null
          /\ c /\ e = Null => IsOn
          /\ MakeCore(f, c, e)
    /\ SetInline(own)
    /\ top' = top + 1
    /\ future' = after
    /\ UNCHANGED <<event, waits, premature>>

Then == Continuation("kEmpty", "idle")
DetachWith == Continuation("drop", "gone")

\* Detach() and ~FutureBase: CallInline(MakeDrop()).
Detach_Now ==
    /\ future = "idle" /\ ConsumerFree
    /\ DecRef(top)
    /\ future' = "gone"
    /\ UNCHANGED <<callback, taken, by, slot, phase, contVars, top, event, waits, premature>>

Detach ==
    /\ future = "idle" /\ ConsumerFree
    /\ SetCallback("drop")
    /\ future' = "gone"
    /\ UNCHANGED <<slot, alive, phase, contVars, top, event, waits, premature>>

\* WaitRange with one future: put the event in, unless the result is there.
WaitBegin(waiting, ready) ==
    /\ future = "idle" /\ ConsumerFree
    /\ waits < MaxWaits
    /\ waits' = waits + 1
    /\ IF Empty(top)
       THEN /\ callback' = [callback EXCEPT ![top] = "event"]
            /\ event' = "armed"
            /\ future' = waiting
       ELSE /\ future' = ready
            /\ UNCHANGED <<callback, event>>
    /\ UNCHANGED <<slot, alive, phase, by, taken, contVars, top, premature>>

Wait == WaitBegin("waiting", "idle")
WaitFor == WaitBegin("timed", "idle")
Get == WaitBegin("getting", "got")

WaitEnd_Spurious ==
    /\ future \in {"timed", "waiting", "getting"}
    /\ event' = "none"
    /\ future' = IF future = "getting" THEN "got" ELSE "idle"
    /\ UNCHANGED <<coreVars, contVars, top, waits, premature>>

\* event.Wait returned: the event on the stack is gone.
WaitEnd ==
    /\ future \in {"timed", "waiting", "getting"}
    /\ event = "set"
    /\ event' = "none"
    /\ future' = IF future = "getting" THEN "got" ELSE "idle"
    /\ UNCHANGED <<coreVars, contVars, top, waits, premature>>

\* The timed wait gives up ...
Timeout ==
    /\ future = "timed"
    /\ future' = "timedout"
    /\ UNCHANGED <<coreVars, contVars, top, event, waits, premature>>

\* ... and takes the event back; a result that came first still uses the
\* event, so then it must be waited for.
Reset ==
    /\ future = "timedout"
    /\ IF callback[top] # "kResult"
       THEN /\ callback' = [callback EXCEPT ![top] = "kEmpty"]
            /\ event' = "none"
            /\ future' = "idle"
       ELSE /\ future' = "waiting"
            /\ UNCHANGED <<callback, event>>
    /\ UNCHANGED <<slot, alive, phase, by, taken, contVars, top, waits, premature>>

\* Move the result out and release the core.
TakeResult ==
    /\ slot' = [slot EXCEPT ![top] = "moved"]
    /\ DecRef(top)
    /\ future' = "gone"
    /\ UNCHANGED <<callback, phase, by, taken, contVars, top, event, waits, premature>>

\* Touch() && on a future that is Ready, and the end of Get() &&.
Touch == future = "idle" /\ ConsumerFree /\ Ready(top) /\ TakeResult
GetEnd == future = "got" /\ TakeResult

\* WaitGroup::Attach: the future stays with the consumer.  A failed
\* SetCallback only counts the future as done.
GroupAttach ==
    /\ future = "idle" /\ ConsumerFree
    /\ Empty(top)
    /\ callback' = [callback EXCEPT ![top] = "group"]
    /\ future' = "attached"
    /\ UNCHANGED <<slot, alive, phase, by, taken, contVars, top, event, waits, premature>>

\* WaitGroup::Wait: every attached future has counted itself done.
GroupWait ==
    /\ future = "attached"
    /\ callback[top] = "kResult" /\ taken[top] = "kEmpty"
    /\ future' = "idle"
    /\ UNCHANGED <<coreVars, contVars, top, event, waits, premature>>

\* FutureBase::Ready.
AskReady ==
    /\ future = "idle" \/ (future = "attached" /\ QueryAttached)
    /\ ConsumerFree
    /\ premature' = (premature \/ (Ready(top) /\ slot[top] \notin Results))
    /\ UNCHANGED <<coreVars, contVars, top, future, event, waits>>

Consumer ==
    \/ Then \/ DetachWith \/ Detach
    \/ Wait \/ WaitFor \/ Get \/ WaitEnd \/ Timeout \/ Reset
    \/ Touch \/ GetEnd
    \/ GroupAttach \/ GroupWait
    \/ AskReady

\* Everything has run to its end.
Finished ==
    /\ future = "gone"
    /\ \A i \in Cores : phase[i] \in {"absent", "ready"} /\ taken[i] = "kEmpty"

Terminating == Finished /\ UNCHANGED vars

Next ==
    \/ PromiseSet
    \/ \E i \in Cores : Complete(i)
    \/ \E i \in Cores \ {0} : Continue(i)
    \/ Consumer
    \/ Terminating

Spec == Init /\ [][Next]_vars

\* Threads that are in the middle of the library's code go on, an executor
\* calls or drops what was submitted to it, and a promise is set or destroyed.
\* What the owner of the future does next, and when a timed wait gives up, is
\* its own business.
Fairness ==
    /\ WF_vars(PromiseSet)
    /\ \A i \in Cores : WF_vars(Complete(i))
    /\ \A i \in Cores \ {0} : WF_vars(Continue(i))
    /\ WF_vars(WaitEnd) /\ WF_vars(Reset) /\ WF_vars(GetEnd)

FairSpec == Spec /\ Fairness

-----------------------------------------------------------------------------
(***************************************************************************)
(* Properties.                                                             *)
(***************************************************************************)

\* Every variable keeps its type.  That taken never holds kResult is the
\* assertion of SetResultImpl: a result is set once.
TypeOK ==
    /\ callback \in [Cores -> CallbackWord]
    /\ slot \in [Cores -> Slot]
    /\ alive \in [Cores -> BOOLEAN]
    /\ phase \in [Cores -> Phases]
    /\ by \in [Cores -> Actors]
    /\ taken \in [Cores -> {"kEmpty"} \cup Callbacks]
    /\ functor \in [Cores -> Functors \cup {NoFunctor}]
    /\ call \in [Cores -> BOOLEAN]
    /\ exec \in [Cores -> Executors \cup {Null, "inline"}]
    /\ given \in [Cores -> Executors \cup {Null}]
    /\ resolved \in [Cores -> Nat]
    /\ top \in Cores
    /\ future \in Futures
    /\ event \in {"none", "armed", "set"}
    /\ waits \in 0 .. MaxWaits
    /\ premature \in BOOLEAN

\* A thread is about to touch core i: to complete it, to run a callback on it,
\* as the caller of the continuation that is being completed, or through the
\* future.
InUse(i) ==
    \/ phase[i] \in Phases \ {"absent", "ready"}
    \/ taken[i] # "kEmpty"
    \/ \E j \in Cores : j = i + 1 /\ phase[j] \in {"here", "queued", "run", "dropped"}
    \/ i = top /\ future # "gone"

\* A core is deleted exactly by its last user: no thread reaches for a core
\* whose DecRef has already run, whichever side won the race for _callback
\* (SetCallbackImpl, SetResultImpl, Core::Done, Drop::Here).
NoUseAfterFree == \A i \in Cores : InUse(i) => alive[i]

\* A continuation runs, and Get returns, on a result that has been stored and
\* that nobody has moved out: the exchange in SetResultImpl publishes it.
ResultBeforeRead ==
    /\ \A i \in Cores \ {0} :
          phase[i] \in {"here", "queued", "run", "dropped"} => slot[i - 1] \in Results
    /\ future = "got" => slot[top] \in Results
    /\ future = "idle" /\ Ready(top) /\ ConsumerFree => slot[top] \in Results

\* The event lives on the stack of the waiting thread; while a core can still
\* reach it, WaitRange has not returned (the wait after a failed Reset).
EventOutlivesCallback ==
    \A i \in Cores : callback[i] = "event" \/ taken[i] = "event" => event = "armed"

\* SetCallback and SetResult race for every continuation; it is never run by
\* both sides.
ResolvedAtMostOnce == \A i \in Cores : resolved[i] <= 1

\* The executor in force at core i: the last one given at or before it.
InForce(i) ==
    IF \E j \in 0 .. i : given[j] # Null
    THEN given[CHOOSE j \in 0 .. i :
                 given[j] # Null /\ \A k \in (j + 1) .. i : given[k] = Null]
    ELSE "inline"

\* A continuation attached without an executor is submitted to the executor
\* its predecessor ran on, through any number of inline continuations, although
\* TransferExecutorTo moves the pointer out of the predecessor.
ExecutorInherited ==
    \A i \in Cores : phase[i] \in {"queued", "run", "dropped", "stored"} => exec[i] = InForce(i)

\* A waiting thread is always released, whether the wait is timed or not, and
\* once the future has been consumed every core is eventually deleted: neither
\* order of the race hangs a thread or leaks the pipeline.
EverythingReleased ==
    /\ future \in {"timed", "waiting", "getting"} ~> future \in {"idle", "gone"}
    /\ future = "gone" ~> \A i \in Cores : ~alive[i]

\* What the documentation of Ready promises: true only if the result of the
\* future is computed.  Get() const& hands out the result on that answer.
ReadyMeansComputed == ~premature
=============================================================================
