------------------------------- MODULE Tasks --------------------------------
(***************************************************************************)
(* lazy/task, lazy/schedule, lazy/make, async/run, algo/promise_core,      *)
(* coro/promise_type: a lazy chain of stages, from the call that makes its *)
(* head to the last core that is freed.  Nothing runs while the chain is   *)
(* built: every stage points back at the one before it.  Starting it walks *)
(* to the head and submits that.                                           *)
(*                                                                         *)
(* A chain is sequential: at most one of its cores is at work, in the      *)
(* user's thread or in another.  The core is in the state variable act;    *)
(* when it is Idle, the chain waits in an executor or for a promise.       *)
(*                                                                         *)
(* <<i, 0>> is the core of stage i, and <<i, 1>> that of the Task or       *)
(* Future that the functor of stage i returns, or that its coroutine       *)
(* awaits: with co_await, which takes the result, or with Await, which     *)
(* leaves it in the Task, a local of the coroutine.  What a functor takes, *)
(* what it returns and what a coroutine does are chosen where they first   *)
(* matter.                                                                 *)
(*                                                                         *)
(* X_Word is a faulty variant of X that shows that a property can fail;    *)
(* the specification does not use it.                                      *)
(***************************************************************************)
EXTENDS Naturals

CONSTANTS
    MaxThen,    \* bound: stages after the head
    MaxHops,    \* bound: times that a coroutine is rescheduled
    Executors,  \* the executors that a user names
    Empty,      \* the word of a core with neither callback nor result
    kResult,    \* the word of a core that has its result
    DropCore,   \* the callback that only frees
    None

Cores == (0 .. MaxThen) \X {0, 1}

Signatures == {"result", "value", "error"}
Outcomes == {"value", "error"}

ASSUME ConstantsAssumption ==
    /\ MaxThen \in Nat /\ MaxHops \in Nat
    /\ Executors \subseteq {"inline", "stop", "pool", "manual"}
    /\ None \notin {"inline", "stop", "pool", "manual"} \cup Signatures \cup Cores
    /\ Empty \notin Cores \cup {kResult, DropCore} /\ kResult \notin Cores \cup {DropCore}
    /\ DropCore \notin Cores

Stage(i) == <<i, 0>>
Inner(c) == <<c[1], 1>>

VARIABLES
    mem,       \* the cores
    len,       \* the last stage of the chain
    act,       \* the core at work
    queue,     \* the jobs in executors
    promised,  \* the cores whose result a Promise will set
    frames,    \* the threads inside the functor of a PromiseCore
    user,      \* what the user holds: none, task, future or gone
    hops,      \* how often coroutines were rescheduled
    cancelled, \* the chain was started by Cancel (history)
    first      \* what ran first after Cancel: a functor of this signature (history)

vars == <<mem, len, act, queue, promised, frames, user, hops, cancelled, first>>

\* the union of Callback _self and _result
Self(p, u) == [caller |-> p, unwrapping |-> u, result |-> None]
Result(r) == [caller |-> None, unwrapping |-> FALSE, result |-> r]

\* A core: its kind (ready, run, promise, coro, future, then, thenInline or chain,
\* which stands for an inner Task with functors); whether it is unborn, alive,
\* freed, was freed wrongly or was cancelled too late; the functor in _func (none,
\* stored or gone); _callback; _executor; the link that Then stores in next, and
\* whether a queue has used next since.
Core(k, e, v) ==
    [kind |-> k, st |-> "alive", slot |-> v, word |-> Empty, exec |-> e, next |-> None, popped |-> FALSE,
     fn |-> IF k \in {"run", "promise", "then", "thenInline", "chain"} THEN "stored" ELSE "none"]
NoCore(s) == [kind |-> "none", st |-> s, slot |-> Self(None, FALSE), word |-> Empty,
              exec |-> None, next |-> None, popped |-> FALSE, fn |-> "none"]

Idle == [op |-> "idle", core |-> None, from |-> None, in |-> None]
Act(o, c, p, t) == [op |-> o, core |-> c, from |-> p, in |-> t]

Init ==
    /\ mem = [c \in Cores |-> NoCore("unborn")]
    /\ len = 0 /\ act = Idle /\ queue = {} /\ promised = {} /\ frames = {}
    /\ user = "none" /\ hops = 0 /\ cancelled = FALSE /\ first = None

-----------------------------------------------------------------------------
(* What every operation is made of.                                        *)

\* The end of core x.  ~ResultCore asserts that it has its result; whoever ran or
\* dropped its functor has destroyed it.
Gone(x) == NoCore(IF x.st = "alive" /\ x.word = kResult /\ x.fn # "stored" THEN "freed" ELSE "wrong")

\* ~Future frees the core.  ~Task cancels the chain also when Await has run it:
\* the last core is linked to the Drop callback and dropped once more.  A ReadyCore
\* or a coroutine replaces its result by StopTag and is freed.  A functor's core
\* calls or destroys the functor that it has destroyed before, and where a queue
\* has left another job in next, MoveToCaller drops that one: nothing is known then.
Destroyed(x) ==
    IF x.word = kResult /\ (x.kind = "chain" \/ (x.kind = "coro" /\ x.popped)) THEN NoCore("late") ELSE Gone(x)

\* DecRef of core p, which nobody shares.  A coroutine that has not come to its end
\* takes along what it has kept.
DecRef(m, p) ==
    IF p \notin Cores THEN m
    ELSE [m EXCEPT ![p] = Gone(@),
                   ![Inner(p)] = IF p # Inner(p) /\ m[p].kind = "coro" /\ @.st = "alive" THEN Destroyed(@) ELSE @]

\* Submit: the inline executors call or drop the job in the submitting thread
Submit(c, e, t) ==
    IF e \in {"pool", "manual"}
      THEN act' = Idle /\ queue' = queue \cup {<<e, c>>}
      ELSE act' = Act(IF e = "stop" THEN "drop" ELSE "call", c, None, t) /\ UNCHANGED queue

\* SetResultImpl: core c has its result, and whoever is linked to it goes on
SetResult(m, c, t) ==
    /\ mem' = [m EXCEPT ![c].word = kResult]
    /\ act' = IF m[c].word = Empty THEN Idle ELSE Act("here", m[c].word, c, t)

\* Done: the caller is saved before the result overwrites it
Caller_Late(c, r) == Result(r).caller
Caller(c, r) == mem[c].slot.caller

Done(c, r, async) ==
    LET stored == [mem EXCEPT ![c].slot = Result(r), ![c].fn = IF async THEN @ ELSE "gone"]
    IN SetResult(IF mem[c].kind # "run" \/ async THEN DecRef(stored, Caller(c, r)) ELSE stored,
                 c, act.in)

\* CallResolveState: is a functor of signature s called with r?
Invokes(s, r) == s = "result" \/ (s = "value" <=> r = "value")

Ran(s) == first' = IF cancelled /\ first = None THEN s ELSE first

InnerKinds == {"ready", "coro", "chain", "future"}

\* A Task or a Future i of kind k, to which c is linked.  A Task starts at once;
\* a Future is pending.
Await(m, c, i, k) ==
    /\ mem' = [m EXCEPT ![i] = [Core(k, "inline", IF k = "ready" THEN Result("value") ELSE Self(None, FALSE))
                                  EXCEPT !.word = c]]
    /\ IF k = "future" THEN act' = Idle /\ promised' = promised \cup {i}
                       ELSE act' = Act("here", i, c, act.in) /\ UNCHANGED promised

\* CallResolveAsync: the functor of c has returned the Task or the Future i
Unwrap(c, i, k) ==
    LET run == mem[c].kind = "run"
        m == IF run THEN mem ELSE DecRef(mem, mem[c].slot.caller)
    IN Await([m EXCEPT ![c].slot = Self(i, ~run), ![c].fn = "gone"], c, i, k)

\* CallImpl: the functor of c is called with r, unless its signature says no
CallImpl(c, r) ==
    /\ \E s \in Signatures :
         \/ /\ Invokes(s, r) /\ Ran(s)
            /\ \/ \E o \in Outcomes : Done(c, o, FALSE) /\ UNCHANGED promised
               \/ \E k \in InnerKinds : Unwrap(c, Inner(c), k)
         \/ ~Invokes(s, r) /\ Done(c, r, FALSE) /\ UNCHANGED <<promised, first>>
    /\ UNCHANGED <<len, queue, frames, user, hops, cancelled>>

IsThen(c) == mem[c].kind \in {"then", "thenInline"}
HasFunctor(c) == IsThen(c) \/ mem[c].kind \in {"run", "promise"}
Working(o, c, K) == act.op = o /\ act.core = c /\ mem[c].kind \in K
UserFree == act.in # "user" /\ "user" \notin frames

-----------------------------------------------------------------------------
(* The user.                                                               *)

Head(k, e, v) ==
    /\ user = "none"
    /\ mem' = [mem EXCEPT ![Stage(0)] = Core(k, e, v)]
    /\ UNCHANGED <<len, promised, frames, hops, cancelled, first>>

MakeTask ==
    /\ \E r \in Outcomes : Head("ready", "inline", Result(r))
    /\ user' = "task" /\ UNCHANGED <<act, queue>>

\* a lazy coroutine; Schedule and LazyContract
Schedule(k, e) == Head(k, e, Self(None, FALSE)) /\ user' = "task" /\ UNCHANGED <<act, queue>>

\* Run and AsyncContract: the head is submitted at once
Run(k, e) == Head(k, e, Self(None, FALSE)) /\ user' = "future" /\ Submit(Stage(0), e, "user")

\* Then(f), Then(e, f) and ThenInline(f)
Then(k, e) ==
    /\ user = "task" /\ len < MaxThen
    /\ LET c == Stage(len + 1)
       IN mem' = [mem EXCEPT ![c] = [Core(k, e, Self(None, FALSE)) EXCEPT !.next = Stage(len)],
                             ![Stage(len)].word = c]
    /\ len' = len + 1
    /\ UNCHANGED <<act, queue, promised, frames, user, hops, cancelled, first>>

\* MoveToCaller: to the head, clearing the links on the way
MoveToCaller(c) ==
    LET up[d \in Cores] == IF mem[d].next = None THEN d ELSE up[mem[d].next] IN up[c]
Unlinked_Not(m) == m
Unlinked(m) == [d \in Cores |-> [m[d] EXCEPT !.next = None]]

\* detail::Start, with an executor for the head or without
Start(m, e) ==
    LET head == MoveToCaller(Stage(len))
    IN /\ mem' = [Unlinked(m) EXCEPT ![head].exec = IF e = None THEN @ ELSE e]
       /\ Submit(head, mem'[head].exec, "user")
       /\ UNCHANGED <<len, promised, frames, hops, first>>

\* ToFuture, and Get, which is ToFuture().Get()
ToFuture(e) ==
    /\ user = "task" /\ user' = "future"
    /\ Start(mem, e)
    /\ UNCHANGED cancelled

Detach(e) ==
    /\ user = "task" /\ user' = "gone"
    /\ Start([mem EXCEPT ![Stage(len)].word = DropCore], e)

\* Cancel, and ~Task
Cancel_Calls == Detach("inline") /\ cancelled' = TRUE
Cancel == Detach("stop") /\ cancelled' = TRUE

\* the Future's owner takes the result, once it is there
Get ==
    /\ user = "future" /\ UserFree /\ mem[Stage(len)].word = kResult
    /\ user' = "gone" /\ mem' = DecRef(mem, Stage(len))
    /\ UNCHANGED <<len, act, queue, promised, frames, hops, cancelled, first>>

\* ~Future: links the Drop callback, or frees the core
DropFuture ==
    /\ user = "future" /\ UserFree /\ user' = "gone"
    /\ mem' = IF mem[Stage(len)].word = Empty THEN [mem EXCEPT ![Stage(len)].word = DropCore]
              ELSE DecRef(mem, Stage(len))
    /\ UNCHANGED <<len, act, queue, promised, frames, hops, cancelled, first>>

-----------------------------------------------------------------------------
(* Executors.                                                              *)

Taken(e, c, o, t) ==
    /\ act = Idle /\ <<e, c>> \in queue
    /\ queue' = queue \ {<<e, c>>}
    /\ act' = Act(o, c, None, t)
    /\ mem' = [mem EXCEPT ![c].popped = TRUE]
    /\ UNCHANGED <<len, promised, frames, user, hops, cancelled, first>>

\* a thread of a pool calls the job, or drops it once the pool is stopped
Worker(c) == Taken("pool", c, "call", "worker") \/ Taken("pool", c, "drop", "worker")

\* ManualExecutor::Drain
Drain(c) == UserFree /\ Taken("manual", c, "call", "user")

-----------------------------------------------------------------------------
(* Cores at work: Job::Call and Job::Drop.                                 *)

CoreCall(c) ==
    \/ Working("call", c, {"run"}) /\ CallImpl(c, "value")
    \/ /\ Working("call", c, {"then", "thenInline"})
       /\ CallImpl(c, mem[mem[c].slot.caller].slot.result)

CoreDrop(c) == Working("drop", c, {"run", "then"}) /\ CallImpl(c, "stop")

\* ReadyCore: Call and Here alike
ReadyCall(c) ==
    /\ Working("call", c, {"ready"}) \/ Working("here", c, {"ready"})
    /\ SetResult(mem, c, act.in)
    /\ UNCHANGED <<len, queue, promised, frames, user, hops, cancelled, first>>

\* the functors of an inner Task, called one by the other; their Task is ready
ChainCall(c) ==
    /\ Working("here", c, {"chain"})
    /\ \E r \in Outcomes : SetResult([mem EXCEPT ![c].slot = Result(r), ![c].fn = "gone"], c, act.in)
    /\ UNCHANGED <<len, queue, promised, frames, user, hops, cancelled, first>>

\* ReadyCore, PromiseCore and PromiseType: StopTag is the result
StopDrop(c) ==
    /\ Working("drop", c, {"ready", "promise", "coro"})
    /\ SetResult([mem EXCEPT ![c].slot = Result("stop"),
                             ![c].fn = IF @ = "stored" THEN "gone" ELSE @], c, act.in)
    /\ UNCHANGED <<len, queue, promised, frames, user, hops, cancelled, first>>

\* PromiseCore::Call: the functor moves to the stack and gets the promise
PromiseCall(c) ==
    /\ Working("call", c, {"promise"})
    /\ mem' = [mem EXCEPT ![c].fn = "gone"]
    /\ promised' = promised \cup {c} /\ frames' = frames \cup {act.in}
    /\ act' = Idle /\ Ran("value")
    /\ UNCHANGED <<len, queue, user, hops, cancelled>>

\* the promise is set, in the functor or after it, or it is destroyed
PromiseSet(c, r, t) ==
    /\ act = Idle /\ c \in promised
    /\ promised' = promised \ {c}
    /\ SetResult([mem EXCEPT ![c].slot = Result(r)], c, t)
    /\ UNCHANGED <<len, queue, frames, user, hops, cancelled, first>>

FunctorReturns(t) ==
    /\ t \in frames /\ act.in # t
    /\ frames' = frames \ {t}
    /\ UNCHANGED <<mem, len, act, queue, promised, user, hops, cancelled, first>>

-----------------------------------------------------------------------------
(* Cores at work: InlineCore::Here, called by the core that was ready.     *)

\* the Drop callback
DropHere ==
    /\ act.op = "here" /\ act.core = DropCore
    /\ mem' = DecRef(mem, act.from) /\ act' = Idle
    /\ UNCHANGED <<len, queue, promised, frames, user, hops, cancelled, first>>

\* TransferExecutorTo: moved, not copied, to a callback that has none
TransferExecutorTo(p, c) ==
    IF mem[c].exec = None THEN [mem EXCEPT ![c].exec = mem[p].exec, ![p].exec = None] ELSE mem

\* Core::Impl for a stage whose predecessor is ready
ThenHere(c) ==
    /\ Working("here", c, {"then", "thenInline"}) /\ ~mem[c].slot.unwrapping
    /\ mem' = [TransferExecutorTo(act.from, c) EXCEPT ![c].slot = Self(act.from, FALSE)]
    /\ IF mem[c].kind = "then" THEN Submit(c, mem'[c].exec, act.in)
                               ELSE act' = Act("call", c, None, act.in) /\ UNCHANGED queue
    /\ UNCHANGED <<len, promised, frames, user, hops, cancelled, first>>

\* Core::Impl when the Task or Future of its functor is ready
AsyncDone(c) ==
    /\ Working("here", c, {"run"}) \/ (Working("here", c, {"then", "thenInline"}) /\ mem[c].slot.unwrapping)
    /\ Done(c, mem[mem[c].slot.caller].slot.result, TRUE)
    /\ UNCHANGED <<len, queue, promised, frames, user, hops, cancelled, first>>

\* assignment of an IntrusivePtr swaps
Swapped_Moves(c, p) == [mem EXCEPT ![c].exec = mem[p].exec, ![p].exec = None]
Swapped(c, p) == [mem EXCEPT ![c].exec = mem[p].exec, ![p].exec = mem[c].exec]

\* PromiseType::Here: a coroutine starts, or goes on after it has awaited Inner(c).
\* The awaiter of co_await takes the result and frees the core; that of Await
\* leaves both where they are.
CoroHere(c) ==
    /\ Working("here", c, {"coro"})
    /\ \/ mem' = Swapped(c, act.from)
       \/ act.from = Inner(c) /\ mem' = DecRef(Swapped(c, act.from), act.from)
    /\ act' = Act("body", c, None, act.in)
    /\ UNCHANGED <<len, queue, promised, frames, user, hops, cancelled, first>>

-----------------------------------------------------------------------------
(* Coroutines.                                                             *)

CoroCall(c) ==
    /\ Working("call", c, {"coro"})
    /\ act' = Act("body", c, None, act.in) /\ Ran("value")
    /\ UNCHANGED <<mem, len, queue, promised, frames, user, hops, cancelled>>

\* what the coroutine has kept of an Await
Keeps(c) == c # Inner(c) /\ mem[Inner(c)].st = "alive"

\* Touch() && moves the Task or the Future away and frees its core; or it ends with
\* its scope
LetGo(c) ==
    /\ Working("body", c, {"coro"}) /\ Keeps(c)
    /\ \/ mem' = DecRef(mem, Inner(c))
       \/ mem' = [mem EXCEPT ![Inner(c)] = Destroyed(@)]
    /\ UNCHANGED <<len, act, queue, promised, frames, user, hops, cancelled, first>>

\* co_return and an exception: what is local ends, then final_suspend sets the result
CoReturn(c) ==
    /\ Working("body", c, {"coro"}) /\ ~Keeps(c)
    /\ \E r \in Outcomes : SetResult([mem EXCEPT ![c].slot = Result(r)], c, act.in)
    /\ UNCHANGED <<len, queue, promised, frames, user, hops, cancelled, first>>

\* co_await On(e)
On(c, e) ==
    /\ Working("body", c, {"coro"}) /\ hops < MaxHops
    /\ hops' = hops + 1
    /\ mem' = [mem EXCEPT ![c].exec = e]
    /\ Submit(c, e, act.in)
    /\ UNCHANGED <<len, promised, frames, user, cancelled, first>>

\* kYield, Yield()
Yield(c) == On(c, mem[c].exec)

\* co_await of a Task or a Future or of its Await, by the coroutine at the head
CoAwait(c, k) ==
    /\ Working("body", c, {"coro"}) /\ c # Inner(c) /\ mem[Inner(c)].st = "unborn"
    /\ Await(mem, c, Inner(c), k)
    /\ UNCHANGED <<len, queue, frames, user, hops, cancelled, first>>

-----------------------------------------------------------------------------

UserNext ==
    \/ MakeTask \/ Schedule("coro", "inline") \/ Cancel \/ Get \/ DropFuture
    \/ \E e \in Executors, k \in {"run", "promise"} : Schedule(k, e) \/ Run(k, e)
    \/ \E e \in Executors \cup {None} : Then("then", e)
    \/ Then("thenInline", None)
    \/ \E e \in Executors \cup {None} : ToFuture(e) \/ (Detach(e) /\ UNCHANGED cancelled)

CoreNext(c) ==
    \/ CoreCall(c) \/ CoreDrop(c) \/ ReadyCall(c) \/ ChainCall(c) \/ StopDrop(c) \/ PromiseCall(c)
    \/ ThenHere(c) \/ AsyncDone(c) \/ CoroHere(c)
    \/ CoroCall(c) \/ LetGo(c) \/ CoReturn(c) \/ Yield(c)
    \/ \E e \in Executors : On(c, e)
    \/ \E k \in InnerKinds : CoAwait(c, k)

Next ==
    \/ UserNext
    \/ DropHere
    \/ \E c \in Cores : CoreNext(c) \/ Worker(c) \/ Drain(c)
    \/ \E c \in Cores, r \in Outcomes \cup {"stop"}, t \in frames \cup {"worker"} : PromiseSet(c, r, t)
    \/ \E t \in frames : FunctorReturns(t)

\* Threads run, pools and manual executors are drained, promises are set or
\* destroyed, and the owner of a Future takes its result or lets go of it.
Fairness ==
    /\ WF_vars(DropHere)
    /\ \A c \in Cores :
         /\ WF_vars(CoreNext(c)) /\ WF_vars(Worker(c)) /\ WF_vars(Drain(c))
         /\ WF_vars(PromiseSet(c, "stop", "worker"))
    /\ \A t \in {"user", "worker"} : WF_vars(FunctorReturns(t))
    /\ WF_vars(Get \/ DropFuture)

Spec == Init /\ [][Next]_vars /\ Fairness

-----------------------------------------------------------------------------
(* Properties.                                                             *)

Live(x) == x \in Cores => mem[x].st = "alive"

\* What the activity and the executors are about to use is alive: a core at
\* work, the core that calls it, the core whose result it reads, the callback of
\* a core, a functor that may be invoked, a job in a queue (and that one is not
\* linked to anything else, since queues use the same pointer).  A core is freed
\* once, with its result in place (~ResultCore asserts it) and its functor gone.
\* The one exception is what a ~Task after Await(task) may do to a coroutine or a
\* functor's core that has run (see Destroyed); it is at most an inner core's.
CoreLifetimes ==
    /\ \A c \in Cores :
         /\ mem[c].st # "wrong" /\ (mem[c].st = "late" => c = Inner(c))
         /\ mem[c].word # kResult => Live(mem[c].word)
    /\ Live(act.core) /\ Live(act.from)
    /\ act.op \in {"call", "drop"} /\ HasFunctor(act.core) => mem[act.core].fn = "stored"
    /\ act.op = "call" /\ IsThen(act.core) => Live(mem[act.core].slot.caller)
    /\ \A j \in queue : Live(j[2]) /\ mem[j[2]].next = None

\* The executor that TransferExecutorTo, PromiseType::Impl, Submit and Yield
\* read is there (they dereference or assert it), wherever executors have been
\* moved or swapped to: a core that is ready still has one when the stage after
\* it needs one, and so has every coroutine that runs.
ExecutorsPresent ==
    /\ act.op = "here" /\ act.core \in Cores =>
         \/ mem[act.from].exec # None
         \/ IsThen(act.core) /\ (mem[act.core].exec # None \/ mem[act.core].slot.unwrapping)
    /\ act.op = "body" => mem[act.core].exec # None

\* In a chain that was cancelled, or whose Task was destroyed before it was started,
\* no functor that takes a value and no coroutine runs before a functor that takes
\* errors has, and until then every stage ends with StopTag.
CancelMeansStop ==
    cancelled =>
        /\ first # "value"
        /\ first = None => \A c \in Cores : mem[c].word = kResult => mem[c].slot.result = "stop"

\* Every chain that was started runs to its end, and all of its cores are freed,
\* with those that its coroutines have kept after an Await (those cancelled too late
\* apart: see Destroyed).
ChainEnds ==
    user \in {"future", "gone"} ~>
        /\ act = Idle /\ queue = {} /\ promised = {} /\ frames = {}
        /\ \A c \in Cores : mem[c].st \in {"unborn", "freed", "late"}
=============================================================================
