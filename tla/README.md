# A TLA+ model of YACLib

YACLib is a C++ library for concurrent and asynchronous programs: futures with
continuations, executors, coroutine synchronisation primitives, and a fault
injection layer to test them. Most of it is lock-free code in which two or more
threads race for one atomic word and the loser takes over a duty of the winner.
This directory models that code: TLA+ modules translated from the source, TLC
configurations that check them on small instances, and TLAPS proofs, for all
sizes, of the safety of eleven of them.

Paths below are relative to the repository (`include/yaclib/...`, `src/...`).

## The system

| Component | State | Operations | Hard parts |
|---|---|---|---|
| Cores, `Promise`, `Future` (`algo/detail/*core*.hpp`, `src/algo/base_core.cpp`, `async/future.hpp`) | per core: `_callback` (empty, a callback, or "result is there"), the union of result and caller, `_executor`, reference | `Set`, `~Promise`, `Then*`, `Detach*`, `Get`, `Touch`, `Ready`, `~Future` | the completing thread and the owner of the future race for `_callback`; whoever comes second runs the callback; the callback frees the core |
| Waits (`async/detail/wait_impl.hpp`) | an event on the stack of the waiter, a counter | `Wait`, `WaitFor`, `WaitUntil` | a timed-out wait has to take its event back from a core that may be completing |
| Shared cores (`algo/detail/shared_core.hpp`, `async/shared_*.hpp`) | a list of callbacks in `_callback`, a reference count | as for cores, `Split`, `Share` | copying or moving the result is decided by the reference count |
| Lazy tasks (`lazy/`), `Run` (`async/run.hpp`) | a chain of cores linked backwards | `Then`, `ToFuture`, `Detach`, `Cancel` | the walk to the head reuses links that executors need; one union for caller and result |
| Combinators (`async/when/`) | one combinator core, counters, the promise | `WhenAll`, `WhenAny`, `Join` | inputs complete concurrently, the promise is set once |
| `OneShotEvent`, `WaitGroup` (`algo/`) | a list of waiters, a counter | `Set`, `Wait`, `Reset`, `Attach`, `Done` | waiters added while the event is set |
| `MutexEvent`, `AtomicEvent` (`src/util/`) | a flag with a condition variable, or a futex word | `Set`, `Wait` | the event dies as soon as the waiter returns |
| Strand (`src/exe/strand.cpp`) | `_jobs`: a stack, or the mark of an idle strand | `Submit`, `Call`, `Drop` | becoming idle against a new submission |
| Thread pool (`src/runtime/fair_thread_pool.cpp`) | a queue, a counter with two flags, a condition variable | `Submit`, `SoftStop`, `Stop`, `HardStop`, `Wait` | notifications after unlocking, stops against running jobs |
| Coroutine mutex and guards (`coro/mutex.hpp`, `coro/guard*.hpp`) | `_sender` (lock word and stack of waiters), `_receiver` (batch) | `Lock`, `TryLock`, `Unlock`, `UnlockHere`, `UnlockOn`, guards | hand-over without making the mutex free, exchange of executors |
| Coroutine shared mutex (`coro/shared_mutex.hpp`) | `_state`, `_readers_wait`, lists under a spinlock | the same, and `LockShared`, `UnlockHereShared`, ... | readers count themselves before they queue |
| Coroutine promise type, awaiters (`coro/detail/`) | the coroutine's core | `co_await`, `Await`, `AwaitOn`, `Yield`, `On` | suspension against completion |
| Executors `MakeInline`, `MakeManual`; jobs (`exe/`) | a queue, or nothing | `Submit`, `Drain` | a dropped job still completes its core |
| Fault injection, fibers (`fault/`) | run queue, sleep list, simulated locks | `Schedule`, `Sleep`, `lock`, `wait` | time that advances only when all sleep |

They meet in three ways. A core *calls* its callback (`Here`), on the thread
that found both the callback and the result. A core, a strand or a coroutine is
a *job* that is submitted to an executor, which later calls or drops it.
And futures, waits, groups and combinators *share* the word `_callback` of a
core. Whatever a core is connected to, its correctness is the same: run the
callback once, after the result, and free the core once, after its last use.

## Modules

| Module | Models | Run |
|---|---|---|
| `UniqueCore` | a pipeline of cores, its promise, and the owner of its last future | `future_core` |
| `Tasks` | a chain of stages from its head to its last core: lazy tasks, `Run`, `PromiseCore`, coroutines, unwrapping, executors | `tasks` |
| `SharedCore` | a shared core, its promise, its futures and its callbacks | `shared_core` |
| `SharedAwait` | coroutines that await a `SharedFuture`, on top of `SharedCore` | `await_shared` |
| `When`, `MC_When` | the combinators over N inputs that complete concurrently | `when` |
| `WaitRange` | a thread or a coroutine that waits for N futures, down to the events | `wait_range` |
| `WaitGroup`, `MC_WaitGroup` | `OneShotEvent` and `WaitGroup` | `wait_group` |
| `SerialExecutor` | the abstract specification of a strand | (refined by `Strand`) |
| `Strand` | `Strand::Submit`, `Call`, `Drop` over any executor | `strand` |
| `Mutex`, `MC_Mutex` | `MutexImpl`, its awaiters and guards | `mutex` |
| `SharedMutex`, `MC_SharedMutex` | `SharedMutexImpl` | `shared_mutex` |
| `FairThreadPool` | `FairThreadPool` | `fair_thread_pool` |
| `Fiber`, `MC_Fiber` | the scheduler of the simulator and the primitives built on it | `fiber` |
| `X_proofs` for `X` = `UniqueCore`, `SharedCore`, `WaitRange`, `Strand`, `FairThreadPool`, `Mutex`, `SharedMutex` | the inductive invariant of `X` and theorems; by `INSTANCE` also those of `When` (in `UniqueCore_proofs`), `WaitGroup` (in `WaitRange_proofs`), `Tasks` (in `Strand_proofs`) and `Fiber` (in `Mutex_proofs`) | - |
| `SequenceLemmas` | what pushing, popping, appending and reversing do to the intrusive lists | - |

The modules do not repeat one another. A core and its race are detailed once, in
`UniqueCore` and `SharedCore`; the modules about what is connected to cores
(`When`, `WaitRange`, `WaitGroup`, `Tasks`) take from it that a callback is
linked or finds the result, and is called once by the thread that completes the
core. An executor is detailed in `Strand`, `FairThreadPool` and `Tasks`; the
others take from it that a job is called or dropped later.

An action is one access to an atomic word together with the code up to the next
one, or a critical section. Memory orders are not modelled: the models are
sequentially consistent. A load that only avoids a compare-exchange bound to
fail is merged with it. Definitions named `X_Word` are faulty variants of `X`,
listed as mutants in `PROJECT.json`: with one of them in the place of `X` the
named property fails.

### UniqueCore

Core 0 is the core of a contract (or of `MakeFuture`, which is born with its
result); core *i* + 1 is the continuation of core *i*. `callback`, `slot`,
`exec` are `_callback`, the union and `_executor`. `phase` is how far the
completion of a core is: constructed, about to run `Here`, in the queue of its
executor, in `CallImpl`, result stored, result published. `taken` is the
callback the completing thread has got out of `_callback` and not yet run; that
is where the interesting interleavings are. `alive` is the memory of the core.

`PromiseSet` is `Promise::Set` and `~Promise`; `SetResult` is the exchange in
`SetResultImpl`; `StepNext`, `StepDrop`, `StepEvent` and `StepGroup` are `Here`
of the four kinds of callbacks; `Here`, `ExecutorRun` and `CallImpl` are
`Core::Impl`, the executor, and `CallImpl` with `Done`. The owner of the future
takes the steps of `Consumer`. A functor accepts a `Result`, a value or an
error; it may throw; it can be inline, on a given executor, or on the inherited
one. `resolved`, `given` and `premature` are history variables.

A wait has one future here, so its counter is one and `Sub(1)` sets the event;
waits for several are `WaitRange`. The `WaitGroup` appears only as the callback
it leaves in a core. Functors that return futures, and `Run`, are in `Tasks`.

### Tasks

A chain is sequential, so one variable `act` has the core that is at work, what
it is doing (`call` and `drop` are the two entries of a job, `here` the call by
the core before it, `body` a coroutine between two suspensions) and in whose
thread. When `act` is idle the chain is in an executor's queue or waits for a
promise. `mem` has the fields of each core: the union of caller and result
(`slot`), `_callback` (`word`), `_executor`, the functor, and the link `next` by
which `Then` ties a lazy stage to its caller and which the queues of executors
use for jobs. `Start` walks those links to the head and clears them
(`MoveToCaller`). `DecRef` turns a core that is freed without its result, with
its functor, or twice into one that is `wrong`.

What the functor of a stage does is chosen when it runs: its signature decides
whether it is called at all, and it returns a value, throws, or returns a Task
or Future whose core is `<<i, 1>>` (`CallResolveAsync`). A coroutine may return,
yield, move to another executor or await one inner Task or Future. `Swapped` is
the move assignment of `IntrusivePtr` in `PromiseType::Impl`, which swaps.
Inner tasks are `MakeTask`, coroutines, functors on a `MakeTask` (`chain`: one
core that stands for them and runs in one step), or pending futures. A functor
that returns, or a coroutine that awaits, an unstarted `Schedule` or
`LazyContract` task would reach a branch of `Core::Impl` or `ResultCore::Impl`
that asserts it is not entered this way; that use is not modelled.

`co_await std::move(task)` takes the result and frees the inner core when the
coroutine goes on; `co_await Await(task)` leaves both in the Task (`CoroHere`).
A coroutine that keeps one (`Keeps`) may yield and move meanwhile, and lets go
of it (`LetGo`) by `Touch() &&` or at the end of its scope; when a suspended
coroutine is dropped its frame ends with it. The end of the scope is `~Task`,
which cancels the task although it has run (`Destroyed`): the core is linked to
the `Drop` callback, given the stopping executor and dropped. For some kinds of
cores the outcome of that is undefined, and they become `late`; see the defects
below.

### When

Each input has a core with its result and reference count, and `at` says how far
the thread that consumes it has come: `waiting`, `attached`, `consume` (calling
`Consume`, which gets the result from `Retire`), `rmw` (the access to the word
of the strategy), `act` (it won, and sets the promise or stores the error),
`decref`, `done`. Steps of different inputs interleave, and so does the loop of
`Set`, which attaches the callbacks one at a time and consumes by itself what is
ready. `Change` is the read-modify-write of each strategy: an exchange, a
fetch_or of two flags, or a subtraction in the word that counts and marks at the
same time. Inputs may be copies of one SharedFuture, whose core calls their
callbacks in one walk while the user may still hold a copy.

### WaitRange

`at` is where the callback of each future is: `attached`, `called` (the core
has taken it), then inside `Set` of the event. The waiter attaches, subtracts
what it did not attach, sleeps, and after a timeout takes back callback after
callback, adding up what the code calls `reset_count`. `alive` is the event on
its stack. The events are detailed: `MutexEvent` with the owner of its mutex,
and `AtomicEvent` with the two values of `YACLIB_FUTEX`. The coroutine versions
use the same counter, and the `next` field of the event both to link it into a
shared core and to remember whom to resume, which is what `NextNotShared`, a
part of `EventSound`, is about.

### WaitGroup

`head` is the stack of jobs of the waiters or `kAllDone`; `walk` and `job` are
the local variables of the loop in `SetImpl`, which reads the next job before
it calls one. A timed waiter has a job on the heap with two references, the
others have it on their stack or in the frame of the coroutine. A group adds a
counter, which `AddBatch` raises before futures are inserted, and which each
callback and the owner lower. `Reset` is documented as not thread-safe and taken
only when nobody waits.

### Fiber

The simulator has one thread: a step is what a fiber does between two points at
which it may be suspended. `RunLoop` picks one of the ready fibers, after moving
the time to the earliest sleeper if there are none. Times are kept relative to
now. A fiber that waits with a timeout is in a `FiberQueue` and in the sleep
list. The client of the primitives is any sequence of the calls a program may
make, from a set `Worlds` of classes and operations, with a fault injected
before and after each; a world also fixes the length of a tick. `freed` counts how often a fiber object is deleted.

### SharedCore and SharedAwait

`word` is `_callback` as a list, newest callback first, or `kResult`. The thread
`Setter` stores and publishes the result, then walks the list (`WalkNext`,
`DecRefFirst`, `WalkLast`, `DecRef`, `DecRef`). Users with a future (`held`)
copy it, release it, attach callbacks, connect promises, wait and take the
result. A callback has a kind and a stage; `Here` is what each kind does when it
is run, by the `Setter` or by a user who came after the result. Reading the
counter and acting on it are two steps, for a connected promise
(`Here`, then `Transmit`) and for `Get() &&` (`GetRef`, then `Get`). A `"call"`
callback is in its executor between `Here` and `Call` or `Drop`. What a callback
does with its own core is not in the module.

`SharedAwait` adds coroutines as one more kind of callback. Its run is about the
defect below.

### Strand and SerialExecutor

Every job has a submitting thread; the executor below is external and may stop
calling and start dropping at any moment. `jobs` is the intrusive stack;
comparing `_jobs` with an expected pointer compares heads, so that an ABA change
of the stack would be visible. `SerialExecutor` has a queue, the running job,
and the jobs refused. The refinement maps the rest of the batch in `Call`,
followed by the reversed stack, to that queue: `CallTake` and `Release` change
the representation and are stuttering steps of the specification.

### Mutex

`sender` and `receiver` are the two lists, `exec` the executor stored in a
coroutine, `thread` the executor it is really running on. `UnlockOn` splits a
coroutine in two: it is submitted (`pc = "sent"`), and the thread it left still
has to unlock (`rel`). A `StickyGuard` remembers the executor (`sticky`) if its
lock was awaited. `co_await guard.Unlock()` goes back to that one
(`UnlockSticky`), or stays where it is if there is none (`UnlockStickyHere`);
`~StickyGuard` and the inherited `UnlockHere` and `UnlockOn` release the mutex
like those of a plain guard and go back nowhere (`Unlock`, `UnlockOn`).
`ExecutorsKept` promises the way back for `co_await guard.Unlock()` only. A guard
is locked once: `TryLock` of a `StickyGuard` that was locked before keeps the old
executor, which is not modelled. Both template arguments are variables fixed in
`Init`, so one run covers several instantiations.

### SharedMutex

`_state` is its two halves `writers` and `readers`. Code that takes the spinlock
is one step unless it accesses `_state` under the spinlock, which other threads
change without it; then the access is a step and `lock` is held. `_readers_wait`
is unsigned and really goes below zero; it is kept modulo `Word`, which the
assumption makes large enough that -r is no legal count.

### FairThreadPool

What a thread does under `_m` is one step, each notification one of its own. A
worker's `pc` is its place in `Loop`; the condition variable is the set of idle
workers, any of which `notify_one` may wake, and which may wake spuriously. The
counter keeps the jobs that `HardStop` took away, as in the code.

## Runs

| Run | Instance | Distinct states | Shows |
|---|---|---|---|
| `future_core` | 2 continuations, 2 waits, 2 executors | 320 877 | cores and results are used only while they are there, continuations run once, executors are inherited, everything is released and waits return |
| `tasks` | a head and 2 more stages, each with an inner task, 4 executors, 2 reschedulings | 283 906 | lifetimes of cores, functors and links, except for a task that is destroyed after `Await` has run it; executors are there where they are read; cancelling runs no value functor; every chain that is started ends and is freed |
| `shared_core` | 2 users, 2 callbacks of 6 kinds | 84 872 | the reference counter is exact, moves take the result from nobody, all callbacks run, waits return |
| `await_shared` | 1 user, 2 callbacks or coroutines | violation | `co_await` of a pending `SharedFuture` reads the result before it is stored |
| `when` | 0 to 3 inputs, all strategies and policies, unique and shared, static and dynamic | 318 676 | the promise is set once and to what the policy allows; nothing is used after it was released; everything settles |
| `wait_range` | 1 to 3 futures, 5 kinds of wait, 3 events | 21 255 | the event outlives its callbacks; the answer of a wait is true and a failed one leaves nothing behind; waits end |
| `wait_group` | 2 waiters of 5 kinds, 2 futures consumed or attached, 2 rounds | 85 711 | jobs live while they can be reached; a wait comes after all operations; waiters leave |
| `strand` | 4 jobs, 2 threads below | 110 445 | the strand implements `SerialExecutor`, is queued once, lives long enough, finishes all jobs |
| `mutex` | 3 coroutines, 2 executors, default template arguments and the opposite ones | 377 188 | exclusion, no lost waiter, everyone on its executor and back on the old one after an awaited sticky unlock, no starvation |
| `shared_mutex` | 2 readers, 3 writers, all template arguments | 76 424 | exclusion, no lost waiter, assertions of the code, order, no starvation of queued coroutines |
| `fair_thread_pool` | 2 workers, 3 jobs, 2 stopping threads | 155 453 | no lost wake-up, every job in one place, stops, termination |
| `fiber` | 3 fibers, 10 programs over 4 mutex classes, ticks of 1 and 2 | 569 456 | the scheduler loses no fiber and frees each once; it finds one when it polls, and the simulation ends, unless a tick has passed over an emptied entry of the sleep list; the mutex and the atomic are right |

**Bounds.** Two continuations give a core that is first, one in the middle and
one that is last, which is all the code distinguishes: a core knows only its
caller and its callback; the same holds of a lazy chain with a head and two
stages, each of which may unwrap or await one inner task. Two waits allow a wait
after a timed-out one. In a shared core two callbacks are one that is not the
last of the list and one that is, or one in the list and a late one; two users
are one who consumes the result while the other still can, and three or four
owners of references are around at the same time. Three inputs of a combinator,
or futures of a wait, are one that is there before, one that comes while the
callbacks are attached and one that comes later, with a pair that shares a core;
`MaxInputs` is below half of `Word`, so that the counting word wraps as the
64-bit one does, only sooner. Two waiters on an event are one that has been
called and one that has not. Four jobs on a strand make two batches of two, the
smallest case in which the order within and between batches can go wrong. Three
coroutines are one that holds the mutex, one in the batch and one on the stack.
In the shared mutex a first writer, a queued one and one with priority need
three writers, and two readers can be one inside and one queued or with a pass.
Two workers and three jobs leave a job in the queue while all workers are busy,
and two stopping threads run any pair of stop operations against each other.
In the simulator a program that locks, waits and notifies needs one fiber that
waits, one that is about to and one that notifies; delays of 0 and 3 ticks are a
deadline that has passed and one that others can overtake; a tick of 1 never
passes over a deadline, a tick of 2 does, as the default of 10 does. No symmetry is used,
because every passing run checks liveness.

**Deadlock.** `UniqueCore` and `Strand` have an explicit `Terminating` step, and
the mutexes never stop, so that a deadlock is an error in these runs. The others
stop when their clients are finished: all references released, all waiters gone,
the pool stopped, the simulation over. That nobody is stuck inside the library
is then the temporal property of the run (`EveryoneServed`, `EverythingEnds`,
`EverythingSettles`, `WaitEnds`, `WaitersLeave`, `ChainEnds`,
`SimulationEnds`).

**Fairness.** Weak fairness is assumed of threads inside library code, and of
executors: what was submitted is called or dropped at some time, on which the
library depends everywhere. Not assumed: that a future is ever consumed, that
anyone submits, locks, waits or stops. The promise is set or destroyed (a program
that leaks a promise waits forever); in `Tasks` the owner of a future takes the
result or lets go of it in the end, and a manual executor is drained. For the
mutexes, critical sections end and executors call, not drop, the coroutines
submitted to them. A strand's submitter gets a successful compare-exchange after
finitely many rounds because there are finitely many jobs. The pool assumes that
its mutex starves nobody. `WaitRange` has strong fairness for the mutex of the
event, which spurious wake-ups take again and again, and for the timeout, since
a deadline does not move when the waiter wakes for nothing. The simulator has
one thread, and weak fairness of its whole next-state relation says only that
this thread goes on. The spinlock of the shared mutex is not fair, so
`NobodyWaitsForever` begins where a coroutine is queued.

**Defects.** Three places where the code does not do what it asserts or what its
tests say of it. The first is a run of its own; the other two are reached in
passing runs, whose properties say exactly when they happen and exclude nothing
else.

- `AwaitSingleAwaiter<true>::await_ready` asks whether the word of the shared
  core is empty instead of whether it is `kResult`; with any other callback
  linked, `co_await` goes on and reads a result that is not there (run
  `await_shared`). `Touch` of a `SharedFuture` asserts only `Ready()`
  (`shared_future.hpp:54-70`), which is the same question; `SharedCore` calls
  `Touch` only once the result is there.
- In the simulator a tick may pass over a deadline when it is longer than 1 (it
  is 10 unless `SetTickLength` changes it). A fiber that is notified less than a
  tick before its deadline then finds `_time > ns` in `SleepPreemptive`
  (`scheduler.cpp:129`) and leaves its emptied entry in the sleep list. If nobody
  is ready after that, `RunLoop` goes on because the list is not empty, finds
  nobody to wake, and `GetNext` polls an empty queue, against its assertion
  "Queue can't be empty" (`scheduler.cpp:15`). `PassedOver` is that an emptied
  entry is behind the time. `PollFindsAFiber` says that this is the only way to
  poll an empty queue, and `SimulationEnds` that the simulation ends or gets
  there; in `fiber` the worlds with a tick of 2 do get there, those with a tick of
  1 do not.
- `~Task` after `co_await Await(task)` (`task.hpp:43-47`) cancels a chain that has
  finished. If the last core has a functor, `Core::Drop` calls or destroys the
  functor that the first run has destroyed, and `Done` takes the caller out of
  the union that holds the result by then (`core.hpp:143-145`, `213-229`). If it
  is a coroutine that was in a queue of an executor, `next` may still point at
  the job behind it, since `List::PopFront` does not clear it, and `MoveToCaller`
  walks on to that job (`core.hpp:94-102`). Such a core is `late` in `Tasks`;
  `CoreLifetimes` says that no other core is freed wrongly, and that only an inner
  task can be late. A `ReadyCore`, a coroutine that was in no queue, and a
  Future survive it; the coroutine's result is overwritten with `StopTag` and
  never destroyed (`promise_type.hpp:116`), so that a value with memory of its
  own is leaked. `Touch() &&` of the task avoids all this.

**Other observations,** which the models reproduce and no run is about:

- `FutureBase::Ready` says it is false while the result is not computed, but it
  tests whether the word is empty, and a `WaitGroup` leaves a callback in the word
  of a future that the user keeps (`Attach`), so that it answers true early.
- `MakeStrand` promises strictly sequential execution; `Strand::Drop` makes the
  strand idle before it drops, so that drops (which run functors on `StopTag`) can
  overlap. `SerialExecutor` therefore promises sequential *calls* only.
- `PromiseType::Impl` means to move the executor of the core that resumes it, and
  because the move assignment of `IntrusivePtr` swaps, it exchanges the two. An
  inner task that a coroutine awaits runs on the coroutine's executor, and a stage
  after it may inherit another executor than the one its future was given.
  `ExecutorsPresent` holds because of the swap: with a real move it fails.
- In the simulator the assertion at `scheduler.cpp:131` can fail when two fibers
  that wait until the same time are both notified, and the one in
  `timed_mutex.hpp:31` when a woken fiber finds the mutex taken.
  `SharedMutex` and `RecursiveMutex` look only once when they are woken,
  `RecursiveMutex::unlock` wakes nobody, `lock_shared` waits in the exclusive
  queue and `SharedTimedMutex` takes the exclusive lock with the shared helper.
  `PrimitivesSound` is therefore stated of the plain mutex, which the library's
  own code uses. `fetch_and` of the simulated atomic adds (`fiber/atomic.hpp:154`),
  and its prefix and postfix increments return each other's value; neither is
  modelled.

## Proofs

Each `X_proofs` extends the module `X` and proves that an inductive invariant
`Inv` holds in every reachable state (`Invariance`), one lemma per action, and
then the properties of the run of `X` from it. Four components share the proof
module of another one, which instantiates them: their invariants are `WhenInv`,
`GroupInv`, `TaskInv` and `FiberInv`. Every invariant was checked with TLC on the instance
of the run before it was proved.

| Module | Properties proved | For every |
|---|---|---|
| `UniqueCore_proofs` | `TypeOK`, `NoUseAfterFree`, `ResultBeforeRead`, `ResolvedAtMostOnce`, `ExecutorInherited`, `EventOutlivesCallback`, `ReadyMeansComputed` | length of the pipeline, number of waits, set of executors |
| - for `When` | `OutputAllowed`, `NothingUsedAfterRelease` | number of inputs, strategy and policy, mix of unique and shared inputs, width of the counting word |
| `SharedCore_proofs` | `TypeOK`, `RefsAccounted`, `ResultIntact` | finite sets of users and callbacks, set of results |
| `WaitRange_proofs` | `EventSound`, `ReturnsTheTruth` | number of futures, modes and events |
| - for `WaitGroup` | `JobsAlive`, `WaitedForAll` | finite set of futures, set and kinds of waiters, batches, rounds |
| `Strand_proofs` | `TypeOK`, `StrandJobSound`, `ImplementsSerialExecutor` | sets of jobs and of threads below |
| - for `Tasks` | `CoreLifetimes`, `ExecutorsPresent`, `CancelMeansStop` | length of the chain, number of reschedulings, set of executors |
| `FairThreadPool_proofs` | `TypeOK`, `NoSleeperForgotten`, `SoftStopWaits`, `JobsAccounted` | finite sets of workers, jobs, stopping threads |
| `Mutex_proofs` | `TypeOK`, `MutualExclusion`, `WaitersQueued`, `ExecutorsKept` | sets of coroutines and executors, template arguments |
| - for `Fiber` | `PollFindsAFiber`, `FibersAccounted`, `PrimitivesSound` | set of fibers, programs, delays, tick lengths |
| `SharedMutex_proofs` | `TypeOK`, `ReadWriteExclusion`, `ListsConsistent`, `WritersKeepOrder` | finite set of readers, set of writers, template arguments |

**Assumptions.** Those named in the modules and evaluated by TLC: bounds are
natural numbers, sentinels (`None`, `Null`, `Mark`, `NotLocked`, `kResult`, `DropCore`, the
waiter as the owner of a mutex) are none of the values they are told apart from,
sets that are counted are finite, and `Word` is larger than twice the number of
readers, since the shared mutex tells a count from a negative one. Of the
combinators' `Word` it is assumed that it is even and larger than twice the
number of inputs, of the futures of a group that they are finitely many, and of
a program in the simulator that it calls only what its mutex class has. The
theorems about an instantiated module have its `ConstantsAssumption` as a
hypothesis. Two theorems have another hypothesis of their own. `NoJobLost` needs at least one worker: the
constructor of the pool accepts none, and then nobody calls what is queued.
`ReadyIsRight` needs that `Ready()` is not asked of a future inside a
`WaitGroup` (see above).

**UniqueCore.** That a core in use has not been freed depends on who is going to
free it, and that depends on how far the race for its `_callback` has come.
`Inv` describes the race. A core below the last one is in one of four stages
together with its continuation (`Link`): the continuation waits in `_callback`;
the thread that came second has taken it; the continuation is being resolved and
reads the core; the continuation has stored its result and the core is freed.
The last core is in one of three (`Last`), where the callback is the one that the
state of the future implies: none, an event, a group, or `Drop`. Cores above the
last do not exist (`Above`). `Stored` says that a published result stays until
the core is freed, `Resolved` that a continuation that has not stored a result
has not run. `ExecutorInherited` needs a second invariant on top: which executor
is in force at a core, given where its predecessors ran.

**SharedCore.** The counter licenses a move when it is small, so `RefsAccounted`
and `ResultIntact` need each other: a move takes the result from nobody because
the counter says that nobody else owns a reference, and a reader that owns none
is run by a thread that does (`Runners`). The rest of `Inv` says which callbacks
the list and the walk of the setter hold, and follows a move from the look at
the counter to the end (`Moving`, `MovingOut`, `AfterMove`).

**WaitRange.** The counter is the number of callbacks that have not counted yet
plus what the waiter has still to subtract (`Counted`, `Extra`). So whoever takes
it to zero is the last to use the event but for the waiter (`Ending`), only one
callback at a time sets the event (`Setters`), and a future whose callback is
gone without having been taken back has its result (`IdleReady`). A blocking wait
for one future has no counter (`OneCounter`); the place of its one callback takes
its part.

**WaitGroup.** The counter is the number of inserted futures whose callback has
still to run, plus one for the owner until `Done`, plus what `AddBatch` has
counted for callbacks that are not attached (`GroupCount`), so it is zero once,
when all of them are finished, and then one thread runs `SetImpl`
(`GroupPhase`). That thread's list, the job it has in hand and the stack are
disjoint and hold no job twice (`GroupLists`), and only jobs that are still waited
for or have a reference of their own (`GroupJobs`). A timed waiter that leaves early takes one of the two references of
its job; the other belongs to the list that the job is in.

**When.** An input is consumed by one thread, and the word of the strategy knows
how many are (`All`, `Join` with their counters) or that one was good, bad or
last (`Any` with its flags). The invariant says for each strategy what the word
tells of the inputs past their `rmw`, and that at most one of them found the
word in the state that lets it set the promise; the value it sets is allowed
because of the results of those that came before it. The word that counts and
marks at once wraps modulo `Word`; its parity and size still tell the two
apart, which is where the assumption on `Word` is used. References are counted
as in `SharedCore`: the combinator by the inputs that have not let go of it, a
shared input by its callbacks and its holder.

**Strand.** There is one token: it belongs to the submitter that replaced `Mark`,
then to the queue of the executor below, then to the runner; `Mark` is in
`_jobs` exactly if nobody has it. `Drop` gives it back before it goes through its
batch, so that several threads may be dropping, but one at most is calling. The
refinement is proved action by action: initial states map to initial states, and
every step is a step of `SerialExecutor` or leaves its queue, its running job and
its dropped jobs as they are; `CallTake` and `Release` are such steps because
reversing the stack onto an empty batch changes only the representation.

**Tasks.** A chain is at one stage, and all that `TaskInv` says is about it and
its neighbours (`Around`): every core before it is freed, except that the last
one may still hold the result that the stage is to read, and every stage after
it is as `Then` left it (`New`). The stage itself is in one of seven places
(`At`): given to an executor, which has it in a queue or calls it; in the body
of the coroutine at the head; with a promise; called by the stage before; waiting
for the Task or Future that its functor returned, which is at work in its turn;
called by that one; or past the end, where the owner of the Future may take the
result. Each says what the union of caller and result is at that moment, whether
the functor is still there, and which core must have an executor; a stage that
takes over the executor of its predecessor is the only one to read it afterwards.
That `MoveToCaller` finds the head is proved from the links: the recursive
function exists because a witness can be given, and a smallest stage from which
it ends elsewhere cannot be. While no functor of a cancelled chain has run, its
head is dropped, no stage has an inner task and every result is `StopTag`
(`Stopping`). What the coroutine at the head has kept of an `Await` is a core
that has finished and that nothing is linked to (`Kept`, `Over`) until it lets go
of it; the invariant follows it through queues and reschedulings, because a
coroutine that is dropped takes it along.

**FairThreadPool.** `_jobs_count` is at least the number of queued jobs and of
workers that have not subtracted theirs (`CountCovers`); it is not equal, since
`HardStop` leaves in it what it took. While somebody sleeps, the queued jobs are
outnumbered by the notifications still to come and the workers already woken;
this, not `NoSleeperForgotten` itself, is what a step preserves.

**Mutex.** `_sender` is free exactly if nobody holds the mutex (`LockWord`), the
two lists together hold each waiter once (`Lists`), and an unlock that has not
released the mutex has somebody to hand it to, because only the holder shortens
the lists (`SomebodyToResume`). `ExecutorsKept` is an action property and
follows from `Inv` step by step: the executor that a sticky guard remembers is
the one before the lock, or the coroutine has not left that one.

**Fiber.** Every fiber is in the one place that its state implies (`Place`):
running, ready, asleep, in the queue of what it waits for, joining, or in a
queue and asleep when it waits with a timeout. Who is suspended without a
deadline has somebody to wake it (`FiberWakes`). The fiber that holds a `Thread`
is `Main`, and whether it is still there when a fiber completes decides who
deletes that one (`FiberThreads`, `FiberJoins`). An empty entry of the sleep list
belongs to a notified fiber on its way to erase it (`Eraser`), or the time has
passed over it (`PassedOver`), and then nobody does. That the earliest entry exists
uses that the natural numbers are well-founded. Of the plain mutex: one holder,
and a free mutex that fibers queue for has one that was woken and looks again.

**SharedMutex.** The argument is about a leader: the one writer that has the
mutex, or waits for the readers inside, or has just found no other writer, or is
handing the mutex on. What `_readers_wait`, `_readers_pass` and the two halves of
`_state` count depends on what the leader is doing; without a leader nothing is
queued and every reader on its way has a pass.

`TypeOK`, and `EventOutlivesCallback` and `ReadyMeansComputed` of
`UniqueCore`, are in no run: the theorems are stronger, and `wait_range` checks
the event in more detail.

**Only model-checked:** all liveness properties and with them the fairness
conditions, which are out of the prover's reach. `SharedAwait` has no property of
its own to prove: its run shows a disagreement.

## Not modelled

- Weak memory: a missing acquire or release would not be noticed (the relaxed
  read of the counter that licenses a move from a shared core is such a place).
- `Connect` of two unique futures, `RunShared`, `AsyncSharedContract`, and coroutines
  that return a `Future` or `SharedFuture`: they put cores that are modelled
  together in ways that are not.
- The executor a coroutine continues on after `AwaitSticky` or `AwaitOn` of one
  future; moving, swapping and reusing lock guards; `Submit` of a plain functor.
- The destruction of a thread pool and of the mutexes, which the code leaves to
  their users.
- In the simulator: stacks, contexts and their allocation, thread-local proxies,
  random numbers, the configuration, waits with a predicate, most arithmetic of
  atomics, and the build that injects into real threads.
- Logging, type traits and the `yaclib_std` wrappers have no state of their own.

## Plan

The modules above are those that were planned, and every safety property that a
passing run checks is a theorem. What is left is outside this plan: the parts
under "Not modelled", and the liveness properties, which stay with TLC.
