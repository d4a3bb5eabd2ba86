--------------------------- MODULE FairThreadPool ---------------------------
(***************************************************************************)
(* runtime/fair_thread_pool: one queue of jobs, served by all the workers. *)
(*                                                                         *)
(* _jobs and _jobs_count are only touched under the mutex _m, so what a    *)
(* thread does between locking and unlocking it is one step.  Everything   *)
(* is notified after unlocking, in a step of its own: what other threads   *)
(* do in between is what makes a wake-up get lost or come too late.  The   *)
(* condition variable _idle is its set of waiting threads; a wait can also *)
(* end spuriously.                                                         *)
(*                                                                         *)
(* _jobs_count packs two flags and a counter: wasStop is bit 0, wantStop   *)
(* bit 1, count the rest.  Nothing carries from one into another.          *)
(*                                                                         *)
(* The definitions whose names end in an underscore and a word (X_Word)    *)
(* are faulty variants of X that show that the properties can fail; the    *)
(* specification does not use them.                                        *)
(***************************************************************************)
EXTENDS Naturals, FiniteSets, Sequences

CONSTANTS
    Workers,   \* threads of the pool
    Jobs,      \* jobs that may be submitted, each once, by any thread
    Stoppers,  \* threads that may call one of the three stop operations
    None

ASSUME ConstantsAssumption ==
    /\ IsFiniteSet(Workers) /\ IsFiniteSet(Jobs) /\ IsFiniteSet(Stoppers)
    /\ None \notin Jobs

VARIABLES
    jobs,      \* _jobs
    count,     \* _jobs_count >> 2
    wantStop,  \* WantStop()
    wasStop,   \* WasStop()
    pc,        \* where a worker is in Loop
    cur,       \* the job a worker calls
    status,    \* what has become of a job
    wake,      \* jobs whose Submit has not called notify_one yet
    spc,       \* where a thread is in the stop operation it has called
    taken,     \* the jobs HardStop still has to drop
    forced     \* Stop or HardStop has been called (history)

poolVars == <<jobs, count, wantStop, wasStop>>
workerVars == <<pc, cur>>
stopVars == <<spc, taken, forced>>
vars == <<poolVars, workerVars, status, wake, stopVars>>

WorkerStates == {"start",   \* a new thread
                 "idle",    \* in _idle.wait
                 "woken",   \* woken, without the mutex
                 "call",    \* in job.Call()
                 "back",    \* the call has returned
                 "last",    \* has stopped the pool and will notify the others
                 "done"}    \* has left Loop

Elements(s) == {s[i] : i \in DOMAIN s}

Init ==
    /\ jobs = <<>>
    /\ count = 0
    /\ wantStop = FALSE
    /\ wasStop = FALSE
    /\ pc = [w \in Workers |-> "start"]
    /\ cur = [w \in Workers |-> None]
    /\ status = [j \in Jobs |-> "new"]
    /\ wake = {}
    /\ spc = [s \in Stoppers |-> "ready"]
    /\ taken = [s \in Stoppers |-> <<>>]
    /\ forced = FALSE

-----------------------------------------------------------------------------
(***************************************************************************)
(* Submit.                                                                 *)
(***************************************************************************)

Submit_NotifyIfEmpty(j) ==
    /\ status[j] = "new"
    /\ IF wasStop
       THEN /\ status' = [status EXCEPT ![j] = "dropped"]
            /\ UNCHANGED <<jobs, count, wake>>
       ELSE /\ status' = [status EXCEPT ![j] = "accepted"]
            /\ jobs' = Append(jobs, j)
            /\ count' = count + 1
            /\ wake' = IF jobs = <<>> THEN wake \cup {j} ELSE wake
    /\ UNCHANGED <<wantStop, wasStop, workerVars, stopVars>>

\* The part under the mutex; a stopped pool drops the job, after unlocking.
Submit(j) ==
    /\ status[j] = "new"
    /\ IF wasStop
       THEN /\ status' = [status EXCEPT ![j] = "dropped"]
            /\ UNCHANGED <<jobs, count, wake>>
       ELSE /\ status' = [status EXCEPT ![j] = "accepted"]
            /\ jobs' = Append(jobs, j)
            /\ count' = count + 1
            /\ wake' = wake \cup {j}
    /\ UNCHANGED <<wantStop, wasStop, workerVars, stopVars>>

\* notify_one wakes any one of the waiting threads.
SubmitNotify(j) ==
    /\ j \in wake
    /\ wake' = wake \ {j}
    /\ \/ \E w \in Workers :
             /\ pc[w] = "idle"
             /\ pc' = [pc EXCEPT ![w] = "woken"]
       \/ /\ \A w \in Workers : pc[w] # "idle"
          /\ UNCHANGED pc
    /\ UNCHANGED <<poolVars, cur, status, stopVars>>

-----------------------------------------------------------------------------
(***************************************************************************)
(* Loop.                                                                   *)
(***************************************************************************)

NoJobs == count = 0

\* The thread has locked the mutex in Loop.
Locks(w) == pc[w] \in {"start", "woken", "back"}

\* What _jobs_count is after the mutex has been locked: the job that was called
\* is counted until its call has returned.
CountAtLock(w) == IF pc[w] = "back" THEN count - 1 ELSE count

\* Take the oldest job.
LoopPop(w) ==
    /\ Locks(w)
    /\ jobs # <<>>
    /\ pc' = [pc EXCEPT ![w] = "call"]
    /\ cur' = [cur EXCEPT ![w] = Head(jobs)]
    /\ jobs' = Tail(jobs)
    /\ count' = CountAtLock(w)
    /\ UNCHANGED <<wantStop, wasStop, status, wake, stopVars>>

\* job.Call() without the mutex.
LoopCall(w) ==
    /\ pc[w] = "call"
    /\ pc' = [pc EXCEPT ![w] = "back"]
    /\ status' = [status EXCEPT ![cur[w]] = "called"]
    /\ cur' = [cur EXCEPT ![w] = None]
    /\ UNCHANGED <<poolVars, wake, stopVars>>

SoftStopNow_QueueOnly(w) == jobs = <<>> /\ wantStop

\* NoJobs() && WantStop(): nothing is queued and nothing is being called.
SoftStopNow(w) == CountAtLock(w) = 0 /\ wantStop

\* With no job in the queue: stop the pool, leave, or wait.
LoopEmpty(w) ==
    /\ Locks(w)
    /\ jobs = <<>>
    /\ count' = CountAtLock(w)
    /\ \/ /\ SoftStopNow(w)
          /\ wasStop' = TRUE
          /\ pc' = [pc EXCEPT ![w] = "last"]
       \/ /\ ~SoftStopNow(w)
          /\ pc' = [pc EXCEPT ![w] = IF wasStop THEN "done" ELSE "idle"]
          /\ UNCHANGED wasStop
    /\ UNCHANGED <<jobs, wantStop, cur, status, wake, stopVars>>

\* _idle.notify_all().
NotifyAll == pc' = [w \in Workers |-> IF pc[w] = "idle" THEN "woken" ELSE pc[w]]

LoopNotify_None(w) ==
    /\ pc[w] = "last"
    /\ pc' = [pc EXCEPT ![w] = "done"]
    /\ UNCHANGED <<poolVars, cur, status, wake, stopVars>>

\* The rest of Stop(lock) on the worker that stopped the pool.
LoopNotify(w) ==
    /\ pc[w] = "last"
    /\ pc' = [v \in Workers |-> IF v = w THEN "done"
                                ELSE IF pc[v] = "idle" THEN "woken" ELSE pc[v]]
    /\ UNCHANGED <<poolVars, cur, status, wake, stopVars>>

\* A wait may end without a notification.
SpuriousWakeUp(w) ==
    /\ pc[w] = "idle"
    /\ pc' = [pc EXCEPT ![w] = "woken"]
    /\ UNCHANGED <<poolVars, cur, status, wake, stopVars>>

-----------------------------------------------------------------------------
(***************************************************************************)
(* Stopping.                                                               *)
(***************************************************************************)

\* SoftStop under the mutex: without jobs stop now, otherwise the worker that
\* finishes the last one will.
SoftStop(s) ==
    /\ spc[s] = "ready"
    /\ IF NoJobs
       THEN /\ wasStop' = TRUE
            /\ spc' = [spc EXCEPT ![s] = "notify"]
            /\ UNCHANGED wantStop
       ELSE /\ wantStop' = TRUE
            /\ spc' = [spc EXCEPT ![s] = "end"]
            /\ UNCHANGED wasStop
    /\ UNCHANGED <<jobs, count, workerVars, status, wake, taken, forced>>

\* Stop: no new jobs, but the queued ones are called.
Stop(s) ==
    /\ spc[s] = "ready"
    /\ forced' = TRUE
    /\ wasStop' = TRUE
    /\ spc' = [spc EXCEPT ![s] = "notify"]
    /\ UNCHANGED <<jobs, count, wantStop, workerVars, status, wake, taken>>

HardStop_Copy(s) ==
    /\ spc[s] = "ready"
    /\ forced' = TRUE
    /\ taken' = [taken EXCEPT ![s] = jobs]
    /\ wasStop' = TRUE
    /\ spc' = [spc EXCEPT ![s] = "notify"]
    /\ UNCHANGED <<jobs, count, wantStop, workerVars, status, wake>>

\* HardStop takes the queued jobs away.  They stay in _jobs_count.
HardStop(s) ==
    /\ spc[s] = "ready"
    /\ forced' = TRUE
    /\ taken' = [taken EXCEPT ![s] = jobs]
    /\ jobs' = <<>>
    /\ wasStop' = TRUE
    /\ spc' = [spc EXCEPT ![s] = "notify"]
    /\ UNCHANGED <<count, wantStop, workerVars, status, wake>>

StopNotify(s) ==
    /\ spc[s] = "notify"
    /\ NotifyAll
    /\ spc' = [spc EXCEPT ![s] = IF taken[s] = <<>> THEN "end" ELSE "drop"]
    /\ UNCHANGED <<poolVars, cur, status, wake, taken, forced>>

\* HardStop drops the jobs it took, without the mutex.
HardStopDrop(s) ==
    /\ spc[s] = "drop"
    /\ status' = [j \in Jobs |-> IF j \in Elements(taken[s]) THEN "dropped" ELSE status[j]]
    /\ taken' = [taken EXCEPT ![s] = <<>>]
    /\ spc' = [spc EXCEPT ![s] = "end"]
    /\ UNCHANGED <<poolVars, workerVars, wake, forced>>

-----------------------------------------------------------------------------
SubmitStep(j) == Submit(j) \/ SubmitNotify(j)

WorkerStep(w) == LoopPop(w) \/ LoopCall(w) \/ LoopEmpty(w) \/ LoopNotify(w)

StopStep(s) == SoftStop(s) \/ Stop(s) \/ HardStop(s) \/ StopNotify(s) \/ HardStopDrop(s)

Next ==
    \/ \E j \in Jobs : SubmitStep(j)
    \/ \E w \in Workers : WorkerStep(w) \/ SpuriousWakeUp(w)
    \/ \E s \in Stoppers : StopStep(s)

Spec == Init /\ [][Next]_vars

\* Threads go on with what they have begun, the mutex starves nobody, and calls
\* return.  Nobody has to submit or to stop, and no spurious wake-up has to come.
Fairness ==
    /\ \A j \in Jobs : WF_vars(SubmitNotify(j))
    /\ \A w \in Workers : WF_vars(WorkerStep(w))
    /\ \A s \in Stoppers : WF_vars(StopNotify(s) \/ HardStopDrop(s))

FairSpec == Spec /\ Fairness

-----------------------------------------------------------------------------
(***************************************************************************)
(* Properties.                                                             *)
(***************************************************************************)

\* Every variable keeps its type; _jobs_count is never decremented below zero,
\* although the workers subtract a job only after its call.
TypeOK ==
    /\ jobs \in Seq(Jobs)
    /\ count \in Nat
    /\ wantStop \in BOOLEAN /\ wasStop \in BOOLEAN
    /\ pc \in [Workers -> WorkerStates]
    /\ cur \in [Workers -> Jobs \cup {None}]
    /\ status \in [Jobs -> {"new", "accepted", "called", "dropped"}]
    /\ wake \subseteq Jobs
    /\ spc \in [Stoppers -> {"ready", "notify", "drop", "end"}]
    /\ taken \in [Stoppers -> Seq(Jobs)]
    /\ forced \in BOOLEAN

\* Workers that will look into the queue although they are not calling a job.
Arriving == {w \in Workers : pc[w] \in {"start", "woken"}}

\* A job never waits for a worker that sleeps: while a worker is idle, there is
\* for every queued job a worker on its way to the queue or a Submit that is
\* about to notify one.  It is what makes one notify_one per Submit, after the
\* mutex has been unlocked, enough.
NoLostWakeUp ==
    (\E w \in Workers : pc[w] = "idle") =>
        Len(jobs) <= Cardinality(wake) + Cardinality(Arriving)

\* A stopped pool leaves no worker asleep that nobody is going to wake.
NoSleeperAfterStop ==
    (wasStop /\ \E w \in Workers : pc[w] = "idle") =>
        \/ \E s \in Stoppers : spc[s] = "notify"
        \/ \E w \in Workers : pc[w] = "last"

\* No worker sleeps on work or on a stop that nobody will tell it about.
NoSleeperForgotten == NoLostWakeUp /\ NoSleeperAfterStop

\* Where a job that was accepted and has not ended can be.
InQueue(j) == j \in Elements(jobs)
Called(j) == \E w \in Workers : pc[w] = "call" /\ cur[w] = j
Taken(j) == \E s \in Stoppers : j \in Elements(taken[s])

\* An accepted job that has not ended is in the queue, or one worker calls it,
\* or one HardStop will drop it, and only one of these: a job, which is a node
\* of an intrusive list, is never lost, never called twice and never both
\* called and dropped, whatever stop operations run against each other.
OnePlacePerJob ==
    /\ \A j \in Jobs : status[j] = "accepted" <=> (InQueue(j) \/ Called(j) \/ Taken(j))
    /\ \A j \in Jobs : ~(InQueue(j) /\ Called(j)) /\ ~(InQueue(j) /\ Taken(j))
                                                  /\ ~(Called(j) /\ Taken(j))
    /\ Cardinality(Elements(jobs)) = Len(jobs)

\* Only a HardStop makes the pool drop a job it accepted, and the workers do not
\* leave before they have called all the others: Stop and SoftStop lose nothing.
NothingLeftBehind ==
    (\A w \in Workers : pc[w] \in {"last", "done"}) =>
        \A j \in Jobs : status[j] = "accepted" => Taken(j)

\* Every accepted job is in one place, and stays in none when the workers leave.
JobsAccounted == OnePlacePerJob /\ NothingLeftBehind

\* SoftStop alone never stops the pool while a job is queued or being called, so
\* a job can still submit the jobs that depend on it.
SoftStopWaits ==
    (wasStop /\ ~forced) =>
        jobs = <<>> /\ \A w \in Workers : pc[w] # "call"

\* Every submitted job is called or dropped, and after any of the stop
\* operations all workers leave Loop, so Wait returns.
EverythingEnds ==
    /\ \A j \in Jobs : status[j] # "new" ~> status[j] \in {"called", "dropped"}
    /\ (wasStop \/ wantStop) ~> \A w \in Workers : pc[w] = "done"
=============================================================================
