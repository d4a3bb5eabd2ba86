------------------------------- MODULE Strand -------------------------------
(***************************************************************************)
(* exe/strand: an executor that runs its jobs one after another on top of  *)
(* another executor.                                                       *)
(*                                                                         *)
(* _jobs is an intrusive stack of submitted jobs, null while a batch is    *)
(* being executed, and the strand's own address (Mark) while the strand is *)
(* idle.  The submitter that replaces Mark submits the strand, itself a    *)
(* job, to the executor below.  That executor calls the strand, or drops   *)
(* it when it has been stopped.                                            *)
(*                                                                         *)
(* The executor below is external: it keeps what was submitted to it and   *)
(* later calls or drops it on one of its threads.  Every job has its own   *)
(* submitting thread, which may be one that is running another job.        *)
(***************************************************************************)
EXTENDS Naturals, Sequences, SequencesExt

CONSTANTS
    Jobs,     \* jobs, each submitted once
    Runners,  \* threads that execute what the executor below was given
    Mark,     \* _jobs of an idle strand
    None      \* no job; also the null pointer

ASSUME MarkAssumption == Mark \notin Jobs \cup Seq(Jobs) /\ None \notin Jobs /\ Mark # None

VARIABLES
    jobs,      \* _jobs: Mark, or the stack with the last submitted job first
    pc,        \* where the submitter of a job is
    expected,  \* its local: the value of _jobs it last saw
    alive,     \* the executor below has not dropped anything yet
    pending,   \* how often the strand is in the queue of the executor below
    rpc,       \* where a thread of that executor is
    batch,     \* the jobs it took off the stack, in the order it goes through
    refs,      \* reference count of the strand
    owned,     \* the user still holds its reference
    called     \* jobs whose Call or Drop has returned (history)

vars == <<jobs, pc, expected, alive, pending, rpc, batch, refs, owned, called>>

SubmitterStates == {"idle", "cas", "won", "done"}
RunnerStates == {"idle", "call", "next", "calling", "release", "drop", "dropnext", "dropping"}

\* Definitions named X_Fault are faulty variants of X; they are not part of the
\* specification, they show which property notices the fault.

\* The pointer stored in _jobs.
HeadPointer(s) == IF s = Mark THEN Mark ELSE IF s = <<>> THEN None ELSE Head(s)

Init ==
    /\ jobs = Mark
    /\ pc = [j \in Jobs |-> "idle"]
    /\ expected = [j \in Jobs |-> None]
    /\ alive = TRUE
    /\ pending = 0
    /\ rpc = [r \in Runners |-> "idle"]
    /\ batch = [r \in Runners |-> <<>>]
    /\ refs = 1
    /\ owned = TRUE
    /\ called = {}

-----------------------------------------------------------------------------
(***************************************************************************)
(* Strand::Submit                                                          *)
(***************************************************************************)

SubmitLoad(j) ==
    /\ pc[j] = "idle"
    /\ owned
    /\ expected' = [expected EXCEPT ![j] = HeadPointer(jobs)]
    /\ pc' = [pc EXCEPT ![j] = "cas"]
    /\ UNCHANGED <<jobs, alive, pending, rpc, batch, refs, owned, called>>


\* One round of the loop: job.next = expected and compare_exchange_weak.
SubmitCas(j) ==
    /\ pc[j] = "cas"
    /\ IF HeadPointer(jobs) = expected[j]
       THEN /\ jobs' = IF jobs = Mark THEN <<j>> ELSE <<j>> \o jobs
            /\ pc' = [pc EXCEPT ![j] = IF expected[j] = Mark THEN "won" ELSE "done"]
            /\ UNCHANGED expected
       ELSE /\ expected' = [expected EXCEPT ![j] = HeadPointer(jobs)]
            /\ UNCHANGED <<jobs, pc>>
    /\ UNCHANGED <<alive, pending, rpc, batch, refs, owned, called>>

SubmitStrand_NoIncRef(j) ==
    /\ pc[j] = "won"
    /\ pending' = pending + 1
    /\ pc' = [pc EXCEPT ![j] = "done"]
    /\ UNCHANGED <<jobs, alive, expected, rpc, batch, refs, owned, called>>

\* The submitter that found Mark submits the strand to the executor below.
SubmitStrand(j) ==
    /\ pc[j] = "won"
    /\ refs' = refs + 1
    /\ pending' = pending + 1
    /\ pc' = [pc EXCEPT ![j] = "done"]
    /\ UNCHANGED <<jobs, alive, expected, rpc, batch, owned, called>>

-----------------------------------------------------------------------------
(***************************************************************************)
(* The executor below, Strand::Call and Strand::Drop                       *)
(***************************************************************************)

\* External: the executor below takes the strand and calls it, or drops it; one
\* that has been stopped drops everything from then on.
Execute(r) ==
    /\ rpc[r] = "idle"
    /\ pending > 0
    /\ pending' = pending - 1
    /\ \/ alive /\ rpc' = [rpc EXCEPT ![r] = "call"] /\ UNCHANGED alive
       \/ alive' = FALSE /\ rpc' = [rpc EXCEPT ![r] = "drop"]
    /\ UNCHANGED <<jobs, pc, expected, batch, refs, owned, called>>

CallTake_NoReverse(r) ==
    /\ rpc[r] = "call"
    /\ batch' = [batch EXCEPT ![r] = jobs]
    /\ jobs' = <<>>
    /\ rpc' = [rpc EXCEPT ![r] = "next"]
    /\ UNCHANGED <<pc, expected, alive, pending, refs, owned, called>>

\* Strand::Call takes the whole stack and reverses it.
CallTake(r) ==
    /\ rpc[r] = "call"
    /\ batch' = [batch EXCEPT ![r] = Reverse(jobs)]
    /\ jobs' = <<>>
    /\ rpc' = [rpc EXCEPT ![r] = "next"]
    /\ UNCHANGED <<pc, expected, alive, pending, refs, owned, called>>

CallBegin(r) ==
    /\ rpc[r] = "next"
    /\ rpc' = [rpc EXCEPT ![r] = "calling"]
    /\ UNCHANGED <<jobs, pc, expected, alive, pending, batch, refs, owned, called>>

CallEnd(r) ==
    /\ rpc[r] = "calling"
    /\ called' = called \cup {Head(batch[r])}
    /\ batch' = [batch EXCEPT ![r] = Tail(@)]
    /\ rpc' = [rpc EXCEPT ![r] = IF Len(batch[r]) = 1 THEN "release" ELSE "next"]
    /\ UNCHANGED <<jobs, pc, expected, alive, pending, refs, owned>>

\* Going idle with a plain store instead of a compare-exchange.
Release_Store(r) ==
    /\ rpc[r] = "release"
    /\ jobs' = Mark
    /\ refs' = refs - 1
    /\ rpc' = [rpc EXCEPT ![r] = "idle"]
    /\ UNCHANGED <<pc, expected, alive, pending, batch, owned, called>>

\* The end of Strand::Call: go idle unless jobs arrived during the batch.
Release(r) ==
    /\ rpc[r] = "release"
    /\ IF jobs = <<>>
       THEN jobs' = Mark /\ refs' = refs - 1 /\ UNCHANGED pending
       ELSE pending' = pending + 1 /\ UNCHANGED <<jobs, refs>>
    /\ rpc' = [rpc EXCEPT ![r] = "idle"]
    /\ UNCHANGED <<pc, expected, alive, batch, owned, called>>

\* Strand::Drop goes idle first, then goes through the stack as it is.
DropTake(r) ==
    /\ rpc[r] = "drop"
    /\ batch' = [batch EXCEPT ![r] = jobs]
    /\ jobs' = Mark
    /\ rpc' = [rpc EXCEPT ![r] = "dropnext"]
    /\ UNCHANGED <<pc, expected, alive, pending, refs, owned, called>>

DropBegin(r) ==
    /\ rpc[r] = "dropnext"
    /\ rpc' = [rpc EXCEPT ![r] = "dropping"]
    /\ UNCHANGED <<jobs, pc, expected, alive, pending, batch, refs, owned, called>>

\* Job::Drop returns; after the last one the strand releases itself.
DropEnd(r) ==
    /\ rpc[r] = "dropping"
    /\ called' = called \cup {Head(batch[r])}
    /\ batch' = [batch EXCEPT ![r] = Tail(@)]
    /\ IF Len(batch[r]) = 1
       THEN refs' = refs - 1 /\ rpc' = [rpc EXCEPT ![r] = "idle"]
       ELSE rpc' = [rpc EXCEPT ![r] = "dropnext"] /\ UNCHANGED refs
    /\ UNCHANGED <<jobs, pc, expected, alive, pending, owned>>

\* The user lets go of the strand once nobody is inside Submit.
UserRelease ==
    /\ owned
    /\ \A j \in Jobs : pc[j] \in {"idle", "done"}
    /\ owned' = FALSE
    /\ refs' = refs - 1
    /\ UNCHANGED <<jobs, pc, expected, alive, pending, rpc, batch, called>>

Submit(j) == SubmitLoad(j) \/ SubmitCas(j) \/ SubmitStrand(j)
Call(r) == CallTake(r) \/ CallBegin(r) \/ CallEnd(r) \/ Release(r)
Drop(r) == DropTake(r) \/ DropBegin(r) \/ DropEnd(r)

\* Everything submitted has been executed and the strand is destroyed.
Finished ==
    /\ ~owned /\ pending = 0
    /\ \A r \in Runners : rpc[r] = "idle"

Terminating == Finished /\ UNCHANGED vars

Next ==
    \/ \E j \in Jobs : Submit(j)
    \/ \E r \in Runners : Execute(r) \/ Call(r) \/ Drop(r)
    \/ UserRelease
    \/ Terminating

Spec == Init /\ [][Next]_vars

\* Threads inside the strand's code and inside jobs go on, and the executor
\* below eventually calls or drops what it was given.
Fairness ==
    /\ \A j \in Jobs : WF_vars(SubmitCas(j)) /\ WF_vars(SubmitStrand(j))
    /\ \A r \in Runners : WF_vars(Call(r)) /\ WF_vars(Drop(r))
    /\ WF_vars(\E r \in Runners : Execute(r))

FairSpec == Spec /\ Fairness

-----------------------------------------------------------------------------
(***************************************************************************)
(* Properties.                                                             *)
(***************************************************************************)

\* Every variable keeps its type; refs in particular is never decremented below
\* zero, which would free the strand twice.
TypeOK ==
    /\ jobs \in {Mark} \cup Seq(Jobs)
    /\ pc \in [Jobs -> SubmitterStates]
    /\ expected \in [Jobs -> Jobs \cup {Mark, None}]
    /\ alive \in BOOLEAN
    /\ pending \in Nat
    /\ rpc \in [Runners -> RunnerStates]
    /\ batch \in [Runners -> Seq(Jobs)]
    /\ refs \in Nat
    /\ owned \in BOOLEAN
    /\ called \subseteq Jobs

\* The strand is an intrusive job: while it is queued in the executor below it
\* must not be submitted again, neither by a second submitter nor by Call.
QueuedOnce ==
    /\ pending <= 1
    /\ pending = 1 => \A r \in Runners : rpc[r] \notin {"call", "next", "calling", "release"}

\* Whoever works on the strand holds a reference to it, and the last reference
\* goes only when the strand is idle (the check in ~Strand).
AliveWhileUsed ==
    /\ (pending > 0 \/ \E r \in Runners : rpc[r] # "idle") => refs > 0
    /\ (\E j \in Jobs : pc[j] \in {"cas", "won"}) => refs > 0
    /\ refs = 0 => jobs = Mark

\* What keeps the intrusive job sound: it is in the executor once, and alive.
StrandJobSound == QueuedOnce /\ AliveWhileUsed

\* Every job that was pushed is called or dropped: none is left behind between
\* the last batch of Call and the strand going idle.
EveryJobFinishes == \A j \in Jobs : pc[j] \in {"won", "done"} ~> j \in called

\* The stack a runner has taken in Drop, and what it has left of it.
Dropping(r) == rpc[r] \in {"dropnext", "dropping"}

\* The jobs of a sequence that have not been taken by Drop: the abstract queue
\* is what remains of the batch in Call, then the stack from its bottom.
CallBatch ==
    IF \E r \in Runners : rpc[r] \in {"next", "calling"}
    THEN batch[CHOOSE r \in Runners : rpc[r] \in {"next", "calling"}]
    ELSE <<>>

CallingNow == \E r \in Runners : rpc[r] = "calling"

Serial == INSTANCE SerialExecutor WITH
    queue <- (IF CallingNow THEN Tail(CallBatch) ELSE CallBatch)
             \o (IF jobs = Mark THEN <<>> ELSE Reverse(jobs)),
    running <- IF CallingNow THEN Head(CallBatch) ELSE None,
    dropping <- UNION {ToSet(batch[r]) : r \in {r \in Runners : Dropping(r)}},
    finished <- called

\* The strand implements the serial executor: calls do not overlap, they start
\* in the order of the pushes, and a refusal drops exactly what is queued.
ImplementsSerialExecutor == Serial!Spec
=============================================================================
