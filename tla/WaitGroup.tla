----------------------------- MODULE WaitGroup -----------------------------
(***************************************************************************)
(* algo/one_shot_event and algo/wait_group.                                *)
(*                                                                         *)
(* A OneShotEvent keeps its waiters in a lock-free stack that Set takes    *)
(* and closes and Call only takes; both then call the jobs they took.  The *)
(* job of a waiter is on its stack, in its coroutine's frame or, for a     *)
(* timed wait, on the heap with two references.  A WaitGroup counts        *)
(* operations that are not done; futures can be attached or consumed, and  *)
(* are then done when they have their result.  The count that reaches zero *)
(* sets the event.                                                         *)
(*                                                                         *)
(* The group starts with one operation, which its owner calls Done for     *)
(* when every batch of futures is inserted: Add may meet Wait only while   *)
(* something is not done yet.  A step is one atomic access.  Definitions   *)
(* named X_Word are faulty variants of X that show that the properties can *)
(* fail; the specification does not use them.                              *)
(***************************************************************************)
EXTENDS Integers, Sequences, FiniteSets, SequencesExt

CONSTANTS
    Waiters,   \* threads and coroutines that wait
    Futures,
    BatchOf,   \* future -> the batch, one Consume or Attach call, it is in
    Rounds,    \* bound on the uses of the group, with a Reset between two
    AllDone,   \* kAllDone
    None

Batches == {BatchOf[f] : f \in Futures}
BatchSize(b) == Cardinality({f \in Futures : BatchOf[f] = b})
Kinds == {"Wait", "WaitFor", "AwaitInline", "AwaitSticky", "AwaitOn"}

ASSUME ConstantsAssumption ==
    /\ Rounds \in Nat \ {0}
    /\ IsFiniteSet(Futures)
    /\ AllDone \notin Seq(Waiters) /\ None \notin Waiters

VARIABLES
    group,    \* a WaitGroup, or a OneShotEvent on its own
    kind,     \* waiter -> how it waits
    consume,  \* batches that are consumed; the others are attached
    head,     \* _head: AllDone or the stack of jobs
    walk,     \* SetImpl: the jobs it still has
    job,      \* SetImpl: the job whose next it has read and that it will call
    pc,       \* waiter -> where it is
    flag,     \* waiters whose event is set
    refs,     \* waiter -> references to its TimedWaiter
    ret,      \* waiter -> what the wait returned
    count,    \* the group's counter
    zero,     \* somebody has counted to zero and will set the event
    at,       \* future -> where its callback is
    fref,     \* future -> its core's reference the group may have to drop
    ready,    \* futures with a result
    batch,    \* batch -> "idle", "insert", "done", or after its last SetCallback
    owner,    \* the owner's operation is not done yet
    round

conf == <<group, kind, consume>>
event == <<head, walk, job, flag, refs, ret, pc>>
futures == <<at, fref, ready, batch>>
vars == <<conf, event, count, zero, futures, owner, round>>

Init ==
    /\ group \in BOOLEAN
    /\ kind \in [Waiters -> Kinds]
    /\ consume \in IF group THEN SUBSET Batches ELSE {{}}
    /\ head = <<>> /\ walk = <<>> /\ job = None
    /\ pc = [w \in Waiters |-> "idle"]
    /\ flag = {}
    /\ refs = [w \in Waiters |-> 0]
    /\ ret = [w \in Waiters |-> None]
    /\ count = 1 /\ zero = FALSE
    /\ at = [f \in Futures |-> "idle"]
    /\ fref = [f \in Futures |-> 1]
    /\ ready = {}
    /\ batch = [b \in Batches |-> IF group THEN "idle" ELSE "done"]
    /\ owner = TRUE
    /\ round = 1

-----------------------------------------------------------------------------
(* OneShotEvent.                                                           *)

TryAdd(w) == head' = IF head = AllDone THEN head ELSE <<w>> \o head

Begin_OneRef(w) ==
    /\ pc[w] = "idle"
    /\ refs' = [refs EXCEPT ![w] = IF kind[w] = "WaitFor" THEN 1 ELSE 0]
    /\ pc' = [pc EXCEPT ![w] = "add"]
    /\ UNCHANGED <<conf, head, walk, job, flag, ret, count, zero, futures, owner, round>>

\* Wait, TimedWait and the awaiters; Ready first for inline and sticky
Begin(w) ==
    /\ pc[w] = "idle"
    /\ refs' = [refs EXCEPT ![w] = IF kind[w] = "WaitFor" THEN 2 ELSE 0]
    /\ pc' = [pc EXCEPT ![w] = IF kind[w] \in {"AwaitInline", "AwaitSticky"} /\ head = AllDone
                                 THEN "done" ELSE "add"]
    /\ ret' = [ret EXCEPT ![w] = IF pc'[w] = "done" THEN TRUE ELSE None]
    /\ UNCHANGED <<conf, head, walk, job, flag, count, zero, futures, owner, round>>

\* what becomes of a waiter whose TryAdd failed: AwaitOn goes to its executor,
\* TimedWait deletes its job
Add(w) ==
    /\ pc[w] = "add"
    /\ TryAdd(w)
    /\ IF head # AllDone
         THEN pc' = [pc EXCEPT ![w] = "waiting"] /\ UNCHANGED <<refs, ret>>
         ELSE /\ pc' = [pc EXCEPT ![w] = IF kind[w] = "AwaitOn" THEN "submitted" ELSE "done"]
              /\ ret' = [ret EXCEPT ![w] = IF kind[w] = "AwaitOn" THEN None ELSE TRUE]
              /\ refs' = [refs EXCEPT ![w] = 0]
    /\ UNCHANGED <<conf, walk, job, flag, count, zero, futures, owner, round>>

\* a thread sees its event set, or an executor runs the coroutine
Resume(w) ==
    /\ \/ pc[w] = "waiting" /\ w \in flag
       \/ pc[w] = "submitted"
    /\ pc' = [pc EXCEPT ![w] = "done"]
    /\ ret' = [ret EXCEPT ![w] = TRUE]
    /\ refs' = [refs EXCEPT ![w] = IF kind[w] = "WaitFor" THEN @ - 1 ELSE @]
    /\ UNCHANGED <<conf, head, walk, job, flag, count, zero, futures, owner, round>>

Timeout(w) ==
    /\ pc[w] = "waiting" /\ kind[w] = "WaitFor" /\ w \notin flag
    /\ pc' = [pc EXCEPT ![w] = "done"]
    /\ ret' = [ret EXCEPT ![w] = FALSE]
    /\ refs' = [refs EXCEPT ![w] = @ - 1]
    /\ UNCHANGED <<conf, head, walk, job, flag, count, zero, futures, owner, round>>

Taken == IF head = AllDone THEN <<>> ELSE head

Set_Empty ==
    /\ zero /\ walk = <<>> /\ job = None
    /\ head' = <<>> /\ walk' = Taken
    /\ zero' = FALSE
    /\ UNCHANGED <<conf, job, flag, refs, ret, pc, count, futures, owner, round>>

\* Set by whoever counted to zero, or by the owner of a lone event
Set ==
    /\ zero /\ walk = <<>> /\ job = None
    /\ head' = AllDone /\ walk' = Taken
    /\ zero' = FALSE
    /\ UNCHANGED <<conf, job, flag, refs, ret, pc, count, futures, owner, round>>

\* Call wakes the waiters there are and leaves the event open
Call ==
    /\ ~group /\ owner /\ walk = <<>> /\ job = None
    /\ head' = <<>> /\ walk' = Taken
    /\ UNCHANGED <<conf, job, flag, refs, ret, pc, count, zero, futures, owner, round>>

\* SetImpl reads the job's next ...
ReadNext ==
    /\ walk # <<>> /\ job = None
    /\ job' = Head(walk) /\ walk' = Tail(walk)
    /\ UNCHANGED <<conf, head, flag, refs, ret, pc, count, zero, futures, owner, round>>

\* ... and then calls it: Waiter and TimedWaiter set their event, an inline
\* awaiter's coroutine runs here, the others are submitted.  The TimedWaiter
\* drops a reference afterwards
CallJob(w) ==
    /\ job = w
    /\ CASE w \in flag -> UNCHANGED <<flag, pc, ret>>
         [] w \notin flag /\ kind[w] \in {"Wait", "WaitFor"} -> flag' = flag \cup {w} /\ UNCHANGED <<pc, ret>>
         [] w \notin flag /\ kind[w] = "AwaitInline" ->
              pc' = [pc EXCEPT ![w] = "done"] /\ ret' = [ret EXCEPT ![w] = TRUE] /\ UNCHANGED flag
         [] OTHER -> pc' = [pc EXCEPT ![w] = "submitted"] /\ UNCHANGED <<ret, flag>>
    /\ IF kind[w] = "WaitFor" /\ w \notin flag
         THEN UNCHANGED <<job, refs>>
         ELSE job' = None /\ refs' = [refs EXCEPT ![w] = IF kind[w] = "WaitFor" THEN @ - 1 ELSE @]
    /\ UNCHANGED <<conf, head, walk, count, zero, futures, owner, round>>

-----------------------------------------------------------------------------
(* WaitGroup.                                                              *)

\* Sub: the one that reaches zero sets the event
Sub(k) == count' = count - k /\ zero' = (zero \/ count = k)

\* InsertRange: Add, before a callback can be called
AddBatch(b) ==
    /\ batch[b] = "idle"
    /\ batch' = [batch EXCEPT ![b] = "insert"]
    /\ count' = count + BatchSize(b)
    /\ UNCHANGED <<conf, event, zero, at, fref, ready, owner, round>>

\* SetCallback on a future of the batch; one that has its result is not
\* attached, and a consumed one is released at once
Insert(f) ==
    /\ batch[BatchOf[f]] = "insert" /\ at[f] = "idle"
    /\ IF f \in ready
         THEN /\ at' = [at EXCEPT ![f] = "skipped"]
              /\ fref' = [fref EXCEPT ![f] = IF BatchOf[f] \in consume THEN @ - 1 ELSE @]
         ELSE at' = [at EXCEPT ![f] = "attached"] /\ UNCHANGED fref
    /\ UNCHANGED <<conf, event, count, zero, ready, batch, owner, round>>

\* Done for the futures that were not attached
DoneBatch(b) ==
    LET fs == {f \in Futures : BatchOf[f] = b}
        skipped == Cardinality({f \in fs : at[f] = "skipped"})
    IN /\ batch[b] = "insert" /\ \A f \in fs : at[f] # "idle"
       /\ batch' = [batch EXCEPT ![b] = "done"]
       /\ IF skipped = 0 THEN UNCHANGED <<count, zero>> ELSE Sub(skipped)
       /\ UNCHANGED <<conf, event, at, fref, ready, owner, round>>

Fulfil(f) ==
    /\ group /\ f \notin ready
    /\ ready' = ready \cup {f}
    /\ at' = [at EXCEPT ![f] = IF @ = "attached" THEN "called" ELSE @]
    /\ UNCHANGED <<conf, event, count, zero, fref, batch, owner, round>>

Callback_Swapped(f) ==
    /\ \/ /\ at[f] = "called"
          /\ Sub(1)
          /\ at' = [at EXCEPT ![f] = IF BatchOf[f] \in consume THEN "dropped" ELSE "done"]
          /\ UNCHANGED fref
       \/ /\ at[f] = "dropped"
          /\ fref' = [fref EXCEPT ![f] = @ - 1]
          /\ at' = [at EXCEPT ![f] = "done"]
          /\ UNCHANGED <<count, zero>>
    /\ UNCHANGED <<conf, event, ready, batch, owner, round>>

\* DropCallback releases the core before it is done, CallCallback does not
Callback(f) ==
    /\ \/ /\ at[f] = "called" /\ BatchOf[f] \in consume
          /\ fref' = [fref EXCEPT ![f] = @ - 1]
          /\ at' = [at EXCEPT ![f] = "dropped"]
          /\ UNCHANGED <<count, zero>>
       \/ /\ at[f] = IF BatchOf[f] \in consume THEN "dropped" ELSE "called"
          /\ Sub(1)
          /\ at' = [at EXCEPT ![f] = "done"]
          /\ UNCHANGED fref
    /\ UNCHANGED <<conf, event, ready, batch, owner, round>>

\* Done of the owner's own operation; the owner of a lone event calls Set
Done ==
    /\ owner /\ \A b \in Batches : batch[b] = "done"
    /\ ~group => walk = <<>> /\ job = None
    /\ owner' = FALSE
    /\ Sub(1)
    /\ UNCHANGED <<conf, event, futures, round>>

\* Reset, not thread-safe: nobody waits, and nobody walks the list
Reset ==
    /\ round < Rounds /\ ~owner /\ ~zero /\ head = AllDone /\ walk = <<>> /\ job = None
    /\ \A w \in Waiters : pc[w] = "done"
    /\ round' = round + 1
    /\ head' = <<>> /\ count' = 1 /\ owner' = TRUE
    /\ pc' = [w \in Waiters |-> "idle"]
    /\ flag' = {}
    /\ UNCHANGED <<conf, walk, job, refs, ret, zero, futures>>

SetterStep == Set \/ ReadNext \/ \E w \in Waiters : CallJob(w)
WaiterStep(w) == Add(w) \/ Resume(w)

Next ==
    \/ SetterStep \/ Call \/ Done \/ Reset
    \/ \E w \in Waiters : Begin(w) \/ WaiterStep(w) \/ Timeout(w)
    \/ \E b \in Batches : AddBatch(b) \/ DoneBatch(b)
    \/ \E f \in Futures : Insert(f) \/ Fulfil(f) \/ Callback(f)

\* threads go on; nobody has to start waiting, to fulfil a future or to be done
Spec ==
    /\ Init /\ [][Next]_vars
    /\ WF_vars(SetterStep) /\ \A w \in Waiters : WF_vars(WaiterStep(w))
    /\ \A f \in Futures : WF_vars(Callback(f))

-----------------------------------------------------------------------------
(* Properties.                                                             *)

\* the memory a job lives in: a stack, a coroutine's frame, or the heap
JobLives(w) == IF kind[w] = "WaitFor" THEN refs[w] > 0 ELSE pc[w] = "waiting"

\* Every job SetImpl still has to read or to call, and every job in the stack,
\* is alive, even though each call lets a waiter return, and a timed waiter may
\* leave at any time; no job is there twice, and Set never takes kAllDone for a
\* job (one_shot_event.cpp SetImpl, TimedWaiter::Call, TimedWait)
JobsAlive ==
    LET todo == walk \o Taken
    IN /\ \A k \in DOMAIN todo : JobLives(todo[k])
       /\ job # None => JobLives(job)
       /\ IsInjective(todo)
       /\ \A w \in Waiters : refs[w] >= 0
       /\ zero => head # AllDone

\* A wait on the group that says yes comes after every operation: all inserted
\* futures have their results and the consumed ones have been released
\* (InsertRange, DropCallback::Impl, Done)
WaitedForAll ==
    group /\ round = 1 /\ (\E w \in Waiters : pc[w] = "done" /\ ret[w]) =>
        /\ ~owner
        /\ \A f \in Futures : f \in ready /\ (BatchOf[f] \in consume <=> fref[f] = 0)

\* When the event is set, or the last operation is done, every waiter returns,
\* and no TimedWaiter is leaked
WaitersLeave ==
    \A w \in Waiters :
        (pc[w] = "waiting" /\ ~owner /\ (group => Futures \subseteq ready))
            ~> (pc[w] # "waiting" /\ refs[w] = 0)
=============================================================================
