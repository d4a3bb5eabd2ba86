------------------------ MODULE FairThreadPool_proofs ------------------------
(***************************************************************************)
(* The thread pool forgets no sleeper and no job and does not stop early,  *)
(* for any finite sets of workers, jobs and stopping threads.              *)
(*                                                                         *)
(* Two counts carry the argument: _jobs_count is at least the number of    *)
(* queued jobs and of workers that have not subtracted theirs yet, so that *)
(* NoJobs() means what SoftStop needs; and while somebody sleeps, queued   *)
(* jobs are outnumbered by the notifications that are still to come and    *)
(* the workers that have been woken.                                       *)
(***************************************************************************)
EXTENDS FairThreadPool, SequenceLemmas, FiniteSetTheorems, TLAPS

\* Workers whose job is still counted.
Working == {w \in Workers : pc[w] \in {"call", "back"}}

\* HardStop leaves its jobs in _jobs_count, so that it is not exact.
CountCovers == count >= Len(jobs) + Cardinality(Working)

\* Who has which job.
Holders ==
    /\ IsInjective(jobs)
    /\ \A w \in Workers : pc[w] = "call" => cur[w] \in Jobs
    /\ \A w, v \in Workers : pc[w] = "call" /\ pc[v] = "call" /\ cur[w] = cur[v] => w = v
    /\ \A s \in Stoppers : taken[s] # <<>> => spc[s] \in {"notify", "drop"}
    /\ \A s, t \in Stoppers : s # t => ToSet(taken[s]) \cap ToSet(taken[t]) = {}

\* The places of OnePlacePerJob exclude each other.
InTaken(j) == \E s \in Stoppers : j \in ToSet(taken[s])

Places ==
    /\ \A j \in Jobs : status[j] = "accepted" <=> (j \in ToSet(jobs) \/ Called(j) \/ InTaken(j))
    /\ \A j \in Jobs : /\ ~(j \in ToSet(jobs) /\ Called(j))
                       /\ ~(j \in ToSet(jobs) /\ InTaken(j))
                       /\ ~(Called(j) /\ InTaken(j))

\* A Submit that still has to notify has submitted.
WakeSubmitted == \A j \in wake : status[j] # "new"

\* A worker leaves when the pool is stopped and the queue empty, for good.
LeftEmpty == (\E w \in Workers : pc[w] \in {"last", "done"}) => wasStop /\ jobs = <<>>

\* The inductive invariant.
Inv ==
    /\ TypeOK
    /\ CountCovers
    /\ Holders
    /\ Places
    /\ WakeSubmitted
    /\ LeftEmpty
    /\ NoLostWakeUp
    /\ NoSleeperAfterStop
    /\ SoftStopWaits

USE DEF Inv

-----------------------------------------------------------------------------
(***************************************************************************)
(* Sets of workers and of jobs, and the queue.                             *)
(***************************************************************************)

\* Everything that is counted is finite.
LEMMA Sizes ==
    /\ \A S \in SUBSET Workers : IsFiniteSet(S) /\ Cardinality(S) \in Nat
    /\ \A S \in SUBSET Jobs : IsFiniteSet(S) /\ Cardinality(S) \in Nat
    /\ Working \in SUBSET Workers /\ Working' \in SUBSET Workers
    /\ Arriving \in SUBSET Workers /\ Arriving' \in SUBSET Workers
<1>1. \A S \in SUBSET Workers : IsFiniteSet(S) /\ Cardinality(S) \in Nat
  BY ConstantsAssumption, FS_Subset, FS_CardinalityType
<1>2. \A S \in SUBSET Jobs : IsFiniteSet(S) /\ Cardinality(S) \in Nat
  BY ConstantsAssumption, FS_Subset, FS_CardinalityType
<1> QED
  BY <1>1, <1>2 DEF Working, Arriving

\* One worker more or less.
LEMMA OneWorker ==
    ASSUME NEW S \in SUBSET Workers, NEW w \in Workers
    PROVE  /\ w \notin S => Cardinality(S \cup {w}) = Cardinality(S) + 1
           /\ w \in S => Cardinality(S \ {w}) = Cardinality(S) - 1 /\ Cardinality(S) >= 1
<1>1. IsFiniteSet(S) /\ Cardinality(S) \in Nat
  BY Sizes
<1>2. w \in S => Cardinality(S) # 0
  BY <1>1, FS_EmptySet
<1>3. w \notin S => Cardinality(S \cup {w}) = Cardinality(S) + 1
  BY <1>1, FS_AddElement
<1>4. w \in S => Cardinality(S \ {w}) = Cardinality(S) - 1
  BY <1>1, FS_RemoveElement
<1> QED
  BY <1>1, <1>2, <1>3, <1>4

\* One job more or less.
LEMMA OneJob ==
    ASSUME NEW S \in SUBSET Jobs, NEW j \in Jobs
    PROVE  /\ j \notin S => Cardinality(S \cup {j}) = Cardinality(S) + 1
           /\ j \in S => Cardinality(S \ {j}) = Cardinality(S) - 1 /\ Cardinality(S) >= 1
<1>1. IsFiniteSet(S) /\ Cardinality(S) \in Nat
  BY Sizes
<1>2. j \in S => Cardinality(S) # 0
  BY <1>1, FS_EmptySet
<1>3. j \notin S => Cardinality(S \cup {j}) = Cardinality(S) + 1
  BY <1>1, FS_AddElement
<1>4. j \in S => Cardinality(S \ {j}) = Cardinality(S) - 1
  BY <1>1, FS_RemoveElement
<1> QED
  BY <1>1, <1>2, <1>3, <1>4

\* Larger sets are not smaller.
LEMMA MoreWorkers ==
    ASSUME NEW S \in SUBSET Workers, NEW T \in SUBSET S
    PROVE  Cardinality(T) <= Cardinality(S)
BY Sizes, FS_Subset

\* The length of the queue.
LEMMA QueueType ==
    ASSUME TypeOK
    PROVE  Len(jobs) \in Nat /\ (jobs = <<>> <=> Len(jobs) = 0) /\ ToSet(jobs) \subseteq Jobs
BY ListElements DEF TypeOK

-----------------------------------------------------------------------------
(***************************************************************************)
(* Every action preserves Inv.                                             *)
(***************************************************************************)

\* A step that moves no job keeps every job's holder.
LEMMA HoldersKept ==
    ASSUME Inv, UNCHANGED <<jobs, cur, taken>>,
           \A w \in Workers : pc'[w] = "call" <=> pc[w] = "call",
           \A s \in Stoppers : spc[s] \in {"notify", "drop"} /\ taken[s] # <<>> => spc'[s] \in {"notify", "drop"}
    PROVE  Holders'
<1>1. ASSUME NEW s \in Stoppers, taken'[s] # <<>> PROVE spc'[s] \in {"notify", "drop"}
  BY <1>1 DEF Holders
<1> QED
  BY <1>1 DEF Holders

\* A step that moves no job keeps every job's place.
LEMMA PlacesKept ==
    ASSUME Inv, UNCHANGED <<jobs, cur, taken, status>>,
           \A w \in Workers : pc'[w] = "call" <=> pc[w] = "call"
    PROVE  Places'
<1>1. \A j \in Jobs : (Called(j)' <=> Called(j)) /\ (InTaken(j)' <=> InTaken(j))
  BY DEF Called, InTaken
<1> QED
  BY <1>1 DEF Places

\* Submit pushes the job, or drops it.
LEMMA SubmitInv ==
    ASSUME Inv, NEW j \in Jobs, Submit(j)
    PROVE  Inv'
<1>0. /\ status[j] = "new"
      /\ UNCHANGED <<wantStop, wasStop, pc, cur, spc, taken, forced>>
  BY DEF Submit, workerVars, stopVars
<1>a. /\ \A k \in Jobs : (Called(k)' <=> Called(k)) /\ (InTaken(k)' <=> InTaken(k))
      /\ Working' = Working /\ Arriving' = Arriving
  BY <1>0 DEF Called, InTaken, Working, Arriving
<1>b. j \notin ToSet(jobs) /\ ~Called(j) /\ ~InTaken(j) /\ j \notin wake
  BY <1>0 DEF Places, WakeSubmitted
<1>1. CASE wasStop
  <2>0. status' = [status EXCEPT ![j] = "dropped"] /\ UNCHANGED <<jobs, count, wake>>
    BY <1>1 DEF Submit
  <2>1. TypeOK'
    BY <1>0, <2>0 DEF TypeOK
  <2>2. CountCovers' /\ LeftEmpty' /\ NoLostWakeUp' /\ NoSleeperAfterStop' /\ SoftStopWaits'
    BY <1>0, <1>a, <2>0 DEF CountCovers, LeftEmpty, NoLostWakeUp, NoSleeperAfterStop, SoftStopWaits
  <2>3. Holders'
    BY <1>0, <2>0, HoldersKept
  <2>4. Places' /\ WakeSubmitted'
    BY <1>a, <1>b, <2>0 DEF Places, WakeSubmitted, TypeOK
  <2> QED
    BY <2>1, <2>2, <2>3, <2>4
<1>2. CASE ~wasStop
  <2>0. /\ status' = [status EXCEPT ![j] = "accepted"]
        /\ jobs' = Append(jobs, j) /\ count' = count + 1 /\ wake' = wake \cup {j}
    BY <1>2 DEF Submit
  <2>a. /\ jobs' \in Seq(Jobs) /\ Len(jobs') = Len(jobs) + 1
        /\ ToSet(jobs') = ToSet(jobs) \cup {j} /\ IsInjective(jobs')
    BY <1>b, <2>0, ListAppend DEF TypeOK, Holders
  <2>b. Cardinality(wake') = Cardinality(wake) + 1
    BY <1>b, <2>0, OneJob DEF TypeOK
  <2>1. TypeOK'
    BY <1>0, <2>0, <2>a DEF TypeOK
  <2>2. CountCovers' /\ NoLostWakeUp'
    <3>1. Len(jobs) \in Nat /\ Cardinality(Working) \in Nat /\ Cardinality(Arriving) \in Nat
          /\ Cardinality(wake) \in Nat /\ count \in Nat
      BY QueueType, Sizes DEF TypeOK
    <3>2. CountCovers'
      BY <1>a, <2>0, <2>a, <3>1 DEF CountCovers
    <3>3. NoLostWakeUp'
      BY <1>0, <1>a, <2>a, <2>b, <3>1 DEF NoLostWakeUp
    <3> QED
      BY <3>2, <3>3
  <2>3. LeftEmpty' /\ NoSleeperAfterStop' /\ SoftStopWaits'
    BY <1>0, <1>2 DEF LeftEmpty, NoSleeperAfterStop, SoftStopWaits
  <2>4. Holders'
    BY <1>0, <2>a DEF Holders
  <2>5. Places' /\ WakeSubmitted'
    BY <1>a, <1>b, <2>0, <2>a DEF Places, WakeSubmitted, TypeOK
  <2> QED
    BY <2>1, <2>2, <2>3, <2>4, <2>5
<1> QED
  BY <1>1, <1>2

\* A worker that was asleep has been woken; every notification ends like this.
LEMMA WokenKeeps ==
    ASSUME Inv, pc' \in [Workers -> WorkerStates],
           \A w \in Workers : pc'[w] = pc[w] \/ (pc[w] = "idle" /\ pc'[w] = "woken"),
           UNCHANGED <<jobs, count, wantStop, wasStop, cur, status, taken, forced>>
    PROVE  /\ CountCovers' /\ Places' /\ LeftEmpty' /\ SoftStopWaits'
           /\ \A w \in Workers : pc'[w] = "call" <=> pc[w] = "call"
           /\ Arriving \subseteq Arriving'
<1>1. \A w \in Workers : (pc'[w] = "call" <=> pc[w] = "call") /\ (pc'[w] = "back" <=> pc[w] = "back")
                         /\ (pc'[w] \in {"last", "done"} <=> pc[w] \in {"last", "done"})
  OBVIOUS
<1>2. Working' = Working
  BY <1>1 DEF Working
<1>3. CountCovers' /\ LeftEmpty' /\ SoftStopWaits'
  BY <1>1, <1>2 DEF CountCovers, LeftEmpty, SoftStopWaits
<1>4. Places'
  BY <1>1, PlacesKept
<1> QED
  BY <1>1, <1>3, <1>4 DEF Arriving

\* notify_one.
LEMMA SubmitNotifyInv ==
    ASSUME Inv, NEW j \in Jobs, SubmitNotify(j)
    PROVE  Inv'
<1>0. /\ j \in wake /\ wake' = wake \ {j}
      /\ UNCHANGED <<jobs, count, wantStop, wasStop, cur, status, spc, taken, forced>>
  BY DEF SubmitNotify, poolVars, stopVars
<1>a. pc' \in [Workers -> WorkerStates]
  BY DEF SubmitNotify, TypeOK, WorkerStates
<1>b. \A w \in Workers : pc'[w] = pc[w] \/ (pc[w] = "idle" /\ pc'[w] = "woken")
  BY DEF SubmitNotify, TypeOK
<1>1. TypeOK'
  BY <1>0, <1>a DEF TypeOK
<1>2. /\ CountCovers' /\ Places' /\ LeftEmpty' /\ SoftStopWaits'
      /\ \A w \in Workers : pc'[w] = "call" <=> pc[w] = "call"
  BY <1>0, <1>a, <1>b, WokenKeeps
<1>3. Holders'
  BY <1>0, <1>2, HoldersKept
<1>4. WakeSubmitted'
  BY <1>0 DEF WakeSubmitted
<1>5. NoSleeperAfterStop'
  BY <1>0, <1>b DEF NoSleeperAfterStop
<1>6. NoLostWakeUp'
  <2>1. /\ Cardinality(wake) \in Nat /\ Cardinality(Arriving) \in Nat /\ Len(jobs) \in Nat
        /\ Cardinality(wake') = Cardinality(wake) - 1
    BY <1>0, QueueType, Sizes, OneJob DEF TypeOK
  <2>2. ASSUME NEW w \in Workers, pc[w] = "idle", pc' = [pc EXCEPT ![w] = "woken"]
        PROVE  NoLostWakeUp'
    <3>1. Arriving' = Arriving \cup {w} /\ w \notin Arriving
      BY <2>2 DEF Arriving, TypeOK
    <3>2. Cardinality(Arriving') = Cardinality(Arriving) + 1
      BY <3>1, Sizes, OneWorker
    <3> QED
      BY <1>0, <2>1, <2>2, <3>2 DEF NoLostWakeUp
  <2>3. ASSUME \A w \in Workers : pc[w] # "idle", UNCHANGED pc
        PROVE  NoLostWakeUp'
    BY <2>3 DEF NoLostWakeUp
  <2> QED
    BY <2>2, <2>3 DEF SubmitNotify
<1> QED
  BY <1>1, <1>2, <1>3, <1>4, <1>5, <1>6

\* A spurious wake-up.
LEMMA SpuriousInv ==
    ASSUME Inv, NEW w \in Workers, SpuriousWakeUp(w)
    PROVE  Inv'
<1>0. /\ pc[w] = "idle" /\ pc' = [pc EXCEPT ![w] = "woken"]
      /\ UNCHANGED <<jobs, count, wantStop, wasStop, cur, status, wake, spc, taken, forced>>
  BY DEF SpuriousWakeUp, poolVars, stopVars
<1>a. /\ pc' \in [Workers -> WorkerStates]
      /\ \A v \in Workers : pc'[v] = pc[v] \/ (pc[v] = "idle" /\ pc'[v] = "woken")
  BY <1>0 DEF TypeOK, WorkerStates
<1>1. TypeOK'
  BY <1>0, <1>a DEF TypeOK
<1>2. /\ CountCovers' /\ Places' /\ LeftEmpty' /\ SoftStopWaits' /\ Arriving \subseteq Arriving'
      /\ \A v \in Workers : pc'[v] = "call" <=> pc[v] = "call"
  BY <1>0, <1>a, WokenKeeps
<1>3. Holders' /\ WakeSubmitted'
  BY <1>0, <1>2, HoldersKept DEF WakeSubmitted
<1>4. NoSleeperAfterStop'
  BY <1>0, <1>a DEF NoSleeperAfterStop
<1>5. NoLostWakeUp'
  <2>1. /\ Cardinality(wake) \in Nat /\ Cardinality(Arriving) \in Nat /\ Len(jobs) \in Nat
        /\ Cardinality(Arriving') \in Nat /\ Cardinality(Arriving) <= Cardinality(Arriving')
    BY <1>2, QueueType, Sizes, MoreWorkers DEF TypeOK
  <2> QED
    BY <1>0, <1>a, <2>1 DEF NoLostWakeUp
<1> QED
  BY <1>1, <1>2, <1>3, <1>4, <1>5

\* A worker takes the oldest job; coming back from a call it subtracts that one.
LEMMA LoopPopInv ==
    ASSUME Inv, NEW w \in Workers, LoopPop(w)
    PROVE  Inv'
<1> DEFINE job == Head(jobs)
           rest == Tail(jobs)
<1>0. /\ Locks(w) /\ jobs # <<>> /\ pc' = [pc EXCEPT ![w] = "call"]
      /\ cur' = [cur EXCEPT ![w] = job] /\ jobs' = rest /\ count' = CountAtLock(w)
      /\ UNCHANGED <<wantStop, wasStop, status, wake, spc, taken, forced>>
  BY DEF LoopPop, stopVars
<1>a. /\ job \in Jobs /\ rest \in Seq(Jobs) /\ Len(rest) = Len(jobs) - 1
      /\ ToSet(jobs) = {job} \cup ToSet(rest)
      /\ job \notin ToSet(rest) /\ IsInjective(rest)
  BY <1>0, ListPop DEF TypeOK, Holders
<1> HIDE DEF job, rest
<1>b. /\ pc'[w] = "call" /\ cur'[w] = job /\ pc[w] \in {"start", "woken", "back"}
      /\ \A v \in Workers : v # w => pc'[v] = pc[v] /\ cur'[v] = cur[v]
  BY <1>0 DEF TypeOK, Locks
<1>c. Len(jobs) \in Nat /\ Len(jobs) # 0
  BY <1>0, QueueType
<1>d. ~Called(job) /\ ~InTaken(job)
  BY <1>a DEF Places
<1>1. count' \in Nat /\ CountCovers'
  <2>1. CASE pc[w] = "back"
    <3>1. Working' = Working /\ w \in Working
      BY <1>b, <2>1 DEF Working
    <3>2. Cardinality(Working) \in Nat /\ Cardinality(Working) >= 1 /\ count' = count - 1
      BY <1>0, <2>1, <3>1, Sizes, OneWorker DEF CountAtLock
    <3> QED
      BY <1>0, <1>a, <1>c, <3>1, <3>2 DEF CountCovers, TypeOK
  <2>2. CASE pc[w] # "back"
    <3>1. Working' = Working \cup {w} /\ w \notin Working
      BY <1>b, <2>2 DEF Working
    <3>2. Cardinality(Working') = Cardinality(Working) + 1 /\ Cardinality(Working) \in Nat
      BY <3>1, Sizes, OneWorker
    <3>3. count' = count
      BY <1>0, <2>2 DEF CountAtLock
    <3> QED
      BY <1>0, <1>a, <1>c, <3>2, <3>3 DEF CountCovers, TypeOK
  <2> QED
    BY <2>1, <2>2
<1>2. TypeOK'
  BY <1>0, <1>1, <1>a DEF TypeOK, WorkerStates
<1>3. Holders'
  <2>1. \A v \in Workers : pc'[v] = "call" => cur'[v] \in Jobs
    BY <1>a, <1>b DEF Holders
  <2>2. ASSUME NEW u \in Workers, NEW v \in Workers, pc'[u] = "call", pc'[v] = "call", cur'[u] = cur'[v]
        PROVE  u = v
    BY <1>b, <1>d, <2>2 DEF Holders, Called
  <2> QED
    BY <1>0, <1>a, <2>1, <2>2 DEF Holders
<1>4. Places'
  <2>1. \A j \in Jobs : (Called(j)' <=> Called(j) \/ j = job) /\ (InTaken(j)' <=> InTaken(j))
    BY <1>0, <1>b DEF Called, InTaken
  <2> QED
    BY <1>0, <1>a, <1>d, <2>1 DEF Places
<1>5. WakeSubmitted' /\ NoSleeperAfterStop' /\ LeftEmpty'
  BY <1>0, <1>b DEF WakeSubmitted, NoSleeperAfterStop, LeftEmpty
<1>6. SoftStopWaits'
  BY <1>0 DEF SoftStopWaits
<1>7. NoLostWakeUp'
  <2>1. Cardinality(wake) \in Nat /\ Cardinality(Arriving) \in Nat /\ Cardinality(Arriving') \in Nat
    BY Sizes DEF TypeOK
  <2>2. Cardinality(Arriving') >= Cardinality(Arriving) - 1
    <3>1. CASE pc[w] = "back"
      <4>1. Arriving' = Arriving
        BY <1>b, <3>1 DEF Arriving
      <4> QED
        BY <2>1, <4>1
    <3>2. CASE pc[w] # "back"
      <4>1. Arriving' = Arriving \ {w} /\ w \in Arriving
        BY <1>b, <3>2 DEF Arriving
      <4>2. Cardinality(Arriving') = Cardinality(Arriving) - 1
        BY <4>1, Sizes, OneWorker
      <4> QED
        BY <2>1, <4>2
    <3> QED
      BY <3>1, <3>2
  <2> QED
    BY <1>0, <1>a, <1>b, <1>c, <2>1, <2>2 DEF NoLostWakeUp
<1> QED
  BY <1>1, <1>2, <1>3, <1>4, <1>5, <1>6, <1>7

\* The job has been called; it stays in _jobs_count.
LEMMA LoopCallInv ==
    ASSUME Inv, NEW w \in Workers, LoopCall(w)
    PROVE  Inv'
<1>z. PICK job \in Jobs : job = cur[w]
  BY DEF LoopCall, Holders
<1>0. /\ pc[w] = "call" /\ pc' = [pc EXCEPT ![w] = "back"]
      /\ status' = [status EXCEPT ![job] = "called"] /\ cur' = [cur EXCEPT ![w] = None]
      /\ UNCHANGED <<jobs, count, wantStop, wasStop, wake, spc, taken, forced>>
  BY <1>z DEF LoopCall, poolVars, stopVars
<1>a. job \in Jobs /\ Called(job)
  BY <1>0, <1>z DEF Holders, Called
<1>b. \A v \in Workers : pc[v] = "call" /\ cur[v] = job => v = w
  BY <1>0, <1>z DEF Holders
<1>c. /\ pc'[w] = "back"
      /\ \A v \in Workers : v # w => pc'[v] = pc[v] /\ cur'[v] = cur[v]
  BY <1>0 DEF TypeOK
<1>d. \A k \in Jobs : k # job => cur[w] # k
  BY <1>z
<1>1. TypeOK'
  BY <1>0, <1>a DEF TypeOK, WorkerStates
<1>e. /\ status'[job] = "called"
      /\ \A k \in Jobs : k # job => status'[k] = status[k]
  BY <1>0, <1>a DEF TypeOK
<1>2. /\ Working' = Working /\ Arriving' = Arriving
      /\ \A v \in Workers : (pc'[v] = "idle" <=> pc[v] = "idle") /\ (pc'[v] = "last" <=> pc[v] = "last")
                            /\ (pc'[v] = "done" <=> pc[v] = "done") /\ (pc'[v] = "call" => pc[v] = "call")
  BY <1>0, <1>c DEF Working, Arriving
<1>3. CountCovers' /\ LeftEmpty' /\ NoLostWakeUp' /\ NoSleeperAfterStop' /\ SoftStopWaits'
  BY <1>0, <1>2 DEF CountCovers, LeftEmpty, NoLostWakeUp, NoSleeperAfterStop, SoftStopWaits
<1>4. Holders'
  BY <1>0, <1>c DEF Holders
<1>5. Places'
  <2>1. ~Called(job)' /\ \A k \in Jobs : k # job => (Called(k)' <=> Called(k))
    BY <1>0, <1>b, <1>c, <1>d DEF Called
  <2>2. \A k \in Jobs : InTaken(k)' <=> InTaken(k)
    BY <1>0 DEF InTaken
  <2>3. ~InTaken(job) /\ job \notin ToSet(jobs)
    BY <1>a DEF Places
  <2> QED
    BY <1>0, <1>a, <1>e, <2>1, <2>2, <2>3 DEF Places
<1>6. WakeSubmitted'
  BY <1>0, <1>e DEF WakeSubmitted, TypeOK
<1> QED
  BY <1>1, <1>3, <1>4, <1>5, <1>6

\* With an empty queue the worker stops the pool, leaves, or goes to sleep.
LEMMA LoopEmptyInv ==
    ASSUME Inv, NEW w \in Workers, LoopEmpty(w)
    PROVE  Inv'
<1>0. /\ Locks(w) /\ jobs = <<>> /\ count' = CountAtLock(w)
      /\ UNCHANGED <<jobs, wantStop, cur, status, wake, spc, taken, forced>>
  BY DEF LoopEmpty, stopVars
<1>a. PICK x \in {"last", "done", "idle"} :
        /\ pc' = [pc EXCEPT ![w] = x]
        /\ x = "last" => SoftStopNow(w) /\ wasStop' = TRUE
        /\ x = "done" => wasStop /\ wasStop' = wasStop
        /\ x = "idle" => ~wasStop /\ wasStop' = wasStop
  BY DEF LoopEmpty
<1>b. /\ pc'[w] = x /\ pc[w] \in {"start", "woken", "back"}
      /\ \A v \in Workers : v # w => pc'[v] = pc[v]
      /\ \A v \in Workers : pc'[v] = "call" <=> pc[v] = "call"
  BY <1>0, <1>a DEF TypeOK, Locks
<1>c. Len(jobs) = 0
  BY <1>0
<1>d. wasStop' \in BOOLEAN
  BY <1>a DEF TypeOK
<1>1. count' \in Nat /\ CountCovers'
  <2>1. CASE pc[w] = "back"
    <3>1. Working' = Working \ {w} /\ w \in Working
      BY <1>b, <2>1 DEF Working
    <3>2. /\ Cardinality(Working') = Cardinality(Working) - 1
          /\ Cardinality(Working) \in Nat /\ Cardinality(Working) >= 1 /\ count' = count - 1
      BY <1>0, <2>1, <3>1, Sizes, OneWorker DEF CountAtLock
    <3> QED
      BY <1>0, <1>c, <3>2 DEF CountCovers, TypeOK
  <2>2. CASE pc[w] # "back"
    <3>1. Working' = Working
      BY <1>b, <2>2 DEF Working
    <3>2. count' = count
      BY <1>0, <2>2 DEF CountAtLock
    <3> QED
      BY <1>0, <3>1, <3>2 DEF CountCovers, TypeOK
  <2> QED
    BY <2>1, <2>2
<1>2. TypeOK'
  BY <1>0, <1>1, <1>a, <1>d DEF TypeOK, WorkerStates
<1>3. Holders' /\ Places' /\ WakeSubmitted'
  BY <1>0, <1>b, HoldersKept, PlacesKept DEF WakeSubmitted
<1>4. LeftEmpty'
  <2>1. CASE x = "last"
    BY <1>0, <1>a, <2>1 DEF LeftEmpty
  <2>2. CASE x = "done"
    BY <1>0, <1>a, <2>2 DEF LeftEmpty
  <2>3. CASE x = "idle"
    BY <1>0, <1>a, <1>b, <2>3 DEF LeftEmpty
  <2> QED
    BY <2>1, <2>2, <2>3
<1>5. NoLostWakeUp'
  <2>1. Cardinality(wake) \in Nat /\ Cardinality(Arriving') \in Nat
    BY Sizes DEF TypeOK
  <2> QED
    BY <1>0, <1>c, <2>1 DEF NoLostWakeUp
<1>6. NoSleeperAfterStop'
  <2>1. CASE x = "last"
    BY <1>b, <2>1 DEF NoSleeperAfterStop
  <2>2. CASE x = "done"
    BY <1>0, <1>a, <1>b, <2>2 DEF NoSleeperAfterStop
  <2>3. CASE x = "idle"
    BY <1>a, <2>3 DEF NoSleeperAfterStop
  <2> QED
    BY <2>1, <2>2, <2>3
<1>7. SoftStopWaits'
  <2>1. CASE x = "last"
    <3>1. count' = 0
      BY <1>0, <1>a, <2>1 DEF SoftStopNow
    <3>2. Working' = {}
      <4>1. IsFiniteSet(Working') /\ Cardinality(Working') \in Nat
        BY Sizes
      <4>2. Cardinality(Working') = 0
        BY <1>0, <1>1, <1>c, <3>1, <4>1 DEF CountCovers
      <4> QED
        BY <4>1, <4>2, FS_EmptySet
    <3> QED
      BY <1>0, <3>2 DEF SoftStopWaits, Working
  <2>2. CASE x # "last"
    <3>1. wasStop' = wasStop
      BY <1>a, <2>2
    <3> QED
      BY <1>0, <1>b, <3>1 DEF SoftStopWaits
  <2> QED
    BY <2>1, <2>2
<1> QED
  BY <1>1, <1>2, <1>3, <1>4, <1>5, <1>6, <1>7

\* The worker that stopped the pool wakes the others.
LEMMA LoopNotifyInv ==
    ASSUME Inv, NEW w \in Workers, LoopNotify(w)
    PROVE  Inv'
<1>0. /\ pc[w] = "last"
      /\ pc' = [v \in Workers |-> IF v = w THEN "done" ELSE IF pc[v] = "idle" THEN "woken" ELSE pc[v]]
      /\ UNCHANGED <<jobs, count, wantStop, wasStop, cur, status, wake, spc, taken, forced>>
  BY DEF LoopNotify, poolVars, stopVars
<1>1. TypeOK'
  BY <1>0 DEF TypeOK, WorkerStates
<1>2. \A v \in Workers : /\ pc'[v] = "call" <=> pc[v] = "call"
                         /\ pc'[v] = "back" <=> pc[v] = "back"
                         /\ pc'[v] # "idle"
  BY <1>0
<1>3. Working' = Working
  BY <1>2 DEF Working
<1>4. CountCovers' /\ LeftEmpty' /\ NoLostWakeUp' /\ NoSleeperAfterStop' /\ SoftStopWaits'
  BY <1>0, <1>2, <1>3 DEF CountCovers, LeftEmpty, NoLostWakeUp, NoSleeperAfterStop, SoftStopWaits
<1>5. Holders' /\ Places' /\ WakeSubmitted'
  BY <1>0, <1>2, HoldersKept, PlacesKept DEF WakeSubmitted
<1> QED
  BY <1>1, <1>4, <1>5

\* SoftStop stops the pool only if nothing is counted.
LEMMA SoftStopInv ==
    ASSUME Inv, NEW s \in Stoppers, SoftStop(s)
    PROVE  Inv'
<1>0. /\ spc[s] = "ready"
      /\ UNCHANGED <<jobs, count, pc, cur, status, wake, taken, forced>>
  BY DEF SoftStop, workerVars
<1>a. PICK x \in {"notify", "end"} :
        /\ spc' = [spc EXCEPT ![s] = x]
        /\ x = "notify" => count = 0 /\ wasStop' = TRUE /\ wantStop' = wantStop
        /\ x = "end" => wantStop' = TRUE /\ wasStop' = wasStop
  BY DEF SoftStop, NoJobs
<1>b. wasStop' \in BOOLEAN /\ wantStop' \in BOOLEAN /\ (wasStop => wasStop')
  BY DEF SoftStop, TypeOK
<1>c. Working' = Working /\ Arriving' = Arriving
  BY <1>0 DEF Working, Arriving
<1>d. spc'[s] = x /\ \A t \in Stoppers : t # s => spc'[t] = spc[t]
  BY <1>a DEF TypeOK
<1>1. TypeOK'
  BY <1>0, <1>a, <1>b DEF TypeOK
<1>2. CountCovers' /\ NoLostWakeUp' /\ WakeSubmitted'
  BY <1>0, <1>c DEF CountCovers, NoLostWakeUp, WakeSubmitted
<1>3. Holders' /\ Places'
  BY <1>0, <1>d, HoldersKept, PlacesKept DEF Holders
<1>4. LeftEmpty'
  BY <1>0, <1>b DEF LeftEmpty
<1>5. NoSleeperAfterStop'
  BY <1>0, <1>a, <1>d DEF NoSleeperAfterStop
<1>6. SoftStopWaits'
  <2>1. CASE x = "notify"
    <3>1. Len(jobs) \in Nat /\ Cardinality(Working) \in Nat /\ IsFiniteSet(Working)
      BY QueueType, Sizes
    <3>2. Len(jobs) = 0 /\ Cardinality(Working) = 0
      BY <1>a, <2>1, <3>1 DEF CountCovers
    <3>3. jobs = <<>> /\ Working = {}
      BY <3>1, <3>2, QueueType, FS_EmptySet
    <3> QED
      BY <1>0, <3>3 DEF SoftStopWaits, Working
  <2>2. CASE x = "end"
    BY <1>0, <1>a, <2>2 DEF SoftStopWaits
  <2> QED
    BY <2>1, <2>2
<1> QED
  BY <1>1, <1>2, <1>3, <1>4, <1>5, <1>6

\* Stop stops the pool at once.
LEMMA StopInv ==
    ASSUME Inv, NEW s \in Stoppers, Stop(s)
    PROVE  Inv'
<1>0. /\ spc[s] = "ready" /\ forced' = TRUE /\ wasStop' = TRUE
      /\ spc' = [spc EXCEPT ![s] = "notify"]
      /\ UNCHANGED <<jobs, count, wantStop, pc, cur, status, wake, taken>>
  BY DEF Stop, workerVars
<1>c. Working' = Working /\ Arriving' = Arriving
  BY <1>0 DEF Working, Arriving
<1>d. spc'[s] = "notify" /\ \A t \in Stoppers : t # s => spc'[t] = spc[t]
  BY <1>0 DEF TypeOK
<1>1. TypeOK'
  BY <1>0 DEF TypeOK
<1>2. CountCovers' /\ NoLostWakeUp' /\ WakeSubmitted'
  BY <1>0, <1>c DEF CountCovers, NoLostWakeUp, WakeSubmitted
<1>3. Holders' /\ Places'
  BY <1>0, <1>d, HoldersKept, PlacesKept
<1>4. LeftEmpty' /\ NoSleeperAfterStop' /\ SoftStopWaits'
  BY <1>0, <1>d DEF LeftEmpty, NoSleeperAfterStop, SoftStopWaits
<1> QED
  BY <1>1, <1>2, <1>3, <1>4

\* HardStop takes the queue.
LEMMA HardStopInv ==
    ASSUME Inv, NEW s \in Stoppers, HardStop(s)
    PROVE  Inv'
<1>0. /\ spc[s] = "ready" /\ forced' = TRUE /\ wasStop' = TRUE
      /\ spc' = [spc EXCEPT ![s] = "notify"]
      /\ taken' = [taken EXCEPT ![s] = jobs] /\ jobs' = <<>>
      /\ UNCHANGED <<count, wantStop, pc, cur, status, wake>>
  BY DEF HardStop, workerVars
<1>a. /\ spc'[s] = "notify" /\ taken'[s] = jobs /\ taken[s] = <<>>
      /\ \A t \in Stoppers : t # s => spc'[t] = spc[t] /\ taken'[t] = taken[t]
  BY <1>0 DEF TypeOK, Holders
<1>b. Len(<<>>) = 0 /\ <<>> \in Seq(Jobs) /\ ToSet(<<>>) = {} /\ IsInjective(<<>>)
  BY ListEmpty, EmptySeq
<1>c. Working' = Working
  BY <1>0 DEF Working
<1>d. \A j \in Jobs : /\ InTaken(j)' <=> InTaken(j) \/ j \in ToSet(jobs)
                      /\ Called(j)' <=> Called(j)
  BY <1>0, <1>a, <1>b DEF InTaken, Called
<1>1. TypeOK'
  BY <1>0, <1>b DEF TypeOK
<1>2. CountCovers' /\ NoLostWakeUp'
  <2>1. /\ Len(jobs) \in Nat /\ Cardinality(Working) \in Nat
        /\ Cardinality(wake') \in Nat /\ Cardinality(Arriving') \in Nat
    BY <1>1, QueueType, Sizes DEF TypeOK
  <2> QED
    BY <1>0, <1>b, <1>c, <2>1 DEF CountCovers, NoLostWakeUp, TypeOK
<1>3. Holders'
  <2>1. ASSUME NEW t \in Stoppers, t # s PROVE ToSet(taken[t]) \cap ToSet(jobs) = {}
    BY QueueType DEF Places, InTaken
  <2>2. ASSUME NEW t \in Stoppers, NEW u \in Stoppers, t # u
        PROVE  ToSet(taken'[t]) \cap ToSet(taken'[u]) = {}
    BY <1>a, <2>1, <2>2 DEF Holders
  <2> QED
    BY <1>0, <1>a, <1>b, <2>2 DEF Holders
<1>4. Places'
  BY <1>0, <1>b, <1>d DEF Places
<1>5. WakeSubmitted' /\ LeftEmpty' /\ NoSleeperAfterStop' /\ SoftStopWaits'
  BY <1>0, <1>a DEF WakeSubmitted, LeftEmpty, NoSleeperAfterStop, SoftStopWaits
<1> QED
  BY <1>1, <1>2, <1>3, <1>4, <1>5

\* notify_all.
LEMMA StopNotifyInv ==
    ASSUME Inv, NEW s \in Stoppers, StopNotify(s)
    PROVE  Inv'
<1>0. /\ spc[s] = "notify"
      /\ pc' = [w \in Workers |-> IF pc[w] = "idle" THEN "woken" ELSE pc[w]]
      /\ spc' = [spc EXCEPT ![s] = IF taken[s] = <<>> THEN "end" ELSE "drop"]
      /\ UNCHANGED <<jobs, count, wantStop, wasStop, cur, status, wake, taken, forced>>
  BY DEF StopNotify, NotifyAll, poolVars
<1>a. /\ pc' \in [Workers -> WorkerStates]
      /\ \A v \in Workers : pc'[v] # "idle" /\ (pc'[v] = pc[v] \/ (pc[v] = "idle" /\ pc'[v] = "woken"))
  BY <1>0 DEF TypeOK, WorkerStates
<1>b. /\ taken[s] # <<>> => spc'[s] = "drop"
      /\ \A t \in Stoppers : t # s => spc'[t] = spc[t]
  BY <1>0 DEF TypeOK
<1>1. TypeOK'
  BY <1>0, <1>a DEF TypeOK
<1>2. /\ CountCovers' /\ Places' /\ LeftEmpty' /\ SoftStopWaits'
      /\ \A v \in Workers : pc'[v] = "call" <=> pc[v] = "call"
  BY <1>0, <1>a, WokenKeeps
<1>3. Holders' /\ WakeSubmitted'
  BY <1>0, <1>2, <1>b, HoldersKept DEF WakeSubmitted
<1>4. NoSleeperAfterStop' /\ NoLostWakeUp'
  BY <1>a DEF NoSleeperAfterStop, NoLostWakeUp
<1> QED
  BY <1>1, <1>2, <1>3, <1>4

\* HardStop drops what it took.
LEMMA HardStopDropInv ==
    ASSUME Inv, NEW s \in Stoppers, HardStopDrop(s)
    PROVE  Inv'
<1>0. /\ spc[s] = "drop"
      /\ status' = [j \in Jobs |-> IF j \in ToSet(taken[s]) THEN "dropped" ELSE status[j]]
      /\ taken' = [taken EXCEPT ![s] = <<>>]
      /\ spc' = [spc EXCEPT ![s] = "end"]
      /\ UNCHANGED <<jobs, count, wantStop, wasStop, pc, cur, wake, forced>>
  BY DEF HardStopDrop, poolVars, workerVars, Elements, ToSet
<1>a. /\ spc'[s] = "end" /\ taken'[s] = <<>>
      /\ \A t \in Stoppers : t # s => spc'[t] = spc[t] /\ taken'[t] = taken[t]
  BY <1>0 DEF TypeOK
<1>b. <<>> \in Seq(Jobs) /\ ToSet(<<>>) = {}
  BY ListEmpty, EmptySeq
<1>c. Working' = Working /\ Arriving' = Arriving
  BY <1>0 DEF Working, Arriving
<1>1. TypeOK'
  BY <1>0, <1>b DEF TypeOK
<1>2. Holders'
  BY <1>0, <1>a, <1>b DEF Holders
<1>3. Places'
  <2>1. \A j \in Jobs : /\ InTaken(j)' <=> InTaken(j) /\ j \notin ToSet(taken[s])
                        /\ j \in ToSet(taken[s]) => InTaken(j)
                        /\ Called(j)' <=> Called(j)
    BY <1>0, <1>a, <1>b DEF InTaken, Called, Holders
  <2> QED
    BY <1>0, <2>1 DEF Places
<1>4. WakeSubmitted'
  BY <1>0 DEF WakeSubmitted, TypeOK
<1>5. CountCovers' /\ LeftEmpty' /\ NoLostWakeUp' /\ NoSleeperAfterStop' /\ SoftStopWaits'
  BY <1>0, <1>a, <1>c DEF CountCovers, LeftEmpty, NoLostWakeUp, NoSleeperAfterStop, SoftStopWaits
<1> QED
  BY <1>1, <1>2, <1>3, <1>4, <1>5

\* The initial state.
LEMMA InitInv == Init => Inv
<1> SUFFICES ASSUME Init PROVE Inv
  OBVIOUS
<1> USE DEF Init
<1>1. TypeOK
  BY EmptySeq DEF TypeOK, WorkerStates
<1>2. CountCovers
  <2>1. Working = {}
    BY DEF Working
  <2> QED
    BY <2>1, FS_EmptySet DEF CountCovers
<1>3. Holders /\ Places
  BY ListEmpty DEF Holders, Places, Called, InTaken
<1>4. WakeSubmitted /\ LeftEmpty /\ NoLostWakeUp /\ NoSleeperAfterStop /\ SoftStopWaits
  BY DEF WakeSubmitted, LeftEmpty, NoLostWakeUp, NoSleeperAfterStop, SoftStopWaits
<1> QED
  BY <1>1, <1>2, <1>3, <1>4

\* A step that changes nothing.
LEMMA StutterInv ==
    ASSUME Inv, UNCHANGED vars
    PROVE  Inv'
<1> USE DEF vars, poolVars, workerVars, stopVars
<1>1. Working' = Working /\ Arriving' = Arriving
  BY DEF Working, Arriving
<1>2. TypeOK' /\ CountCovers' /\ WakeSubmitted' /\ LeftEmpty'
  BY <1>1 DEF TypeOK, CountCovers, WakeSubmitted, LeftEmpty
<1>3. Holders' /\ Places'
  BY HoldersKept, PlacesKept
<1>4. NoLostWakeUp' /\ NoSleeperAfterStop' /\ SoftStopWaits'
  BY <1>1 DEF NoLostWakeUp, NoSleeperAfterStop, SoftStopWaits
<1> QED
  BY <1>2, <1>3, <1>4

\* Every step preserves Inv.
LEMMA NextInv == Inv /\ [Next]_vars => Inv'
<1> SUFFICES ASSUME Inv, [Next]_vars PROVE Inv'
  OBVIOUS
<1>1. ASSUME NEW j \in Jobs, SubmitStep(j) PROVE Inv'
  BY <1>1, SubmitInv, SubmitNotifyInv DEF SubmitStep
<1>2. ASSUME NEW w \in Workers, WorkerStep(w) \/ SpuriousWakeUp(w) PROVE Inv'
  BY <1>2, LoopPopInv, LoopCallInv, LoopEmptyInv, LoopNotifyInv, SpuriousInv DEF WorkerStep
<1>3. ASSUME NEW s \in Stoppers, StopStep(s) PROVE Inv'
  BY <1>3, SoftStopInv, StopInv, HardStopInv, StopNotifyInv, HardStopDropInv DEF StopStep
<1> QED
  BY <1>1, <1>2, <1>3, StutterInv DEF Next

-----------------------------------------------------------------------------
(***************************************************************************)
(* The theorems.                                                           *)
(***************************************************************************)

\* Inv is an invariant of the pool.
THEOREM Invariance == Spec => []Inv
BY InitInv, NextInv, PTL DEF Spec

\* Submit, Loop and the stop operations keep every variable in its type; Loop
\* never decrements _jobs_count below zero.
THEOREM TypeCorrect == Spec => []TypeOK
<1>1. Inv => TypeOK
  OBVIOUS
<1> QED
  BY <1>1, Invariance, PTL

\* One notify_one per Submit and one notify_all per stop, both after the mutex
\* has been unlocked, leave no worker asleep on a job or on a stop.
THEOREM NobodyForgotten == Spec => []NoSleeperForgotten
<1>1. Inv => NoSleeperForgotten
  BY DEF NoSleeperForgotten
<1> QED
  BY <1>1, Invariance, PTL

\* SoftStop alone stops the pool only when no job is queued or being called.
THEOREM SoftStopIsSoft == Spec => []SoftStopWaits
<1>1. Inv => SoftStopWaits
  OBVIOUS
<1> QED
  BY <1>1, Invariance, PTL

\* What Inv says about the jobs, in a pool that has a worker.
LEMMA InvAccounts ==
    ASSUME Inv, Workers # {}
    PROVE  JobsAccounted
<1>1. \A j \in Jobs : (InQueue(j) <=> j \in ToSet(jobs)) /\ (Taken(j) <=> InTaken(j))
  BY DEF InQueue, Taken, InTaken, Elements, ToSet
<1>2. Cardinality(Elements(jobs)) = Len(jobs)
  <2>1. Elements(jobs) = ToSet(jobs)
    BY DEF Elements, ToSet
  <2> QED
    BY <2>1, ListSize DEF Holders, TypeOK
<1>3. OnePlacePerJob
  BY <1>1, <1>2 DEF OnePlacePerJob, Places
<1>4. NothingLeftBehind
  <2> SUFFICES ASSUME \A w \in Workers : pc[w] \in {"last", "done"},
                      NEW j \in Jobs, status[j] = "accepted"
               PROVE  Taken(j)
    BY DEF NothingLeftBehind
  <2>1. jobs = <<>>
    BY DEF LeftEmpty
  <2>2. ~Called(j) /\ j \notin ToSet(jobs)
    BY <2>1, ListEmpty DEF Called
  <2> QED
    BY <1>1, <2>2 DEF Places
<1> QED
  BY <1>3, <1>4 DEF JobsAccounted

\* Whatever stop operations run against each other, an accepted job is in one
\* place only, so that it is never lost, never called twice and never both
\* called and dropped; and the workers leave no job behind but those that a
\* HardStop took.  A pool of no threads, which the constructor does not refuse,
\* has nobody to call the jobs.
THEOREM NoJobLost ==
    ASSUME Workers # {}
    PROVE  Spec => []JobsAccounted
<1>1. Inv => JobsAccounted
  BY InvAccounts
<1> QED
  BY <1>1, Invariance, PTL
=============================================================================
