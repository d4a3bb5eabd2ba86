---------------------------- MODULE Strand_proofs ----------------------------
(***************************************************************************)
(* The strand is sound as an intrusive job and implements the serial       *)
(* executor, for any sets of jobs and of threads below.  The second part   *)
(* is about what executors are given by the chains of lazy tasks, of any   *)
(* length.                                                                 *)
(*                                                                         *)
(* What makes it work is a token: whoever replaced Mark in _jobs, or was   *)
(* handed the strand by the executor below, is the only one who may do     *)
(* something about it, and Mark is there exactly if nobody has the token.  *)
(* The token's way is from the submitter to the executor's queue and to    *)
(* the runner; Drop gives it back before it goes through its batch, so     *)
(* that several runners may be dropping, but only one is calling.          *)
(***************************************************************************)
EXTENDS Strand, SequenceLemmas, FiniteSetTheorems, WellFoundedInduction, TLAPS

\* The stack, empty when the strand is idle.
Stack == IF jobs = Mark THEN <<>> ELSE jobs

\* Runners that have the token, and those that hold a reference.
Calling == {"next", "calling"}
HasToken(r) == rpc[r] \in {"call", "next", "calling", "release", "drop"}
Busy == {r \in Runners : rpc[r] # "idle"}

\* There is one token.
OneToken ==
    /\ pending \in {0, 1}
    /\ \A j, k \in Jobs : pc[j] = "won" /\ pc[k] = "won" => j = k
    /\ \A r, s \in Runners : HasToken(r) /\ HasToken(s) => r = s
    /\ \A j \in Jobs, r \in Runners : ~(pc[j] = "won" /\ HasToken(r))
    /\ pending = 1 => (\A j \in Jobs : pc[j] # "won") /\ (\A r \in Runners : ~HasToken(r))

\* Mark says that nobody has it.
MarkMeansFree ==
    jobs = Mark <=> /\ pending = 0
                    /\ \A j \in Jobs : pc[j] # "won"
                    /\ \A r \in Runners : ~HasToken(r)

\* Until Call or Drop has taken the stack, there is a job in it.
SomethingToTake ==
    jobs = <<>> => \E r \in Runners : rpc[r] \in {"next", "calling", "release"}

\* A runner has a batch exactly while it goes through it.
Batches ==
    \A r \in Runners :
        batch[r] # <<>> <=> rpc[r] \in {"next", "calling", "dropnext", "dropping"}

\* Every job is in one place.
Fresh(j) ==
    /\ j \notin ToSet(Stack)
    /\ j \notin called
    /\ \A r \in Runners : j \notin ToSet(batch[r])

OnePlace ==
    /\ \A j \in Jobs : pc[j] \in {"idle", "cas"} => Fresh(j)
    /\ IsInjective(Stack)
    /\ ToSet(Stack) \cap called = {}
    /\ \A r \in Runners :
         /\ IsInjective(batch[r])
         /\ ToSet(batch[r]) \cap called = {}
         /\ ToSet(batch[r]) \cap ToSet(Stack) = {}
         /\ \A s \in Runners : s # r => ToSet(batch[r]) \cap ToSet(batch[s]) = {}

\* Who holds a reference: the user, the executor's queue, every busy runner.
UserRefs == IF owned THEN 1 ELSE 0

RefsExact ==
    /\ IsFiniteSet(Busy)
    /\ refs = UserRefs + pending + Cardinality(Busy)

\* The user does not let go while somebody is inside Submit.
OwnedInSubmit == \A j \in Jobs : pc[j] \in {"cas", "won"} => owned

\* The inductive invariant.
Inv ==
    /\ TypeOK
    /\ OneToken
    /\ MarkMeansFree
    /\ SomethingToTake
    /\ Batches
    /\ OnePlace
    /\ RefsExact
    /\ OwnedInSubmit

USE DEF Inv

-----------------------------------------------------------------------------
(***************************************************************************)
(* What Inv says about the stack and its pointer.                          *)
(***************************************************************************)

\* A list is not Mark, and the stack is a list.
LEMMA StackType ==
    ASSUME TypeOK
    PROVE  /\ Stack \in Seq(Jobs)
           /\ jobs # Mark => jobs \in Seq(Jobs) /\ Stack = jobs
           /\ \A s \in Seq(Jobs) : s # Mark
           /\ <<>> \in Seq(Jobs)
BY MarkAssumption, EmptySeq DEF TypeOK, Stack

\* The pointer tells an idle strand from a busy one.
LEMMA PointerType ==
    ASSUME TypeOK
    PROVE  /\ HeadPointer(jobs) \in Jobs \cup {Mark, None}
           /\ HeadPointer(jobs) = Mark <=> jobs = Mark
<1>1. CASE jobs = Mark \/ jobs = <<>>
  BY <1>1, MarkAssumption, StackType DEF HeadPointer
<1>2. CASE jobs # Mark /\ jobs # <<>>
  BY <1>2, MarkAssumption, ListPop DEF HeadPointer, TypeOK
<1> QED
  BY <1>1, <1>2

\* The user's reference stays while owned does.
LEMMA UserRefsKept ==
    ASSUME UNCHANGED owned
    PROVE  UserRefs' = UserRefs /\ UserRefs \in {0, 1}
BY DEF UserRefs

\* The number of references held by runners, when one becomes busy.
LEMMA BusyGrows ==
    ASSUME Inv, NEW r \in Runners, rpc[r] = "idle", NEW x, x # "idle", rpc' = [rpc EXCEPT ![r] = x]
    PROVE  IsFiniteSet(Busy') /\ Cardinality(Busy') = Cardinality(Busy) + 1 /\ Cardinality(Busy) \in Nat
<1>1. Busy' = Busy \cup {r} /\ r \notin Busy
  BY DEF Busy, TypeOK
<1> QED
  BY <1>1, FS_AddElement, FS_CardinalityType DEF RefsExact

\* When a runner becomes idle.
LEMMA BusyShrinks ==
    ASSUME Inv, NEW r \in Runners, rpc[r] # "idle", rpc' = [rpc EXCEPT ![r] = "idle"]
    PROVE  IsFiniteSet(Busy') /\ Cardinality(Busy') = Cardinality(Busy) - 1 /\ Cardinality(Busy) \in Nat \ {0}
<1>1. Busy' = Busy \ {r} /\ r \in Busy
  BY DEF Busy, TypeOK
<1>2. Cardinality(Busy) # 0
  BY <1>1, FS_EmptySet DEF RefsExact
<1> QED
  BY <1>1, <1>2, FS_RemoveElement, FS_CardinalityType DEF RefsExact

\* When a busy runner goes on.
LEMMA BusyKept ==
    ASSUME Inv, NEW r \in Runners, rpc[r] # "idle", NEW x, x # "idle", rpc' = [rpc EXCEPT ![r] = x]
    PROVE  Busy' = Busy
BY DEF Busy, TypeOK

-----------------------------------------------------------------------------
(***************************************************************************)
(* Every action preserves Inv.                                             *)
(***************************************************************************)

\* Submit's first load.
LEMMA SubmitLoadInv ==
    ASSUME Inv, NEW j \in Jobs, SubmitLoad(j)
    PROVE  Inv'
<1> USE DEF SubmitLoad
<1>1. TypeOK'
  BY PointerType DEF TypeOK, SubmitterStates
<1>2. OneToken' /\ MarkMeansFree' /\ SomethingToTake' /\ Batches'
  BY DEF OneToken, MarkMeansFree, SomethingToTake, Batches, HasToken, TypeOK
<1>3. OnePlace'
  BY DEF OnePlace, Fresh, Stack, TypeOK
<1>4. RefsExact' /\ OwnedInSubmit'
  BY UserRefsKept DEF RefsExact, Busy, OwnedInSubmit, TypeOK
<1> QED
  BY <1>1, <1>2, <1>3, <1>4

\* The compare-exchange pushes the job; the one that replaces Mark has the token.
LEMMA SubmitCasInv ==
    ASSUME Inv, NEW j \in Jobs, SubmitCas(j)
    PROVE  Inv'
<1>1. CASE HeadPointer(jobs) # expected[j]
  <2> USE <1>1 DEF SubmitCas
  <2>1. TypeOK'
    BY PointerType DEF TypeOK
  <2>2. OneToken' /\ MarkMeansFree' /\ SomethingToTake' /\ Batches'
    BY DEF OneToken, MarkMeansFree, SomethingToTake, Batches, HasToken
  <2>3. OnePlace'
    BY DEF OnePlace, Fresh, Stack
  <2>4. RefsExact' /\ OwnedInSubmit'
    BY UserRefsKept DEF RefsExact, Busy, OwnedInSubmit
  <2> QED
    BY <2>1, <2>2, <2>3, <2>4
<1>2. CASE HeadPointer(jobs) = expected[j]
  <2>0. /\ pc[j] = "cas"
        /\ pc' = [pc EXCEPT ![j] = IF jobs = Mark THEN "won" ELSE "done"]
        /\ UNCHANGED <<expected, alive, pending, rpc, batch, refs, owned, called>>
    BY <1>2, PointerType DEF SubmitCas
  <2>a. /\ jobs' \in Seq(Jobs) /\ jobs' # <<>> /\ jobs' # Mark
        /\ ToSet(jobs') = {j} \cup ToSet(Stack)
        /\ j \notin ToSet(Stack) /\ IsInjective(Stack) => IsInjective(jobs')
    <3>1. CASE jobs = Mark
      <4>1. jobs' = <<j>> /\ Stack = <<>>
        BY <1>2, <3>1 DEF SubmitCas, Stack
      <4> QED
        BY <4>1, ListSingle, ListEmpty, StackType
    <3>2. CASE jobs # Mark
      <4>1. jobs' = <<j>> \o jobs /\ jobs \in Seq(Jobs) /\ Stack = jobs
        BY <1>2, <3>2, StackType DEF SubmitCas
      <4> QED
        BY <4>1, ListPush, StackType
    <3> QED
      BY <3>1, <3>2
  <2>b. Stack' = jobs'
    BY <2>a DEF Stack
  <2>1. TypeOK'
    BY <2>0, <2>a DEF TypeOK, SubmitterStates
  <2>2. OneToken'
    BY <2>0 DEF OneToken, MarkMeansFree, HasToken, TypeOK
  <2>3. MarkMeansFree'
    BY <2>0, <2>a DEF MarkMeansFree, HasToken, TypeOK
  <2>4. SomethingToTake' /\ Batches'
    BY <2>0, <2>a DEF SomethingToTake, Batches
  <2>5. OnePlace'
    <3>1. Fresh(j)
      BY <2>0 DEF OnePlace
    <3>2. ASSUME NEW k \in Jobs, pc'[k] \in {"idle", "cas"} PROVE Fresh(k)'
      BY <2>0, <2>a, <2>b, <3>2 DEF OnePlace, Fresh, TypeOK
    <3>3. ToSet(jobs') \cap called = {} /\ IsInjective(jobs')
      BY <2>a, <3>1 DEF OnePlace, Fresh
    <3>4. ASSUME NEW r \in Runners PROVE ToSet(batch[r]) \cap ToSet(jobs') = {}
      BY <2>a, <3>1 DEF OnePlace, Fresh
    <3> QED
      BY <2>0, <2>b, <3>2, <3>3, <3>4 DEF OnePlace
  <2>6. RefsExact' /\ OwnedInSubmit'
    BY <2>0, UserRefsKept DEF RefsExact, Busy, OwnedInSubmit, TypeOK
  <2> QED
    BY <2>1, <2>2, <2>3, <2>4, <2>5, <2>6
<1> QED
  BY <1>1, <1>2

\* The token goes to the queue of the executor below.
LEMMA SubmitStrandInv ==
    ASSUME Inv, NEW j \in Jobs, SubmitStrand(j)
    PROVE  Inv'
<1> USE DEF SubmitStrand
<1>1. TypeOK'
  BY DEF TypeOK, SubmitterStates
<1>2. OneToken'
  BY DEF OneToken, HasToken, TypeOK
<1>3. MarkMeansFree'
  BY DEF OneToken, MarkMeansFree, HasToken, TypeOK
<1>4. SomethingToTake' /\ Batches'
  BY DEF SomethingToTake, Batches
<1>5. OnePlace'
  BY DEF OnePlace, Fresh, Stack, TypeOK
<1>6. RefsExact' /\ OwnedInSubmit'
  <2>1. Busy' = Busy /\ Cardinality(Busy) \in Nat
    BY FS_CardinalityType DEF Busy, RefsExact
  <2>2. RefsExact'
    BY <2>1, UserRefsKept DEF RefsExact, TypeOK
  <2>3. OwnedInSubmit'
    BY DEF OwnedInSubmit, TypeOK
  <2> QED
    BY <2>2, <2>3
<1> QED
  BY <1>1, <1>2, <1>3, <1>4, <1>5, <1>6

\* A runner gets the token from that queue, and the reference with it.
LEMMA ExecuteInv ==
    ASSUME Inv, NEW r \in Runners, Execute(r)
    PROVE  Inv'
<1>0. /\ rpc[r] = "idle" /\ pending > 0 /\ pending' = pending - 1
      /\ \E x \in {"call", "drop"} : rpc' = [rpc EXCEPT ![r] = x]
      /\ UNCHANGED <<jobs, pc, expected, batch, refs, owned, called>>
  BY DEF Execute
<1>c. alive' \in BOOLEAN
  BY DEF Execute, TypeOK
<1>a. pending = 1 /\ pending' = 0
  BY <1>0 DEF OneToken
<1>b. PICK x \in {"call", "drop"} : rpc' = [rpc EXCEPT ![r] = x]
  BY <1>0
<1>1. TypeOK'
  BY <1>0, <1>a, <1>b, <1>c DEF TypeOK, RunnerStates
<1>2. OneToken'
  BY <1>0, <1>a, <1>b DEF OneToken, HasToken, TypeOK
<1>3. MarkMeansFree'
  BY <1>0, <1>a, <1>b DEF OneToken, MarkMeansFree, HasToken, TypeOK
<1>4. SomethingToTake'
  BY <1>0, <1>b DEF SomethingToTake, TypeOK
<1>5. Batches'
  BY <1>0, <1>b DEF Batches, TypeOK
<1>6. OnePlace'
  BY <1>0 DEF OnePlace, Fresh, Stack
<1>7. RefsExact' /\ OwnedInSubmit'
  <2>1. IsFiniteSet(Busy') /\ Cardinality(Busy') = Cardinality(Busy) + 1 /\ Cardinality(Busy) \in Nat
    BY <1>0, <1>b, BusyGrows
  <2> QED
    BY <1>0, <1>a, <2>1, UserRefsKept DEF RefsExact, OwnedInSubmit
<1> QED
  BY <1>1, <1>2, <1>3, <1>4, <1>5, <1>6, <1>7

\* Call takes the whole stack, which is not empty.
LEMMA CallTakeInv ==
    ASSUME Inv, NEW r \in Runners, CallTake(r)
    PROVE  Inv'
<1>0. /\ rpc[r] = "call" /\ rpc' = [rpc EXCEPT ![r] = "next"]
      /\ jobs' = <<>> /\ batch' = [batch EXCEPT ![r] = Reverse(jobs)]
      /\ UNCHANGED <<pc, expected, alive, pending, refs, owned, called>>
  BY DEF CallTake
<1>a. HasToken(r) /\ jobs # Mark
  BY <1>0 DEF HasToken, MarkMeansFree
<1>b. jobs \in Seq(Jobs) /\ Stack = jobs /\ jobs' # Mark /\ Stack' = <<>> /\ jobs # <<>>
  <2>1. jobs # <<>>
    BY <1>0, <1>a DEF SomethingToTake, OneToken, HasToken
  <2> QED
    BY <1>0, <1>a, <2>1, StackType DEF Stack
<1>c. /\ Reverse(jobs) \in Seq(Jobs) /\ Reverse(jobs) # <<>>
      /\ ToSet(Reverse(jobs)) = ToSet(jobs) /\ (IsInjective(Reverse(jobs)) <=> IsInjective(jobs))
      /\ ToSet(<<>>) = {} /\ IsInjective(<<>>)
  BY <1>b, ListReverse, ListElements, ListEmpty
<1>d. batch[r] = <<>>
  BY <1>0 DEF Batches
<1> DEFINE taken == Reverse(jobs)
<1>e. taken = Reverse(jobs)
  OBVIOUS
<1> HIDE DEF taken
<1>1. TypeOK'
  BY <1>0, <1>b, <1>c DEF TypeOK, RunnerStates
<1>2. OneToken' /\ MarkMeansFree'
  BY <1>0, <1>a, <1>b DEF OneToken, MarkMeansFree, HasToken, TypeOK
<1>3. SomethingToTake'
  BY <1>0 DEF SomethingToTake, TypeOK
<1>4. Batches'
  BY <1>0, <1>c, <1>e DEF Batches, TypeOK
<1>5. OnePlace'
  <2>1. /\ batch'[r] = taken
        /\ \A s \in Runners : s # r => batch'[s] = batch[s]
    BY <1>0, <1>e DEF TypeOK
  <2>2. ASSUME NEW k \in Jobs, pc'[k] \in {"idle", "cas"} PROVE Fresh(k)'
    BY <1>0, <1>b, <1>c, <1>e, <2>1, <2>2 DEF OnePlace, Fresh
  <2>3. ASSUME NEW s \in Runners
        PROVE  /\ IsInjective(batch'[s])
               /\ ToSet(batch'[s]) \cap called' = {}
               /\ ToSet(batch'[s]) \cap ToSet(Stack') = {}
    <3>1. CASE s = r
      BY <1>0, <1>b, <1>c, <1>e, <2>1, <3>1 DEF OnePlace
    <3>2. CASE s # r
      BY <1>0, <1>b, <1>c, <2>1, <3>2 DEF OnePlace
    <3> QED
      BY <3>1, <3>2
  <2>4. ASSUME NEW s \in Runners, NEW t \in Runners, s # t
        PROVE  ToSet(batch'[s]) \cap ToSet(batch'[t]) = {}
    BY <1>b, <1>c, <1>e, <2>1, <2>4 DEF OnePlace
  <2> QED
    BY <1>0, <1>b, <1>c, <2>2, <2>3, <2>4 DEF OnePlace
<1>6. RefsExact' /\ OwnedInSubmit'
  <2>1. Busy' = Busy
    BY <1>0, BusyKept
  <2> QED
    BY <1>0, <2>1, UserRefsKept DEF RefsExact, OwnedInSubmit
<1> QED
  BY <1>1, <1>2, <1>3, <1>4, <1>5, <1>6

\* A job of the batch is called.
LEMMA CallBeginInv ==
    ASSUME Inv, NEW r \in Runners, CallBegin(r)
    PROVE  Inv'
<1> USE DEF CallBegin
<1>1. TypeOK'
  BY DEF TypeOK, RunnerStates
<1>2. OneToken' /\ MarkMeansFree' /\ SomethingToTake' /\ Batches'
  BY DEF OneToken, MarkMeansFree, SomethingToTake, Batches, HasToken, TypeOK
<1>3. OnePlace'
  BY DEF OnePlace, Fresh, Stack
<1>4. RefsExact' /\ OwnedInSubmit'
  <2>1. Busy' = Busy
    BY BusyKept
  <2> QED
    BY <2>1, UserRefsKept DEF RefsExact, OwnedInSubmit
<1> QED
  BY <1>1, <1>2, <1>3, <1>4

\* A job of a refused batch is dropped.
LEMMA DropBeginInv ==
    ASSUME Inv, NEW r \in Runners, DropBegin(r)
    PROVE  Inv'
<1> USE DEF DropBegin
<1>1. TypeOK'
  BY DEF TypeOK, RunnerStates
<1>2. OneToken' /\ MarkMeansFree' /\ SomethingToTake' /\ Batches'
  BY DEF OneToken, MarkMeansFree, SomethingToTake, Batches, HasToken, TypeOK
<1>3. OnePlace'
  BY DEF OnePlace, Fresh, Stack
<1>4. RefsExact' /\ OwnedInSubmit'
  <2>1. Busy' = Busy
    BY BusyKept
  <2> QED
    BY <2>1, UserRefsKept DEF RefsExact, OwnedInSubmit
<1> QED
  BY <1>1, <1>2, <1>3, <1>4

\* What a runner finishes leaves its batch and stays in one place.
LEMMA PopPlaces ==
    ASSUME Inv, NEW r \in Runners, batch[r] # <<>>,
           called' = called \cup {Head(batch[r])},
           batch' = [batch EXCEPT ![r] = Tail(@)],
           UNCHANGED <<jobs, pc>>
    PROVE  OnePlace' /\ batch' \in [Runners -> Seq(Jobs)] /\ called' \subseteq Jobs
<1> DEFINE job == Head(batch[r])
           rest == Tail(batch[r])
<1>1. /\ job \in Jobs /\ rest \in Seq(Jobs)
      /\ ToSet(batch[r]) = {job} \cup ToSet(rest)
      /\ IsInjective(batch[r]) => job \notin ToSet(rest) /\ IsInjective(rest)
  BY ListPop DEF TypeOK
<1>2. /\ batch'[r] = rest /\ called' = called \cup {job}
      /\ \A s \in Runners : s # r => batch'[s] = batch[s]
      /\ batch' \in [Runners -> Seq(Jobs)] /\ called' \subseteq Jobs
  BY <1>1 DEF TypeOK
<1> HIDE DEF job, rest
<1>3. Stack' = Stack
  BY DEF Stack
<1>4. IsInjective(rest) /\ job \notin ToSet(rest) /\ job \notin ToSet(Stack)
  BY <1>1 DEF OnePlace
<1>5. ASSUME NEW k \in Jobs, pc'[k] \in {"idle", "cas"} PROVE Fresh(k)'
  <2>1. Fresh(k)
    BY <1>5 DEF OnePlace
  <2>2. k # job
    BY <1>1, <2>1 DEF Fresh
  <2>3. ASSUME NEW s \in Runners PROVE k \notin ToSet(batch'[s])
    BY <1>1, <1>2, <2>1 DEF Fresh
  <2> QED
    BY <1>2, <1>3, <2>1, <2>2, <2>3 DEF Fresh
<1>6. ASSUME NEW s \in Runners
      PROVE  /\ IsInjective(batch'[s])
             /\ ToSet(batch'[s]) \cap called' = {}
             /\ ToSet(batch'[s]) \cap ToSet(Stack') = {}
  <2>1. CASE s = r
    <3>1. ToSet(batch[r]) \cap called = {} /\ ToSet(batch[r]) \cap ToSet(Stack) = {}
      BY DEF OnePlace
    <3> QED
      BY <1>1, <1>2, <1>3, <1>4, <2>1, <3>1
  <2>2. CASE s # r
    <3>1. /\ IsInjective(batch[s])
          /\ ToSet(batch[s]) \cap called = {} /\ ToSet(batch[s]) \cap ToSet(Stack) = {}
          /\ job \notin ToSet(batch[s])
      BY <1>1, <2>2 DEF OnePlace
    <3> QED
      BY <1>2, <1>3, <2>2, <3>1
  <2> QED
    BY <2>1, <2>2
<1>7. ASSUME NEW s \in Runners, NEW t \in Runners, s # t
      PROVE  ToSet(batch'[s]) \cap ToSet(batch'[t]) = {}
  BY <1>1, <1>2, <1>7 DEF OnePlace
<1>8. IsInjective(Stack') /\ ToSet(Stack') \cap called' = {}
  BY <1>2, <1>3, <1>4 DEF OnePlace
<1> QED
  BY <1>2, <1>5, <1>6, <1>7, <1>8 DEF OnePlace

\* A batch is used up when its last job leaves it.
LEMMA LastOfBatch ==
    ASSUME Inv, NEW r \in Runners, batch[r] # <<>>
    PROVE  Tail(batch[r]) = <<>> <=> Len(batch[r]) = 1
<1>1. /\ Tail(batch[r]) \in Seq(Jobs) /\ Len(Tail(batch[r])) = Len(batch[r]) - 1
      /\ batch[r] \in Seq(Jobs)
  BY ListPop DEF TypeOK
<1>2. Len(batch[r]) \in Nat /\ (Tail(batch[r]) = <<>> <=> Len(Tail(batch[r])) = 0)
  BY <1>1, ListElements
<1> QED
  BY <1>1, <1>2

\* The called job leaves the batch; after the last one comes the release.
LEMMA CallEndInv ==
    ASSUME Inv, NEW r \in Runners, CallEnd(r)
    PROVE  Inv'
<1> DEFINE x == IF Len(batch[r]) = 1 THEN "release" ELSE "next"
<1>0. /\ rpc[r] = "calling" /\ rpc' = [rpc EXCEPT ![r] = x]
      /\ called' = called \cup {Head(batch[r])}
      /\ batch' = [batch EXCEPT ![r] = Tail(@)]
      /\ UNCHANGED <<jobs, pc, expected, alive, pending, refs, owned>>
  BY DEF CallEnd
<1>a. batch[r] # <<>>
  BY <1>0 DEF Batches
<1>b. OnePlace' /\ batch' \in [Runners -> Seq(Jobs)] /\ called' \subseteq Jobs
  BY <1>0, <1>a, PopPlaces
<1>c. x \in {"release", "next"} /\ (x = "next" <=> Tail(batch[r]) # <<>>)
  BY <1>a, LastOfBatch
<1> HIDE DEF x
<1>1. TypeOK'
  BY <1>0, <1>b, <1>c DEF TypeOK, RunnerStates
<1>2. OneToken' /\ MarkMeansFree'
  BY <1>0, <1>c DEF OneToken, MarkMeansFree, HasToken, TypeOK
<1>3. SomethingToTake'
  BY <1>0, <1>c DEF SomethingToTake, TypeOK
<1>4. Batches'
  BY <1>0, <1>c DEF Batches, TypeOK
<1>5. RefsExact' /\ OwnedInSubmit'
  <2>1. Busy' = Busy
    BY <1>0, <1>c, BusyKept
  <2> QED
    BY <1>0, <2>1, UserRefsKept DEF RefsExact, OwnedInSubmit
<1> QED
  BY <1>1, <1>2, <1>3, <1>4, <1>5, <1>b

\* The token is given up, with Mark, or goes back to the executor's queue.
LEMMA ReleaseInv ==
    ASSUME Inv, NEW r \in Runners, Release(r)
    PROVE  Inv'
<1>0. /\ rpc[r] = "release" /\ rpc' = [rpc EXCEPT ![r] = "idle"]
      /\ UNCHANGED <<pc, expected, alive, batch, owned, called>>
  BY DEF Release
<1>a. /\ HasToken(r) /\ jobs # Mark /\ pending = 0 /\ (\A j \in Jobs : pc[j] # "won")
      /\ \A s \in Runners : s # r => ~HasToken(s)
  BY <1>0 DEF OneToken, MarkMeansFree, HasToken
<1>b. ~HasToken(r)' /\ \A s \in Runners : s # r => (HasToken(s)' <=> HasToken(s)) /\ rpc'[s] = rpc[s]
  BY <1>0 DEF HasToken, TypeOK
<1>c. /\ IsFiniteSet(Busy') /\ Cardinality(Busy') = Cardinality(Busy) - 1
      /\ Cardinality(Busy) \in Nat \ {0}
  BY <1>0, BusyShrinks
<1>d. Batches' /\ OwnedInSubmit'
  BY <1>0, <1>b DEF Batches, OwnedInSubmit, TypeOK
<1>e. UserRefs' = UserRefs /\ UserRefs \in {0, 1}
  BY <1>0, UserRefsKept
<1>1. CASE jobs = <<>>
  <2>0. jobs' = Mark /\ refs' = refs - 1 /\ pending' = 0 /\ pending = 0
    BY <1>1, <1>a DEF Release
  <2>1. RefsExact' /\ refs' \in Nat
    BY <2>0, <1>c, <1>e DEF RefsExact
  <2>2. TypeOK'
    BY <1>0, <2>0, <2>1 DEF TypeOK, RunnerStates
  <2>3. OneToken' /\ MarkMeansFree'
    BY <1>0, <1>a, <1>b, <2>0 DEF OneToken, MarkMeansFree
  <2>4. SomethingToTake'
    BY <2>0, StackType DEF SomethingToTake
  <2>5. OnePlace'
    <3>1. Stack' = <<>> /\ Stack = <<>>
      BY <1>1, <1>a, <2>0 DEF Stack
    <3> QED
      BY <1>0, <3>1 DEF OnePlace, Fresh
  <2> QED
    BY <1>d, <2>1, <2>2, <2>3, <2>4, <2>5
<1>2. CASE jobs # <<>>
  <2>0. jobs' = jobs /\ refs' = refs /\ pending' = 1 /\ pending = 0
    BY <1>2, <1>a DEF Release
  <2>1. RefsExact'
    BY <2>0, <1>c, <1>e DEF RefsExact
  <2>2. TypeOK'
    BY <1>0, <2>0 DEF TypeOK, RunnerStates
  <2>3. OneToken' /\ MarkMeansFree'
    BY <1>0, <1>a, <1>b, <2>0 DEF OneToken, MarkMeansFree
  <2>4. SomethingToTake'
    BY <1>2, <2>0 DEF SomethingToTake
  <2>5. OnePlace'
    BY <1>0, <2>0 DEF OnePlace, Fresh, Stack
  <2> QED
    BY <1>d, <2>1, <2>2, <2>3, <2>4, <2>5
<1> QED
  BY <1>1, <1>2

\* Drop gives up the token before it goes through what it took.
LEMMA DropTakeInv ==
    ASSUME Inv, NEW r \in Runners, DropTake(r)
    PROVE  Inv'
<1>0. /\ rpc[r] = "drop" /\ rpc' = [rpc EXCEPT ![r] = "dropnext"]
      /\ jobs' = Mark /\ batch' = [batch EXCEPT ![r] = jobs]
      /\ UNCHANGED <<pc, expected, alive, pending, refs, owned, called>>
  BY DEF DropTake
<1>a. /\ HasToken(r) /\ jobs # Mark /\ pending = 0 /\ (\A j \in Jobs : pc[j] # "won")
      /\ \A s \in Runners : s # r => ~HasToken(s)
  BY <1>0 DEF OneToken, MarkMeansFree, HasToken
<1>b. jobs \in Seq(Jobs) /\ Stack = jobs /\ Stack' = <<>> /\ jobs # <<>>
  <2>1. jobs # <<>>
    BY <1>0, <1>a DEF SomethingToTake, OneToken, HasToken
  <2> QED
    BY <1>0, <1>a, <2>1, StackType DEF Stack
<1>c. ToSet(<<>>) = {} /\ IsInjective(<<>>)
  BY ListEmpty
<1>d. ~HasToken(r)' /\ \A s \in Runners : s # r => (HasToken(s)' <=> HasToken(s)) /\ rpc'[s] = rpc[s]
  BY <1>0 DEF HasToken, TypeOK
<1>1. TypeOK'
  BY <1>0, <1>b DEF TypeOK, RunnerStates
<1>2. OneToken' /\ MarkMeansFree'
  BY <1>0, <1>a, <1>d DEF OneToken, MarkMeansFree
<1>3. SomethingToTake'
  BY <1>0, StackType DEF SomethingToTake
<1>4. Batches'
  BY <1>0, <1>b DEF Batches, TypeOK
<1>5. OnePlace'
  <2>1. /\ batch'[r] = jobs
        /\ \A s \in Runners : s # r => batch'[s] = batch[s]
    BY <1>0 DEF TypeOK
  <2>2. ASSUME NEW k \in Jobs, pc'[k] \in {"idle", "cas"} PROVE Fresh(k)'
    BY <1>0, <1>b, <1>c, <2>1, <2>2 DEF OnePlace, Fresh
  <2>3. ASSUME NEW s \in Runners
        PROVE  /\ IsInjective(batch'[s])
               /\ ToSet(batch'[s]) \cap called' = {}
               /\ ToSet(batch'[s]) \cap ToSet(Stack') = {}
    <3>1. CASE s = r
      BY <1>0, <1>b, <1>c, <2>1, <3>1 DEF OnePlace
    <3>2. CASE s # r
      BY <1>0, <1>b, <1>c, <2>1, <3>2 DEF OnePlace
    <3> QED
      BY <3>1, <3>2
  <2>4. ASSUME NEW s \in Runners, NEW t \in Runners, s # t
        PROVE  ToSet(batch'[s]) \cap ToSet(batch'[t]) = {}
    BY <1>b, <2>1, <2>4 DEF OnePlace
  <2> QED
    BY <1>0, <1>b, <1>c, <2>2, <2>3, <2>4 DEF OnePlace
<1>6. RefsExact' /\ OwnedInSubmit'
  <2>1. Busy' = Busy
    BY <1>0, BusyKept
  <2> QED
    BY <1>0, <2>1, UserRefsKept DEF RefsExact, OwnedInSubmit
<1> QED
  BY <1>1, <1>2, <1>3, <1>4, <1>5, <1>6

\* The dropped job leaves the batch; the last one takes the reference along.
LEMMA DropEndInv ==
    ASSUME Inv, NEW r \in Runners, DropEnd(r)
    PROVE  Inv'
<1> DEFINE x == IF Len(batch[r]) = 1 THEN "idle" ELSE "dropnext"
<1>0. /\ rpc[r] = "dropping" /\ rpc' = [rpc EXCEPT ![r] = x]
      /\ called' = called \cup {Head(batch[r])}
      /\ batch' = [batch EXCEPT ![r] = Tail(@)]
      /\ refs' = IF x = "idle" THEN refs - 1 ELSE refs
      /\ UNCHANGED <<jobs, pc, expected, alive, pending, owned>>
  BY DEF DropEnd
<1>a. batch[r] # <<>>
  BY <1>0 DEF Batches
<1>b. OnePlace' /\ batch' \in [Runners -> Seq(Jobs)] /\ called' \subseteq Jobs
  BY <1>0, <1>a, PopPlaces
<1>c. x \in {"idle", "dropnext"} /\ (x = "dropnext" <=> Tail(batch[r]) # <<>>)
  BY <1>a, LastOfBatch
<1> HIDE DEF x
<1>1. RefsExact' /\ refs' \in Nat
  <2>1. CASE x = "idle"
    <3>1. /\ IsFiniteSet(Busy') /\ Cardinality(Busy') = Cardinality(Busy) - 1
          /\ Cardinality(Busy) \in Nat \ {0}
      BY <1>0, <2>1, BusyShrinks
    <3> QED
      BY <1>0, <2>1, <3>1, UserRefsKept DEF RefsExact, TypeOK
  <2>2. CASE x # "idle"
    <3>1. Busy' = Busy
      BY <1>0, <2>2, BusyKept
    <3> QED
      BY <1>0, <2>2, <3>1, UserRefsKept DEF RefsExact, TypeOK
  <2> QED
    BY <2>1, <2>2
<1>2. TypeOK'
  BY <1>0, <1>1, <1>b, <1>c DEF TypeOK, RunnerStates
<1>3. OneToken' /\ MarkMeansFree'
  BY <1>0, <1>c DEF OneToken, MarkMeansFree, HasToken, TypeOK
<1>4. SomethingToTake'
  BY <1>0, <1>c DEF SomethingToTake, TypeOK
<1>5. Batches'
  BY <1>0, <1>c DEF Batches, TypeOK
<1>6. OwnedInSubmit'
  BY <1>0 DEF OwnedInSubmit
<1> QED
  BY <1>1, <1>2, <1>3, <1>4, <1>5, <1>6, <1>b

\* The user's reference goes.
LEMMA UserReleaseInv ==
    ASSUME Inv, UserRelease
    PROVE  Inv'
<1> USE DEF UserRelease
<1>1. RefsExact' /\ refs' \in Nat
  <2>1. UserRefs = 1 /\ UserRefs' = 0
    BY DEF UserRefs
  <2>2. Busy' = Busy /\ Cardinality(Busy) \in Nat
    BY FS_CardinalityType DEF Busy, RefsExact
  <2> QED
    BY <2>1, <2>2 DEF RefsExact, TypeOK
<1>2. TypeOK'
  BY <1>1 DEF TypeOK
<1>3. OneToken' /\ MarkMeansFree' /\ SomethingToTake' /\ Batches'
  BY DEF OneToken, MarkMeansFree, SomethingToTake, Batches, HasToken
<1>4. OnePlace'
  BY DEF OnePlace, Fresh, Stack
<1>5. OwnedInSubmit'
  BY DEF OwnedInSubmit
<1> QED
  BY <1>1, <1>2, <1>3, <1>4, <1>5

\* The initial state.
LEMMA InitInv == Init => Inv
<1> SUFFICES ASSUME Init PROVE Inv
  OBVIOUS
<1> USE DEF Init
<1>1. TypeOK
  BY StackType, EmptySeq DEF TypeOK, SubmitterStates, RunnerStates
<1>2. OneToken /\ MarkMeansFree /\ SomethingToTake /\ Batches /\ OwnedInSubmit
  BY <1>1, StackType DEF OneToken, MarkMeansFree, SomethingToTake, Batches, OwnedInSubmit, HasToken
<1>3. OnePlace
  BY ListEmpty DEF OnePlace, Fresh, Stack
<1>4. RefsExact
  <2>1. Busy = {}
    BY DEF Busy
  <2>2. UserRefs = 1
    BY DEF UserRefs
  <2> QED
    BY <2>1, <2>2, FS_EmptySet DEF RefsExact
<1> QED
  BY <1>1, <1>2, <1>3, <1>4

\* A step that changes nothing.
LEMMA StutterInv ==
    ASSUME Inv, UNCHANGED vars
    PROVE  Inv'
BY DEF vars, TypeOK, OneToken, MarkMeansFree, SomethingToTake, Batches, OnePlace, Fresh, Stack,
       RefsExact, OwnedInSubmit, HasToken, Busy, UserRefs

\* Every step preserves Inv.
LEMMA NextInv == Inv /\ [Next]_vars => Inv'
<1> SUFFICES ASSUME Inv, [Next]_vars PROVE Inv'
  OBVIOUS
<1>1. ASSUME NEW j \in Jobs, Submit(j) PROVE Inv'
  BY <1>1, SubmitLoadInv, SubmitCasInv, SubmitStrandInv DEF Submit
<1>2. ASSUME NEW r \in Runners, Execute(r) \/ Call(r) \/ Drop(r) PROVE Inv'
  BY <1>2, ExecuteInv, CallTakeInv, CallBeginInv, CallEndInv, ReleaseInv,
     DropTakeInv, DropBeginInv, DropEndInv DEF Call, Drop
<1>3. CASE UserRelease
  BY <1>3, UserReleaseInv
<1>4. CASE Terminating \/ UNCHANGED vars
  BY <1>4, StutterInv DEF Terminating
<1> QED
  BY <1>1, <1>2, <1>3, <1>4 DEF Next

-----------------------------------------------------------------------------
(***************************************************************************)
(* The theorems.                                                           *)
(***************************************************************************)

\* Inv is an invariant of the strand.
THEOREM Invariance == Spec => []Inv
BY InitInv, NextInv, PTL DEF Spec

\* Strand::Submit, Call and Drop keep every variable in its type; the reference
\* count is not decremented below zero.
THEOREM TypeCorrect == Spec => []TypeOK
<1>1. Inv => TypeOK
  OBVIOUS
<1> QED
  BY <1>1, Invariance, PTL

\* What Inv says of the strand as a job of the executor below.
LEMMA InvSound == Inv => StrandJobSound
<1> SUFFICES ASSUME Inv PROVE StrandJobSound
  OBVIOUS
<1>1. QueuedOnce
  BY DEF QueuedOnce, OneToken, HasToken
<1>2. UserRefs \in {0, 1} /\ Cardinality(Busy) \in Nat /\ (owned => UserRefs = 1) /\ pending \in Nat
  BY FS_CardinalityType DEF UserRefs, RefsExact, TypeOK
<1>3. ASSUME NEW r \in Runners, rpc[r] # "idle" PROVE Cardinality(Busy) # 0
  BY <1>3, FS_EmptySet DEF Busy, RefsExact
<1>4. pending > 0 => refs > 0
  BY <1>2 DEF RefsExact
<1>5. ASSUME NEW r \in Runners, rpc[r] # "idle" PROVE refs > 0
  BY <1>2, <1>3, <1>5 DEF RefsExact
<1>6. ASSUME NEW j \in Jobs, pc[j] \in {"cas", "won"} PROVE refs > 0
  BY <1>2, <1>6 DEF RefsExact, OwnedInSubmit
<1>7. ASSUME refs = 0 PROVE jobs = Mark
  <2>1. pending = 0
    BY <1>2, <1>4, <1>7
  <2>2. \A j \in Jobs : pc[j] # "won"
    BY <1>6, <1>7
  <2>3. \A r \in Runners : ~HasToken(r)
    BY <1>5, <1>7 DEF HasToken
  <2> QED
    BY <2>1, <2>2, <2>3 DEF MarkMeansFree
<1> QED
  BY <1>1, <1>4, <1>5, <1>6, <1>7 DEF StrandJobSound, AliveWhileUsed

\* The strand is never queued twice in the executor below, nobody works on a
\* strand that has been destroyed, and it is destroyed only when it is idle.
THEOREM StrandIsSoundJob == Spec => []StrandJobSound
BY Invariance, InvSound, PTL

-----------------------------------------------------------------------------
(***************************************************************************)
(* The strand implements SerialExecutor.  Jobs wait in what is left of the *)
(* batch of the one runner that is calling, then in the stack from its     *)
(* bottom; the abstract Submit is the successful compare-exchange, Reject  *)
(* is the exchange in Drop, and the exchange in Call is a stuttering step. *)
(***************************************************************************)

\* The abstract state.
Waiting == IF jobs = Mark THEN <<>> ELSE Reverse(jobs)
AbsQueue == (IF CallingNow THEN Tail(CallBatch) ELSE CallBatch) \o Waiting
AbsRunning == IF CallingNow THEN Head(CallBatch) ELSE None
AbsDropping == UNION {ToSet(batch[r]) : r \in {r \in Runners : Dropping(r)}}

\* At most one runner is calling: CHOOSE finds it.
LEMMA ChosenCaller ==
    ASSUME NEW p, NEW r \in Runners, p[r] \in Calling,
           \A s \in Runners : p[s] \in Calling => s = r
    PROVE  (CHOOSE s \in Runners : p[s] \in Calling) = r
OBVIOUS

\* The batch that is being called, before a step.
LEMMA CallerBefore ==
    ASSUME Inv, NEW r \in Runners, rpc[r] \in Calling
    PROVE  CallBatch = batch[r] /\ (CallingNow <=> rpc[r] = "calling")
<1>1. \A s \in Runners : rpc[s] \in Calling => s = r
  BY DEF OneToken, HasToken, Calling
<1>2. (CHOOSE s \in Runners : rpc[s] \in Calling) = r
  BY <1>1, ChosenCaller
<1> QED
  BY <1>1, <1>2 DEF CallBatch, CallingNow, Calling

\* The batch that is being called, after a step.
LEMMA CallerAfter ==
    ASSUME Inv', NEW r \in Runners, rpc'[r] \in Calling
    PROVE  CallBatch' = batch'[r] /\ (CallingNow' <=> rpc'[r] = "calling")
<1>1. \A s \in Runners : rpc'[s] \in Calling => s = r
  BY DEF OneToken, HasToken, Calling
<1>2. (CHOOSE s \in Runners : rpc'[s] \in Calling) = r
  BY <1>1, ChosenCaller
<1> QED
  BY <1>1, <1>2 DEF CallBatch, CallingNow, Calling

\* Nobody is calling.
LEMMA NoCaller ==
    /\ (\A r \in Runners : rpc[r] \notin Calling) => CallBatch = <<>> /\ ~CallingNow
    /\ (\A r \in Runners : rpc'[r] \notin Calling) => CallBatch' = <<>> /\ ~CallingNow'
BY DEF CallBatch, CallingNow, Calling

\* A step that does not touch the caller keeps its batch.
LEMMA CallerKept ==
    ASSUME Inv, Inv',
           \A s \in Runners :
               /\ rpc'[s] = "next" <=> rpc[s] = "next"
               /\ rpc'[s] = "calling" <=> rpc[s] = "calling"
               /\ rpc[s] \in Calling => batch'[s] = batch[s]
    PROVE  CallBatch' = CallBatch /\ (CallingNow' <=> CallingNow)
<1>1. ASSUME NEW r \in Runners, rpc[r] \in Calling
      PROVE  CallBatch' = CallBatch /\ (CallingNow' <=> CallingNow)
  <2>1. rpc'[r] \in Calling
    BY <1>1 DEF Calling
  <2> QED
    BY <1>1, <2>1, CallerBefore, CallerAfter
<1>2. ASSUME \A r \in Runners : rpc[r] \notin Calling
      PROVE  CallBatch' = CallBatch /\ (CallingNow' <=> CallingNow)
  <2>1. \A r \in Runners : rpc'[r] \notin Calling
    BY <1>2 DEF Calling
  <2> QED
    BY <1>2, <2>1, NoCaller
<1> QED
  BY <1>1, <1>2

\* The lists the abstract queue is made of.
LEMMA AbsTypes ==
    ASSUME Inv
    PROVE  /\ CallBatch \in Seq(Jobs) /\ (CallingNow => CallBatch # <<>>)
           /\ Waiting \in Seq(Jobs)
           /\ Stack \in Seq(Jobs)
           /\ ToSet(Waiting) = ToSet(Stack)
           /\ ToSet(CallBatch) # {} => \E r \in Runners : CallBatch = batch[r]
<1>1. Waiting \in Seq(Jobs) /\ ToSet(Waiting) = ToSet(Stack) /\ Stack \in Seq(Jobs)
  BY StackType, ListReverse DEF Waiting, Stack
<1>2. ASSUME NEW r \in Runners, rpc[r] \in Calling
      PROVE  CallBatch = batch[r] /\ CallBatch \in Seq(Jobs) /\ CallBatch # <<>>
  BY <1>2, CallerBefore DEF TypeOK, Batches, Calling
<1>3. ASSUME \A r \in Runners : rpc[r] \notin Calling
      PROVE  CallBatch = <<>> /\ CallBatch \in Seq(Jobs) /\ ~CallingNow /\ ToSet(CallBatch) = {}
  BY <1>3, NoCaller, EmptySeq, ListEmpty
<1> QED
  BY <1>1, <1>2, <1>3

\* The strand starts as an empty serial executor.
LEMMA InitRefines == Init => Serial!Init
<1> SUFFICES ASSUME Init PROVE Serial!Init
  OBVIOUS
<1>1. Inv
  BY InitInv
<1>2. CallBatch = <<>> /\ ~CallingNow
  BY NoCaller DEF Init, Calling
<1>3. AbsQueue = <<>> /\ AbsRunning = None
  BY <1>2, ListEmptyConcat, EmptySeq DEF AbsQueue, AbsRunning, Waiting, Init
<1>4. AbsDropping = {}
  BY DEF AbsDropping, Dropping, Init
<1> QED
  BY <1>3, <1>4 DEF Serial!Init, AbsQueue, AbsRunning, AbsDropping, Waiting, Init

\* Steps that leave the abstract state alone.
LEMMA Stutters ==
    ASSUME AbsQueue' = AbsQueue, AbsRunning' = AbsRunning, AbsDropping' = AbsDropping,
           called' = called
    PROVE  [Serial!Next]_Serial!vars
BY DEF Serial!vars, AbsQueue, AbsRunning, AbsDropping, Waiting

\* The abstract actions, in terms of the abstract state.
LEMMA SubmitMaps ==
    ASSUME NEW j \in Jobs, j \notin ToSet(AbsQueue), j # AbsRunning, j \notin AbsDropping,
           j \notin called, AbsQueue' = Append(AbsQueue, j), AbsRunning' = AbsRunning,
           AbsDropping' = AbsDropping, called' = called
    PROVE  Serial!Submit(j)
<1>1. j \notin ToSet(AbsQueue) \cup {AbsRunning} \cup AbsDropping \cup called
  OBVIOUS
<1> QED
  BY <1>1 DEF Serial!Submit, Serial!ToSet, ToSet, AbsQueue, AbsRunning, AbsDropping, Waiting

\* Start and Finish.
LEMMA RunMaps ==
    /\ /\ AbsRunning = None /\ AbsQueue # <<>>
       /\ AbsRunning' = Head(AbsQueue) /\ AbsQueue' = Tail(AbsQueue)
       /\ AbsDropping' = AbsDropping /\ called' = called
       => Serial!Start
    /\ /\ AbsRunning # None /\ AbsRunning' = None
       /\ called' = called \cup {AbsRunning}
       /\ AbsQueue' = AbsQueue /\ AbsDropping' = AbsDropping
       => Serial!Finish
BY DEF Serial!Start, Serial!Finish, AbsQueue, AbsRunning, AbsDropping, Waiting

\* Reject.
LEMMA RejectMaps ==
    ASSUME AbsRunning = None, AbsQueue # <<>>, AbsQueue' = <<>>, AbsRunning' = AbsRunning,
           AbsDropping' = AbsDropping \cup ToSet(AbsQueue), called' = called
    PROVE  Serial!Reject
BY DEF Serial!Reject, Serial!ToSet, ToSet, AbsQueue, AbsRunning, AbsDropping, Waiting

\* Drop.
LEMMA DropMaps ==
    ASSUME NEW j \in Jobs, j \in AbsDropping, AbsDropping' = AbsDropping \ {j},
           called' = called \cup {j}, AbsQueue' = AbsQueue, AbsRunning' = AbsRunning
    PROVE  Serial!Drop(j)
BY DEF Serial!Drop, AbsQueue, AbsRunning, AbsDropping, Waiting

\* Submitters before and after the compare-exchange, and the user.
LEMMA QuietStep ==
    ASSUME Inv, Inv', UNCHANGED <<jobs, rpc, batch, called>>
    PROVE  [Serial!Next]_Serial!vars
<1>1. CallBatch' = CallBatch /\ (CallingNow' <=> CallingNow)
  BY CallerKept
<1>2. AbsQueue' = AbsQueue /\ AbsRunning' = AbsRunning
  BY <1>1 DEF AbsQueue, AbsRunning, Waiting
<1>3. AbsDropping' = AbsDropping
  BY DEF AbsDropping, Dropping
<1> QED
  BY <1>2, <1>3, Stutters

\* A runner goes on without starting or finishing a job.
LEMMA RunnerStep ==
    ASSUME Inv, Inv', NEW r \in Runners, NEW x, rpc' = [rpc EXCEPT ![r] = x],
           rpc[r] \notin Calling, x \notin Calling, Dropping(r)' <=> Dropping(r),
           UNCHANGED <<batch, called>>, Waiting' = Waiting
    PROVE  [Serial!Next]_Serial!vars
<1>0. \A s \in Runners : rpc'[s] = IF s = r THEN x ELSE rpc[s]
  BY DEF TypeOK
<1>1. CallBatch' = CallBatch /\ (CallingNow' <=> CallingNow)
  BY <1>0, CallerKept DEF Calling
<1>2. AbsQueue' = AbsQueue /\ AbsRunning' = AbsRunning
  BY <1>1 DEF AbsQueue, AbsRunning
<1>3. \A s \in Runners : Dropping(s)' <=> Dropping(s)
  BY <1>0 DEF Dropping
<1>4. {s \in Runners : Dropping(s)}' = {s \in Runners : Dropping(s)}
  BY <1>3
<1>5. AbsDropping' = AbsDropping
  BY <1>4 DEF AbsDropping
<1> QED
  BY <1>2, <1>5, Stutters

\* The executor below hands the strand to a runner.
LEMMA ExecuteRefines ==
    ASSUME Inv, Inv', NEW r \in Runners, Execute(r)
    PROVE  [Serial!Next]_Serial!vars
<1>1. PICK x \in {"call", "drop"} : rpc' = [rpc EXCEPT ![r] = x]
  BY DEF Execute
<1>2. rpc[r] \notin Calling /\ x \notin Calling /\ (Dropping(r)' <=> Dropping(r))
  BY <1>1 DEF Execute, Calling, Dropping, TypeOK
<1>3. UNCHANGED <<batch, called>> /\ Waiting' = Waiting
  BY DEF Execute, Waiting
<1> QED
  BY <1>1, <1>2, <1>3, RunnerStep

\* The runner gives the strand up, or queues it again.
LEMMA ReleaseRefines ==
    ASSUME Inv, Inv', NEW r \in Runners, Release(r)
    PROVE  [Serial!Next]_Serial!vars
<1>1. rpc' = [rpc EXCEPT ![r] = "idle"]
  BY DEF Release
<1>2. rpc[r] \notin Calling /\ "idle" \notin Calling /\ (Dropping(r)' <=> Dropping(r))
  BY <1>1 DEF Release, Calling, Dropping, TypeOK
<1>3. Waiting' = Waiting
  BY ListEmptyConcat, EmptySeq DEF Release, Waiting
<1>4. UNCHANGED <<batch, called>>
  BY DEF Release
<1> QED
  BY <1>1, <1>2, <1>3, <1>4, RunnerStep

\* Job::Drop begins.
LEMMA DropBeginRefines ==
    ASSUME Inv, Inv', NEW r \in Runners, DropBegin(r)
    PROVE  [Serial!Next]_Serial!vars
<1>1. rpc' = [rpc EXCEPT ![r] = "dropping"]
  BY DEF DropBegin
<1>2. rpc[r] \notin Calling /\ "dropping" \notin Calling /\ (Dropping(r)' <=> Dropping(r))
  BY <1>1 DEF DropBegin, Calling, Dropping, TypeOK
<1>3. UNCHANGED <<batch, called>> /\ Waiting' = Waiting
  BY DEF DropBegin, Waiting
<1> QED
  BY <1>1, <1>2, <1>3, RunnerStep

\* The push is the abstract Submit: the job comes last in the queue.
LEMMA SubmitCasRefines ==
    ASSUME Inv, Inv', NEW j \in Jobs, SubmitCas(j)
    PROVE  [Serial!Next]_Serial!vars
<1>1. CASE HeadPointer(jobs) # expected[j]
  BY <1>1, QuietStep DEF SubmitCas
<1>2. CASE HeadPointer(jobs) = expected[j]
  <2>0. UNCHANGED <<rpc, batch, called>> /\ pc[j] = "cas"
    BY DEF SubmitCas
  <2>1. CallBatch' = CallBatch /\ (CallingNow' <=> CallingNow)
    BY <2>0, CallerKept
  <2>2. AbsRunning' = AbsRunning /\ AbsDropping' = AbsDropping
    BY <2>0, <2>1 DEF AbsRunning, AbsDropping, Dropping
  <2>3. Waiting' = Append(Waiting, j)
    <3>1. jobs' = <<j>> \o Stack /\ jobs' # Mark
      <4>1. jobs' = <<j>> \o Stack
        BY <1>2, ListEmptyConcat, ListSingle DEF SubmitCas, Stack
      <4>2. jobs' \in Seq(Jobs)
        BY <4>1, StackType, ListPush
      <4> QED
        BY <4>1, <4>2, StackType
    <3>2. Waiting = Reverse(Stack)
      BY ListEmptyConcat, EmptySeq DEF Waiting, Stack
    <3> QED
      BY <3>1, <3>2, StackType, ListReversePush DEF Waiting
  <2> DEFINE first == IF CallingNow THEN Tail(CallBatch) ELSE CallBatch
  <2>4. first \in Seq(Jobs) /\ ToSet(first) \subseteq ToSet(CallBatch)
    BY AbsTypes, ListPop
  <2>5. AbsQueue = first \o Waiting /\ AbsQueue' = first \o Waiting'
    BY <2>1 DEF AbsQueue
  <2>6. AbsQueue' = Append(AbsQueue, j)
    <3> HIDE DEF first
    <3> QED
      BY <2>3, <2>4, <2>5, AbsTypes, ListConcatAppend
  <2>7. Fresh(j)
    BY <2>0 DEF OnePlace
  <2>8. j \notin ToSet(CallBatch)
    BY <2>7, AbsTypes DEF Fresh
  <2>9. j \notin ToSet(AbsQueue)
    <3> HIDE DEF first
    <3> QED
      BY <2>4, <2>5, <2>7, <2>8, AbsTypes, ListConcat DEF Fresh
  <2>10. j # AbsRunning /\ j \notin called
    <3>1. ASSUME CallingNow PROVE Head(CallBatch) \in ToSet(CallBatch)
      <4>1. CallBatch \in Seq(Jobs) /\ CallBatch # <<>>
        BY <3>1, AbsTypes
      <4> QED
        BY <4>1, ListPop
    <3> QED
      BY <2>7, <2>8, <3>1, MarkAssumption DEF AbsRunning, Fresh
  <2>11. j \notin AbsDropping
    BY <2>7 DEF AbsDropping, Fresh, Dropping
  <2>12. Serial!Submit(j)
    <3> HIDE DEF first
    <3> QED
      BY <2>0, <2>2, <2>6, <2>9, <2>10, <2>11, SubmitMaps
  <2> QED
    BY <2>12 DEF Serial!Next
<1> QED
  BY <1>1, <1>2

\* Nobody else is calling while a runner has the token in another state.
LEMMA TokenAlone ==
    ASSUME Inv, NEW r \in Runners, HasToken(r), rpc[r] \notin Calling
    PROVE  /\ \A s \in Runners : rpc[s] \notin Calling
           /\ jobs # Mark /\ Stack = jobs /\ jobs \in Seq(Jobs)
           /\ AbsQueue = Reverse(jobs) /\ AbsRunning = None
<1>1. \A s \in Runners : rpc[s] \notin Calling
  BY DEF OneToken, HasToken, Calling
<1>2. jobs # Mark /\ Stack = jobs /\ jobs \in Seq(Jobs)
  BY StackType DEF MarkMeansFree
<1>3. CallBatch = <<>> /\ ~CallingNow
  BY <1>1, NoCaller
<1>4. AbsQueue = Reverse(jobs) /\ AbsRunning = None
  BY <1>2, <1>3, ListReverse, ListEmptyConcat DEF AbsQueue, AbsRunning, Waiting
<1> QED
  BY <1>1, <1>2, <1>4

\* Taking the stack for Call turns it into the batch, in the same order.
LEMMA CallTakeRefines ==
    ASSUME Inv, Inv', NEW r \in Runners, CallTake(r)
    PROVE  [Serial!Next]_Serial!vars
<1>0. /\ rpc[r] = "call" /\ rpc' = [rpc EXCEPT ![r] = "next"]
      /\ jobs' = <<>> /\ batch' = [batch EXCEPT ![r] = Reverse(jobs)] /\ called' = called
  BY DEF CallTake
<1>1. /\ jobs # Mark /\ jobs \in Seq(Jobs)
      /\ AbsQueue = Reverse(jobs) /\ AbsRunning = None
  BY <1>0, TokenAlone DEF HasToken, Calling
<1>2. rpc'[r] = "next" /\ batch'[r] = Reverse(jobs)
  BY <1>0 DEF TypeOK
<1>3. CallBatch' = Reverse(jobs) /\ ~CallingNow'
  BY <1>2, CallerAfter DEF Calling
<1>4. Waiting' = <<>>
  BY <1>0, ListEmptyConcat, EmptySeq DEF Waiting
<1>5. AbsQueue' = AbsQueue /\ AbsRunning' = AbsRunning
  BY <1>1, <1>3, <1>4, ListReverse, ListEmptyConcat DEF AbsQueue, AbsRunning
<1>6. \A s \in Runners : /\ Dropping(s)' <=> Dropping(s)
                         /\ Dropping(s) => batch'[s] = batch[s]
  BY <1>0 DEF Dropping, TypeOK
<1>7. AbsDropping' = AbsDropping
  BY <1>6 DEF AbsDropping
<1> QED
  BY <1>0, <1>5, <1>7, Stutters

\* Job::Call begins: the first job of the abstract queue starts.
LEMMA CallBeginRefines ==
    ASSUME Inv, Inv', NEW r \in Runners, CallBegin(r)
    PROVE  [Serial!Next]_Serial!vars
<1>0. /\ rpc[r] = "next" /\ rpc' = [rpc EXCEPT ![r] = "calling"]
      /\ UNCHANGED <<jobs, batch, called>>
  BY DEF CallBegin
<1>1. CallBatch = batch[r] /\ ~CallingNow
  BY <1>0, CallerBefore DEF Calling
<1>2. CallBatch' = batch[r] /\ CallingNow'
  BY <1>0, CallerAfter DEF Calling, TypeOK
<1>3. Waiting' = Waiting /\ Waiting \in Seq(Jobs) /\ batch[r] \in Seq(Jobs) /\ batch[r] # <<>>
  BY <1>0, AbsTypes DEF Waiting, TypeOK, Batches
<1>4. /\ AbsQueue = batch[r] \o Waiting /\ AbsRunning = None
      /\ AbsQueue' = Tail(batch[r]) \o Waiting /\ AbsRunning' = Head(batch[r])
  BY <1>1, <1>2, <1>3 DEF AbsQueue, AbsRunning
<1>5. AbsQueue # <<>> /\ AbsRunning' = Head(AbsQueue) /\ AbsQueue' = Tail(AbsQueue)
  BY <1>3, <1>4, ListPopConcat
<1>6. \A s \in Runners : Dropping(s)' <=> Dropping(s)
  BY <1>0 DEF Dropping, TypeOK
<1>7. AbsDropping' = AbsDropping
  BY <1>0, <1>6 DEF AbsDropping
<1>8. Serial!Start
  BY <1>0, <1>4, <1>5, <1>7, RunMaps
<1> QED
  BY <1>8 DEF Serial!Next

\* Job::Call returns: the running job is finished.
LEMMA CallEndRefines ==
    ASSUME Inv, Inv', NEW r \in Runners, CallEnd(r)
    PROVE  [Serial!Next]_Serial!vars
<1> DEFINE x == IF Len(batch[r]) = 1 THEN "release" ELSE "next"
<1>0. /\ rpc[r] = "calling" /\ rpc' = [rpc EXCEPT ![r] = x]
      /\ called' = called \cup {Head(batch[r])}
      /\ batch' = [batch EXCEPT ![r] = Tail(@)]
      /\ UNCHANGED jobs
  BY DEF CallEnd
<1>1. CallBatch = batch[r] /\ CallingNow
  BY <1>0, CallerBefore DEF Calling
<1>2. /\ Waiting' = Waiting /\ Waiting \in Seq(Jobs)
      /\ batch[r] \in Seq(Jobs) /\ batch[r] # <<>> /\ Head(batch[r]) \in Jobs
  BY <1>0, AbsTypes, ListPop DEF Waiting, TypeOK, Batches
<1>3. AbsQueue = Tail(batch[r]) \o Waiting /\ AbsRunning = Head(batch[r])
  BY <1>1 DEF AbsQueue, AbsRunning
<1>4. /\ x \in {"release", "next"} /\ (x = "next" <=> Tail(batch[r]) # <<>>)
      /\ rpc'[r] = x /\ batch'[r] = Tail(batch[r])
      /\ \A s \in Runners : s # r => rpc'[s] = rpc[s] /\ batch'[s] = batch[s]
  BY <1>0, <1>2, LastOfBatch DEF TypeOK
<1> HIDE DEF x
<1>5. CallBatch' = Tail(batch[r]) /\ ~CallingNow'
  <2>1. CASE x = "next"
    BY <1>4, <2>1, CallerAfter DEF Calling
  <2>2. CASE x = "release"
    <3>1. \A s \in Runners : rpc'[s] \notin Calling
      BY <1>0, <1>4, <2>2 DEF OneToken, HasToken, Calling
    <3> QED
      BY <1>4, <2>2, <3>1, NoCaller
  <2> QED
    BY <1>4, <2>1, <2>2
<1>6. AbsQueue' = AbsQueue /\ AbsRunning' = None
  BY <1>2, <1>3, <1>5 DEF AbsQueue, AbsRunning
<1>7. \A s \in Runners : /\ Dropping(s)' <=> Dropping(s)
                         /\ Dropping(s) => batch'[s] = batch[s]
  BY <1>0, <1>4 DEF Dropping
<1>8. AbsDropping' = AbsDropping
  BY <1>7 DEF AbsDropping
<1>9. Serial!Finish
  BY <1>0, <1>2, <1>3, <1>6, <1>8, MarkAssumption, RunMaps
<1> QED
  BY <1>9 DEF Serial!Next

\* The exchange in Drop: everything in the abstract queue is rejected.
LEMMA DropTakeRefines ==
    ASSUME Inv, Inv', NEW r \in Runners, DropTake(r)
    PROVE  [Serial!Next]_Serial!vars
<1>0. /\ rpc[r] = "drop" /\ rpc' = [rpc EXCEPT ![r] = "dropnext"]
      /\ jobs' = Mark /\ batch' = [batch EXCEPT ![r] = jobs] /\ called' = called
  BY DEF DropTake
<1>1. /\ jobs # Mark /\ jobs \in Seq(Jobs) /\ AbsQueue = Reverse(jobs) /\ AbsRunning = None
      /\ \A s \in Runners : rpc[s] \notin Calling
  BY <1>0, TokenAlone DEF HasToken, Calling
<1>2. /\ rpc'[r] = "dropnext" /\ batch'[r] = jobs /\ batch[r] = <<>>
      /\ \A s \in Runners : s # r => rpc'[s] = rpc[s] /\ batch'[s] = batch[s]
  BY <1>0 DEF TypeOK, Batches
<1>3. jobs # <<>>
  BY <1>2 DEF Batches
<1>4. AbsQueue # <<>> /\ ToSet(AbsQueue) = ToSet(jobs)
  <2>1. Reverse(jobs) \in Seq(Jobs) /\ Len(Reverse(jobs)) = Len(jobs) /\ ToSet(Reverse(jobs)) = ToSet(jobs)
    BY <1>1, ListReverse
  <2> QED
    BY <1>1, <1>3, <2>1, ListElements
<1>5. \A s \in Runners : rpc'[s] \notin Calling
  BY <1>1, <1>2 DEF Calling
<1>6. AbsQueue' = <<>> /\ AbsRunning' = None
  BY <1>0, <1>5, NoCaller, ListEmptyConcat, EmptySeq DEF AbsQueue, AbsRunning, Waiting
<1>7. \A s \in Runners : Dropping(s)' <=> Dropping(s) \/ s = r
  BY <1>2 DEF Dropping
<1>8. ~Dropping(r)
  BY <1>0 DEF Dropping
<1>9. AbsDropping' = AbsDropping \cup ToSet(AbsQueue)
  <2>1. \A y : y \in AbsDropping' <=> \E s \in Runners : Dropping(s)' /\ y \in ToSet(batch'[s])
    BY DEF AbsDropping
  <2>2. \A y : y \in AbsDropping <=> \E s \in Runners : Dropping(s) /\ y \in ToSet(batch[s])
    BY DEF AbsDropping
  <2> QED
    BY <1>2, <1>4, <1>7, <1>8, <2>1, <2>2
<1>10. Serial!Reject
  BY <1>0, <1>1, <1>4, <1>6, <1>9, RejectMaps
<1> QED
  BY <1>10 DEF Serial!Next

\* Job::Drop returns: the rejected job is finished, whoever else is calling.
LEMMA DropEndRefines ==
    ASSUME Inv, Inv', NEW r \in Runners, DropEnd(r)
    PROVE  [Serial!Next]_Serial!vars
<1> DEFINE x == IF Len(batch[r]) = 1 THEN "idle" ELSE "dropnext"
           job == Head(batch[r])
<1>0. /\ rpc[r] = "dropping" /\ rpc' = [rpc EXCEPT ![r] = x]
      /\ called' = called \cup {job}
      /\ batch' = [batch EXCEPT ![r] = Tail(@)]
      /\ UNCHANGED jobs
  BY DEF DropEnd
<1>1. batch[r] \in Seq(Jobs) /\ batch[r] # <<>> /\ IsInjective(batch[r])
  BY <1>0 DEF TypeOK, Batches, OnePlace
<1>2. /\ job \in Jobs /\ job \notin ToSet(Tail(batch[r]))
      /\ ToSet(batch[r]) = {job} \cup ToSet(Tail(batch[r]))
  BY <1>1, ListPop
<1>3. /\ x \in {"idle", "dropnext"} /\ (x = "dropnext" <=> Tail(batch[r]) # <<>>)
      /\ rpc'[r] = x /\ batch'[r] = Tail(batch[r])
      /\ \A s \in Runners : s # r => rpc'[s] = rpc[s] /\ batch'[s] = batch[s]
  BY <1>0, <1>1, LastOfBatch DEF TypeOK
<1> HIDE DEF x, job
<1>4. CallBatch' = CallBatch /\ (CallingNow' <=> CallingNow)
  BY <1>0, <1>3, CallerKept DEF Calling
<1>5. AbsQueue' = AbsQueue /\ AbsRunning' = AbsRunning
  BY <1>0, <1>4 DEF AbsQueue, AbsRunning, Waiting
<1>6. /\ Dropping(r) /\ (Dropping(r)' <=> x = "dropnext")
      /\ \A s \in Runners : s # r => (Dropping(s)' <=> Dropping(s)) /\ job \notin ToSet(batch[s])
  BY <1>0, <1>2, <1>3 DEF Dropping, OnePlace
<1>7. x # "dropnext" => ToSet(Tail(batch[r])) = {}
  BY <1>3, ListEmpty
<1>8. AbsDropping' = AbsDropping \ {job} /\ job \in AbsDropping
  <2>1. \A y : y \in AbsDropping' <=> \E s \in Runners : Dropping(s)' /\ y \in ToSet(batch'[s])
    BY DEF AbsDropping
  <2>2. \A y : y \in AbsDropping <=> \E s \in Runners : Dropping(s) /\ y \in ToSet(batch[s])
    BY DEF AbsDropping
  <2>3. job \in AbsDropping
    BY <1>2, <1>6, <2>2
  <2>4. ASSUME NEW y PROVE y \in AbsDropping' <=> y \in AbsDropping /\ y # job
    BY <1>2, <1>3, <1>6, <1>7, <2>1, <2>2
  <2> QED
    BY <2>3, <2>4
<1>9. Serial!Drop(job)
  BY <1>0, <1>2, <1>5, <1>8, DropMaps
<1> QED
  BY <1>2, <1>9 DEF Serial!Next

\* Every step of the strand is a step of the serial executor, or none.
LEMMA NextRefines == Inv /\ Inv' /\ [Next]_vars => [Serial!Next]_Serial!vars
<1> SUFFICES ASSUME Inv, Inv', [Next]_vars PROVE [Serial!Next]_Serial!vars
  OBVIOUS
<1>1. ASSUME NEW j \in Jobs, Submit(j) PROVE [Serial!Next]_Serial!vars
  <2>1. SubmitLoad(j) \/ SubmitStrand(j) => UNCHANGED <<jobs, rpc, batch, called>>
    BY DEF SubmitLoad, SubmitStrand
  <2> QED
    BY <1>1, <2>1, QuietStep, SubmitCasRefines DEF Submit
<1>2. ASSUME NEW r \in Runners, Execute(r) \/ Call(r) \/ Drop(r)
      PROVE  [Serial!Next]_Serial!vars
  BY <1>2, ExecuteRefines, CallTakeRefines, CallBeginRefines, CallEndRefines,
     ReleaseRefines, DropTakeRefines, DropBeginRefines, DropEndRefines DEF Call, Drop
<1>3. CASE UserRelease \/ Terminating \/ UNCHANGED vars
  BY <1>3, QuietStep DEF UserRelease, Terminating, vars
<1> QED
  BY <1>1, <1>2, <1>3 DEF Next

\* The strand implements the serial executor, whatever the executor below and
\* the submitters do: calls never overlap, they start in the order in which the
\* jobs were pushed, and Strand::Drop drops exactly what is queued.
THEOREM StrandIsSerial == Spec => ImplementsSerialExecutor
BY Invariance, InitRefines, NextRefines, PTL DEF Spec, ImplementsSerialExecutor, Serial!Spec

------------------------------------------------------------------------------
(***************************************************************************)
(* The chains of lazy tasks (Tasks).                                       *)
(*                                                                         *)
(* A chain is at one of its stages, k: before it every core is freed but   *)
(* the one whose result stage k is about to read (and what the coroutine   *)
(* in that one has kept of an Await), and after it no core has been        *)
(* touched.  The rest of the invariant says where in stage k the chain is: *)
(* with an executor, in the body of a coroutine, with a promise, called by *)
(* the stage before, inside the Task or Future that its functor has        *)
(* returned, called by that, or at the end.                                *)
(***************************************************************************)

CONSTANTS MaxThen, MaxHops, Executors, Empty, kResult, DropCore

VARIABLES mem, len, act, queue, promised, frames, user, hops, cancelled, first

T == INSTANCE Tasks

Fields == {"kind", "st", "slot", "word", "exec", "next", "popped", "fn"}
HeadKinds == {"ready", "run", "promise", "coro"}
ThenKinds == {"then", "thenInline"}

\* A memory: cores and their fields.
IsMem(m) == DOMAIN m = T!Cores /\ \A d \in T!Cores : DOMAIN m[d] = Fields

Unborn(c) == mem[c] = T!NoCore("unborn")
Freed(c) == mem[c] = T!NoCore("freed")
Late(c) == mem[c] = T!NoCore("late")
Absent(c) == Unborn(c) \/ Freed(c) \/ Late(c)
NoCores == {T!NoCore("unborn"), T!NoCore("freed"), T!NoCore("late")}

\* A core that may be freed.
Resolved(c) == mem[c].st = "alive" /\ mem[c].word = kResult /\ mem[c].fn # "stored"

\* The Task or Future inside stage j is over, or the coroutine has kept it.
Kept(j) == j = 0 /\ mem[<<0, 0>>].kind = "coro" /\ Resolved(<<j, 1>>)
Over(j) == Absent(<<j, 1>>) \/ Kept(j)

\* The callback of a stage until it has its result.
Link(j) == IF j < len THEN <<j + 1, 0>> ELSE IF user = "gone" THEN DropCore ELSE Empty

\* A stage without its result.
Pending(j) ==
    /\ mem[<<j, 0>>].st = "alive" /\ mem[<<j, 0>>].word = Link(j)
    /\ mem[<<j, 0>>].kind \in IF j = 0 THEN HeadKinds ELSE ThenKinds

\* A continuation that nobody has called.
New(j) ==
    /\ Pending(j) /\ mem[<<j, 0>>].fn = "stored" /\ mem[<<j, 0>>].slot = T!Self(None, FALSE)
    /\ Unborn(<<j, 1>>)

\* Whose turn it is: nobody's, that of a job in an executor or called by it, that
\* of a core with another activity, or that of a promise.
Resting == act = T!Idle /\ queue = {} /\ promised = {}
Given(c) ==
    \/ act = T!Idle /\ promised = {} /\ \E e \in {"pool", "manual"} : queue = {<<e, c>>}
    \/ act.op \in {"call", "drop"} /\ act.core = c /\ act.from = None /\ queue = {} /\ promised = {}
Acts(o, c, p) == act.op = o /\ act.core = c /\ act.from = p /\ queue = {} /\ promised = {}
Owed(c) == act = T!Idle /\ queue = {} /\ promised = {c}

\* Stage k is with an executor, and will read the result of the stage before it.
Unread(k) ==
    LET c == <<k, 0>>
    IN /\ k <= len /\ Pending(k) /\ Given(c) /\ mem[c].exec # None
       /\ mem[c].fn = IF mem[c].kind \in {"ready", "coro"} THEN "none" ELSE "stored"
       /\ Over(k) /\ (mem[c].kind # "coro" => Unborn(<<k, 1>>))
       /\ k > 0 => Resolved(<<k - 1, 0>>) /\ mem[c].slot = T!Self(<<k - 1, 0>>, FALSE)

\* The coroutine at the head runs.
Body(k) ==
    LET c == <<k, 0>>
    IN /\ k = 0 /\ Pending(k) /\ mem[c].kind = "coro" /\ mem[c].fn = "none" /\ mem[c].exec # None
       /\ Acts("body", c, None) /\ Over(k)

\* The head waits for its promise.
ByPromise(k) ==
    LET c == <<k, 0>>
    IN /\ k = 0 /\ Pending(k) /\ mem[c].kind = "promise" /\ mem[c].fn = "gone" /\ mem[c].exec # None
       /\ Owed(c) /\ Unborn(<<k, 1>>)

\* The stage before k calls stage k, or the Drop callback after the last one.
Arrived(k) ==
    /\ k > 0 /\ Resolved(<<k - 1, 0>>) /\ mem[<<k - 1, 0>>].exec # None
    /\ k <= len => New(k) /\ Acts("here", <<k, 0>>, <<k - 1, 0>>)
    /\ k > len => user = "gone" /\ Acts("here", DropCore, <<k - 1, 0>>)

\* Stage k waits for the Task or Future that it has got.
Outer(k) ==
    LET c == <<k, 0>>
    IN /\ k <= len /\ Pending(k) /\ mem[c].exec # None
       /\ k > 0 => Freed(<<k - 1, 0>>)
       /\ \/ mem[c].kind = "coro" /\ mem[c].fn = "none"
          \/ /\ mem[c].kind \in {"run", "then", "thenInline"} /\ mem[c].fn = "gone"
             /\ mem[c].slot = T!Self(<<k, 1>>, mem[c].kind # "run")

Inside(k) ==
    LET i == <<k, 1>>
    IN /\ Outer(k) /\ mem[i].st = "alive" /\ mem[i].word = <<k, 0>> /\ mem[i].exec # None
       /\ mem[i].fn = IF mem[i].kind = "chain" THEN "stored" ELSE "none"
       /\ \/ mem[i].kind \in {"ready", "coro", "chain"} /\ Acts("here", i, <<k, 0>>)
          \/ mem[i].kind = "coro" /\ (Given(i) \/ Acts("body", i, None))
          \/ mem[i].kind = "future" /\ Owed(i)

Returned(k) ==
    Outer(k) /\ Resolved(<<k, 1>>) /\ mem[<<k, 1>>].exec # None /\ Acts("here", <<k, 0>>, <<k, 1>>)

\* All stages have their results; the owner of the Future may have the last.
Ended(k) ==
    /\ k = len + 1 /\ Resting
    /\ IF user = "future" THEN Resolved(<<k - 1, 0>>) ELSE Freed(<<k - 1, 0>>)

\* As long as no functor of a cancelled chain has run, every result is StopTag.
Stopping(k) ==
    cancelled /\ first = None =>
        /\ k = 0 => act.op = "drop"
        /\ k <= len => Unborn(<<k, 1>>)
        /\ \A c \in T!Cores : mem[c].word = kResult => mem[c].slot.result = "stop"

\* Before stage k all is over, after it nothing has begun.
Around(k) ==
    /\ k \in Nat /\ k <= len + 1 /\ user \in {"future", "gone"}
    /\ \A c \in T!Cores : mem[c].next = None
    /\ \A j \in 0 .. len : j > k => New(j)
    /\ \A j \in 0 .. len : j < k => Over(j)
    /\ \A j \in 0 .. len : j + 1 < k => Freed(<<j, 0>>)

At(k) == Unread(k) \/ Body(k) \/ ByPromise(k) \/ Arrived(k) \/ Inside(k) \/ Returned(k) \/ Ended(k)

Going(k) == Around(k) /\ At(k) /\ Stopping(k)

\* A Task that has not been started, and nothing at all.
Building ==
    /\ user = "task" /\ Resting /\ ~cancelled /\ first = None
    /\ Pending(0) /\ Unborn(<<0, 1>>) /\ mem[<<0, 0>>].exec # None /\ mem[<<0, 0>>].next = None
    /\ mem[<<0, 0>>].fn = IF mem[<<0, 0>>].kind \in {"ready", "coro"} THEN "none" ELSE "stored"
    /\ \A j \in 1 .. len : New(j) /\ mem[<<j, 0>>].next = <<j - 1, 0>>

Unmade == user = "none" /\ Resting /\ ~cancelled /\ first = None /\ len = 0 /\ \A c \in T!Cores : Unborn(c)

TaskFrame ==
    /\ IsMem(mem) /\ len \in 0 .. MaxThen
    /\ \A j \in len + 1 .. MaxThen : Unborn(<<j, 0>>) /\ Unborn(<<j, 1>>)
    /\ cancelled \in BOOLEAN /\ (cancelled => first # "value")

TaskInv == TaskFrame /\ (Unmade \/ Building \/ \E k \in 0 .. len + 1 : Going(k))

\* What the constants are told apart from.
LEMMA TaskConstants ==
    ASSUME T!ConstantsAssumption
    PROVE  /\ MaxThen \in Nat
           /\ Executors \subseteq {"inline", "stop", "pool", "manual"}
           /\ None \notin Executors /\ None # "inline" /\ None # "stop"
           /\ None \notin T!Signatures /\ None \notin T!Cores
           /\ Empty \notin T!Cores /\ Empty # kResult /\ Empty # DropCore
           /\ kResult \notin T!Cores /\ kResult # DropCore /\ DropCore \notin T!Cores
BY DEF T!ConstantsAssumption, T!Signatures

\* A core is the core of a stage or the one inside it.
LEMMA CoreNames ==
    ASSUME T!ConstantsAssumption
    PROVE  /\ \A j \in 0 .. MaxThen : <<j, 0>> \in T!Cores /\ <<j, 1>> \in T!Cores
           /\ \A c \in T!Cores : \E j \in 0 .. MaxThen : c = <<j, 0>> \/ c = <<j, 1>>
           /\ \A j \in 0 .. MaxThen : T!Stage(j) = <<j, 0>> /\ T!Inner(<<j, 0>>) = <<j, 1>>
BY TaskConstants DEF T!Cores, T!Stage, T!Inner

\* A core that is born.
LEMMA CoreFields ==
    ASSUME NEW k, NEW e, NEW v
    PROVE  /\ DOMAIN T!Core(k, e, v) = Fields
           /\ T!Core(k, e, v).kind = k /\ T!Core(k, e, v).st = "alive"
           /\ T!Core(k, e, v).slot = v /\ T!Core(k, e, v).word = Empty
           /\ T!Core(k, e, v).exec = e /\ T!Core(k, e, v).next = None
           /\ T!Core(k, e, v).fn = IF k \in {"run", "promise", "then", "thenInline", "chain"} THEN "stored" ELSE "none"
BY DEF T!Core, Fields

\* A core that is not there.
LEMMA NoCoreFields ==
    ASSUME NEW s
    PROVE  /\ DOMAIN T!NoCore(s) = Fields
           /\ T!NoCore(s).st = s /\ T!NoCore(s).word = Empty
           /\ T!NoCore(s).exec = None /\ T!NoCore(s).next = None
           /\ T!NoCore(s).fn = "none" /\ T!NoCore(s).kind = "none"
BY DEF T!NoCore, Fields

\* The end of a core that may be freed.
LEMMA Ends ==
    ASSUME NEW x, x.st = "alive", x.word = kResult, x.fn # "stored"
    PROVE  T!Gone(x) = T!NoCore("freed") /\ T!Destroyed(x) \in {T!NoCore("freed"), T!NoCore("late")}
<1>1. T!Gone(x) = T!NoCore("freed")
  BY DEF T!Gone
<1> QED
  BY <1>1 DEF T!Destroyed

\* DecRef of the core inside a stage.
LEMMA DecRefInner ==
    ASSUME T!ConstantsAssumption, NEW m, IsMem(m), NEW j \in 0 .. MaxThen,
           m[<<j, 1>>].st = "alive", m[<<j, 1>>].word = kResult, m[<<j, 1>>].fn # "stored"
    PROVE  /\ IsMem(T!DecRef(m, <<j, 1>>)) /\ T!DecRef(m, <<j, 1>>)[<<j, 1>>] = T!NoCore("freed")
           /\ \A d \in T!Cores : d # <<j, 1>> => T!DecRef(m, <<j, 1>>)[d] = m[d]
<1> DEFINE p == <<j, 1>>
<1>1. p \in T!Cores /\ T!Inner(p) = p
  BY CoreNames DEF T!Inner
<1>2. T!Gone(m[p]) = T!NoCore("freed")
  BY Ends
<1> HIDE DEF p
<1>3. T!DecRef(m, p) = [m EXCEPT ![p] = T!Gone(m[p]), ![p] = @]
  BY <1>1, Zenon DEF T!DecRef
<1>4. /\ DOMAIN T!DecRef(m, p) = T!Cores /\ T!DecRef(m, p)[p] = T!NoCore("freed")
      /\ \A d \in T!Cores : d # p => T!DecRef(m, p)[d] = m[d]
  BY <1>1, <1>2, <1>3 DEF IsMem
<1>5. DOMAIN T!NoCore("freed") = Fields
  BY NoCoreFields
<1> QED
  BY <1>1, <1>4, <1>5 DEF IsMem, p

\* DecRef of the core of a stage, which takes along what its coroutine has kept.
LEMMA DecRefStage ==
    ASSUME T!ConstantsAssumption, NEW m, IsMem(m), NEW j \in 0 .. MaxThen,
           m[<<j, 0>>].st = "alive", m[<<j, 0>>].word = kResult, m[<<j, 0>>].fn # "stored",
           \/ m[<<j, 1>>] \in NoCores
           \/ /\ m[<<j, 0>>].kind = "coro"
              /\ m[<<j, 1>>].st = "alive" /\ m[<<j, 1>>].word = kResult /\ m[<<j, 1>>].fn # "stored"
    PROVE  /\ IsMem(T!DecRef(m, <<j, 0>>)) /\ T!DecRef(m, <<j, 0>>)[<<j, 0>>] = T!NoCore("freed")
           /\ T!DecRef(m, <<j, 0>>)[<<j, 1>>] \in NoCores
           /\ \A d \in T!Cores : d # <<j, 0>> /\ d # <<j, 1>> => T!DecRef(m, <<j, 0>>)[d] = m[d]
<1> DEFINE p == <<j, 0>>
           i == <<j, 1>>
<1>1. p \in T!Cores /\ i \in T!Cores /\ p # i /\ T!Inner(p) = i
  BY CoreNames DEF T!Inner
<1>2. T!Gone(m[p]) = T!NoCore("freed")
  BY Ends
<1>3. PICK x : x = IF m[p].kind = "coro" /\ m[i].st = "alive" THEN T!Destroyed(m[i]) ELSE m[i]
  OBVIOUS
<1>4. x \in NoCores
  <2>1. m[i] \in NoCores => m[i].st # "alive"
    BY NoCoreFields DEF NoCores
  <2>2. CASE m[i] \in NoCores
    BY <1>3, <2>1, <2>2
  <2>3. CASE m[i] \notin NoCores
    <3>1. x = T!Destroyed(m[i])
      BY <1>3, <2>3
    <3>2. T!Destroyed(m[i]) \in {T!NoCore("freed"), T!NoCore("late")}
      BY <2>3, Ends
    <3> QED
      BY <3>1, <3>2 DEF NoCores
  <2> QED
    BY <2>2, <2>3
<1> HIDE DEF p, i
<1>5. T!DecRef(m, p) = [m EXCEPT ![p] = T!Gone(m[p]), ![i] = x]
  BY <1>1, <1>3 DEF T!DecRef, IsMem
<1>6. /\ DOMAIN T!DecRef(m, p) = T!Cores /\ T!DecRef(m, p)[p] = T!NoCore("freed")
      /\ T!DecRef(m, p)[i] = x
      /\ \A d \in T!Cores : d # p /\ d # i => T!DecRef(m, p)[d] = m[d]
  BY <1>1, <1>2, <1>5 DEF IsMem
<1>7. DOMAIN T!NoCore("freed") = Fields /\ \A y \in NoCores : DOMAIN y = Fields
  BY NoCoreFields DEF NoCores
<1> QED
  BY <1>1, <1>4, <1>6, <1>7 DEF IsMem, p, i

\* A stage that is freed has nothing kept.
LEMMA NothingKept ==
    ASSUME NEW j, Over(j), Freed(<<j, 0>>)
    PROVE  Absent(<<j, 1>>)
BY NoCoreFields DEF Over, Kept, Freed

\* What is inside a stage that may be freed.
LEMMA OverCore ==
    ASSUME NEW j, Over(j)
    PROVE  \/ mem[<<j, 1>>] \in NoCores
           \/ /\ mem[<<j, 0>>].kind = "coro"
              /\ mem[<<j, 1>>].st = "alive" /\ mem[<<j, 1>>].word = kResult /\ mem[<<j, 1>>].fn # "stored"
BY DEF Over, Kept, Absent, Unborn, Freed, Late, NoCores, Resolved

\* Nothing happens to it.
LEMMA OverStays ==
    ASSUME NEW j, Over(j), mem'[<<j, 0>>].kind = mem[<<j, 0>>].kind, mem'[<<j, 1>>] = mem[<<j, 1>>]
    PROVE  Over(j)'
BY DEF Over, Kept, Absent, Unborn, Freed, Late, Resolved

\* What stage k and the one before it do concerns the cores of these two.
Near(k) == IF k <= len THEN {<<k, 0>>, <<k, 1>>, <<k - 1, 0>>, <<k - 1, 1>>} ELSE {<<k - 1, 0>>, <<k - 1, 1>>}

\* The other cores.
LEMMA FarCores ==
    ASSUME T!ConstantsAssumption, len \in 0 .. MaxThen, NEW k \in Nat, k <= len + 1,
           NEW j \in 0 .. MaxThen
    PROVE  /\ j > k \/ j > len => <<j, 0>> \in T!Cores \ Near(k) /\ <<j, 1>> \in T!Cores \ Near(k)
           /\ j + 1 < k => <<j, 0>> \in T!Cores \ Near(k) /\ <<j, 1>> \in T!Cores \ Near(k)
<1>1. MaxThen \in Nat /\ <<j, 0>> \in T!Cores /\ <<j, 1>> \in T!Cores
  BY TaskConstants, CoreNames
<1>2. j > k \/ j > len => <<j, 0>> \notin Near(k) /\ <<j, 1>> \notin Near(k)
  BY <1>1 DEF Near
<1>3. j + 1 < k => <<j, 0>> \notin Near(k) /\ <<j, 1>> \notin Near(k)
  BY <1>1 DEF Near
<1> QED
  BY <1>1, <1>2, <1>3

\* The cores nearby.
LEMMA NearCores ==
    ASSUME T!ConstantsAssumption, len \in 0 .. MaxThen, NEW k \in Nat, k <= len,
           NEW c \in T!Cores \cap Near(k)
    PROVE  c = <<k, 0>> \/ c = <<k, 1>> \/ (k > 0 /\ (c = <<k - 1, 0>> \/ c = <<k - 1, 1>>))
BY CoreNames, TaskConstants DEF Near

\* The rest of the chain stays as it is.
LEMMA AroundKept ==
    ASSUME T!ConstantsAssumption, TaskFrame, NEW k \in Nat, k <= len + 1, Around(k),
           IsMem(mem)', \A d \in T!Cores \ Near(k) : mem'[d] = mem[d],
           \A d \in T!Cores \cap Near(k) : mem'[d].next = None, k > 0 => Over(k - 1)',
           UNCHANGED <<len, user, cancelled>>, cancelled => first' # "value"
    PROVE  TaskFrame' /\ Around(k)'
<1>1. len \in 0 .. MaxThen /\ MaxThen \in Nat
  BY TaskConstants DEF TaskFrame
<1>2. TaskFrame'
  <2>1. ASSUME NEW j \in len + 1 .. MaxThen PROVE Unborn(<<j, 0>>)' /\ Unborn(<<j, 1>>)'
    <3>1. j \in 0 .. MaxThen /\ j > len
      BY <1>1
    <3> QED
      BY <1>1, <2>1, <3>1, FarCores DEF TaskFrame, Unborn
  <2> QED
    BY <2>1 DEF TaskFrame
<1>3. \A c \in T!Cores : mem'[c].next = None
  BY DEF Around
<1>4. ASSUME NEW j \in 0 .. len, j > k PROVE New(j)'
  <2>1. mem'[<<j, 0>>] = mem[<<j, 0>>] /\ mem'[<<j, 1>>] = mem[<<j, 1>>]
    BY <1>1, <1>4, FarCores
  <2> QED
    BY <1>4, <2>1 DEF Around, New, Pending, Link, Unborn
<1>5. ASSUME NEW j \in 0 .. len, j + 1 < k PROVE Over(j)' /\ Freed(<<j, 0>>)'
  <2>1. j \in 0 .. MaxThen /\ j < k
    BY <1>1, <1>5
  <2>2. mem'[<<j, 1>>] = mem[<<j, 1>>] /\ mem'[<<j, 0>>] = mem[<<j, 0>>]
    BY <1>1, <1>5, <2>1, FarCores
  <2>3. Over(j)'
    BY <2>1, <2>2, OverStays DEF Around
  <2> QED
    BY <1>5, <2>2, <2>3 DEF Around, Freed
<1>6. /\ \A j \in 0 .. len : j > k => New(j)'
      /\ \A j \in 0 .. len : j < k => Over(j)'
  <2>1. \A j \in 0 .. len : j < k => j + 1 < k \/ (k > 0 /\ j = k - 1)
    BY <1>1
  <2> QED
    BY <1>4, <1>5, <2>1
<1>7. \A j \in 0 .. len : j + 1 < k => Freed(<<j, 0>>)'
  BY <1>5
<1>8. len' = len /\ user' = user
  OBVIOUS
<1> QED
  BY <1>2, <1>3, <1>6, <1>7, <1>8 DEF Around

\* A stage gets its result: the next one is called, or the chain has ended.
LEMMA Advance ==
    ASSUME T!ConstantsAssumption, TaskFrame, NEW k \in Nat, k <= len, Around(k), Stopping(k),
           IsMem(mem)', \A d \in T!Cores \ Near(k) : mem'[d] = mem[d],
           mem'[<<k, 0>>].next = None, mem'[<<k, 0>>].exec # None, Resolved(<<k, 0>>)',
           Over(k)', mem'[<<k, 1>>].next = None, Kept(k)' => mem'[<<k, 1>>] = mem[<<k, 1>>],
           k > 0 => Freed(<<k - 1, 0>>)' /\ Absent(<<k - 1, 1>>)',
           NEW t, act' = IF Link(k) = Empty THEN T!Idle ELSE T!Act("here", Link(k), <<k, 0>>, t),
           queue' = {}, promised' = {},
           UNCHANGED <<len, user, cancelled>>, cancelled => first' # "value",
           cancelled /\ first' = None => first = None /\ mem'[<<k, 0>>].slot.result = "stop"
    PROVE  TaskFrame' /\ Going(k + 1)'
<1>1. len \in 0 .. MaxThen /\ MaxThen \in Nat /\ user \in {"future", "gone"}
  BY TaskConstants DEF TaskFrame, Around
<1>2. TaskFrame' /\ Around(k)'
  <2>1. \A d \in T!Cores \cap Near(k) : mem'[d].next = None
    BY <1>1, NearCores, NoCoreFields DEF Absent, Unborn, Freed, Late
  <2>2. k > 0 => Over(k - 1)'
    BY DEF Over
  <2> QED
    BY <2>1, <2>2, <1>1, AroundKept
<1>3. len' = len /\ user' = user /\ cancelled' = cancelled
  OBVIOUS
<1>4. Around(k + 1)'
  <2>1. \A j \in 0 .. len : j > k + 1 => New(j)'
    BY <1>1, <1>2, <1>3 DEF Around
  <2>2. \A j \in 0 .. len : j < k + 1 => Over(j)'
    BY <1>1, <1>2, <1>3 DEF Around
  <2>3. \A j \in 0 .. len : j + 1 < k + 1 => Freed(<<j, 0>>)'
    <3>1. \A j \in 0 .. len : j < k => j + 1 < k \/ j = k - 1
      OBVIOUS
    <3> QED
      BY <1>1, <1>2, <1>3, <3>1 DEF Around
  <2> QED
    BY <1>1, <1>2, <1>3, <2>1, <2>2, <2>3 DEF Around
<1>5. (k + 1) - 1 = k /\ k + 1 > 0
  OBVIOUS
<1>6. Arrived(k + 1)' \/ Ended(k + 1)'
  <2>1. CASE k < len
    <3>1. Link(k) = <<k + 1, 0>> /\ Link(k) # Empty
      <4>1. k + 1 \in 0 .. MaxThen
        BY <1>1, <2>1
      <4>2. <<k + 1, 0>> \in T!Cores /\ Empty \notin T!Cores
        BY <4>1, CoreNames, TaskConstants
      <4> QED
        BY <2>1, <4>2 DEF Link
    <3>2. New(k + 1)'
      BY <1>1, <1>2, <1>3, <2>1 DEF Around
    <3> QED
      BY <1>1, <1>3, <1>5, <2>1, <3>1, <3>2 DEF Arrived, Acts, T!Act
  <2>2. CASE k = len /\ user = "gone"
    <3>1. Link(k) = DropCore /\ Link(k) # Empty
      BY <2>2, TaskConstants DEF Link
    <3> QED
      BY <1>1, <1>3, <1>5, <2>2, <3>1 DEF Arrived, Acts, T!Act
  <2>3. CASE k = len /\ user = "future"
    <3>1. Link(k) = Empty
      BY <2>3 DEF Link
    <3> QED
      BY <1>1, <1>3, <1>5, <2>3, <3>1 DEF Ended, Resting
  <2> QED
    BY <1>1, <2>1, <2>2, <2>3
<1>7. Stopping(k + 1)'
  <2>1. SUFFICES ASSUME cancelled, first' = None
                 PROVE  /\ k + 1 <= len => Unborn(<<k + 1, 1>>)'
                        /\ \A c \in T!Cores : mem'[c].word = kResult => mem'[c].slot.result = "stop"
    BY <1>3, <1>5 DEF Stopping
  <2>2. k + 1 <= len => Unborn(<<k + 1, 1>>)'
    <3>1. k + 1 <= len => New(k + 1)'
      BY <1>1, <1>2, <1>3 DEF Around
    <3> QED
      BY <3>1 DEF New
  <2>3. ASSUME NEW c \in T!Cores, mem'[c].word = kResult PROVE mem'[c].slot.result = "stop"
    <3>1. CASE c = <<k, 0>>
      BY <2>1, <3>1
    <3>2. CASE c = <<k, 1>>
      <4>1. Unborn(<<k, 1>>) /\ ~Resolved(<<k, 1>>)
        BY <2>1, NoCoreFields DEF Stopping, Unborn, Resolved
      <4>2. ~Kept(k)'
        BY <4>1 DEF Kept, Resolved
      <4> QED
        BY <2>3, <3>2, <4>2, NoCoreFields, TaskConstants DEF Over, Absent, Unborn, Freed, Late
    <3>3. CASE k > 0 /\ (c = <<k - 1, 0>> \/ c = <<k - 1, 1>>)
      BY <2>3, <3>3, NoCoreFields, TaskConstants DEF Absent, Unborn, Freed, Late
    <3>4. CASE c \notin Near(k)
      BY <2>1, <2>3, <3>4 DEF Stopping
    <3>5. c \in Near(k) => c = <<k, 0>> \/ c = <<k, 1>> \/ (k > 0 /\ (c = <<k - 1, 0>> \/ c = <<k - 1, 1>>))
      BY <1>1, NearCores
    <3> QED
      BY <3>1, <3>2, <3>3, <3>4, <3>5
  <2> QED
    BY <2>2, <2>3
<1> QED
  BY <1>2, <1>4, <1>6, <1>7 DEF Going, At

\* A step in which stage k stays at work.
LEMMA Stay ==
    ASSUME T!ConstantsAssumption, TaskFrame, NEW k \in Nat, k <= len, Around(k),
           IsMem(mem)', \A d \in T!Cores \ Near(k) : mem'[d] = mem[d],
           \A d \in T!Cores \cap Near(k) : mem'[d].next = None, k > 0 => Over(k - 1)',
           UNCHANGED <<len, user, cancelled>>, cancelled => first' # "value",
           At(k)', Stopping(k)'
    PROVE  TaskFrame' /\ Going(k)'
<1>1. TaskFrame' /\ Around(k)'
  <2>1. k <= len + 1
    BY DEF TaskFrame
  <2> QED
    BY <2>1, AroundKept
<1> QED
  BY <1>1 DEF Going

\* The chain has run a functor, or was not cancelled.
LEMMA NotStopping ==
    ASSUME NEW k, ~(cancelled /\ first = None), UNCHANGED <<cancelled, first>>
    PROVE  Stopping(k)'
BY DEF Stopping

\* The stage before k is left alone, or its core is freed.
LEMMA BeforeStays ==
    ASSUME T!ConstantsAssumption, len \in 0 .. MaxThen, NEW k \in Nat, k <= len, Around(k), k > 0,
           mem'[<<k - 1, 0>>].kind = mem[<<k - 1, 0>>].kind, mem'[<<k - 1, 1>>] = mem[<<k - 1, 1>>]
    PROVE  Over(k - 1)'
<1>1. k - 1 \in 0 .. len /\ k - 1 < k
  BY TaskConstants
<1>2. Over(k - 1)
  BY <1>1 DEF Around
<1> QED
  BY <1>2, OverStays

\* The core inside stage k gets its result.
LEMMA InnerAdvance ==
    ASSUME T!ConstantsAssumption, TaskFrame, NEW k \in Nat, Around(k), Stopping(k), Inside(k),
           IsMem(mem)', \A d \in T!Cores : d # <<k, 1>> => mem'[d] = mem[d],
           mem'[<<k, 1>>].next = None, mem'[<<k, 1>>].exec # None, Resolved(<<k, 1>>)',
           NEW t, act' = T!Act("here", <<k, 0>>, <<k, 1>>, t), queue' = {}, promised' = {},
           UNCHANGED <<len, user, cancelled, first>>
    PROVE  TaskFrame' /\ Going(k)'
<1>1. len \in 0 .. MaxThen /\ MaxThen \in Nat /\ k <= len
  BY TaskConstants DEF TaskFrame, Inside, Outer
<1>2. ~(cancelled /\ first = None)
  BY <1>1, NoCoreFields DEF Stopping, Inside, Unborn
<1>3. /\ mem'[<<k, 0>>] = mem[<<k, 0>>]
      /\ k > 0 => mem'[<<k - 1, 0>>] = mem[<<k - 1, 0>>] /\ mem'[<<k - 1, 1>>] = mem[<<k - 1, 1>>]
  <2>1. <<k, 0>> \in T!Cores /\ (k > 0 => <<k - 1, 0>> \in T!Cores /\ <<k - 1, 1>> \in T!Cores)
    BY <1>1, CoreNames
  <2> QED
    BY <1>1, <2>1
<1>4. Outer(k)'
  BY <1>1, <1>3 DEF Inside, Outer, Pending, Link, Freed
<1>5. At(k)'
  BY <1>4 DEF At, Returned, Acts, T!Act
<1>6. /\ \A d \in T!Cores \ Near(k) : mem'[d] = mem[d]
      /\ \A d \in T!Cores \cap Near(k) : mem'[d].next = None
  BY <1>1 DEF Near, Around
<1>7. Stopping(k)'
  BY <1>2, NotStopping
<1>8. cancelled => first' # "value"
  BY DEF TaskFrame
<1>9. k > 0 => Over(k - 1)'
  BY <1>1, <1>3, BeforeStays
<1> QED
  BY <1>1, <1>5, <1>6, <1>7, <1>8, <1>9, Stay

\* SetResultImpl of the core of stage k.
LEMMA StageResult ==
    ASSUME T!ConstantsAssumption, TaskFrame, NEW k \in Nat, k <= len, Around(k), Stopping(k),
           NEW m, IsMem(m), NEW t, T!SetResult(m, <<k, 0>>, t),
           \A d \in T!Cores \ Near(k) : m[d] = mem[d],
           m[<<k, 0>>].st = "alive", m[<<k, 0>>].word = Link(k), m[<<k, 0>>].fn # "stored",
           m[<<k, 0>>].exec # None, m[<<k, 0>>].next = None,
           \/ m[<<k, 1>>] \in NoCores
           \/ k = 0 /\ m[<<k, 0>>].kind = "coro" /\ Resolved(<<k, 1>>) /\ m[<<k, 1>>] = mem[<<k, 1>>],
           k > 0 => m[<<k - 1, 0>>] = T!NoCore("freed") /\ m[<<k - 1, 1>>] \in NoCores,
           queue' = {}, promised' = {},
           UNCHANGED <<len, user, cancelled>>, cancelled => first' # "value",
           cancelled /\ first' = None => first = None /\ m[<<k, 0>>].slot.result = "stop"
    PROVE  TaskFrame' /\ Going(k + 1)'
<1>1. len \in 0 .. MaxThen /\ MaxThen \in Nat
  BY TaskConstants DEF TaskFrame
<1>2. /\ <<k, 0>> \in T!Cores /\ <<k, 1>> \in T!Cores
      /\ k > 0 => <<k - 1, 0>> \in T!Cores /\ <<k - 1, 1>> \in T!Cores
  <2>1. k \in 0 .. MaxThen /\ (k > 0 => k - 1 \in 0 .. MaxThen)
    BY <1>1
  <2> QED
    BY <2>1, CoreNames
<1>3. mem' = [m EXCEPT ![<<k, 0>>]["word"] = kResult]
  BY DEF T!SetResult
<1>4. /\ IsMem(mem') /\ mem'[<<k, 0>>].word = kResult
      /\ mem'[<<k, 0>>].st = m[<<k, 0>>].st /\ mem'[<<k, 0>>].fn = m[<<k, 0>>].fn
      /\ mem'[<<k, 0>>].exec = m[<<k, 0>>].exec /\ mem'[<<k, 0>>].next = m[<<k, 0>>].next
      /\ mem'[<<k, 0>>].slot = m[<<k, 0>>].slot /\ mem'[<<k, 0>>].kind = m[<<k, 0>>].kind
      /\ \A d \in T!Cores : d # <<k, 0>> => mem'[d] = m[d]
  BY <1>2, <1>3 DEF IsMem, Fields
<1>5. /\ mem'[<<k, 0>>].st = "alive" /\ mem'[<<k, 0>>].fn # "stored" /\ mem'[<<k, 0>>].exec # None
      /\ mem'[<<k, 0>>].next = None /\ mem'[<<k, 0>>].slot = m[<<k, 0>>].slot
  BY <1>4 DEF Fields
<1>6. /\ mem'[<<k, 1>>] = m[<<k, 1>>]
      /\ k > 0 => mem'[<<k - 1, 0>>] = m[<<k - 1, 0>>] /\ mem'[<<k - 1, 1>>] = m[<<k - 1, 1>>]
      /\ \A d \in T!Cores \ Near(k) : mem'[d] = mem[d]
  BY <1>1, <1>2, <1>4 DEF Near
<1>7. Resolved(<<k, 0>>)' /\ (k > 0 => Freed(<<k - 1, 0>>)' /\ Absent(<<k - 1, 1>>)')
  BY <1>4, <1>5, <1>6 DEF Resolved, Absent, Unborn, Freed, Late, NoCores
<1>8. act' = IF Link(k) = Empty THEN T!Idle ELSE T!Act("here", Link(k), <<k, 0>>, t)
  BY DEF T!SetResult
<1>9. IsMem(mem)'
  BY <1>4 DEF IsMem
<1>10. Over(k)' /\ mem'[<<k, 1>>].next = None /\ (Kept(k)' => mem'[<<k, 1>>] = mem[<<k, 1>>])
  <2>1. CASE m[<<k, 1>>] \in NoCores
    <3>1. Absent(<<k, 1>>)' /\ ~Resolved(<<k, 1>>)' /\ mem'[<<k, 1>>].next = None
      BY <1>6, <2>1, NoCoreFields DEF Absent, Unborn, Freed, Late, NoCores, Resolved
    <3> QED
      BY <3>1 DEF Over, Kept
  <2>2. CASE k = 0 /\ m[<<k, 0>>].kind = "coro" /\ Resolved(<<k, 1>>) /\ m[<<k, 1>>] = mem[<<k, 1>>]
    <3>1. Resolved(<<k, 1>>)' /\ mem'[<<k, 0>>].kind = "coro" /\ k = 0
      BY <1>4, <1>6, <2>2 DEF Resolved
    <3>2. mem'[<<k, 1>>].next = None
      BY <1>2, <1>6, <2>2 DEF Around
    <3> QED
      BY <1>6, <2>2, <3>1, <3>2 DEF Over, Kept
  <2> QED
    BY <2>1, <2>2
<1> QED
  BY <1>1, <1>5, <1>6, <1>7, <1>8, <1>9, <1>10, Advance

\* SetResultImpl of the core inside stage k.
LEMMA InnerResult ==
    ASSUME T!ConstantsAssumption, TaskFrame, NEW k \in Nat, Around(k), Stopping(k), Inside(k),
           NEW m, IsMem(m), NEW t, T!SetResult(m, <<k, 1>>, t),
           \A d \in T!Cores : d # <<k, 1>> => m[d] = mem[d],
           m[<<k, 1>>].st = "alive", m[<<k, 1>>].word = <<k, 0>>, m[<<k, 1>>].fn # "stored",
           m[<<k, 1>>].exec # None, m[<<k, 1>>].next = None,
           queue' = {}, promised' = {}, UNCHANGED <<len, user, cancelled, first>>
    PROVE  TaskFrame' /\ Going(k)'
<1>1. len \in 0 .. MaxThen /\ MaxThen \in Nat /\ k <= len
  BY TaskConstants DEF TaskFrame, Inside, Outer
<1>2. <<k, 0>> \in T!Cores /\ <<k, 1>> \in T!Cores /\ <<k, 0>> # Empty
  BY <1>1, CoreNames, TaskConstants
<1>3. mem' = [m EXCEPT ![<<k, 1>>]["word"] = kResult]
  BY DEF T!SetResult
<1>4. /\ IsMem(mem') /\ mem'[<<k, 1>>].word = kResult
      /\ mem'[<<k, 1>>].st = m[<<k, 1>>].st /\ mem'[<<k, 1>>].fn = m[<<k, 1>>].fn
      /\ mem'[<<k, 1>>].exec = m[<<k, 1>>].exec /\ mem'[<<k, 1>>].next = m[<<k, 1>>].next
      /\ \A d \in T!Cores : d # <<k, 1>> => mem'[d] = m[d]
  BY <1>2, <1>3 DEF IsMem, Fields
<1>5. /\ mem'[<<k, 1>>].st = "alive" /\ mem'[<<k, 1>>].fn # "stored" /\ mem'[<<k, 1>>].exec # None
      /\ mem'[<<k, 1>>].next = None
  BY <1>4 DEF Fields
<1>6. Resolved(<<k, 1>>)' /\ \A d \in T!Cores : d # <<k, 1>> => mem'[d] = mem[d]
  BY <1>4, <1>5 DEF Resolved
<1>7. act' = T!Act("here", <<k, 0>>, <<k, 1>>, t)
  BY <1>2 DEF T!SetResult
<1>8. IsMem(mem)'
  BY <1>4 DEF IsMem
<1> QED
  BY <1>5, <1>6, <1>7, <1>8, InnerAdvance

\* The functor's result is stored, and the stage before k is not needed any more.
LEMMA DoneFirst ==
    ASSUME T!ConstantsAssumption, TaskFrame, NEW k \in Nat, Around(k), Stopping(k), Unread(k),
           mem[<<k, 0>>].kind \in {"run", "then", "thenInline"},
           NEW r, T!Done(<<k, 0>>, r, FALSE), queue' = {}, promised' = {},
           UNCHANGED <<len, user, cancelled>>, cancelled => first' # "value",
           cancelled /\ first' = None => first = None /\ r = "stop"
    PROVE  TaskFrame' /\ Going(k + 1)'
<1>1. len \in 0 .. MaxThen /\ MaxThen \in Nat /\ k <= len
  BY TaskConstants DEF TaskFrame, Unread
<1>2. /\ <<k, 0>> \in T!Cores /\ <<k, 1>> \in T!Cores
      /\ k > 0 => k - 1 \in 0 .. MaxThen /\ <<k - 1, 0>> \in T!Cores /\ <<k - 1, 1>> \in T!Cores
  BY <1>1, CoreNames
<1>3. Pending(k) /\ mem[<<k, 0>>].exec # None /\ mem[<<k, 0>>].next = None /\ Unborn(<<k, 1>>)
  BY <1>1, <1>2 DEF Unread, Around
<1>4. IsMem(mem)
  BY DEF TaskFrame
<1> DEFINE stored == [mem EXCEPT ![<<k, 0>>].slot = T!Result(r), ![<<k, 0>>].fn = "gone"]
<1>5. /\ IsMem(stored) /\ stored[<<k, 0>>].slot = T!Result(r) /\ stored[<<k, 0>>].fn = "gone"
      /\ stored[<<k, 0>>].st = "alive" /\ stored[<<k, 0>>].word = Link(k)
      /\ stored[<<k, 0>>].exec # None /\ stored[<<k, 0>>].next = None
      /\ \A d \in T!Cores : d # <<k, 0>> => stored[d] = mem[d]
  BY <1>2, <1>3, <1>4 DEF IsMem, Fields, Pending
<1>6. T!Result(r).result = r
  BY DEF T!Result
<1>7. CASE k = 0
  <2>1. mem[<<k, 0>>].kind = "run"
    BY <1>3, <1>7 DEF Pending, HeadKinds
  <2>2. T!SetResult(stored, <<k, 0>>, act.in)
    BY <2>1 DEF T!Done
  <2> HIDE DEF stored
  <2>3. stored[<<k, 1>>] \in NoCores
    BY <1>2, <1>3, <1>5 DEF Unborn, NoCores
  <2>4. \A d \in T!Cores \ Near(k) : stored[d] = mem[d]
    BY <1>1, <1>5 DEF Near
  <2>5. ~(k > 0)
    BY <1>7
  <2> QED
    BY <1>1, <1>5, <1>6, <2>2, <2>3, <2>4, <2>5, StageResult
<1>8. CASE k > 0
  <2>1. mem[<<k, 0>>].kind # "run" /\ mem[<<k, 0>>].slot.caller = <<k - 1, 0>> /\ Resolved(<<k - 1, 0>>)
    BY <1>3, <1>8 DEF Unread, Pending, ThenKinds, T!Self
  <2>2. T!SetResult(T!DecRef(stored, <<k - 1, 0>>), <<k, 0>>, act.in)
    BY <2>1 DEF T!Done, T!Caller
  <2> HIDE DEF stored
  <2> DEFINE m == T!DecRef(stored, <<k - 1, 0>>)
  <2>3. stored[<<k - 1, 0>>] = mem[<<k - 1, 0>>] /\ stored[<<k - 1, 1>>] = mem[<<k - 1, 1>>] /\ Over(k - 1)
    BY <1>1, <1>2, <1>5, <1>8 DEF Around
  <2>4. /\ IsMem(m) /\ m[<<k - 1, 0>>] = T!NoCore("freed") /\ m[<<k - 1, 1>>] \in NoCores
        /\ \A d \in T!Cores : d # <<k - 1, 0>> /\ d # <<k - 1, 1>> => m[d] = stored[d]
    BY <1>2, <1>5, <1>8, <2>1, <2>3, DecRefStage, OverCore DEF Resolved
  <2> HIDE DEF m
  <2>5. m[<<k, 0>>] = stored[<<k, 0>>] /\ m[<<k, 1>>] \in NoCores
    BY <1>2, <1>3, <1>5, <1>8, <2>4 DEF Unborn, NoCores
  <2>6. \A d \in T!Cores \ Near(k) : m[d] = mem[d]
    BY <1>1, <1>5, <2>4 DEF Near
  <2>7. T!SetResult(m, <<k, 0>>, act.in)
    BY <2>2 DEF m
  <2> QED
    BY <1>1, <1>5, <1>6, <1>8, <2>4, <2>5, <2>6, <2>7, StageResult
<1> QED
  BY <1>7, <1>8

\* The Task or Future of stage k is ready, and its result becomes the stage's.
LEMMA DoneAsync ==
    ASSUME T!ConstantsAssumption, TaskFrame, NEW k \in Nat, Around(k), Stopping(k), Returned(k),
           mem[<<k, 0>>].kind \in {"run", "then", "thenInline"},
           NEW r, T!Done(<<k, 0>>, r, TRUE), queue' = {}, promised' = {},
           UNCHANGED <<len, user, cancelled, first>>
    PROVE  TaskFrame' /\ Going(k + 1)'
<1>1. len \in 0 .. MaxThen /\ MaxThen \in Nat /\ k <= len
  BY TaskConstants DEF TaskFrame, Returned, Outer
<1>2. /\ <<k, 0>> \in T!Cores /\ <<k, 1>> \in T!Cores
      /\ k > 0 => <<k - 1, 0>> \in T!Cores /\ <<k - 1, 1>> \in T!Cores
  BY <1>1, CoreNames
<1>3. /\ Pending(k) /\ mem[<<k, 0>>].exec # None /\ mem[<<k, 0>>].next = None
      /\ mem[<<k, 0>>].fn = "gone" /\ mem[<<k, 0>>].slot.caller = <<k, 1>>
      /\ k > 0 => Freed(<<k - 1, 0>>) /\ Over(k - 1)
  BY <1>1, <1>2 DEF Returned, Outer, Around, T!Self
<1>4. IsMem(mem) /\ (cancelled => first # "value")
  BY DEF TaskFrame
<1>5. ~(cancelled /\ first = None)
  BY <1>1, NoCoreFields DEF Stopping, Returned, Resolved, Unborn
<1> DEFINE stored == [mem EXCEPT ![<<k, 0>>].slot = T!Result(r), ![<<k, 0>>].fn = @]
<1>6. /\ IsMem(stored) /\ stored[<<k, 0>>].fn = "gone"
      /\ stored[<<k, 0>>].st = "alive" /\ stored[<<k, 0>>].word = Link(k)
      /\ stored[<<k, 0>>].exec # None /\ stored[<<k, 0>>].next = None
      /\ \A d \in T!Cores : d # <<k, 0>> => stored[d] = mem[d]
  BY <1>2, <1>3, <1>4 DEF IsMem, Fields, Pending
<1>7. T!SetResult(T!DecRef(stored, <<k, 1>>), <<k, 0>>, act.in)
  BY <1>3 DEF T!Done, T!Caller
<1> HIDE DEF stored
<1> DEFINE m == T!DecRef(stored, <<k, 1>>)
<1>8. /\ IsMem(m) /\ m[<<k, 1>>] = T!NoCore("freed")
      /\ \A d \in T!Cores : d # <<k, 1>> => m[d] = stored[d]
  <2>1. stored[<<k, 1>>] = mem[<<k, 1>>] /\ Resolved(<<k, 1>>)
    BY <1>2, <1>6 DEF Returned
  <2>2. k \in 0 .. MaxThen
    BY <1>1
  <2> QED
    BY <1>2, <1>6, <2>1, <2>2, DecRefInner DEF Resolved
<1>9. T!SetResult(m, <<k, 0>>, act.in)
  BY <1>7
<1> HIDE DEF m
<1>10. m[<<k, 0>>] = stored[<<k, 0>>] /\ m[<<k, 1>>] \in NoCores
  BY <1>2, <1>8 DEF NoCores
<1>11. k > 0 => m[<<k - 1, 0>>] = T!NoCore("freed") /\ m[<<k - 1, 1>>] \in NoCores
  <2>1. k > 0 => m[<<k - 1, 0>>] = mem[<<k - 1, 0>>] /\ m[<<k - 1, 1>>] = mem[<<k - 1, 1>>]
    BY <1>1, <1>2, <1>6, <1>8
  <2>2. k > 0 => Absent(<<k - 1, 1>>)
    BY <1>3, NothingKept
  <2> QED
    BY <1>3, <2>1, <2>2 DEF Freed, Absent, Unborn, Late, NoCores
<1>12. \A d \in T!Cores \ Near(k) : m[d] = mem[d]
  BY <1>1, <1>6, <1>8 DEF Near
<1> QED
  BY <1>1, <1>4, <1>5, <1>6, <1>8, <1>9, <1>10, <1>11, <1>12, StageResult

\* Stage k begins to wait for a Task or a Future.
LEMMA Awaited ==
    ASSUME T!ConstantsAssumption, TaskFrame, NEW k \in Nat, k <= len, Around(k),
           NEW m, IsMem(m), NEW a \in {"ready", "coro", "chain", "future"}, T!Await(m, <<k, 0>>, <<k, 1>>, a),
           \A d \in T!Cores \ Near(k) : m[d] = mem[d],
           m[<<k, 0>>].st = "alive", m[<<k, 0>>].word = Link(k), m[<<k, 0>>].exec # None,
           m[<<k, 0>>].next = None,
           m[<<k, 0>>].kind \in IF k = 0 THEN HeadKinds ELSE ThenKinds,
           \/ m[<<k, 0>>].kind = "coro" /\ m[<<k, 0>>].fn = "none"
           \/ /\ m[<<k, 0>>].kind \in {"run", "then", "thenInline"} /\ m[<<k, 0>>].fn = "gone"
              /\ m[<<k, 0>>].slot = T!Self(<<k, 1>>, m[<<k, 0>>].kind # "run"),
           k > 0 => m[<<k - 1, 0>>] = T!NoCore("freed") /\ m[<<k - 1, 1>>] \in NoCores,
           queue' = {}, promised = {},
           UNCHANGED <<len, user, cancelled>>, cancelled => first' # "value" /\ first' # None
    PROVE  TaskFrame' /\ Going(k)'
<1>1. len \in 0 .. MaxThen /\ MaxThen \in Nat
  BY TaskConstants DEF TaskFrame
<1>2. /\ <<k, 0>> \in T!Cores /\ <<k, 1>> \in T!Cores
      /\ k > 0 => <<k - 1, 0>> \in T!Cores /\ <<k - 1, 1>> \in T!Cores
  BY <1>1, CoreNames
<1>3. PICK v : mem' = [m EXCEPT ![<<k, 1>>] = [T!Core(a, "inline", v) EXCEPT !.word = <<k, 0>>]]
  BY DEF T!Await
<1>4. /\ IsMem(mem') /\ mem'[<<k, 1>>].kind = a /\ mem'[<<k, 1>>].st = "alive"
      /\ mem'[<<k, 1>>].word = <<k, 0>> /\ mem'[<<k, 1>>].fn = IF a = "chain" THEN "stored" ELSE "none"
      /\ mem'[<<k, 1>>].exec = "inline" /\ mem'[<<k, 1>>].next = None
      /\ \A d \in T!Cores : d # <<k, 1>> => mem'[d] = m[d]
  BY <1>2, <1>3, CoreFields DEF IsMem, Fields
<1>5. /\ mem'[<<k, 0>>] = m[<<k, 0>>]
      /\ k > 0 => mem'[<<k - 1, 0>>] = m[<<k - 1, 0>>] /\ mem'[<<k - 1, 1>>] = m[<<k - 1, 1>>]
  BY <1>2, <1>4
<1>6. Outer(k)'
  BY <1>5 DEF Outer, Pending, Link, Freed
<1>7. Inside(k)'
  <2>1. CASE a = "future"
    <3>1. Owed(<<k, 1>>)'
      BY <2>1 DEF T!Await, Owed
    <3> QED
      BY <1>4, <1>6, <2>1, <3>1, TaskConstants DEF Inside
  <2>2. CASE a # "future"
    <3>1. Acts("here", <<k, 1>>, <<k, 0>>)'
      BY <2>2 DEF T!Await, Acts, T!Act
    <3> QED
      BY <1>4, <1>6, <2>2, <3>1, TaskConstants DEF Inside
  <2> QED
    BY <2>1, <2>2
<1>8. /\ \A d \in T!Cores \ Near(k) : mem'[d] = mem[d]
      /\ \A d \in T!Cores \cap Near(k) : mem'[d].next = None
  <2>1. \A d \in T!Cores \ Near(k) : d # <<k, 1>>
    BY <1>1 DEF Near
  <2>2. mem'[<<k, 0>>].next = None /\ (k > 0 => mem'[<<k - 1, 0>>].next = None /\ mem'[<<k - 1, 1>>].next = None)
    BY <1>5, NoCoreFields DEF NoCores
  <2> QED
    BY <1>1, <1>4, <2>1, <2>2, NearCores
<1>9. Stopping(k)' /\ IsMem(mem)' /\ At(k)'
  BY <1>4, <1>7 DEF Stopping, At, IsMem
<1>10. k > 0 => Over(k - 1)'
  BY <1>5 DEF Over, Absent, Unborn, Freed, Late, NoCores
<1> QED
  BY <1>8, <1>9, <1>10, Stay

\* The functor has returned a Task or a Future.
LEMMA Unwrapped ==
    ASSUME T!ConstantsAssumption, TaskFrame, NEW k \in Nat, Around(k), Unread(k),
           mem[<<k, 0>>].kind \in {"run", "then", "thenInline"},
           NEW a \in {"ready", "coro", "chain", "future"}, T!Unwrap(<<k, 0>>, <<k, 1>>, a),
           queue' = {}, promised = {},
           UNCHANGED <<len, user, cancelled>>, cancelled => first' # "value" /\ first' # None
    PROVE  TaskFrame' /\ Going(k)'
<1>1. len \in 0 .. MaxThen /\ MaxThen \in Nat /\ k <= len /\ IsMem(mem)
  BY TaskConstants DEF TaskFrame, Unread
<1>2. /\ <<k, 0>> \in T!Cores /\ <<k, 1>> \in T!Cores
      /\ k > 0 => k - 1 \in 0 .. MaxThen /\ <<k - 1, 0>> \in T!Cores /\ <<k - 1, 1>> \in T!Cores
  BY <1>1, CoreNames
<1>3. Pending(k) /\ mem[<<k, 0>>].exec # None /\ mem[<<k, 0>>].next = None
  BY <1>1, <1>2 DEF Unread, Around
<1>4. (k = 0) <=> mem[<<k, 0>>].kind = "run"
  BY <1>3 DEF Pending, HeadKinds, ThenKinds
<1>5. PICK m : /\ IsMem(m) /\ m[<<k, 0>>] = mem[<<k, 0>>]
               /\ k > 0 => m[<<k - 1, 0>>] = T!NoCore("freed") /\ m[<<k - 1, 1>>] \in NoCores
               /\ \A d \in T!Cores \ Near(k) : m[d] = mem[d]
               /\ T!Await([m EXCEPT ![<<k, 0>>].slot = T!Self(<<k, 1>>, mem[<<k, 0>>].kind # "run"),
                                    ![<<k, 0>>].fn = "gone"], <<k, 0>>, <<k, 1>>, a)
  <2>1. CASE k = 0
    <3>1. T!Await([mem EXCEPT ![<<k, 0>>].slot = T!Self(<<k, 1>>, mem[<<k, 0>>].kind # "run"),
                              ![<<k, 0>>].fn = "gone"], <<k, 0>>, <<k, 1>>, a)
      BY <1>4, <2>1 DEF T!Unwrap
    <3>2. ~(k > 0)
      BY <2>1
    <3> QED
      BY <1>1, <3>1, <3>2, Zenon
  <2>2. CASE k > 0
    <3>1. mem[<<k, 0>>].slot.caller = <<k - 1, 0>> /\ Resolved(<<k - 1, 0>>) /\ Over(k - 1)
      BY <1>1, <1>2, <2>2 DEF Unread, T!Self, Around
    <3> DEFINE m == T!DecRef(mem, <<k - 1, 0>>)
    <3>2. /\ IsMem(m) /\ m[<<k - 1, 0>>] = T!NoCore("freed") /\ m[<<k - 1, 1>>] \in NoCores
          /\ \A d \in T!Cores : d # <<k - 1, 0>> /\ d # <<k - 1, 1>> => m[d] = mem[d]
      BY <1>1, <1>2, <2>2, <3>1, DecRefStage, OverCore DEF Resolved
    <3>3. T!Await([m EXCEPT ![<<k, 0>>].slot = T!Self(<<k, 1>>, mem[<<k, 0>>].kind # "run"),
                            ![<<k, 0>>].fn = "gone"], <<k, 0>>, <<k, 1>>, a)
      BY <1>4, <2>2, <3>1 DEF T!Unwrap
    <3> HIDE DEF m
    <3>4. m[<<k, 0>>] = mem[<<k, 0>>] /\ \A d \in T!Cores \ Near(k) : m[d] = mem[d]
      BY <1>1, <1>2, <2>2, <3>2 DEF Near
    <3> QED
      BY <3>2, <3>3, <3>4, Zenon
  <2>3. k = 0 \/ k > 0
    OBVIOUS
  <2> QED
    BY <2>1, <2>2, <2>3, Zenon
<1> DEFINE w == [m EXCEPT ![<<k, 0>>].slot = T!Self(<<k, 1>>, mem[<<k, 0>>].kind # "run"),
                          ![<<k, 0>>].fn = "gone"]
<1>6. /\ IsMem(w) /\ w[<<k, 0>>].slot = T!Self(<<k, 1>>, mem[<<k, 0>>].kind # "run")
      /\ w[<<k, 0>>].fn = "gone" /\ w[<<k, 0>>].kind = mem[<<k, 0>>].kind
      /\ w[<<k, 0>>].st = mem[<<k, 0>>].st /\ w[<<k, 0>>].word = mem[<<k, 0>>].word
      /\ w[<<k, 0>>].exec = mem[<<k, 0>>].exec /\ w[<<k, 0>>].next = mem[<<k, 0>>].next
      /\ \A d \in T!Cores : d # <<k, 0>> => w[d] = m[d]
  BY <1>2, <1>5 DEF IsMem, Fields
<1>7. T!Await(w, <<k, 0>>, <<k, 1>>, a)
  BY <1>5
<1> HIDE DEF w
<1>8. \A d \in T!Cores \ Near(k) : w[d] = mem[d]
  BY <1>1, <1>5, <1>6 DEF Near
<1>9. k > 0 => w[<<k - 1, 0>>] = T!NoCore("freed") /\ w[<<k - 1, 1>>] \in NoCores
  BY <1>2, <1>5, <1>6
<1>10. /\ w[<<k, 0>>].st = "alive" /\ w[<<k, 0>>].word = Link(k) /\ w[<<k, 0>>].exec # None
       /\ w[<<k, 0>>].next = None /\ w[<<k, 0>>].kind \in IF k = 0 THEN HeadKinds ELSE ThenKinds
       /\ w[<<k, 0>>].kind \in {"run", "then", "thenInline"}
       /\ w[<<k, 0>>].slot = T!Self(<<k, 1>>, w[<<k, 0>>].kind # "run")
  BY <1>3, <1>6 DEF Pending
<1> QED
  BY <1>1, <1>6, <1>7, <1>8, <1>9, <1>10, Awaited

\* CallImpl: the functor is called, or not.
LEMMA CallImplInv ==
    ASSUME T!ConstantsAssumption, TaskFrame, NEW k \in Nat, Around(k), Stopping(k), Unread(k),
           mem[<<k, 0>>].kind \in {"run", "then", "thenInline"}, act.op \in {"call", "drop"},
           NEW r, T!CallImpl(<<k, 0>>, r), cancelled /\ first = None => r = "stop"
    PROVE  TaskInv'
<1>1. /\ len \in 0 .. MaxThen /\ MaxThen \in Nat /\ k <= len
      /\ queue = {} /\ promised = {} /\ (cancelled => first # "value")
  BY TaskConstants DEF TaskFrame, Unread, Given, T!Idle
<1>2. UNCHANGED <<len, user, cancelled>> /\ queue' = {}
  BY <1>1 DEF T!CallImpl
<1>3. ASSUME TaskFrame' /\ Going(k + 1)' PROVE TaskInv'
  <2>1. k + 1 \in 0 .. len' + 1
    BY <1>1, <1>2
  <2> QED
    BY <1>3, <2>1 DEF TaskInv
<1>4. ASSUME TaskFrame' /\ Going(k)' PROVE TaskInv'
  <2>1. k \in 0 .. len' + 1
    BY <1>1, <1>2
  <2> QED
    BY <1>4, <2>1 DEF TaskInv
<1>5. ASSUME NEW s \in T!Signatures, T!Invokes(s, r), T!Ran(s)
      PROVE  cancelled => first' # "value" /\ first' # None
  BY <1>1, <1>5, TaskConstants DEF T!Ran, T!Invokes
<1>6. PICK s \in T!Signatures :
         \/ /\ T!Invokes(s, r) /\ T!Ran(s)
            /\ \/ \E o \in T!Outcomes : T!Done(<<k, 0>>, o, FALSE) /\ UNCHANGED promised
               \/ \E a \in {"ready", "coro", "chain", "future"} : T!Unwrap(<<k, 0>>, T!Inner(<<k, 0>>), a)
         \/ ~T!Invokes(s, r) /\ T!Done(<<k, 0>>, r, FALSE) /\ UNCHANGED <<promised, first>>
  BY Zenon DEF T!CallImpl, T!InnerKinds
<1>7. CASE /\ T!Invokes(s, r) /\ T!Ran(s)
           /\ \E o \in T!Outcomes : T!Done(<<k, 0>>, o, FALSE) /\ UNCHANGED promised
  <2>1. PICK o \in T!Outcomes : T!Done(<<k, 0>>, o, FALSE) /\ UNCHANGED promised
    BY <1>7
  <2>2. cancelled => first' # "value" /\ first' # None
    BY <1>5, <1>7
  <2> QED
    BY <1>1, <1>2, <1>3, <2>1, <2>2, DoneFirst
<1>8. CASE /\ T!Invokes(s, r) /\ T!Ran(s)
           /\ \E a \in {"ready", "coro", "chain", "future"} : T!Unwrap(<<k, 0>>, T!Inner(<<k, 0>>), a)
  <2>1. PICK a \in {"ready", "coro", "chain", "future"} : T!Unwrap(<<k, 0>>, <<k, 1>>, a)
    BY <1>1, <1>8, CoreNames
  <2>2. cancelled => first' # "value" /\ first' # None
    BY <1>5, <1>8
  <2> QED
    BY <1>1, <1>2, <1>4, <2>1, <2>2, Unwrapped
<1>9. CASE ~T!Invokes(s, r) /\ T!Done(<<k, 0>>, r, FALSE) /\ UNCHANGED <<promised, first>>
  BY <1>1, <1>2, <1>3, <1>9, DoneFirst
<1> QED
  BY <1>6, <1>7, <1>8, <1>9

\* Stage k is at work.
Now(k) == k \in Nat /\ TaskFrame /\ Around(k) /\ At(k) /\ Stopping(k)

\* Something is at work only when the chain has been started.
LEMMA SomeStage ==
    ASSUME TaskInv, act # T!Idle \/ queue # {} \/ promised # {} \/ user \in {"future", "gone"}
    PROVE  \E k \in 0 .. len + 1 : Now(k)
<1>1. PICK k \in 0 .. len + 1 : Going(k)
  BY DEF TaskInv, Unmade, Building, Resting
<1> QED
  BY <1>1 DEF Now, Going, TaskInv, Around

\* Back to the invariant.
LEMMA NowInv ==
    ASSUME NEW k \in Nat, k <= len + 1, TaskFrame' /\ Going(k)', UNCHANGED len
    PROVE  TaskInv'
<1>1. k \in 0 .. len' + 1
  BY DEF Going, Around
<1> QED
  BY <1>1 DEF TaskInv

\* A job that is called or dropped, which core it is.
LEMMA WhoIsCalled ==
    ASSUME NEW k, Now(k), act.op \in {"call", "drop"}
    PROVE  /\ k <= len /\ queue = {} /\ promised = {}
           /\ \/ act.core = <<k, 0>> /\ Unread(k)
              \/ act.core = <<k, 1>> /\ Inside(k) /\ mem[<<k, 1>>].kind = "coro"
<1>1. act # T!Idle
  BY DEF T!Idle
<1>2. Unread(k) \/ Inside(k)
  <2>1. k <= len \/ k > len
    BY DEF Now, TaskFrame
  <2> QED
    BY <1>1, <2>1 DEF Now, At, Body, ByPromise, Arrived, Returned, Ended, Acts, Owed, Resting
<1>3. CASE Unread(k)
  BY <1>1, <1>3 DEF Unread, Given
<1>4. CASE Inside(k)
  BY <1>1, <1>4 DEF Inside, Outer, Given, Acts, Owed
<1> QED
  BY <1>2, <1>3, <1>4

\* A coroutine that runs.
LEMMA WhoRuns ==
    ASSUME NEW k, Now(k), act.op = "body"
    PROVE  /\ k <= len /\ queue = {} /\ promised = {} /\ ~(cancelled /\ first = None)
           /\ \/ act.core = <<k, 0>> /\ Body(k)
              \/ act.core = <<k, 1>> /\ Inside(k) /\ mem[<<k, 1>>].kind = "coro"
<1>1. act # T!Idle
  BY DEF T!Idle
<1>2. Body(k) \/ Inside(k)
  <2>1. k <= len \/ k > len
    BY DEF Now, TaskFrame
  <2> QED
    BY <1>1, <2>1 DEF Now, At, Unread, Given, ByPromise, Arrived, Returned, Ended, Acts, Owed, Resting
<1>3. CASE Body(k)
  BY <1>3 DEF Body, Acts, Now, Stopping, TaskFrame
<1>4. CASE Inside(k)
  <2>1. act.core = <<k, 1>> /\ mem[<<k, 1>>].kind = "coro" /\ queue = {} /\ promised = {} /\ k <= len
    BY <1>1, <1>4 DEF Inside, Outer, Given, Acts, Owed
  <2>2. ~(cancelled /\ first = None)
    BY <1>4, <2>1, NoCoreFields DEF Inside, Now, Stopping, Unborn
  <2> QED
    BY <1>4, <2>1, <2>2
<1> QED
  BY <1>2, <1>3, <1>4

\* A core that another one calls.
LEMMA WhoIsNext ==
    ASSUME NEW k, Now(k), act.op = "here"
    PROVE  /\ queue = {} /\ promised = {}
           /\ \/ k > len /\ act.core = DropCore /\ act.from = <<k - 1, 0>> /\ Arrived(k)
              \/ k <= len /\ act.core = <<k, 0>> /\ act.from = <<k - 1, 0>> /\ Arrived(k)
              \/ k <= len /\ act.core = <<k, 0>> /\ act.from = <<k, 1>> /\ Returned(k)
              \/ k <= len /\ act.core = <<k, 1>> /\ act.from = <<k, 0>> /\ Inside(k)
<1>1. act # T!Idle
  BY DEF T!Idle
<1>2. Arrived(k) \/ Returned(k) \/ Inside(k)
  BY <1>1 DEF Now, At, Unread, Given, ByPromise, Body, Ended, Acts, Owed, Resting
<1>3. CASE Arrived(k)
  <2>1. k <= len \/ k > len
    BY DEF Now, TaskFrame
  <2> QED
    BY <1>3, <2>1 DEF Arrived, Acts
<1>4. CASE Returned(k)
  BY <1>4 DEF Returned, Outer, Acts
<1>5. CASE Inside(k)
  BY <1>1, <1>5 DEF Inside, Outer, Given, Acts, Owed
<1> QED
  BY <1>2, <1>3, <1>4, <1>5

\* What an executor or a promise has.
LEMMA WhoWaits ==
    ASSUME NEW k, Now(k), act = T!Idle, queue # {} \/ promised # {}
    PROVE  /\ k <= len
           /\ \/ Unread(k) /\ promised = {} /\ \E e \in {"pool", "manual"} : queue = {<<e, <<k, 0>>>>}
              \/ ByPromise(k) /\ queue = {} /\ promised = {<<k, 0>>}
              \/ /\ Inside(k) /\ mem[<<k, 1>>].kind = "coro" /\ promised = {}
                 /\ \E e \in {"pool", "manual"} : queue = {<<e, <<k, 1>>>>}
              \/ /\ Inside(k) /\ mem[<<k, 1>>].kind = "future"
                 /\ queue = {} /\ promised = {<<k, 1>>}
<1>1. act.op = "idle"
  BY DEF T!Idle
<1>2. Unread(k) \/ ByPromise(k) \/ Inside(k)
  <2>1. k <= len \/ k > len
    BY DEF Now, TaskFrame
  <2> QED
    BY <1>1, <2>1 DEF Now, At, Body, Arrived, Returned, Ended, Acts, Resting
<1>3. CASE Unread(k)
  BY <1>1, <1>3 DEF Unread, Given
<1>4. CASE ByPromise(k)
  BY <1>4 DEF ByPromise, Owed, Now, TaskFrame
<1>5. CASE Inside(k)
  BY <1>1, <1>5 DEF Inside, Outer, Given, Acts, Owed
<1> QED
  BY <1>2, <1>3, <1>4, <1>5

\* Calling the functor of a core, or dropping it.
LEMMA CoreCallInv ==
    ASSUME T!ConstantsAssumption, TaskInv, NEW c \in T!Cores, T!CoreCall(c) \/ T!CoreDrop(c)
    PROVE  TaskInv'
<1>1. /\ act.op \in {"call", "drop"} /\ act.core = c /\ mem[c].kind \in {"run", "then", "thenInline"}
      /\ act # T!Idle
  BY DEF T!CoreCall, T!CoreDrop, T!Working, T!Idle
<1>2. PICK k \in 0 .. len + 1 : Now(k)
  BY <1>1, SomeStage
<1>3. c = <<k, 0>> /\ Unread(k) /\ k <= len
  BY <1>1, <1>2, WhoIsCalled
<1>4. k \in Nat /\ TaskFrame /\ Around(k) /\ Stopping(k) /\ len \in 0 .. MaxThen /\ MaxThen \in Nat
  BY <1>2, TaskConstants DEF Now, TaskFrame
<1>5. CASE T!CoreDrop(c)
  <2>1. T!CallImpl(<<k, 0>>, "stop")
    BY <1>3, <1>5 DEF T!CoreDrop
  <2> QED
    BY <1>1, <1>3, <1>4, <2>1, CallImplInv
<1>6. CASE T!CoreCall(c) /\ mem[c].kind = "run"
  <2>1. T!CallImpl(<<k, 0>>, "value") /\ act.op = "call"
    BY <1>3, <1>6 DEF T!CoreCall, T!Working
  <2>2. k = 0
    BY <1>3, <1>6 DEF Unread, Pending, ThenKinds
  <2>3. ~(cancelled /\ first = None)
    BY <1>4, <2>1, <2>2 DEF Stopping
  <2> QED
    BY <1>1, <1>3, <1>4, <2>1, <2>3, CallImplInv
<1>7. CASE T!CoreCall(c) /\ mem[c].kind # "run"
  <2>1. T!CallImpl(<<k, 0>>, mem[mem[<<k, 0>>].slot.caller].slot.result)
    BY <1>3, <1>7 DEF T!CoreCall, T!Working
  <2>2. k > 0
    BY <1>1, <1>3, <1>4, <1>7 DEF Unread, Pending, HeadKinds
  <2>3. Resolved(<<k - 1, 0>>) /\ mem[<<k, 0>>].slot.caller = <<k - 1, 0>>
    BY <1>3, <2>2 DEF Unread, T!Self
  <2>4. <<k - 1, 0>> \in T!Cores
    BY <1>3, <1>4, <2>2, CoreNames
  <2>5. cancelled /\ first = None => mem[<<k - 1, 0>>].slot.result = "stop"
    BY <1>4, <2>3, <2>4 DEF Stopping, Resolved
  <2> QED
    BY <1>1, <1>3, <1>4, <2>1, <2>3, <2>5, CallImplInv
<1> QED
  BY <1>5, <1>6, <1>7

\* The head of the chain gets its result without a functor.
LEMMA HeadResult ==
    ASSUME T!ConstantsAssumption, TaskFrame, Around(0), Stopping(0), Pending(0),
           mem[<<0, 0>>].exec # None, Over(0),
           NEW m, IsMem(m), NEW t, T!SetResult(m, <<0, 0>>, t),
           m[<<0, 0>>].kind = mem[<<0, 0>>].kind, m[<<0, 0>>].st = mem[<<0, 0>>].st,
           m[<<0, 0>>].word = mem[<<0, 0>>].word,
           m[<<0, 0>>].exec = mem[<<0, 0>>].exec, m[<<0, 0>>].next = mem[<<0, 0>>].next,
           m[<<0, 0>>].fn # "stored", \A d \in T!Cores : d # <<0, 0>> => m[d] = mem[d],
           queue' = {}, promised' = {}, UNCHANGED <<len, user, cancelled, first>>,
           cancelled /\ first = None => m[<<0, 0>>].slot.result = "stop"
    PROVE  TaskInv'
<1>1. len \in 0 .. MaxThen /\ MaxThen \in Nat /\ (cancelled => first # "value") /\ 0 <= len
  BY TaskConstants DEF TaskFrame
<1>2. <<0, 0>> \in T!Cores /\ <<0, 1>> \in T!Cores
  BY <1>1, CoreNames
<1>3. /\ m[<<0, 0>>].st = "alive" /\ m[<<0, 0>>].word = Link(0) /\ m[<<0, 0>>].next = None
      /\ \/ m[<<0, 1>>] \in NoCores
         \/ 0 = 0 /\ m[<<0, 0>>].kind = "coro" /\ Resolved(<<0, 1>>) /\ m[<<0, 1>>] = mem[<<0, 1>>]
  BY <1>2 DEF Pending, Around, Over, Kept, Absent, Unborn, Freed, Late, NoCores
<1>4. \A d \in T!Cores \ Near(0) : m[d] = mem[d]
  BY <1>1 DEF Near
<1>5. /\ 0 \in Nat /\ m[<<0, 0>>].exec # None
      /\ 0 > 0 => m[<<0 - 1, 0>>] = T!NoCore("freed") /\ m[<<0 - 1, 1>>] \in NoCores
      /\ len' = len /\ user' = user /\ cancelled' = cancelled /\ first' = first
  OBVIOUS
<1>6. TaskFrame' /\ Going(0 + 1)'
  BY <1>1, <1>3, <1>4, <1>5, StageResult
<1> QED
  BY <1>1, <1>6, NowInv

\* The core inside stage k gets its result.
LEMMA InnerSet ==
    ASSUME T!ConstantsAssumption, NEW k, Now(k), Inside(k),
           NEW m, IsMem(m), NEW t, T!SetResult(m, <<k, 1>>, t),
           m[<<k, 1>>].st = mem[<<k, 1>>].st, m[<<k, 1>>].word = mem[<<k, 1>>].word,
           m[<<k, 1>>].exec = mem[<<k, 1>>].exec, m[<<k, 1>>].next = mem[<<k, 1>>].next,
           m[<<k, 1>>].fn # "stored", \A d \in T!Cores : d # <<k, 1>> => m[d] = mem[d],
           queue' = {}, promised' = {}, UNCHANGED <<len, user, cancelled, first>>
    PROVE  TaskInv'
<1>1. len \in 0 .. MaxThen /\ MaxThen \in Nat /\ k \in Nat /\ k <= len
  BY TaskConstants DEF Now, TaskFrame, Inside, Outer
<1>2. <<k, 1>> \in T!Cores
  <2>1. k \in 0 .. MaxThen
    BY <1>1
  <2> QED
    BY <2>1, CoreNames
<1>3. /\ m[<<k, 1>>].st = "alive" /\ m[<<k, 1>>].word = <<k, 0>> /\ m[<<k, 1>>].exec # None
      /\ m[<<k, 1>>].next = None
  BY <1>2 DEF Inside, Now, Around
<1>4. TaskFrame' /\ Going(k)'
  BY <1>1, <1>3, InnerResult DEF Now
<1> QED
  BY <1>1, <1>4, NowInv

\* A ReadyCore is called.
LEMMA ReadyCallInv ==
    ASSUME T!ConstantsAssumption, TaskInv, NEW c \in T!Cores, T!ReadyCall(c)
    PROVE  TaskInv'
<1>1. /\ act.op \in {"call", "here"} /\ act.core = c /\ mem[c].kind = "ready" /\ act # T!Idle
      /\ T!SetResult(mem, c, act.in) /\ UNCHANGED <<queue, promised, len, user, cancelled, first>>
  BY DEF T!ReadyCall, T!Working, T!Idle
<1>2. PICK k \in 0 .. len + 1 : Now(k)
  BY <1>1, SomeStage
<1>3. IsMem(mem) /\ k \in Nat /\ TaskFrame /\ Around(k) /\ Stopping(k)
  BY <1>2 DEF Now, TaskFrame
<1>4. queue = {} /\ promised = {}
  BY <1>1, <1>2, WhoIsCalled, WhoIsNext
<1>5. CASE c = <<k, 0>>
  <2>1. Unread(k) /\ act.op = "call"
    <3>1. act.op = "here" => (Arrived(k) /\ k <= len) \/ Returned(k)
      BY <1>1, <1>2, <1>3, <1>5, WhoIsNext, CoreNames, TaskConstants
    <3>2. ~(Arrived(k) /\ k <= len) /\ ~Returned(k)
      <4>1. ASSUME Arrived(k), k <= len PROVE FALSE
        <5>1. New(k) /\ k # 0
          BY <1>3, <4>1 DEF Arrived
        <5> QED
          BY <1>1, <1>5, <5>1 DEF New, Pending, ThenKinds
      <4>2. ASSUME Returned(k) PROVE FALSE
        BY <1>1, <1>5, <4>2 DEF Returned, Outer
      <4> QED
        BY <4>1, <4>2
    <3>3. act.op = "call" => Unread(k)
      BY <1>1, <1>2, <1>5, WhoIsCalled
    <3> QED
      BY <1>1, <3>1, <3>2, <3>3
  <2>2. k = 0
    BY <1>1, <1>5, <2>1 DEF Unread, Pending, ThenKinds
  <2>3. /\ Pending(0) /\ mem[<<0, 0>>].exec # None /\ Over(0) /\ mem[<<0, 0>>].fn # "stored"
        /\ ~(cancelled /\ first = None)
    BY <1>1, <1>3, <1>5, <2>1, <2>2 DEF Unread, Stopping
  <2>4. T!SetResult(mem, <<0, 0>>, act.in) /\ Around(0) /\ Stopping(0)
    BY <1>1, <1>3, <1>5, <2>2
  <2> QED
    BY <1>1, <1>3, <1>4, <2>3, <2>4, HeadResult
<1>6. CASE c = <<k, 1>>
  <2>1. Inside(k)
    BY <1>1, <1>2, <1>6, WhoIsCalled, WhoIsNext, TaskConstants
  <2>2. mem[<<k, 1>>].fn # "stored"
    BY <1>1, <1>6, <2>1 DEF Inside
  <2> QED
    BY <1>1, <1>2, <1>3, <1>4, <1>6, <2>1, <2>2, InnerSet
<1>7. c = <<k, 0>> \/ c = <<k, 1>>
  BY <1>1, <1>2, WhoIsCalled, WhoIsNext, TaskConstants
<1> QED
  BY <1>5, <1>6, <1>7

\* The functors of an inner Task are called.
LEMMA ChainCallInv ==
    ASSUME T!ConstantsAssumption, TaskInv, NEW c \in T!Cores, T!ChainCall(c)
    PROVE  TaskInv'
<1>1. /\ act.op = "here" /\ act.core = c /\ mem[c].kind = "chain" /\ act # T!Idle
      /\ UNCHANGED <<queue, promised, len, user, cancelled, first>>
  BY DEF T!ChainCall, T!Working, T!Idle
<1>2. PICK k \in 0 .. len + 1 : Now(k)
  BY <1>1, SomeStage
<1>3. IsMem(mem) /\ k \in Nat
  BY <1>2 DEF Now, TaskFrame
<1>4. /\ queue = {} /\ promised = {}
      /\ \/ c = <<k, 0>> /\ k <= len /\ Arrived(k)
         \/ c = <<k, 0>> /\ Returned(k)
         \/ c = <<k, 1>> /\ Inside(k)
  BY <1>1, <1>2, WhoIsNext, TaskConstants
<1>5. c = <<k, 1>> /\ Inside(k)
  <2>1. ASSUME Pending(k), c = <<k, 0>> PROVE FALSE
    BY <1>1, <2>1 DEF Pending, HeadKinds, ThenKinds
  <2>2. (k <= len /\ Arrived(k)) \/ Returned(k) => Pending(k)
    BY DEF Arrived, New, Returned, Outer
  <2> QED
    BY <1>4, <2>1, <2>2
<1>6. PICK r \in T!Outcomes :
        T!SetResult([mem EXCEPT ![c].slot = T!Result(r), ![c].fn = "gone"], c, act.in)
  BY DEF T!ChainCall
<1>7. PICK m : m = [mem EXCEPT ![c].slot = T!Result(r), ![c].fn = "gone"] /\ T!SetResult(m, c, act.in)
  BY <1>6
<1>8. /\ IsMem(m) /\ m[c].fn = "gone" /\ m[c].st = mem[c].st /\ m[c].word = mem[c].word
      /\ m[c].exec = mem[c].exec /\ m[c].next = mem[c].next
      /\ \A d \in T!Cores : d # c => m[d] = mem[d]
  BY <1>3, <1>7 DEF IsMem, Fields
<1>9. queue' = {} /\ promised' = {} /\ UNCHANGED <<len, user, cancelled, first>>
  BY <1>1, <1>4
<1>10. /\ T!SetResult(m, <<k, 1>>, act.in)
       /\ m[<<k, 1>>].st = mem[<<k, 1>>].st /\ m[<<k, 1>>].word = mem[<<k, 1>>].word
       /\ m[<<k, 1>>].exec = mem[<<k, 1>>].exec /\ m[<<k, 1>>].next = mem[<<k, 1>>].next
       /\ m[<<k, 1>>].fn # "stored"
       /\ \A d \in T!Cores : d # <<k, 1>> => m[d] = mem[d]
  BY <1>5, <1>7, <1>8
<1> QED
  BY <1>2, <1>5, <1>8, <1>9, <1>10, InnerSet

\* A job is dropped, and StopTag is its result.
LEMMA StopDropInv ==
    ASSUME T!ConstantsAssumption, TaskInv, NEW c \in T!Cores, T!StopDrop(c)
    PROVE  TaskInv'
<1> DEFINE x == IF mem[c].fn = "stored" THEN "gone" ELSE mem[c].fn
<1>1. /\ act.op = "drop" /\ act.core = c /\ mem[c].kind \in {"ready", "promise", "coro"} /\ act # T!Idle
      /\ UNCHANGED <<queue, promised, len, user, cancelled, first>>
  BY DEF T!StopDrop, T!Working, T!Idle
<1>2. PICK k \in 0 .. len + 1 : Now(k)
  BY <1>1, SomeStage
<1>3. IsMem(mem) /\ k \in Nat /\ TaskFrame /\ Around(k) /\ Stopping(k)
  BY <1>2 DEF Now, TaskFrame
<1>4. /\ queue = {} /\ promised = {}
      /\ \/ c = <<k, 0>> /\ Unread(k)
         \/ c = <<k, 1>> /\ Inside(k)
  BY <1>1, <1>2, WhoIsCalled
<1>5. PICK m : /\ m = [mem EXCEPT ![c].slot = T!Result("stop"), ![c].fn = x]
               /\ T!SetResult(m, c, act.in)
  <2>1. [mem EXCEPT ![c].slot = T!Result("stop"), ![c].fn = x]
          = [mem EXCEPT ![c].slot = T!Result("stop"), ![c].fn = IF @ = "stored" THEN "gone" ELSE @]
    BY <1>3 DEF IsMem, Fields
  <2> QED
    BY <2>1 DEF T!StopDrop
<1> HIDE DEF x
<1>6. /\ IsMem(m) /\ m[c].slot = T!Result("stop") /\ m[c].fn = x
      /\ m[c].kind = mem[c].kind /\ m[c].st = mem[c].st /\ m[c].word = mem[c].word
      /\ m[c].exec = mem[c].exec /\ m[c].next = mem[c].next
      /\ \A d \in T!Cores : d # c => m[d] = mem[d]
  BY <1>3, <1>5 DEF IsMem, Fields
<1>7. x # "stored" /\ T!Result("stop").result = "stop"
  BY DEF x, T!Result
<1>8. queue' = {} /\ promised' = {} /\ UNCHANGED <<len, user, cancelled, first>>
  BY <1>1, <1>4
<1>9. CASE c = <<k, 0>> /\ Unread(k)
  <2>1. k = 0
    BY <1>1, <1>9 DEF Unread, Pending, ThenKinds
  <2>2. /\ Pending(0) /\ mem[<<0, 0>>].exec # None /\ Over(0)
        /\ Around(0) /\ Stopping(0) /\ c = <<0, 0>>
    BY <1>3, <1>9, <2>1 DEF Unread
  <2>3. /\ T!SetResult(m, <<0, 0>>, act.in)
        /\ m[<<0, 0>>].kind = mem[<<0, 0>>].kind /\ m[<<0, 0>>].st = mem[<<0, 0>>].st /\ m[<<0, 0>>].word = mem[<<0, 0>>].word
        /\ m[<<0, 0>>].exec = mem[<<0, 0>>].exec /\ m[<<0, 0>>].next = mem[<<0, 0>>].next
        /\ m[<<0, 0>>].fn # "stored" /\ m[<<0, 0>>].slot.result = "stop"
        /\ \A d \in T!Cores : d # <<0, 0>> => m[d] = mem[d]
    BY <1>5, <1>6, <1>7, <2>2
  <2> QED
    BY <1>3, <1>6, <1>8, <2>2, <2>3, HeadResult
<1>10. CASE c = <<k, 1>> /\ Inside(k)
  <2>1. /\ T!SetResult(m, <<k, 1>>, act.in)
        /\ m[<<k, 1>>].st = mem[<<k, 1>>].st /\ m[<<k, 1>>].word = mem[<<k, 1>>].word
        /\ m[<<k, 1>>].exec = mem[<<k, 1>>].exec /\ m[<<k, 1>>].next = mem[<<k, 1>>].next
        /\ m[<<k, 1>>].fn # "stored"
        /\ \A d \in T!Cores : d # <<k, 1>> => m[d] = mem[d]
    BY <1>5, <1>6, <1>7, <1>10
  <2> QED
    BY <1>2, <1>6, <1>8, <1>10, <2>1, InnerSet
<1> QED
  BY <1>4, <1>9, <1>10

\* A promise is set or destroyed.
LEMMA PromiseSetInv ==
    ASSUME T!ConstantsAssumption, TaskInv, NEW c \in T!Cores, NEW r, NEW t, T!PromiseSet(c, r, t)
    PROVE  TaskInv'
<1>1. /\ act = T!Idle /\ c \in promised /\ promised # {}
      /\ promised' = promised \ {c} /\ UNCHANGED <<queue, len, user, cancelled, first>>
  BY DEF T!PromiseSet
<1>2. PICK k \in 0 .. len + 1 : Now(k)
  BY <1>1, SomeStage
<1>3. IsMem(mem) /\ k \in Nat /\ TaskFrame /\ Around(k) /\ Stopping(k)
  BY <1>2 DEF Now, TaskFrame
<1>4. /\ queue = {} /\ promised = {c}
      /\ \/ c = <<k, 0>> /\ ByPromise(k)
         \/ c = <<k, 1>> /\ Inside(k) /\ mem[<<k, 1>>].kind = "future"
  <2>1. \/ ByPromise(k) /\ queue = {} /\ promised = {<<k, 0>>}
        \/ Inside(k) /\ mem[<<k, 1>>].kind = "future" /\ queue = {} /\ promised = {<<k, 1>>}
    BY <1>1, <1>2, WhoWaits
  <2> QED
    BY <1>1, <2>1
<1>5. PICK m : m = [mem EXCEPT ![c].slot = T!Result(r)] /\ T!SetResult(m, c, t)
  BY DEF T!PromiseSet
<1>6. /\ IsMem(m) /\ m[c].fn = mem[c].fn
      /\ m[c].kind = mem[c].kind /\ m[c].st = mem[c].st /\ m[c].word = mem[c].word
      /\ m[c].exec = mem[c].exec /\ m[c].next = mem[c].next
      /\ \A d \in T!Cores : d # c => m[d] = mem[d]
  BY <1>3, <1>5 DEF IsMem, Fields
<1>7. queue' = {} /\ promised' = {} /\ UNCHANGED <<len, user, cancelled, first>>
  BY <1>1, <1>4
<1>8. CASE c = <<k, 0>> /\ ByPromise(k)
  <2>1. /\ Pending(0) /\ mem[<<0, 0>>].exec # None /\ Over(0) /\ mem[<<0, 0>>].fn # "stored"
        /\ Around(0) /\ Stopping(0) /\ c = <<0, 0>>
    BY <1>3, <1>8 DEF ByPromise, Over, Absent
  <2>2. ~(cancelled /\ first = None)
    BY <1>1, <2>1 DEF Stopping, T!Idle
  <2>3. /\ T!SetResult(m, <<0, 0>>, t)
        /\ m[<<0, 0>>].kind = mem[<<0, 0>>].kind /\ m[<<0, 0>>].st = mem[<<0, 0>>].st
        /\ m[<<0, 0>>].word = mem[<<0, 0>>].word
        /\ m[<<0, 0>>].exec = mem[<<0, 0>>].exec /\ m[<<0, 0>>].next = mem[<<0, 0>>].next
        /\ m[<<0, 0>>].fn # "stored" /\ \A d \in T!Cores : d # <<0, 0>> => m[d] = mem[d]
    BY <1>5, <1>6, <2>1
  <2> QED
    BY <1>3, <1>6, <1>7, <2>1, <2>2, <2>3, HeadResult
<1>9. CASE c = <<k, 1>> /\ Inside(k) /\ mem[<<k, 1>>].kind = "future"
  <2>1. mem[c].fn # "stored"
    BY <1>9 DEF Inside
  <2>2. /\ T!SetResult(m, <<k, 1>>, t)
        /\ m[<<k, 1>>].st = mem[<<k, 1>>].st /\ m[<<k, 1>>].word = mem[<<k, 1>>].word
        /\ m[<<k, 1>>].exec = mem[<<k, 1>>].exec /\ m[<<k, 1>>].next = mem[<<k, 1>>].next
        /\ m[<<k, 1>>].fn # "stored"
        /\ \A d \in T!Cores : d # <<k, 1>> => m[d] = mem[d]
    BY <1>5, <1>6, <1>9, <2>1
  <2> QED
    BY <1>2, <1>6, <1>7, <1>9, <2>2, InnerSet
<1> QED
  BY <1>4, <1>8, <1>9

\* A coroutine returns.
LEMMA CoReturnInv ==
    ASSUME T!ConstantsAssumption, TaskInv, NEW c \in T!Cores, T!CoReturn(c)
    PROVE  TaskInv'
<1>1. /\ act.op = "body" /\ act.core = c /\ act # T!Idle
      /\ UNCHANGED <<queue, promised, len, user, cancelled, first>>
  BY DEF T!CoReturn, T!Working, T!Idle
<1>2. PICK k \in 0 .. len + 1 : Now(k)
  BY <1>1, SomeStage
<1>3. IsMem(mem) /\ k \in Nat /\ TaskFrame /\ Around(k) /\ Stopping(k)
  BY <1>2 DEF Now, TaskFrame
<1>4. /\ queue = {} /\ promised = {} /\ ~(cancelled /\ first = None)
      /\ \/ c = <<k, 0>> /\ Body(k)
         \/ c = <<k, 1>> /\ Inside(k) /\ mem[<<k, 1>>].kind = "coro"
  BY <1>1, <1>2, WhoRuns
<1>5. PICK r \in T!Outcomes : T!SetResult([mem EXCEPT ![c].slot = T!Result(r)], c, act.in)
  BY DEF T!CoReturn
<1>6. PICK m : m = [mem EXCEPT ![c].slot = T!Result(r)] /\ T!SetResult(m, c, act.in)
  BY <1>5
<1>7. /\ IsMem(m) /\ m[c].fn = mem[c].fn
      /\ m[c].kind = mem[c].kind /\ m[c].st = mem[c].st /\ m[c].word = mem[c].word
      /\ m[c].exec = mem[c].exec /\ m[c].next = mem[c].next
      /\ \A d \in T!Cores : d # c => m[d] = mem[d]
  BY <1>3, <1>6 DEF IsMem, Fields
<1>8. queue' = {} /\ promised' = {} /\ UNCHANGED <<len, user, cancelled, first>>
  BY <1>1, <1>4
<1>9. CASE c = <<k, 0>> /\ Body(k)
  <2>1. /\ Pending(0) /\ mem[<<0, 0>>].exec # None /\ Over(0) /\ mem[<<0, 0>>].fn # "stored"
        /\ Around(0) /\ Stopping(0) /\ c = <<0, 0>>
    BY <1>3, <1>9 DEF Body
  <2>2. /\ T!SetResult(m, <<0, 0>>, act.in)
        /\ m[<<0, 0>>].kind = mem[<<0, 0>>].kind /\ m[<<0, 0>>].st = mem[<<0, 0>>].st
        /\ m[<<0, 0>>].word = mem[<<0, 0>>].word
        /\ m[<<0, 0>>].exec = mem[<<0, 0>>].exec /\ m[<<0, 0>>].next = mem[<<0, 0>>].next
        /\ m[<<0, 0>>].fn # "stored" /\ \A d \in T!Cores : d # <<0, 0>> => m[d] = mem[d]
    BY <1>6, <1>7, <2>1
  <2> QED
    BY <1>3, <1>4, <1>7, <1>8, <2>1, <2>2, HeadResult
<1>10. CASE c = <<k, 1>> /\ Inside(k) /\ mem[<<k, 1>>].kind = "coro"
  <2>1. mem[c].fn # "stored"
    BY <1>10 DEF Inside
  <2>2. /\ T!SetResult(m, <<k, 1>>, act.in)
        /\ m[<<k, 1>>].st = mem[<<k, 1>>].st /\ m[<<k, 1>>].word = mem[<<k, 1>>].word
        /\ m[<<k, 1>>].exec = mem[<<k, 1>>].exec /\ m[<<k, 1>>].next = mem[<<k, 1>>].next
        /\ m[<<k, 1>>].fn # "stored"
        /\ \A d \in T!Cores : d # <<k, 1>> => m[d] = mem[d]
    BY <1>6, <1>7, <1>10, <2>1
  <2> QED
    BY <1>2, <1>7, <1>8, <1>10, <2>2, InnerSet
<1> QED
  BY <1>4, <1>9, <1>10

\* A stage takes the result of its Task or Future.
LEMMA AsyncDoneInv ==
    ASSUME T!ConstantsAssumption, TaskInv, NEW c \in T!Cores, T!AsyncDone(c)
    PROVE  TaskInv'
<1>1. /\ act.op = "here" /\ act.core = c /\ act # T!Idle
      /\ mem[c].kind \in {"run", "then", "thenInline"} /\ (mem[c].kind = "run" \/ mem[c].slot.unwrapping)
      /\ UNCHANGED <<queue, promised, len, user, cancelled, first>>
  BY DEF T!AsyncDone, T!Working, T!Idle
<1>2. PICK k \in 0 .. len + 1 : Now(k)
  BY <1>1, SomeStage
<1>3. k \in Nat /\ TaskFrame /\ Around(k) /\ Stopping(k) /\ k <= len + 1
  BY <1>2 DEF Now, TaskFrame
<1>4. /\ queue = {} /\ promised = {}
      /\ \/ c = <<k, 0>> /\ k <= len /\ Arrived(k)
         \/ c = <<k, 0>> /\ Returned(k)
         \/ c = <<k, 1>> /\ Inside(k)
  BY <1>1, <1>2, WhoIsNext, TaskConstants
<1>5. c = <<k, 0>> /\ Returned(k)
  <2>1. ASSUME c = <<k, 0>>, k <= len, Arrived(k) PROVE FALSE
    <3>1. New(k) /\ k # 0
      BY <1>3, <2>1 DEF Arrived
    <3>2. mem[c].slot = T!Self(None, FALSE) /\ mem[c].kind # "run"
      BY <2>1, <3>1 DEF New, Pending, ThenKinds
    <3> QED
      BY <1>1, <3>2 DEF T!Self
  <2>2. ASSUME c = <<k, 1>>, Inside(k) PROVE FALSE
    BY <1>1, <2>2 DEF Inside
  <2> QED
    BY <1>4, <2>1, <2>2
<1>6. PICK r : T!Done(<<k, 0>>, r, TRUE)
  BY <1>5 DEF T!AsyncDone
<1>7. k <= len /\ len \in Nat
  BY <1>3, <1>5 DEF Returned, Outer, TaskFrame
<1>8. TaskFrame' /\ Going(k + 1)'
  BY <1>1, <1>3, <1>4, <1>5, <1>6, DoneAsync
<1> QED
  BY <1>1, <1>3, <1>7, <1>8, NowInv

\* Submit gives the job to an executor.
LEMMA SubmitGives ==
    ASSUME NEW c, NEW e, NEW t, T!Submit(c, e, t), queue = {}, promised' = {}
    PROVE  Given(c)'
<1>1. CASE e \in {"pool", "manual"}
  BY <1>1 DEF T!Submit, Given
<1>2. CASE e \notin {"pool", "manual"}
  BY <1>2 DEF T!Submit, Given, T!Act
<1> QED
  BY <1>1, <1>2

\* No functor of a cancelled chain has run only while its head is dropped or after.
LEMMA HeadStops ==
    ASSUME Stopping(0), act.op # "drop"
    PROVE  ~(cancelled /\ first = None)
BY DEF Stopping

\* Nor is there a Task or Future inside a stage then.
LEMMA InsideStops ==
    ASSUME NEW k, k <= len, Stopping(k), mem[<<k, 1>>].st = "alive"
    PROVE  ~(cancelled /\ first = None)
BY NoCoreFields DEF Stopping, Unborn

\* The functor of a PromiseCore is called with its promise.
LEMMA PromiseCallInv ==
    ASSUME T!ConstantsAssumption, TaskInv, NEW c \in T!Cores, T!PromiseCall(c)
    PROVE  TaskInv'
<1>1. /\ act.op = "call" /\ act.core = c /\ mem[c].kind = "promise" /\ act # T!Idle
      /\ mem' = [mem EXCEPT ![c].fn = "gone"] /\ promised' = promised \cup {c} /\ act' = T!Idle
      /\ UNCHANGED <<queue, len, user, cancelled>> /\ T!Ran("value")
  BY DEF T!PromiseCall, T!Working, T!Idle
<1>2. PICK k \in 0 .. len + 1 : Now(k)
  BY <1>1, SomeStage
<1>3. /\ k \in Nat /\ TaskFrame /\ Around(k) /\ Stopping(k) /\ IsMem(mem)
      /\ len \in 0 .. MaxThen /\ MaxThen \in Nat /\ (cancelled => first # "value")
  BY <1>2, TaskConstants DEF Now, TaskFrame
<1>4. c = <<k, 0>> /\ Unread(k) /\ queue = {} /\ promised = {} /\ k <= len
  BY <1>1, <1>2, WhoIsCalled
<1>5. k = 0
  BY <1>1, <1>4 DEF Unread, Pending, ThenKinds
<1>6. ~(cancelled /\ first = None) /\ first' = first
  BY <1>1, <1>3, <1>5, HeadStops DEF T!Ran
<1>7. /\ IsMem(mem') /\ mem'[c].fn = "gone"
      /\ mem'[c].kind = mem[c].kind /\ mem'[c].st = mem[c].st /\ mem'[c].word = mem[c].word
      /\ mem'[c].exec = mem[c].exec /\ mem'[c].next = mem[c].next
      /\ \A d \in T!Cores : d # c => mem'[d] = mem[d]
  BY <1>1, <1>3 DEF IsMem, Fields
<1>8. mem'[<<0, 1>>] = mem[<<0, 1>>]
  BY <1>3, <1>4, <1>5, <1>7, CoreNames
<1>9. ByPromise(0)'
  <2>1. Pending(0) /\ Unborn(<<0, 1>>) /\ mem[<<0, 0>>].exec # None
    BY <1>1, <1>4, <1>5 DEF Unread
  <2>2. Pending(0)' /\ Unborn(<<0, 1>>)'
    BY <1>1, <1>4, <1>5, <1>7, <1>8, <2>1 DEF Pending, Unborn, Link
  <2>3. Owed(<<0, 0>>)'
    BY <1>1, <1>4, <1>5 DEF Owed
  <2> QED
    BY <1>1, <1>4, <1>5, <1>7, <2>1, <2>2, <2>3 DEF ByPromise
<1>10. /\ \A d \in T!Cores \ Near(0) : mem'[d] = mem[d]
       /\ \A d \in T!Cores \cap Near(0) : mem'[d].next = None
  <2>1. c \in Near(0)
    BY <1>3, <1>4, <1>5 DEF Near
  <2> QED
    BY <1>3, <1>7, <2>1 DEF Around
<1>11. Stopping(0)' /\ At(0)' /\ IsMem(mem)'
  BY <1>1, <1>6, <1>7, <1>9 DEF Stopping, At, IsMem
<1>12. ~(0 > 0)
  OBVIOUS
<1>13. TaskFrame' /\ Going(0)'
  BY <1>1, <1>3, <1>4, <1>5, <1>6, <1>10, <1>11, <1>12, Stay
<1> QED
  BY <1>1, <1>3, <1>13, NowInv

\* A stage is called by the one before it.
LEMMA ThenHereInv ==
    ASSUME T!ConstantsAssumption, TaskInv, NEW c \in T!Cores, T!ThenHere(c)
    PROVE  TaskInv'
<1>1. /\ act.op = "here" /\ act.core = c /\ mem[c].kind \in {"then", "thenInline"} /\ act # T!Idle
      /\ ~mem[c].slot.unwrapping
      /\ mem' = [T!TransferExecutorTo(act.from, c) EXCEPT ![c].slot = T!Self(act.from, FALSE)]
      /\ UNCHANGED <<promised, len, user, cancelled, first>>
  BY DEF T!ThenHere, T!Working, T!Idle
<1>2. PICK k \in 0 .. len + 1 : Now(k)
  BY <1>1, SomeStage
<1>3. /\ k \in Nat /\ TaskFrame /\ Around(k) /\ Stopping(k) /\ IsMem(mem)
      /\ len \in 0 .. MaxThen /\ MaxThen \in Nat /\ (cancelled => first # "value")
  BY <1>2, TaskConstants DEF Now, TaskFrame
<1>4. /\ queue = {} /\ promised = {}
      /\ \/ c = <<k, 0>> /\ k <= len /\ Arrived(k) /\ act.from = <<k - 1, 0>>
         \/ c = <<k, 0>> /\ Returned(k)
         \/ c = <<k, 1>> /\ Inside(k)
  BY <1>1, <1>2, WhoIsNext, TaskConstants
<1>5. c = <<k, 0>> /\ k <= len /\ Arrived(k) /\ act.from = <<k - 1, 0>>
  <2>1. ASSUME c = <<k, 0>>, Returned(k) PROVE FALSE
    <3>1. mem[c].slot = T!Self(<<k, 1>>, mem[c].kind # "run")
      BY <1>1, <2>1 DEF Returned, Outer
    <3>2. (mem[c].kind # "run") = TRUE
      BY <1>1
    <3>3. mem[c].slot = T!Self(<<k, 1>>, TRUE)
      BY <3>1, <3>2, Zenon
    <3> QED
      BY <1>1, <3>3 DEF T!Self
  <2>2. ASSUME c = <<k, 1>>, Inside(k) PROVE FALSE
    BY <1>1, <2>2 DEF Inside
  <2> QED
    BY <1>4, <2>1, <2>2
<1>6. k > 0 /\ New(k) /\ Resolved(<<k - 1, 0>>) /\ mem[<<k - 1, 0>>].exec # None
  BY <1>5 DEF Arrived
<1> DEFINE p == <<k - 1, 0>>
<1>7. /\ p \in T!Cores /\ <<k, 1>> \in T!Cores /\ p # c /\ p # <<k, 1>> /\ c # <<k, 1>>
      /\ <<k - 1, 1>> \in T!Cores /\ <<k - 1, 1>> # c /\ <<k - 1, 1>> # p
  BY <1>3, <1>5, <1>6, CoreNames
<1> HIDE DEF p
<1>8. /\ mem' = [T!TransferExecutorTo(p, c) EXCEPT ![c].slot = T!Self(p, FALSE)]
      /\ Resolved(p) /\ mem[p].exec # None
  BY <1>1, <1>5, <1>6 DEF p
<1>9. /\ IsMem(mem') /\ mem'[c].slot = T!Self(p, FALSE) /\ mem'[c].exec # None
      /\ mem'[c].kind = mem[c].kind /\ mem'[c].st = mem[c].st /\ mem'[c].word = mem[c].word
      /\ mem'[c].fn = mem[c].fn /\ mem'[c].next = mem[c].next
      /\ mem'[p].st = mem[p].st /\ mem'[p].word = mem[p].word /\ mem'[p].fn = mem[p].fn
      /\ mem'[p].kind = mem[p].kind /\ mem'[p].next = mem[p].next /\ mem'[p].slot = mem[p].slot
      /\ \A d \in T!Cores : d # c /\ d # p => mem'[d] = mem[d]
  BY <1>3, <1>7, <1>8 DEF IsMem, Fields, T!TransferExecutorTo
<1>10. mem'[<<k, 1>>] = mem[<<k, 1>>]
  BY <1>7, <1>9
<1>11. Given(c)'
  <2>1. CASE mem[c].kind = "then"
    <3>1. PICK e : T!Submit(c, e, act.in)
      BY <2>1 DEF T!ThenHere
    <3> QED
      BY <1>1, <1>4, <3>1, SubmitGives
  <2>2. CASE mem[c].kind # "then"
    BY <1>1, <1>4, <2>2 DEF T!ThenHere, Given, T!Act
  <2> QED
    BY <2>1, <2>2
<1>12. Unread(k)'
  <2>1. Pending(k)' /\ Unborn(<<k, 1>>)' /\ Resolved(<<k - 1, 0>>)'
    BY <1>1, <1>5, <1>6, <1>8, <1>9, <1>10 DEF New, Pending, Unborn, Link, Resolved, p
  <2>2. mem'[<<k, 0>>].fn = "stored" /\ mem'[<<k, 0>>].kind \in ThenKinds
    BY <1>1, <1>5, <1>6, <1>9 DEF New, ThenKinds
  <2> QED
    BY <1>1, <1>5, <1>9, <1>11, <2>1, <2>2 DEF Unread, Over, Absent, ThenKinds, p
<1>13. /\ \A d \in T!Cores \ Near(k) : mem'[d] = mem[d]
       /\ \A d \in T!Cores \cap Near(k) : mem'[d].next = None
  <2>1. c \in Near(k) /\ p \in Near(k)
    BY <1>3, <1>5 DEF Near, p
  <2>2. mem[c].next = None /\ mem[p].next = None
    BY <1>3, <1>7 DEF Around
  <2> QED
    BY <1>3, <1>9, <2>1, <2>2 DEF Around
<1>14. Stopping(k)'
  <2>1. \A d \in T!Cores : mem'[d].word = kResult => mem[d].word = kResult /\ mem'[d].slot = mem[d].slot
    <3>1. mem[c].word # kResult
      BY <1>3, <1>5, <1>6, CoreNames, TaskConstants DEF New, Pending, Link
    <3> QED
      BY <1>9, <3>1
  <2>2. Unborn(<<k, 1>>)'
    BY <1>6, <1>10 DEF New, Unborn
  <2> QED
    BY <1>1, <1>3, <1>6, <2>1, <2>2 DEF Stopping
<1>15. At(k)' /\ IsMem(mem)' /\ (cancelled => first' # "value")
  BY <1>1, <1>3, <1>9, <1>12 DEF At, IsMem
<1>16. k > 0 => Over(k - 1)'
  <2>1. mem'[<<k - 1, 0>>].kind = mem[<<k - 1, 0>>].kind /\ mem'[<<k - 1, 1>>] = mem[<<k - 1, 1>>]
    BY <1>7, <1>9 DEF p
  <2> QED
    BY <1>3, <1>5, <2>1, BeforeStays
<1>17. TaskFrame' /\ Going(k)'
  BY <1>1, <1>3, <1>5, <1>13, <1>14, <1>15, <1>16, Stay
<1> QED
  BY <1>1, <1>3, <1>5, <1>17, NowInv

\* The head's coroutine goes to another place, its core apart from _executor as
\* it was.
LEMMA HeadMoves ==
    ASSUME T!ConstantsAssumption, TaskFrame, Around(0), Pending(0), mem[<<0, 0>>].kind = "coro",
           mem[<<0, 0>>].fn = "none", IsMem(mem)',
           mem'[<<0, 0>>].kind = mem[<<0, 0>>].kind, mem'[<<0, 0>>].st = mem[<<0, 0>>].st,
           mem'[<<0, 0>>].word = mem[<<0, 0>>].word, mem'[<<0, 0>>].fn = mem[<<0, 0>>].fn,
           mem'[<<0, 0>>].next = mem[<<0, 0>>].next, mem'[<<0, 0>>].exec # None, Over(0)', mem'[<<0, 1>>].next = None,
           \A d \in T!Cores : d # <<0, 0>> /\ d # <<0, 1>> => mem'[d] = mem[d],
           Given(<<0, 0>>)' \/ Acts("body", <<0, 0>>, None)',
           ~(cancelled /\ first = None), UNCHANGED <<len, user, cancelled, first>>
    PROVE  TaskInv'
<1>1. len \in 0 .. MaxThen /\ MaxThen \in Nat /\ (cancelled => first # "value")
  BY TaskConstants DEF TaskFrame
<1>2. Pending(0)'
  BY DEF Pending, Link
<1>3. At(0)'
  <2>1. CASE Given(<<0, 0>>)'
    BY <1>1, <1>2, <2>1 DEF At, Unread
  <2>2. CASE Acts("body", <<0, 0>>, None)'
    BY <1>2, <2>2 DEF At, Body
  <2> QED
    BY <2>1, <2>2
<1>4. /\ \A d \in T!Cores \ Near(0) : mem'[d] = mem[d]
      /\ \A d \in T!Cores \cap Near(0) : mem'[d].next = None
  <2>1. <<0, 0>> \in T!Cores /\ mem[<<0, 0>>].next = None
    BY <1>1, CoreNames DEF Around
  <2> QED
    BY <1>1, <2>1 DEF Near, Around
<1>5. Stopping(0)'
  BY NotStopping
<1>6. TaskFrame' /\ Going(0)'
  <2>1. ~(0 > 0)
    OBVIOUS
  <2> QED
    BY <1>1, <1>3, <1>4, <1>5, <2>1, Stay
<1> QED
  BY <1>1, <1>6, NowInv

\* The coroutine inside stage k goes to another place.
LEMMA InnerMoves ==
    ASSUME T!ConstantsAssumption, NEW k, Now(k), Inside(k), mem[<<k, 1>>].kind = "coro", IsMem(mem)',
           mem'[<<k, 1>>].kind = mem[<<k, 1>>].kind, mem'[<<k, 1>>].st = mem[<<k, 1>>].st,
           mem'[<<k, 1>>].word = mem[<<k, 1>>].word, mem'[<<k, 1>>].fn = mem[<<k, 1>>].fn,
           mem'[<<k, 1>>].next = mem[<<k, 1>>].next, mem'[<<k, 1>>].exec # None,
           mem'[<<k, 0>>].kind = mem[<<k, 0>>].kind, mem'[<<k, 0>>].st = mem[<<k, 0>>].st,
           mem'[<<k, 0>>].word = mem[<<k, 0>>].word, mem'[<<k, 0>>].fn = mem[<<k, 0>>].fn,
           mem'[<<k, 0>>].next = mem[<<k, 0>>].next, mem'[<<k, 0>>].exec # None,
           mem'[<<k, 0>>].slot = mem[<<k, 0>>].slot,
           \A d \in T!Cores : d # <<k, 0>> /\ d # <<k, 1>> => mem'[d] = mem[d],
           Given(<<k, 1>>)' \/ Acts("body", <<k, 1>>, None)',
           UNCHANGED <<len, user, cancelled, first>>
    PROVE  TaskInv'
<1>1. /\ len \in 0 .. MaxThen /\ MaxThen \in Nat /\ (cancelled => first # "value")
      /\ k \in Nat /\ k <= len /\ TaskFrame /\ Around(k) /\ Stopping(k) /\ Outer(k)
  BY TaskConstants DEF Now, TaskFrame, Inside, Outer
<1>2. /\ <<k, 0>> \in T!Cores /\ <<k, 1>> \in T!Cores
      /\ k > 0 => <<k - 1, 0>> \in T!Cores /\ <<k - 1, 1>> \in T!Cores
  <2>1. k \in 0 .. MaxThen /\ (k > 0 => k - 1 \in 0 .. MaxThen)
    BY <1>1
  <2> QED
    BY <2>1, CoreNames
<1>3. k > 0 => mem'[<<k - 1, 0>>] = mem[<<k - 1, 0>>] /\ mem'[<<k - 1, 1>>] = mem[<<k - 1, 1>>]
  BY <1>1, <1>2
<1>4. Outer(k)'
  <2>1. Pending(k)'
    BY <1>1 DEF Outer, Pending, Link
  <2> QED
    BY <1>1, <1>3, <2>1 DEF Outer, Freed
<1>5. Inside(k)'
  BY <1>4 DEF Inside
<1>6. /\ \A d \in T!Cores \ Near(k) : mem'[d] = mem[d]
      /\ \A d \in T!Cores \cap Near(k) : mem'[d].next = None
  <2>1. mem[<<k, 0>>].next = None /\ mem[<<k, 1>>].next = None
    BY <1>1, <1>2 DEF Around
  <2> QED
    BY <1>1, <2>1 DEF Near, Around
<1>7. Stopping(k)'
  <2>1. ~(cancelled /\ first = None)
    BY <1>1, InsideStops DEF Inside
  <2> QED
    BY <2>1, NotStopping
<1>8. At(k)'
  BY <1>5 DEF At
<1>9. k > 0 => Over(k - 1)'
  BY <1>1, <1>3, BeforeStays
<1>10. TaskFrame' /\ Going(k)'
  BY <1>1, <1>6, <1>7, <1>8, <1>9, Stay
<1> QED
  BY <1>1, <1>10, NowInv

\* A coroutine starts, or goes on after its co_await.
LEMMA CoroHereInv ==
    ASSUME T!ConstantsAssumption, TaskInv, NEW c \in T!Cores, T!CoroHere(c)
    PROVE  TaskInv'
<1>1. /\ act.op = "here" /\ act.core = c /\ mem[c].kind = "coro" /\ act # T!Idle
      /\ act' = T!Act("body", c, None, act.in)
      /\ UNCHANGED <<queue, promised, len, user, cancelled, first>>
  BY DEF T!CoroHere, T!Working, T!Idle
<1>2. PICK k \in 0 .. len + 1 : Now(k)
  BY <1>1, SomeStage
<1>3. /\ k \in Nat /\ TaskFrame /\ Around(k) /\ Stopping(k) /\ IsMem(mem)
      /\ len \in 0 .. MaxThen /\ MaxThen \in Nat
  BY <1>2, TaskConstants DEF Now, TaskFrame
<1>4. /\ queue = {} /\ promised = {} /\ k <= len
      /\ \/ c = <<k, 0>> /\ Arrived(k)
         \/ c = <<k, 0>> /\ act.from = <<k, 1>> /\ Returned(k)
         \/ c = <<k, 1>> /\ act.from = <<k, 0>> /\ Inside(k)
  BY <1>1, <1>2, WhoIsNext, TaskConstants
<1>5. <<k, 0>> \in T!Cores /\ <<k, 1>> \in T!Cores /\ <<k, 0>> # <<k, 1>>
      /\ T!Inner(<<k, 0>>) = <<k, 1>> /\ T!Inner(<<k, 1>>) = <<k, 1>>
  <2>1. k \in 0 .. MaxThen
    BY <1>3, <1>4
  <2> QED
    BY <2>1, CoreNames DEF T!Inner
<1>6. Acts("body", c, None)'
  BY <1>1, <1>4 DEF Acts, T!Act
<1>7. ~(c = <<k, 0>> /\ Arrived(k))
  <2>1. ASSUME c = <<k, 0>>, Arrived(k) PROVE FALSE
    <3>1. New(k) /\ k # 0
      BY <1>3, <1>4, <2>1 DEF Arrived
    <3> QED
      BY <1>1, <2>1, <3>1 DEF New, Pending, ThenKinds
  <2> QED
    BY <2>1
<1>8. CASE c = <<k, 0>> /\ act.from = <<k, 1>> /\ Returned(k)
  <2> DEFINE m == T!Swapped(<<k, 0>>, <<k, 1>>)
  <2>1. mem' = m \/ mem' = T!DecRef(m, <<k, 1>>)
    BY <1>5, <1>8 DEF T!CoroHere
  <2>2. /\ Pending(k) /\ mem[<<k, 0>>].kind = "coro" /\ mem[<<k, 0>>].fn = "none"
        /\ Resolved(<<k, 1>>) /\ mem[<<k, 1>>].exec # None
    BY <1>1, <1>8 DEF Returned, Outer
  <2>3. k = 0 /\ mem[<<k, 1>>].next = None
    BY <1>3, <1>5, <2>2 DEF Pending, ThenKinds, Around
  <2>4. /\ IsMem(m)
        /\ m[<<k, 0>>].kind = mem[<<k, 0>>].kind /\ m[<<k, 0>>].st = mem[<<k, 0>>].st
        /\ m[<<k, 0>>].word = mem[<<k, 0>>].word /\ m[<<k, 0>>].fn = mem[<<k, 0>>].fn
        /\ m[<<k, 0>>].next = mem[<<k, 0>>].next /\ m[<<k, 0>>].exec = mem[<<k, 1>>].exec
        /\ m[<<k, 1>>].st = mem[<<k, 1>>].st /\ m[<<k, 1>>].word = mem[<<k, 1>>].word
        /\ m[<<k, 1>>].fn = mem[<<k, 1>>].fn /\ m[<<k, 1>>].next = mem[<<k, 1>>].next
        /\ \A d \in T!Cores : d # <<k, 0>> /\ d # <<k, 1>> => m[d] = mem[d]
    BY <1>3, <1>5 DEF IsMem, Fields, T!Swapped
  <2> HIDE DEF m
  <2>5. /\ IsMem(mem)' /\ mem'[<<k, 0>>] = m[<<k, 0>>]
        /\ mem'[<<k, 1>>] = m[<<k, 1>>] \/ mem'[<<k, 1>>] = T!NoCore("freed")
        /\ \A d \in T!Cores : d # <<k, 1>> => mem'[d] = m[d]
    <3>1. CASE mem' = m
      BY <2>4, <3>1 DEF IsMem
    <3>2. CASE mem' = T!DecRef(m, <<k, 1>>)
      <4>1. k \in 0 .. MaxThen
        BY <1>3, <1>4
      <4>2. /\ IsMem(mem') /\ mem'[<<k, 1>>] = T!NoCore("freed")
            /\ \A d \in T!Cores : d # <<k, 1>> => mem'[d] = m[d]
        BY <2>2, <2>4, <3>2, <4>1, DecRefInner DEF Resolved
      <4> QED
        BY <1>5, <4>2 DEF IsMem
    <3> QED
      BY <2>1, <3>1, <3>2
  <2>6. Over(0)' /\ mem'[<<k, 1>>].next = None
    <3>1. CASE mem'[<<k, 1>>] = m[<<k, 1>>]
      <4>1. Resolved(<<k, 1>>)' /\ mem'[<<k, 0>>].kind = "coro"
        BY <2>2, <2>4, <2>5, <3>1 DEF Resolved
      <4> QED
        BY <2>3, <2>4, <3>1, <4>1 DEF Over, Kept
    <3>2. CASE mem'[<<k, 1>>] = T!NoCore("freed")
      BY <2>3, <3>2, NoCoreFields DEF Over, Absent, Freed
    <3> QED
      BY <2>5, <3>1, <3>2
  <2>7. ~(cancelled /\ first = None)
    BY <1>3, <1>4, <2>2, InsideStops DEF Resolved
  <2>8. /\ TaskFrame /\ Around(0) /\ Pending(0) /\ mem[<<0, 0>>].kind = "coro" /\ mem[<<0, 0>>].fn = "none"
        /\ mem'[<<0, 0>>].kind = mem[<<0, 0>>].kind /\ mem'[<<0, 0>>].st = mem[<<0, 0>>].st
        /\ mem'[<<0, 0>>].word = mem[<<0, 0>>].word /\ mem'[<<0, 0>>].fn = mem[<<0, 0>>].fn
        /\ mem'[<<0, 0>>].next = mem[<<0, 0>>].next /\ mem'[<<0, 0>>].exec # None
        /\ mem'[<<0, 1>>].next = None /\ Acts("body", <<0, 0>>, None)'
        /\ \A d \in T!Cores : d # <<0, 0>> /\ d # <<0, 1>> => mem'[d] = mem[d]
    BY <1>3, <1>6, <1>8, <2>2, <2>3, <2>4, <2>5, <2>6
  <2> QED
    BY <1>1, <2>5, <2>6, <2>7, <2>8, HeadMoves
<1>9. CASE c = <<k, 1>> /\ act.from = <<k, 0>> /\ Inside(k)
  <2>1. mem' = T!Swapped(<<k, 1>>, <<k, 0>>)
    BY <1>5, <1>9 DEF T!CoroHere
  <2>2. mem[<<k, 0>>].exec # None /\ mem[<<k, 1>>].exec # None
    BY <1>9 DEF Inside, Outer
  <2>3. /\ IsMem(mem')
        /\ mem'[<<k, 1>>].kind = mem[<<k, 1>>].kind /\ mem'[<<k, 1>>].st = mem[<<k, 1>>].st
        /\ mem'[<<k, 1>>].word = mem[<<k, 1>>].word /\ mem'[<<k, 1>>].fn = mem[<<k, 1>>].fn
        /\ mem'[<<k, 1>>].next = mem[<<k, 1>>].next /\ mem'[<<k, 1>>].exec = mem[<<k, 0>>].exec
        /\ mem'[<<k, 0>>].kind = mem[<<k, 0>>].kind /\ mem'[<<k, 0>>].st = mem[<<k, 0>>].st
        /\ mem'[<<k, 0>>].word = mem[<<k, 0>>].word /\ mem'[<<k, 0>>].fn = mem[<<k, 0>>].fn
        /\ mem'[<<k, 0>>].next = mem[<<k, 0>>].next /\ mem'[<<k, 0>>].exec = mem[<<k, 1>>].exec
        /\ mem'[<<k, 0>>].slot = mem[<<k, 0>>].slot
        /\ \A d \in T!Cores : d # <<k, 0>> /\ d # <<k, 1>> => mem'[d] = mem[d]
    BY <1>3, <1>5, <2>1 DEF IsMem, Fields, T!Swapped
  <2>4. IsMem(mem)' /\ Acts("body", <<k, 1>>, None)' /\ mem[<<k, 1>>].kind = "coro"
    BY <1>1, <1>6, <1>9, <2>3 DEF IsMem
  <2> QED
    BY <1>1, <1>2, <1>9, <2>2, <2>3, <2>4, InnerMoves
<1> QED
  BY <1>4, <1>7, <1>8, <1>9

\* A coroutine is called by its executor.
LEMMA CoroCallInv ==
    ASSUME T!ConstantsAssumption, TaskInv, NEW c \in T!Cores, T!CoroCall(c)
    PROVE  TaskInv'
<1>1. /\ act.op = "call" /\ act.core = c /\ mem[c].kind = "coro" /\ act # T!Idle
      /\ act' = T!Act("body", c, None, act.in) /\ T!Ran("value")
      /\ UNCHANGED <<mem, queue, promised, len, user, cancelled>>
  BY DEF T!CoroCall, T!Working, T!Idle
<1>2. PICK k \in 0 .. len + 1 : Now(k)
  BY <1>1, SomeStage
<1>3. /\ k \in Nat /\ TaskFrame /\ Around(k) /\ Stopping(k) /\ IsMem(mem) /\ IsMem(mem)'
  BY <1>1, <1>2 DEF Now, TaskFrame, IsMem
<1>4. /\ queue = {} /\ promised = {} /\ k <= len
      /\ \/ c = <<k, 0>> /\ Unread(k)
         \/ c = <<k, 1>> /\ Inside(k)
  BY <1>1, <1>2, WhoIsCalled
<1>5. Acts("body", c, None)'
  BY <1>1, <1>4 DEF Acts, T!Act
<1>6. CASE c = <<k, 0>> /\ Unread(k)
  <2>1. k = 0
    BY <1>1, <1>6 DEF Unread, Pending, ThenKinds
  <2>2. ~(cancelled /\ first = None) /\ first' = first
    BY <1>1, <1>3, <2>1, HeadStops DEF T!Ran
  <2>3. /\ TaskFrame /\ Around(0) /\ Pending(0) /\ mem[<<0, 0>>].kind = "coro" /\ mem[<<0, 0>>].fn = "none"
        /\ mem[<<0, 0>>].exec # None /\ Over(0)
        /\ Acts("body", <<0, 0>>, None)'
    BY <1>1, <1>3, <1>5, <1>6, <2>1 DEF Unread
  <2>4. Over(0)' /\ mem' = mem /\ mem[<<0, 1>>].next = None
    <3>1. <<0, 1>> \in T!Cores /\ mem' = mem
      BY <1>1, <1>4, <2>1, CoreNames, TaskConstants
    <3> QED
      BY <2>3, <3>1, OverStays DEF Around
  <2> QED
    BY <1>1, <1>3, <2>2, <2>3, <2>4, HeadMoves
<1>7. CASE c = <<k, 1>> /\ Inside(k)
  <2>1. ~(cancelled /\ first = None) /\ first' = first
    BY <1>1, <1>3, <1>4, <1>7, InsideStops DEF T!Ran, Inside
  <2>2. /\ mem[<<k, 0>>].exec # None /\ mem[<<k, 1>>].exec # None /\ mem' = mem
        /\ mem[<<k, 1>>].kind = "coro" /\ Acts("body", <<k, 1>>, None)'
    BY <1>1, <1>5, <1>7 DEF Inside, Outer
  <2> QED
    BY <1>1, <1>2, <1>3, <1>7, <2>1, <2>2, InnerMoves
<1> QED
  BY <1>4, <1>6, <1>7

\* A coroutine moves to an executor.
LEMMA OnInv ==
    ASSUME T!ConstantsAssumption, TaskInv, NEW c \in T!Cores, NEW e, e # None, T!On(c, e)
    PROVE  TaskInv'
<1>1. /\ act.op = "body" /\ act.core = c /\ mem[c].kind = "coro" /\ act # T!Idle
      /\ mem' = [mem EXCEPT ![c].exec = e] /\ T!Submit(c, e, act.in)
      /\ UNCHANGED <<promised, len, user, cancelled, first>>
  BY DEF T!On, T!Working, T!Idle
<1>2. PICK k \in 0 .. len + 1 : Now(k)
  BY <1>1, SomeStage
<1>3. /\ k \in Nat /\ TaskFrame /\ Around(k) /\ Stopping(k) /\ IsMem(mem)
      /\ len \in 0 .. MaxThen /\ MaxThen \in Nat
  BY <1>2, TaskConstants DEF Now, TaskFrame
<1>4. /\ queue = {} /\ promised = {} /\ k <= len /\ ~(cancelled /\ first = None)
      /\ \/ c = <<k, 0>> /\ Body(k)
         \/ c = <<k, 1>> /\ Inside(k)
  BY <1>1, <1>2, WhoRuns
<1>5. Given(c)'
  BY <1>1, <1>4, SubmitGives
<1>6. /\ IsMem(mem') /\ mem'[c].exec = e
      /\ mem'[c].kind = mem[c].kind /\ mem'[c].st = mem[c].st /\ mem'[c].word = mem[c].word
      /\ mem'[c].fn = mem[c].fn /\ mem'[c].next = mem[c].next
      /\ \A d \in T!Cores : d # c => mem'[d] = mem[d]
  BY <1>1, <1>3 DEF IsMem, Fields
<1>7. IsMem(mem)'
  BY <1>6 DEF IsMem
<1>8. <<k, 0>> \in T!Cores /\ <<k, 1>> \in T!Cores /\ <<k, 0>> # <<k, 1>>
  <2>1. k \in 0 .. MaxThen
    BY <1>3, <1>4
  <2> QED
    BY <2>1, CoreNames
<1>9. CASE c = <<k, 0>> /\ Body(k)
  <2>1. /\ k = 0 /\ Pending(0) /\ mem[<<0, 0>>].fn = "none" /\ Over(0) /\ Around(0)
        /\ c = <<0, 0>>
    BY <1>3, <1>9 DEF Body
  <2>2. mem'[<<0, 1>>] = mem[<<0, 1>>]
    BY <1>6, <1>8, <2>1
  <2>3. Over(0)' /\ mem'[<<0, 1>>].next = None
    BY <1>1, <1>6, <1>8, <2>1, <2>2, OverStays DEF Around
  <2>4. /\ mem'[<<0, 0>>].kind = mem[<<0, 0>>].kind /\ mem'[<<0, 0>>].st = mem[<<0, 0>>].st
        /\ mem'[<<0, 0>>].word = mem[<<0, 0>>].word /\ mem'[<<0, 0>>].fn = mem[<<0, 0>>].fn
        /\ mem'[<<0, 0>>].next = mem[<<0, 0>>].next /\ mem'[<<0, 0>>].exec # None
        /\ mem[<<0, 0>>].kind = "coro" /\ Given(<<0, 0>>)'
        /\ \A d \in T!Cores : d # <<0, 0>> => mem'[d] = mem[d]
    BY <1>1, <1>5, <1>6, <2>1
  <2> QED
    BY <1>1, <1>3, <1>4, <1>7, <2>1, <2>3, <2>4, HeadMoves
<1>10. CASE c = <<k, 1>> /\ Inside(k)
  <2>1. mem'[<<k, 0>>] = mem[<<k, 0>>] /\ mem[<<k, 0>>].exec # None
    BY <1>6, <1>8, <1>10 DEF Inside, Outer
  <2>2. /\ mem'[<<k, 1>>].kind = mem[<<k, 1>>].kind /\ mem'[<<k, 1>>].st = mem[<<k, 1>>].st
        /\ mem'[<<k, 1>>].word = mem[<<k, 1>>].word /\ mem'[<<k, 1>>].fn = mem[<<k, 1>>].fn
        /\ mem'[<<k, 1>>].next = mem[<<k, 1>>].next /\ mem'[<<k, 1>>].exec # None
        /\ mem[<<k, 1>>].kind = "coro" /\ Given(<<k, 1>>)'
        /\ \A d \in T!Cores : d # <<k, 1>> => mem'[d] = mem[d]
    BY <1>1, <1>5, <1>6, <1>10
  <2> QED
    BY <1>1, <1>2, <1>7, <1>10, <2>1, <2>2, InnerMoves
<1> QED
  BY <1>4, <1>9, <1>10

\* A coroutine that runs has an executor, to which it may yield.
LEMMA YieldInv ==
    ASSUME T!ConstantsAssumption, TaskInv, NEW c \in T!Cores, T!Yield(c)
    PROVE  TaskInv'
<1>1. T!On(c, mem[c].exec) /\ act.op = "body" /\ act.core = c /\ act # T!Idle
  BY DEF T!Yield, T!On, T!Working, T!Idle
<1>2. PICK k \in 0 .. len + 1 : Now(k)
  BY <1>1, SomeStage
<1>3. (c = <<k, 0>> /\ Body(k)) \/ (c = <<k, 1>> /\ Inside(k))
  BY <1>1, <1>2, WhoRuns
<1>4. mem[c].exec # None
  BY <1>3 DEF Body, Inside
<1> QED
  BY <1>1, <1>4, OnInv

\* A coroutine lets go of what it has kept.
LEMMA LetGoInv ==
    ASSUME T!ConstantsAssumption, TaskInv, NEW c \in T!Cores, T!LetGo(c)
    PROVE  TaskInv'
<1>1. /\ act.op = "body" /\ act.core = c /\ mem[c].kind = "coro" /\ act # T!Idle
      /\ c # T!Inner(c) /\ mem[T!Inner(c)].st = "alive"
      /\ UNCHANGED <<act, queue, promised, len, user, cancelled, first>>
  BY DEF T!LetGo, T!Keeps, T!Working, T!Idle
<1>2. PICK k \in 0 .. len + 1 : Now(k)
  BY <1>1, SomeStage
<1>3. /\ k \in Nat /\ TaskFrame /\ Around(k) /\ IsMem(mem) /\ len \in 0 .. MaxThen /\ MaxThen \in Nat
  BY <1>2, TaskConstants DEF Now, TaskFrame
<1>4. /\ ~(cancelled /\ first = None)
      /\ \/ c = <<k, 0>> /\ Body(k)
         \/ c = <<k, 1>>
  BY <1>1, <1>2, WhoRuns
<1>5. c = <<k, 0>> /\ Body(k) /\ T!Inner(c) = <<k, 1>>
  BY <1>1, <1>4 DEF T!Inner
<1>6. /\ k = 0 /\ c = <<0, 0>> /\ T!Inner(c) = <<0, 1>> /\ 0 \in 0 .. MaxThen /\ Around(0)
      /\ Pending(0) /\ mem[<<0, 0>>].kind = "coro" /\ mem[<<0, 0>>].fn = "none" /\ mem[<<0, 0>>].exec # None
      /\ Acts("body", <<0, 0>>, None) /\ Over(0)
  BY <1>3, <1>5 DEF Body
<1>7. <<0, 0>> \in T!Cores /\ <<0, 1>> \in T!Cores /\ <<0, 0>> # <<0, 1>>
  BY <1>6, CoreNames
<1>8. Resolved(<<0, 1>>)
  BY <1>1, <1>6, NoCoreFields DEF Over, Kept, Absent, Unborn, Freed, Late
<1>9. /\ IsMem(mem)' /\ mem'[<<0, 1>>] \in NoCores
      /\ \A d \in T!Cores : d # <<0, 1>> => mem'[d] = mem[d]
  <2>1. CASE mem' = T!DecRef(mem, <<0, 1>>)
    BY <1>3, <1>6, <1>8, <2>1, DecRefInner DEF Resolved, IsMem, NoCores
  <2>2. CASE mem' = [mem EXCEPT ![<<0, 1>>] = T!Destroyed(mem[<<0, 1>>])]
    <3>1. PICK x : x = T!Destroyed(mem[<<0, 1>>])
      OBVIOUS
    <3>2. x \in NoCores /\ DOMAIN x = Fields
      BY <1>8, <3>1, Ends, NoCoreFields DEF Resolved, NoCores
    <3>3. mem' = [mem EXCEPT ![<<0, 1>>] = x]
      BY <2>2, <3>1
    <3> QED
      BY <1>3, <1>7, <3>2, <3>3 DEF IsMem
  <2>3. mem' = T!DecRef(mem, <<0, 1>>) \/ mem' = [mem EXCEPT ![<<0, 1>>] = T!Destroyed(mem[<<0, 1>>])]
    BY <1>6 DEF T!LetGo
  <2> QED
    BY <2>1, <2>2, <2>3
<1>10. Over(0)' /\ mem'[<<0, 1>>].next = None /\ mem'[<<0, 0>>] = mem[<<0, 0>>]
  BY <1>7, <1>9, NoCoreFields DEF Over, Absent, Unborn, Freed, Late, NoCores
<1>11. Acts("body", <<0, 0>>, None)' /\ UNCHANGED <<len, user, cancelled, first>>
  BY <1>1, <1>6 DEF Acts
<1> QED
  BY <1>3, <1>4, <1>6, <1>9, <1>10, <1>11, HeadMoves

\* A coroutine awaits a Task or a Future.
LEMMA CoAwaitInv ==
    ASSUME T!ConstantsAssumption, TaskInv, NEW c \in T!Cores, NEW a \in {"ready", "coro", "chain", "future"},
           T!CoAwait(c, a)
    PROVE  TaskInv'
<1>1. /\ act.op = "body" /\ act.core = c /\ mem[c].kind = "coro" /\ act # T!Idle
      /\ c # T!Inner(c) /\ T!Await(mem, c, T!Inner(c), a)
      /\ UNCHANGED <<queue, len, user, cancelled, first>>
  BY DEF T!CoAwait, T!Working, T!Idle
<1>2. PICK k \in 0 .. len + 1 : Now(k)
  BY <1>1, SomeStage
<1>3. /\ k \in Nat /\ TaskFrame /\ Around(k) /\ Stopping(k) /\ IsMem(mem)
      /\ len \in 0 .. MaxThen /\ MaxThen \in Nat /\ (cancelled => first # "value")
  BY <1>2, TaskConstants DEF Now, TaskFrame
<1>4. /\ queue = {} /\ promised = {} /\ k <= len /\ ~(cancelled /\ first = None)
      /\ \/ c = <<k, 0>> /\ Body(k)
         \/ c = <<k, 1>>
  BY <1>1, <1>2, WhoRuns
<1>5. c = <<k, 0>> /\ Body(k) /\ T!Inner(c) = <<k, 1>>
  BY <1>1, <1>4 DEF T!Inner
<1>6. /\ T!Await(mem, <<k, 0>>, <<k, 1>>, a) /\ <<k, 0>> \in T!Cores /\ k = 0
      /\ mem[<<k, 0>>].st = "alive" /\ mem[<<k, 0>>].word = Link(k) /\ mem[<<k, 0>>].exec # None
      /\ mem[<<k, 0>>].kind \in IF k = 0 THEN HeadKinds ELSE ThenKinds
      /\ mem[<<k, 0>>].kind = "coro" /\ mem[<<k, 0>>].fn = "none"
  BY <1>1, <1>5 DEF Body, Pending
<1>7. mem[<<k, 0>>].next = None
  BY <1>3, <1>6 DEF Around
<1>8. /\ UNCHANGED <<len, user, cancelled>> /\ queue' = {}
      /\ cancelled => first' # "value" /\ first' # None
  BY <1>1, <1>3, <1>4
<1>9. /\ ~(k > 0)
      /\ \A d \in T!Cores \ Near(k) : mem[d] = mem[d]
  BY <1>6
<1>10. TaskFrame' /\ Going(k)'
  BY <1>3, <1>4, <1>6, <1>7, <1>8, <1>9, Awaited
<1> QED
  BY <1>3, <1>4, <1>8, <1>10, NowInv

\* The Drop callback frees the last core.
LEMMA DropHereInv ==
    ASSUME T!ConstantsAssumption, TaskInv, T!DropHere
    PROVE  TaskInv'
<1>1. /\ act.op = "here" /\ act.core = DropCore /\ act # T!Idle /\ act' = T!Idle
      /\ mem' = T!DecRef(mem, act.from)
      /\ UNCHANGED <<queue, promised, len, user, cancelled, first>>
  BY DEF T!DropHere, T!Idle
<1>2. PICK k \in 0 .. len + 1 : Now(k)
  BY <1>1, SomeStage
<1>3. /\ k \in Nat /\ TaskFrame /\ Around(k) /\ Stopping(k) /\ IsMem(mem) /\ k <= len + 1
      /\ len \in 0 .. MaxThen /\ MaxThen \in Nat /\ (cancelled => first # "value")
  BY <1>2, TaskConstants DEF Now, TaskFrame
<1>4. k > len /\ act.from = <<k - 1, 0>> /\ Arrived(k) /\ queue = {} /\ promised = {}
  <2>1. k <= len => <<k, 0>> \in T!Cores /\ <<k, 1>> \in T!Cores
    BY <1>3, CoreNames
  <2>2. DropCore \notin T!Cores
    BY TaskConstants
  <2> QED
    BY <1>1, <1>2, <2>1, <2>2, WhoIsNext
<1>5. k = len + 1 /\ k - 1 = len /\ k - 1 \in 0 .. MaxThen
  BY <1>3, <1>4
<1>6. user = "gone" /\ Resolved(<<k - 1, 0>>) /\ <<k - 1, 0>> \in T!Cores /\ <<k - 1, 1>> \in T!Cores
  BY <1>4, <1>5, CoreNames DEF Arrived
<1>7. /\ IsMem(mem') /\ mem'[<<k - 1, 0>>] = T!NoCore("freed") /\ mem'[<<k - 1, 1>>] \in NoCores
      /\ \A d \in T!Cores : d # <<k - 1, 0>> /\ d # <<k - 1, 1>> => mem'[d] = mem[d]
  <2>1. Over(k - 1)
    BY <1>3, <1>5 DEF Around
  <2>2. PICK j \in 0 .. MaxThen : j = k - 1
    BY <1>5
  <2>3. mem' = T!DecRef(mem, <<j, 0>>) /\ Resolved(<<j, 0>>) /\ Over(j)
    BY <1>1, <1>4, <1>6, <2>1, <2>2
  <2>4. /\ IsMem(mem') /\ mem'[<<j, 0>>] = T!NoCore("freed") /\ mem'[<<j, 1>>] \in NoCores
        /\ \A d \in T!Cores : d # <<j, 0>> /\ d # <<j, 1>> => mem'[d] = mem[d]
    BY <1>3, <2>3, DecRefStage, OverCore DEF Resolved
  <2> QED
    BY <2>2, <2>4
<1>8. Near(k) = {<<k - 1, 0>>, <<k - 1, 1>>}
  BY <1>3, <1>5 DEF Near
<1>9. /\ \A d \in T!Cores \ Near(k) : mem'[d] = mem[d]
      /\ \A d \in T!Cores \cap Near(k) : mem'[d].next = None
      /\ IsMem(mem)'
  BY <1>7, <1>8, NoCoreFields DEF IsMem, NoCores
<1>10. TaskFrame' /\ Around(k)'
  <2>1. Over(k - 1)'
    BY <1>7 DEF Over, Absent, Unborn, Freed, Late, NoCores
  <2> QED
    BY <1>1, <1>3, <1>9, <2>1, AroundKept
<1>11. Ended(k)'
  BY <1>1, <1>4, <1>5, <1>6, <1>7 DEF Ended, Resting, Freed
<1>12. Stopping(k)'
  <2>1. \A d \in T!Cores : mem'[d].word = kResult => mem[d].word = kResult /\ mem'[d].slot = mem[d].slot
    BY <1>7, NoCoreFields, TaskConstants DEF NoCores
  <2> QED
    BY <1>1, <1>3, <1>5, <2>1 DEF Stopping
<1> QED
  BY <1>1, <1>3, <1>10, <1>11, <1>12, NowInv DEF Going, At

\* An executor calls or drops a job.
LEMMA TakenInv ==
    ASSUME T!ConstantsAssumption, TaskInv, NEW e, NEW c, NEW o \in {"call", "drop"}, NEW t,
           T!Taken(e, c, o, t)
    PROVE  TaskInv'
<1>1. /\ act = T!Idle /\ <<e, c>> \in queue /\ queue # {} /\ queue' = queue \ {<<e, c>>}
      /\ act' = T!Act(o, c, None, t)
      /\ mem' = [mem EXCEPT ![c].popped = TRUE]
      /\ UNCHANGED <<promised, len, user, cancelled, first>>
  BY DEF T!Taken
<1>2. PICK k \in 0 .. len + 1 : Now(k)
  BY <1>1, SomeStage
<1>3. /\ k \in Nat /\ TaskFrame /\ Around(k) /\ Stopping(k) /\ IsMem(mem) /\ act.op # "drop"
      /\ len \in 0 .. MaxThen /\ MaxThen \in Nat /\ (cancelled => first # "value")
  BY <1>1, <1>2, TaskConstants DEF Now, TaskFrame, T!Idle
<1>4. /\ promised = {} /\ k <= len /\ queue = {<<e, c>>}
      /\ \/ c = <<k, 0>> /\ Unread(k)
         \/ c = <<k, 1>> /\ Inside(k) /\ mem[<<k, 1>>].kind = "coro"
  <2>1. \/ Unread(k) /\ promised = {} /\ \E f \in {"pool", "manual"} : queue = {<<f, <<k, 0>>>>}
        \/ /\ Inside(k) /\ mem[<<k, 1>>].kind = "coro" /\ promised = {}
           /\ \E f \in {"pool", "manual"} : queue = {<<f, <<k, 1>>>>}
    BY <1>1, <1>2, WhoWaits
  <2>2. k <= len
    BY <1>1, <1>2, WhoWaits
  <2> QED
    BY <1>1, <2>1, <2>2
<1>5. <<k, 0>> \in T!Cores /\ <<k, 1>> \in T!Cores /\ <<k, 0>> # <<k, 1>> /\ c \in T!Cores
  <2>1. k \in 0 .. MaxThen
    BY <1>3, <1>4
  <2>2. <<k, 0>> \in T!Cores /\ <<k, 1>> \in T!Cores /\ <<k, 0>> # <<k, 1>>
    BY <2>1, CoreNames
  <2> QED
    BY <1>4, <2>2
<1>6. /\ IsMem(mem)'
      /\ mem'[c].kind = mem[c].kind /\ mem'[c].st = mem[c].st /\ mem'[c].word = mem[c].word
      /\ mem'[c].exec = mem[c].exec /\ mem'[c].next = mem[c].next /\ mem'[c].slot = mem[c].slot
      /\ mem'[c].fn = mem[c].fn /\ \A d \in T!Cores : d # c => mem'[d] = mem[d]
  BY <1>1, <1>3, <1>5 DEF IsMem, Fields
<1>7. Given(c)'
  BY <1>1, <1>4 DEF Given, T!Act
<1>8. k > 0 => /\ mem'[<<k - 1, 0>>] = mem[<<k - 1, 0>>] /\ mem'[<<k - 1, 1>>] = mem[<<k - 1, 1>>]
               /\ Over(k - 1)'
  <2>1. k > 0 => k - 1 \in 0 .. MaxThen /\ k - 1 # k
    BY <1>3, <1>4
  <2>2. k > 0 => /\ <<k - 1, 0>> \in T!Cores /\ <<k - 1, 1>> \in T!Cores
                 /\ <<k - 1, 0>> # c /\ <<k - 1, 1>> # c
    BY <1>4, <2>1, CoreNames
  <2>3. k > 0 => mem'[<<k - 1, 0>>] = mem[<<k - 1, 0>>] /\ mem'[<<k - 1, 1>>] = mem[<<k - 1, 1>>]
    BY <1>6, <2>2
  <2> QED
    BY <1>3, <1>4, <2>3, BeforeStays
<1>9. At(k)' /\ (Unborn(<<k, 1>>) => Unborn(<<k, 1>>)')
  <2>1. CASE c = <<k, 0>> /\ Unread(k)
    <3>1. mem'[<<k, 1>>] = mem[<<k, 1>>] /\ mem'[<<k, 0>>].kind = mem[<<k, 0>>].kind
      BY <1>5, <1>6, <2>1
    <3>2. Over(k)' /\ (Unborn(<<k, 1>>) => Unborn(<<k, 1>>)')
      BY <2>1, <3>1, OverStays DEF Unread, Unborn
    <3>3. Pending(k)' /\ Given(<<k, 0>>)'
      BY <1>1, <1>6, <1>7, <2>1 DEF Unread, Pending, Link
    <3>4. k > 0 => Resolved(<<k - 1, 0>>)'
      BY <1>8, <2>1 DEF Unread, Resolved
    <3> QED
      BY <1>1, <1>6, <2>1, <3>1, <3>2, <3>3, <3>4 DEF At, Unread
  <2>2. CASE c = <<k, 1>> /\ Inside(k) /\ mem[<<k, 1>>].kind = "coro"
    <3>1. mem'[<<k, 0>>] = mem[<<k, 0>>]
      BY <1>5, <1>6, <2>2
    <3>2. Outer(k)'
      BY <1>1, <1>8, <2>2, <3>1 DEF Inside, Outer, Pending, Link, Freed
    <3>3. Inside(k)'
      BY <1>6, <1>7, <2>2, <3>2 DEF Inside
    <3> QED
      BY <2>2, <3>3, NoCoreFields DEF At, Inside, Unborn
  <2> QED
    BY <1>4, <2>1, <2>2
<1>10. Stopping(k)'
  <2>1. k = 0 => ~(cancelled /\ first = None)
    BY <1>3, HeadStops
  <2>2. \A d \in T!Cores : mem'[d].word = kResult => mem[d].word = kResult /\ mem'[d].slot = mem[d].slot
    BY <1>6
  <2> QED
    BY <1>1, <1>3, <1>9, <2>1, <2>2 DEF Stopping
<1>11. TaskFrame' /\ Going(k)'
  <2>1. c \in Near(k)
    BY <1>4 DEF Near
  <2>2. /\ \A d \in T!Cores \ Near(k) : mem'[d] = mem[d]
        /\ \A d \in T!Cores \cap Near(k) : mem'[d].next = None
    BY <1>3, <1>5, <1>6, <2>1 DEF Around
  <2> QED
    BY <1>1, <1>3, <1>4, <1>6, <1>8, <1>9, <1>10, <2>2, Stay
<1> QED
  BY <1>1, <1>3, <1>4, <1>11, NowInv

\* Steps that the invariant does not see.
LEMMA TaskStutter ==
    ASSUME TaskInv, UNCHANGED <<mem, len, act, queue, promised, user, cancelled, first>>
    PROVE  TaskInv'
<1>1. TaskFrame'
  BY DEF TaskInv, TaskFrame, IsMem, Unborn
<1>2. CASE Unmade
  BY <1>1, <1>2 DEF TaskInv, Unmade, Resting, Unborn
<1>3. CASE Building
  BY <1>1, <1>3 DEF TaskInv, Building, Resting, Pending, New, Unborn, Link
<1>4. CASE \E k \in 0 .. len + 1 : Going(k)
  <2>1. PICK k \in 0 .. len + 1 : Going(k)
    BY <1>4
  <2>2. Around(k)'
    BY <2>1 DEF Going, Around, New, Pending, Link, Over, Kept, Absent, Unborn, Freed, Late, Resolved
  <2>3. Stopping(k)'
    BY <2>1 DEF Going, Stopping, Unborn
  <2>4. At(k)'
    <3>1. CASE Unread(k)
      <4>1. Pending(k)' = Pending(k) /\ Given(<<k, 0>>)' = Given(<<k, 0>>)
        BY DEF Pending, Link, Given
      <4>2. k <= len' /\ Pending(k)' /\ Given(<<k, 0>>)'
        BY <3>1, <4>1 DEF Unread
      <4> QED
        BY <3>1, <4>2 DEF At, Unread, Over, Kept, Absent, Unborn, Freed, Late, Resolved
    <3>2. CASE Body(k)
      BY <3>2 DEF At, Body, Pending, Link, Acts, Over, Kept, Absent, Unborn, Freed, Late, Resolved
    <3>3. CASE ByPromise(k)
      BY <3>3 DEF At, ByPromise, Pending, Link, Owed, Unborn
    <3>4. CASE Arrived(k)
      BY <3>4 DEF At, Arrived, Resolved, New, Pending, Link, Unborn, Acts
    <3>5. CASE Inside(k)
      <4>1. Outer(k)'
        BY <3>5 DEF Inside, Outer, Pending, Link, Freed
      <4> QED
        BY <3>5, <4>1 DEF At, Inside, Given, Acts, Owed
    <3>6. CASE Returned(k)
      <4>1. Outer(k)'
        BY <3>6 DEF Returned, Outer, Pending, Link, Freed
      <4> QED
        BY <3>6, <4>1 DEF At, Returned, Resolved, Acts
    <3>7. CASE Ended(k)
      BY <3>7 DEF At, Ended, Resting, Resolved, Freed
    <3> QED
      BY <2>1, <3>1, <3>2, <3>3, <3>4, <3>5, <3>6, <3>7 DEF Going, At
  <2> QED
    BY <1>1, <2>1, <2>2, <2>3, <2>4 DEF TaskInv, Going
<1> QED
  BY <1>2, <1>3, <1>4 DEF TaskInv

\* MoveToCaller follows the links to the head.
LEMMA HeadFound ==
    ASSUME T!ConstantsAssumption, TaskFrame, Building
    PROVE  T!MoveToCaller(T!Stage(len)) = <<0, 0>>
<1> DEFINE Up(g) == [d \in T!Cores |-> IF mem[d].next = None THEN d ELSE g[mem[d].next]]
           f == [d \in T!Cores |-> IF mem[d].next = None THEN d ELSE <<0, 0>>]
<1>1. /\ len \in 0 .. MaxThen /\ MaxThen \in Nat /\ <<0, 0>> \in T!Cores /\ mem[<<0, 0>>].next = None
      /\ \A j \in 1 .. len : /\ mem[<<j, 0>>].next = <<j - 1, 0>> /\ mem[<<j, 0>>].next # None
                             /\ <<j, 0>> \in T!Cores /\ <<j - 1, 0>> \in T!Cores
  <2>1. len \in 0 .. MaxThen /\ MaxThen \in Nat /\ \A j \in 1 .. len : j \in 0 .. MaxThen /\ j - 1 \in 0 .. MaxThen
    BY TaskConstants DEF TaskFrame
  <2>2. 0 \in 0 .. MaxThen
    BY <2>1
  <2>3. <<0, 0>> \in T!Cores /\ \A j \in 1 .. len : <<j, 0>> \in T!Cores /\ <<j - 1, 0>> \in T!Cores
    BY <2>1, <2>2, CoreNames
  <2>4. mem[<<0, 0>>].next = None /\ \A j \in 1 .. len : mem[<<j, 0>>].next = <<j - 1, 0>>
    BY DEF Building
  <2>5. None \notin T!Cores
    BY TaskConstants
  <2> QED
    BY <2>1, <2>3, <2>4, <2>5
<1>2. \A d \in T!Cores : mem[d].next # None => \E j \in 1 .. len : d = <<j, 0>>
  <2>1. SUFFICES ASSUME NEW d \in T!Cores, mem[d].next # None
                 PROVE  \E j \in 1 .. len : d = <<j, 0>>
    OBVIOUS
  <2>2. PICK j \in 0 .. MaxThen : d = <<j, 0>> \/ d = <<j, 1>>
    BY CoreNames
  <2>3. ~Unborn(d)
    BY <2>1, NoCoreFields DEF Unborn
  <2>4. j <= len
    <3>1. j > len => Unborn(<<j, 0>>) /\ Unborn(<<j, 1>>)
      BY <1>1 DEF TaskFrame
    <3> QED
      BY <1>1, <2>2, <2>3, <3>1
  <2>5. Unborn(<<j, 1>>)
    <3>1. j = 0 \/ j \in 1 .. len
      BY <1>1, <2>4
    <3> QED
      BY <3>1 DEF Building, New
  <2> QED
    BY <1>1, <2>1, <2>2, <2>3, <2>4, <2>5
<1>3. f = Up(f)
  <2>1. \A d \in T!Cores : mem[d].next # None => mem[d].next \in T!Cores /\ f[mem[d].next] = <<0, 0>>
    <3>1. SUFFICES ASSUME NEW d \in T!Cores, mem[d].next # None
                   PROVE  mem[d].next \in T!Cores /\ f[mem[d].next] = <<0, 0>>
      OBVIOUS
    <3>2. PICK j \in 1 .. len : d = <<j, 0>>
      BY <1>2, <3>1
    <3>3. j = 1 \/ (j - 1 \in 1 .. len)
      BY <1>1
    <3>4. mem[d].next = <<j - 1, 0>> /\ <<j - 1, 0>> \in T!Cores
      BY <1>1, <3>2
    <3>5. j = 1 => <<j - 1, 0>> = <<0, 0>>
      OBVIOUS
    <3>6. f[<<j - 1, 0>>] = <<0, 0>>
      BY <1>1, <3>3, <3>4, <3>5
    <3> QED
      BY <3>4, <3>6
  <2> QED
    BY <2>1
<1>4. PICK g : g = Up(g) /\ T!MoveToCaller(T!Stage(len)) = g[<<len, 0>>]
  <2>1. (CHOOSE g : g = Up(g)) = Up(CHOOSE g : g = Up(g))
    BY <1>3, Zenon
  <2> QED
    BY <2>1, Zenon DEF T!MoveToCaller, T!Stage
<1> HIDE DEF f
<1>5. \A j \in 0 .. len : g[<<j, 0>>] = <<0, 0>>
  <2> DEFINE Bad == {j \in 0 .. len : g[<<j, 0>>] # <<0, 0>>}
  <2>1. SUFFICES ASSUME Bad # {} PROVE FALSE
    OBVIOUS
  <2>2. Bad \subseteq Nat
    BY <1>1
  <2>3. PICK t \in Bad : \A u \in Bad : <<u, t>> \notin OpToRel(<, Nat)
    BY <2>1, <2>2, WFMin, NatLessThanWellFounded, Zenon
  <2>4. \A u \in Bad : ~(u < t)
    BY <2>2, <2>3, Zenon DEF OpToRel
  <2>5. t # 0
    BY <1>1, <1>4
  <2>6. t \in 1 .. len /\ t - 1 \in 0 .. len /\ t - 1 < t
    BY <1>1, <2>5
  <2>7. g[<<t, 0>>] = g[<<t - 1, 0>>]
    BY <1>1, <1>4, <2>6
  <2> QED
    BY <2>4, <2>6, <2>7
<1> QED
  BY <1>1, <1>4, <1>5

\* The head of a chain is submitted.
LEMMA Launched ==
    ASSUME T!ConstantsAssumption, IsMem(mem)', len \in 0 .. MaxThen, UNCHANGED len, queue = {}, promised' = {},
           user' \in {"future", "gone"}, first' = None, \A d \in T!Cores : mem'[d].next = None,
           NEW e, NEW t, T!Submit(<<0, 0>>, e, t),
           Pending(0)', mem'[<<0, 0>>].exec # None, Unborn(<<0, 1>>)',
           mem'[<<0, 0>>].fn = IF mem'[<<0, 0>>].kind \in {"ready", "coro"} THEN "none" ELSE "stored",
           \A j \in 1 .. len : New(j)', \A j \in len + 1 .. MaxThen : Unborn(<<j, 0>>)' /\ Unborn(<<j, 1>>)',
           cancelled' \in BOOLEAN, cancelled' => act'.op = "drop"
    PROVE  TaskInv'
<1>1. MaxThen \in Nat /\ first' # "value" /\ len \in Nat
  BY TaskConstants DEF T!Signatures
<1>2. Given(<<0, 0>>)'
  BY SubmitGives
<1>3. TaskFrame'
  BY <1>1 DEF TaskFrame
<1>4. Unread(0)'
  BY <1>1, <1>2 DEF Unread, Over, Absent
<1>5. Around(0)'
  <2>1. \A j \in 0 .. len : j > 0 => New(j)'
    BY <1>1
  <2> QED
    BY <1>1, <2>1 DEF Around
<1>6. \A c \in T!Cores : mem'[c].word # kResult
  <2>1. SUFFICES ASSUME NEW c \in T!Cores PROVE mem'[c].word # kResult
    OBVIOUS
  <2>2. PICK j \in 0 .. MaxThen : c = <<j, 0>> \/ c = <<j, 1>>
    BY CoreNames
  <2>3. j = 0 \/ j \in 1 .. len \/ j \in len + 1 .. MaxThen
    BY <1>1
  <2>4. Unborn(c)' \/ (j <= len /\ mem'[c].word = Link(j)')
    <3>1. CASE j = 0
      BY <1>1, <2>2, <3>1 DEF Pending
    <3>2. CASE j \in 1 .. len
      <4>1. New(j)' /\ j <= len
        BY <1>1, <3>2
      <4> QED
        BY <2>2, <4>1 DEF New, Pending
    <3>3. CASE j \in len + 1 .. MaxThen
      BY <2>2, <3>3
    <3> QED
      BY <2>3, <3>1, <3>2, <3>3
  <2>5. T!NoCore("unborn").word = Empty /\ Empty # kResult /\ DropCore # kResult /\ kResult \notin T!Cores
    BY NoCoreFields, TaskConstants
  <2>6. j <= len => Link(j)' # kResult
    <3>1. j < len => j + 1 \in 0 .. MaxThen
      BY <1>1
    <3>2. j < len => <<j + 1, 0>> \in T!Cores
      BY <3>1, CoreNames
    <3> QED
      BY <1>1, <2>5, <3>2 DEF Link
  <2> QED
    BY <2>4, <2>5, <2>6 DEF Unborn
<1>7. Stopping(0)'
  BY <1>1, <1>6 DEF Stopping
<1> QED
  BY <1>1, <1>3, <1>4, <1>5, <1>7, NowInv DEF Going, At

\* A Task is started: the links are cleared, and the head is submitted.
LEMMA StartInv ==
    ASSUME T!ConstantsAssumption, TaskFrame, Building, NEW m, IsMem(m), NEW e, T!Start(m, e),
           \A d \in T!Cores : d # <<len, 0>> => m[d] = mem[d],
           /\ m[<<len, 0>>].kind = mem[<<len, 0>>].kind /\ m[<<len, 0>>].st = mem[<<len, 0>>].st
           /\ m[<<len, 0>>].slot = mem[<<len, 0>>].slot /\ m[<<len, 0>>].exec = mem[<<len, 0>>].exec
           /\ m[<<len, 0>>].fn = mem[<<len, 0>>].fn,
           user' \in {"future", "gone"}, m[<<len, 0>>].word = IF user' = "gone" THEN DropCore ELSE Empty,
           cancelled' \in BOOLEAN, cancelled' => e = "stop"
    PROVE  TaskInv'
<1>1. /\ len \in 0 .. MaxThen /\ MaxThen \in Nat /\ queue = {} /\ promised = {} /\ first = None
      /\ Pending(0) /\ Unborn(<<0, 1>>) /\ mem[<<0, 0>>].exec # None
      /\ mem[<<0, 0>>].fn = IF mem[<<0, 0>>].kind \in {"ready", "coro"} THEN "none" ELSE "stored"
      /\ \A j \in 1 .. len : New(j)
      /\ \A j \in len + 1 .. MaxThen : Unborn(<<j, 0>>) /\ Unborn(<<j, 1>>)
  BY TaskConstants DEF TaskFrame, Building, Resting
<1>2. /\ mem' = [T!Unlinked(m) EXCEPT ![<<0, 0>>]["exec"] = IF e = None THEN @ ELSE e]
      /\ T!Submit(<<0, 0>>, mem'[<<0, 0>>].exec, "user")
      /\ UNCHANGED <<len, promised, first>>
  BY HeadFound DEF T!Start
<1>3. /\ <<0, 0>> \in T!Cores /\ <<0, 1>> \in T!Cores /\ <<len, 0>> \in T!Cores /\ <<len, 0>> # <<0, 1>>
      /\ \A j \in 0 .. MaxThen : <<j, 0>> \in T!Cores /\ <<j, 1>> \in T!Cores
  <2>1. 0 \in 0 .. MaxThen /\ len \in 0 .. MaxThen
    BY <1>1
  <2> QED
    BY <2>1, CoreNames
<1>4. /\ IsMem(mem')
      /\ \A d \in T!Cores : mem'[d] = IF d = <<0, 0>> THEN [[m[d] EXCEPT !["next"] = None]
                                                               EXCEPT !["exec"] = IF e = None THEN @ ELSE e]
                                      ELSE [m[d] EXCEPT !["next"] = None]
  BY <1>2, <1>3 DEF IsMem, Fields, T!Unlinked
<1>5. \A d \in T!Cores : /\ DOMAIN m[d] = Fields
                         /\ m[d].kind = mem[d].kind /\ m[d].st = mem[d].st /\ m[d].slot = mem[d].slot
                         /\ m[d].fn = mem[d].fn /\ m[d].exec = mem[d].exec
  BY <1>3 DEF IsMem
<1>6. \A d \in T!Cores : /\ mem'[d].next = None /\ mem'[d].kind = mem[d].kind /\ mem'[d].st = mem[d].st
                         /\ mem'[d].slot = mem[d].slot /\ mem'[d].fn = mem[d].fn /\ mem'[d].word = m[d].word
  <2>1. SUFFICES ASSUME NEW d \in T!Cores
                 PROVE  /\ mem'[d].next = None /\ mem'[d].kind = m[d].kind /\ mem'[d].st = m[d].st
                        /\ mem'[d].slot = m[d].slot /\ mem'[d].fn = m[d].fn /\ mem'[d].word = m[d].word
    BY <1>5
  <2>2. DOMAIN m[d] = Fields
    BY <1>5
  <2>3. CASE d = <<0, 0>>
    <3>1. mem'[d] = [[m[d] EXCEPT !["next"] = None] EXCEPT !["exec"] = IF e = None THEN @ ELSE e]
      BY <1>4, <2>3
    <3> QED
      BY <2>2, <3>1 DEF Fields
  <2>4. CASE d # <<0, 0>>
    <3>1. mem'[d] = [m[d] EXCEPT !["next"] = None]
      BY <1>4, <2>4
    <3> QED
      BY <2>2, <3>1 DEF Fields
  <2> QED
    BY <2>3, <2>4
<1>7. mem'[<<0, 0>>].exec # None /\ (e # None => mem'[<<0, 0>>].exec = e)
  BY <1>1, <1>3, <1>4, <1>5 DEF Fields
<1>8. \A d \in T!Cores : d # <<0, 0>> /\ d # <<len, 0>> /\ Unborn(d) => Unborn(d)'
  <2>1. SUFFICES ASSUME NEW d \in T!Cores, d # <<0, 0>>, d # <<len, 0>>, Unborn(d) PROVE Unborn(d)'
    OBVIOUS
  <2>2. mem'[d] = [m[d] EXCEPT !["next"] = None] /\ m[d] = T!NoCore("unborn")
    BY <1>4, <2>1 DEF Unborn
  <2>3. [T!NoCore("unborn") EXCEPT !["next"] = None] = T!NoCore("unborn")
    <3>1. PICK x : x = T!NoCore("unborn")
      OBVIOUS
    <3>2. x = [f \in Fields |-> x[f]] /\ x["next"] = None
      BY <3>1 DEF T!NoCore, Fields
    <3>3. [x EXCEPT !["next"] = None] = x
      BY <3>2
    <3> QED
      BY <3>1, <3>3
  <2> QED
    BY <2>2, <2>3 DEF Unborn
<1>9. \A j \in 0 .. len : Pending(j) => Pending(j)'
  <2>1. SUFFICES ASSUME NEW j \in 0 .. len, Pending(j) PROVE Pending(j)'
    OBVIOUS
  <2>2. <<j, 0>> \in T!Cores
    <3>1. j \in 0 .. MaxThen
      BY <1>1
    <3> QED
      BY <1>3, <3>1
  <2>3. j < len \/ j = len
    BY <1>1
  <2>4. m[<<j, 0>>].word = Link(j)'
    <3>1. CASE j < len
      BY <1>2, <2>1, <2>2, <3>1 DEF Pending, Link
    <3>2. CASE j = len
      BY <1>1, <1>2, <3>2 DEF Link
    <3> QED
      BY <2>3, <3>1, <3>2
  <2> QED
    BY <1>6, <2>1, <2>2, <2>4 DEF Pending
<1>10. \A j \in 1 .. len : New(j)'
  <2>1. SUFFICES ASSUME NEW j \in 1 .. len PROVE New(j)'
    OBVIOUS
  <2>2. /\ j \in 0 .. len /\ <<j, 0>> \in T!Cores /\ <<j, 1>> \in T!Cores
        /\ <<j, 1>> # <<0, 0>> /\ <<j, 1>> # <<len, 0>>
    BY <1>1, <1>3
  <2> QED
    BY <1>1, <1>6, <1>8, <1>9, <2>2 DEF New
<1>11. \A j \in len + 1 .. MaxThen : Unborn(<<j, 0>>)' /\ Unborn(<<j, 1>>)'
  <2>1. SUFFICES ASSUME NEW j \in len + 1 .. MaxThen PROVE Unborn(<<j, 0>>)' /\ Unborn(<<j, 1>>)'
    OBVIOUS
  <2>2. /\ <<j, 0>> \in T!Cores /\ <<j, 1>> \in T!Cores
        /\ <<j, 0>> # <<0, 0>> /\ <<j, 0>> # <<len, 0>> /\ <<j, 1>> # <<0, 0>> /\ <<j, 1>> # <<len, 0>>
    BY <1>1, <1>3
  <2> QED
    BY <1>1, <1>8, <2>2
<1>12. Pending(0)' /\ Unborn(<<0, 1>>)'
  <2>1. 0 \in 0 .. len
    BY <1>1
  <2> QED
    BY <1>1, <1>3, <1>8, <1>9, <2>1
<1>13. cancelled' => act'.op = "drop"
  <2>1. cancelled' => mem'[<<0, 0>>].exec = "stop"
    BY <1>7, TaskConstants
  <2> QED
    BY <1>2, <2>1 DEF T!Submit, T!Act
<1>14. mem'[<<0, 0>>].fn = IF mem'[<<0, 0>>].kind \in {"ready", "coro"} THEN "none" ELSE "stored"
  BY <1>1, <1>3, <1>6
<1>15. IsMem(mem)' /\ \A d \in T!Cores : mem'[d].next = None
  BY <1>4, <1>6 DEF IsMem
<1>16. promised' = {} /\ first' = None /\ UNCHANGED len
  BY <1>1, <1>2
<1> QED
  BY <1>1, <1>2, <1>7, <1>10, <1>11, <1>12, <1>13, <1>14, <1>15, <1>16, Launched

\* Start, Then and Future are for a Task.
LEMMA UserHasTask ==
    ASSUME TaskInv, user = "task"
    PROVE  TaskFrame /\ Building
BY DEF TaskInv, Unmade, Going, Around

\* ToFuture keeps the last stage for the Future.
LEMMA ToFutureInv ==
    ASSUME T!ConstantsAssumption, TaskInv, NEW e, T!ToFuture(e)
    PROVE  TaskInv'
<1>1. TaskFrame /\ Building /\ user = "task" /\ user' = "future" /\ T!Start(mem, e) /\ UNCHANGED cancelled
  BY UserHasTask DEF T!ToFuture
<1>2. IsMem(mem) /\ len \in 0 .. MaxThen /\ MaxThen \in Nat /\ ~cancelled
  BY <1>1, TaskConstants DEF TaskFrame, Building
<1>3. Pending(len)
  <2>1. len = 0 \/ len \in 1 .. len
    BY <1>2
  <2> QED
    BY <1>1, <2>1 DEF Building, New
<1>4. mem[<<len, 0>>].word = IF user' = "gone" THEN DropCore ELSE Empty
  BY <1>1, <1>2, <1>3 DEF Pending, Link
<1>5. cancelled' = FALSE
  BY <1>1, <1>2 DEF TaskFrame
<1>6. /\ \A d \in T!Cores : d # <<len, 0>> => mem[d] = mem[d]
      /\ cancelled' \in BOOLEAN /\ (cancelled' => e = "stop") /\ user' \in {"future", "gone"}
  BY <1>1, <1>5
<1> QED
  BY <1>1, <1>2, <1>4, <1>6, StartInv

\* Detach and Cancel link the last stage to the Drop callback.
LEMMA DetachInv ==
    ASSUME T!ConstantsAssumption, TaskInv, NEW e, T!Detach(e), cancelled' \in BOOLEAN, cancelled' => e = "stop"
    PROVE  TaskInv'
<1>1. /\ TaskFrame /\ Building /\ user = "task" /\ user' = "gone"
      /\ T!Start([mem EXCEPT ![<<len, 0>>]["word"] = DropCore], e)
  BY UserHasTask DEF T!Detach, T!Stage
<1>2. IsMem(mem) /\ len \in 0 .. MaxThen /\ MaxThen \in Nat /\ <<len, 0>> \in T!Cores
  BY <1>1, TaskConstants, CoreNames DEF TaskFrame
<1>3. PICK m : m = [mem EXCEPT ![<<len, 0>>]["word"] = DropCore]
  OBVIOUS
<1>4. /\ IsMem(m) /\ \A d \in T!Cores : d # <<len, 0>> => m[d] = mem[d]
      /\ m[<<len, 0>>].kind = mem[<<len, 0>>].kind /\ m[<<len, 0>>].st = mem[<<len, 0>>].st
      /\ m[<<len, 0>>].slot = mem[<<len, 0>>].slot /\ m[<<len, 0>>].exec = mem[<<len, 0>>].exec
      /\ m[<<len, 0>>].fn = mem[<<len, 0>>].fn /\ m[<<len, 0>>].word = DropCore
  BY <1>2, <1>3 DEF IsMem, Fields
<1>5. T!Start(m, e)
  BY <1>1, <1>3
<1>6. m[<<len, 0>>].word = IF user' = "gone" THEN DropCore ELSE Empty
  BY <1>1, <1>4
<1> QED
  BY <1>1, <1>4, <1>5, <1>6, StartInv

\* What the user makes is a head that nobody has called.
LEMMA HeadMade ==
    ASSUME T!ConstantsAssumption, TaskInv, NEW k \in HeadKinds, NEW e, NEW v, T!Head(k, e, v), e # None,
           user' # "gone"
    PROVE  /\ Unmade /\ TaskFrame /\ UNCHANGED <<len, promised, cancelled, first>>
           /\ IsMem(mem)' /\ Pending(0)' /\ Unborn(<<0, 1>>)' /\ mem'[<<0, 0>>].exec # None
           /\ mem'[<<0, 0>>].fn = IF mem'[<<0, 0>>].kind \in {"ready", "coro"} THEN "none" ELSE "stored"
           /\ \A d \in T!Cores : mem'[d].next = None
           /\ \A j \in 1 .. MaxThen : Unborn(<<j, 0>>)' /\ Unborn(<<j, 1>>)'
<1>1. /\ Unmade /\ TaskFrame /\ mem' = [mem EXCEPT ![<<0, 0>>] = T!Core(k, e, v)]
      /\ UNCHANGED <<len, promised, cancelled, first>>
  BY DEF T!Head, TaskInv, Building, Going, Around, T!Stage
<1>2. /\ IsMem(mem) /\ MaxThen \in Nat /\ len = 0 /\ \A c \in T!Cores : mem[c] = T!NoCore("unborn")
  BY <1>1, TaskConstants DEF TaskFrame, Unmade, Unborn
<1>3. /\ <<0, 0>> \in T!Cores /\ <<0, 1>> \in T!Cores /\ <<0, 0>> # <<0, 1>>
      /\ \A j \in 1 .. MaxThen : /\ <<j, 0>> \in T!Cores /\ <<j, 1>> \in T!Cores
                                 /\ <<j, 0>> # <<0, 0>> /\ <<j, 1>> # <<0, 0>>
  <2>1. 0 \in 0 .. MaxThen /\ \A j \in 1 .. MaxThen : j \in 0 .. MaxThen /\ j # 0
    BY <1>2
  <2> QED
    BY <2>1, CoreNames
<1>4. /\ DOMAIN mem' = T!Cores /\ mem'[<<0, 0>>] = T!Core(k, e, v)
      /\ \A d \in T!Cores : d # <<0, 0>> => mem'[d] = T!NoCore("unborn")
  BY <1>1, <1>2, <1>3 DEF IsMem
<1>5. /\ DOMAIN T!Core(k, e, v) = Fields /\ T!Core(k, e, v).kind = k /\ T!Core(k, e, v).st = "alive"
      /\ T!Core(k, e, v).word = Empty /\ T!Core(k, e, v).exec = e /\ T!Core(k, e, v).next = None
      /\ T!Core(k, e, v).fn = IF k \in {"run", "promise", "then", "thenInline", "chain"} THEN "stored" ELSE "none"
      /\ DOMAIN T!NoCore("unborn") = Fields /\ T!NoCore("unborn").next = None
  BY CoreFields, NoCoreFields
<1>6. IsMem(mem)' /\ \A d \in T!Cores : mem'[d].next = None
  BY <1>4, <1>5 DEF IsMem
<1>7. Pending(0)'
  BY <1>1, <1>2, <1>4, <1>5 DEF Pending, Link
<1>8. /\ mem'[<<0, 0>>].exec # None
      /\ mem'[<<0, 0>>].fn = IF mem'[<<0, 0>>].kind \in {"ready", "coro"} THEN "none" ELSE "stored"
  BY <1>4, <1>5 DEF HeadKinds
<1>9. Unborn(<<0, 1>>)' /\ \A j \in 1 .. MaxThen : Unborn(<<j, 0>>)' /\ Unborn(<<j, 1>>)'
  BY <1>3, <1>4 DEF Unborn
<1> QED
  BY <1>1, <1>6, <1>7, <1>8, <1>9

\* A Task is made.
LEMMA TaskMade ==
    ASSUME T!ConstantsAssumption, TaskInv, NEW k \in HeadKinds, NEW e, NEW v, T!Head(k, e, v), e # None,
           user' = "task", UNCHANGED <<act, queue>>
    PROVE  TaskInv'
<1>1. /\ Unmade /\ TaskFrame /\ UNCHANGED <<len, promised, cancelled, first>>
      /\ IsMem(mem)' /\ Pending(0)' /\ Unborn(<<0, 1>>)' /\ mem'[<<0, 0>>].exec # None
      /\ mem'[<<0, 0>>].fn = IF mem'[<<0, 0>>].kind \in {"ready", "coro"} THEN "none" ELSE "stored"
      /\ \A d \in T!Cores : mem'[d].next = None
      /\ \A j \in 1 .. MaxThen : Unborn(<<j, 0>>)' /\ Unborn(<<j, 1>>)'
  BY HeadMade
<1>2. len = 0 /\ MaxThen \in Nat /\ Resting /\ ~cancelled /\ first = None
  BY <1>1, TaskConstants DEF Unmade
<1>3. <<0, 0>> \in T!Cores
  BY <1>2, CoreNames
<1>4. TaskFrame'
  BY <1>1, <1>2 DEF TaskFrame
<1>5. Resting'
  BY <1>1, <1>2 DEF Resting
<1>6. \A j \in 1 .. len' : FALSE
  BY <1>1, <1>2
<1>7. Building'
  BY <1>1, <1>2, <1>3, <1>5, <1>6 DEF Building
<1> QED
  BY <1>4, <1>7 DEF TaskInv

\* Run: the head is submitted at once.
LEMMA RunInv ==
    ASSUME T!ConstantsAssumption, TaskInv, NEW k \in HeadKinds, NEW e \in Executors, T!Run(k, e)
    PROVE  TaskInv'
<1>1. /\ T!Head(k, e, T!Self(None, FALSE)) /\ user' = "future" /\ T!Submit(<<0, 0>>, e, "user") /\ e # None
  BY TaskConstants DEF T!Run, T!Stage
<1>2. /\ Unmade /\ TaskFrame /\ UNCHANGED <<len, promised, cancelled, first>>
      /\ IsMem(mem)' /\ Pending(0)' /\ Unborn(<<0, 1>>)' /\ mem'[<<0, 0>>].exec # None
      /\ mem'[<<0, 0>>].fn = IF mem'[<<0, 0>>].kind \in {"ready", "coro"} THEN "none" ELSE "stored"
      /\ \A d \in T!Cores : mem'[d].next = None
      /\ \A j \in 1 .. MaxThen : Unborn(<<j, 0>>)' /\ Unborn(<<j, 1>>)'
  BY <1>1, HeadMade
<1>3. /\ len = 0 /\ MaxThen \in Nat /\ queue = {} /\ promised' = {} /\ cancelled' = FALSE /\ first' = None
      /\ len \in 0 .. MaxThen
  BY <1>2, TaskConstants DEF Unmade, Resting, TaskFrame
<1>4. (\A j \in 1 .. len : New(j)') /\ \A j \in len + 1 .. MaxThen : Unborn(<<j, 0>>)' /\ Unborn(<<j, 1>>)'
  BY <1>2, <1>3
<1>5. cancelled' \in BOOLEAN /\ (cancelled' => act'.op = "drop") /\ user' \in {"future", "gone"}
  BY <1>1, <1>3
<1> QED
  BY <1>1, <1>2, <1>3, <1>4, <1>5, Launched

\* Then adds a stage to a Task.
LEMMA ThenInv ==
    ASSUME T!ConstantsAssumption, TaskInv, NEW k \in ThenKinds, NEW e, T!Then(k, e)
    PROVE  TaskInv'
<1>1. /\ TaskFrame /\ Building /\ user = "task" /\ len < MaxThen /\ len' = len + 1
      /\ UNCHANGED <<act, queue, promised, user, cancelled, first>>
      /\ mem' = [mem EXCEPT ![<<len + 1, 0>>] = [T!Core(k, e, T!Self(None, FALSE)) EXCEPT !["next"] = <<len, 0>>],
                            ![<<len, 0>>]["word"] = <<len + 1, 0>>]
  BY UserHasTask DEF T!Then, T!Stage
<1>2. /\ IsMem(mem) /\ len \in 0 .. MaxThen /\ MaxThen \in Nat /\ len + 1 \in 0 .. MaxThen
      /\ \A j \in len + 1 .. MaxThen : Unborn(<<j, 0>>) /\ Unborn(<<j, 1>>)
  BY <1>1, TaskConstants DEF TaskFrame
<1>3. PICK s \in 0 .. MaxThen : s = len + 1
  BY <1>2
<1>4. /\ \A j \in 0 .. MaxThen : <<j, 0>> \in T!Cores /\ <<j, 1>> \in T!Cores
      /\ DOMAIN mem = T!Cores /\ <<s, 0>> # <<len, 0>> /\ DOMAIN mem[<<len, 0>>] = Fields
  <2>1. \A j \in 0 .. MaxThen : <<j, 0>> \in T!Cores /\ <<j, 1>> \in T!Cores
    BY CoreNames
  <2>2. s # len
    BY <1>2, <1>3
  <2> QED
    BY <1>2, <2>1, <2>2 DEF IsMem
<1>5. PICK n : n = [T!Core(k, e, T!Self(None, FALSE)) EXCEPT !["next"] = <<len, 0>>]
  OBVIOUS
<1>6. /\ DOMAIN n = Fields /\ n.kind = k /\ n.st = "alive" /\ n.slot = T!Self(None, FALSE) /\ n.word = Empty
      /\ n.fn = "stored" /\ n.next = <<len, 0>>
  <2>1. PICK v : v = T!Self(None, FALSE)
    OBVIOUS
  <2>2. PICK b : b = T!Core(k, e, v)
    OBVIOUS
  <2>3. /\ DOMAIN b = Fields /\ b.kind = k /\ b.st = "alive" /\ b.slot = v /\ b.word = Empty /\ b.fn = "stored"
    BY <2>2, CoreFields DEF ThenKinds
  <2>4. n = [b EXCEPT !["next"] = <<len, 0>>]
    BY <1>5, <2>1, <2>2
  <2> QED
    BY <2>1, <2>3, <2>4 DEF Fields
<1>7. /\ DOMAIN mem' = T!Cores /\ mem'[<<s, 0>>] = n
      /\ mem'[<<len, 0>>] = [mem[<<len, 0>>] EXCEPT !["word"] = <<s, 0>>]
      /\ \A d \in T!Cores : d # <<s, 0>> /\ d # <<len, 0>> => mem'[d] = mem[d]
  <2>1. mem' = [mem EXCEPT ![<<s, 0>>] = n, ![<<len, 0>>]["word"] = <<s, 0>>]
    BY <1>1, <1>3, <1>5
  <2> QED
    BY <1>2, <1>4, <2>1
<1>8. /\ DOMAIN mem'[<<len, 0>>] = Fields /\ mem'[<<len, 0>>].word = <<s, 0>>
      /\ mem'[<<len, 0>>].kind = mem[<<len, 0>>].kind /\ mem'[<<len, 0>>].st = mem[<<len, 0>>].st
      /\ mem'[<<len, 0>>].slot = mem[<<len, 0>>].slot /\ mem'[<<len, 0>>].exec = mem[<<len, 0>>].exec
      /\ mem'[<<len, 0>>].fn = mem[<<len, 0>>].fn /\ mem'[<<len, 0>>].next = mem[<<len, 0>>].next
  BY <1>4, <1>7 DEF Fields
<1>9. \A j \in 0 .. len : /\ mem'[<<j, 0>>].kind = mem[<<j, 0>>].kind /\ mem'[<<j, 0>>].st = mem[<<j, 0>>].st
                          /\ mem'[<<j, 0>>].slot = mem[<<j, 0>>].slot /\ mem'[<<j, 0>>].exec = mem[<<j, 0>>].exec
                          /\ mem'[<<j, 0>>].fn = mem[<<j, 0>>].fn /\ mem'[<<j, 0>>].next = mem[<<j, 0>>].next
                          /\ Pending(j) => Pending(j)'
  <2>1. SUFFICES ASSUME NEW j \in 0 .. len
                 PROVE  /\ mem'[<<j, 0>>].kind = mem[<<j, 0>>].kind /\ mem'[<<j, 0>>].st = mem[<<j, 0>>].st
                        /\ mem'[<<j, 0>>].slot = mem[<<j, 0>>].slot /\ mem'[<<j, 0>>].exec = mem[<<j, 0>>].exec
                        /\ mem'[<<j, 0>>].fn = mem[<<j, 0>>].fn /\ mem'[<<j, 0>>].next = mem[<<j, 0>>].next
                        /\ Pending(j) => Pending(j)'
    OBVIOUS
  <2>2. j \in 0 .. MaxThen /\ (j = len \/ (j < len /\ j # len /\ j # s))
    BY <1>2, <1>3
  <2>3. CASE j = len
    <3>1. <<j, 0>> = <<len, 0>> /\ Link(j)' = <<s, 0>>
      BY <1>1, <1>2, <1>3, <2>3 DEF Link
    <3> QED
      BY <1>8, <3>1 DEF Pending
  <2>4. CASE j < len /\ j # len /\ j # s
    <3>1. <<j, 0>> \in T!Cores /\ <<j, 0>> # <<s, 0>> /\ <<j, 0>> # <<len, 0>>
      BY <1>4, <2>2, <2>4
    <3>2. mem'[<<j, 0>>] = mem[<<j, 0>>]
      BY <1>7, <3>1
    <3>3. Link(j)' = Link(j)
      BY <1>1, <1>2, <2>2, <2>4 DEF Link
    <3> QED
      BY <3>2, <3>3 DEF Pending
  <2> QED
    BY <2>2, <2>3, <2>4
<1>10. \A j \in 0 .. MaxThen : mem'[<<j, 1>>] = mem[<<j, 1>>]
  <2>1. \A j \in 0 .. MaxThen : <<j, 1>> # <<s, 0>> /\ <<j, 1>> # <<len, 0>>
    OBVIOUS
  <2> QED
    BY <1>4, <1>7, <2>1
<1>11. New(s)' /\ mem'[<<s, 0>>].next = <<len, 0>>
  <2>1. Unborn(<<s, 1>>)'
    <3>1. s \in len + 1 .. MaxThen
      BY <1>2, <1>3
    <3> QED
      BY <1>2, <1>10, <3>1 DEF Unborn
  <2>2. Link(s)' = Empty /\ s # 0
    BY <1>1, <1>2, <1>3 DEF Link
  <2>3. Pending(s)'
    BY <1>6, <1>7, <2>2 DEF Pending
  <2> QED
    BY <1>6, <1>7, <2>1, <2>3 DEF New
<1>12. \A j \in 1 .. len' : New(j)' /\ mem'[<<j, 0>>].next = <<j - 1, 0>>
  <2>1. SUFFICES ASSUME NEW j \in 1 .. len' PROVE New(j)' /\ mem'[<<j, 0>>].next = <<j - 1, 0>>
    OBVIOUS
  <2>2. j = s \/ (j \in 1 .. len /\ j \in 0 .. len /\ j \in 0 .. MaxThen)
    BY <1>1, <1>2, <1>3
  <2>3. CASE j = s
    <3>1. j - 1 = len
      BY <1>2, <1>3, <2>3
    <3> QED
      BY <1>11, <2>3, <3>1
  <2>4. CASE j \in 1 .. len /\ j \in 0 .. len /\ j \in 0 .. MaxThen
    <3>1. New(j) /\ mem[<<j, 0>>].next = <<j - 1, 0>>
      BY <1>1, <2>4 DEF Building
    <3> QED
      BY <1>9, <1>10, <2>4, <3>1 DEF New, Unborn
  <2> QED
    BY <2>2, <2>3, <2>4
<1>13. TaskFrame'
  <2>1. IsMem(mem)'
    BY <1>2, <1>6, <1>7, <1>8 DEF IsMem
  <2>2. \A j \in len' + 1 .. MaxThen : Unborn(<<j, 0>>)' /\ Unborn(<<j, 1>>)'
    <3>1. SUFFICES ASSUME NEW j \in len' + 1 .. MaxThen PROVE Unborn(<<j, 0>>)' /\ Unborn(<<j, 1>>)'
      OBVIOUS
    <3>2. j \in len + 1 .. MaxThen /\ j \in 0 .. MaxThen /\ j # len /\ j # s
      BY <1>1, <1>2, <1>3
    <3>3. <<j, 0>> # <<len, 0>> /\ <<j, 0>> # <<s, 0>> /\ <<j, 0>> \in T!Cores
      BY <1>4, <3>2
    <3> QED
      BY <1>2, <1>7, <1>10, <3>2, <3>3 DEF Unborn
  <2> QED
    BY <1>1, <1>2, <2>1, <2>2 DEF TaskFrame
<1>14. Building'
  <2>1. 0 \in 0 .. len /\ 0 \in 0 .. MaxThen
    BY <1>2
  <2>2. Pending(0)' /\ Unborn(<<0, 1>>)' /\ mem'[<<0, 0>>].exec # None /\ mem'[<<0, 0>>].next = None
    BY <1>1, <1>9, <1>10, <2>1 DEF Building, Unborn
  <2>3. mem'[<<0, 0>>].fn = IF mem'[<<0, 0>>].kind \in {"ready", "coro"} THEN "none" ELSE "stored"
    BY <1>1, <1>9, <2>1 DEF Building
  <2>4. user' = "task" /\ Resting' /\ ~cancelled' /\ first' = None
    BY <1>1 DEF Building, Resting
  <2> QED
    BY <1>1, <1>12, <2>2, <2>3, <2>4 DEF Building
<1> QED
  BY <1>13, <1>14 DEF TaskInv

\* A stage at work has no result yet.
LEMMA StagePending ==
    ASSUME NEW k \in Nat, len \in Nat, k <= len, At(k)
    PROVE  Pending(k)
<1>1. Outer(k) => Pending(k)
  BY DEF Outer
<1>2. Arrived(k) => Pending(k)
  BY DEF Arrived, New
<1>3. ~Ended(k)
  BY DEF Ended
<1>4. Unread(k) \/ Body(k) \/ ByPromise(k) => Pending(k)
  BY DEF Unread, Body, ByPromise
<1> QED
  BY <1>1, <1>2, <1>3, <1>4 DEF At, Inside, Returned

\* A Future: its stage has no result, or all stages have theirs.
LEMMA FutureStage ==
    ASSUME T!ConstantsAssumption, NEW k, Now(k), user = "future"
    PROVE  \/ k <= len /\ Pending(len) /\ mem[<<len, 0>>].word = Empty
           \/ k = len + 1 /\ Ended(k) /\ Resolved(<<len, 0>>)
<1>1. k \in Nat /\ k <= len + 1 /\ len \in Nat /\ Around(k) /\ At(k)
  BY TaskConstants DEF Now, Around, TaskFrame
<1>2. CASE k <= len
  <2>1. k = len \/ len > k
    BY <1>1, <1>2
  <2>2. len > k => Pending(len)
    <3>1. len \in 0 .. len
      BY <1>1
    <3> QED
      BY <1>1, <3>1 DEF Around, New
  <2>3. Pending(len)
    BY <1>1, <1>2, <2>1, <2>2, StagePending
  <2> QED
    BY <1>1, <1>2, <2>3 DEF Pending, Link
<1>3. CASE k = len + 1
  <2>1. k > len /\ ~(k <= len) /\ ~(k = 0) /\ k - 1 = len
    BY <1>1, <1>3
  <2>2. ~Unread(k) /\ ~Outer(k)
    BY <2>1 DEF Unread, Outer
  <2>3. ~Body(k) /\ ~ByPromise(k) /\ ~Inside(k) /\ ~Returned(k)
    BY <2>1, <2>2 DEF Body, ByPromise, Inside, Returned
  <2>4. ~Arrived(k)
    BY <2>1 DEF Arrived
  <2> QED
    BY <1>1, <1>3, <2>1, <2>2, <2>3, <2>4 DEF At, Ended
<1> QED
  BY <1>1, <1>2, <1>3

\* The owner of a Future takes the result of the last stage.
LEMMA FutureTaken ==
    ASSUME T!ConstantsAssumption, TaskInv, user = "future", mem[<<len, 0>>].word = kResult,
           user' = "gone", mem' = T!DecRef(mem, <<len, 0>>),
           UNCHANGED <<len, act, queue, promised, cancelled, first>>
    PROVE  TaskInv'
<1>1. PICK k \in 0 .. len + 1 : Now(k)
  BY SomeStage
<1>2. /\ k \in Nat /\ TaskFrame /\ Around(k) /\ Stopping(k) /\ At(k) /\ IsMem(mem) /\ len \in 0 .. MaxThen
      /\ MaxThen \in Nat /\ len \in Nat
  BY <1>1, TaskConstants DEF Now, TaskFrame
<1>3. Empty # kResult
  BY TaskConstants
<1>4. k = len + 1 /\ Ended(k) /\ Resolved(<<len, 0>>)
  BY <1>1, <1>3, FutureStage
<1>5. k - 1 = len /\ Resolved(<<len, 0>>) /\ Resting
  BY <1>2, <1>4 DEF Ended
<1>6. <<len, 0>> \in T!Cores /\ <<len, 1>> \in T!Cores
  BY <1>2, CoreNames
<1>7. /\ IsMem(mem') /\ mem'[<<len, 0>>] = T!NoCore("freed") /\ mem'[<<len, 1>>] \in NoCores
      /\ \A d \in T!Cores : d # <<len, 0>> /\ d # <<len, 1>> => mem'[d] = mem[d]
  <2>1. Over(len)
    BY <1>2, <1>4 DEF Around
  <2> QED
    BY <1>2, <1>5, <1>6, <2>1, DecRefStage, OverCore DEF Resolved
<1>8. Ended(k)'
  <2>1. Resting'
    BY <1>5 DEF Resting
  <2>2. Freed(<<k - 1, 0>>)'
    BY <1>5, <1>7 DEF Freed
  <2> QED
    BY <1>4, <2>1, <2>2 DEF Ended
<1>9. TaskFrame'
  <2>1. \A j \in len + 1 .. MaxThen : /\ <<j, 0>> \in T!Cores /\ <<j, 1>> \in T!Cores
                                      /\ <<j, 0>> # <<len, 0>> /\ <<j, 1>> # <<len, 0>>
                                      /\ <<j, 0>> # <<len, 1>> /\ <<j, 1>> # <<len, 1>>
    <3>1. \A j \in len + 1 .. MaxThen : j \in 0 .. MaxThen /\ j # len
      BY <1>2
    <3> QED
      BY <3>1, CoreNames
  <2>2. \A j \in len' + 1 .. MaxThen : Unborn(<<j, 0>>)' /\ Unborn(<<j, 1>>)'
    BY <1>2, <1>7, <2>1 DEF TaskFrame, Unborn
  <2> QED
    BY <1>2, <1>7, <2>2 DEF TaskFrame, IsMem
<1>10. Around(k)'
  <2>1. \A c \in T!Cores : mem'[c].next = None
    BY <1>2, <1>7, NoCoreFields DEF Around, NoCores
  <2>2. \A j \in 0 .. len : j < k /\ ~(j > k)
    BY <1>2, <1>4
  <2>3. \A j \in 0 .. len : Over(j)'
    <3>1. SUFFICES ASSUME NEW j \in 0 .. len PROVE Over(j)'
      OBVIOUS
    <3>2. j \in 0 .. MaxThen
      BY <1>2
    <3>3. CASE j = len
      BY <1>7, <3>3 DEF Over, Absent, Unborn, Freed, Late, NoCores
    <3>4. CASE j # len
      <4>1. <<j, 0>> \in T!Cores /\ <<j, 1>> \in T!Cores
        BY <3>2, CoreNames
      <4>2. mem'[<<j, 0>>] = mem[<<j, 0>>] /\ mem'[<<j, 1>>] = mem[<<j, 1>>]
        BY <1>7, <3>4, <4>1
      <4>3. Over(j)
        BY <1>2, <2>2 DEF Around
      <4> QED
        BY <4>2, <4>3, OverStays
    <3> QED
      BY <3>3, <3>4
  <2>4. \A j \in 0 .. len : j + 1 < k => Freed(<<j, 0>>)'
    <3>1. SUFFICES ASSUME NEW j \in 0 .. len, j + 1 < k PROVE Freed(<<j, 0>>)'
      OBVIOUS
    <3>2. j \in 0 .. MaxThen /\ j # len
      BY <1>2, <1>4, <3>1
    <3>3. <<j, 0>> \in T!Cores /\ <<j, 0>> # <<len, 0>> /\ Freed(<<j, 0>>)
      BY <1>2, <3>1, <3>2, CoreNames DEF Around
    <3> QED
      BY <1>7, <3>3 DEF Freed
  <2> QED
    BY <1>2, <1>4, <2>1, <2>2, <2>3, <2>4 DEF Around
<1>11. Stopping(k)'
  <2>1. \A d \in T!Cores : mem'[d].word = kResult => mem[d].word = kResult /\ mem'[d].slot = mem[d].slot
    BY <1>3, <1>7, NoCoreFields DEF NoCores
  <2>2. ~(k = 0) /\ ~(k <= len)
    BY <1>2, <1>4
  <2> QED
    BY <1>2, <2>1, <2>2 DEF Stopping
<1> QED
  BY <1>2, <1>4, <1>8, <1>9, <1>10, <1>11, NowInv DEF Going, At

\* The owner of a Future lets go of it before it is ready.
LEMMA FutureDropped ==
    ASSUME T!ConstantsAssumption, TaskInv, user = "future", mem[<<len, 0>>].word = Empty,
           user' = "gone", mem' = [mem EXCEPT ![<<len, 0>>]["word"] = DropCore],
           UNCHANGED <<len, act, queue, promised, cancelled, first>>
    PROVE  TaskInv'
<1>1. PICK k \in 0 .. len + 1 : Now(k)
  BY SomeStage
<1>2. /\ k \in Nat /\ TaskFrame /\ Around(k) /\ Stopping(k) /\ At(k) /\ IsMem(mem) /\ len \in 0 .. MaxThen
      /\ MaxThen \in Nat /\ len \in Nat
  BY <1>1, TaskConstants DEF Now, TaskFrame
<1>3. Empty # kResult /\ DropCore # kResult
  BY TaskConstants
<1>4. k <= len
  BY <1>1, <1>3, FutureStage DEF Resolved
<1>5. <<len, 0>> \in T!Cores /\ \A j \in 0 .. MaxThen : <<j, 0>> \in T!Cores /\ <<j, 1>> \in T!Cores
  BY <1>2, CoreNames
<1>6. /\ IsMem(mem)' /\ mem'[<<len, 0>>].word = DropCore
      /\ mem'[<<len, 0>>].kind = mem[<<len, 0>>].kind /\ mem'[<<len, 0>>].st = mem[<<len, 0>>].st
      /\ mem'[<<len, 0>>].slot = mem[<<len, 0>>].slot /\ mem'[<<len, 0>>].exec = mem[<<len, 0>>].exec
      /\ mem'[<<len, 0>>].fn = mem[<<len, 0>>].fn /\ mem'[<<len, 0>>].next = mem[<<len, 0>>].next
      /\ \A d \in T!Cores : d # <<len, 0>> => mem'[d] = mem[d]
  BY <1>2, <1>5 DEF IsMem, Fields
<1>7. \A j \in 0 .. MaxThen : mem'[<<j, 1>>] = mem[<<j, 1>>] /\ (j # len => mem'[<<j, 0>>] = mem[<<j, 0>>])
  <2>1. \A j \in 0 .. MaxThen : <<j, 1>> # <<len, 0>> /\ (j # len => <<j, 0>> # <<len, 0>>)
    OBVIOUS
  <2> QED
    BY <1>5, <1>6, <2>1
<1>8. \A j \in 0 .. len : /\ mem'[<<j, 0>>].kind = mem[<<j, 0>>].kind /\ mem'[<<j, 0>>].slot = mem[<<j, 0>>].slot
                          /\ mem'[<<j, 0>>].exec = mem[<<j, 0>>].exec /\ mem'[<<j, 0>>].fn = mem[<<j, 0>>].fn
                          /\ Pending(j) => Pending(j)'
  <2>1. SUFFICES ASSUME NEW j \in 0 .. len
                 PROVE  /\ mem'[<<j, 0>>].kind = mem[<<j, 0>>].kind /\ mem'[<<j, 0>>].slot = mem[<<j, 0>>].slot
                        /\ mem'[<<j, 0>>].exec = mem[<<j, 0>>].exec /\ mem'[<<j, 0>>].fn = mem[<<j, 0>>].fn
                        /\ Pending(j) => Pending(j)'
    OBVIOUS
  <2>2. j \in 0 .. MaxThen /\ (j = len \/ (j < len /\ j # len))
    BY <1>2
  <2>3. CASE j = len
    <3>1. <<j, 0>> = <<len, 0>> /\ Link(j)' = DropCore
      BY <1>2, <2>3 DEF Link
    <3> QED
      BY <1>6, <3>1 DEF Pending
  <2>4. CASE j < len /\ j # len
    <3>1. mem'[<<j, 0>>] = mem[<<j, 0>>] /\ Link(j)' = Link(j)
      BY <1>7, <2>2, <2>4 DEF Link
    <3> QED
      BY <3>1 DEF Pending
  <2> QED
    BY <2>2, <2>3, <2>4
<1>9. \A j \in 0 .. MaxThen : /\ Unborn(<<j, 1>>) => Unborn(<<j, 1>>)'
                              /\ Freed(<<j, 1>>) => Freed(<<j, 1>>)'
                              /\ j # len /\ Unborn(<<j, 0>>) => Unborn(<<j, 0>>)'
                              /\ j # len /\ Freed(<<j, 0>>) => Freed(<<j, 0>>)'
                              /\ j # len /\ Resolved(<<j, 0>>) => Resolved(<<j, 0>>)'
  BY <1>7 DEF Unborn, Freed, Resolved
<1>10. \A j \in 0 .. len : New(j) => New(j)'
  <2>1. \A j \in 0 .. len : j \in 0 .. MaxThen
    BY <1>2
  <2> QED
    BY <1>8, <1>9, <2>1 DEF New
<1>11. TaskFrame'
  <2>1. \A j \in len + 1 .. MaxThen : j \in 0 .. MaxThen /\ j # len
    BY <1>2
  <2> QED
    BY <1>2, <1>6, <1>9, <2>1 DEF TaskFrame
<1>12. Around(k)'
  <2>1. \A j \in 0 .. len : j \in 0 .. MaxThen /\ (j + 1 < k => j # len)
    BY <1>2, <1>4
  <2>2. \A c \in T!Cores : mem'[c].next = None
    BY <1>2, <1>5, <1>6 DEF Around
  <2>3. \A j \in 0 .. len : j < k => Over(j)'
    <3>1. \A j \in 0 .. len : Over(j) => Over(j)'
      BY <1>7, <1>8, <2>1, OverStays
    <3> QED
      BY <1>2, <3>1 DEF Around
  <2>4. \A j \in 0 .. len : j + 1 < k => Freed(<<j, 0>>)'
    BY <1>2, <1>9, <2>1 DEF Around
  <2>5. \A j \in 0 .. len : j > k => New(j)'
    BY <1>2, <1>10 DEF Around
  <2> QED
    BY <1>2, <1>4, <2>2, <2>3, <2>4, <2>5 DEF Around
<1>13. k \in 0 .. len /\ k \in 0 .. MaxThen /\ (k > 0 => k - 1 \in 0 .. MaxThen /\ k - 1 # len /\ k - 1 \in 0 .. len)
  BY <1>2, <1>4
<1>14. At(k)'
  <2>1. CASE Unread(k)
    <3>1. Pending(k)' /\ Given(<<k, 0>>)' /\ Over(k)'
      BY <1>7, <1>8, <1>13, <2>1, OverStays DEF Unread, Given
    <3>2. k > 0 => Resolved(<<k - 1, 0>>)'
      BY <1>9, <1>13, <2>1 DEF Unread
    <3> QED
      BY <1>4, <1>8, <1>9, <1>13, <2>1, <3>1, <3>2 DEF At, Unread
  <2>2. CASE Body(k)
    <3>1. Pending(k)' /\ Acts("body", <<k, 0>>, None)' /\ Over(k)'
      BY <1>7, <1>8, <1>13, <2>2, OverStays DEF Body, Acts
    <3> QED
      BY <1>8, <1>13, <2>2, <3>1 DEF At, Body
  <2>3. CASE ByPromise(k)
    <3>1. Pending(k)' /\ Owed(<<k, 0>>)' /\ Unborn(<<k, 1>>)'
      BY <1>8, <1>9, <1>13, <2>3 DEF ByPromise, Owed
    <3> QED
      BY <1>8, <1>13, <2>3, <3>1 DEF At, ByPromise
  <2>4. CASE Arrived(k)
    <3>1. k > 0 /\ k <= len /\ ~(k > len) /\ New(k) /\ Resolved(<<k - 1, 0>>) /\ mem[<<k - 1, 0>>].exec # None
      BY <1>2, <1>4, <2>4 DEF Arrived
    <3>2. Resolved(<<k - 1, 0>>)' /\ mem'[<<k - 1, 0>>].exec # None /\ New(k)'
      BY <1>8, <1>9, <1>10, <1>13, <3>1
    <3>3. Acts("here", <<k, 0>>, <<k - 1, 0>>)'
      BY <2>4, <3>1 DEF Arrived, Acts
    <3> QED
      BY <3>1, <3>2, <3>3 DEF At, Arrived
  <2>5. CASE Outer(k) /\ (Inside(k) \/ Returned(k))
    <3>1. Outer(k)'
      <4>1. Pending(k)' /\ (k > 0 => Freed(<<k - 1, 0>>)')
        BY <1>8, <1>9, <1>13, <2>5 DEF Outer
      <4> QED
        BY <1>4, <1>8, <1>13, <2>5, <4>1 DEF Outer
    <3>2. mem'[<<k, 1>>] = mem[<<k, 1>>]
      BY <1>7, <1>13
    <3>3. Inside(k) => Inside(k)'
      BY <3>1, <3>2 DEF Inside, Given, Acts, Owed
    <3>4. Returned(k) => Returned(k)'
      BY <3>1, <3>2 DEF Returned, Acts, Resolved
    <3> QED
      BY <2>5, <3>3, <3>4 DEF At
  <2>6. ~Ended(k)
    BY <1>2, <1>4 DEF Ended
  <2> QED
    BY <1>2, <2>1, <2>2, <2>3, <2>4, <2>5, <2>6 DEF At, Inside, Returned
<1>15. Stopping(k)'
  <2>1. \A d \in T!Cores : mem'[d].word = kResult => mem[d].word = kResult /\ mem'[d].slot = mem[d].slot
    BY <1>3, <1>6
  <2> QED
    BY <1>2, <1>9, <1>13, <2>1 DEF Stopping
<1> QED
  BY <1>2, <1>11, <1>12, <1>14, <1>15, NowInv DEF Going

\* Get, and the destructor of a Future.
LEMMA FutureInv ==
    ASSUME T!ConstantsAssumption, TaskInv, T!Get \/ T!DropFuture
    PROVE  TaskInv'
<1>1. /\ user = "future" /\ user' = "gone" /\ UNCHANGED <<len, act, queue, promised, cancelled, first>>
      /\ \/ mem[<<len, 0>>].word = kResult /\ mem' = T!DecRef(mem, <<len, 0>>)
         \/ mem[<<len, 0>>].word = Empty /\ mem' = [mem EXCEPT ![<<len, 0>>]["word"] = DropCore]
         \/ mem[<<len, 0>>].word # Empty /\ mem' = T!DecRef(mem, <<len, 0>>)
  BY DEF T!Get, T!DropFuture, T!Stage
<1>2. PICK k \in 0 .. len + 1 : Now(k)
  BY <1>1, SomeStage
<1>3. mem[<<len, 0>>].word \in {Empty, kResult}
  BY <1>1, <1>2, FutureStage DEF Resolved
<1> QED
  BY <1>1, <1>3, FutureTaken, FutureDropped

\* Nothing has been made.
LEMMA TaskInit ==
    ASSUME T!ConstantsAssumption, T!Init
    PROVE  TaskInv
<1>1. /\ mem = [c \in T!Cores |-> T!NoCore("unborn")] /\ len = 0 /\ MaxThen \in Nat
      /\ act = T!Idle /\ queue = {} /\ promised = {} /\ user = "none" /\ cancelled = FALSE /\ first = None
  BY TaskConstants DEF T!Init
<1>2. IsMem(mem)
  BY <1>1, NoCoreFields DEF IsMem
<1>3. \A c \in T!Cores : Unborn(c)
  BY <1>1 DEF Unborn
<1>4. \A j \in len + 1 .. MaxThen : Unborn(<<j, 0>>) /\ Unborn(<<j, 1>>)
  <2>1. \A j \in len + 1 .. MaxThen : j \in 0 .. MaxThen
    BY <1>1
  <2> QED
    BY <1>3, <2>1, CoreNames
<1>5. TaskFrame
  <2>1. cancelled \in BOOLEAN /\ (cancelled => first # "value")
    BY <1>1
  <2>2. len \in 0 .. MaxThen
    BY <1>1
  <2> QED
    BY <1>2, <1>4, <2>1, <2>2 DEF TaskFrame
<1>6. Unmade
  BY <1>1, <1>3 DEF Unmade, Resting
<1> QED
  BY <1>5, <1>6 DEF TaskInv

\* What the user does.
LEMMA TaskUserInv ==
    ASSUME T!ConstantsAssumption, TaskInv, T!UserNext
    PROVE  TaskInv'
<1>1. None \notin Executors /\ None # "inline"
  BY TaskConstants
<1>2. cancelled \in BOOLEAN
  BY DEF TaskInv, TaskFrame
<1>3. CASE T!MakeTask
  <2>1. PICK r \in T!Outcomes : T!Head("ready", "inline", T!Result(r)) /\ user' = "task" /\ UNCHANGED <<act, queue>>
    BY <1>3 DEF T!MakeTask
  <2>2. "ready" \in HeadKinds
    BY DEF HeadKinds
  <2> QED
    BY <1>1, <2>1, <2>2, TaskMade
<1>4. ASSUME NEW k \in {"coro", "run", "promise"}, NEW e, e # None, T!Schedule(k, e)
      PROVE  TaskInv'
  <2>1. T!Head(k, e, T!Self(None, FALSE)) /\ user' = "task" /\ UNCHANGED <<act, queue>>
    BY <1>4 DEF T!Schedule
  <2>2. k \in HeadKinds
    BY DEF HeadKinds
  <2> QED
    BY <1>4, <2>1, <2>2, TaskMade
<1>5. CASE T!Cancel
  <2>1. T!Detach("stop") /\ cancelled' = TRUE
    BY <1>5 DEF T!Cancel
  <2> QED
    BY <2>1, DetachInv
<1>6. CASE T!Get \/ T!DropFuture
  BY <1>6, FutureInv
<1>7. ASSUME NEW k \in {"run", "promise"}, NEW e \in Executors, T!Run(k, e)
      PROVE  TaskInv'
  <2>1. k \in HeadKinds
    BY DEF HeadKinds
  <2> QED
    BY <1>7, <2>1, RunInv
<1>8. ASSUME NEW k \in {"then", "thenInline"}, NEW e, T!Then(k, e)
      PROVE  TaskInv'
  <2>1. k \in ThenKinds
    BY DEF ThenKinds
  <2> QED
    BY <1>8, <2>1, ThenInv
<1>9. ASSUME NEW e, T!ToFuture(e)
      PROVE  TaskInv'
  BY <1>9, ToFutureInv
<1>10. ASSUME NEW e, T!Detach(e), UNCHANGED cancelled
       PROVE  TaskInv'
  <2>1. ~cancelled
    BY <1>10, UserHasTask DEF T!Detach, Building
  <2>2. cancelled' \in BOOLEAN /\ (cancelled' => e = "stop")
    BY <1>2, <1>10, <2>1
  <2> QED
    BY <1>10, <2>2, DetachInv
<1>11. CASE \E e \in Executors, k \in {"run", "promise"} : T!Schedule(k, e) \/ T!Run(k, e)
  <2>1. PICK e \in Executors, k \in {"run", "promise"} : T!Schedule(k, e) \/ T!Run(k, e)
    BY <1>11
  <2>2. e # None /\ k \in {"coro", "run", "promise"}
    BY <1>1, <2>1
  <2> QED
    BY <1>4, <1>7, <2>1, <2>2
<1>12. CASE (\E e \in Executors \cup {None} : T!Then("then", e)) \/ T!Then("thenInline", None)
  BY <1>8, <1>12
<1>13. CASE \E e \in Executors \cup {None} : T!ToFuture(e) \/ (T!Detach(e) /\ UNCHANGED cancelled)
  BY <1>9, <1>10, <1>13
<1>14. CASE T!Schedule("coro", "inline")
  BY <1>1, <1>4, <1>14
<1> QED
  BY <1>3, <1>5, <1>6, <1>11, <1>12, <1>13, <1>14, Zenon DEF T!UserNext

\* What a core does.
LEMMA TaskCoreInv ==
    ASSUME T!ConstantsAssumption, TaskInv, NEW c \in T!Cores, T!CoreNext(c)
    PROVE  TaskInv'
<1>1. CASE T!CoreCall(c) \/ T!CoreDrop(c)
  BY <1>1, CoreCallInv
<1>2. CASE T!ReadyCall(c)
  BY <1>2, ReadyCallInv
<1>3. CASE T!StopDrop(c)
  BY <1>3, StopDropInv
<1>4. CASE T!PromiseCall(c)
  BY <1>4, PromiseCallInv
<1>5. CASE T!ThenHere(c)
  BY <1>5, ThenHereInv
<1>6. CASE T!AsyncDone(c)
  BY <1>6, AsyncDoneInv
<1>7. CASE T!CoroHere(c)
  BY <1>7, CoroHereInv
<1>8. CASE T!CoroCall(c)
  BY <1>8, CoroCallInv
<1>9. CASE T!CoReturn(c)
  BY <1>9, CoReturnInv
<1>10. CASE T!Yield(c)
  BY <1>10, YieldInv
<1>11. ASSUME NEW e \in Executors, T!On(c, e) PROVE TaskInv'
  <2>1. e # None
    BY TaskConstants
  <2> QED
    BY <1>11, <2>1, OnInv
<1>12. ASSUME NEW k \in {"ready", "coro", "chain", "future"}, T!CoAwait(c, k) PROVE TaskInv'
  BY <1>12, CoAwaitInv
<1>13. CASE T!ChainCall(c)
  BY <1>13, ChainCallInv
<1>14. CASE T!LetGo(c)
  BY <1>14, LetGoInv
<1> QED
  BY <1>1, <1>2, <1>3, <1>4, <1>5, <1>6, <1>7, <1>8, <1>9, <1>10, <1>11, <1>12, <1>13,
     <1>14, Zenon DEF T!CoreNext, T!InnerKinds

\* Every step keeps the invariant.
LEMMA TaskNextInv ==
    ASSUME T!ConstantsAssumption, TaskInv, [T!Next]_T!vars
    PROVE  TaskInv'
<1>1. CASE T!UserNext
  BY <1>1, TaskUserInv
<1>2. CASE T!DropHere
  BY <1>2, DropHereInv
<1>3. ASSUME NEW c \in T!Cores, T!CoreNext(c) PROVE TaskInv'
  BY <1>3, TaskCoreInv
<1>4. ASSUME NEW c \in T!Cores, T!Worker(c) \/ T!Drain(c) PROVE TaskInv'
  <2>1. PICK e \in {"pool", "manual"}, o \in {"call", "drop"}, t \in {"worker", "user"} : T!Taken(e, c, o, t)
    BY <1>4 DEF T!Worker, T!Drain
  <2> QED
    BY <2>1, TakenInv
<1>5. ASSUME NEW c \in T!Cores, NEW r, NEW t, T!PromiseSet(c, r, t) PROVE TaskInv'
  BY <1>5, PromiseSetInv
<1>6. ASSUME NEW t, T!FunctorReturns(t) PROVE TaskInv'
  BY <1>6, TaskStutter DEF T!FunctorReturns
<1>7. CASE UNCHANGED T!vars
  BY <1>7, TaskStutter DEF T!vars
<1> QED
  BY <1>1, <1>2, <1>3, <1>4, <1>5, <1>6, <1>7, Zenon DEF T!Next

\* In every state of a chain one stage is at work, all before it is over, and
\* nothing after it has begun.
THEOREM TaskInvariance ==
    ASSUME T!ConstantsAssumption
    PROVE  T!Spec => []TaskInv
<1>1. T!Init => TaskInv
  BY TaskInit
<1>2. TaskInv /\ [T!Next]_T!vars => TaskInv'
  BY TaskNextInv
<1> QED
  BY <1>1, <1>2, PTL DEF T!Spec

\* The states of a core, and what its callback is.
LEMMA CoreStates ==
    ASSUME T!ConstantsAssumption, TaskInv, NEW c \in T!Cores
    PROVE  /\ mem[c].st # "wrong" /\ (mem[c].st = "late" => c = T!Inner(c))
           /\ mem[c].word # kResult /\ mem[c].word \in T!Cores => mem[mem[c].word].st = "alive"
<1>1. /\ T!NoCore("unborn").st = "unborn" /\ T!NoCore("freed").st = "freed" /\ T!NoCore("late").st = "late"
      /\ T!NoCore("unborn").word = Empty /\ T!NoCore("freed").word = Empty /\ T!NoCore("late").word = Empty
      /\ Empty \notin T!Cores /\ DropCore \notin T!Cores
  BY NoCoreFields, TaskConstants
<1>2. TaskFrame /\ len \in 0 .. MaxThen /\ MaxThen \in Nat /\ len \in Nat
  BY TaskConstants DEF TaskInv, TaskFrame
<1>3. PICK j \in 0 .. MaxThen : c = <<j, 0>> \/ c = <<j, 1>>
  BY CoreNames
<1>4. /\ Absent(c) => mem[c].st # "wrong" /\ mem[c].word \notin T!Cores
      /\ Unborn(c) \/ Freed(c) => mem[c].st # "late"
      /\ c = <<j, 1>> => c = T!Inner(c)
  BY <1>1 DEF Absent, Unborn, Freed, Late, T!Inner
<1>5. Resolved(c) => mem[c].st # "wrong" /\ mem[c].st # "late" /\ mem[c].word = kResult
  BY DEF Resolved
<1>6. ASSUME j <= len, Pending(j), j < len => Pending(j + 1), c = <<j, 0>>
      PROVE  mem[c].st = "alive" /\ (mem[c].word \in T!Cores => mem[mem[c].word].st = "alive")
  <2>1. mem[c].st = "alive" /\ mem[c].word = Link(j)
    BY <1>6 DEF Pending
  <2>2. j < len => mem[<<j + 1, 0>>].st = "alive"
    BY <1>6 DEF Pending
  <2> QED
    BY <1>1, <2>1, <2>2 DEF Link
<1>7. CASE Unmade
  BY <1>4, <1>7 DEF Unmade, Absent
<1>8. j > len => Unborn(c)
  <2>1. j > len => j \in len + 1 .. MaxThen
    BY <1>2
  <2>2. j > len => Unborn(<<j, 0>>) /\ Unborn(<<j, 1>>)
    BY <1>2, <2>1 DEF TaskFrame
  <2> QED
    BY <1>3, <2>2
<1>9. CASE Building
  <2>1. \A i \in 0 .. len : Pending(i) /\ Unborn(<<i, 1>>)
    <3>1. \A i \in 0 .. len : i = 0 \/ i \in 1 .. len
      BY <1>2
    <3> QED
      BY <1>9, <3>1 DEF Building, New
  <2>2. j <= len => j \in 0 .. len /\ (j < len => j + 1 \in 0 .. len)
    BY <1>2
  <2>3. j <= len => Pending(j) /\ (j < len => Pending(j + 1)) /\ Unborn(<<j, 1>>)
    BY <2>1, <2>2
  <2>4. j <= len \/ j > len
    BY <1>2
  <2> QED
    BY <1>3, <1>4, <1>6, <1>8, <2>3, <2>4 DEF Absent
<1>10. ASSUME NEW k \in 0 .. len + 1, Going(k)
       PROVE  /\ mem[c].st # "wrong" /\ (mem[c].st = "late" => c = T!Inner(c))
              /\ mem[c].word # kResult /\ mem[c].word \in T!Cores => mem[mem[c].word].st = "alive"
  <2>1. k \in Nat /\ Around(k) /\ At(k)
    BY <1>2, <1>10 DEF Going
  <2>2. \A i \in 0 .. len : i > k => Pending(i)
    BY <2>1 DEF Around, New
  <2>3. k <= len => Pending(k)
    BY <1>2, <2>1, StagePending
  <2>4. CASE j > len
    BY <1>4, <1>8, <2>4 DEF Absent
  <2>5. CASE j <= len /\ k <= j
    <3>1. Pending(j) /\ (j < len => Pending(j + 1))
      <4>1. j \in 0 .. len /\ (j < len => j + 1 \in 0 .. len /\ j + 1 > k) /\ (j = k \/ j > k)
        BY <1>2, <2>1, <2>5
      <4> QED
        BY <2>2, <2>3, <2>5, <4>1
    <3>2. CASE c = <<j, 0>>
      BY <1>6, <2>5, <3>1, <3>2
    <3>3. CASE c = <<j, 1>> /\ j > k
      <4>1. Unborn(c)
        <5>1. j \in 0 .. len
          BY <1>2, <2>5
        <5> QED
          BY <2>1, <3>3, <5>1 DEF Around, New
      <4> QED
        BY <1>4, <4>1 DEF Absent
    <3>4. CASE c = <<k, 1>> /\ j = k
      <4>1. CASE Inside(k)
        BY <3>1, <3>4, <4>1 DEF Inside, Pending
      <4>2. CASE Returned(k)
        BY <1>5, <3>4, <4>2 DEF Returned
      <4>3. CASE Arrived(k)
        BY <1>4, <2>5, <3>4, <4>3 DEF Arrived, New, Absent
      <4>4. CASE Unread(k) \/ Body(k) \/ ByPromise(k)
        <5>1. Over(k)
          BY <4>4 DEF Unread, Body, ByPromise, Over, Absent
        <5> QED
          BY <1>4, <1>5, <3>4, <5>1 DEF Over, Kept
      <4>5. ~Ended(k)
        BY <1>2, <2>1, <2>5 DEF Ended
      <4> QED
        BY <2>1, <4>1, <4>2, <4>3, <4>4, <4>5 DEF At
    <3>5. j = k \/ j > k
      BY <2>1, <2>5
    <3> QED
      BY <1>3, <3>2, <3>3, <3>4, <3>5
  <2>6. CASE j <= len /\ j < k
    <3>1. j \in 0 .. len /\ (j + 1 < k \/ j = k - 1) /\ k > 0
      BY <1>2, <2>1, <2>6
    <3>2. CASE c = <<j, 1>>
      <4>1. Over(j)
        BY <2>1, <2>6, <3>1 DEF Around
      <4> QED
        BY <1>4, <1>5, <3>2, <4>1 DEF Over, Kept
    <3>3. CASE c = <<j, 0>> /\ j + 1 < k
      BY <1>4, <2>1, <3>1, <3>3 DEF Around, Absent
    <3>4. CASE c = <<k - 1, 0>> /\ j = k - 1
      <4>1. Resolved(c) \/ Freed(c)
        <5>1. ~(k = 0)
          BY <2>1, <3>1
        <5>2. ~Body(k) /\ ~ByPromise(k)
          BY <5>1 DEF Body, ByPromise
        <5>3. Unread(k) \/ Arrived(k) => Resolved(<<k - 1, 0>>)
          BY <3>1 DEF Unread, Arrived
        <5>4. Outer(k) => Freed(<<k - 1, 0>>)
          BY <3>1 DEF Outer
        <5>5. Ended(k) => Resolved(<<k - 1, 0>>) \/ Freed(<<k - 1, 0>>)
          BY DEF Ended
        <5> QED
          BY <2>1, <3>4, <5>2, <5>3, <5>4, <5>5 DEF At, Inside, Returned
      <4> QED
        BY <1>4, <1>5, <4>1 DEF Absent
    <3> QED
      BY <1>3, <3>1, <3>2, <3>3, <3>4
  <2> QED
    BY <1>2, <2>1, <2>4, <2>5, <2>6
<1> QED
  BY <1>7, <1>9, <1>10 DEF TaskInv

\* Who acts, and for whom.
LEMMA ActorsAlive ==
    ASSUME T!ConstantsAssumption, TaskInv
    PROVE  /\ T!Live(act.core) /\ T!Live(act.from)
           /\ act.op \in {"call", "drop"} /\ T!HasFunctor(act.core) => mem[act.core].fn = "stored"
           /\ act.op = "call" /\ T!IsThen(act.core) => T!Live(mem[act.core].slot.caller)
           /\ \A j \in queue : T!Live(j[2]) /\ mem[j[2]].next = None
<1>1. None \notin T!Cores /\ DropCore \notin T!Cores
  BY TaskConstants
<1>2. CASE Resting
  BY <1>1, <1>2 DEF Resting, T!Idle, T!Live
<1>3. CASE ~Resting
  <2>1. PICK k \in 0 .. len + 1 : Now(k)
    <3>1. act # T!Idle \/ queue # {} \/ promised # {}
      BY <1>3 DEF Resting
    <3> QED
      BY <3>1, SomeStage
  <2>2. /\ k \in Nat /\ len \in Nat /\ At(k) /\ Around(k) /\ \A c \in T!Cores : mem[c].next = None
        /\ MaxThen \in Nat /\ len \in 0 .. MaxThen
    BY <2>1, TaskConstants DEF Now, TaskFrame, Around
  <2>3. k <= len => <<k, 0>> \in T!Cores /\ <<k, 1>> \in T!Cores /\ mem[<<k, 0>>].st = "alive"
    <3>1. k <= len => k \in 0 .. MaxThen
      BY <2>2
    <3>2. k <= len => Pending(k)
      BY <2>2, StagePending
    <3> QED
      BY <3>1, <3>2, CoreNames DEF Pending
  <2>4. CASE act = T!Idle
    <3>1. act.op = "idle" /\ act.core = None /\ act.from = None
      BY <2>4 DEF T!Idle
    <3>2. \A j \in queue : T!Live(j[2]) /\ mem[j[2]].next = None
      <4>1. SUFFICES ASSUME NEW j \in queue PROVE T!Live(j[2]) /\ mem[j[2]].next = None
        OBVIOUS
      <4>2. /\ k <= len
            /\ \/ \E e \in {"pool", "manual"} : queue = {<<e, <<k, 0>>>>}
               \/ Inside(k) /\ \E e \in {"pool", "manual"} : queue = {<<e, <<k, 1>>>>}
        BY <2>1, <2>4, <4>1, WhoWaits
      <4>3. j[2] = <<k, 0>> \/ (j[2] = <<k, 1>> /\ Inside(k))
        BY <4>1, <4>2
      <4> QED
        BY <2>2, <2>3, <4>2, <4>3 DEF Inside, T!Live
    <3> QED
      BY <1>1, <3>1, <3>2 DEF T!Live
  <2>5. CASE act.op \in {"call", "drop"}
    <3>1. /\ k <= len /\ queue = {} /\ act # T!Idle
          /\ \/ act.core = <<k, 0>> /\ Unread(k)
             \/ act.core = <<k, 1>> /\ Inside(k) /\ mem[<<k, 1>>].kind = "coro"
      BY <2>1, <2>5, WhoIsCalled DEF T!Idle
    <3>2. act.from = None
      BY <2>5, <3>1 DEF Unread, Inside, Given, Acts, Owed
    <3>3. CASE act.core = <<k, 0>> /\ Unread(k)
      <4>1. k = 0 => mem[<<k, 0>>].kind \notin {"then", "thenInline"}
        BY <3>3 DEF Unread, Pending, HeadKinds
      <4>2. mem[<<k, 0>>].kind \in {"then", "thenInline"} =>
              Resolved(<<k - 1, 0>>) /\ mem[<<k, 0>>].slot.caller = <<k - 1, 0>>
        BY <2>2, <3>3, <4>1 DEF Unread, T!Self
      <4>3. mem[<<k, 0>>].kind \in {"then", "thenInline", "run", "promise"} => mem[<<k, 0>>].fn = "stored"
        BY <3>3 DEF Unread
      <4> QED
        BY <1>1, <2>3, <3>1, <3>2, <3>3, <4>2, <4>3 DEF T!Live, T!HasFunctor, T!IsThen, Resolved
    <3>4. CASE act.core = <<k, 1>> /\ Inside(k) /\ mem[<<k, 1>>].kind = "coro"
      BY <1>1, <3>1, <3>2, <3>4 DEF T!Live, T!HasFunctor, T!IsThen, Inside
    <3> QED
      BY <3>1, <3>3, <3>4
  <2>6. CASE act.op = "body"
    <3>1. /\ k <= len /\ queue = {}
          /\ (act.core = <<k, 0>> /\ Body(k)) \/ (act.core = <<k, 1>> /\ Inside(k))
      BY <2>1, <2>6, WhoRuns
    <3>2. act.from = None
      BY <2>6, <3>1 DEF Body, Inside, Given, Acts, Owed, T!Idle
    <3> QED
      BY <1>1, <2>3, <2>6, <3>1, <3>2 DEF T!Live, Inside
  <2>7. CASE act.op = "here"
    <3>1. /\ queue = {}
          /\ \/ act.core = DropCore /\ act.from = <<k - 1, 0>> /\ Arrived(k)
             \/ k <= len /\ act.core = <<k, 0>> /\ act.from = <<k - 1, 0>> /\ Arrived(k)
             \/ k <= len /\ act.core = <<k, 0>> /\ act.from = <<k, 1>> /\ Returned(k)
             \/ k <= len /\ act.core = <<k, 1>> /\ act.from = <<k, 0>> /\ Inside(k)
      BY <2>1, <2>7, WhoIsNext
    <3> QED
      BY <1>1, <2>3, <2>7, <3>1 DEF T!Live, Arrived, Returned, Inside, Resolved
  <2>8. act = T!Idle \/ act.op \in {"call", "drop", "body", "here"}
    <3>1. k <= len \/ k > len
      BY <2>2
    <3> QED
      BY <2>2, <3>1 DEF At, Unread, Body, ByPromise, Arrived, Inside, Returned, Ended, Given, Acts, Owed, Resting
  <2> QED
    BY <2>4, <2>5, <2>6, <2>7, <2>8
<1> QED
  BY <1>2, <1>3

\* Whoever acts has the executor it needs.
LEMMA ActorsHaveExecutors ==
    ASSUME T!ConstantsAssumption, TaskInv
    PROVE  T!ExecutorsPresent
<1>1. CASE act.op = "here"
  <2>1. PICK k \in 0 .. len + 1 : Now(k)
    BY <1>1, SomeStage DEF T!Idle
  <2>2. \/ act.core = DropCore
        \/ act.from = <<k - 1, 0>> /\ Arrived(k)
        \/ act.from = <<k, 1>> /\ Returned(k)
        \/ act.from = <<k, 0>> /\ Inside(k)
    BY <1>1, <2>1, WhoIsNext
  <2>3. act.core \in T!Cores => mem[act.from].exec # None
    BY <2>2, TaskConstants DEF Arrived, Returned, Inside, Outer
  <2> QED
    BY <1>1, <2>3 DEF T!ExecutorsPresent
<1>2. CASE act.op = "body"
  <2>1. PICK k \in 0 .. len + 1 : Now(k)
    BY <1>2, SomeStage DEF T!Idle
  <2>2. (act.core = <<k, 0>> /\ Body(k)) \/ (act.core = <<k, 1>> /\ Inside(k))
    BY <1>2, <2>1, WhoRuns
  <2> QED
    BY <1>2, <2>2 DEF T!ExecutorsPresent, Body, Inside
<1> QED
  BY <1>1, <1>2 DEF T!ExecutorsPresent

\* Tasks.CoreLifetimes: what the core at work, the executors and the callbacks
\* are about to use is alive, and a core is freed once, with its result in place
\* and its functor gone, however long the chain is, whatever its functors return
\* and whatever its coroutine keeps after an Await.  Only an inner core is ever
\* cancelled too late.
THEOREM CoresLiveLongEnough ==
    ASSUME T!ConstantsAssumption
    PROVE  T!Spec => []T!CoreLifetimes
<1>1. TaskInv => T!CoreLifetimes
  <2>1. SUFFICES ASSUME TaskInv PROVE T!CoreLifetimes
    OBVIOUS
  <2>2. \A c \in T!Cores : /\ mem[c].st # "wrong" /\ (mem[c].st = "late" => c = T!Inner(c))
                           /\ mem[c].word # kResult => T!Live(mem[c].word)
    BY <2>1, CoreStates DEF T!Live
  <2> QED
    BY <2>1, <2>2, ActorsAlive DEF T!CoreLifetimes
<1> QED
  BY <1>1, TaskInvariance, PTL

\* Tasks.ExecutorsPresent: an executor that is moved from core to core, or
\* swapped, is always where the next core that needs one looks for it.
THEOREM ExecutorsAreThere ==
    ASSUME T!ConstantsAssumption
    PROVE  T!Spec => []T!ExecutorsPresent
<1>1. TaskInv => T!ExecutorsPresent
  BY ActorsHaveExecutors
<1> QED
  BY <1>1, TaskInvariance, PTL

\* Tasks.CancelMeansStop: after Cancel, or ~Task before the chain was started, no
\* functor that takes a value and no coroutine runs before a functor that takes
\* errors has, and until then every stage ends with StopTag.
THEOREM CancelStopsTheChain ==
    ASSUME T!ConstantsAssumption
    PROVE  T!Spec => []T!CancelMeansStop
<1>1. TaskInv => T!CancelMeansStop
  BY DEF TaskInv, Unmade, Building, Going, TaskFrame, Stopping, T!CancelMeansStop
<1> QED
  BY <1>1, TaskInvariance, PTL
=============================================================================
