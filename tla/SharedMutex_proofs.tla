------------------------- MODULE SharedMutex_proofs -------------------------
(***************************************************************************)
(* The shared mutex excludes, loses nobody and keeps the order it promises *)
(* for any number of readers and writers and all template arguments.       *)
(*                                                                         *)
(* The argument is about the leader: the one writer that has the mutex, or *)
(* waits for the readers inside, or has just found no other writer, or is  *)
(* handing the mutex on.  What every counter of the code stands for        *)
(* depends on what the leader is doing; without a leader there is no queue *)
(* and every reader on its way has a pass.                                 *)
(***************************************************************************)
EXTENDS SharedMutex, SequenceLemmas, FiniteSetTheorems, TLAPS

\* Readers that have counted themselves and will look for a pass, readers that
\* have the mutex, readers that have left _state but not _readers_wait.
OnTheWay == {r \in Readers : pc[r] = "await"}
Entered == {r \in Readers : pc[r] \in {"cs", "granted"}}
Leaving == {r \in Readers : pc[r] = "leaving"}
NAwait == Cardinality(OnTheWay)
NIn == Cardinality(Entered)
NLeaving == Cardinality(Leaving)

\* The readers a writer has to wait for.
ToLeave == NIn + NLeaving + pass

\* What a leader may be doing, and a writer that is going to queue.
Picks(w) == pc[w] = "pick"
Counts(w) == pc[w] = "counted" /\ seen[w][1] = 0
AwaitsReaders(w) == pc[w] = "waiting" /\ w \notin ToSet(wqueue)
InState(w) == Inside(w) \/ Counts(w) \/ AwaitsReaders(w)
Leader(w) == InState(w) \/ Picks(w)
Behind(w) == pc[w] = "counted" /\ seen[w][1] # 0

\* The spinlock is held between the two steps of AwaitLock and of SlowUnlock.
Spin == \A w \in Writers : pc[w] \in {"counted", "pick"} <=> lock = w

\* Readers and writers are in different parts of the code.
Kinds ==
    /\ \A r \in Readers : pc[r] \notin {"counted", "slow", "pick"}
    /\ \A w \in Writers : pc[w] # "leaving"

\* There is one leader.
OneLeader == \A v, w \in Writers : Leader(v) /\ Leader(w) => v = w

\* Without a leader nobody waits.
Led ==
    (\A w \in Writers : ~Leader(w)) =>
        /\ wqueue = <<>> /\ rqueue = <<>> /\ readersWait = 0
        /\ NLeaving = 0 /\ pass = NAwait
        /\ \A w \in Writers : ~Behind(w)

\* The two halves of _state.
NLeading == IF \E w \in Writers : InState(w) THEN 1 ELSE 0
NBehind == IF \E w \in Writers : Behind(w) THEN 1 ELSE 0
WritersExact == writers = Len(wqueue) + NLeading + NBehind
ReadersExact == readers = NAwait + Len(rqueue) + NIn

\* The lists.
RQueue == IsInjective(rqueue) /\ ToSet(rqueue) = {r \in Readers : pc[r] = "waiting"}
WQueue == IsInjective(wqueue) /\ \A w \in ToSet(wqueue) : pc[w] = "waiting"

\* A writer that has the mutex is alone; it is slow about unlocking only if
\* somebody is waiting.
InsideState ==
    \A w \in Writers : Inside(w) =>
        /\ NIn = 0 /\ NLeaving = 0 /\ pass = 0 /\ readersWait = 0
        /\ pc[w] = "slow" => writers # 1 \/ readers # 0

\* A writer that hands the mutex on has seen all the others.
PickState ==
    \A w \in Writers : Picks(w) =>
        /\ NLeaving = 0 /\ pass = 0 /\ readersWait = 0
        /\ seen[w][1] = Len(wqueue) + 1
        /\ seen[w][1] # 1 => NIn = 0
        /\ seen[w][1] = 1 => seen[w][2] = NAwait + Len(rqueue) /\ seen[w][2] # 0

\* A writer that waits for readers is _writers_first, and they are counted.
FirstState ==
    \A w \in Writers : AwaitsReaders(w) =>
        w = first /\ readersWait = ToLeave /\ readersWait # 0 /\ pass <= NAwait

\* A writer that has seen readers and no writer, before it has added them to
\* _readers_wait: those that have left since made it wrap.
CountedState ==
    \A w \in Writers : Counts(w) =>
        /\ seen[w][2] <= Cardinality(Readers)
        /\ ToLeave <= seen[w][2]
        /\ readersWait = (Word - (seen[w][2] - ToLeave)) % Word
        /\ pass <= NAwait

\* _writers_prio counts the writers that queued before any reader.
PrioState ==
    /\ ~fifo => prio = 0
    /\ fifo => prio <= Len(wqueue) /\ (rqueue = <<>> => prio = Len(wqueue))

\* Nobody is ahead of those; what is ahead of the others is still queued.
OrderState ==
    fifo => /\ \A w \in Writers : w \notin ToSet(wqueue) => ahead[w] = {}
            /\ \A w \in Writers : ahead[w] \subseteq ToSet(rqueue)
            /\ \A i \in 1 .. prio : ahead[wqueue[i]] = {}

\* The inductive invariant.
Inv ==
    /\ TypeOK
    /\ Spin
    /\ Kinds
    /\ OneLeader
    /\ Led
    /\ WritersExact
    /\ ReadersExact
    /\ RQueue
    /\ WQueue
    /\ InsideState
    /\ PickState
    /\ FirstState
    /\ CountedState
    /\ PrioState
    /\ OrderState

USE DEF Inv

-----------------------------------------------------------------------------
(***************************************************************************)
(* Counting.                                                               *)
(***************************************************************************)

\* The remainder of a number that wraps at most once.
LEMMA ModSmall ==
    ASSUME NEW W \in Nat, NEW a \in Nat, W > 0
    PROVE  /\ a < W => a % W = a
           /\ W <= a /\ a < W + W => a % W = a - W
OBVIOUS

\* Sets of readers are finite.
LEMMA ReaderSets ==
    \A S \in SUBSET Readers : /\ IsFiniteSet(S) /\ Cardinality(S) \in Nat
                              /\ Cardinality(S) <= Cardinality(Readers)
                              /\ Cardinality(S) = 0 <=> S = {}
BY ConstantsAssumption, FS_Subset, FS_CardinalityType, FS_EmptySet

\* One reader more or less.
LEMMA OneReader ==
    ASSUME NEW S \in SUBSET Readers, NEW r \in Readers
    PROVE  /\ r \notin S => Cardinality(S \cup {r}) = Cardinality(S) + 1
           /\ r \in S => Cardinality(S \ {r}) = Cardinality(S) - 1 /\ Cardinality(S) >= 1
<1>1. IsFiniteSet(S) /\ Cardinality(S) \in Nat
  BY ReaderSets
<1>2. r \in S => Cardinality(S) # 0
  BY <1>1, FS_EmptySet
<1>3. r \notin S => Cardinality(S \cup {r}) = Cardinality(S) + 1
  BY <1>1, FS_AddElement
<1>4. r \in S => Cardinality(S \ {r}) = Cardinality(S) - 1
  BY <1>1, FS_RemoveElement
<1> QED
  BY <1>1, <1>2, <1>3, <1>4

\* The counts of readers, before and after a step.
LEMMA Counts0 ==
    /\ NAwait \in Nat /\ NIn \in Nat /\ NLeaving \in Nat
    /\ NAwait' \in Nat /\ NIn' \in Nat /\ NLeaving' \in Nat
<1>1. /\ OnTheWay \in SUBSET Readers /\ Entered \in SUBSET Readers /\ Leaving \in SUBSET Readers
      /\ OnTheWay' \in SUBSET Readers /\ Entered' \in SUBSET Readers /\ Leaving' \in SUBSET Readers
  BY DEF OnTheWay, Entered, Leaving
<1> QED
  BY <1>1, ReaderSets DEF NAwait, NIn, NLeaving

\* The lists and the counters that go with them.
LEMMA Lengths ==
    ASSUME TypeOK
    PROVE  /\ Len(wqueue) \in Nat /\ (wqueue = <<>> <=> Len(wqueue) = 0)
           /\ Len(rqueue) \in Nat /\ (rqueue = <<>> <=> Len(rqueue) = 0)
           /\ ToSet(wqueue) \subseteq Writers /\ ToSet(rqueue) \subseteq Readers
           /\ NLeading \in {0, 1} /\ NBehind \in {0, 1}
           /\ NLeading = 1 <=> \E w \in Writers : InState(w)
           /\ NBehind = 1 <=> \E w \in Writers : Behind(w)
BY ListElements DEF TypeOK, NLeading, NBehind

\* Readers' counts that a step of a writer leaves alone.
LEMMA ReadersStay ==
    ASSUME \A r \in Readers : pc'[r] = pc[r]
    PROVE  /\ NAwait' = NAwait /\ NIn' = NIn /\ NLeaving' = NLeaving
           /\ {r \in Readers : pc[r] = "waiting"}' = {r \in Readers : pc[r] = "waiting"}
<1>1. OnTheWay' = OnTheWay /\ Entered' = Entered /\ Leaving' = Leaving
  BY DEF OnTheWay, Entered, Leaving
<1> QED
  BY <1>1 DEF NAwait, NIn, NLeaving

\* Writers that a step of a reader leaves alone.
LEMMA WritersStay ==
    ASSUME \A w \in Writers : pc'[w] = pc[w], UNCHANGED <<wqueue, seen>>
    PROVE  /\ \A w \in Writers : /\ Inside(w)' <=> Inside(w)
                                 /\ Picks(w)' <=> Picks(w)
                                 /\ Counts(w)' <=> Counts(w)
                                 /\ AwaitsReaders(w)' <=> AwaitsReaders(w)
                                 /\ InState(w)' <=> InState(w)
                                 /\ Leader(w)' <=> Leader(w)
                                 /\ Behind(w)' <=> Behind(w)
           /\ NLeading' = NLeading /\ NBehind' = NBehind
<1>1. \A w \in Writers : /\ Inside(w)' <=> Inside(w)
                         /\ Picks(w)' <=> Picks(w)
                         /\ Counts(w)' <=> Counts(w)
                         /\ AwaitsReaders(w)' <=> AwaitsReaders(w)
                         /\ Behind(w)' <=> Behind(w)
  BY DEF Inside, Picks, Counts, AwaitsReaders, Behind
<1>2. \A w \in Writers : (InState(w)' <=> InState(w)) /\ (Leader(w)' <=> Leader(w))
  BY <1>1 DEF InState, Leader
<1>3. NLeading' = NLeading /\ NBehind' = NBehind
  BY <1>1, <1>2 DEF NLeading, NBehind
<1> QED
  BY <1>1, <1>2, <1>3

\* Writers that a step of another writer leaves alone.
LEMMA OthersStay ==
    ASSUME NEW w \in Writers, \A v \in Writers : v # w => pc'[v] = pc[v] /\ seen'[v] = seen[v],
           \A v \in Writers : v # w => (v \in ToSet(wqueue') <=> v \in ToSet(wqueue))
    PROVE  \A v \in Writers : v # w =>
               /\ Inside(v)' <=> Inside(v)
               /\ Picks(v)' <=> Picks(v)
               /\ Counts(v)' <=> Counts(v)
               /\ AwaitsReaders(v)' <=> AwaitsReaders(v)
               /\ InState(v)' <=> InState(v)
               /\ Leader(v)' <=> Leader(v)
               /\ Behind(v)' <=> Behind(v)
<1>1. \A v \in Writers : v # w =>
               /\ Inside(v)' <=> Inside(v)
               /\ Picks(v)' <=> Picks(v)
               /\ Counts(v)' <=> Counts(v)
               /\ AwaitsReaders(v)' <=> AwaitsReaders(v)
               /\ Behind(v)' <=> Behind(v)
  BY DEF Inside, Picks, Counts, AwaitsReaders, Behind
<1> QED
  BY <1>1 DEF InState, Leader

\* The roles of a writer exclude each other.
LEMMA Roles ==
    ASSUME NEW w
    PROVE  /\ Inside(w) => ~Picks(w) /\ ~Counts(w) /\ ~AwaitsReaders(w) /\ ~Behind(w)
           /\ Picks(w) => ~Counts(w) /\ ~AwaitsReaders(w) /\ ~Behind(w) /\ ~InState(w)
           /\ Counts(w) => ~AwaitsReaders(w) /\ ~Behind(w)
           /\ AwaitsReaders(w) => ~Behind(w)
           /\ Behind(w) => ~Leader(w)
BY DEF Inside, Picks, Counts, AwaitsReaders, Behind, InState, Leader

\* _state without writers: at most somebody who hands the mutex to readers.
LEMMA NoWriters ==
    ASSUME Inv, writers = 0
    PROVE  /\ wqueue = <<>> /\ \A w \in Writers : ~InState(w) /\ ~Behind(w)
           /\ \A w \in Writers : Leader(w) => Picks(w) /\ seen[w][1] = 1
<1>1. Len(wqueue) = 0 /\ NLeading = 0 /\ NBehind = 0
  BY Lengths DEF WritersExact
<1>2. wqueue = <<>> /\ \A w \in Writers : ~InState(w) /\ ~Behind(w)
  BY <1>1, Lengths
<1> QED
  BY <1>1, <1>2 DEF Leader, PickState

\* Whoever hands the mutex on is the only one outside the queue.
LEMMA PickAlone ==
    ASSUME Inv, NEW w \in Writers, Picks(w)
    PROVE  /\ \A v \in Writers : ~InState(v) /\ ~Behind(v)
           /\ writers = Len(wqueue) /\ lock = w
<1>1. lock = w
  BY DEF Spin, Picks
<1>2. \A v \in Writers : ~InState(v)
  BY Roles DEF OneLeader, Leader
<1>3. \A v \in Writers : ~Behind(v)
  BY <1>1 DEF Behind, Spin, Picks
<1> QED
  BY <1>1, <1>2, <1>3, Lengths DEF WritersExact

\* _state with writers: there is a leader, and it is not about to let all the
\* readers in.
LEMMA SomeWriters ==
    ASSUME Inv, writers # 0
    PROVE  /\ \E w \in Writers : Leader(w)
           /\ \A w \in Writers : Picks(w) => seen[w][1] # 1
<1>1. \E w \in Writers : Leader(w)
  <2> SUFFICES ASSUME \A w \in Writers : ~Leader(w) PROVE FALSE
    OBVIOUS
  <2>1. wqueue = <<>> /\ \A w \in Writers : ~Behind(w) /\ ~InState(w)
    BY DEF Led, Leader
  <2> QED
    BY <2>1, Lengths DEF WritersExact
<1>2. ASSUME NEW w \in Writers, Picks(w) PROVE seen[w][1] # 1
  BY <1>2, PickAlone, Lengths DEF PickState
<1> QED
  BY <1>1, <1>2

-----------------------------------------------------------------------------
(***************************************************************************)
(* Readers' steps preserve Inv.                                            *)
(***************************************************************************)

\* 1 for a reader that is in a set of states, 0 for one that is not.
At(x, S) == IF x \in S THEN 1 ELSE 0

\* A set of readers that is given by their states, when one of them moves.
LEMMA SetMoves ==
    ASSUME NEW r \in Readers, NEW S \in SUBSET Readers, NEW T \in SUBSET Readers,
           \A q \in Readers : q # r => (q \in S <=> q \in T)
    PROVE  /\ r \in S /\ r \in T => Cardinality(T) = Cardinality(S)
           /\ r \notin S /\ r \notin T => Cardinality(T) = Cardinality(S)
           /\ r \notin S /\ r \in T => Cardinality(T) = Cardinality(S) + 1
           /\ r \in S /\ r \notin T => Cardinality(T) = Cardinality(S) - 1
<1>1. CASE (r \in S /\ r \in T) \/ (r \notin S /\ r \notin T)
  <2>1. S = T
    BY <1>1
  <2> QED
    BY <1>1, <2>1
<1>2. CASE r \notin S /\ r \in T
  <2>1. T = S \cup {r}
    BY <1>2
  <2> QED
    BY <1>2, <2>1, OneReader
<1>3. CASE r \in S /\ r \notin T
  <2>1. T = S \ {r}
    BY <1>3
  <2> QED
    BY <1>3, <2>1, OneReader
<1> QED
  BY <1>1, <1>2, <1>3

\* The counts of readers when one of them moves.
LEMMA ReaderMoves ==
    ASSUME NEW r \in Readers, NEW x, pc'[r] = x, \A q \in Readers : q # r => pc'[q] = pc[q]
    PROVE  /\ NAwait' = NAwait + At(x, {"await"}) - At(pc[r], {"await"})
           /\ NIn' = NIn + At(x, {"cs", "granted"}) - At(pc[r], {"cs", "granted"})
           /\ NLeaving' = NLeaving + At(x, {"leaving"}) - At(pc[r], {"leaving"})
           /\ pc[r] = "leaving" => NLeaving # 0
           /\ pc[r] = "await" => NAwait # 0
           /\ pc[r] \in {"cs", "granted"} => NIn # 0
<1>0. /\ OnTheWay \in SUBSET Readers /\ Entered \in SUBSET Readers /\ Leaving \in SUBSET Readers
      /\ OnTheWay' \in SUBSET Readers /\ Entered' \in SUBSET Readers /\ Leaving' \in SUBSET Readers
  BY DEF OnTheWay, Entered, Leaving
<1>1. NAwait' = NAwait + At(x, {"await"}) - At(pc[r], {"await"})
  <2>1. /\ r \in OnTheWay <=> pc[r] = "await"
        /\ r \in OnTheWay' <=> x = "await"
        /\ \A q \in Readers : q # r => (q \in OnTheWay <=> q \in OnTheWay')
    BY DEF OnTheWay
  <2> QED
    BY <1>0, <2>1, Counts0, SetMoves DEF NAwait, At
<1>2. NIn' = NIn + At(x, {"cs", "granted"}) - At(pc[r], {"cs", "granted"})
  <2>1. /\ r \in Entered <=> pc[r] \in {"cs", "granted"}
        /\ r \in Entered' <=> x \in {"cs", "granted"}
        /\ \A q \in Readers : q # r => (q \in Entered <=> q \in Entered')
    BY DEF Entered
  <2> QED
    BY <1>0, <2>1, Counts0, SetMoves DEF NIn, At
<1>3. NLeaving' = NLeaving + At(x, {"leaving"}) - At(pc[r], {"leaving"})
  <2>1. /\ r \in Leaving <=> pc[r] = "leaving"
        /\ r \in Leaving' <=> x = "leaving"
        /\ \A q \in Readers : q # r => (q \in Leaving <=> q \in Leaving')
    BY DEF Leaving
  <2> QED
    BY <1>0, <2>1, Counts0, SetMoves DEF NLeaving, At
<1>4. (pc[r] = "leaving" => NLeaving # 0) /\ (pc[r] = "await" => NAwait # 0)
      /\ (pc[r] \in {"cs", "granted"} => NIn # 0)
  <2>1. /\ pc[r] = "leaving" => Leaving # {}
        /\ pc[r] = "await" => OnTheWay # {}
        /\ pc[r] \in {"cs", "granted"} => Entered # {}
    BY DEF Leaving, OnTheWay, Entered
  <2> QED
    BY <1>0, <2>1, ReaderSets DEF NLeaving, NAwait, NIn
<1> QED
  BY <1>1, <1>2, <1>3, <1>4

\* What a reader's step changes in pc.
LEMMA ReaderPc ==
    ASSUME Inv, NEW r \in Readers, NEW x \in States, pc' = [pc EXCEPT ![r] = x]
    PROVE  /\ pc'[r] = x /\ (\A q \in Readers : q # r => pc'[q] = pc[q])
           /\ \A w \in Writers : pc'[w] = pc[w]
           /\ pc' \in [Coroutines -> States]
BY ConstantsAssumption DEF TypeOK, Coroutines

\* What it cannot disturb.
LEMMA ReaderStep ==
    ASSUME Inv, NEW r \in Readers, NEW x \in States, x \notin {"counted", "slow", "pick"},
           pc' = [pc EXCEPT ![r] = x], UNCHANGED <<writers, wqueue, seen, lock>>
    PROVE  Spin' /\ Kinds' /\ OneLeader' /\ WritersExact' /\ WQueue'
<1>0. /\ pc'[r] = x /\ (\A q \in Readers : q # r => pc'[q] = pc[q])
      /\ \A w \in Writers : pc'[w] = pc[w]
  BY ReaderPc
<1>1. Spin' /\ Kinds'
  BY <1>0 DEF Spin, Kinds
<1>2. OneLeader' /\ WritersExact'
  BY <1>0, WritersStay DEF OneLeader, WritersExact
<1>3. WQueue'
  BY <1>0, Lengths DEF WQueue
<1> QED
  BY <1>1, <1>2, <1>3

\* The counts enter the invariant like this.
USE DEF ToLeave

\* A reader counts itself when there is no writer.
LEMMA ReaderEnters ==
    ASSUME Inv, NEW r \in Readers, pc[r] = "out", writers = 0, readers' = readers + 1,
           pc' = [pc EXCEPT ![r] = "cs"],
           UNCHANGED <<templates, writers, readersWait, lock, spinVars, seen, ahead>>
    PROVE  Inv'
<1> USE DEF templates, spinVars
<1>0. /\ pc'[r] = "cs" /\ (\A q \in Readers : q # r => pc'[q] = pc[q])
      /\ (\A w \in Writers : pc'[w] = pc[w]) /\ pc' \in [Coroutines -> States]
  BY ReaderPc DEF States
<1>1. NAwait' = NAwait /\ NIn' = NIn + 1 /\ NLeaving' = NLeaving
  BY <1>0, ReaderMoves, Counts0 DEF At
<1>2. Spin' /\ Kinds' /\ OneLeader' /\ WritersExact' /\ WQueue'
  BY ReaderStep DEF States
<1>3. /\ \A w \in Writers : ~InState(w)' /\ (Picks(w)' => Picks(w) /\ seen[w][1] = 1)
                            /\ (Leader(w)' <=> Leader(w)) /\ (Behind(w)' <=> Behind(w))
  BY <1>0, WritersStay, NoWriters DEF Leader
<1>4. TypeOK'
  BY <1>0 DEF TypeOK
<1>5. Led'
  BY <1>1, <1>3 DEF Led
<1>6. ReadersExact'
  BY <1>1, Counts0, Lengths DEF ReadersExact, TypeOK
<1>7. RQueue'
  BY <1>0 DEF RQueue
<1>8. InsideState' /\ FirstState' /\ CountedState'
  BY <1>3 DEF InsideState, FirstState, CountedState, InState
<1>9. PickState'
  BY <1>1, <1>3 DEF PickState
<1>10. PrioState' /\ OrderState'
  BY DEF PrioState, OrderState
<1> QED
  BY <1>2, <1>4, <1>5, <1>6, <1>7, <1>8, <1>9, <1>10

\* A reader counts itself when there is a writer.
LEMMA ReaderAwaits ==
    ASSUME Inv, NEW r \in Readers, pc[r] = "out", writers # 0, readers' = readers + 1,
           pc' = [pc EXCEPT ![r] = "await"],
           UNCHANGED <<templates, writers, readersWait, lock, spinVars, seen, ahead>>
    PROVE  Inv'
<1> USE DEF templates, spinVars
<1>0. /\ pc'[r] = "await" /\ (\A q \in Readers : q # r => pc'[q] = pc[q])
      /\ (\A w \in Writers : pc'[w] = pc[w]) /\ pc' \in [Coroutines -> States]
  BY ReaderPc DEF States
<1>1. NAwait' = NAwait + 1 /\ NIn' = NIn /\ NLeaving' = NLeaving
  BY <1>0, ReaderMoves, Counts0 DEF At
<1>2. Spin' /\ Kinds' /\ OneLeader' /\ WritersExact' /\ WQueue'
  BY ReaderStep DEF States
<1>3. \A w \in Writers : /\ Inside(w)' <=> Inside(w)
                         /\ Picks(w)' <=> Picks(w)
                         /\ Counts(w)' <=> Counts(w)
                         /\ AwaitsReaders(w)' <=> AwaitsReaders(w)
                         /\ Leader(w)' <=> Leader(w)
  BY <1>0, WritersStay
<1>4. TypeOK'
  BY <1>0 DEF TypeOK
<1>5. Led'
  BY <1>3, SomeWriters DEF Led
<1>6. ReadersExact' /\ readers' # 0
  BY <1>1, Counts0, Lengths DEF ReadersExact, TypeOK
<1>7. RQueue'
  BY <1>0 DEF RQueue
<1>8. InsideState'
  BY <1>0, <1>1, <1>3, <1>6 DEF InsideState
<1>9. PickState'
  BY <1>1, <1>3, SomeWriters DEF PickState
<1>10. FirstState' /\ CountedState'
  <2>1. NAwait \in Nat /\ pass \in Nat
    BY Counts0 DEF TypeOK
  <2>2. pass <= NAwait => pass' <= NAwait'
    BY <1>1, <2>1
  <2> QED
    BY <1>1, <1>3, <2>2 DEF FirstState, CountedState
<1>11. PrioState' /\ OrderState'
  BY DEF PrioState, OrderState
<1> QED
  BY <1>2, <1>4, <1>5, <1>6, <1>7, <1>8, <1>9, <1>10, <1>11

\* The two ways to lock shared without waiting.
LEMMA TryLockSharedInv ==
    ASSUME Inv, NEW r \in Readers, TryLockSharedAwait(r) \/ TryLockShared(r)
    PROVE  Inv'
BY ReaderEnters, ReaderAwaits DEF TryLockSharedAwait, TryLockShared

\* A reader that has counted itself uses a pass.
LEMMA ReaderPasses ==
    ASSUME Inv, NEW r \in Readers, pc[r] = "await", lock = None, pass # 0, pass' = pass - 1,
           pc' = [pc EXCEPT ![r] = "cs"],
           UNCHANGED <<templates, stateWord, readersWait, lock, first, wqueue, prio, rqueue, seen, ahead>>
    PROVE  Inv'
<1> USE DEF templates, stateWord
<1>0. /\ pc'[r] = "cs" /\ (\A q \in Readers : q # r => pc'[q] = pc[q])
      /\ (\A w \in Writers : pc'[w] = pc[w]) /\ pc' \in [Coroutines -> States]
  BY ReaderPc DEF States
<1>1. NAwait' = NAwait - 1 /\ NIn' = NIn + 1 /\ NLeaving' = NLeaving
  BY <1>0, ReaderMoves, Counts0 DEF At
<1>2. Spin' /\ Kinds' /\ OneLeader' /\ WritersExact' /\ WQueue'
  BY ReaderStep DEF States
<1>3. \A w \in Writers : /\ Inside(w)' <=> Inside(w)
                         /\ Picks(w)' <=> Picks(w)
                         /\ Counts(w)' <=> Counts(w)
                         /\ AwaitsReaders(w)' <=> AwaitsReaders(w)
                         /\ Leader(w)' <=> Leader(w)
                         /\ Behind(w)' <=> Behind(w)
  BY <1>0, WritersStay
<1>a. pass \in Nat /\ NAwait \in Nat /\ NIn \in Nat /\ NLeaving \in Nat
  BY Counts0 DEF TypeOK
<1>4. TypeOK'
  BY <1>0, <1>a DEF TypeOK
<1>5. Led'
  BY <1>1, <1>3, <1>a DEF Led
<1>6. ReadersExact'
  BY <1>1, <1>a, Lengths DEF ReadersExact, TypeOK
<1>7. RQueue'
  BY <1>0 DEF RQueue
<1>8. \A w \in Writers : ~Inside(w) /\ ~Picks(w)
  BY DEF InsideState, PickState
<1>9. InsideState' /\ PickState'
  BY <1>3, <1>8 DEF InsideState, PickState
<1>10. ToLeave' = ToLeave /\ (pass <= NAwait => pass' <= NAwait')
  BY <1>1, <1>a
<1>11. FirstState' /\ CountedState'
  <2> HIDE DEF ToLeave
  <2> QED
    BY <1>3, <1>10 DEF FirstState, CountedState
<1>12. PrioState' /\ OrderState'
  BY DEF PrioState, OrderState
<1> QED
  BY <1>2, <1>4, <1>5, <1>6, <1>7, <1>9, <1>11, <1>12

\* A reader that has counted itself queues behind a writer.
LEMMA ReaderQueues ==
    ASSUME Inv, NEW r \in Readers, pc[r] = "await", lock = None, pass = 0,
           rqueue' = Append(rqueue, r) \/ rqueue' = <<r>> \o rqueue,
           pc' = [pc EXCEPT ![r] = "waiting"],
           UNCHANGED <<templates, stateWord, readersWait, lock, first, wqueue, prio, pass, seen, ahead>>
    PROVE  Inv'
<1> USE DEF templates, stateWord
<1>0. /\ pc'[r] = "waiting" /\ (\A q \in Readers : q # r => pc'[q] = pc[q])
      /\ (\A w \in Writers : pc'[w] = pc[w]) /\ pc' \in [Coroutines -> States]
  BY ReaderPc DEF States
<1>1. NAwait' = NAwait - 1 /\ NIn' = NIn /\ NLeaving' = NLeaving /\ NAwait # 0
  BY <1>0, ReaderMoves, Counts0 DEF At
<1>2. Spin' /\ Kinds' /\ OneLeader' /\ WritersExact' /\ WQueue'
  BY ReaderStep DEF States
<1>3. \A w \in Writers : /\ Inside(w)' <=> Inside(w)
                         /\ Picks(w)' <=> Picks(w)
                         /\ Counts(w)' <=> Counts(w)
                         /\ AwaitsReaders(w)' <=> AwaitsReaders(w)
                         /\ Leader(w)' <=> Leader(w)
  BY <1>0, WritersStay
<1>a. NAwait \in Nat /\ NIn \in Nat /\ NLeaving \in Nat /\ Len(rqueue) \in Nat
  BY Counts0, Lengths
<1>b. r \notin ToSet(rqueue)
  BY DEF RQueue
<1>c. /\ rqueue' \in Seq(Readers) /\ Len(rqueue') = Len(rqueue) + 1 /\ rqueue' # <<>>
      /\ ToSet(rqueue') = ToSet(rqueue) \cup {r} /\ IsInjective(rqueue')
  <2>0. rqueue \in Seq(Readers) /\ IsInjective(rqueue)
    BY DEF TypeOK, RQueue
  <2>1. CASE rqueue' = Append(rqueue, r)
    BY <1>b, <2>0, <2>1, ListAppend
  <2>2. CASE rqueue' = <<r>> \o rqueue
    <3>1. Len(<<r>> \o rqueue) = Len(rqueue) + 1
      BY <2>0
    <3> QED
      BY <1>b, <2>0, <2>2, <3>1, ListPush
  <2> QED
    BY <2>1, <2>2
<1>4. TypeOK'
  BY <1>0, <1>c DEF TypeOK
<1>5. Led'
  BY <1>1, <1>3 DEF Led
<1>6. ReadersExact'
  BY <1>1, <1>a, <1>c DEF ReadersExact
<1>7. RQueue'
  BY <1>0, <1>c DEF RQueue
<1>8. \A w \in Writers : ~Picks(w) /\ ~Counts(w)
  BY ConstantsAssumption DEF Spin, Picks, Counts
<1>9. PickState' /\ CountedState'
  BY <1>3, <1>8 DEF PickState, CountedState
<1>10. InsideState'
  BY <1>0, <1>1, <1>3 DEF InsideState
<1>11. FirstState'
  BY <1>1, <1>3, <1>a DEF FirstState
<1>12. PrioState'
  BY <1>c DEF PrioState
<1>13. OrderState'
  BY <1>c DEF OrderState
<1> QED
  BY <1>2, <1>4, <1>5, <1>6, <1>7, <1>9, <1>10, <1>11, <1>12, <1>13

\* AwaitLockShared.
LEMMA AwaitLockSharedInv ==
    ASSUME Inv, NEW r \in Readers, AwaitLockShared(r)
    PROVE  Inv'
BY ReaderPasses, ReaderQueues DEF AwaitLockShared, stateWord

\* The readers a leader waits for are not more than there are.
LEMMA ToLeaveType == ASSUME TypeOK PROVE ToLeave \in Nat
BY Counts0 DEF TypeOK

\* A reader leaves _state.
LEMMA UnlockHereSharedInv ==
    ASSUME Inv, NEW r \in Readers, UnlockHereShared(r)
    PROVE  Inv'
<1> USE DEF templates, spinVars
<1> DEFINE x == IF writers # 0 THEN "leaving" ELSE "out"
<1>z. /\ pc[r] = "cs" /\ readers' = readers - 1 /\ pc' = [pc EXCEPT ![r] = x]
      /\ UNCHANGED <<templates, writers, readersWait, lock, spinVars, seen, ahead>>
      /\ x \in {"leaving", "out"} /\ (x = "leaving" <=> writers # 0)
  BY DEF UnlockHereShared
<1> HIDE DEF x
<1>y. x \in States /\ x \notin {"counted", "slow", "pick"}
  BY <1>z DEF States
<1>0. /\ pc'[r] = x /\ (\A q \in Readers : q # r => pc'[q] = pc[q])
      /\ (\A w \in Writers : pc'[w] = pc[w]) /\ pc' \in [Coroutines -> States]
  BY <1>y, <1>z, ReaderPc
<1>1. /\ NAwait' = NAwait /\ NIn' = NIn - 1 /\ NIn # 0
      /\ NLeaving' = NLeaving + At(x, {"leaving"})
  BY <1>z, <1>0, ReaderMoves, Counts0 DEF At
<1>2. Spin' /\ Kinds' /\ OneLeader' /\ WritersExact' /\ WQueue'
  BY <1>y, <1>z, ReaderStep
<1>3. \A w \in Writers : /\ Inside(w)' <=> Inside(w)
                         /\ Picks(w)' <=> Picks(w)
                         /\ Counts(w)' <=> Counts(w)
                         /\ AwaitsReaders(w)' <=> AwaitsReaders(w)
                         /\ InState(w)' <=> InState(w)
                         /\ Leader(w)' <=> Leader(w)
                         /\ Behind(w)' <=> Behind(w)
  BY <1>z, <1>0, WritersStay
<1>a. pass \in Nat /\ NAwait \in Nat /\ NIn \in Nat /\ NLeaving \in Nat /\ Len(rqueue) \in Nat
  BY Counts0, Lengths DEF TypeOK
<1>b. ReadersExact' /\ readers' \in Nat
  BY <1>z, <1>1, <1>a DEF ReadersExact, TypeOK
<1>4. TypeOK'
  BY <1>z, <1>0, <1>b DEF TypeOK
<1>5. RQueue'
  BY <1>z, <1>0 DEF RQueue
<1>6. \A w \in Writers : ~Inside(w) /\ (Picks(w) => seen[w][1] = 1)
  BY <1>1 DEF InsideState, PickState
<1>7. PrioState' /\ OrderState'
  BY <1>z DEF PrioState, OrderState
<1>8. CASE writers = 0
  <2>1. NLeaving' = NLeaving
    BY <1>1, <1>8, <1>a, <1>z DEF At
  <2>2. Led'
    BY <1>z, <1>1, <1>3, <2>1 DEF Led
  <2>3. \A w \in Writers : ~InState(w)
    BY <1>8, NoWriters
  <2>4. InsideState' /\ FirstState' /\ CountedState'
    BY <1>3, <2>3 DEF InState, InsideState, FirstState, CountedState
  <2>5. PickState'
    BY <1>z, <1>1, <1>3, <1>6, <2>1 DEF PickState
  <2> QED
    BY <1>2, <1>4, <1>5, <1>7, <1>b, <2>2, <2>4, <2>5
<1>9. CASE writers # 0
  <2>1. NLeaving' = NLeaving + 1
    BY <1>1, <1>9, <1>z DEF At
  <2>2. \A w \in Writers : ~Picks(w)
    BY <1>6, <1>9, SomeWriters
  <2>3. Led'
    BY <1>3, <1>9, SomeWriters DEF Led
  <2>4. ToLeave' = ToLeave
    BY <1>1, <1>a, <1>z, <2>1
  <2>5. InsideState' /\ PickState'
    BY <1>3, <1>6, <2>2 DEF InsideState, PickState
  <2>6. FirstState' /\ CountedState'
    <3> HIDE DEF ToLeave
    <3> QED
      BY <1>z, <1>1, <1>3, <2>4 DEF FirstState, CountedState
  <2> QED
    BY <1>2, <1>4, <1>5, <1>7, <1>b, <2>3, <2>5, <2>6
<1> QED
  BY <1>8, <1>9

\* _readers_wait when readers leave before the writer has added them.
LEMMA Wraps ==
    ASSUME NEW W \in Nat, NEW left \in Nat, left + 1 < W
    PROVE  /\ (W - left) % W # 1
           /\ (((W - left) % W) + W - 1) % W = (W - (left + 1)) % W
<1>1. CASE left = 0
  <2>1. (W - left) % W = 0
    BY <1>1, ModSmall
  <2>2. (W - 1) % W = W - 1
    BY ModSmall
  <2> QED
    BY <1>1, <2>1, <2>2
<1>2. CASE left # 0
  <2> DEFINE a == W - left
  <2>1. a \in Nat /\ a < W /\ a > 1
    BY <1>2
  <2>2. a % W = a
    BY <2>1, ModSmall
  <2> DEFINE b == a + W - 1
  <2>3. b \in Nat /\ W <= b /\ b < W + W /\ W - (left + 1) \in Nat /\ W - (left + 1) < W
    BY <2>1
  <2>4. b % W = b - W
    BY <2>3, ModSmall
  <2>5. (W - (left + 1)) % W = W - (left + 1)
    BY <2>3, ModSmall
  <2> QED
    BY <2>1, <2>2, <2>4, <2>5
<1> QED
  BY <1>1, <1>2

\* While a reader is leaving, the leader waits for readers or is about to.
LEMMA LeavingLeader ==
    ASSUME Inv, NEW r \in Readers, pc[r] = "leaving"
    PROVE  /\ \E w \in Writers : Counts(w) \/ AwaitsReaders(w)
           /\ \A w \in Writers : ~Inside(w) /\ ~Picks(w)
           /\ \A w \in Writers : Counts(w) =>
                /\ readersWait # 1
                /\ (readersWait + Word - 1) % Word = (Word - (seen[w][2] - (ToLeave - 1))) % Word
           /\ \A w \in Writers : AwaitsReaders(w) =>
                (readersWait + Word - 1) % Word = readersWait - 1
           /\ NLeaving # 0 /\ Cardinality(Readers) \in Nat /\ Word > 0
<1>1. NLeaving # 0
  <2>1. Leaving # {} /\ Leaving \in SUBSET Readers
    BY DEF Leaving
  <2> QED
    BY <2>1, ReaderSets DEF NLeaving
<1>2. \A w \in Writers : ~Inside(w) /\ ~Picks(w)
  BY <1>1 DEF InsideState, PickState
<1>3. \E w \in Writers : Counts(w) \/ AwaitsReaders(w)
  BY <1>1, <1>2 DEF Led, Leader, InState
<1>4. Cardinality(Readers) \in Nat /\ Cardinality(Readers) >= 1
  <2>1. Readers \in SUBSET Readers /\ Readers # {}
    OBVIOUS
  <2> QED
    BY <2>1, ReaderSets
<1>5. ASSUME NEW w \in Writers, Counts(w)
      PROVE  /\ readersWait # 1
             /\ (readersWait + Word - 1) % Word = (Word - (seen[w][2] - (ToLeave - 1))) % Word
  <2> DEFINE left == seen[w][2] - ToLeave
  <2>1. seen[w][2] \in Nat
    BY DEF TypeOK, Coroutines
  <2>2. ToLeave \in Nat
    BY ToLeaveType
  <2>3. left \in Nat /\ left <= Cardinality(Readers) /\ readersWait = (Word - left) % Word
    <3> HIDE DEF ToLeave
    <3> QED
      BY <1>4, <1>5, <2>1, <2>2 DEF CountedState
  <2>4. Word \in Nat /\ left + 1 < Word
    BY <1>4, <2>3, ConstantsAssumption
  <2>5. seen[w][2] - (ToLeave - 1) = left + 1
    BY <2>1, <2>2
  <2> HIDE DEF left, ToLeave
  <2> QED
    BY <2>3, <2>4, <2>5, Wraps
<1>6. ASSUME NEW w \in Writers, AwaitsReaders(w)
      PROVE  (readersWait + Word - 1) % Word = readersWait - 1
  <2>1. readersWait \in Nat /\ readersWait < Word /\ readersWait # 0 /\ Word \in Nat
    BY <1>6, ConstantsAssumption DEF TypeOK, FirstState
  <2> DEFINE a == readersWait + Word - 1
  <2>2. a \in Nat /\ Word <= a /\ a < Word + Word
    BY <2>1
  <2>3. a % Word = a - Word
    BY <2>1, <2>2, ModSmall
  <2> QED
    BY <2>1, <2>3
<1> QED
  BY <1>1, <1>2, <1>3, <1>4, <1>5, <1>6, ConstantsAssumption

\* The reader that leaves last lets the first writer in.
LEMMA LastReaderGrants ==
    ASSUME Inv, NEW r \in Readers, LastReader(r), readersWait = 1
    PROVE  Inv'
<1> USE DEF templates, stateWord, spinVars
<1>a. PICK w \in Writers : AwaitsReaders(w)
  BY LeavingLeader DEF LastReader
<1>b. w = first /\ readersWait = ToLeave /\ pass <= NAwait
  BY <1>a DEF FirstState
<1>c. pass \in Nat /\ NAwait \in Nat /\ NIn \in Nat /\ NLeaving \in Nat
  BY Counts0 DEF TypeOK
<1>d. NLeaving = 1 /\ NIn = 0 /\ pass = 0
  BY <1>b, <1>c, LeavingLeader DEF LastReader
<1>z. /\ pc[r] = "leaving" /\ readersWait' = 0
      /\ pc' = [pc EXCEPT ![r] = "out", ![w] = "granted"]
      /\ UNCHANGED <<templates, stateWord, lock, spinVars, seen, ahead>>
  BY <1>a, <1>b, LeavingLeader DEF LastReader
<1>0. /\ pc'[r] = "out" /\ pc'[w] = "granted" /\ r # w
      /\ (\A q \in Readers : q # r => pc'[q] = pc[q])
      /\ (\A v \in Writers : v # w => pc'[v] = pc[v]) /\ pc' \in [Coroutines -> States]
  BY <1>z, ConstantsAssumption DEF TypeOK, Coroutines, States
<1>1. NAwait' = NAwait /\ NIn' = 0 /\ NLeaving' = 0
  <2>1. /\ NAwait' = NAwait + At("out", {"await"}) - At(pc[r], {"await"})
        /\ NIn' = NIn + At("out", {"cs", "granted"}) - At(pc[r], {"cs", "granted"})
        /\ NLeaving' = NLeaving + At("out", {"leaving"}) - At(pc[r], {"leaving"})
    BY <1>0, ReaderMoves
  <2> QED
    BY <1>z, <1>c, <1>d, <2>1 DEF At
<1>2. \A v \in Writers : v # w =>
         /\ Inside(v)' <=> Inside(v)
         /\ Picks(v)' <=> Picks(v)
         /\ Counts(v)' <=> Counts(v)
         /\ AwaitsReaders(v)' <=> AwaitsReaders(v)
         /\ InState(v)' <=> InState(v)
         /\ Leader(v)' <=> Leader(v)
         /\ Behind(v)' <=> Behind(v)
  BY <1>z, <1>0, OthersStay
<1>3. /\ InState(w) /\ Leader(w) /\ ~Behind(w)
      /\ Inside(w)' /\ InState(w)' /\ Leader(w)'
      /\ ~Picks(w)' /\ ~Counts(w)' /\ ~AwaitsReaders(w)' /\ ~Behind(w)'
  BY <1>a, <1>0 DEF Inside, Picks, Counts, AwaitsReaders, InState, Leader, Behind
<1>4. \A v \in Writers : v # w => ~Leader(v)'
  BY <1>2, <1>3 DEF OneLeader
<1>5. TypeOK'
  <2>1. 0 \in 0 .. Word - 1
    BY <1>z, LeavingLeader, ConstantsAssumption
  <2> QED
    BY <1>z, <1>0, <2>1 DEF TypeOK
<1>6. Spin'
  <2>1. pc[w] = "waiting" /\ pc'[w] = "granted"
    BY <1>a, <1>0 DEF AwaitsReaders
  <2> QED
    BY <1>z, <1>0, <2>1 DEF Spin
<1>7. Kinds'
  BY <1>0 DEF Kinds
<1>8. OneLeader' /\ Led'
  BY <1>3, <1>4 DEF OneLeader, Led
<1>9. WritersExact'
  <2>1. NLeading' = 1 /\ NLeading = 1
    BY <1>3 DEF NLeading
  <2>2. NBehind' = NBehind
    BY <1>2, <1>3 DEF NBehind
  <2> QED
    BY <1>z, <2>1, <2>2 DEF WritersExact
<1>10. ReadersExact'
  BY <1>z, <1>1, <1>d DEF ReadersExact
<1>11. RQueue'
  BY <1>z, <1>0 DEF RQueue
<1>12. WQueue'
  BY <1>z, <1>0, <1>a, Lengths DEF WQueue, AwaitsReaders
<1>13. InsideState'
  BY <1>z, <1>0, <1>1, <1>4, <1>d DEF InsideState, Leader, InState
<1>14. PickState' /\ FirstState' /\ CountedState'
  BY <1>3, <1>4 DEF PickState, FirstState, CountedState, Leader, InState
<1>15. PrioState' /\ OrderState'
  BY <1>z DEF PrioState, OrderState
<1> QED
  BY <1>5, <1>6, <1>7, <1>8, <1>9, <1>10, <1>11, <1>12, <1>13, <1>14, <1>15

\* Another reader leaves.
LEMMA ReaderLeaves ==
    ASSUME Inv, NEW r \in Readers, LastReader(r), readersWait # 1
    PROVE  Inv'
<1> USE DEF templates, stateWord, spinVars
<1>z. /\ pc[r] = "leaving" /\ readersWait' = (readersWait + Word - 1) % Word
      /\ pc' = [pc EXCEPT ![r] = "out"]
      /\ UNCHANGED <<templates, stateWord, lock, spinVars, seen, ahead>>
  BY DEF LastReader
<1>0. /\ pc'[r] = "out" /\ (\A q \in Readers : q # r => pc'[q] = pc[q])
      /\ (\A w \in Writers : pc'[w] = pc[w]) /\ pc' \in [Coroutines -> States]
  BY <1>z, ReaderPc DEF States
<1>1. NAwait' = NAwait /\ NIn' = NIn /\ NLeaving' = NLeaving - 1
  BY <1>z, <1>0, ReaderMoves, Counts0 DEF At
<1>2. Spin' /\ Kinds' /\ OneLeader' /\ WritersExact' /\ WQueue'
  BY <1>z, ReaderStep DEF States
<1>3. \A w \in Writers : /\ Inside(w)' <=> Inside(w)
                         /\ Picks(w)' <=> Picks(w)
                         /\ Counts(w)' <=> Counts(w)
                         /\ AwaitsReaders(w)' <=> AwaitsReaders(w)
                         /\ Leader(w)' <=> Leader(w)
  BY <1>z, <1>0, WritersStay
<1>a. /\ pass \in Nat /\ NAwait \in Nat /\ NIn \in Nat /\ NLeaving \in Nat /\ NLeaving # 0
      /\ readersWait \in Nat /\ Word \in Nat /\ Word > 0
  BY <1>z, Counts0, LeavingLeader, ConstantsAssumption DEF TypeOK
<1>b. ToLeave' = ToLeave - 1 /\ ToLeave \in Nat /\ ToLeave # 0
  BY <1>z, <1>1, <1>a
<1>4. TypeOK'
  <2>1. readersWait' \in 0 .. Word - 1
    BY <1>z, <1>a
  <2> QED
    BY <1>z, <1>0, <2>1 DEF TypeOK
<1>5. Led'
  BY <1>z, <1>3, LeavingLeader DEF Led, Leader, InState
<1>6. ReadersExact' /\ RQueue'
  BY <1>z, <1>0, <1>1 DEF ReadersExact, RQueue
<1>7. InsideState' /\ PickState'
  BY <1>z, <1>3, LeavingLeader DEF InsideState, PickState
<1>8. FirstState'
  <2> HIDE DEF ToLeave
  <2> SUFFICES ASSUME NEW w \in Writers, AwaitsReaders(w)
               PROVE  w = first' /\ readersWait' = ToLeave' /\ readersWait' # 0 /\ pass' <= NAwait'
    BY <1>3 DEF FirstState
  <2>1. readersWait' = readersWait - 1
    BY <1>z, LeavingLeader
  <2>2. w = first /\ readersWait = ToLeave /\ pass <= NAwait
    BY DEF FirstState
  <2> QED
    BY <1>z, <1>1, <1>a, <1>b, <2>1, <2>2
<1>9. CountedState'
  <2> HIDE DEF ToLeave
  <2> SUFFICES ASSUME NEW w \in Writers, Counts(w)
               PROVE  /\ seen'[w][2] <= Cardinality(Readers)
                      /\ ToLeave' <= seen'[w][2]
                      /\ readersWait' = (Word - (seen'[w][2] - ToLeave')) % Word
                      /\ pass' <= NAwait'
    BY <1>3 DEF CountedState
  <2>1. readersWait' = (Word - (seen[w][2] - (ToLeave - 1))) % Word
    BY <1>z, LeavingLeader
  <2>2. seen[w][2] <= Cardinality(Readers) /\ ToLeave <= seen[w][2] /\ pass <= NAwait
    BY DEF CountedState
  <2>3. seen[w][2] \in Nat
    BY DEF TypeOK, Coroutines
  <2> QED
    BY <1>z, <1>1, <1>b, <2>1, <2>2, <2>3
<1>10. PrioState' /\ OrderState'
  BY <1>z DEF PrioState, OrderState
<1> QED
  BY <1>2, <1>4, <1>5, <1>6, <1>7, <1>8, <1>9, <1>10

\* The executor resumes a reader.
LEMMA ResumeReaderInv ==
    ASSUME Inv, NEW r \in Readers, Resume(r)
    PROVE  Inv'
<1> USE DEF templates, stateWord, spinVars
<1>z. /\ pc[r] = "granted" /\ pc' = [pc EXCEPT ![r] = "cs"]
      /\ UNCHANGED <<templates, stateWord, readersWait, lock, spinVars, seen, ahead>>
  BY DEF Resume
<1>0. /\ pc'[r] = "cs" /\ (\A q \in Readers : q # r => pc'[q] = pc[q])
      /\ (\A w \in Writers : pc'[w] = pc[w]) /\ pc' \in [Coroutines -> States]
  BY <1>z, ReaderPc DEF States
<1>1. NAwait' = NAwait /\ NIn' = NIn /\ NLeaving' = NLeaving
  BY <1>z, <1>0, ReaderMoves, Counts0 DEF At
<1>2. Spin' /\ Kinds' /\ OneLeader' /\ WritersExact' /\ WQueue'
  BY <1>z, ReaderStep DEF States
<1>3. \A w \in Writers : /\ Inside(w)' <=> Inside(w)
                         /\ Picks(w)' <=> Picks(w)
                         /\ Counts(w)' <=> Counts(w)
                         /\ AwaitsReaders(w)' <=> AwaitsReaders(w)
                         /\ Leader(w)' <=> Leader(w)
                         /\ Behind(w)' <=> Behind(w)
  BY <1>z, <1>0, WritersStay
<1>4. TypeOK'
  BY <1>z, <1>0 DEF TypeOK
<1>5. Led' /\ ReadersExact' /\ RQueue'
  BY <1>z, <1>0, <1>1, <1>3 DEF Led, ReadersExact, RQueue
<1>6. InsideState' /\ PickState'
  BY <1>z, <1>0, <1>1, <1>3 DEF InsideState, PickState
<1>7. ToLeave' = ToLeave
  BY <1>z, <1>1
<1>8. FirstState' /\ CountedState'
  <2> HIDE DEF ToLeave
  <2> QED
    BY <1>z, <1>1, <1>3, <1>7 DEF FirstState, CountedState
<1>9. PrioState' /\ OrderState'
  BY <1>z DEF PrioState, OrderState
<1> QED
  BY <1>2, <1>4, <1>5, <1>6, <1>8, <1>9

\* Every step of a reader preserves Inv.
LEMMA ReadInv ==
    ASSUME Inv, NEW r \in Readers, Read(r) \/ Resume(r)
    PROVE  Inv'
BY TryLockSharedInv, AwaitLockSharedInv, UnlockHereSharedInv, LastReaderGrants, ReaderLeaves,
   ResumeReaderInv DEF Read

-----------------------------------------------------------------------------
(***************************************************************************)
(* Writers' steps preserve Inv.                                            *)
(***************************************************************************)

\* What a writer's step changes in pc.
LEMMA WriterPc ==
    ASSUME Inv, NEW w \in Writers, NEW x \in States, pc' = [pc EXCEPT ![w] = x]
    PROVE  /\ pc'[w] = x /\ (\A v \in Writers : v # w => pc'[v] = pc[v])
           /\ \A r \in Readers : pc'[r] = pc[r]
           /\ pc' \in [Coroutines -> States]
           /\ NAwait' = NAwait /\ NIn' = NIn /\ NLeaving' = NLeaving
           /\ {r \in Readers : pc[r] = "waiting"}' = {r \in Readers : pc[r] = "waiting"}
<1>1. /\ pc'[w] = x /\ (\A v \in Writers : v # w => pc'[v] = pc[v])
      /\ \A r \in Readers : pc'[r] = pc[r]
      /\ pc' \in [Coroutines -> States]
  BY ConstantsAssumption DEF TypeOK, Coroutines
<1> QED
  BY <1>1, ReadersStay

\* A writer takes the free mutex.
LEMMA TryLockAwaitInv ==
    ASSUME Inv, NEW w \in Writers, TryLockAwait(w)
    PROVE  Inv'
<1> USE DEF templates, spinVars
<1>z. /\ pc[w] = "out" /\ writers = 0 /\ readers = 0 /\ writers' = 1
      /\ pc' = [pc EXCEPT ![w] = "cs"]
      /\ UNCHANGED <<templates, readers, readersWait, lock, spinVars, seen, ahead>>
  BY DEF TryLockAwait
<1>0. /\ pc'[w] = "cs" /\ (\A v \in Writers : v # w => pc'[v] = pc[v])
      /\ (\A r \in Readers : pc'[r] = pc[r]) /\ pc' \in [Coroutines -> States]
      /\ NAwait' = NAwait /\ NIn' = NIn /\ NLeaving' = NLeaving
      /\ {r \in Readers : pc[r] = "waiting"}' = {r \in Readers : pc[r] = "waiting"}
  BY <1>z, WriterPc DEF States
<1>1. NAwait = 0 /\ Len(rqueue) = 0 /\ NIn = 0
  BY <1>z, Counts0, Lengths DEF ReadersExact
<1>2. \A v \in Writers : ~Leader(v) /\ ~Behind(v)
  <2>1. \A v \in Writers : ~Picks(v)
    BY <1>z, <1>1, NoWriters DEF PickState, Leader
  <2> QED
    BY <1>z, <2>1, NoWriters DEF Leader
<1>3. wqueue = <<>> /\ readersWait = 0 /\ NLeaving = 0 /\ pass = 0
  BY <1>1, <1>2 DEF Led
<1>4. \A v \in Writers : v # w => ~Leader(v)' /\ ~Behind(v)'
  BY <1>z, <1>0, <1>2, OthersStay
<1>5. /\ Inside(w)' /\ InState(w)' /\ Leader(w)'
      /\ ~Picks(w)' /\ ~Counts(w)' /\ ~AwaitsReaders(w)' /\ ~Behind(w)'
  BY <1>0 DEF Inside, Picks, Counts, AwaitsReaders, InState, Leader, Behind
<1>6. TypeOK'
  BY <1>z, <1>0 DEF TypeOK
<1>7. Spin' /\ Kinds'
  BY <1>z, <1>0 DEF Spin, Kinds
<1>8. OneLeader' /\ Led'
  BY <1>4, <1>5 DEF OneLeader, Led
<1>9. WritersExact'
  <2>1. NLeading' = 1
    BY <1>5 DEF NLeading
  <2>2. NBehind' = 0
    BY <1>4, <1>5 DEF NBehind
  <2>3. Len(wqueue') = 0
    BY <1>z, <1>3
  <2> QED
    BY <1>z, <2>1, <2>2, <2>3 DEF WritersExact
<1>10. ReadersExact' /\ RQueue'
  BY <1>z, <1>0 DEF ReadersExact, RQueue
<1>11. WQueue'
  BY <1>z, <1>3, ListEmpty DEF WQueue
<1>12. InsideState'
  BY <1>z, <1>0, <1>1, <1>3, <1>4 DEF InsideState, Leader, InState
<1>13. PickState' /\ FirstState' /\ CountedState'
  BY <1>4, <1>5 DEF PickState, FirstState, CountedState, Leader, InState
<1>14. PrioState' /\ OrderState'
  BY <1>z DEF PrioState, OrderState
<1> QED
  BY <1>6, <1>7, <1>8, <1>9, <1>10, <1>11, <1>12, <1>13, <1>14

\* A step of a writer that leaves its role, the lists and the counters alone.
LEMMA SameRole ==
    ASSUME Inv, NEW w \in Writers, NEW x \in States, pc' = [pc EXCEPT ![w] = x],
           UNCHANGED <<templates, stateWord, readersWait, lock, spinVars, seen, ahead>>,
           x # "leaving", x \notin {"counted", "pick"}, pc[w] \notin {"counted", "pick"},
           Inside(w)' <=> Inside(w), AwaitsReaders(w)' <=> AwaitsReaders(w),
           w \notin ToSet(wqueue), x = "slow" => writers # 1 \/ readers # 0
    PROVE  Inv'
<1> USE DEF templates, stateWord, spinVars
<1>0. /\ pc'[w] = x /\ (\A v \in Writers : v # w => pc'[v] = pc[v])
      /\ (\A r \in Readers : pc'[r] = pc[r]) /\ pc' \in [Coroutines -> States]
      /\ NAwait' = NAwait /\ NIn' = NIn /\ NLeaving' = NLeaving
      /\ {r \in Readers : pc[r] = "waiting"}' = {r \in Readers : pc[r] = "waiting"}
  BY WriterPc
<1>1. \A v \in Writers : /\ Inside(v)' <=> Inside(v)
                         /\ Picks(v)' <=> Picks(v)
                         /\ Counts(v)' <=> Counts(v)
                         /\ AwaitsReaders(v)' <=> AwaitsReaders(v)
                         /\ Behind(v)' <=> Behind(v)
  BY <1>0, OthersStay DEF Picks, Counts, Behind
<1>2. \A v \in Writers : (InState(v)' <=> InState(v)) /\ (Leader(v)' <=> Leader(v))
  BY <1>1 DEF InState, Leader
<1>3. TypeOK'
  BY <1>0 DEF TypeOK
<1>4. Spin' /\ Kinds'
  BY <1>0 DEF Spin, Kinds
<1>5. OneLeader' /\ Led'
  BY <1>0, <1>1, <1>2 DEF OneLeader, Led
<1>6. WritersExact'
  <2>1. NLeading' = NLeading /\ NBehind' = NBehind
    BY <1>1, <1>2 DEF NLeading, NBehind
  <2> QED
    BY <2>1 DEF WritersExact
<1>7. ReadersExact' /\ RQueue'
  BY <1>0 DEF ReadersExact, RQueue
<1>8. WQueue'
  BY <1>0, Lengths DEF WQueue
<1>9. InsideState' /\ PickState'
  BY <1>0, <1>1 DEF InsideState, PickState
<1>10. ToLeave' = ToLeave
  BY <1>0
<1>11. FirstState' /\ CountedState'
  <2> HIDE DEF ToLeave
  <2> QED
    BY <1>0, <1>1, <1>10 DEF FirstState, CountedState
<1>12. PrioState' /\ OrderState'
  BY DEF PrioState, OrderState
<1> QED
  BY <1>3, <1>4, <1>5, <1>6, <1>7, <1>8, <1>9, <1>11, <1>12

\* await_ready failed, or the executor resumes a writer.
LEMMA SuspendInv ==
    ASSUME Inv, NEW w \in Writers, Suspend(w) \/ Resume(w)
    PROVE  Inv'
<1>1. w \notin ToSet(wqueue)
  BY DEF Suspend, Resume, WQueue
<1>2. CASE Suspend(w)
  <2>1. pc'[w] = "await" /\ pc[w] = "out"
    BY <1>2, WriterPc DEF Suspend, States
  <2>2. (Inside(w)' <=> Inside(w)) /\ (AwaitsReaders(w)' <=> AwaitsReaders(w))
    BY <2>1 DEF Inside, AwaitsReaders
  <2> QED
    BY <1>1, <1>2, <2>1, <2>2, SameRole DEF Suspend, States
<1>3. CASE Resume(w)
  <2>1. pc'[w] = "cs" /\ pc[w] = "granted"
    BY <1>3, WriterPc DEF Resume, States
  <2>2. (Inside(w)' <=> Inside(w)) /\ (AwaitsReaders(w)' <=> AwaitsReaders(w))
    BY <2>1 DEF Inside, AwaitsReaders
  <2> QED
    BY <1>1, <1>3, <2>1, <2>2, SameRole DEF Resume, States
<1> QED
  BY <1>2, <1>3

\* Readers on the way and readers inside are different ones.
LEMMA CountedReaders == NAwait + NIn <= Cardinality(Readers)
<1>1. /\ OnTheWay \in SUBSET Readers /\ Entered \in SUBSET Readers
      /\ OnTheWay \cup Entered \in SUBSET Readers /\ OnTheWay \cap Entered = {}
  BY DEF OnTheWay, Entered
<1>2. IsFiniteSet(OnTheWay) /\ IsFiniteSet(Entered)
  BY <1>1, ReaderSets
<1>3. Cardinality(OnTheWay \cup Entered) =
        Cardinality(OnTheWay) + Cardinality(Entered) - Cardinality(OnTheWay \cap Entered)
  BY <1>2, FS_Union
<1>4. Cardinality(OnTheWay \cap Entered) = 0
  BY <1>1, FS_EmptySet
<1>5. Cardinality(OnTheWay \cup Entered) <= Cardinality(Readers)
  BY <1>1, ReaderSets
<1> QED
  BY <1>3, <1>4, <1>5, Counts0 DEF NAwait, NIn

\* A free spinlock: nobody is between the two steps.
LEMMA SpinFree ==
    ASSUME Inv, lock = None
    PROVE  \A v \in Writers : /\ pc[v] \notin {"counted", "pick"}
                              /\ ~Picks(v) /\ ~Counts(v) /\ ~Behind(v)
BY ConstantsAssumption DEF Spin, Picks, Counts, Behind

\* A writer counts itself.
LEMMA AwaitLockCountInv ==
    ASSUME Inv, NEW w \in Writers, AwaitLockCount(w)
    PROVE  Inv'
<1> USE DEF templates, spinVars
<1>z. /\ pc[w] = "await" /\ lock = None /\ lock' = w
      /\ seen' = [seen EXCEPT ![w] = <<writers, readers>>] /\ writers' = writers + 1
      /\ pc' = [pc EXCEPT ![w] = "counted"]
      /\ UNCHANGED <<templates, readers, readersWait, spinVars, ahead>>
  BY DEF AwaitLockCount
<1>0. /\ pc'[w] = "counted" /\ (\A v \in Writers : v # w => pc'[v] = pc[v])
      /\ (\A r \in Readers : pc'[r] = pc[r]) /\ pc' \in [Coroutines -> States]
      /\ NAwait' = NAwait /\ NIn' = NIn /\ NLeaving' = NLeaving
      /\ {r \in Readers : pc[r] = "waiting"}' = {r \in Readers : pc[r] = "waiting"}
  BY <1>z, WriterPc DEF States
<1>1. /\ seen'[w] = <<writers, readers>> /\ (\A v \in Writers : v # w => seen'[v] = seen[v])
      /\ seen'[w][1] = writers /\ seen'[w][2] = readers
      /\ seen' \in [Coroutines -> Nat \X Nat] /\ writers \in Nat /\ readers \in Nat
  BY <1>z DEF TypeOK, Coroutines
<1>2. \A v \in Writers : v # w =>
         /\ Inside(v)' <=> Inside(v)
         /\ Picks(v)' <=> Picks(v)
         /\ Counts(v)' <=> Counts(v)
         /\ AwaitsReaders(v)' <=> AwaitsReaders(v)
         /\ InState(v)' <=> InState(v)
         /\ Leader(v)' <=> Leader(v)
         /\ Behind(v)' <=> Behind(v)
  BY <1>z, <1>0, <1>1, OthersStay
<1>3. /\ ~Leader(w) /\ ~InState(w) /\ ~Inside(w)' /\ ~Picks(w)' /\ ~AwaitsReaders(w)'
      /\ Counts(w)' <=> writers = 0
      /\ Behind(w)' <=> writers # 0
      /\ InState(w)' <=> writers = 0
      /\ Leader(w)' <=> writers = 0
  BY <1>z, <1>0, <1>1 DEF Inside, Picks, Counts, AwaitsReaders, InState, Leader, Behind
<1>4. \A v \in Writers : /\ pc[v] \notin {"counted", "pick"}
                         /\ ~Picks(v) /\ ~Counts(v) /\ ~Behind(v)
  BY <1>z, SpinFree
<1>5. TypeOK'
  BY <1>z, <1>0, <1>1 DEF TypeOK
<1>6. Spin' /\ Kinds'
  BY <1>z, <1>0, <1>4 DEF Spin, Kinds
<1>7. ReadersExact' /\ RQueue'
  BY <1>z, <1>0 DEF ReadersExact, RQueue
<1>8. WQueue'
  BY <1>z, <1>0, Lengths DEF WQueue
<1>9. PickState'
  BY <1>2, <1>3, <1>4 DEF PickState
<1>10. PrioState' /\ OrderState'
  BY <1>z DEF PrioState, OrderState
<1>11. CASE writers = 0
  <2>1. \A v \in Writers : ~Leader(v) /\ ~Behind(v)
    BY <1>4, <1>11, NoWriters
  <2>2. wqueue = <<>> /\ rqueue = <<>> /\ readersWait = 0 /\ NLeaving = 0 /\ pass = NAwait
    BY <2>1 DEF Led
  <2>3. OneLeader' /\ Led'
    BY <1>2, <1>3, <1>11, <2>1 DEF OneLeader, Led
  <2>4. WritersExact'
    <3>1. NLeading' = 1
      BY <1>3, <1>11 DEF NLeading
    <3>2. NBehind' = 0
      BY <1>2, <1>3, <1>11, <2>1 DEF NBehind
    <3>3. Len(wqueue') = 0
      BY <1>z, <2>2
    <3> QED
      BY <1>z, <1>11, <3>1, <3>2, <3>3 DEF WritersExact
  <2>5. InsideState' /\ FirstState'
    BY <1>2, <1>3, <2>1 DEF InsideState, FirstState, Leader, InState
  <2>6. readers = NAwait + NIn
    BY <2>2, Counts0, Lengths DEF ReadersExact
  <2>7. CountedState'
    <3>1. Word \in Nat /\ Word > 0 /\ Cardinality(Readers) \in Nat
      BY ConstantsAssumption, FS_CardinalityType
    <3>2. Word % Word = 0
      BY <3>1, ModSmall
    <3>3. ToLeave' = readers /\ readers <= Cardinality(Readers) /\ pass' <= NAwait'
      BY <1>z, <1>0, <2>2, <2>6, Counts0, CountedReaders
    <3>4. readersWait' = (Word - (readers - ToLeave')) % Word
      BY <1>z, <1>1, <2>2, <3>1, <3>2, <3>3
    <3> HIDE DEF ToLeave
    <3>5. \A v \in Writers : v # w => ~Counts(v)'
      BY <1>2, <1>4
    <3> QED
      BY <1>1, <3>3, <3>4, <3>5 DEF CountedState
  <2> QED
    BY <1>5, <1>6, <1>7, <1>8, <1>9, <1>10, <2>3, <2>4, <2>5, <2>7
<1>12. CASE writers # 0
  <2>1. OneLeader'
    BY <1>2, <1>3, <1>12 DEF OneLeader
  <2>2. Led'
    BY <1>2, <1>3, <1>12, SomeWriters DEF Led
  <2>3. WritersExact'
    <3>1. NLeading' = NLeading
      BY <1>2, <1>3, <1>12 DEF NLeading
    <3>2. NBehind' = 1
      BY <1>3, <1>12 DEF NBehind
    <3>3. NBehind = 0
      BY <1>4 DEF NBehind
    <3> QED
      BY <1>z, <1>1, <3>1, <3>2, <3>3, Lengths DEF WritersExact
  <2>4. InsideState'
    BY <1>z, <1>0, <1>1, <1>2, <1>3, <1>12 DEF InsideState
  <2>5. ToLeave' = ToLeave
    BY <1>z, <1>0
  <2>6. FirstState' /\ CountedState'
    <3> HIDE DEF ToLeave
    <3> QED
      BY <1>z, <1>0, <1>2, <1>3, <1>4, <1>12, <2>5 DEF FirstState, CountedState
  <2> QED
    BY <1>5, <1>6, <1>7, <1>8, <1>9, <1>10, <2>1, <2>2, <2>3, <2>4, <2>6
<1> QED
  BY <1>11, <1>12

\* What AwaitLock makes of _readers_wait.
LEMMA AddsReaders ==
    ASSUME NEW W \in Nat, NEW r \in Nat, NEW t \in Nat, NEW rw \in Nat, t <= r, r < W,
           rw = (W - (r - t)) % W
    PROVE  /\ (rw + r) % W = t
           /\ r # 0 /\ rw # (W - r) % W <=> t # 0
<1>0. W > 0
  OBVIOUS
<1>1. CASE r = t
  <2>1. rw = 0
    BY <1>0, <1>1, ModSmall
  <2>2. r % W = r
    BY <1>0, ModSmall
  <2>3. r # 0 => (W - r) % W = W - r
    BY <1>0, ModSmall
  <2> QED
    BY <1>1, <2>1, <2>2, <2>3
<1>2. CASE r # t
  <2> DEFINE a == W - (r - t)
             b == W + t
  <2>1. a \in Nat /\ a < W /\ b \in Nat /\ W <= b /\ b < W + W /\ W - r \in Nat /\ r # 0 /\ W - r < W
    BY <1>2
  <2>2. rw = a
    BY <1>0, <2>1, ModSmall
  <2>3. b % W = t
    BY <1>0, <2>1, ModSmall
  <2>4. (W - r) % W = W - r
    BY <1>0, <2>1, ModSmall
  <2>5. rw + r = b
    BY <2>2
  <2> QED
    BY <1>2, <2>1, <2>2, <2>3, <2>4, <2>5
<1> QED
  BY <1>1, <1>2

\* The writer that found no other waits for the readers inside, or enters.
LEMMA AwaitReadersInv ==
    ASSUME Inv, NEW w \in Writers, AwaitLockQueue(w), seen[w][1] = 0
    PROVE  Inv'
<1> USE DEF templates, stateWord
<1> DEFINE r == seen[w][2]
           x == IF r # 0 /\ readersWait # (Word - r) % Word THEN "waiting" ELSE "cs"
<1>z. /\ pc[w] = "counted" /\ lock' = None /\ seen' = [seen EXCEPT ![w] = <<0, 0>>]
      /\ first' = w /\ readersWait' = (readersWait + r) % Word
      /\ pc' = [pc EXCEPT ![w] = x]
      /\ UNCHANGED <<templates, stateWord, rqueue, pass, wqueue, prio, ahead>>
  BY DEF AwaitLockQueue, AwaitReaders
<1>a. Counts(w) /\ Leader(w) /\ InState(w) /\ lock = w
  BY <1>z DEF Counts, Leader, InState, Spin
<1>b. ToLeave \in Nat
  BY ToLeaveType
<1>c. r \in Nat
  BY DEF TypeOK, Coroutines
<1>d. readersWait' = ToLeave /\ (x = "waiting" <=> ToLeave # 0) /\ x \in {"waiting", "cs"}
      /\ ToLeave < Word /\ pass <= NAwait
  <2>1. /\ r <= Cardinality(Readers) /\ ToLeave <= r /\ pass <= NAwait
        /\ readersWait = (Word - (r - ToLeave)) % Word
    BY <1>a DEF CountedState
  <2>2. Word \in Nat /\ Cardinality(Readers) \in Nat /\ r < Word
    BY <1>c, <2>1, ConstantsAssumption, FS_CardinalityType
  <2> DEFINE t == ToLeave
  <2>3. t \in Nat /\ t <= r /\ readersWait = (Word - (r - t)) % Word
    BY <1>b, <2>1
  <2>a. readersWait \in Nat
    BY <2>2 DEF TypeOK
  <2> HIDE DEF t, r
  <2>4. (readersWait + r) % Word = t /\ (r # 0 /\ readersWait # (Word - r) % Word <=> t # 0)
    BY <1>c, <2>2, <2>3, <2>a, AddsReaders
  <2> USE DEF t
  <2> QED
    BY <1>z, <1>c, <2>1, <2>2, <2>3, <2>4
<1> HIDE DEF r, x
<1>0. /\ pc'[w] = x /\ (\A v \in Writers : v # w => pc'[v] = pc[v])
      /\ (\A q \in Readers : pc'[q] = pc[q]) /\ pc' \in [Coroutines -> States]
      /\ NAwait' = NAwait /\ NIn' = NIn /\ NLeaving' = NLeaving
      /\ {q \in Readers : pc[q] = "waiting"}' = {q \in Readers : pc[q] = "waiting"}
  BY <1>z, <1>d, WriterPc DEF States
<1>1. /\ (\A v \in Writers : v # w => seen'[v] = seen[v])
      /\ seen' \in [Coroutines -> Nat \X Nat]
  BY <1>z DEF TypeOK, Coroutines
<1>2. \A v \in Writers : v # w =>
         /\ Inside(v)' <=> Inside(v)
         /\ Picks(v)' <=> Picks(v)
         /\ Counts(v)' <=> Counts(v)
         /\ AwaitsReaders(v)' <=> AwaitsReaders(v)
         /\ InState(v)' <=> InState(v)
         /\ Leader(v)' <=> Leader(v)
         /\ Behind(v)' <=> Behind(v)
  BY <1>z, <1>0, <1>1, OthersStay
<1>3. w \notin ToSet(wqueue)
  BY <1>z DEF WQueue
<1>4. /\ (Inside(w)' <=> x = "cs") /\ (AwaitsReaders(w)' <=> x = "waiting")
      /\ ~Picks(w)' /\ ~Counts(w)' /\ ~Behind(w)' /\ InState(w)' /\ Leader(w)'
  BY <1>z, <1>0, <1>3, <1>d DEF Inside, Picks, Counts, AwaitsReaders, InState, Leader, Behind
<1>5. \A v \in Writers : v # w => ~Leader(v) /\ ~Leader(v)'
  BY <1>2, <1>a DEF OneLeader
<1>6. TypeOK'
  <2>1. readersWait' \in 0 .. Word - 1
    BY <1>b, <1>d, ConstantsAssumption
  <2> QED
    BY <1>z, <1>0, <1>1, <2>1 DEF TypeOK
<1>7. Spin'
  <2>1. \A v \in Writers : v # w => pc'[v] \notin {"counted", "pick"}
    BY <1>0, <1>a DEF Spin
  <2>2. pc'[w] \notin {"counted", "pick"}
    BY <1>0, <1>d
  <2> QED
    BY <1>z, <2>1, <2>2, ConstantsAssumption DEF Spin
<1>8. Kinds'
  BY <1>0, <1>d DEF Kinds
<1>9. OneLeader' /\ Led'
  BY <1>4, <1>5 DEF OneLeader, Led
<1>10. WritersExact'
  <2>1. NLeading' = 1 /\ NLeading = 1
    BY <1>4, <1>a DEF NLeading
  <2>2. NBehind' = NBehind
    BY <1>2, <1>4, <1>a, Roles DEF NBehind
  <2> QED
    BY <1>z, <2>1, <2>2 DEF WritersExact
<1>11. ReadersExact' /\ RQueue'
  BY <1>z, <1>0 DEF ReadersExact, RQueue
<1>12. WQueue'
  BY <1>z, <1>0, <1>3, Lengths DEF WQueue
<1>e. ToLeave' = ToLeave
  BY <1>z, <1>0
<1>13. InsideState'
  <2> SUFFICES ASSUME NEW v \in Writers, Inside(v)'
               PROVE  /\ NIn' = 0 /\ NLeaving' = 0 /\ pass' = 0 /\ readersWait' = 0
                      /\ pc'[v] = "slow" => writers' # 1 \/ readers' # 0
    BY DEF InsideState
  <2>1. v = w /\ x = "cs"
    BY <1>4, <1>5 DEF Leader, InState
  <2>2. ToLeave = 0 /\ readersWait' = 0
    BY <1>d, <2>1
  <2>3. NIn = 0 /\ NLeaving = 0 /\ pass = 0
    BY <2>2, Counts0 DEF TypeOK
  <2> QED
    BY <1>z, <1>0, <2>1, <2>2, <2>3
<1>14. PickState' /\ CountedState'
  BY <1>4, <1>5 DEF PickState, CountedState, Leader, InState
<1>15. FirstState'
  <2> HIDE DEF ToLeave
  <2> QED
    BY <1>z, <1>0, <1>4, <1>5, <1>d, <1>e DEF FirstState, Leader, InState
<1>16. PrioState' /\ OrderState'
  BY <1>z DEF PrioState, OrderState
<1> QED
  BY <1>6, <1>7, <1>8, <1>9, <1>10, <1>11, <1>12, <1>13, <1>14, <1>15, <1>16

\* The others queue behind the leader.
LEMMA QueueWriterInv ==
    ASSUME Inv, NEW w \in Writers, AwaitLockQueue(w), seen[w][1] # 0
    PROVE  Inv'
<1> USE DEF templates, stateWord
<1>z. /\ pc[w] = "counted" /\ lock' = None /\ seen' = [seen EXCEPT ![w] = <<0, 0>>]
      /\ wqueue' = Append(wqueue, w)
      /\ prio' = IF fifo /\ rqueue = <<>> THEN prio + 1 ELSE prio
      /\ ahead' = [ahead EXCEPT ![w] = ToSet(rqueue)]
      /\ pc' = [pc EXCEPT ![w] = "waiting"]
      /\ UNCHANGED <<templates, stateWord, rqueue, pass, first, readersWait>>
  BY DEF AwaitLockQueue, QueueWriter
<1>a. Behind(w) /\ ~InState(w) /\ ~Leader(w) /\ lock = w
  BY <1>z, Roles DEF Behind, Spin, Leader
<1>b. w \notin ToSet(wqueue)
  BY <1>z DEF WQueue
<1>c. /\ wqueue' \in Seq(Writers) /\ Len(wqueue') = Len(wqueue) + 1
      /\ ToSet(wqueue') = ToSet(wqueue) \cup {w} /\ IsInjective(wqueue')
  BY <1>z, <1>b, ListAppend DEF TypeOK, WQueue
<1>0. /\ pc'[w] = "waiting" /\ (\A v \in Writers : v # w => pc'[v] = pc[v])
      /\ (\A q \in Readers : pc'[q] = pc[q]) /\ pc' \in [Coroutines -> States]
      /\ NAwait' = NAwait /\ NIn' = NIn /\ NLeaving' = NLeaving
      /\ {q \in Readers : pc[q] = "waiting"}' = {q \in Readers : pc[q] = "waiting"}
  BY <1>z, WriterPc DEF States
<1>1. /\ (\A v \in Writers : v # w => seen'[v] = seen[v])
      /\ seen' \in [Coroutines -> Nat \X Nat]
  BY <1>z DEF TypeOK, Coroutines
<1>2. \A v \in Writers : v # w =>
         /\ Inside(v)' <=> Inside(v)
         /\ Picks(v)' <=> Picks(v)
         /\ Counts(v)' <=> Counts(v)
         /\ AwaitsReaders(v)' <=> AwaitsReaders(v)
         /\ InState(v)' <=> InState(v)
         /\ Leader(v)' <=> Leader(v)
         /\ Behind(v)' <=> Behind(v)
  BY <1>0, <1>1, <1>c, OthersStay
<1>3. /\ ~Inside(w)' /\ ~AwaitsReaders(w)' /\ ~Picks(w)' /\ ~Counts(w)' /\ ~Behind(w)'
      /\ ~InState(w)' /\ ~Leader(w)'
  BY <1>0, <1>c DEF Inside, Picks, Counts, AwaitsReaders, InState, Leader, Behind
<1>4. \A v \in Writers : v # w => pc[v] \notin {"counted", "pick"}
  BY <1>a DEF Spin
<1>d. Len(wqueue) \in Nat /\ prio \in Nat /\ (rqueue = <<>> => ToSet(rqueue) = {}) /\ ToSet(rqueue) \subseteq Readers
  BY Lengths, ListEmpty DEF TypeOK
<1>5. TypeOK'
  BY <1>z, <1>0, <1>1, <1>c, <1>d DEF TypeOK
<1>6. Spin'
  <2>1. \A v \in Writers : pc'[v] \notin {"counted", "pick"}
    BY <1>0, <1>4
  <2> QED
    BY <1>z, <2>1, ConstantsAssumption DEF Spin
<1>7. Kinds'
  BY <1>0 DEF Kinds
<1>8. OneLeader'
  BY <1>2, <1>3 DEF OneLeader
<1>9. Led'
  <2>1. \E v \in Writers : Leader(v)
    BY <1>a DEF Led
  <2> QED
    BY <1>2, <1>a, <2>1 DEF Led
<1>10. WritersExact'
  <2>1. NLeading' = NLeading
    BY <1>2, <1>3, <1>a DEF NLeading
  <2>2. NBehind = 1
    BY <1>a DEF NBehind
  <2>3. \A v \in Writers : ~Behind(v)'
    BY <1>2, <1>3, <1>4 DEF Behind
  <2>4. NBehind' = 0
    BY <2>3 DEF NBehind
  <2> QED
    BY <1>z, <1>c, <1>d, <2>1, <2>2, <2>4, Lengths DEF WritersExact
<1>11. ReadersExact' /\ RQueue'
  BY <1>z, <1>0 DEF ReadersExact, RQueue
<1>12. WQueue'
  BY <1>0, <1>c, Lengths DEF WQueue
<1>13. InsideState'
  BY <1>z, <1>0, <1>2, <1>3 DEF InsideState
<1>14. PickState' /\ CountedState'
  BY <1>2, <1>3, <1>4 DEF PickState, CountedState, Picks, Counts
<1>e. ToLeave' = ToLeave
  BY <1>z, <1>0
<1>15. FirstState'
  <2> HIDE DEF ToLeave
  <2> QED
    BY <1>z, <1>0, <1>2, <1>3, <1>e DEF FirstState
<1>16. PrioState'
  BY <1>z, <1>c, <1>d DEF PrioState
<1>17. OrderState'
  <2> SUFFICES ASSUME fifo
               PROVE  /\ \A v \in Writers : v \notin ToSet(wqueue') => ahead'[v] = {}
                      /\ \A v \in Writers : ahead'[v] \subseteq ToSet(rqueue')
                      /\ \A i \in 1 .. prio' : ahead'[wqueue'[i]] = {}
    BY <1>z DEF OrderState
  <2>1. ahead'[w] = ToSet(rqueue) /\ \A v \in Writers : v # w => ahead'[v] = ahead[v]
    BY <1>z DEF TypeOK
  <2>2. \A v \in Writers : v \notin ToSet(wqueue') => ahead'[v] = {}
    BY <1>c, <2>1 DEF OrderState
  <2>3. \A v \in Writers : ahead'[v] \subseteq ToSet(rqueue')
    BY <1>z, <2>1 DEF OrderState
  <2>4. ASSUME NEW i \in 1 .. prio' PROVE ahead'[wqueue'[i]] = {}
    <3>1. /\ \A k \in 1 .. Len(wqueue) : wqueue'[k] = wqueue[k] /\ wqueue[k] \in Writers /\ wqueue[k] # w
          /\ wqueue'[Len(wqueue) + 1] = w
      <4>1. \A k \in 1 .. Len(wqueue) : wqueue[k] \in ToSet(wqueue) /\ wqueue[k] \in Writers
        BY ListElements DEF TypeOK
      <4> QED
        BY <1>z, <1>b, <4>1, AppendProperties DEF TypeOK
    <3>2. prio <= Len(wqueue)
      BY DEF PrioState
    <3>3. CASE i <= prio
      <4>1. i \in 1 .. prio /\ i \in 1 .. Len(wqueue)
        BY <1>d, <2>4, <3>2, <3>3
      <4> QED
        BY <2>1, <3>1, <4>1 DEF OrderState
    <3>4. CASE ~(i <= prio)
      <4>1. rqueue = <<>> /\ i = prio + 1
        BY <1>z, <1>d, <2>4, <3>4
      <4>2. prio = Len(wqueue)
        BY <4>1 DEF PrioState
      <4> QED
        BY <1>d, <2>1, <3>1, <4>1, <4>2
    <3> QED
      BY <3>3, <3>4
  <2> QED
    BY <2>2, <2>3, <2>4
<1> QED
  BY <1>5, <1>6, <1>7, <1>8, <1>9, <1>10, <1>11, <1>12, <1>13, <1>14, <1>15, <1>16, <1>17

\* A writer leaves: at once when it is the only one, slowly otherwise.
LEMMA UnlockHereInv ==
    ASSUME Inv, NEW w \in Writers, UnlockHere(w)
    PROVE  Inv'
<1> USE DEF templates, stateWord, spinVars
<1>a. pc[w] = "cs" /\ Inside(w) /\ InState(w) /\ Leader(w) /\ w \notin ToSet(wqueue)
  BY DEF UnlockHere, Inside, InState, Leader, WQueue
<1>1. CASE writers = 1 /\ readers = 0
  <2>z. /\ writers' = 0 /\ pc' = [pc EXCEPT ![w] = "out"]
        /\ UNCHANGED <<templates, readers, readersWait, lock, spinVars, seen, ahead>>
    BY <1>1 DEF UnlockHere
  <2>0. /\ pc'[w] = "out" /\ (\A v \in Writers : v # w => pc'[v] = pc[v])
        /\ (\A r \in Readers : pc'[r] = pc[r]) /\ pc' \in [Coroutines -> States]
        /\ NAwait' = NAwait /\ NIn' = NIn /\ NLeaving' = NLeaving
        /\ {r \in Readers : pc[r] = "waiting"}' = {r \in Readers : pc[r] = "waiting"}
    BY <2>z, WriterPc DEF States
  <2>1. NLeading = 1
    BY <1>a DEF NLeading
  <2>2. Len(wqueue) = 0 /\ NBehind = 0 /\ NAwait = 0 /\ Len(rqueue) = 0
    BY <1>1, <2>1, Lengths, Counts0 DEF WritersExact, ReadersExact
  <2>3. wqueue = <<>> /\ rqueue = <<>> /\ \A v \in Writers : ~Behind(v)
    BY <2>2, Lengths
  <2>4. NLeaving = 0 /\ pass = 0 /\ readersWait = 0
    BY <1>a DEF InsideState
  <2>5. \A v \in Writers : ~Leader(v)' /\ ~Behind(v)'
    <3>1. \A v \in Writers : v # w => ~Leader(v)' /\ ~Behind(v)'
      BY <1>a, <2>z, <2>0, <2>3, OthersStay DEF OneLeader
    <3>2. ~Leader(w)' /\ ~Behind(w)'
      BY <2>0 DEF Leader, InState, Inside, Counts, AwaitsReaders, Picks, Behind
    <3> QED
      BY <3>1, <3>2
  <2>6. TypeOK'
    BY <2>z, <2>0 DEF TypeOK
  <2>7. Spin' /\ Kinds'
    BY <1>a, <2>z, <2>0 DEF Spin, Kinds
  <2>8. OneLeader' /\ Led'
    BY <2>z, <2>0, <2>2, <2>3, <2>4, <2>5 DEF OneLeader, Led
  <2>9. WritersExact'
    <3>1. NLeading' = 0
      BY <2>5 DEF NLeading, Leader
    <3>2. NBehind' = 0
      BY <2>5 DEF NBehind
    <3> QED
      BY <2>z, <2>2, <3>1, <3>2 DEF WritersExact
  <2>10. ReadersExact' /\ RQueue'
    BY <2>z, <2>0 DEF ReadersExact, RQueue
  <2>11. WQueue'
    BY <1>a, <2>z, <2>0, Lengths DEF WQueue
  <2>12. InsideState' /\ PickState' /\ FirstState' /\ CountedState'
    BY <2>5 DEF InsideState, PickState, FirstState, CountedState, Leader, InState
  <2>13. PrioState' /\ OrderState'
    BY <2>z DEF PrioState, OrderState
  <2> QED
    BY <2>6, <2>7, <2>8, <2>9, <2>10, <2>11, <2>12, <2>13
<1>2. CASE ~(writers = 1 /\ readers = 0)
  <2>1. pc' = [pc EXCEPT ![w] = "slow"]
        /\ UNCHANGED <<templates, stateWord, readersWait, lock, spinVars, seen, ahead>>
    BY <1>2 DEF UnlockHere
  <2>2. pc'[w] = "slow"
    BY <2>1, WriterPc DEF States
  <2>3. (Inside(w)' <=> Inside(w)) /\ (AwaitsReaders(w)' <=> AwaitsReaders(w))
    BY <1>a, <2>2 DEF Inside, AwaitsReaders
  <2> QED
    BY <1>2, <1>a, <2>1, <2>3, SameRole DEF States
<1> QED
  BY <1>1, <1>2

\* The unlocking writer takes the spinlock and subtracts itself.
LEMMA SlowUnlockInv ==
    ASSUME Inv, NEW w \in Writers, SlowUnlock(w)
    PROVE  Inv'
<1> USE DEF templates, spinVars
<1>z. /\ pc[w] = "slow" /\ lock = None /\ lock' = w
      /\ seen' = [seen EXCEPT ![w] = <<writers, readers>>] /\ writers' = writers - 1
      /\ pc' = [pc EXCEPT ![w] = "pick"]
      /\ UNCHANGED <<templates, readers, readersWait, spinVars, ahead>>
  BY DEF SlowUnlock
<1>a. Inside(w) /\ InState(w) /\ Leader(w) /\ w \notin ToSet(wqueue)
  BY <1>z DEF Inside, InState, Leader, WQueue
<1>b. \A v \in Writers : /\ pc[v] \notin {"counted", "pick"}
                         /\ ~Picks(v) /\ ~Counts(v) /\ ~Behind(v)
  BY <1>z, SpinFree
<1>0. /\ pc'[w] = "pick" /\ (\A v \in Writers : v # w => pc'[v] = pc[v])
      /\ (\A r \in Readers : pc'[r] = pc[r]) /\ pc' \in [Coroutines -> States]
      /\ NAwait' = NAwait /\ NIn' = NIn /\ NLeaving' = NLeaving
      /\ {r \in Readers : pc[r] = "waiting"}' = {r \in Readers : pc[r] = "waiting"}
  BY <1>z, WriterPc DEF States
<1>1. /\ (\A v \in Writers : v # w => seen'[v] = seen[v])
      /\ seen'[w][1] = writers /\ seen'[w][2] = readers
      /\ seen' \in [Coroutines -> Nat \X Nat] /\ writers \in Nat /\ readers \in Nat
  BY <1>z DEF TypeOK, Coroutines
<1>2. \A v \in Writers : v # w => ~Leader(v)' /\ ~Behind(v)'
  BY <1>a, <1>b, <1>z, <1>0, <1>1, OthersStay DEF OneLeader
<1>3. /\ ~Inside(w)' /\ ~AwaitsReaders(w)' /\ ~Counts(w)' /\ ~Behind(w)'
      /\ ~InState(w)' /\ Picks(w)' /\ Leader(w)'
  BY <1>0 DEF Inside, Picks, Counts, AwaitsReaders, InState, Leader, Behind
<1>4. NLeading = 1
  BY <1>a DEF NLeading
<1>5. NBehind = 0
  BY <1>b DEF NBehind
<1>6. writers = Len(wqueue) + 1 /\ Len(wqueue) \in Nat
  BY <1>4, <1>5, Lengths DEF WritersExact
<1>7. TypeOK'
  <2>1. writers' \in Nat
    BY <1>z, <1>6
  <2> QED
    BY <1>z, <1>0, <1>1, <2>1 DEF TypeOK
<1>8. Spin' /\ Kinds'
  BY <1>z, <1>0, <1>b DEF Spin, Kinds
<1>9. OneLeader' /\ Led'
  BY <1>2, <1>3 DEF OneLeader, Led
<1>10. WritersExact'
  <2>1. NLeading' = 0
    BY <1>2, <1>3 DEF NLeading, Leader
  <2>2. NBehind' = 0
    BY <1>2, <1>3 DEF NBehind
  <2> QED
    BY <1>z, <1>6, <2>1, <2>2 DEF WritersExact
<1>11. ReadersExact' /\ RQueue'
  BY <1>z, <1>0 DEF ReadersExact, RQueue
<1>12. WQueue'
  BY <1>a, <1>z, <1>0, Lengths DEF WQueue
<1>13. InsideState' /\ FirstState' /\ CountedState'
  BY <1>2, <1>3 DEF InsideState, FirstState, CountedState, Leader, InState
<1>14. PickState'
  <2>1. NIn = 0 /\ NLeaving = 0 /\ pass = 0 /\ readersWait = 0 /\ (writers # 1 \/ readers # 0)
    BY <1>a, <1>z DEF InsideState
  <2>2. readers = NAwait + Len(rqueue)
    BY <2>1, Counts0, Lengths DEF ReadersExact
  <2>3. \A v \in Writers : v # w => ~Picks(v)'
    BY <1>2 DEF Leader
  <2> QED
    BY <1>z, <1>0, <1>1, <1>6, <2>1, <2>2, <2>3 DEF PickState
<1>15. PrioState' /\ OrderState'
  BY <1>z DEF PrioState, OrderState
<1> QED
  BY <1>7, <1>8, <1>9, <1>10, <1>11, <1>12, <1>13, <1>14, <1>15

\* A writer that stays where it is while another hands the mutex on.
LEMMA OthersIdle ==
    ASSUME Inv, NEW w \in Writers, Picks(w), NEW v \in Writers, v # w,
           pc'[v] = pc[v], seen'[v] = seen[v], v \in ToSet(wqueue') <=> v \in ToSet(wqueue)
    PROVE  ~Leader(v)' /\ ~Behind(v)'
<1>1. ~InState(v) /\ ~Behind(v) /\ ~Picks(v)
  BY PickAlone DEF OneLeader, Leader
<1> QED
  BY <1>1 DEF Leader, InState, Inside, Counts, AwaitsReaders, Picks, Behind

\* The queued readers are resumed.
LEMMA QueuedEnter ==
    ASSUME Inv, \A r \in Readers : pc'[r] = IF r \in ToSet(rqueue) THEN "granted" ELSE pc[r]
    PROVE  /\ NAwait' = NAwait /\ NLeaving' = NLeaving /\ NIn' = NIn + Len(rqueue)
           /\ {r \in Readers : pc[r] = "waiting"}' = {}
           /\ NIn' <= Cardinality(Readers)
<1>1. ToSet(rqueue) = {r \in Readers : pc[r] = "waiting"} /\ Cardinality(ToSet(rqueue)) = Len(rqueue)
  BY ListSize DEF RQueue, TypeOK
<1>2. /\ OnTheWay' = OnTheWay /\ Leaving' = Leaving /\ Entered' = Entered \cup ToSet(rqueue)
      /\ Entered \cap ToSet(rqueue) = {} /\ {r \in Readers : pc[r] = "waiting"}' = {}
  BY <1>1 DEF OnTheWay, Leaving, Entered
<1>3. Entered \in SUBSET Readers /\ ToSet(rqueue) \in SUBSET Readers /\ Entered' \in SUBSET Readers
  BY <1>1 DEF Entered
<1>4. IsFiniteSet(Entered) /\ IsFiniteSet(ToSet(rqueue))
  BY <1>3, ReaderSets
<1>5. Cardinality(Entered \cup ToSet(rqueue)) = Cardinality(Entered) + Cardinality(ToSet(rqueue))
                                                  - Cardinality(Entered \cap ToSet(rqueue))
  BY <1>4, FS_Union
<1>6. Cardinality(Entered \cap ToSet(rqueue)) = 0
  BY <1>2, FS_EmptySet
<1>7. Cardinality(Entered') <= Cardinality(Readers)
  BY <1>3, ReaderSets
<1>8. NIn' = NIn + Len(rqueue)
  BY <1>1, <1>2, <1>5, <1>6, Counts0, Lengths DEF NIn
<1> QED
  BY <1>2, <1>7, <1>8 DEF NAwait, NLeaving, NIn

\* SlowUnlock runs the next writer.
LEMMA RunWriterInv ==
    ASSUME Inv, NEW w \in Writers, SlowUnlockPick(w), Choice(w) = "writer", RunWriter(w)
    PROVE  Inv'
<1> USE DEF templates, stateWord
<1>z. /\ pc[w] = "pick" /\ lock' = None /\ seen' = [seen EXCEPT ![w] = <<0, 0>>]
      /\ prio' = (IF fifo THEN prio - 1 ELSE prio) /\ wqueue' = Tail(wqueue)
      /\ pc' = [pc EXCEPT ![w] = "out", ![Head(wqueue)] = "granted"]
      /\ UNCHANGED <<templates, stateWord, readersWait, first, rqueue, pass, ahead>>
  BY DEF SlowUnlockPick, RunWriter
<1>a. Picks(w)
  BY <1>z DEF Picks
<1>b. /\ NLeaving = 0 /\ pass = 0 /\ readersWait = 0
      /\ seen[w][1] = Len(wqueue) + 1 /\ (seen[w][1] # 1 => NIn = 0)
  BY <1>a DEF PickState
<1>c. (fifo => prio # 0) /\ (~fifo => seen[w][1] # 1)
  BY DEF Choice
<1>d. Len(wqueue) # 0 /\ Len(wqueue) \in Nat /\ prio \in Nat
  BY <1>b, <1>c, Lengths DEF PrioState, TypeOK
<1>e. wqueue # <<>> /\ NIn = 0
  BY <1>b, <1>d, Lengths
<1>f. PICK h \in Writers : h = Head(wqueue)
  BY <1>e, ListPop DEF TypeOK
<1>g. /\ Tail(wqueue) \in Seq(Writers) /\ Len(Tail(wqueue)) = Len(wqueue) - 1
      /\ ToSet(wqueue) = {h} \cup ToSet(Tail(wqueue)) /\ h \notin ToSet(Tail(wqueue))
      /\ IsInjective(Tail(wqueue)) /\ wqueue = <<h>> \o Tail(wqueue)
  BY <1>e, <1>f, ListPop DEF TypeOK, WQueue
<1>h. h # w /\ w \notin ToSet(wqueue)
  BY <1>z, <1>g DEF WQueue
<1>0. /\ pc'[w] = "out" /\ pc'[h] = "granted"
      /\ (\A v \in Writers : v # w /\ v # h => pc'[v] = pc[v])
      /\ (\A r \in Readers : pc'[r] = pc[r]) /\ pc' \in [Coroutines -> States]
  BY <1>z, <1>f, <1>h, ConstantsAssumption DEF TypeOK, Coroutines, States
<1>1. /\ NAwait' = NAwait /\ NIn' = NIn /\ NLeaving' = NLeaving
      /\ {r \in Readers : pc[r] = "waiting"}' = {r \in Readers : pc[r] = "waiting"}
  BY <1>0, ReadersStay
<1>2. /\ (\A v \in Writers : v # w => seen'[v] = seen[v])
      /\ seen' \in [Coroutines -> Nat \X Nat]
  BY <1>z DEF TypeOK, Coroutines
<1>3. \A v \in Writers : v # w /\ v # h => ~Leader(v)' /\ ~Behind(v)'
  <2> SUFFICES ASSUME NEW v \in Writers, v # w, v # h PROVE ~Leader(v)' /\ ~Behind(v)'
    OBVIOUS
  <2>1. v \in ToSet(wqueue') <=> v \in ToSet(wqueue)
    BY <1>z, <1>g
  <2> QED
    BY <1>a, <1>0, <1>2, <2>1, OthersIdle
<1>4. ~Leader(w)' /\ ~Behind(w)'
  BY <1>0 DEF Leader, InState, Inside, Counts, AwaitsReaders, Picks, Behind
<1>5. /\ Inside(h)' /\ InState(h)' /\ Leader(h)'
      /\ ~Picks(h)' /\ ~Counts(h)' /\ ~AwaitsReaders(h)' /\ ~Behind(h)'
  BY <1>0 DEF Inside, Picks, Counts, AwaitsReaders, InState, Leader, Behind
<1>6. TypeOK'
  <2>1. prio' \in Nat
    BY <1>z, <1>c, <1>d
  <2> QED
    BY <1>z, <1>0, <1>2, <1>g, <2>1 DEF TypeOK
<1>7. Spin'
  <2>1. \A v \in Writers : pc'[v] \notin {"counted", "pick"}
    BY <1>z, <1>0 DEF Spin
  <2> QED
    BY <1>z, <2>1, ConstantsAssumption DEF Spin
<1>8. Kinds'
  BY <1>0 DEF Kinds
<1>9. OneLeader' /\ Led'
  BY <1>3, <1>4, <1>5 DEF OneLeader, Led
<1>10. WritersExact'
  <2>1. NLeading' = 1
    BY <1>5 DEF NLeading
  <2>2. NBehind' = 0
    BY <1>3, <1>4, <1>5 DEF NBehind
  <2>3. writers = Len(wqueue)
    BY <1>a, PickAlone
  <2> QED
    BY <1>z, <1>d, <1>g, <2>1, <2>2, <2>3 DEF WritersExact
<1>11. ReadersExact' /\ RQueue'
  BY <1>z, <1>1 DEF ReadersExact, RQueue
<1>12. WQueue'
  BY <1>z, <1>0, <1>g, <1>h, Lengths DEF WQueue
<1>13. InsideState'
  BY <1>z, <1>0, <1>1, <1>b, <1>e, <1>3, <1>4, <1>5 DEF InsideState, Leader, InState
<1>14. PickState' /\ FirstState' /\ CountedState'
  BY <1>3, <1>4, <1>5 DEF PickState, FirstState, CountedState, Leader, InState
<1>15. PrioState'
  <2>1. CASE fifo
    <3>1. prio' = prio - 1 /\ fifo'
      BY <1>z, <2>1
    <3>2. prio <= Len(wqueue) /\ (rqueue' = <<>> => prio = Len(wqueue))
      BY <1>z, <2>1 DEF PrioState
    <3>3. Len(wqueue') = Len(wqueue) - 1
      BY <1>z, <1>g
    <3>4. prio' <= Len(wqueue') /\ (rqueue' = <<>> => prio' = Len(wqueue'))
      BY <1>d, <3>1, <3>2, <3>3
    <3> QED
      BY <3>1, <3>4 DEF PrioState
  <2>2. CASE ~fifo
    BY <1>z, <2>2 DEF PrioState
  <2> QED
    BY <2>1, <2>2
<1>16. OrderState'
  <2> SUFFICES ASSUME fifo
               PROVE  /\ \A v \in Writers : v \notin ToSet(wqueue') => ahead'[v] = {}
                      /\ \A v \in Writers : ahead'[v] \subseteq ToSet(rqueue')
                      /\ \A i \in 1 .. prio' : ahead'[wqueue'[i]] = {}
    BY <1>z DEF OrderState
  <2>1. wqueue[1] = h /\ \A i \in 1 .. Len(wqueue) - 1 : Tail(wqueue)[i] = wqueue[i + 1]
    <3>1. wqueue \in Seq(Writers)
      BY DEF TypeOK
    <3>2. \A i \in 1 .. Len(Tail(wqueue)) : Tail(wqueue)[i] = wqueue[i + 1]
      BY <1>e, <3>1, HeadTailProperties
    <3>3. wqueue[1] = h
      BY <1>d, <1>f, <3>1
    <3> QED
      BY <1>g, <3>2, <3>3
  <2>2. ahead[h] = {}
    <3>1. 1 \in 1 .. prio
      BY <1>c, <1>d
    <3> QED
      BY <2>1, <3>1 DEF OrderState
  <2>3. \A v \in Writers : v \notin ToSet(wqueue') => ahead'[v] = {}
    BY <1>z, <1>g, <2>2 DEF OrderState
  <2>4. \A v \in Writers : ahead'[v] \subseteq ToSet(rqueue')
    BY <1>z DEF OrderState
  <2>5. ASSUME NEW i \in 1 .. prio' PROVE ahead'[wqueue'[i]] = {}
    <3>1. i + 1 \in 1 .. prio /\ i \in 1 .. Len(wqueue) - 1
      BY <1>z, <1>d, <2>5 DEF PrioState
    <3> QED
      BY <1>z, <2>1, <3>1 DEF OrderState
  <2> QED
    BY <2>3, <2>4, <2>5
<1> QED
  BY <1>6, <1>7, <1>8, <1>9, <1>10, <1>11, <1>12, <1>13, <1>14, <1>15, <1>16

\* SlowUnlock resumes the queued readers; the next writer waits for them.
LEMMA RunReadersFirst ==
    ASSUME Inv, NEW w \in Writers, SlowUnlockPick(w), Choice(w) = "readers", RunReaders(w),
           seen[w][1] # 1
    PROVE  Inv'
<1> USE DEF templates, stateWord
<1>z. /\ pc[w] = "pick" /\ lock' = None /\ seen' = [seen EXCEPT ![w] = <<0, 0>>]
      /\ readersWait' = Len(rqueue) /\ first' = Head(wqueue) /\ wqueue' = Tail(wqueue)
      /\ prio' = (IF fifo THEN seen[w][1] - 2 ELSE prio)
      /\ pc' = [c \in Coroutines |-> IF c \in ToSet(rqueue) THEN "granted"
                                     ELSE IF c = w THEN "out" ELSE pc[c]]
      /\ rqueue' = <<>> /\ ahead' = [v \in Writers |-> ahead[v] \ ToSet(rqueue)]
      /\ UNCHANGED <<templates, stateWord, pass>>
  BY DEF SlowUnlockPick, RunReaders, ReadersSize
<1>a. Picks(w)
  BY <1>z DEF Picks
<1>b. /\ NLeaving = 0 /\ pass = 0 /\ readersWait = 0 /\ NIn = 0
      /\ seen[w][1] = Len(wqueue) + 1
  BY <1>a DEF PickState
<1>c. rqueue # <<>>
  BY DEF Choice
<1>d. /\ Len(wqueue) # 0 /\ Len(wqueue) \in Nat /\ Len(rqueue) # 0 /\ Len(rqueue) \in Nat
      /\ wqueue # <<>> /\ ToSet(rqueue) \subseteq Readers
  BY <1>b, <1>c, Lengths
<1>f. PICK h \in Writers : h = Head(wqueue)
  BY <1>d, ListPop DEF TypeOK
<1>g. /\ Tail(wqueue) \in Seq(Writers) /\ Len(Tail(wqueue)) = Len(wqueue) - 1
      /\ ToSet(wqueue) = {h} \cup ToSet(Tail(wqueue)) /\ h \notin ToSet(Tail(wqueue))
      /\ IsInjective(Tail(wqueue))
  BY <1>d, <1>f, ListPop DEF TypeOK, WQueue
<1>h. h # w /\ w \notin ToSet(wqueue) /\ pc[h] = "waiting"
  BY <1>z, <1>g DEF WQueue
<1>0. /\ pc'[w] = "out" /\ (\A v \in Writers : v # w => pc'[v] = pc[v])
      /\ (\A r \in Readers : pc'[r] = IF r \in ToSet(rqueue) THEN "granted" ELSE pc[r])
      /\ pc' \in [Coroutines -> States]
  BY <1>z, <1>d, ConstantsAssumption DEF TypeOK, Coroutines, States
<1>1. /\ NAwait' = NAwait /\ NIn' = Len(rqueue) /\ NLeaving' = 0
      /\ {r \in Readers : pc[r] = "waiting"}' = {} /\ Len(rqueue) <= Cardinality(Readers)
  BY <1>0, <1>b, <1>d, QueuedEnter
<1>2. /\ (\A v \in Writers : v # w => seen'[v] = seen[v])
      /\ seen' \in [Coroutines -> Nat \X Nat]
  BY <1>z DEF TypeOK, Coroutines
<1>3. \A v \in Writers : v # w /\ v # h => ~Leader(v)' /\ ~Behind(v)'
  <2> SUFFICES ASSUME NEW v \in Writers, v # w, v # h PROVE ~Leader(v)' /\ ~Behind(v)'
    OBVIOUS
  <2>1. v \in ToSet(wqueue') <=> v \in ToSet(wqueue)
    BY <1>z, <1>g
  <2> QED
    BY <1>a, <1>0, <1>2, <2>1, OthersIdle
<1>4. ~Leader(w)' /\ ~Behind(w)'
  BY <1>0 DEF Leader, InState, Inside, Counts, AwaitsReaders, Picks, Behind
<1>5. /\ AwaitsReaders(h)' /\ InState(h)' /\ Leader(h)'
      /\ ~Picks(h)' /\ ~Counts(h)' /\ ~Inside(h)' /\ ~Behind(h)'
  <2>1. pc'[h] = "waiting" /\ h \notin ToSet(wqueue')
    BY <1>z, <1>0, <1>g, <1>h
  <2> QED
    BY <2>1 DEF Inside, Picks, Counts, AwaitsReaders, InState, Leader, Behind
<1>6. TypeOK'
  <2>1. prio' \in Nat
    BY <1>z, <1>b, <1>d DEF TypeOK
  <2>2. readersWait' \in 0 .. Word - 1
    <3>1. Cardinality(Readers) \in Nat
      BY ConstantsAssumption, FS_CardinalityType
    <3> QED
      BY <1>z, <1>d, <1>1, <3>1, ConstantsAssumption
  <2>3. ahead' \in [Writers -> SUBSET Readers]
    BY <1>z DEF TypeOK
  <2>4. rqueue' \in Seq(Readers) /\ first' \in Writers
    BY <1>z, <1>f
  <2> QED
    BY <1>z, <1>0, <1>2, <1>g, <2>1, <2>2, <2>3, <2>4 DEF TypeOK
<1>7. Spin'
  <2>1. \A v \in Writers : pc'[v] \notin {"counted", "pick"}
    BY <1>z, <1>0 DEF Spin
  <2> QED
    BY <1>z, <2>1, ConstantsAssumption DEF Spin
<1>8. Kinds'
  BY <1>0 DEF Kinds
<1>9. OneLeader' /\ Led'
  BY <1>3, <1>4, <1>5 DEF OneLeader, Led
<1>10. WritersExact'
  <2>1. NLeading' = 1
    BY <1>5 DEF NLeading
  <2>2. NBehind' = 0
    BY <1>3, <1>4, <1>5 DEF NBehind
  <2>3. writers = Len(wqueue)
    BY <1>a, PickAlone
  <2> QED
    BY <1>z, <1>d, <1>g, <2>1, <2>2, <2>3 DEF WritersExact
<1>11. ReadersExact'
  <2>1. Len(rqueue') = 0
    BY <1>z
  <2> QED
    BY <1>z, <1>1, <1>b, <1>d, <2>1, Counts0 DEF ReadersExact
<1>12. RQueue'
  BY <1>z, <1>1, ListEmpty DEF RQueue
<1>13. WQueue'
  BY <1>z, <1>0, <1>g, <1>h, Lengths DEF WQueue
<1>14. InsideState' /\ PickState' /\ CountedState'
  BY <1>3, <1>4, <1>5 DEF InsideState, PickState, CountedState, Leader, InState
<1>15. FirstState'
  <2>1. ToLeave' = Len(rqueue) /\ pass' <= NAwait'
    BY <1>z, <1>1, <1>b, <1>d, Counts0
  <2>2. \A v \in Writers : v # h => ~AwaitsReaders(v)'
    BY <1>3, <1>4 DEF Leader, InState
  <2> HIDE DEF ToLeave
  <2> QED
    BY <1>z, <1>d, <1>f, <2>1, <2>2 DEF FirstState
<1>16. PrioState'
  <2>1. CASE fifo
    <3>1. prio' = Len(wqueue') /\ Len(wqueue') \in Nat
      BY <1>z, <1>b, <1>d, <1>g, <2>1
    <3> QED
      BY <1>z, <2>1, <3>1 DEF PrioState
  <2>2. CASE ~fifo
    BY <1>z, <2>2 DEF PrioState
  <2> QED
    BY <2>1, <2>2
<1>17. OrderState'
  <2> SUFFICES ASSUME fifo
               PROVE  /\ \A v \in Writers : v \notin ToSet(wqueue') => ahead'[v] = {}
                      /\ \A v \in Writers : ahead'[v] \subseteq ToSet(rqueue')
                      /\ \A i \in 1 .. prio' : ahead'[wqueue'[i]] = {}
    BY <1>z DEF OrderState
  <2>1. \A v \in Writers : ahead'[v] = {}
    BY <1>z DEF OrderState
  <2>2. \A i \in 1 .. prio' : wqueue'[i] \in Writers
    <3>1. prio' = Len(wqueue')
      BY <1>z, <1>b, <1>d, <1>g
    <3> QED
      BY <1>z, <1>g, <3>1, ListElements
  <2> QED
    BY <2>1, <2>2
<1> QED
  BY <1>6, <1>7, <1>8, <1>9, <1>10, <1>11, <1>12, <1>13, <1>14, <1>15, <1>16, <1>17

\* SlowUnlock without another writer: the queued readers are resumed, those on
\* their way get a pass.
LEMMA LetReadersIn ==
    ASSUME Inv, NEW w \in Writers, SlowUnlockPick(w), seen[w][1] = 1,
           pass' = pass + (seen[w][2] - Len(rqueue)), rqueue' = <<>>,
           pc' = [c \in Coroutines |-> IF c \in ToSet(rqueue) THEN "granted"
                                       ELSE IF c = w THEN "out" ELSE pc[c]],
           ahead' = [v \in Writers |-> ahead[v] \ ToSet(rqueue)],
           UNCHANGED <<readersWait, first, wqueue, prio>>
    PROVE  Inv'
<1> USE DEF templates, stateWord
<1>z. /\ pc[w] = "pick" /\ lock' = None /\ seen' = [seen EXCEPT ![w] = <<0, 0>>]
      /\ UNCHANGED <<templates, stateWord>>
  BY DEF SlowUnlockPick
<1>a. Picks(w)
  BY <1>z DEF Picks
<1>b. /\ NLeaving = 0 /\ pass = 0 /\ readersWait = 0 /\ 1 = Len(wqueue) + 1
      /\ seen[w][2] = NAwait + Len(rqueue)
  BY <1>a DEF PickState
<1>d. wqueue = <<>> /\ Len(rqueue) \in Nat /\ ToSet(rqueue) \subseteq Readers
  BY <1>b, Lengths
<1>0. /\ pc'[w] = "out" /\ (\A v \in Writers : v # w => pc'[v] = pc[v])
      /\ (\A r \in Readers : pc'[r] = IF r \in ToSet(rqueue) THEN "granted" ELSE pc[r])
      /\ pc' \in [Coroutines -> States]
  BY <1>z, <1>d, ConstantsAssumption DEF TypeOK, Coroutines, States
<1>1. /\ NAwait' = NAwait /\ NIn' = NIn + Len(rqueue) /\ NLeaving' = 0
      /\ {r \in Readers : pc[r] = "waiting"}' = {}
  BY <1>0, <1>b, QueuedEnter
<1>c. pass' = NAwait
  BY <1>b, <1>d, Counts0
<1>2. /\ (\A v \in Writers : v # w => seen'[v] = seen[v])
      /\ seen' \in [Coroutines -> Nat \X Nat]
  BY <1>z DEF TypeOK, Coroutines
<1>3. \A v \in Writers : v # w => ~Leader(v)' /\ ~Behind(v)'
  BY <1>a, <1>0, <1>2, OthersIdle
<1>4. ~Leader(w)' /\ ~Behind(w)'
  BY <1>0 DEF Leader, InState, Inside, Counts, AwaitsReaders, Picks, Behind
<1>5. \A v \in Writers : ~Leader(v)' /\ ~Behind(v)'
  BY <1>3, <1>4
<1>6. TypeOK'
  <2>1. ahead' \in [Writers -> SUBSET Readers]
    BY DEF TypeOK
  <2>2. rqueue' \in Seq(Readers) /\ pass' \in Nat
    BY <1>c, Counts0
  <2> QED
    BY <1>z, <1>0, <1>2, <2>1, <2>2 DEF TypeOK
<1>7. Spin'
  <2>1. \A v \in Writers : pc'[v] \notin {"counted", "pick"}
    BY <1>z, <1>0 DEF Spin
  <2> QED
    BY <1>z, <2>1, ConstantsAssumption DEF Spin
<1>8. Kinds'
  BY <1>0 DEF Kinds
<1>9. OneLeader' /\ Led'
  BY <1>z, <1>1, <1>b, <1>c, <1>d, <1>5 DEF OneLeader, Led
<1>10. WritersExact'
  <2>1. NLeading' = 0
    BY <1>5 DEF NLeading, Leader
  <2>2. NBehind' = 0
    BY <1>5 DEF NBehind
  <2>3. writers = Len(wqueue)
    BY <1>a, PickAlone
  <2> QED
    BY <1>z, <1>b, <2>1, <2>2, <2>3 DEF WritersExact
<1>11. ReadersExact'
  <2>1. Len(rqueue') = 0
    OBVIOUS
  <2> QED
    BY <1>z, <1>1, <1>d, <2>1, Counts0 DEF ReadersExact
<1>12. RQueue'
  BY <1>z, <1>1, ListEmpty DEF RQueue
<1>13. WQueue'
  BY <1>z, <1>d, ListEmpty DEF WQueue
<1>14. InsideState' /\ PickState' /\ FirstState' /\ CountedState'
  BY <1>5 DEF InsideState, PickState, FirstState, CountedState, Leader, InState
<1>e. prio = 0
  BY <1>b DEF PrioState, TypeOK
<1>15. PrioState'
  BY <1>z, <1>b, <1>d, <1>e DEF PrioState
<1>16. OrderState'
  <2>1. fifo => \A v \in Writers : ahead'[v] = {}
    BY <1>d, ListEmpty DEF OrderState
  <2>2. 1 .. prio' = {}
    BY <1>e
  <2> QED
    BY <1>z, <2>1, <2>2 DEF OrderState
<1> QED
  BY <1>6, <1>7, <1>8, <1>9, <1>10, <1>11, <1>12, <1>13, <1>14, <1>15, <1>16

\* What the unlocking writer does follows from what it finds.
LEMMA ChoiceFits ==
    ASSUME Inv, NEW w \in Writers, Picks(w)
    PROVE  /\ Choice(w) = "writer" => wqueue # <<>> /\ seen[w][1] > 1
           /\ Choice(w) = "pass" => seen[w][1] = 1 /\ rqueue = <<>>
           /\ Choice(w) \in {"writer", "readers", "pass"}
<1>1. seen[w][1] = Len(wqueue) + 1 /\ Len(wqueue) \in Nat /\ prio \in Nat
      /\ (wqueue = <<>> <=> Len(wqueue) = 0)
  BY Lengths DEF PickState, TypeOK
<1>2. /\ ~fifo => prio = 0
      /\ fifo => prio <= Len(wqueue) /\ (rqueue = <<>> => prio = Len(wqueue))
  BY DEF PrioState
<1>3. CASE Choice(w) = "writer"
  <2>1. (fifo /\ prio # 0) \/ (~fifo /\ seen[w][1] # 1)
    BY <1>3 DEF Choice
  <2> QED
    BY <1>1, <1>2, <1>3, <2>1
<1>4. CASE Choice(w) = "pass"
  <2>1. rqueue = <<>> /\ ~(fifo /\ prio # 0) /\ ~(~fifo /\ seen[w][1] # 1)
    BY <1>4 DEF Choice
  <2>2. CASE fifo
    BY <1>1, <1>2, <1>4, <2>1, <2>2
  <2>3. CASE ~fifo
    BY <1>1, <1>2, <1>4, <2>1, <2>3
  <2> QED
    BY <2>2, <2>3
<1>5. Choice(w) \in {"writer", "readers", "pass"}
  BY DEF Choice
<1> QED
  BY <1>3, <1>4, <1>5

\* SlowUnlock hands the mutex on.
LEMMA SlowUnlockPickInv ==
    ASSUME Inv, NEW w \in Writers, SlowUnlockPick(w)
    PROVE  Inv'
<1>a. Picks(w)
  BY DEF SlowUnlockPick, Picks
<1>1. CASE Choice(w) = "writer" /\ RunWriter(w)
  BY <1>1, RunWriterInv
<1>2. CASE Choice(w) = "readers" /\ RunReaders(w)
  <2>1. CASE seen[w][1] # 1
    BY <1>2, <2>1, RunReadersFirst
  <2>2. CASE seen[w][1] = 1
    BY <1>2, <2>2, LetReadersIn DEF RunReaders, PassReaders, ReadersSize
  <2> QED
    BY <2>1, <2>2
<1>3. CASE /\ Choice(w) = "pass" /\ PassReaders(w)
           /\ pc' = [pc EXCEPT ![w] = "out"]
           /\ UNCHANGED <<readersWait, first, wqueue, prio, rqueue, ahead>>
  <2>1. seen[w][1] = 1 /\ rqueue = <<>> /\ ToSet(rqueue) = {}
    BY <1>3, <1>a, ChoiceFits, ListEmpty
  <2>2. pc' = [c \in Coroutines |-> IF c \in ToSet(rqueue) THEN "granted"
                                    ELSE IF c = w THEN "out" ELSE pc[c]]
    BY <1>3, <2>1 DEF TypeOK
  <2>3. ahead' = [v \in Writers |-> ahead[v] \ ToSet(rqueue)]
    <3>1. ahead = [v \in Writers |-> ahead[v]]
      BY DEF TypeOK
    <3>2. [v \in Writers |-> ahead[v] \ ToSet(rqueue)] = [v \in Writers |-> ahead[v]]
      BY <2>1
    <3> QED
      BY <1>3, <3>1, <3>2
  <2>4. pass' = pass + (seen[w][2] - Len(rqueue))
    BY <1>3 DEF PassReaders, ReadersSize
  <2> QED
    BY <1>3, <2>1, <2>2, <2>3, <2>4, LetReadersIn
<1> QED
  BY <1>1, <1>2, <1>3 DEF SlowUnlockPick

\* Every step of a writer preserves Inv.
LEMMA WriteInv ==
    ASSUME Inv, NEW w \in Writers, Write(w) \/ Resume(w)
    PROVE  Inv'
<1>1. CASE AwaitLockQueue(w)
  BY <1>1, AwaitReadersInv, QueueWriterInv
<1> QED
  BY <1>1, TryLockAwaitInv, SuspendInv, AwaitLockCountInv, UnlockHereInv, SlowUnlockInv,
     SlowUnlockPickInv DEF Write

\* The mutex as it is constructed satisfies Inv.
LEMMA InitInv == Init => Inv
<1> SUFFICES ASSUME Init PROVE Inv
  OBVIOUS
<1>z. /\ writers = 0 /\ readers = 0 /\ readersWait = 0 /\ lock = None /\ first = None
      /\ wqueue = <<>> /\ prio = 0 /\ rqueue = <<>> /\ pass = 0
      /\ pc = [c \in Coroutines |-> "out"] /\ seen = [c \in Coroutines |-> <<0, 0>>]
      /\ ahead = [w \in Writers |-> {}]
  BY DEF Init
<1>a. fifo \in BOOLEAN /\ readersFifo \in BOOLEAN
  <2>1. PICK t \in Templates : fifo = t[1] /\ readersFifo = t[2]
    BY DEF Init
  <2>2. t \in BOOLEAN \X BOOLEAN
    BY ConstantsAssumption
  <2> QED
    BY <2>1, <2>2
<1>0. \A c \in Coroutines : pc[c] = "out"
  BY <1>z
<1>b. \A w \in Writers : ~Leader(w) /\ ~Behind(w) /\ ~InState(w)
  BY <1>0 DEF Coroutines, Leader, InState, Inside, Counts, AwaitsReaders, Picks, Behind
<1>1. NAwait = 0 /\ NIn = 0 /\ NLeaving = 0
  <2>1. OnTheWay = {} /\ Entered = {} /\ Leaving = {}
    BY <1>0 DEF Coroutines, OnTheWay, Entered, Leaving
  <2> QED
    BY <2>1, FS_EmptySet DEF NAwait, NIn, NLeaving
<1>c. NLeading = 0 /\ NBehind = 0 /\ Len(wqueue) = 0 /\ Len(rqueue) = 0
  BY <1>z, <1>b DEF NLeading, NBehind
<1>2. TypeOK
  <2>1. Word \in Nat /\ Word > 0
    <3>1. Cardinality(Readers) \in Nat
      BY ConstantsAssumption, FS_CardinalityType
    <3> QED
      BY <3>1, ConstantsAssumption
  <2>2. readersWait \in 0 .. Word - 1 /\ pc \in [Coroutines -> States]
        /\ seen \in [Coroutines -> Nat \X Nat]
    BY <1>z, <2>1 DEF States
  <2> QED
    BY <1>z, <1>a, <2>2 DEF TypeOK
<1>3. Spin /\ Kinds
  BY <1>z, <1>0, ConstantsAssumption DEF Spin, Kinds, Coroutines
<1>4. OneLeader /\ Led
  BY <1>z, <1>b, <1>1 DEF OneLeader, Led
<1>5. WritersExact /\ ReadersExact
  BY <1>z, <1>c, <1>1 DEF WritersExact, ReadersExact
<1>6. RQueue /\ WQueue
  <2>1. {r \in Readers : pc[r] = "waiting"} = {}
    BY <1>0 DEF Coroutines
  <2> QED
    BY <1>z, <2>1, ListEmpty DEF RQueue, WQueue
<1>7. InsideState /\ PickState /\ FirstState /\ CountedState
  BY <1>b DEF InsideState, PickState, FirstState, CountedState, Leader, InState
<1>8. PrioState /\ OrderState
  <2>1. 1 .. prio = {} /\ \A w \in Writers : ahead[w] = {}
    BY <1>z
  <2> QED
    BY <1>z, <1>c, <2>1, ListEmpty DEF PrioState, OrderState
<1> QED
  BY <1>2, <1>3, <1>4, <1>5, <1>6, <1>7, <1>8

\* A step that changes nothing preserves Inv.
LEMMA StutterInv == ASSUME Inv, UNCHANGED vars PROVE Inv'
<1> USE DEF vars, templates, stateWord, spinVars
<1>0. (\A v \in Writers : pc'[v] = pc[v]) /\ (\A r \in Readers : pc'[r] = pc[r])
  OBVIOUS
<1>1. /\ NAwait' = NAwait /\ NIn' = NIn /\ NLeaving' = NLeaving
      /\ {r \in Readers : pc[r] = "waiting"}' = {r \in Readers : pc[r] = "waiting"}
  BY <1>0, ReadersStay
<1>2. /\ \A w \in Writers : /\ Inside(w)' <=> Inside(w)
                            /\ Picks(w)' <=> Picks(w)
                            /\ Counts(w)' <=> Counts(w)
                            /\ AwaitsReaders(w)' <=> AwaitsReaders(w)
                            /\ Leader(w)' <=> Leader(w)
                            /\ Behind(w)' <=> Behind(w)
      /\ NLeading' = NLeading /\ NBehind' = NBehind
  BY <1>0, WritersStay
<1>3. TypeOK' /\ Spin' /\ Kinds'
  BY DEF TypeOK, Spin, Kinds
<1>4. OneLeader' /\ Led' /\ WritersExact' /\ ReadersExact' /\ RQueue' /\ WQueue'
  BY <1>1, <1>2 DEF OneLeader, Led, WritersExact, ReadersExact, RQueue, WQueue
<1>5. InsideState' /\ PickState'
  BY <1>1, <1>2 DEF InsideState, PickState
<1>6. ToLeave' = ToLeave
  BY <1>1
<1>7. FirstState' /\ CountedState'
  <2> HIDE DEF ToLeave
  <2> QED
    BY <1>1, <1>2, <1>6 DEF FirstState, CountedState
<1>8. PrioState' /\ OrderState'
  BY DEF PrioState, OrderState
<1> QED
  BY <1>3, <1>4, <1>5, <1>7, <1>8

\* Every step preserves Inv.
LEMMA NextInv == Inv /\ [Next]_vars => Inv'
<1> SUFFICES ASSUME Inv, [Next]_vars PROVE Inv'
  OBVIOUS
<1>1. CASE \E r \in Readers : Read(r)
  BY <1>1, ReadInv
<1>2. CASE \E w \in Writers : Write(w)
  BY <1>2, WriteInv
<1>3. CASE \E c \in Coroutines : Resume(c)
  BY <1>3, ReadInv, WriteInv DEF Coroutines
<1>4. CASE UNCHANGED vars
  BY <1>4, StutterInv
<1> QED
  BY <1>1, <1>2, <1>3, <1>4 DEF Next

-----------------------------------------------------------------------------
(***************************************************************************)
(* The theorems.                                                           *)
(***************************************************************************)

\* The leader's invariant holds in every reachable state.
THEOREM Invariance == Spec => []Inv
<1> HIDE DEF Inv
<1> QED
  BY InitInv, NextInv, PTL DEF Spec

\* Every variable keeps its type: neither half of _state, _writers_prio nor
\* _readers_pass is ever decremented below zero.
THEOREM TypeCorrect == Spec => []TypeOK
<1>1. Inv => TypeOK
  OBVIOUS
<1> HIDE DEF Inv
<1> QED
  BY <1>1, Invariance, PTL

\* A writer that has the mutex is alone, also against readers that were given
\* the mutex and not resumed yet and against readers that hold a pass.
THEOREM Exclusion == Spec => []ReadWriteExclusion
<1>1. Inv => ReadWriteExclusion
  <2> SUFFICES ASSUME Inv, NEW w \in Writers, Inside(w)
               PROVE  (\A c \in Coroutines \ {w} : ~Inside(c)) /\ pass = 0
    BY DEF ReadWriteExclusion
  <2>1. \A v \in Writers \ {w} : ~Inside(v)
    BY DEF OneLeader, Leader, InState
  <2>2. NIn = 0 /\ pass = 0
    BY DEF InsideState
  <2>3. Entered = {}
    <3>1. Entered \in SUBSET Readers
      BY DEF Entered
    <3> QED
      BY <2>2, <3>1, ReaderSets DEF NIn
  <2>4. \A r \in Readers : ~Inside(r)
    BY <2>3 DEF Entered, Inside, Kinds
  <2> QED
    BY <2>1, <2>2, <2>4 DEF Coroutines
<1> HIDE DEF Inv
<1> QED
  BY <1>1, Invariance, PTL

\* Whoever is suspended is where the unlock that has to run it looks, and the
\* assertions of AwaitLockShared, RunWriter and PassReaders hold.
THEOREM NobodyIsLost == Spec => []ListsConsistent
<1>1. Inv => WaitersQueued
  <2> SUFFICES ASSUME Inv PROVE WaitersQueued
    OBVIOUS
  <2>1. \A w \in Writers : pc[w] = "waiting" => w \in ToSet(wqueue) \/ (w = first /\ readersWait # 0)
    BY DEF FirstState, AwaitsReaders
  <2> QED
    BY <2>1 DEF WaitersQueued, RQueue, WQueue
<1>2. Inv => AssertionsHold
  <2> SUFFICES ASSUME Inv PROVE AssertionsHold
    OBVIOUS
  <2>1. ASSUME NEW r \in Readers, pc[r] = "await", lock = None, pass = 0 PROVE writers # 0
    <3> SUFFICES ASSUME writers = 0 PROVE FALSE
      OBVIOUS
    <3>1. \A v \in Writers : ~Leader(v)
      BY <2>1, NoWriters, SpinFree
    <3>2. NAwait = 0
      BY <2>1, <3>1 DEF Led
    <3>3. OnTheWay \in SUBSET Readers /\ r \in OnTheWay
      BY <2>1 DEF OnTheWay
    <3> QED
      BY <3>2, <3>3, ReaderSets DEF NAwait
  <2>2. ASSUME NEW w \in Writers, pc[w] = "pick"
        PROVE  /\ Choice(w) = "writer" => wqueue # <<>> /\ seen[w][1] > 1
               /\ Choice(w) = "pass" => seen[w][1] = 1 /\ seen[w][2] >= ReadersSize
               /\ Choice(w) = "readers" =>
                     IF seen[w][1] = 1 THEN seen[w][2] >= ReadersSize ELSE wqueue # <<>>
    <3>1. Picks(w)
      BY <2>2 DEF Picks
    <3>2. /\ seen[w][1] = Len(wqueue) + 1
          /\ seen[w][1] = 1 => seen[w][2] = NAwait + Len(rqueue)
      BY <3>1 DEF PickState
    <3>3. seen[w][1] = 1 => seen[w][2] >= ReadersSize
      BY <3>2, Counts0, Lengths DEF ReadersSize
    <3>4. seen[w][1] # 1 => wqueue # <<>>
      BY <3>2, Lengths
    <3> QED
      BY <3>1, <3>3, <3>4, ChoiceFits
  <2>3. prio <= Len(wqueue)
    BY Lengths DEF PrioState, TypeOK
  <2> QED
    BY <2>1, <2>2, <2>3 DEF AssertionsHold
<1>3. Inv => ListsConsistent
  BY <1>1, <1>2 DEF ListsConsistent
<1> HIDE DEF Inv
<1> QED
  BY <1>3, Invariance, PTL

\* With FIFO no writer is run before a reader that queued before it.
THEOREM OrderIsKept == Spec => []WritersKeepOrder
<1>1. Inv => WritersKeepOrder
  BY DEF WritersKeepOrder, OrderState, WQueue
<1> HIDE DEF Inv
<1> QED
  BY <1>1, Invariance, PTL
=============================================================================
