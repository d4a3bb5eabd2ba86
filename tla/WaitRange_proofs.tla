-------------------------- MODULE WaitRange_proofs --------------------------
(***************************************************************************)
(* The event of a Wait, of a timed wait that takes its callbacks back and  *)
(* of an await outlives its callbacks, and the wait tells the truth, for   *)
(* any number of futures.  The second part does the same for WaitGroup and *)
(* OneShotEvent.                                                           *)
(*                                                                         *)
(* The counter says how many callbacks are pending and what the waiter has *)
(* still to subtract (Counted).  Who takes it to zero is therefore the     *)
(* last to use the event, but for the waiter itself (Ending), and the      *)
(* futures whose callback is gone and was not taken back have their result *)
(* (IdleReady).                                                            *)
(***************************************************************************)
EXTENDS WaitRange, SequenceLemmas, FiniteSetTheorems, TLAPS

\* Callbacks that have not counted yet, callbacks that set the event, and both.
Pending == {i \in Futures : at[i] \in {"attached", "called"}}
Setting(i) == at[i] \in {"set", "notify", "last"}
Busy == {i \in Futures : at[i] # "idle"}

AtStates == {"idle", "attached"} \cup Coming
Blocked == {"make", "wait", "asleep", "relock", "timedout", "reset"}
Awaiting == {"ready?", "suspend", "suspended"}
Active == pc \in {"attach"} \cup Blocked \cup Awaiting

Types ==
    /\ mode \in {"Wait", "WaitFor", "AwaitInline", "AwaitSticky", "AwaitOn"}
    /\ event \in {"mutex", "futex1", "futex2"}
    /\ n \in 1 .. MaxFutures /\ n \in Nat /\ dup \subseteq 1 .. n /\ dynamic \in BOOLEAN
    /\ at \in [1 .. n -> AtStates]
    /\ pc \in {"start", "done", "attach"} \cup Blocked \cup Awaiting
    /\ pos \in Nat /\ attached \in Nat /\ resets \in Nat /\ count \in Int
    /\ alive \in BOOLEAN /\ expired \in BOOLEAN /\ ret \in BOOLEAN \cup {None}
    /\ state \in 0 .. 2

\* What the place of the waiter says about the kind of the wait.
Places ==
    /\ event # "mutex" => mode = "Wait"
    /\ mode = "WaitFor" => dup = {}
    /\ pc \in Awaiting => Coroutine
    /\ pc \in Blocked => ~Coroutine
    /\ pc \in {"attach", "reset"} => pos \in 1 .. n + 1
    /\ alive <=> Active

\* Only a timed wait takes callbacks back, once, when its time is over.
Timing ==
    /\ pc # "start" /\ expired => mode = "WaitFor"
    /\ pc # "start" /\ resets # 0 => expired
    /\ pc = "attach" => ~expired
    /\ pc = "timedout" => expired /\ resets = 0
    /\ pc = "reset" => expired /\ state = 0

\* Where the callbacks can be.
Callbacks ==
    /\ pc = "start" => \A i \in Futures : at[i] = "idle"
    /\ pc = "done" => \A i \in Futures : at[i] = "idle" \/ (event = "futex2" /\ at[i] = "notify")
    /\ pc = "attach" => \A i \in Futures : i >= pos => at[i] = "idle"

\* The counter.
Extra == CASE pc = "attach" -> (n + 1) - attached
           [] pc \in {"ready?", "suspend"} -> 1
           [] pc = "reset" -> resets
           [] OTHER -> 0
Counted ==
    Active => /\ ~OneCounter => count = Cardinality(Pending) + Extra
              /\ Cardinality(Busy) + resets <= attached
              /\ attached <= n
              /\ pc = "attach" => attached < pos

\* The callback that sets the event.
Setters ==
    \A i \in Futures :
        /\ at[i] = "set" => state = 0
        /\ at[i] \in {"notify", "last"} => state = 1
        /\ at[i] = "notify" /\ event = "mutex" => owner = i
        /\ at[i] = "last" => event = "futex1"
        /\ Setting(i) => ~Coroutine /\ \A j \in Futures : Setting(j) => i = j
Holds == event = "mutex" /\ pc \in {"wait", "reset"} => owner = Waiter

\* Nobody else uses an event that is being set.
Over == state # 0 \/ \E i \in Futures : Setting(i)
Ending ==
    /\ state = 2 => event = "futex1" /\ \A i \in Futures : ~Setting(i)
    /\ Active /\ Over => /\ Pending = {} /\ ~Coroutine
                         /\ pc = "attach" => pos = n + 1 /\ OneCounter
                         /\ pc = "reset" => resets = 0

\* Which futures have their result.
IdleReady ==
    /\ \A i \in Futures : at[i] \in Coming => Core(i) \in ready
    /\ Active /\ resets = 0 =>
          \A i \in Futures : at[i] = "idle" /\ (pc = "attach" => i < pos) => Core(i) \in ready
Returned ==
    pc = "done" => /\ ret \in BOOLEAN
                   /\ ret => AllReady
                   /\ ~ret => mode = "WaitFor" /\ \A i \in Futures : at[i] = "idle"

\* The event's next field.
NextUse ==
    /\ \A i \in dup : at[i] = "attached" /\ ~HelperCallbacks => next = "list"
    /\ pc = "suspended" /\ mode # "AwaitOn" => next = "promise"

\* The inductive invariant.
Inv ==
    /\ Types
    /\ Places
    /\ Timing
    /\ Callbacks
    /\ Counted
    /\ Setters
    /\ Holds
    /\ Ending
    /\ IdleReady
    /\ Returned
    /\ NextUse


USE DEF Inv, Active, Blocked, Awaiting, Futures, input

-----------------------------------------------------------------------------
(***************************************************************************)
(* Counting callbacks.                                                     *)
(***************************************************************************)

\* The callbacks can be counted.
LEMMA Counts ==
    ASSUME Types
    PROVE  /\ IsFiniteSet(Pending) /\ IsFiniteSet(Busy) /\ Pending \subseteq Busy
           /\ Cardinality(Pending) \in Nat /\ Cardinality(Busy) \in Nat
           /\ Cardinality(Pending) = 0 <=> Pending = {}
           /\ Cardinality(Busy) = 0 <=> Busy = {}
           /\ Cardinality(Pending) <= Cardinality(Busy)
<1>1. IsFiniteSet(1 .. n)
  BY FS_Interval DEF Types
<1>2. Pending \subseteq 1 .. n /\ Busy \subseteq 1 .. n /\ Pending \subseteq Busy
  BY DEF Pending, Busy
<1>3. IsFiniteSet(Pending) /\ IsFiniteSet(Busy)
  BY <1>1, <1>2, FS_Subset
<1>4. Cardinality(Pending) <= Cardinality(Busy)
  BY <1>2, <1>3, FS_Subset
<1> QED
  BY <1>2, <1>3, <1>4, FS_CardinalityType, FS_EmptySet

\* A set after one element has come or gone.
LEMMA OneMore ==
    ASSUME NEW S, IsFiniteSet(S), NEW x
    PROVE  /\ x \notin S => Cardinality(S \cup {x}) = Cardinality(S) + 1
           /\ x \in S => Cardinality(S \ {x}) = Cardinality(S) - 1
BY FS_AddElement, FS_RemoveElement

\* A callback moves.
LEMMA Moves ==
    ASSUME Types, NEW i \in Futures, NEW s \in AtStates, at' = [at EXCEPT ![i] = s], UNCHANGED n
    PROVE  /\ at'[i] = s /\ at' \in [1 .. n -> AtStates]
           /\ \A j \in Futures : j # i => at'[j] = at[j]
           /\ Pending' = IF s \in {"attached", "called"} THEN Pending \cup {i} ELSE Pending \ {i}
           /\ Busy' = IF s # "idle" THEN Busy \cup {i} ELSE Busy \ {i}
<1>1. at'[i] = s /\ at' \in [1 .. n -> AtStates] /\ \A j \in Futures : j # i => at'[j] = at[j]
  BY DEF Types
<1>2. Futures' = Futures
  OBVIOUS
<1>3. Pending' = IF s \in {"attached", "called"} THEN Pending \cup {i} ELSE Pending \ {i}
  BY <1>1, <1>2 DEF Pending
<1>4. Busy' = IF s # "idle" THEN Busy \cup {i} ELSE Busy \ {i}
  BY <1>1, <1>2 DEF Busy
<1> QED
  BY <1>1, <1>3, <1>4

\* What the counts make of it.
LEMMA MovesCount ==
    ASSUME Types, NEW i \in Futures, NEW s \in AtStates, at' = [at EXCEPT ![i] = s], UNCHANGED n
    PROVE  /\ at[i] = "idle" /\ s = "attached" =>
                /\ Cardinality(Pending') = Cardinality(Pending) + 1
                /\ Cardinality(Busy') = Cardinality(Busy) + 1
           /\ at[i] \in {"attached", "called"} /\ s \notin {"attached", "called"} =>
                /\ Cardinality(Pending') = Cardinality(Pending) - 1
                /\ s = "idle" => Cardinality(Busy') = Cardinality(Busy) - 1
                /\ s # "idle" => Cardinality(Busy') = Cardinality(Busy)
                /\ i \in Pending /\ (Cardinality(Pending) = 1 => Pending' = {})
           /\ Setting(i) /\ s \notin {"attached", "called"} =>
                /\ Pending' = Pending /\ Cardinality(Busy') <= Cardinality(Busy)
                /\ Cardinality(Busy') \in Nat
<1>1. /\ Pending' = IF s \in {"attached", "called"} THEN Pending \cup {i} ELSE Pending \ {i}
      /\ Busy' = IF s # "idle" THEN Busy \cup {i} ELSE Busy \ {i}
  BY Moves
<1>2. /\ i \in Pending <=> at[i] \in {"attached", "called"}
      /\ i \in Busy <=> at[i] # "idle"
  BY DEF Pending, Busy
<1>3. /\ IsFiniteSet(Pending) /\ IsFiniteSet(Busy)
      /\ Cardinality(Pending) \in Nat /\ Cardinality(Busy) \in Nat
  BY Counts
<1>4. ASSUME at[i] = "idle", s = "attached"
      PROVE  /\ Cardinality(Pending') = Cardinality(Pending) + 1
             /\ Cardinality(Busy') = Cardinality(Busy) + 1
  <2>1. Pending' = Pending \cup {i} /\ i \notin Pending /\ Busy' = Busy \cup {i} /\ i \notin Busy
    BY <1>1, <1>2, <1>4
  <2> QED
    BY <1>3, <2>1, OneMore
<1>5. ASSUME at[i] \in {"attached", "called"}, s \notin {"attached", "called"}
      PROVE  /\ Cardinality(Pending') = Cardinality(Pending) - 1
             /\ s = "idle" => Cardinality(Busy') = Cardinality(Busy) - 1
             /\ s # "idle" => Cardinality(Busy') = Cardinality(Busy)
             /\ i \in Pending /\ (Cardinality(Pending) = 1 => Pending' = {})
  <2>1. Pending' = Pending \ {i} /\ i \in Pending /\ i \in Busy
    BY <1>1, <1>2, <1>5
  <2>2. Cardinality(Pending \ {i}) = Cardinality(Pending) - 1
    BY <1>3, <2>1, OneMore
  <2>3. ASSUME s = "idle" PROVE Cardinality(Busy') = Cardinality(Busy) - 1
    <3>1. Busy' = Busy \ {i}
      BY <1>1, <2>3
    <3> QED
      BY <1>3, <2>1, <3>1, OneMore
  <2>4. ASSUME s # "idle" PROVE Cardinality(Busy') = Cardinality(Busy)
    <3>1. Busy' = Busy
      BY <1>1, <2>1, <2>4
    <3> QED
      BY <3>1
  <2>5. Cardinality(Pending) = 1 => Pending \ {i} = {}
    <3>1. IsFiniteSet(Pending \ {i})
      BY <1>3, FS_Subset
    <3> QED
      BY <2>2, <3>1, FS_EmptySet
  <2> QED
    BY <2>1, <2>2, <2>3, <2>4, <2>5
<1>6. ASSUME Setting(i), s \notin {"attached", "called"}
      PROVE  /\ Pending' = Pending /\ Cardinality(Busy') <= Cardinality(Busy)
             /\ Cardinality(Busy') \in Nat
  <2>1. i \notin Pending /\ i \in Busy
    BY <1>2, <1>6 DEF Setting
  <2>2. Pending' = Pending /\ (Busy' = Busy \/ Busy' = Busy \ {i})
    BY <1>1, <1>6, <2>1
  <2>3. Cardinality(Busy \ {i}) = Cardinality(Busy) - 1
    BY <1>3, <2>1, OneMore
  <2>4. Cardinality(Busy) <= Cardinality(Busy) /\ Cardinality(Busy) - 1 <= Cardinality(Busy)
    BY <1>3
  <2>6. IsFiniteSet(Busy \ {i})
    BY <1>3, FS_Subset
  <2>7. Cardinality(Busy') \in Nat
    BY <1>3, <2>2, <2>6, FS_CardinalityType
  <2>5. Cardinality(Busy') \in {Cardinality(Busy), Cardinality(Busy) - 1}
    BY <2>2, <2>3
  <2> QED
    BY <2>2, <2>4, <2>5, <2>7
<1> QED
  BY <1>4, <1>5, <1>6

\* What does not depend on where the waiter is.
LEMMA Stays ==
    ASSUME UNCHANGED <<mode, input>>
    PROVE  /\ Futures' = Futures
           /\ Coroutine' <=> Coroutine
           /\ OneCounter' <=> OneCounter
           /\ HelperCallbacks' <=> HelperCallbacks
           /\ \A i : Core(i)' = Core(i)
           /\ at' = at => Pending' = Pending /\ Busy' = Busy
<1>1. (Coroutine' <=> Coroutine) /\ (OneCounter' <=> OneCounter)
  BY DEF Coroutine, OneCounter
<1>2. HelperCallbacks' <=> HelperCallbacks
  BY DEF HelperCallbacks, Coroutine
<1>3. \A i : Core(i)' = Core(i)
  BY DEF Core
<1>4. at' = at => Pending' = Pending /\ Busy' = Busy
  BY DEF Pending, Busy
<1> QED
  BY <1>1, <1>2, <1>3, <1>4

\* A wait whose callbacks are all gone, none of them taken back, is right to
\* say yes.
LEMMA GoneMeansReady ==
    ASSUME Inv, Active, resets = 0, Pending = {}, pc = "attach" => pos = n + 1
    PROVE  AllReady
<1> SUFFICES ASSUME NEW i \in Futures PROVE Core(i) \in ready
  BY DEF AllReady
<1>1. at[i] \in AtStates /\ at[i] \notin {"attached", "called"} /\ n \in Nat
  BY DEF Types, Pending
<1> QED
  BY <1>1 DEF IdleReady, AtStates, Coming

\* The wait returns: the event is gone.
LEMMA ReturnInv ==
    ASSUME Inv, Active, pc' = "done", ret' \in BOOLEAN, alive' = FALSE, count' \in Int,
           UNCHANGED <<mode, input, ready, resets, expired, attached, pos, state>>,
           at' \in [1 .. n -> AtStates],
           \A i \in Futures : \/ at'[i] = "idle"
                              \/ event = "futex2" /\ at'[i] = "notify" /\ at[i] = "notify",
           ret' => AllReady,
           ~ret' => mode = "WaitFor" /\ \A i \in Futures : at'[i] = "idle"
    PROVE  Inv'
<1>0. /\ Futures' = Futures /\ (Coroutine' <=> Coroutine) /\ \A i : Core(i)' = Core(i)
  BY Stays
<1>1. Types' /\ Places' /\ Timing' /\ Callbacks'
  BY <1>0 DEF Types, Places, Timing, Callbacks
<1>2. Counted' /\ Holds'
  BY DEF Counted, Holds
<1>3. Setters'
  BY <1>0 DEF Setters, Setting
<1>4. Ending'
  BY DEF Ending, Setting
<1>5. IdleReady'
  BY <1>0 DEF IdleReady, Coming
<1>6. Returned'
  BY <1>0 DEF Returned, AllReady
<1>7. NextUse'
  <2>1. dup' \subseteq Futures
    BY DEF Types
  <2> QED
    BY <2>1 DEF NextUse
<1> QED
  BY <1>1, <1>2, <1>3, <1>4, <1>5, <1>6, <1>7

-----------------------------------------------------------------------------
(***************************************************************************)
(* The waiter.                                                             *)
(***************************************************************************)

\* The waiter goes on after the callbacks are attached: what each step owes.
Goes ==
    /\ Active /\ pc' \in Blocked \cup Awaiting /\ (pc = "attach" => pos = n + 1)
    /\ UNCHANGED <<mode, input, ready, at, alive, state, attached, resets, ret>>
    /\ pos' \in Nat /\ count' \in Int /\ expired' \in BOOLEAN
    /\ owner' = owner \/ event # "mutex" \/ owner \in {None, Waiter}
    /\ event = "mutex" /\ pc' \in {"wait", "reset"} => owner' = Waiter
    /\ \A i \in dup : at[i] = "attached" /\ ~HelperCallbacks => next' = "list"
    /\ pc' = "suspended" /\ mode # "AwaitOn" => next' = "promise"
    /\ pc' \in Awaiting <=> Coroutine
    /\ expired => expired'
    /\ expired' => mode = "WaitFor"
    /\ pc' = "timedout" => expired' /\ resets = 0
    /\ pc' = "reset" => expired' /\ state = 0 /\ resets = 0 /\ pos' = 1
    /\ ~OneCounter => count' = Cardinality(Pending) + Extra'

\* The owner of a mutex that the waiter may take is no callback.
LEMMA NoOwner ==
    ASSUME Types, NEW i \in Futures
    PROVE  i # None /\ i # Waiter
BY ConstantsAssumption DEF Types

\* A step of the waiter that returns nothing and takes nothing back.
LEMMA GoesInv ==
    ASSUME Inv, Goes
    PROVE  Inv'
<1> USE DEF Goes
<1>0. /\ Futures' = Futures /\ (Coroutine' <=> Coroutine) /\ (OneCounter' <=> OneCounter)
      /\ (HelperCallbacks' <=> HelperCallbacks)
      /\ (\A i : Core(i)' = Core(i)) /\ Pending' = Pending /\ Busy' = Busy
  BY Stays
<1>1. Types'
  BY DEF Types
<1>2. Places'
  BY <1>0 DEF Places, Types
<1>3. Timing' /\ Callbacks'
  BY DEF Timing, Callbacks
<1>4. Counted'
  BY <1>0 DEF Counted
<1>5. Setters'
  BY <1>0, NoOwner DEF Setters, Setting
<1>6. Holds'
  BY DEF Holds
<1>7. Ending'
  <2>1. Over' <=> Over
    BY <1>0 DEF Over, Setting
  <2> QED
    BY <1>0, <2>1 DEF Ending, Setting
<1>8. IdleReady'
  <2>1. \A i \in Futures : pc = "attach" => i < pos
    BY DEF Types
  <2> QED
    BY <1>0, <2>1 DEF IdleReady
<1>9. Returned' /\ NextUse'
  BY <1>0 DEF Returned, NextUse
<1> QED
  BY <1>1, <1>2, <1>3, <1>4, <1>5, <1>6, <1>7, <1>8, <1>9

\* The event is made.
LEMMA BeginInv ==
    ASSUME Inv, Begin
    PROVE  Inv'
<1>z. /\ pc = "start" /\ pc' = "attach" /\ pos' = 1 /\ attached' = 0 /\ resets' = 0
      /\ count' = n + 1 /\ alive' = TRUE /\ owner' = None /\ state' = 0 /\ next' = None
      /\ expired' = FALSE /\ ret' = None /\ UNCHANGED <<mode, input, ready, at>>
  BY DEF Begin
<1>0. /\ Futures' = Futures /\ (Coroutine' <=> Coroutine) /\ (OneCounter' <=> OneCounter)
      /\ (\A i : Core(i)' = Core(i)) /\ Pending' = Pending /\ Busy' = Busy
  BY <1>z, Stays
<1>a. \A i \in Futures : at[i] = "idle"
  BY <1>z DEF Callbacks
<1>b. /\ Pending = {} /\ Busy = {} /\ Cardinality(Pending) = 0 /\ Cardinality(Busy) = 0
      /\ n \in Nat /\ n >= 1
  <2>1. Pending = {} /\ Busy = {}
    BY <1>a DEF Pending, Busy
  <2> QED
    BY <2>1, Counts DEF Types
<1>1. Types'
  <2>1. count' \in Int /\ pos' \in Nat /\ attached' \in Nat /\ resets' \in Nat /\ state' \in 0 .. 2
    BY <1>z, <1>b
  <2>2. alive' \in BOOLEAN /\ expired' \in BOOLEAN /\ ret' \in BOOLEAN \cup {None}
    BY <1>z
  <2> QED
    BY <1>z, <2>1, <2>2 DEF Types
<1>2. Places' /\ Timing'
  BY <1>z, <1>0, <1>b DEF Places, Timing
<1>3. Callbacks'
  BY <1>z, <1>0, <1>a DEF Callbacks
<1>4. Counted'
  BY <1>z, <1>0, <1>b DEF Counted, Extra
<1>5. Setters' /\ Holds'
  BY <1>z, <1>0, <1>a DEF Setters, Setting, Holds
<1>6. Ending'
  BY <1>z, <1>0, <1>a DEF Ending, Over, Setting
<1>7. IdleReady'
  BY <1>z, <1>0, <1>a, <1>b DEF IdleReady, Coming
<1>8. Returned' /\ NextUse'
  <2>1. \A i \in dup : at[i] # "attached"
    BY <1>a DEF Types
  <2> QED
    BY <1>z, <2>1 DEF Returned, NextUse
<1> QED
  BY <1>1, <1>2, <1>3, <1>4, <1>5, <1>6, <1>7, <1>8

\* While the waiter attaches callbacks and there is more than one counter, the
\* event is not over; nor is it over before the only future has its callback.
LEMMA Attaching ==
    ASSUME Inv, pc = "attach", pos \in Futures
    PROVE  /\ state = 0 /\ (\A i \in Futures : ~Setting(i)) /\ at[pos] = "idle"
           /\ ~expired /\ resets = 0
<1>1. pos # n + 1
  BY DEF Types
<1> QED
  BY <1>1 DEF Ending, Over, Callbacks, Timing

\* SetCallback on the next future.
LEMMA AttachInv ==
    ASSUME Inv, Attach
    PROVE  Inv'
<1>z. /\ pc = "attach" /\ pos \in Futures /\ pos' = pos + 1
      /\ UNCHANGED <<mode, input, ready, pc, resets, count, alive, owner, state, ret, expired>>
  BY DEF Attach
<1>0. /\ Futures' = Futures /\ (Coroutine' <=> Coroutine) /\ (OneCounter' <=> OneCounter)
      /\ (HelperCallbacks' <=> HelperCallbacks)
      /\ (\A i : Core(i)' = Core(i)) /\ (at' = at => Pending' = Pending /\ Busy' = Busy)
  BY <1>z, Stays
<1>a. /\ state = 0 /\ (\A i \in Futures : ~Setting(i)) /\ at[pos] = "idle"
      /\ ~expired /\ resets = 0
  BY <1>z, Attaching
<1>b. pos \in Nat /\ n \in Nat /\ pos <= n /\ attached \in Nat /\ attached < pos /\ count \in Int
  BY <1>z DEF Types, Counted
<1>c. CASE Core(pos) \in ready /\ UNCHANGED <<at, attached, next>>
  <2>1. Types' /\ Places' /\ Timing'
    BY <1>z, <1>b, <1>c, <1>0 DEF Types, Places, Timing
  <2>2. Callbacks'
    BY <1>z, <1>b, <1>c DEF Callbacks
  <2>3. Counted'
    BY <1>z, <1>b, <1>c, <1>0 DEF Counted, Extra
  <2>4. Setters' /\ Holds'
    BY <1>z, <1>c, <1>0 DEF Setters, Setting, Holds
  <2>5. Ending'
    BY <1>z, <1>a, <1>c, <1>0 DEF Ending, Over, Setting
  <2>6. IdleReady'
    <3>1. \A i \in Futures : i < pos + 1 => i < pos \/ i = pos
      BY <1>b
    <3> QED
      BY <1>z, <1>a, <1>c, <1>0, <3>1 DEF IdleReady
  <2>7. Returned' /\ NextUse'
    BY <1>z, <1>c, <1>0 DEF Returned, NextUse
  <2> QED
    BY <2>1, <2>2, <2>3, <2>4, <2>5, <2>6, <2>7
<1>d. CASE /\ Core(pos) \notin ready /\ at' = [at EXCEPT ![pos] = "attached"]
           /\ attached' = attached + 1
           /\ next' = IF pos \in dup /\ ~HelperCallbacks THEN "list" ELSE next
  <2>0. "attached" \in AtStates
    BY DEF AtStates
  <2>a. /\ at'[pos] = "attached" /\ at' \in [1 .. n -> AtStates]
        /\ \A j \in Futures : j # pos => at'[j] = at[j]
    BY <1>z, <1>d, <2>0, Moves
  <2>b. /\ Cardinality(Pending') = Cardinality(Pending) + 1
        /\ Cardinality(Busy') = Cardinality(Busy) + 1
    BY <1>z, <1>a, <1>d, <2>0, MovesCount
  <2>c. \A j \in Futures : ~Setting(j)'
    BY <1>a, <2>a DEF Setting
  <2>1. Types' /\ Places' /\ Timing'
    BY <1>z, <1>b, <1>d, <1>0, <2>a DEF Types, Places, Timing
  <2>2. Callbacks'
    BY <1>z, <1>b, <2>a DEF Callbacks
  <2>3. Counted'
    BY <1>z, <1>a, <1>b, <1>d, <1>0, <2>b, Counts DEF Counted, Extra
  <2>4. Setters' /\ Holds'
    BY <1>z, <1>0, <2>c DEF Setters, Setting, Holds
  <2>5. Ending'
    BY <1>z, <1>a, <1>0, <2>c DEF Ending, Over
  <2>6. IdleReady'
    <3>1. \A i \in Futures : i < pos + 1 => i < pos \/ i = pos
      BY <1>b
    <3> QED
      BY <1>z, <1>a, <1>0, <2>a, <3>1 DEF IdleReady, Coming
  <2>7. Returned' /\ NextUse'
    <3>1. dup \subseteq Futures
      BY DEF Types
    <3> QED
      BY <1>z, <1>d, <1>0, <2>a, <3>1 DEF Returned, NextUse
  <2> QED
    BY <2>1, <2>2, <2>3, <2>4, <2>5, <2>6, <2>7
<1> QED
  BY <1>c, <1>d DEF Attach

\* A callback is idle, pending or setting the event.
LEMMA AllIdle ==
    ASSUME Inv, Pending = {}, \A i \in Futures : ~Setting(i)
    PROVE  \A i \in Futures : at[i] = "idle"
<1> SUFFICES ASSUME NEW i \in Futures PROVE at[i] = "idle"
  OBVIOUS
<1>1. at[i] \in AtStates /\ at[i] \notin {"attached", "called"}
  BY DEF Types, Pending
<1> QED
  BY <1>1 DEF Setting, AtStates, Coming

\* WaitRange subtracts the callbacks that are not attached, and itself.
LEMMA SubEqualInv ==
    ASSUME Inv, SubEqual
    PROVE  Inv'
<1>z. /\ pc = "attach" /\ pos = n + 1 /\ ~Coroutine /\ resets = 0 /\ ~expired
      /\ UNCHANGED <<mode, input, ready, at, pos, attached, resets, owner, state, next, expired>>
  BY DEF SubEqual, Timing
<1>a. /\ n \in Nat /\ attached \in Nat /\ attached <= n /\ count \in Int
      /\ Cardinality(Pending) \in Nat /\ Cardinality(Busy) \in Nat
      /\ Cardinality(Busy) + resets <= attached
      /\ (~OneCounter => count = Cardinality(Pending) + ((n + 1) - attached))
  BY <1>z, Counts DEF Types, Counted, Extra
<1>b. \/ attached = 0 /\ Return(TRUE) /\ UNCHANGED count
      \/ OneCounter /\ pc' = "make" /\ UNCHANGED <<count, ret, alive>>
      \/ /\ ~OneCounter /\ count' = count - ((n - attached) + 1)
         /\ \/ count = (n - attached) + 1 /\ Return(TRUE)
            \/ pc' = "make" /\ UNCHANGED <<ret, alive>>
  BY DEF SubEqual, Subtracted
<1>t. at \in [1 .. n -> AtStates] /\ pos \in Nat
  BY DEF Types
<1>1. ASSUME Return(TRUE), count' \in Int, \A i \in Futures : at[i] = "idle" PROVE Inv'
  <2>1. Pending = {}
    BY <1>1 DEF Pending
  <2>2. AllReady
    BY <1>z, <2>1, GoneMeansReady
  <2> QED
    BY <1>z, <1>1, <1>t, <2>2, ReturnInv DEF Return
<1>2. ASSUME pc' = "make", UNCHANGED <<ret, alive>>, count' \in Int,
             ~OneCounter => count' = Cardinality(Pending)
      PROVE  Inv'
  <2>1. Goes
    <3>1. Extra' = 0
      BY <1>2 DEF Extra
    <3>2. \A i \in dup : at[i] = "attached" /\ ~HelperCallbacks => next' = "list"
      BY <1>z DEF NextUse
    <3> QED
      BY <1>z, <1>t, <1>a, <1>2, <3>1, <3>2 DEF Goes, Types, Timing
  <2> QED
    BY <2>1, GoesInv
<1>3. CASE attached = 0 /\ Return(TRUE) /\ UNCHANGED count
  <2>1. Busy = {}
    BY <1>a, <1>z, <1>3, Counts DEF Types
  <2>2. \A i \in Futures : at[i] = "idle"
    BY <2>1 DEF Busy
  <2> QED
    BY <1>1, <1>3, <1>a, <2>2
<1>4. CASE OneCounter /\ pc' = "make" /\ UNCHANGED <<count, ret, alive>>
  BY <1>2, <1>4, <1>a
<1>5. CASE /\ ~OneCounter /\ count' = count - ((n - attached) + 1)
           /\ count = (n - attached) + 1 /\ Return(TRUE)
  <2>1. Cardinality(Pending) = 0
    BY <1>a, <1>5
  <2>2. Pending = {}
    BY <2>1, Counts
  <2>3. \A i \in Futures : ~Setting(i)
    BY <1>z, <1>5 DEF Ending, Over
  <2>4. \A i \in Futures : at[i] = "idle"
    BY <2>2, <2>3, AllIdle
  <2> QED
    BY <1>1, <1>5, <1>a, <2>4
<1>6. CASE /\ ~OneCounter /\ count' = count - ((n - attached) + 1)
           /\ pc' = "make" /\ UNCHANGED <<ret, alive>>
  <2>1. count' = Cardinality(Pending) /\ count' \in Int
    BY <1>a, <1>6
  <2> QED
    BY <1>2, <1>6, <2>1
<1> QED
  BY <1>b, <1>3, <1>4, <1>5, <1>6

\* Where a blocked waiter stands: what a step that leaves the counter alone keeps.
LEMMA BlockedState ==
    ASSUME Inv, pc \in Blocked
    PROVE  /\ ~Coroutine /\ Active /\ pos \in Nat /\ count \in Int /\ expired \in BOOLEAN
           /\ (expired => mode = "WaitFor") /\ (resets # 0 => expired)
           /\ (\A i \in dup : at[i] = "attached" /\ ~HelperCallbacks => next = "list")
           /\ (~OneCounter /\ (pc = "reset" => resets = 0) => count = Cardinality(Pending))
<1>1. (~OneCounter => count = Cardinality(Pending) + Extra) /\ Cardinality(Pending) \in Nat
  BY Counts DEF Counted
<1>2. (pc = "reset" => Extra = resets) /\ (pc # "reset" => Extra = 0)
  BY DEF Extra
<1> QED
  BY <1>1, <1>2 DEF Types, Places, Timing, NextUse

\* The waiter locks the mutex of its event.
LEMMA LockInv ==
    ASSUME Inv, Lock
    PROVE  Inv'
<1>z. /\ pc \in {"make", "relock", "timedout"} /\ (event = "mutex" => owner = None)
      /\ owner' = IF event = "mutex" THEN Waiter ELSE None
      /\ pc' \in {"reset", "wait"} /\ (pc' = "reset" => pc = "timedout" /\ state = 0)
      /\ pos' = IF pc = "timedout" THEN 1 ELSE pos
      /\ UNCHANGED <<mode, input, ready, at, attached, resets, count, alive, state, next, ret, expired>>
  BY DEF Lock
<1>a. /\ ~Coroutine /\ Active /\ pos \in Nat /\ count \in Int /\ expired \in BOOLEAN
      /\ (expired => mode = "WaitFor")
      /\ (\A i \in dup : at[i] = "attached" /\ ~HelperCallbacks => next = "list")
      /\ (~OneCounter => count = Cardinality(Pending))
  BY <1>z, BlockedState
<1>b. pc = "timedout" => expired /\ resets = 0
  BY DEF Timing
<1>c. Extra' = 0 /\ Cardinality(Pending) \in Nat
  BY <1>z, <1>b, Counts DEF Extra
<1>d. Goes
  BY <1>z, <1>a, <1>b, <1>c DEF Goes
<1> QED
  BY <1>d, GoesInv

\* The waiter finds the event set, or goes to sleep.
LEMMA WaitInv ==
    ASSUME Inv, Wait
    PROVE  Inv'
<1>z. /\ pc = "wait"
      /\ UNCHANGED <<mode, input, ready, at, pos, attached, resets, count, state, next, expired>>
  BY DEF Wait
<1>y. \/ Finished /\ Return(resets = 0) /\ owner' = None
      \/ pc' = "asleep" /\ owner' = None /\ UNCHANGED <<ret, alive>>
  BY DEF Wait
<1>a. /\ ~Coroutine /\ Active /\ pos \in Nat /\ count \in Int /\ expired \in BOOLEAN
      /\ (expired => mode = "WaitFor") /\ (resets # 0 => expired)
      /\ (\A i \in dup : at[i] = "attached" /\ ~HelperCallbacks => next = "list")
      /\ (~OneCounter => count = Cardinality(Pending))
  BY <1>z, BlockedState
<1>1. CASE Finished /\ Return(resets = 0) /\ owner' = None
  <2>1. state # 0 /\ (event = "futex1" => state = 2)
    BY <1>1 DEF Finished
  <2>2. Pending = {}
    BY <1>a, <2>1 DEF Ending, Over
  <2>3. \A i \in Futures : at[i] = "idle" \/ (event = "futex2" /\ at[i] = "notify")
    <3> SUFFICES ASSUME NEW i \in Futures, at[i] # "idle" PROVE event = "futex2" /\ at[i] = "notify"
      OBVIOUS
    <3>1. at[i] \in AtStates /\ at[i] \notin {"attached", "called"}
      BY <2>2 DEF Types, Pending
    <3>2. Setting(i)
      BY <3>1 DEF Setting, AtStates, Coming
    <3>3. event # "futex1"
      BY <2>1, <3>2 DEF Ending
    <3>4. at[i] = "notify"
      BY <2>1, <3>2, <3>3 DEF Setters, Setting
    <3>5. event # "mutex"
      BY <1>z, <3>4, NoOwner DEF Setters, Holds
    <3> QED
      BY <3>3, <3>4, <3>5 DEF Types
  <2>4. resets = 0 => AllReady
    BY <1>z, <1>a, <2>2, GoneMeansReady
  <2>5. resets # 0 => mode = "WaitFor" /\ event = "mutex"
    BY <1>a DEF Places
  <2>6. /\ ret' = (resets = 0) /\ ret' \in BOOLEAN /\ pc' = "done" /\ alive' = FALSE
        /\ at' \in [1 .. n -> AtStates] /\ count' \in Int
    BY <1>z, <1>1, <1>a DEF Return, Types
  <2> QED
    BY <1>z, <1>a, <2>3, <2>4, <2>5, <2>6, ReturnInv
<1>2. CASE pc' = "asleep" /\ owner' = None /\ UNCHANGED <<ret, alive>>
  <2>1. Extra' = 0 /\ Cardinality(Pending) \in Nat
    BY <1>2, Counts DEF Extra
  <2>2. event = "mutex" => owner = Waiter
    BY <1>z DEF Holds
  <2>3. Goes
    BY <1>z, <1>2, <1>a, <2>1, <2>2 DEF Goes
  <2> QED
    BY <2>3, GoesInv
<1> QED
  BY <1>y, <1>1, <1>2

\* A sleeper wakes for no reason, or because its time is over.
LEMMA WakeInv ==
    ASSUME Inv, Spurious \/ Timeout
    PROVE  Inv'
<1>z. /\ pc = "asleep"
      /\ UNCHANGED <<mode, input, ready, at, pos, attached, resets, count, alive, owner, state, next, ret>>
  BY DEF Spurious, Timeout
<1>y. \/ pc' = "relock" /\ UNCHANGED expired
      \/ pc' = "timedout" /\ mode = "WaitFor" /\ ~expired /\ expired' = TRUE
  BY DEF Spurious, Timeout
<1>a. /\ ~Coroutine /\ Active /\ pos \in Nat /\ count \in Int /\ expired \in BOOLEAN
      /\ (expired => mode = "WaitFor") /\ (resets # 0 => expired)
      /\ (\A i \in dup : at[i] = "attached" /\ ~HelperCallbacks => next = "list")
      /\ (~OneCounter => count = Cardinality(Pending))
  BY <1>z, BlockedState
<1>c. Extra' = 0 /\ Cardinality(Pending) \in Nat
  BY <1>y, Counts DEF Extra
<1>d. /\ expired' \in BOOLEAN /\ (expired => expired') /\ (expired' => mode = "WaitFor")
      /\ pc' \in {"relock", "timedout"} /\ (pc' = "timedout" => expired' /\ resets = 0)
  <2>1. CASE pc' = "relock" /\ UNCHANGED expired
    BY <1>a, <2>1
  <2>2. CASE pc' = "timedout" /\ mode = "WaitFor" /\ ~expired /\ expired' = TRUE
    BY <1>a, <2>2
  <2> QED
    BY <1>y, <2>1, <2>2
<1>e. Goes
  BY <1>z, <1>a, <1>c, <1>d DEF Goes
<1> QED
  BY <1>e, GoesInv

\* ResetImpl on the next future.
LEMMA ResetInv ==
    ASSUME Inv, Reset
    PROVE  Inv'
<1>z. /\ pc = "reset" /\ pos \in Futures /\ pos' = pos + 1
      /\ UNCHANGED <<mode, input, ready, pc, attached, count, alive, owner, state, next, ret, expired>>
  BY DEF Reset
<1>0. /\ Futures' = Futures /\ (Coroutine' <=> Coroutine) /\ (OneCounter' <=> OneCounter)
      /\ (HelperCallbacks' <=> HelperCallbacks)
      /\ (\A i : Core(i)' = Core(i)) /\ (at' = at => Pending' = Pending /\ Busy' = Busy)
  BY <1>z, Stays
<1>a. /\ pos \in Nat /\ n \in Nat /\ pos <= n /\ attached \in Nat /\ resets \in Nat /\ count \in Int
      /\ expired /\ state = 0 /\ mode = "WaitFor"
  BY <1>z DEF Types, Timing
<1>b. CASE UNCHANGED <<at, resets>>
  <2>1. Types' /\ Places' /\ Timing' /\ Callbacks'
    BY <1>z, <1>a, <1>b, <1>0 DEF Types, Places, Timing, Callbacks
  <2>2. Counted'
    BY <1>z, <1>b, <1>0 DEF Counted, Extra
  <2>3. Setters' /\ Holds'
    BY <1>z, <1>b, <1>0 DEF Setters, Setting, Holds
  <2>4. Ending'
    BY <1>z, <1>b, <1>0 DEF Ending, Over, Setting
  <2>5. IdleReady' /\ Returned' /\ NextUse'
    BY <1>z, <1>b, <1>0 DEF IdleReady, Returned, NextUse
  <2> QED
    BY <2>1, <2>2, <2>3, <2>4, <2>5
<1>c. CASE at[pos] = "attached" /\ at' = [at EXCEPT ![pos] = "idle"] /\ resets' = resets + 1
  <2>0. "idle" \in AtStates
    BY DEF AtStates
  <2>a. /\ at'[pos] = "idle" /\ at' \in [1 .. n -> AtStates]
        /\ \A j \in Futures : j # pos => at'[j] = at[j]
    BY <1>z, <1>c, <2>0, Moves
  <2>b. /\ Cardinality(Pending') = Cardinality(Pending) - 1
        /\ Cardinality(Busy') = Cardinality(Busy) - 1
        /\ pos \in Pending
    BY <1>z, <1>c, <2>0, MovesCount
  <2>c. ~Over
    BY <1>z, <2>b DEF Ending
  <2>d. \A j \in Futures : ~Setting(j) /\ ~Setting(j)'
    BY <2>c, <2>a DEF Over, Setting
  <2>1. Types' /\ Places' /\ Timing' /\ Callbacks'
    BY <1>z, <1>a, <1>c, <1>0, <2>a DEF Types, Places, Timing, Callbacks
  <2>2. Counted'
    <3>1. /\ Cardinality(Pending) \in Nat /\ Cardinality(Busy) \in Nat
          /\ (~OneCounter => count = Cardinality(Pending) + resets)
          /\ Cardinality(Busy) + resets <= attached /\ attached <= n
      BY <1>z, Counts DEF Counted, Extra
    <3>2. Extra' = resets + 1
      BY <1>z, <1>c DEF Extra
    <3>3. ~OneCounter => count = (Cardinality(Pending) - 1) + (resets + 1)
      BY <1>a, <3>1
    <3>4. (Cardinality(Busy) - 1) + (resets + 1) <= attached
      BY <1>a, <3>1
    <3> QED
      BY <1>z, <1>c, <1>0, <2>b, <3>1, <3>2, <3>3, <3>4 DEF Counted
  <2>3. Setters' /\ Holds'
    BY <1>z, <1>0, <2>d DEF Setters, Setting, Holds
  <2>4. Ending'
    BY <1>z, <1>a, <1>0, <2>d DEF Ending, Over
  <2>5. IdleReady'
    BY <1>z, <1>a, <1>c, <1>0, <2>a DEF IdleReady, Coming
  <2>6. Returned' /\ NextUse'
    <3>1. dup \subseteq Futures
      BY DEF Types
    <3> QED
      BY <1>z, <1>0, <2>a, <3>1 DEF Returned, NextUse
  <2> QED
    BY <2>1, <2>2, <2>3, <2>4, <2>5, <2>6
<1> QED
  BY <1>b, <1>c DEF Reset, Taken

\* WaitRange after the reset.
LEMMA AfterResetInv ==
    ASSUME Inv, AfterReset
    PROVE  Inv'
<1>z. /\ pc = "reset"
      /\ UNCHANGED <<mode, input, ready, at, pos, attached, resets, state, next, expired>>
  BY DEF AfterReset
<1>a. /\ ~Coroutine /\ Active /\ pos \in Nat /\ count \in Int /\ expired \in BOOLEAN
      /\ (expired => mode = "WaitFor") /\ (resets # 0 => expired)
      /\ (\A i \in dup : at[i] = "attached" /\ ~HelperCallbacks => next = "list")
      /\ (~OneCounter /\ resets = 0 => count = Cardinality(Pending))
  BY <1>z, BlockedState
<1>b. /\ resets \in Nat /\ attached \in Nat
      /\ Cardinality(Pending) \in Nat /\ Cardinality(Busy) \in Nat
      /\ (~OneCounter => count = Cardinality(Pending) + resets)
      /\ Cardinality(Busy) + resets <= attached
  BY <1>z, Counts DEF Types, Counted, Extra
<1>t. at \in [1 .. n -> AtStates]
  BY DEF Types
<1>1. ASSUME resets # 0, Return(FALSE), count' \in Int, \A i \in Futures : at[i] = "idle" PROVE Inv'
  BY <1>z, <1>1, <1>a, <1>t, ReturnInv DEF Return
<1>2. ASSUME pc' = "wait", UNCHANGED <<ret, alive, owner>>, count' \in Int,
             ~OneCounter => count' = Cardinality(Pending)
      PROVE  Inv'
  <2>1. Goes
    <3>1. Extra' = 0 /\ (event = "mutex" => owner = Waiter)
      BY <1>z, <1>2 DEF Extra, Holds
    <3> QED
      BY <1>z, <1>a, <1>b, <1>2, <3>1 DEF Goes
  <2> QED
    BY <2>1, GoesInv
<1>3. CASE resets # 0 /\ resets = attached /\ Return(FALSE) /\ UNCHANGED count
  <2>1. Cardinality(Busy) = 0
    BY <1>b, <1>3
  <2>2. \A i \in Futures : at[i] = "idle"
    BY <2>1, Counts DEF Busy
  <2> QED
    BY <1>1, <1>3, <1>a, <2>2
<1>4. CASE ~OneCounter /\ resets # 0 /\ count' = count - resets /\ count = resets /\ Return(FALSE)
  <2>1. Cardinality(Pending) = 0
    BY <1>b, <1>4
  <2>2. Pending = {}
    BY <2>1, Counts
  <2>3. \A i \in Futures : ~Setting(i)
    BY <1>z, <1>4 DEF Ending, Over
  <2>4. \A i \in Futures : at[i] = "idle"
    BY <2>2, <2>3, AllIdle
  <2> QED
    BY <1>1, <1>4, <1>a, <1>b, <2>4
<1>5. CASE ~OneCounter /\ count' = count - resets /\ pc' = "wait" /\ UNCHANGED <<ret, alive, owner>>
  <2>1. count' = Cardinality(Pending) /\ count' \in Int
    BY <1>b, <1>5
  <2> QED
    BY <1>2, <1>5, <2>1
<1>6. CASE (OneCounter \/ resets = 0) /\ pc' = "wait" /\ UNCHANGED <<count, ret, alive, owner>>
  BY <1>2, <1>6, <1>a
<1> QED
  BY <1>3, <1>4, <1>5, <1>6 DEF AfterReset

\* The caller of a timed wait that failed waits again.
LEMMA AgainInv ==
    ASSUME Inv, Again
    PROVE  Inv'
<1>z. /\ pc = "done" /\ ret = FALSE /\ mode' = "Wait" /\ pc' = "start"
      /\ UNCHANGED <<input, ready, at, pos, attached, resets, count, alive, owner, state, next, ret, expired>>
  BY DEF Again
<1>a. mode = "WaitFor" /\ (\A i \in Futures : at[i] = "idle") /\ ~alive /\ event = "mutex"
  BY <1>z DEF Returned, Places
<1>0. Futures' = Futures /\ ~Coroutine' /\ dup \subseteq Futures
  BY <1>z DEF Coroutine, Types
<1>1. Types' /\ Places' /\ Timing' /\ Callbacks'
  BY <1>z, <1>a, <1>0 DEF Types, Places, Timing, Callbacks
<1>2. Counted' /\ Holds' /\ Returned'
  BY <1>z DEF Counted, Holds, Returned
<1>3. Setters' /\ Ending'
  BY <1>z, <1>a, <1>0 DEF Setters, Ending, Setting
<1>4. IdleReady' /\ NextUse'
  BY <1>z, <1>a, <1>0 DEF IdleReady, NextUse, Coming
<1> QED
  BY <1>1, <1>2, <1>3, <1>4

\* Where an awaiting coroutine stands.
LEMMA AwaitState ==
    ASSUME Inv, Coroutine, Active
    PROVE  /\ ~OneCounter /\ mode # "WaitFor" /\ ~expired /\ resets = 0 /\ state = 0
           /\ (\A i \in Futures : ~Setting(i))
           /\ (\A i \in dup : at[i] = "attached" /\ ~HelperCallbacks => FALSE)
           /\ pos \in Nat /\ count \in Int /\ expired \in BOOLEAN
           /\ at \in [1 .. n -> AtStates] /\ pc \in {"attach"} \cup Awaiting
           /\ Cardinality(Pending) \in Nat /\ count = Cardinality(Pending) + Extra
<1>1. ~OneCounter /\ mode # "WaitFor"
  BY DEF OneCounter, Coroutine
<1>2. ~expired /\ resets = 0
  BY <1>1 DEF Timing
<1>3. state = 0 /\ \A i \in Futures : ~Setting(i)
  BY DEF Ending, Over
<1>4. \A i \in dup : at[i] = "attached" /\ ~HelperCallbacks => FALSE
  <2>1. HelperCallbacks <=> dup # {}
    BY Zenon DEF HelperCallbacks
  <2> QED
    BY <2>1
<1> QED
  BY <1>1, <1>2, <1>3, <1>4, Counts DEF Types, Places, Counted

\* A coroutine that need not, or need no longer, wait.
LEMMA AwaitReturns ==
    ASSUME Inv, Coroutine, Active, pc # "attach", Cardinality(Pending) = 0, Return(TRUE),
           count' \in Int,
           UNCHANGED <<mode, input, ready, at, pos, attached, resets, state, expired>>
    PROVE  Inv'
<1>1. /\ resets = 0 /\ (\A i \in Futures : ~Setting(i)) /\ at \in [1 .. n -> AtStates]
  BY AwaitState
<1>2. Pending = {}
  BY Counts
<1>3. \A i \in Futures : at[i] = "idle"
  BY <1>1, <1>2, AllIdle
<1>4. AllReady
  BY <1>1, <1>2, GoneMeansReady
<1> QED
  BY <1>1, <1>3, <1>4, ReturnInv DEF Return

\* A coroutine that goes on to wait.
LEMMA AwaitGoes ==
    ASSUME Inv, Coroutine, Active, pc' \in Awaiting, pc = "attach" => pos = n + 1,
           count' = Cardinality(Pending) + Extra', count' \in Int,
           pc' = "suspended" /\ mode # "AwaitOn" => next' = "promise",
           UNCHANGED <<mode, input, ready, at, pos, attached, resets, alive, owner, state, ret, expired>>
    PROVE  Inv'
<1>1. /\ ~OneCounter /\ ~expired /\ pos \in Nat /\ expired \in BOOLEAN
      /\ (\A i \in dup : at[i] = "attached" /\ ~HelperCallbacks => FALSE)
  BY AwaitState
<1>2. Goes
  BY <1>1 DEF Goes
<1> QED
  BY <1>2, GoesInv

\* The steps of an await.
LEMMA AwaitInv ==
    ASSUME Inv, Subtract \/ AwaitReady \/ AwaitSuspend
    PROVE  Inv'
<1>a. Coroutine /\ Active
  BY DEF Subtract, AwaitReady, AwaitSuspend, Places
<1>b. Cardinality(Pending) \in Nat /\ count = Cardinality(Pending) + Extra /\ count \in Int
  BY <1>a, AwaitState
<1>1. CASE Subtract
  <2>1. n \in Nat /\ attached \in Nat
    BY DEF Types
  <2>2. Extra = (n + 1) - attached /\ Extra' = 1 /\ pc' \in Awaiting
    BY <1>1 DEF Subtract, Extra
  <2>3. count' = Cardinality(Pending) + Extra' /\ count' \in Int
    BY <1>1, <1>b, <2>1, <2>2 DEF Subtract
  <2> QED
    BY <1>1, <1>a, <2>2, <2>3, AwaitGoes DEF Subtract
<1>2. CASE AwaitReady
  <2>1. Extra = 1
    BY <1>2 DEF AwaitReady, Extra
  <2>2. CASE count = 1
    <3>1. Cardinality(Pending) = 0
      BY <1>b, <2>1, <2>2
    <3> QED
      BY <1>2, <1>a, <1>b, <2>2, <3>1, AwaitReturns DEF AwaitReady
  <2>3. CASE count # 1
    <3>1. pc' = "suspend" /\ UNCHANGED <<ret, alive>>
      BY <1>2, <2>3 DEF AwaitReady
    <3>2. Extra' = 1
      BY <3>1 DEF Extra
    <3> QED
      BY <1>2, <1>a, <1>b, <2>1, <3>1, <3>2, AwaitGoes DEF AwaitReady
  <2> QED
    BY <2>2, <2>3
<1>3. CASE AwaitSuspend
  <2>1. Extra = 1 /\ count' = Cardinality(Pending) /\ count' \in Int
    BY <1>3, <1>b DEF AwaitSuspend, Extra
  <2>2. CASE count = 1
    <3>1. Cardinality(Pending) = 0
      BY <1>b, <2>1, <2>2
    <3> QED
      BY <1>3, <1>a, <2>1, <2>2, <3>1, AwaitReturns DEF AwaitSuspend
  <2>3. CASE count # 1
    <3>1. pc' = "suspended" /\ UNCHANGED <<ret, alive>>
      BY <1>3, <2>3 DEF AwaitSuspend
    <3>2. Extra' = 0 /\ count' = Cardinality(Pending) + Extra'
      BY <1>b, <2>1, <3>1 DEF Extra
    <3> QED
      BY <1>3, <1>a, <2>1, <3>1, <3>2, AwaitGoes DEF AwaitSuspend
  <2> QED
    BY <2>2, <2>3
<1> QED
  BY <1>1, <1>2, <1>3

-----------------------------------------------------------------------------
(***************************************************************************)
(* The producers and their callbacks.                                      *)
(***************************************************************************)

\* A core gets its result and takes its callbacks.
LEMMA FulfilInv ==
    ASSUME Inv, NEW c, Fulfil(c)
    PROVE  Inv'
<1>z. /\ ready' = ready \cup {c}
      /\ at' = [i \in Futures |-> IF Core(i) = c /\ at[i] = "attached" THEN "called" ELSE at[i]]
      /\ UNCHANGED <<mode, input, pc, pos, attached, resets, count, alive, owner, state, next, ret, expired>>
  BY DEF Fulfil
<1>0. /\ Futures' = Futures /\ (Coroutine' <=> Coroutine) /\ (OneCounter' <=> OneCounter)
      /\ (HelperCallbacks' <=> HelperCallbacks) /\ (\A i : Core(i)' = Core(i))
  BY <1>z, Stays
<1>a. /\ \A i \in Futures : at'[i] = at[i] \/ (at[i] = "attached" /\ at'[i] = "called" /\ Core(i) = c)
      /\ at' \in [1 .. n -> AtStates]
  BY <1>z DEF Types, AtStates, Coming
<1>b. Pending' = Pending /\ Busy' = Busy
  BY <1>0, <1>a DEF Pending, Busy
<1>c. \A i \in Futures : Setting(i)' <=> Setting(i)
  BY <1>a DEF Setting
<1>1. Types' /\ Places' /\ Timing' /\ Callbacks'
  BY <1>z, <1>0, <1>a DEF Types, Places, Timing, Callbacks
<1>2. Counted'
  BY <1>z, <1>0, <1>b DEF Counted, Extra
<1>3. Setters' /\ Holds'
  BY <1>z, <1>0, <1>a, <1>c DEF Setters, Holds
<1>4. Ending'
  BY <1>z, <1>0, <1>b, <1>c DEF Ending, Over
<1>5. IdleReady'
  BY <1>z, <1>0, <1>a DEF IdleReady, Coming
<1>6. Returned'
  BY <1>z, <1>0, <1>a DEF Returned, AllReady
<1>7. NextUse'
  <2>1. dup \subseteq Futures
    BY DEF Types
  <2> QED
    BY <1>z, <1>0, <1>a, <2>1 DEF NextUse
<1> QED
  BY <1>1, <1>2, <1>3, <1>4, <1>5, <1>6, <1>7

\* A callback that has not counted keeps the event in use.
LEMMA CalledState ==
    ASSUME Inv, NEW i \in Futures, at[i] = "called"
    PROVE  /\ Active /\ state = 0 /\ (\A j \in Futures : ~Setting(j)) /\ i \in Pending
           /\ Cardinality(Pending) \in Nat /\ Cardinality(Pending) >= 1
           /\ Cardinality(Busy) \in Nat /\ Cardinality(Busy) >= 1
           /\ (~OneCounter => count = Cardinality(Pending) + Extra)
           /\ Extra \in Nat /\ (pc = "attach" => Extra >= 1) /\ Core(i) \in ready
<1>1. i \in Pending
  BY DEF Pending
<1>2. Active
  BY DEF Callbacks, Types
<1>3. ~Over
  BY <1>1, <1>2 DEF Ending
<1>4. /\ Cardinality(Pending) \in Nat /\ Cardinality(Pending) # 0
      /\ Cardinality(Busy) \in Nat /\ Cardinality(Pending) <= Cardinality(Busy)
  BY <1>1, Counts
<1>5. (~OneCounter => count = Cardinality(Pending) + Extra) /\ attached <= n
  BY <1>2 DEF Counted
<1>6. n \in Nat /\ attached \in Nat /\ resets \in Nat
  BY DEF Types
<1>7. Extra \in Nat /\ (pc = "attach" => Extra >= 1)
  <2>1. CASE pc = "attach"
    BY <1>5, <1>6, <2>1 DEF Extra
  <2>2. CASE pc # "attach"
    BY <1>6, <2>2 DEF Extra
  <2> QED
    BY <2>1, <2>2
<1>8. Core(i) \in ready
  BY DEF IdleReady, Coming
<1> QED
  BY <1>1, <1>2, <1>3, <1>4, <1>5, <1>7, <1>8 DEF Over

\* A callback counts and the event is not over.
LEMMA SubMoreInv ==
    ASSUME Inv, NEW i \in Futures, at[i] = "called", ~OneCounter, count' = count - 1,
           at' = [at EXCEPT ![i] = "idle"],
           UNCHANGED <<mode, input, ready, pc, pos, attached, resets, alive, owner, state, next, ret, expired>>
    PROVE  Inv'
<1>0. /\ Futures' = Futures /\ (Coroutine' <=> Coroutine) /\ (OneCounter' <=> OneCounter)
      /\ (HelperCallbacks' <=> HelperCallbacks) /\ (\A j : Core(j)' = Core(j))
  BY Stays
<1>a. /\ Active /\ state = 0 /\ (\A j \in Futures : ~Setting(j))
      /\ Cardinality(Pending) \in Nat /\ Cardinality(Busy) \in Nat
      /\ count = Cardinality(Pending) + Extra /\ Extra \in Nat /\ Core(i) \in ready
  BY CalledState
<1>b. /\ at'[i] = "idle" /\ at' \in [1 .. n -> AtStates]
      /\ \A j \in Futures : j # i => at'[j] = at[j]
  BY Moves DEF AtStates
<1>c. /\ Cardinality(Pending') = Cardinality(Pending) - 1
      /\ Cardinality(Busy') = Cardinality(Busy) - 1
  <2>1. "idle" \in AtStates
    BY DEF AtStates
  <2> QED
    BY <2>1, MovesCount
<1>d. \A j \in Futures : ~Setting(j)'
  BY <1>a, <1>b DEF Setting
<1>1. Types' /\ Places' /\ Timing'
  BY <1>0, <1>a, <1>b DEF Types, Places, Timing
<1>2. Callbacks'
  BY <1>b DEF Callbacks
<1>3. Counted'
  <2>1. Extra' = Extra /\ resets \in Nat /\ attached \in Nat
    BY DEF Extra, Types
  <2> QED
    BY <1>0, <1>a, <1>c, <2>1 DEF Counted
<1>4. Setters' /\ Holds'
  BY <1>0, <1>d DEF Setters, Setting, Holds
<1>5. Ending'
  BY <1>0, <1>a, <1>d DEF Ending, Over
<1>6. IdleReady'
  BY <1>0, <1>a, <1>b DEF IdleReady, Coming
<1>7. Returned' /\ NextUse'
  <2>1. dup \subseteq Futures
    BY DEF Types
  <2> QED
    BY <1>0, <1>a, <1>b, <2>1 DEF Returned, NextUse
<1> QED
  BY <1>1, <1>2, <1>3, <1>4, <1>5, <1>6, <1>7

\* The last callback of a blocking wait counts, and is to set the event.
LEMMA SubLastInv ==
    ASSUME Inv, NEW i \in Futures, at[i] = "called", ~Coroutine, OneCounter \/ count = 1,
           count' = IF OneCounter THEN count ELSE count - 1,
           at' = [at EXCEPT ![i] = "set"],
           UNCHANGED <<mode, input, ready, pc, pos, attached, resets, alive, owner, state, next, ret, expired>>
    PROVE  Inv'
<1>0. /\ Futures' = Futures /\ (Coroutine' <=> Coroutine) /\ (OneCounter' <=> OneCounter)
      /\ (HelperCallbacks' <=> HelperCallbacks) /\ (\A j : Core(j)' = Core(j))
  BY Stays
<1>a. /\ Active /\ state = 0 /\ (\A j \in Futures : ~Setting(j))
      /\ Cardinality(Pending) \in Nat /\ Cardinality(Busy) \in Nat
      /\ Cardinality(Pending) >= 1 /\ Cardinality(Busy) >= 1
      /\ (~OneCounter => count = Cardinality(Pending) + Extra)
      /\ Extra \in Nat /\ (pc = "attach" => Extra >= 1) /\ Core(i) \in ready
  BY CalledState
<1>b. /\ at'[i] = "set" /\ at' \in [1 .. n -> AtStates]
      /\ \A j \in Futures : j # i => at'[j] = at[j]
  BY Moves DEF AtStates, Coming
<1>c. /\ Cardinality(Pending') = Cardinality(Pending) - 1
      /\ Cardinality(Busy') = Cardinality(Busy)
      /\ (Cardinality(Pending) = 1 => Pending' = {})
  <2>1. "set" \in AtStates
    BY DEF AtStates, Coming
  <2> QED
    BY <2>1, MovesCount
<1>d. \A j \in Futures : Setting(j)' <=> j = i
  BY <1>a, <1>b DEF Setting
<1>e. n \in Nat /\ attached \in Nat /\ resets \in Nat /\ pos \in Nat /\ count \in Int
  BY DEF Types
<1>f. /\ Pending' = {} /\ (pc = "reset" => resets = 0)
      /\ (pc = "attach" => pos = n + 1 /\ OneCounter)
  <2>1. CASE OneCounter
    <3>1. n = 1 /\ i = 1
      BY <2>1, <1>e DEF OneCounter
    <3>2. Pending' = {}
      <4>1. \A j \in Futures : j = i
        BY <3>1
      <4> QED
        BY <1>0, <1>b, <4>1 DEF Pending
    <3>3. resets = 0
      BY <1>a, <1>e, <3>1 DEF Counted
    <3>4. pc = "attach" => pos = n + 1
      BY <3>1, <1>e DEF Callbacks, Places
    <3> QED
      BY <2>1, <3>2, <3>3, <3>4
  <2>2. CASE ~OneCounter
    <3>1. Cardinality(Pending) = 1 /\ Extra = 0
      BY <1>a, <2>2
    <3>2. pc = "reset" => Extra = resets
      BY DEF Extra
    <3> QED
      BY <1>a, <1>c, <3>1, <3>2
  <2> QED
    BY <2>1, <2>2
<1>1. Types' /\ Places' /\ Timing'
  BY <1>0, <1>b, <1>e DEF Types, Places, Timing
<1>2. Callbacks'
  BY <1>a, <1>b DEF Callbacks
<1>3. Counted'
  <2>1. Extra' = Extra
    BY DEF Extra
  <2> QED
    BY <1>0, <1>a, <1>c, <1>e, <2>1 DEF Counted
<1>4. Setters'
  BY <1>0, <1>a, <1>b, <1>d DEF Setters, Setting
<1>5. Ending' /\ Holds'
  BY <1>0, <1>a, <1>f DEF Ending, Holds
<1>6. IdleReady'
  BY <1>0, <1>a, <1>b DEF IdleReady, Coming
<1>7. Returned' /\ NextUse'
  <2>1. dup \subseteq Futures
    BY DEF Types
  <2> QED
    BY <1>0, <1>a, <1>b, <2>1 DEF Returned, NextUse
<1> QED
  BY <1>1, <1>2, <1>3, <1>4, <1>5, <1>6, <1>7

\* The callbacks of a wait and of an await count.
LEMMA SubInv ==
    ASSUME Inv, NEW i \in Futures, Sub(i)
    PROVE  Inv'
<1>z. /\ at[i] = "called" /\ count' = IF OneCounter THEN count ELSE count - 1
      /\ UNCHANGED <<mode, input, ready, pos, attached, resets, owner, state, next, expired>>
  BY DEF Sub
<1>1. CASE ~OneCounter /\ count # 1
  BY <1>z, <1>1, SubMoreInv DEF Sub
<1>2. CASE (OneCounter \/ count = 1) /\ ~Coroutine
  BY <1>z, <1>2, SubLastInv DEF Sub
<1>3. CASE (OneCounter \/ count = 1) /\ Coroutine
  <2>1. Return(TRUE) /\ at' = [at EXCEPT ![i] = "idle"]
    BY <1>3 DEF Sub
  <2>2. ~OneCounter /\ count = 1
    BY <1>3 DEF OneCounter
  <2>3. /\ Active /\ (\A j \in Futures : ~Setting(j)) /\ Cardinality(Pending) \in Nat
        /\ Cardinality(Pending) >= 1 /\ count = Cardinality(Pending) + Extra
        /\ Extra \in Nat /\ (pc = "attach" => Extra >= 1) /\ Core(i) \in ready
    BY <1>z, <2>2, CalledState
  <2>4. Cardinality(Pending) = 1 /\ pc # "attach"
    BY <2>2, <2>3
  <2>5. /\ at'[i] = "idle" /\ at' \in [1 .. n -> AtStates]
        /\ \A j \in Futures : j # i => at'[j] = at[j]
    BY <2>1, <1>z, Moves DEF AtStates
  <2>6. Pending' = {}
    <3>1. "idle" \in AtStates
      BY DEF AtStates
    <3> QED
      BY <1>z, <2>1, <2>4, <3>1, MovesCount
  <2>7. \A j \in Futures : j # i => at[j] = "idle"
    <3> SUFFICES ASSUME NEW j \in Futures, j # i PROVE at[j] = "idle"
      OBVIOUS
    <3>1. at[j] \in AtStates /\ at'[j] = at[j] /\ Futures' = Futures
      BY <1>z, <2>5 DEF Types
    <3>2. at[j] \notin {"attached", "called"}
      BY <2>6, <3>1 DEF Pending
    <3> QED
      BY <2>3, <3>1, <3>2 DEF Setting, AtStates, Coming
  <2>8. resets = 0
    BY <1>3, <2>3, AwaitState
  <2>9. AllReady
    BY <2>3, <2>4, <2>7, <2>8 DEF AllReady, IdleReady
  <2>10. count' \in Int
    BY <1>z DEF Types
  <2> QED
    BY <1>z, <2>1, <2>3, <2>5, <2>7, <2>9, <2>10, ReturnInv DEF Return
<1> QED
  BY <1>1, <1>2, <1>3

\* The callback that sets the event goes on to s: what each step owes.
SetsOn(i, s) ==
    /\ s \in {"notify", "last", "idle"} /\ Setting(i) /\ at' = [at EXCEPT ![i] = s]
    /\ UNCHANGED <<mode, input, ready, pos, attached, resets, count, alive, next, ret, expired>>
    /\ pc # "asleep" => pc' = pc
    /\ pc = "asleep" => pc' \in {"asleep", "relock"}
    /\ state' \in {1, 2}
    /\ state' = 2 => event = "futex1" /\ s = "idle"
    /\ s = "notify" /\ event = "mutex" => owner' = i
    /\ s = "last" => event = "futex1"
    /\ pc # "reset" /\ (pc = "done" => s = "idle")
    /\ event = "mutex" /\ pc' = "wait" => owner' = Waiter

\* A step of the callback that sets the event keeps the invariant.
LEMMA SettingInv ==
    ASSUME Inv, NEW i \in Futures, NEW s, SetsOn(i, s)
    PROVE  Inv'
<1> USE DEF SetsOn
<1>0. /\ Futures' = Futures /\ (Coroutine' <=> Coroutine) /\ (OneCounter' <=> OneCounter)
      /\ (HelperCallbacks' <=> HelperCallbacks) /\ (\A j : Core(j)' = Core(j))
  BY Stays
<1>s. s \in AtStates /\ s \notin {"attached", "called"}
  BY DEF AtStates, Coming
<1>a. /\ at'[i] = s /\ at' \in [1 .. n -> AtStates]
      /\ \A j \in Futures : j # i => at'[j] = at[j]
  BY <1>s, Moves
<1>b. Pending' = Pending /\ Cardinality(Busy') <= Cardinality(Busy) /\ Cardinality(Busy') \in Nat
  BY <1>s, MovesCount
<1>c. /\ ~Coroutine /\ (\A j \in Futures : Setting(j) => j = i)
      /\ \A j \in Futures : Setting(j)' => j = i /\ s # "idle"
  <2>1. ~Coroutine /\ \A j \in Futures : Setting(j) => j = i
    BY DEF Setters
  <2> QED
    BY <1>a, <2>1 DEF Setting
<1>d. Over
  BY DEF Over
<1>e. pc # "start" /\ pc' # "reset" /\ (Active' <=> Active) /\ (pc' = "attach" <=> pc = "attach")
      /\ (pc' = "done" <=> pc = "done") /\ (pc' \in Awaiting <=> pc \in Awaiting)
      /\ (pc' \in Blocked <=> pc \in Blocked) /\ pc' # "start"
      /\ (pc' = "suspended" <=> pc = "suspended") /\ (pc' = "timedout" <=> pc = "timedout")
  BY DEF Callbacks, Setting
<1>1. Types'
  <2>1. state' \in 0 .. 2
    OBVIOUS
  <2>2. pc' \in {"start", "done", "attach"} \cup Blocked \cup Awaiting
    BY DEF Types
  <2> QED
    BY <1>a, <2>1, <2>2 DEF Types
<1>2. Places' /\ Timing'
  BY <1>0, <1>e DEF Places, Timing
<1>3. Callbacks'
  <2>1. ASSUME pc' = "done", NEW j \in Futures
        PROVE  at'[j] = "idle" \/ (event = "futex2" /\ at'[j] = "notify")
    BY <1>a, <1>e, <2>1 DEF Callbacks
  <2>2. ASSUME pc' = "attach", NEW j \in Futures, j >= pos PROVE at'[j] = "idle"
    BY <1>a, <1>e, <2>2 DEF Callbacks, Setting
  <2> QED
    BY <1>0, <1>e, <2>1, <2>2 DEF Callbacks
<1>4. Counted'
  <2>1. Extra' = Extra
    BY DEF Extra
  <2>2. Cardinality(Busy) \in Nat /\ resets \in Nat /\ attached \in Nat
    BY Counts DEF Types
  <2> QED
    BY <1>0, <1>b, <1>e, <2>1, <2>2 DEF Counted
<1>5. Setters'
  <2> SUFFICES ASSUME NEW j \in Futures
               PROVE  /\ at'[j] = "set" => state' = 0
                      /\ at'[j] \in {"notify", "last"} => state' = 1
                      /\ at'[j] = "notify" /\ event = "mutex" => owner' = j
                      /\ at'[j] = "last" => event = "futex1"
                      /\ Setting(j)' => ~Coroutine /\ \A k \in Futures : Setting(k)' => j = k
    BY <1>0 DEF Setters
  <2>1. CASE j = i
    BY <1>a, <1>c, <2>1
  <2>2. CASE j # i
    <3>1. ~Setting(j)'
      BY <1>c, <2>2
    <3> QED
      BY <3>1 DEF Setting
  <2> QED
    BY <2>1, <2>2
<1>6. Holds'
  BY <1>e DEF Holds
<1>7. Ending'
  BY <1>0, <1>b, <1>c, <1>d, <1>e DEF Ending
<1>8. IdleReady'
  <2>1. Core(i) \in ready
    BY DEF IdleReady, Setting, Coming
  <2> QED
    BY <1>0, <1>a, <1>e, <2>1 DEF IdleReady
<1>9. Returned'
  BY <1>0, <1>a, <1>e DEF Returned, AllReady
<1>10. NextUse'
  <2>1. dup \subseteq Futures
    BY DEF Types
  <2> QED
    BY <1>0, <1>a, <1>e, <1>s, <2>1 DEF NextUse
<1> QED
  BY <1>1, <1>2, <1>3, <1>4, <1>5, <1>6, <1>7, <1>8, <1>9, <1>10

\* Set of a MutexEvent and of an AtomicEvent.
LEMMA SetInv ==
    ASSUME Inv, NEW i \in Futures, SetReady(i) \/ SetNotify(i) \/ SetLast(i)
    PROVE  Inv'
<1>1. CASE SetReady(i)
  <2>z. /\ at[i] = "set" /\ (event = "mutex" => owner = None) /\ state' = 1
        /\ owner' = (IF event = "mutex" THEN i ELSE None) /\ at' = [at EXCEPT ![i] = "notify"]
        /\ UNCHANGED <<mode, input, ready, pc, pos, attached, resets, count, alive, next, ret, expired>>
    BY <1>1 DEF SetReady
  <2>1. event = "mutex" => pc \notin {"wait", "reset"}
    BY <2>z, ConstantsAssumption DEF Holds
  <2>2. pc # "reset"
    BY <2>1 DEF Timing, Places
  <2>3. pc # "done"
    BY <2>z DEF Callbacks
  <2>4. Setting(i)
    BY <2>z DEF Setting
  <2> QED
    <3>1. SetsOn(i, "notify")
      BY <2>z, <2>1, <2>2, <2>3, <2>4 DEF SetsOn
    <3> QED
      BY <3>1, SettingInv
<1>2. CASE SetNotify(i)
  <2> DEFINE s == IF event = "futex1" THEN "last" ELSE "idle"
  <2>z. /\ at[i] = "notify" /\ pc' = (IF pc = "asleep" THEN "relock" ELSE pc)
        /\ owner' = (IF owner = i THEN None ELSE owner) /\ at' = [at EXCEPT ![i] = s]
        /\ UNCHANGED <<mode, input, ready, pos, attached, resets, count, alive, state, next, ret, expired>>
    BY <1>2 DEF SetNotify
  <2>1. state = 1 /\ (event = "mutex" => owner = i)
    BY <2>z DEF Setters
  <2>2. pc # "reset"
    BY <2>1 DEF Timing
  <2>3. event = "mutex" => pc' # "wait"
    BY <2>z, <2>1, NoOwner DEF Holds
  <2>4. pc = "done" => s = "idle"
    BY <2>z DEF Callbacks
  <2>5. Setting(i)
    BY <2>z DEF Setting
  <2>6. s \in {"notify", "last", "idle"} /\ s # "notify" /\ (s = "last" => event = "futex1")
    OBVIOUS
  <2> HIDE DEF s
  <2> QED
    <3>1. SetsOn(i, s)
      BY <2>z, <2>1, <2>2, <2>3, <2>4, <2>5, <2>6 DEF SetsOn
    <3> QED
      BY <3>1, SettingInv
<1>3. CASE SetLast(i)
  <2>z. /\ at[i] = "last" /\ state' = 2 /\ at' = [at EXCEPT ![i] = "idle"]
        /\ UNCHANGED <<mode, input, ready, pc, pos, attached, resets, count, alive, owner, next, ret, expired>>
    BY <1>3 DEF SetLast
  <2>1. state = 1 /\ event = "futex1"
    BY <2>z DEF Setters
  <2>2. pc # "reset"
    BY <2>1 DEF Timing
  <2>3. Setting(i)
    BY <2>z DEF Setting
  <2> QED
    <3>1. SetsOn(i, "idle")
      BY <2>z, <2>1, <2>2, <2>3 DEF SetsOn, Holds
    <3> QED
      BY <3>1, SettingInv
<1> QED
  BY <1>1, <1>2, <1>3

-----------------------------------------------------------------------------
(***************************************************************************)
(* The theorems.                                                           *)
(***************************************************************************)

\* The invariant holds before the call.
LEMMA InitInv == Init => Inv
<1> SUFFICES ASSUME Init PROVE Inv
  OBVIOUS
<1>a. /\ n \in 1 .. MaxFutures /\ n \in Nat /\ dup \subseteq 1 .. n
      /\ mode \in {"Wait", "WaitFor", "AwaitInline", "AwaitSticky", "AwaitOn"}
      /\ event \in {"mutex", "futex1", "futex2"} /\ (event # "mutex" => mode = "Wait")
  BY ConstantsAssumption DEF Init
<1>b. /\ at = [i \in 1 .. n |-> "idle"] /\ pc = "start" /\ pos = 1 /\ attached = 0 /\ resets = 0
      /\ count = 0 /\ alive = FALSE /\ owner = None /\ state = 0 /\ next = None
      /\ expired = FALSE /\ ret = None /\ dynamic \in BOOLEAN /\ (mode = "WaitFor" => dup = {})
  BY DEF Init
<1>1. Types
  <2>1. at \in [1 .. n -> AtStates]
    BY <1>b DEF AtStates
  <2>2. pos \in Nat /\ attached \in Nat /\ resets \in Nat /\ count \in Int /\ state \in 0 .. 2
    BY <1>b
  <2>3. alive \in BOOLEAN /\ expired \in BOOLEAN /\ ret \in BOOLEAN \cup {None}
    BY <1>b
  <2>4. pc \in {"start", "done", "attach"} \cup Blocked \cup Awaiting
    BY <1>b
  <2> QED
    BY <1>a, <1>b, <2>1, <2>2, <2>3, <2>4 DEF Types
<1>2. Places /\ Timing /\ Callbacks /\ Counted
  BY <1>a, <1>b DEF Places, Timing, Callbacks, Counted
<1>3. Setters /\ Holds /\ Ending
  BY <1>a, <1>b DEF Setters, Setting, Holds, Ending
<1>4. IdleReady /\ Returned /\ NextUse
  BY <1>a, <1>b DEF IdleReady, Returned, NextUse, Coming
<1> QED
  BY <1>1, <1>2, <1>3, <1>4

\* A step that changes nothing keeps the invariant.
LEMMA StutterInv ==
    ASSUME Inv, UNCHANGED vars
    PROVE  Inv'
<1> USE DEF vars
<1>0. /\ Futures' = Futures /\ (Coroutine' <=> Coroutine) /\ (OneCounter' <=> OneCounter)
      /\ (HelperCallbacks' <=> HelperCallbacks)
      /\ (\A i : Core(i)' = Core(i)) /\ Pending' = Pending /\ Busy' = Busy
  BY Stays
<1>1. Types' /\ Places' /\ Timing' /\ Callbacks'
  BY <1>0 DEF Types, Places, Timing, Callbacks
<1>2. Counted'
  BY <1>0 DEF Counted, Extra
<1>3. Setters' /\ Holds'
  BY <1>0 DEF Setters, Setting, Holds
<1>4. Ending'
  BY <1>0 DEF Ending, Over, Setting
<1>5. IdleReady' /\ Returned' /\ NextUse'
  BY <1>0 DEF IdleReady, Returned, AllReady, NextUse
<1> QED
  BY <1>1, <1>2, <1>3, <1>4, <1>5

\* Every step keeps the invariant.
LEMMA NextInv ==
    ASSUME Inv, Next
    PROVE  Inv'
<1>1. CASE WaiterStep
  BY <1>1, BeginInv, AttachInv, SubEqualInv, LockInv, WaitInv, ResetInv, AfterResetInv, AwaitInv
     DEF WaiterStep
<1>2. CASE Spurious \/ Timeout \/ Again
  BY <1>2, WakeInv, AgainInv
<1>3. ASSUME NEW c \in 0 .. MaxFutures, Fulfil(c) PROVE Inv'
  BY <1>3, FulfilInv
<1>4. ASSUME NEW i \in Futures, Callback(i) PROVE Inv'
  BY <1>4, SubInv, SetInv DEF Callback
<1> QED
  BY <1>1, <1>2, <1>3, <1>4 DEF Next

\* The inductive invariant holds for every number of futures.
THEOREM Invariance == Spec => []Inv
<1>1. Inv /\ [Next]_vars => Inv'
  BY NextInv, StutterInv
<1> QED
  BY <1>1, InitInv, PTL DEF Spec

\* No callback uses the event of a wait that has returned, also when a timed
\* wait runs out of time (wait_impl.hpp WaitRange), and the event's next field
\* serves one list or one coroutine at a time.
THEOREM EventIsSound == Spec => []EventSound
<1>1. Inv => EventOutlivesCallbacks
  <2> SUFFICES ASSUME Inv, NEW i \in Futures, at[i] \in Coming \cup {"attached"}, ~alive
               PROVE  event = "futex2" /\ at[i] = "notify"
    BY DEF EventOutlivesCallbacks
  <2>1. pc \in {"start", "done"} /\ at[i] # "idle"
    BY DEF Places, Types, Coming
  <2> QED
    BY <2>1 DEF Callbacks
<1>2. Inv => NextNotShared
  <2> SUFFICES ASSUME Inv PROVE NextNotShared
    OBVIOUS
  <2> DEFINE own == {i \in dup : at[i] = "attached" /\ ~HelperCallbacks}
  <2>1. Cardinality(own) <= 1
    <3>a. IsFiniteSet(dup) /\ n \in Nat /\ dup \subseteq 1 .. n
      <4>1. n \in Nat /\ dup \subseteq 1 .. n
        BY DEF Types
      <4>2. IsFiniteSet(1 .. n)
        BY <4>1, FS_Interval
      <4> QED
        BY <4>1, <4>2, FS_Subset
    <3>b. own \subseteq dup /\ Cardinality(dup) \in Nat
      BY <3>a, FS_CardinalityType
    <3>c. IsFiniteSet(own) /\ Cardinality(own) <= Cardinality(dup) /\ Cardinality(own) \in Nat
      BY <3>a, <3>b, FS_Subset, FS_CardinalityType
    <3>1. CASE HelperCallbacks
      <4>1. own = {}
        BY <3>1
      <4> HIDE DEF own
      <4> QED
        BY <4>1, FS_EmptySet
    <3>2. CASE ~HelperCallbacks
      <4>1. dup = {} \/ n <= 1 \/ Cardinality(dup) <= 1
        <5>1. Cardinality(dup) > 1 \/ Cardinality(dup) <= 1
          BY <3>b
        <5>2. n > 1 \/ n <= 1
          BY <3>a
        <5> QED
          BY <3>2, <5>1, <5>2 DEF HelperCallbacks, Types
      <4>2. n <= 1 => dup \subseteq {1}
        BY <3>a
      <4>3. Cardinality({}) = 0 /\ IsFiniteSet({1}) /\ Cardinality({1}) = 1
        BY FS_EmptySet, FS_Singleton
      <4>4. ASSUME dup \subseteq {1} PROVE Cardinality(dup) <= 1
        <5>1. Cardinality(dup) <= Cardinality({1})
          BY <4>3, <4>4, FS_Subset
        <5> QED
          BY <4>3, <5>1
      <4>5. Cardinality(dup) <= 1
        BY <4>1, <4>2, <4>3, <4>4
      <4> HIDE DEF own
      <4> QED
        BY <3>b, <3>c, <4>5
    <3> QED
      BY <3>1, <3>2
  <2>2. own # {} => next = "list"
    BY DEF NextUse
  <2>3. pc = "suspended" /\ mode # "AwaitOn" => next = "promise"
    BY DEF NextUse
  <2> QED
    BY <2>1, <2>2, <2>3 DEF NextNotShared
<1>3. Inv => EventSound
  BY <1>1, <1>2 DEF EventSound
<1> QED
  BY <1>3, Invariance, PTL

\* Wait, WaitFor and the awaits say yes only when every future has its result,
\* and no only after the time is over and with every callback taken back.
THEOREM WaitTellsTheTruth == Spec => []ReturnsTheTruth
<1>1. Inv => ReturnsTheTruth
  BY DEF Returned, ReturnsTheTruth
<1> QED
  BY <1>1, Invariance, PTL
-----------------------------------------------------------------------------
(***************************************************************************)
(* WaitGroup and OneShotEvent: the other wait for many futures.            *)
(*                                                                         *)
(* Who waits there and who counts are told apart by the variables of       *)
(* WaitGroup; those that have the name of a variable of WaitRange (at, pc, *)
(* ready, count, ret, owner) stand for their own here, since the lemmas    *)
(* below are about steps of the group alone.                               *)
(*                                                                         *)
(* Two arguments.  A job that Set or the stack can still reach is waited   *)
(* for, or has a reference of its own (GroupJobs).  And the counter is the *)
(* number of operations that are not done (GroupCount), so that the event  *)
(* is set when there are none, and stays so until Reset (GroupPhase).      *)
(***************************************************************************)
HIDE DEF Inv, Active, Blocked, Awaiting, Futures, input

CONSTANTS Waiters, Members, BatchOf, Rounds, AllDone
VARIABLES group, kind, consume, head, walk, job, flag, refs, zero, fref, batch, round

G == INSTANCE WaitGroup WITH Futures <- Members

GroupTypes ==
    /\ kind \in [Waiters -> G!Kinds]
    /\ head \in Seq(Waiters) \cup {AllDone} /\ walk \in Seq(Waiters) /\ job \in Waiters \cup {None}
    /\ pc \in [Waiters -> {"idle", "add", "waiting", "submitted", "done"}]
    /\ flag \subseteq Waiters /\ refs \in [Waiters -> Int] /\ ret \in [Waiters -> BOOLEAN \cup {None}]
    /\ count \in Int /\ zero \in BOOLEAN /\ owner \in BOOLEAN
    /\ at \in [Members -> {"idle", "skipped", "attached", "called", "dropped", "done"}]
    /\ fref \in [Members -> Int]
    /\ batch \in [G!Batches -> {"idle", "insert", "done"}]

\* The jobs that are in a list, and those that SetImpl can reach.
Listed(w) == w \in ToSet(walk) \/ w \in ToSet(G!Taken)
Reached(w) == Listed(w) \/ job = w

\* No job is there twice.
GroupLists ==
    /\ IsInjective(walk) /\ IsInjective(G!Taken) /\ ToSet(walk) \cap ToSet(G!Taken) = {}
    /\ job # None => ~Listed(job)

\* How long a job is waited for, and the references to a timed one: the
\* waiter's and the list's.
JobSound(w) ==
    /\ Listed(w) => w \notin flag
    /\ pc[w] \in {"idle", "add"} => ~Reached(w) /\ w \notin flag
    /\ kind[w] # "WaitFor" => /\ Reached(w) => pc[w] = "waiting" /\ w \notin flag
                              /\ refs[w] = 0
    /\ kind[w] = "WaitFor" =>
         /\ pc[w] # "submitted"
         /\ refs[w] = IF pc[w] = "add" THEN 2
                      ELSE (IF pc[w] = "waiting" THEN 1 ELSE 0) + (IF Reached(w) THEN 1 ELSE 0)
GroupJobs == \A w \in Waiters : JobSound(w)

\* The operations of futures that are not done.
Open ==
    {f \in Members : \/ at[f] \in {"attached", "called", "dropped"}
                     \/ batch[BatchOf[f]] = "insert" /\ at[f] \in {"idle", "skipped"}}
GroupCount == count = Cardinality(Open) + (IF owner THEN 1 ELSE 0)

\* Somebody counts to zero, then the event is set.
GroupPhase ==
    /\ zero => count = 0 /\ head # AllDone
    /\ head = AllDone => count = 0 /\ ~zero
    /\ count = 0 /\ ~zero => head = AllDone

\* The owner is the last to be done.
GroupOwner ==
    /\ ~owner \/ ~group \/ round # 1 => \A b \in G!Batches : batch[b] = "done"
    /\ round \in Nat \ {0}

\* The inserted futures.
MemberSound(f) ==
    /\ group /\ batch[BatchOf[f]] = "done" => at[f] # "idle"
    /\ batch[BatchOf[f]] = "idle" => at[f] = "idle"
    /\ at[f] \in {"skipped", "called", "dropped", "done"} => f \in ready
    /\ at[f] = "dropped" => BatchOf[f] \in consume
    /\ fref[f] = IF at[f] = "dropped" \/ (at[f] \in {"skipped", "done"} /\ BatchOf[f] \in consume)
                   THEN 0 ELSE 1
GroupMembers == \A f \in Members : MemberSound(f)

\* The waiters of a group go on only when its event has been set.
Signal ==
    \/ walk # <<>> \/ job # None \/ flag # {}
    \/ \E w \in Waiters : pc[w] = "submitted" \/ (pc[w] = "done" /\ ret[w] # FALSE)
GroupSignal == group /\ Signal => head = AllDone

\* The inductive invariant of the group.
GroupInv ==
    /\ GroupTypes
    /\ GroupLists
    /\ GroupJobs
    /\ GroupCount
    /\ GroupPhase
    /\ GroupOwner
    /\ GroupMembers
    /\ GroupSignal

\* The operators of the libraries are the same in the group's module.
LEMMA SameLibrary ==
    /\ \A S : G!Cardinality(S) = Cardinality(S)
    /\ \A S : G!IsFiniteSet(S) <=> IsFiniteSet(S)
    /\ \A s : G!IsInjective(s) <=> IsInjective(s)
<1>1. \A S : G!Cardinality(S) = Cardinality(S)
  BY DEF G!Cardinality, Cardinality
<1>2. \A S : G!IsFiniteSet(S) <=> IsFiniteSet(S)
  BY DEF G!IsFiniteSet, IsFiniteSet
<1>3. \A s : G!IsInjective(s) <=> IsInjective(s)
  BY DEF G!IsInjective, IsInjective
<1> QED
  BY <1>1, <1>2, <1>3

\* The constants, in this module's words.
LEMMA GroupConstants ==
    ASSUME G!ConstantsAssumption
    PROVE  /\ IsFiniteSet(Members) /\ AllDone \notin Seq(Waiters) /\ None \notin Waiters
           /\ Rounds \in Nat \ {0} /\ AllDone # <<>>
<1>1. /\ IsFiniteSet(Members) /\ AllDone \notin Seq(Waiters) /\ None \notin Waiters
      /\ Rounds \in Nat \ {0}
  BY SameLibrary DEF G!ConstantsAssumption
<1>2. <<>> \in Seq(Waiters)
  OBVIOUS
<1>3. AllDone # <<>>
  BY <1>1, <1>2, Zenon
<1> QED
  BY <1>1, <1>3

\* The stack that Set takes.
LEMMA TakenList ==
    ASSUME GroupTypes
    PROVE  /\ G!Taken \in Seq(Waiters)
           /\ head # AllDone => head \in Seq(Waiters) /\ G!Taken = head
           /\ head = AllDone => G!Taken = <<>>
           /\ ToSet(G!Taken) \subseteq Waiters /\ ToSet(walk) \subseteq Waiters
<1>1. /\ G!Taken \in Seq(Waiters)
      /\ head # AllDone => head \in Seq(Waiters) /\ G!Taken = head
      /\ head = AllDone => G!Taken = <<>>
  BY DEF GroupTypes, G!Taken
<1>2. walk \in Seq(Waiters)
  BY DEF GroupTypes
<1> QED
  BY <1>1, <1>2, ListElements

\* A waiter whose job and whose state a step leaves alone.
LEMMA JobKept ==
    ASSUME NEW w, JobSound(w), kind' = kind, pc'[w] = pc[w], refs'[w] = refs[w],
           w \in flag' <=> w \in flag, Listed(w)' <=> Listed(w), job' = w <=> job = w
    PROVE  JobSound(w)'
BY DEF JobSound, Reached

\* Steps of the waiters leave the count alone.
LEMMA CountKept ==
    ASSUME GroupInv, UNCHANGED <<group, consume, count, at, fref, ready, batch, owner, round>>
    PROVE  GroupCount' /\ GroupOwner' /\ GroupMembers' /\ Open' = Open
<1>1. Open' = Open
  BY DEF Open
<1>2. GroupCount' /\ GroupOwner'
  BY <1>1 DEF GroupInv, GroupCount, GroupOwner
<1>3. GroupMembers'
  BY DEF GroupInv, GroupMembers, MemberSound
<1> QED
  BY <1>1, <1>2, <1>3

\* Steps of the futures and of the owner leave the waiters alone.
LEMMA EventKept ==
    ASSUME GroupInv, UNCHANGED <<group, kind, head, walk, job, flag, refs, ret, pc>>
    PROVE  GroupLists' /\ GroupJobs' /\ GroupSignal'
<1>1. G!Taken' = G!Taken
  BY DEF G!Taken
<1>2. GroupLists'
  BY <1>1 DEF GroupInv, GroupLists, Listed
<1>3. GroupJobs'
  BY <1>1 DEF GroupInv, GroupJobs, JobSound, Reached, Listed
<1>4. GroupSignal'
  BY DEF GroupInv, GroupSignal, Signal
<1> QED
  BY <1>2, <1>3, <1>4

\* Wait, TimedWait and the awaiters: nobody has the job yet.
LEMMA GroupBeginInv ==
    ASSUME GroupInv, NEW w \in Waiters, G!Begin(w)
    PROVE  GroupInv'
<1>z. /\ pc[w] = "idle" /\ refs' = [refs EXCEPT ![w] = IF kind[w] = "WaitFor" THEN 2 ELSE 0]
      /\ pc' = [pc EXCEPT ![w] = IF kind[w] \in {"AwaitInline", "AwaitSticky"} /\ head = AllDone
                                   THEN "done" ELSE "add"]
      /\ ret' = [ret EXCEPT ![w] = IF pc'[w] = "done" THEN TRUE ELSE None]
      /\ UNCHANGED <<group, kind, consume, head, walk, job, flag, count, zero>>
      /\ UNCHANGED <<at, fref, ready, batch, owner, round>>
  BY DEF G!Begin, G!conf, G!futures
<1>t. /\ pc \in [Waiters -> {"idle", "add", "waiting", "submitted", "done"}]
      /\ refs \in [Waiters -> Int] /\ ret \in [Waiters -> BOOLEAN \cup {None}]
      /\ kind[w] \in G!Kinds
  BY DEF GroupInv, GroupTypes
<1>0. /\ G!Taken' = G!Taken /\ pc'[w] \in {"add", "done"}
      /\ pc'[w] = "done" => kind[w] # "WaitFor" /\ head = AllDone
      /\ refs'[w] = IF kind[w] = "WaitFor" THEN 2 ELSE 0
      /\ pc'[w] = "add" => pc'[w] # "done"
      /\ \A v \in Waiters : v # w => pc'[v] = pc[v] /\ refs'[v] = refs[v] /\ ret'[v] = ret[v]
  BY <1>z, <1>t DEF G!Taken
<1>1. GroupTypes'
  <2>1. pc' \in [Waiters -> {"idle", "add", "waiting", "submitted", "done"}]
    BY <1>z, <1>t
  <2>2. refs' \in [Waiters -> Int]
    BY <1>z, <1>t
  <2>3. ret' \in [Waiters -> BOOLEAN \cup {None}]
    BY <1>z, <1>t
  <2> QED
    BY <1>z, <2>1, <2>2, <2>3 DEF GroupInv, GroupTypes
<1>2. GroupLists' /\ GroupPhase'
  BY <1>z, <1>0 DEF GroupInv, GroupLists, Listed, GroupPhase
<1>3. GroupJobs'
  <2> SUFFICES ASSUME NEW v \in Waiters PROVE JobSound(v)'
    BY DEF GroupJobs
  <2>1. JobSound(v) /\ (Listed(v)' <=> Listed(v))
    BY <1>z, <1>0 DEF GroupInv, GroupJobs, Listed
  <2>2. CASE v # w
    BY <1>z, <1>0, <2>1, <2>2, JobKept
  <2>3. CASE v = w
    <3>1. ~Reached(w)' /\ w \notin flag'
      BY <1>z, <2>1, <2>3 DEF JobSound, Reached
    <3> QED
      BY <1>z, <1>0, <2>3, <3>1 DEF JobSound, Reached
  <2> QED
    BY <2>2, <2>3
<1>4. GroupSignal'
  BY <1>z, <1>0 DEF GroupInv, GroupSignal, Signal
<1> QED
  BY <1>z, <1>1, <1>2, <1>3, <1>4, CountKept DEF GroupInv

\* TryAdd links the job, or finds that the event has been set.
LEMMA GroupAddInv ==
    ASSUME G!ConstantsAssumption, GroupInv, NEW w \in Waiters, G!Add(w)
    PROVE  GroupInv'
<1>z. /\ pc[w] = "add" /\ head' = (IF head = AllDone THEN head ELSE <<w>> \o head)
      /\ UNCHANGED <<group, kind, consume, walk, job, flag, count, zero>>
      /\ UNCHANGED <<at, fref, ready, batch, owner, round>>
  BY DEF G!Add, G!TryAdd, G!conf, G!futures
<1>t. /\ pc \in [Waiters -> {"idle", "add", "waiting", "submitted", "done"}]
      /\ refs \in [Waiters -> Int] /\ ret \in [Waiters -> BOOLEAN \cup {None}]
      /\ kind[w] \in G!Kinds /\ walk \in Seq(Waiters)
  BY DEF GroupInv, GroupTypes
<1>s. JobSound(w) /\ ~Reached(w) /\ w \notin flag
  BY <1>z DEF GroupInv, GroupJobs, JobSound
<1>l. G!Taken \in Seq(Waiters)
  BY TakenList DEF GroupInv
<1>1. CASE head # AllDone
  <2>z. pc' = [pc EXCEPT ![w] = "waiting"] /\ UNCHANGED <<refs, ret>>
    BY <1>1 DEF G!Add
  <2>1. G!Taken = head /\ head \in Seq(Waiters) /\ head' = <<w>> \o head
    BY <1>z, <1>1, TakenList DEF GroupInv
  <2>2. /\ head' \in Seq(Waiters) /\ ToSet(head') = {w} \cup ToSet(head)
        /\ w \notin ToSet(head) /\ IsInjective(head) => IsInjective(head')
    BY <2>1, ListPush
  <2>3. head' # AllDone /\ G!Taken' = head'
    BY <2>2, GroupConstants DEF G!Taken
  <2>4. /\ pc'[w] = "waiting" /\ pc' \in [Waiters -> {"idle", "add", "waiting", "submitted", "done"}]
        /\ \A v \in Waiters : v # w => pc'[v] = pc[v]
    BY <1>t, <2>z
  <2>5. GroupTypes'
    BY <1>z, <2>z, <2>2, <2>4 DEF GroupInv, GroupTypes
  <2>6. \A v : Listed(v)' <=> Listed(v) \/ v = w
    BY <1>z, <2>1, <2>2, <2>3 DEF Listed
  <2>7. GroupLists'
    <3>1. w \notin ToSet(head) /\ w \notin ToSet(walk) /\ job # w
      BY <1>s, <2>1 DEF Reached, Listed
    <3> QED
      BY <1>z, <2>1, <2>2, <2>3, <2>6, <3>1 DEF GroupInv, GroupLists
  <2>8. GroupJobs'
    <3> SUFFICES ASSUME NEW v \in Waiters PROVE JobSound(v)'
      BY DEF GroupJobs
    <3>1. JobSound(v)
      BY DEF GroupInv, GroupJobs
    <3>2. CASE v # w
      BY <1>z, <2>z, <2>4, <2>6, <3>1, <3>2, JobKept
    <3>3. CASE v = w
      BY <1>z, <1>s, <2>z, <2>4, <2>6, <3>3 DEF JobSound, Reached
    <3> QED
      BY <3>2, <3>3
  <2>9. GroupPhase'
    BY <1>z, <1>1, <2>3 DEF GroupInv, GroupPhase
  <2>10. GroupSignal'
    BY <1>z, <1>1, <2>z, <2>4 DEF GroupInv, GroupSignal, Signal
  <2> QED
    BY <1>z, <2>5, <2>7, <2>8, <2>9, <2>10, CountKept DEF GroupInv
<1>2. CASE head = AllDone
  <2>z. /\ pc' = [pc EXCEPT ![w] = IF kind[w] = "AwaitOn" THEN "submitted" ELSE "done"]
        /\ ret' = [ret EXCEPT ![w] = IF kind[w] = "AwaitOn" THEN None ELSE TRUE]
        /\ refs' = [refs EXCEPT ![w] = 0] /\ head' = head
    BY <1>z, <1>2 DEF G!Add
  <2>1. G!Taken' = G!Taken
    BY <2>z DEF G!Taken
  <2>2. /\ pc' \in [Waiters -> {"idle", "add", "waiting", "submitted", "done"}]
        /\ pc'[w] = (IF kind[w] = "AwaitOn" THEN "submitted" ELSE "done")
        /\ refs' \in [Waiters -> Int] /\ refs'[w] = 0
        /\ \A v \in Waiters : v # w => pc'[v] = pc[v] /\ refs'[v] = refs[v]
    BY <1>t, <2>z
  <2>3. ret' \in [Waiters -> BOOLEAN \cup {None}]
    BY <1>t, <2>z
  <2>4. GroupTypes'
    BY <1>z, <2>z, <2>2, <2>3 DEF GroupInv, GroupTypes
  <2>5. GroupLists' /\ GroupPhase'
    BY <1>z, <2>z, <2>1 DEF GroupInv, GroupLists, Listed, GroupPhase
  <2>6. GroupJobs'
    <3> SUFFICES ASSUME NEW v \in Waiters PROVE JobSound(v)'
      BY DEF GroupJobs
    <3>1. JobSound(v) /\ (Listed(v)' <=> Listed(v))
      BY <1>z, <2>1 DEF GroupInv, GroupJobs, Listed
    <3>2. CASE v # w
      BY <1>z, <2>2, <3>1, <3>2, JobKept
    <3>3. CASE v = w
      <4>1. ~Reached(w)' /\ w \notin flag'
        BY <1>z, <1>s, <3>1, <3>3 DEF Reached
      <4> QED
        BY <1>z, <2>2, <3>3, <4>1 DEF JobSound, Reached
    <3> QED
      BY <3>2, <3>3
  <2>7. GroupSignal'
    BY <1>2, <2>z DEF GroupSignal
  <2> QED
    BY <1>z, <2>4, <2>5, <2>6, <2>7, CountKept DEF GroupInv
<1> QED
  BY <1>1, <1>2

\* A waiter returns, when it is called or when its time is over.
LEMMA GroupLeaveInv ==
    ASSUME GroupInv, NEW w \in Waiters, G!Resume(w) \/ G!Timeout(w)
    PROVE  GroupInv'
<1> DEFINE one == IF kind[w] = "WaitFor" THEN refs[w] - 1 ELSE refs[w]
<1>t. /\ pc \in [Waiters -> {"idle", "add", "waiting", "submitted", "done"}]
      /\ refs \in [Waiters -> Int] /\ ret \in [Waiters -> BOOLEAN \cup {None}]
      /\ kind[w] \in G!Kinds /\ one \in Int
  BY DEF GroupInv, GroupTypes
<1>z. /\ pc[w] \in {"waiting", "submitted"} /\ pc' = [pc EXCEPT ![w] = "done"]
      /\ pc[w] = "waiting" => w \in flag \/ kind[w] = "WaitFor"
      /\ refs' = [refs EXCEPT ![w] = one]
      /\ UNCHANGED <<group, kind, consume, head, walk, job, flag, count, zero>>
      /\ UNCHANGED <<at, fref, ready, batch, owner, round>>
  BY DEF G!Resume, G!Timeout, G!conf, G!futures
<1>r. \/ ret' = [ret EXCEPT ![w] = TRUE] /\ (w \in flag \/ pc[w] = "submitted")
      \/ ret' = [ret EXCEPT ![w] = FALSE]
  BY DEF G!Resume, G!Timeout
<1>s. JobSound(w)
  BY DEF GroupInv, GroupJobs
<1>0. /\ pc' \in [Waiters -> {"idle", "add", "waiting", "submitted", "done"}]
      /\ pc'[w] = "done" /\ refs' \in [Waiters -> Int] /\ refs'[w] = one /\ G!Taken' = G!Taken
      /\ \A v \in Waiters : v # w => pc'[v] = pc[v] /\ refs'[v] = refs[v]
  BY <1>z, <1>t DEF G!Taken
<1>1. GroupTypes'
  <2>1. ret' \in [Waiters -> BOOLEAN \cup {None}]
    BY <1>t, <1>r
  <2> QED
    BY <1>z, <1>0, <2>1 DEF GroupInv, GroupTypes
<1>2. GroupLists' /\ GroupPhase'
  BY <1>z, <1>0 DEF GroupInv, GroupLists, Listed, GroupPhase
<1>3. GroupJobs'
  <2> SUFFICES ASSUME NEW v \in Waiters PROVE JobSound(v)'
    BY DEF GroupJobs
  <2>1. JobSound(v) /\ (Listed(v)' <=> Listed(v))
    BY <1>z, <1>0 DEF GroupInv, GroupJobs, Listed
  <2>2. CASE v # w
    BY <1>z, <1>0, <2>1, <2>2, JobKept
  <2>3. CASE v = w
    BY <1>z, <1>0, <1>s, <2>1, <2>3 DEF JobSound, Reached
  <2> QED
    BY <2>2, <2>3
<1>4. GroupSignal'
  <2>1. ASSUME Signal' PROVE Signal
    <3>1. CASE \E v \in Waiters : v # w /\ (pc'[v] = "submitted" \/ (pc'[v] = "done" /\ ret'[v] # FALSE))
      <4>1. PICK v \in Waiters : v # w /\ (pc'[v] = "submitted" \/ (pc'[v] = "done" /\ ret'[v] # FALSE))
        BY <3>1
      <4>2. pc'[v] = pc[v] /\ ret'[v] = ret[v]
        BY <1>t, <1>r, <1>0, <4>1
      <4> QED
        BY <4>1, <4>2 DEF Signal
    <3>2. CASE ret'[w] # FALSE
      BY <1>z, <1>t, <1>r, <3>2 DEF Signal
    <3> QED
      BY <1>z, <1>0, <2>1, <3>1, <3>2 DEF Signal
  <2> QED
    BY <1>z, <2>1 DEF GroupInv, GroupSignal
<1> QED
  BY <1>z, <1>1, <1>2, <1>3, <1>4, CountKept DEF GroupInv

\* The operations that are not done can be counted.
LEMMA OpenCount ==
    ASSUME G!ConstantsAssumption, GroupInv
    PROVE  /\ IsFiniteSet(Open) /\ Cardinality(Open) \in Nat
           /\ Cardinality(Open) = 0 <=> Open = {}
           /\ owner => count >= 1
           /\ count = 0 => ~owner /\ Open = {}
           /\ Open # {} => count >= 1
<1>1. Open \subseteq Members /\ IsFiniteSet(Members)
  BY GroupConstants DEF Open
<1>2. IsFiniteSet(Open)
  BY <1>1, FS_Subset
<1>3. Cardinality(Open) \in Nat /\ (Cardinality(Open) = 0 <=> Open = {})
  BY <1>2, FS_CardinalityType, FS_EmptySet
<1>4. owner \in BOOLEAN /\ count = Cardinality(Open) + (IF owner THEN 1 ELSE 0)
  BY DEF GroupInv, GroupTypes, GroupCount
<1>5. owner => count >= 1
  BY <1>3, <1>4
<1>6. Open # {} => count >= 1
  BY <1>3, <1>4
<1>7. count = 0 => ~owner /\ Open = {}
  BY <1>3, <1>4
<1> QED
  BY <1>2, <1>3, <1>5, <1>6, <1>7

\* Set and Call take the stack; the jobs stay reachable.
LEMMA GroupTakeInv ==
    ASSUME G!ConstantsAssumption, GroupInv, G!Set \/ G!Call
    PROVE  GroupInv'
<1>z. /\ walk = <<>> /\ job = None /\ walk' = G!Taken /\ head' \in {AllDone, <<>>}
      /\ UNCHANGED <<group, kind, consume, job, flag, refs, ret, pc, count>>
      /\ UNCHANGED <<at, fref, ready, batch, owner, round>>
  BY DEF G!Set, G!Call, G!conf, G!futures
<1>y. \/ zero /\ head' = AllDone /\ zero' = FALSE
      \/ ~group /\ owner /\ head' = <<>> /\ zero' = zero
  BY DEF G!Set, G!Call
<1>l. G!Taken \in Seq(Waiters) /\ <<>> \in Seq(Waiters) /\ AllDone # <<>>
  BY TakenList, GroupConstants DEF GroupInv
<1>0. G!Taken' = <<>> /\ ToSet(G!Taken') = {} /\ IsInjective(G!Taken') /\ ToSet(walk) = {}
  <2>1. G!Taken' = <<>>
    BY <1>z DEF G!Taken
  <2> QED
    BY <1>z, <2>1, ListEmpty
<1>1. GroupTypes'
  <2>1. head' \in Seq(Waiters) \cup {AllDone} /\ walk' \in Seq(Waiters) /\ zero' \in BOOLEAN
    BY <1>z, <1>y, <1>l DEF GroupInv, GroupTypes
  <2> QED
    BY <1>z, <2>1 DEF GroupInv, GroupTypes
<1>2. \A v : Listed(v)' <=> Listed(v)
  BY <1>z, <1>0 DEF Listed
<1>3. GroupLists'
  BY <1>z, <1>0, <1>2 DEF GroupInv, GroupLists
<1>4. GroupJobs'
  <2> SUFFICES ASSUME NEW v \in Waiters PROVE JobSound(v)'
    BY DEF GroupJobs
  <2>1. JobSound(v)
    BY DEF GroupInv, GroupJobs
  <2> QED
    BY <1>z, <1>2, <2>1, JobKept
<1>5. GroupPhase'
  <2>1. owner => count >= 1
    BY OpenCount
  <2>2. count \in Int
    BY DEF GroupInv, GroupTypes
  <2>3. CASE zero /\ head' = AllDone /\ zero' = FALSE
    <3>1. count' = 0 /\ head' = AllDone /\ zero' = FALSE
      BY <1>z, <2>3 DEF GroupInv, GroupPhase
    <3> QED
      BY <3>1 DEF GroupPhase
  <2>4. CASE ~group /\ owner /\ head' = <<>> /\ zero' = zero
    <3>1. count # 0
      BY <2>1, <2>2, <2>4
    <3>2. head' # AllDone
      BY <1>l, <2>4, Zenon
    <3> QED
      BY <1>z, <2>4, <3>1, <3>2 DEF GroupInv, GroupPhase
  <2> QED
    BY <1>y, <2>3, <2>4
<1>6. GroupSignal'
  BY <1>z, <1>y DEF GroupSignal
<1> QED
  BY <1>z, <1>1, <1>3, <1>4, <1>5, <1>6, CountKept DEF GroupInv

\* SetImpl takes the next job off its list.
LEMMA GroupReadInv ==
    ASSUME G!ConstantsAssumption, GroupInv, G!ReadNext
    PROVE  GroupInv'
<1>z. /\ walk # <<>> /\ job = None /\ job' = Head(walk) /\ walk' = Tail(walk)
      /\ UNCHANGED <<group, kind, consume, head, flag, refs, ret, pc, count, zero>>
      /\ UNCHANGED <<at, fref, ready, batch, owner, round>>
  BY DEF G!ReadNext, G!conf, G!futures
<1>l. /\ walk \in Seq(Waiters) /\ IsInjective(walk) /\ None \notin Waiters
      /\ ToSet(walk) \cap ToSet(G!Taken) = {}
  BY GroupConstants DEF GroupInv, GroupTypes, GroupLists
<1>0. /\ job' \in Waiters /\ walk' \in Seq(Waiters) /\ ToSet(walk) = {job'} \cup ToSet(walk')
      /\ job' \notin ToSet(walk') /\ IsInjective(walk')
  BY <1>z, <1>l, ListPop
<1>t. G!Taken' = G!Taken
  BY <1>z DEF G!Taken
<1>1. GroupTypes'
  BY <1>z, <1>0 DEF GroupInv, GroupTypes
<1>2. \A v : Listed(v)' <=> Listed(v) /\ v # job'
  BY <1>l, <1>0, <1>t DEF Listed
<1>3. GroupLists'
  BY <1>z, <1>l, <1>0, <1>2, <1>t DEF GroupInv, GroupLists
<1>4. GroupJobs'
  <2> SUFFICES ASSUME NEW v \in Waiters PROVE JobSound(v)'
    BY DEF GroupJobs
  <2>1. JobSound(v) /\ v # None
    BY <1>l DEF GroupInv, GroupJobs
  <2>2. CASE v # job'
    BY <1>z, <1>2, <2>1, <2>2, JobKept
  <2>3. CASE v = job'
    <3>1. Listed(v) /\ Reached(v) /\ Reached(v)' /\ ~Listed(v)'
      BY <1>0, <1>2, <2>3 DEF Listed, Reached
    <3> QED
      BY <1>z, <2>1, <3>1 DEF JobSound
  <2> QED
    BY <2>2, <2>3
<1>5. GroupPhase' /\ GroupSignal'
  BY <1>z DEF GroupInv, GroupPhase, GroupSignal, Signal
<1> QED
  BY <1>z, <1>1, <1>3, <1>4, <1>5, CountKept DEF GroupInv

\* SetImpl calls the job.
LEMMA GroupCallInv ==
    ASSUME G!ConstantsAssumption, GroupInv, NEW w \in Waiters, G!CallJob(w)
    PROVE  GroupInv'
<1> DEFINE one == IF kind[w] = "WaitFor" THEN refs[w] - 1 ELSE refs[w]
<1>t. /\ pc \in [Waiters -> {"idle", "add", "waiting", "submitted", "done"}] /\ flag \subseteq Waiters
      /\ refs \in [Waiters -> Int] /\ ret \in [Waiters -> BOOLEAN \cup {None}]
      /\ kind[w] \in G!Kinds /\ one \in Int /\ w # None
  BY GroupConstants DEF GroupInv, GroupTypes
<1>z. /\ job = w /\ UNCHANGED <<group, kind, consume, head, walk, count, zero>>
      /\ UNCHANGED <<at, fref, ready, batch, owner, round>>
  BY DEF G!CallJob, G!conf, G!futures
<1>s. JobSound(w) /\ Reached(w) /\ ~Listed(w)
  BY <1>z, <1>t DEF GroupInv, GroupJobs, GroupLists, Reached
<1>k. kind[w] \in {"Wait", "WaitFor", "AwaitInline", "AwaitSticky", "AwaitOn"}
  BY <1>t DEF G!Kinds
<1>a. \/ /\ w \in flag /\ kind[w] = "WaitFor"
         /\ UNCHANGED <<flag, pc, ret>> /\ job' = None /\ refs' = [refs EXCEPT ![w] = one]
      \/ /\ w \notin flag /\ kind[w] = "Wait" /\ flag' = flag \cup {w}
         /\ UNCHANGED <<pc, ret>> /\ job' = None /\ refs' = [refs EXCEPT ![w] = one]
      \/ /\ w \notin flag /\ kind[w] = "WaitFor" /\ flag' = flag \cup {w}
         /\ UNCHANGED <<pc, ret, job, refs>>
      \/ /\ w \notin flag /\ kind[w] = "AwaitInline" /\ UNCHANGED flag
         /\ pc' = [pc EXCEPT ![w] = "done"] /\ ret' = [ret EXCEPT ![w] = TRUE]
         /\ job' = None /\ refs' = [refs EXCEPT ![w] = one]
      \/ /\ w \notin flag /\ kind[w] \in {"AwaitSticky", "AwaitOn"} /\ UNCHANGED <<flag, ret>>
         /\ pc' = [pc EXCEPT ![w] = "submitted"]
         /\ job' = None /\ refs' = [refs EXCEPT ![w] = one]
  <2>1. CASE w \in flag
    <3>1. kind[w] = "WaitFor"
      BY <1>s, <2>1 DEF JobSound
    <3> QED
      BY <2>1, <3>1 DEF G!CallJob
  <2>2. CASE w \notin flag /\ kind[w] \in {"Wait", "WaitFor"}
    BY <2>2 DEF G!CallJob
  <2>3. CASE w \notin flag /\ kind[w] = "AwaitInline"
    BY <2>3 DEF G!CallJob
  <2>4. CASE w \notin flag /\ kind[w] \in {"AwaitSticky", "AwaitOn"}
    BY <2>4 DEF G!CallJob
  <2> QED
    BY <1>k, <2>1, <2>2, <2>3, <2>4
<1>0. /\ pc' \in [Waiters -> {"idle", "add", "waiting", "submitted", "done"}]
      /\ refs' \in [Waiters -> Int] /\ flag' \subseteq Waiters /\ job' \in {w, None}
      /\ \A v \in Waiters : v # w => pc'[v] = pc[v] /\ refs'[v] = refs[v] /\ (v \in flag' <=> v \in flag)
  BY <1>z, <1>t, <1>a
<1>1. GroupTypes'
  <2>1. ret' \in [Waiters -> BOOLEAN \cup {None}]
    BY <1>t, <1>a
  <2> QED
    BY <1>z, <1>0, <2>1 DEF GroupInv, GroupTypes
<1>2. G!Taken' = G!Taken /\ \A v : Listed(v)' <=> Listed(v)
  BY <1>z DEF G!Taken, Listed
<1>3. GroupLists' /\ GroupPhase'
  BY <1>z, <1>0, <1>2, <1>s DEF GroupInv, GroupLists, GroupPhase
<1>4. GroupJobs'
  <2> SUFFICES ASSUME NEW v \in Waiters PROVE JobSound(v)'
    BY DEF GroupJobs
  <2>1. JobSound(v) /\ v # None
    BY GroupConstants DEF GroupInv, GroupJobs
  <2>2. CASE v # w
    BY <1>z, <1>0, <1>2, <2>1, <2>2, JobKept
  <2>3. CASE v = w
    <3>1. Listed(w)' <=> FALSE
      BY <1>s, <1>2
    <3>2. Reached(w)' <=> job' = w
      BY <3>1 DEF Reached
    <3>3. kind' = kind /\ w # None /\ pc[w] \in {"waiting", "done"} /\ (kind[w] # "WaitFor" => pc[w] = "waiting" /\ refs[w] = 0)
      BY <1>z, <1>t, <1>s DEF JobSound
    <3>4. CASE w \in flag /\ kind[w] = "WaitFor"
      BY <2>3, <1>a, <1>t, <1>s, <3>1, <3>2, <3>3, <3>4 DEF JobSound
    <3>5. CASE w \notin flag /\ kind[w] = "WaitFor"
      BY <2>3, <1>a, <1>z, <1>t, <1>s, <3>1, <3>2, <3>3, <3>5 DEF JobSound
    <3>6. CASE kind[w] # "WaitFor"
      <4>1. refs'[w] = 0 /\ ~Reached(w)' /\ pc'[w] \in {"waiting", "done", "submitted"}
        BY <1>a, <1>t, <3>2, <3>3, <3>6
      <4> QED
        BY <2>3, <3>1, <3>3, <3>6, <4>1 DEF JobSound
    <3> QED
      BY <2>3, <3>4, <3>5, <3>6
  <2> QED
    BY <2>2, <2>3
<1>5. GroupSignal'
  BY <1>z, <1>t DEF GroupInv, GroupSignal, Signal
<1> QED
  BY <1>z, <1>1, <1>3, <1>4, <1>5, CountKept DEF GroupInv

\* Reset starts the next use of the group.
LEMMA GroupResetInv ==
    ASSUME G!ConstantsAssumption, GroupInv, G!Reset
    PROVE  GroupInv'
<1>z. /\ ~owner /\ ~zero /\ head = AllDone /\ walk = <<>> /\ job = None
      /\ \A w \in Waiters : pc[w] = "done"
      /\ round' = round + 1 /\ head' = <<>> /\ count' = 1 /\ owner' = TRUE
      /\ pc' = [w \in Waiters |-> "idle"] /\ flag' = {}
      /\ UNCHANGED <<group, kind, consume, walk, job, refs, ret, zero>>
      /\ UNCHANGED <<at, fref, ready, batch>>
  BY DEF G!Reset, G!conf, G!futures
<1>l. <<>> \in Seq(Waiters) /\ AllDone # <<>> /\ None \notin Waiters
  BY GroupConstants
<1>0. G!Taken' = <<>> /\ G!Taken = <<>> /\ ToSet(G!Taken) = {} /\ ToSet(walk) = {}
      /\ ToSet(G!Taken') = {} /\ IsInjective(G!Taken') /\ IsInjective(walk')
  <2>1. G!Taken' = <<>> /\ G!Taken = <<>>
    BY <1>z DEF G!Taken
  <2> QED
    BY <1>z, <2>1, ListEmpty
<1>1. GroupTypes'
  <2>1. head' \in Seq(Waiters) \cup {AllDone} /\ count' \in Int /\ owner' \in BOOLEAN /\ flag' \subseteq Waiters
    BY <1>z, <1>l
  <2>2. pc' \in [Waiters -> {"idle", "add", "waiting", "submitted", "done"}]
    BY <1>z
  <2> QED
    BY <1>z, <2>1, <2>2 DEF GroupInv, GroupTypes
<1>2. GroupLists'
  <2>1. \A v : ~Listed(v)'
    BY <1>z, <1>0 DEF Listed
  <2> QED
    BY <1>z, <1>0, <2>1 DEF GroupLists
<1>3. GroupJobs'
  <2> SUFFICES ASSUME NEW v \in Waiters PROVE JobSound(v)'
    BY DEF GroupJobs
  <2>1. JobSound(v) /\ pc[v] = "done" /\ v # None
    BY <1>z, <1>l DEF GroupInv, GroupJobs
  <2>2. ~Reached(v) /\ ~Reached(v)' /\ ~Listed(v)'
    BY <1>z, <1>0, <2>1 DEF Reached, Listed
  <2>3. pc'[v] = "idle" /\ v \notin flag' /\ refs' = refs /\ kind' = kind
    BY <1>z
  <2>4. refs[v] = 0
    BY <2>1, <2>2 DEF JobSound
  <2> QED
    BY <2>2, <2>3, <2>4 DEF JobSound
<1>4. GroupCount'
  <2>1. Open' = Open
    BY <1>z DEF Open
  <2>2. count = 0
    BY <1>z DEF GroupInv, GroupPhase
  <2>3. Cardinality(Open) = 0
    BY <2>2, OpenCount
  <2> QED
    BY <1>z, <2>1, <2>3 DEF GroupCount
<1>5. GroupPhase'
  <2>1. head' # AllDone
    BY <1>z, <1>l, Zenon
  <2> QED
    BY <1>z, <2>1 DEF GroupPhase
<1>6. GroupOwner'
  BY <1>z DEF GroupInv, GroupOwner
<1>7. GroupMembers'
  BY <1>z DEF GroupInv, GroupMembers, MemberSound
<1>8. GroupSignal'
  BY <1>z DEF GroupSignal, Signal
<1> QED
  BY <1>1, <1>2, <1>3, <1>4, <1>5, <1>6, <1>7, <1>8 DEF GroupInv

\* A step that takes k operations off the count, of which there are so many.
LEMMA SubPhase ==
    ASSUME G!ConstantsAssumption, GroupInv, NEW k \in Nat, k >= 1, count >= k, G!Sub(k), UNCHANGED head
    PROVE  GroupPhase' /\ count' \in Int /\ zero' \in BOOLEAN
<1>1. count \in Int /\ zero \in BOOLEAN /\ (zero => count = 0) /\ (head = AllDone => count = 0)
  BY DEF GroupInv, GroupTypes, GroupPhase
<1>2. ~zero /\ head # AllDone
  BY <1>1
<1>3. count' = count - k /\ (zero' <=> count = k) /\ zero' \in BOOLEAN
  BY <1>2 DEF G!Sub
<1> QED
  BY <1>1, <1>2, <1>3 DEF GroupPhase

\* Done of the owner.
LEMMA GroupDoneInv ==
    ASSUME G!ConstantsAssumption, GroupInv, G!Done
    PROVE  GroupInv'
<1>z. /\ owner /\ (\A b \in G!Batches : batch[b] = "done") /\ owner' = FALSE /\ G!Sub(1)
      /\ UNCHANGED <<group, kind, consume, head, walk, job, flag, refs, ret, pc>>
      /\ UNCHANGED <<at, fref, ready, batch, round>>
  BY DEF G!Done, G!conf, G!event, G!futures
<1>1. count >= 1 /\ Cardinality(Open) \in Nat
  BY <1>z, OpenCount
<1>2. GroupPhase' /\ count' \in Int /\ zero' \in BOOLEAN
  BY <1>z, <1>1, SubPhase
<1>3. GroupTypes'
  BY <1>z, <1>2 DEF GroupInv, GroupTypes
<1>4. GroupCount'
  <2>1. Open' = Open
    BY <1>z DEF Open
  <2>2. count = Cardinality(Open) + 1 /\ count' = count - 1
    BY <1>z DEF GroupInv, GroupCount, G!Sub
  <2> QED
    BY <1>z, <1>1, <2>1, <2>2 DEF GroupCount
<1>5. GroupOwner'
  BY <1>z DEF GroupInv, GroupOwner
<1>6. GroupMembers'
  BY <1>z DEF GroupInv, GroupMembers, MemberSound
<1> QED
  BY <1>z, <1>2, <1>3, <1>4, <1>5, <1>6, EventKept DEF GroupInv

\* Add, before any callback of the batch.
LEMMA GroupAddBatchInv ==
    ASSUME G!ConstantsAssumption, GroupInv, NEW b \in G!Batches, G!AddBatch(b)
    PROVE  GroupInv'
<1> DEFINE fs == {f \in Members : BatchOf[f] = b}
<1>z. /\ batch[b] = "idle" /\ batch' = [batch EXCEPT ![b] = "insert"]
      /\ count' = count + Cardinality(fs)
      /\ UNCHANGED <<group, kind, consume, head, walk, job, flag, refs, ret, pc, zero>>
      /\ UNCHANGED <<at, fref, ready, owner, round>>
  BY SameLibrary DEF G!AddBatch, G!BatchSize, G!conf, G!event
<1>t. /\ batch \in [G!Batches -> {"idle", "insert", "done"}] /\ count \in Int
      /\ \A f \in Members : BatchOf[f] \in G!Batches
  BY DEF GroupInv, GroupTypes, G!Batches
<1>o. owner /\ group /\ round = 1
  BY <1>z DEF GroupInv, GroupOwner
<1>b. /\ batch' \in [G!Batches -> {"idle", "insert", "done"}] /\ batch'[b] = "insert"
      /\ \A c \in G!Batches : c # b => batch'[c] = batch[c]
  BY <1>z, <1>t
<1>i. \A f \in fs : at[f] = "idle"
  BY <1>z DEF GroupInv, GroupMembers, MemberSound
<1>1. Open' = Open \cup fs /\ Open \cap fs = {}
  <2>1. Open \cap fs = {}
    BY <1>z, <1>i DEF Open
  <2>2. ASSUME NEW f \in Members PROVE f \in Open' <=> f \in Open \/ f \in fs
    <3>1. CASE f \in fs
      BY <1>z, <1>b, <1>i, <3>1 DEF Open
    <3>2. CASE f \notin fs
      BY <1>z, <1>b, <1>t, <3>2 DEF Open
    <3> QED
      BY <3>1, <3>2
  <2>3. Open \subseteq Members /\ Open' \subseteq Members /\ fs \subseteq Members
    BY DEF Open
  <2> HIDE DEF fs
  <2> QED
    BY <2>1, <2>2, <2>3
<1>2. /\ IsFiniteSet(fs) /\ IsFiniteSet(Open) /\ Cardinality(fs) \in Nat /\ Cardinality(Open) \in Nat
      /\ count >= 1
  <2>1. fs \subseteq Members /\ IsFiniteSet(Members)
    BY GroupConstants
  <2>2. IsFiniteSet(fs)
    BY <2>1, FS_Subset
  <2> HIDE DEF fs
  <2> QED
    BY <1>o, <2>2, OpenCount, FS_CardinalityType
<1> HIDE DEF fs
<1>3. GroupCount'
  <2>1. Cardinality(Open \cup fs) = Cardinality(Open) + Cardinality(fs)
    <3>1. Cardinality(Open \cup fs) = Cardinality(Open) + Cardinality(fs) - Cardinality(Open \cap fs)
      BY <1>2, FS_Union
    <3>2. Cardinality(Open \cap fs) = 0
      BY <1>1, FS_EmptySet
    <3> QED
      BY <1>2, <3>1, <3>2
  <2>2. count = Cardinality(Open) + 1
    BY <1>o DEF GroupInv, GroupCount
  <2> QED
    BY <1>z, <1>o, <1>1, <1>2, <2>1, <2>2 DEF GroupCount
<1>4. GroupTypes'
  <2>1. count' \in Int
    BY <1>z, <1>t, <1>2
  <2> QED
    BY <1>z, <1>b, <2>1 DEF GroupInv, GroupTypes
<1>5. GroupPhase'
  <2>1. count' >= 1 /\ count' \in Int
    BY <1>z, <1>t, <1>2
  <2>2. ~zero /\ head # AllDone
    BY <1>t, <1>2 DEF GroupInv, GroupPhase
  <2> QED
    BY <1>z, <2>1, <2>2 DEF GroupPhase
<1>6. GroupOwner'
  BY <1>z, <1>o DEF GroupInv, GroupOwner
<1>7. GroupMembers'
  <2> SUFFICES ASSUME NEW f \in Members PROVE MemberSound(f)'
    BY DEF GroupMembers
  <2>1. MemberSound(f) /\ (batch'[BatchOf[f]] = "insert" \/ batch'[BatchOf[f]] = batch[BatchOf[f]])
    BY <1>b, <1>t DEF GroupInv, GroupMembers
  <2> QED
    BY <1>z, <2>1 DEF MemberSound
<1> QED
  BY <1>z, <1>3, <1>4, <1>5, <1>6, <1>7, EventKept DEF GroupInv

\* One future moves and nothing else about the futures changes.
LEMMA MemberMoves ==
    ASSUME GroupInv, NEW f \in Members, NEW s \in {"skipped", "attached", "called", "dropped", "done"},
           at' = [at EXCEPT ![f] = s], UNCHANGED <<batch, consume>>
    PROVE  /\ at'[f] = s /\ (\A g \in Members : g # f => at'[g] = at[g])
           /\ at' \in [Members -> {"idle", "skipped", "attached", "called", "dropped", "done"}]
           /\ Open' \ {f} = Open \ {f}
           /\ f \in Open' <=> \/ s \in {"attached", "called", "dropped"}
                              \/ batch[BatchOf[f]] = "insert" /\ s = "skipped"
<1>1. /\ at'[f] = s /\ (\A g \in Members : g # f => at'[g] = at[g])
      /\ at' \in [Members -> {"idle", "skipped", "attached", "called", "dropped", "done"}]
  BY DEF GroupInv, GroupTypes
<1>2. ASSUME NEW g \in Members, g # f PROVE g \in Open' <=> g \in Open
  BY <1>1, <1>2 DEF Open
<1>3. Open \subseteq Members /\ Open' \subseteq Members
  BY DEF Open
<1>4. f \in Open' <=> \/ s \in {"attached", "called", "dropped"}
                      \/ batch[BatchOf[f]] = "insert" /\ s = "skipped"
  BY <1>1 DEF Open
<1>5. Open' \ {f} = Open \ {f}
  BY <1>2, <1>3
<1> QED
  BY <1>1, <1>4, <1>5

\* A future moves within its operation.
LEMMA OpenStays ==
    ASSUME GroupInv, NEW f \in Members, NEW s \in {"skipped", "attached", "called", "dropped"},
           at' = [at EXCEPT ![f] = s], UNCHANGED <<batch, consume, count, owner>>,
           f \in Open, s = "skipped" => batch[BatchOf[f]] = "insert"
    PROVE  GroupCount'
<1>1. Open' \ {f} = Open \ {f} /\ f \in Open'
  BY MemberMoves
<1>2. Open' = Open
  BY <1>1
<1> QED
  BY <1>2 DEF GroupInv, GroupCount

\* SetCallback on a future of the batch.
LEMMA GroupInsertInv ==
    ASSUME G!ConstantsAssumption, GroupInv, NEW f \in Members, G!Insert(f)
    PROVE  GroupInv'
<1> DEFINE s == IF f \in ready THEN "skipped" ELSE "attached"
<1>z. /\ batch[BatchOf[f]] = "insert" /\ at[f] = "idle" /\ at' = [at EXCEPT ![f] = s]
      /\ fref' = [fref EXCEPT ![f] = IF f \in ready /\ BatchOf[f] \in consume THEN fref[f] - 1 ELSE fref[f]]
      /\ UNCHANGED <<group, kind, consume, head, walk, job, flag, refs, ret, pc, zero>>
      /\ UNCHANGED <<count, ready, batch, owner, round>>
  <2>1. fref = [fref EXCEPT ![f] = fref[f]]
    BY DEF GroupInv, GroupTypes
  <2> QED
    BY <2>1 DEF G!Insert, G!conf, G!event
<1>t. /\ fref \in [Members -> Int] /\ fref[f] \in Int
      /\ fref' \in [Members -> Int] /\ (\A g \in Members : g # f => fref'[g] = fref[g])
      /\ fref'[f] = (IF f \in ready /\ BatchOf[f] \in consume THEN fref[f] - 1 ELSE fref[f])
  BY <1>z DEF GroupInv, GroupTypes
<1>m. /\ at'[f] = s /\ (\A g \in Members : g # f => at'[g] = at[g])
      /\ at' \in [Members -> {"idle", "skipped", "attached", "called", "dropped", "done"}]
  BY <1>z, MemberMoves
<1>1. GroupTypes'
  BY <1>z, <1>t, <1>m DEF GroupInv, GroupTypes
<1>2. GroupCount'
  <2>1. f \in Open
    BY <1>z DEF Open
  <2> QED
    BY <1>z, <2>1, OpenStays
<1>3. GroupMembers'
  <2> SUFFICES ASSUME NEW g \in Members PROVE MemberSound(g)'
    BY DEF GroupMembers
  <2>1. MemberSound(g)
    BY DEF GroupInv, GroupMembers
  <2>2. CASE g # f
    BY <1>z, <1>t, <1>m, <2>1, <2>2 DEF MemberSound
  <2>3. CASE g = f
    BY <1>z, <1>t, <1>m, <2>1, <2>3 DEF MemberSound
  <2> QED
    BY <2>2, <2>3
<1>4. GroupPhase' /\ GroupOwner'
  BY <1>z DEF GroupInv, GroupPhase, GroupOwner
<1> QED
  BY <1>z, <1>1, <1>2, <1>3, <1>4, EventKept DEF GroupInv

\* A future gets its result.
LEMMA GroupFulfilInv ==
    ASSUME G!ConstantsAssumption, GroupInv, NEW f \in Members, G!Fulfil(f)
    PROVE  GroupInv'
<1>z. /\ f \notin ready /\ ready' = ready \cup {f}
      /\ at' = [at EXCEPT ![f] = IF at[f] = "attached" THEN "called" ELSE at[f]]
      /\ UNCHANGED <<group, kind, consume, head, walk, job, flag, refs, ret, pc, zero>>
      /\ UNCHANGED <<count, fref, batch, owner, round>>
  BY DEF G!Fulfil, G!conf, G!event
<1>t. at \in [Members -> {"idle", "skipped", "attached", "called", "dropped", "done"}]
  BY DEF GroupInv, GroupTypes
<1>m. /\ at' \in [Members -> {"idle", "skipped", "attached", "called", "dropped", "done"}]
      /\ at'[f] = (IF at[f] = "attached" THEN "called" ELSE at[f])
      /\ \A g \in Members : g # f => at'[g] = at[g]
  BY <1>z, <1>t
<1>1. GroupTypes'
  BY <1>z, <1>m DEF GroupInv, GroupTypes
<1>2. GroupCount'
  <2>1. CASE at[f] = "attached"
    <3>1. f \in Open
      BY <2>1 DEF Open
    <3> QED
      BY <1>z, <2>1, <3>1, OpenStays
  <2>2. CASE at[f] # "attached"
    <3>1. at' = at
      BY <1>z, <1>t, <2>2
    <3>2. Open' = Open
      BY <1>z, <3>1 DEF Open
    <3> QED
      BY <1>z, <3>2 DEF GroupInv, GroupCount
  <2> QED
    BY <2>1, <2>2
<1>3. GroupMembers'
  <2> SUFFICES ASSUME NEW g \in Members PROVE MemberSound(g)'
    BY DEF GroupMembers
  <2>1. MemberSound(g)
    BY DEF GroupInv, GroupMembers
  <2>2. CASE g # f
    BY <1>z, <1>m, <2>1, <2>2 DEF MemberSound
  <2>3. CASE g = f
    BY <1>z, <1>m, <2>1, <2>3 DEF MemberSound
  <2> QED
    BY <2>2, <2>3
<1>4. GroupPhase' /\ GroupOwner'
  BY <1>z DEF GroupInv, GroupPhase, GroupOwner
<1> QED
  BY <1>z, <1>1, <1>2, <1>3, <1>4, EventKept DEF GroupInv

\* DropCallback and CallCallback: the core goes before the operation is done.
LEMMA GroupCallbackInv ==
    ASSUME G!ConstantsAssumption, GroupInv, NEW f \in Members, G!Callback(f)
    PROVE  GroupInv'
<1>u. /\ UNCHANGED <<group, kind, consume, head, walk, job, flag, refs, ret, pc>>
      /\ UNCHANGED <<ready, batch, owner, round>>
  BY DEF G!Callback, G!conf, G!event
<1>t. fref \in [Members -> Int] /\ fref[f] \in Int /\ MemberSound(f)
  BY DEF GroupInv, GroupTypes, GroupMembers
<1>1. CASE /\ at[f] = "called" /\ BatchOf[f] \in consume /\ fref' = [fref EXCEPT ![f] = fref[f] - 1]
           /\ at' = [at EXCEPT ![f] = "dropped"] /\ UNCHANGED <<count, zero>>
  <2>m. /\ at'[f] = "dropped" /\ (\A g \in Members : g # f => at'[g] = at[g])
        /\ at' \in [Members -> {"idle", "skipped", "attached", "called", "dropped", "done"}]
    BY <1>1, <1>u, MemberMoves
  <2>f. fref' \in [Members -> Int] /\ fref'[f] = fref[f] - 1 /\ \A g \in Members : g # f => fref'[g] = fref[g]
    BY <1>1, <1>t
  <2>1. GroupTypes'
    BY <1>1, <1>u, <2>m, <2>f DEF GroupInv, GroupTypes
  <2>2. GroupCount'
    <3>1. f \in Open
      BY <1>1 DEF Open
    <3> QED
      BY <1>1, <1>u, <3>1, OpenStays
  <2>3. GroupMembers'
    <3> SUFFICES ASSUME NEW g \in Members PROVE MemberSound(g)'
      BY DEF GroupMembers
    <3>1. MemberSound(g)
      BY DEF GroupInv, GroupMembers
    <3>2. CASE g # f
      BY <1>u, <2>m, <2>f, <3>1, <3>2 DEF MemberSound
    <3>3. CASE g = f
      BY <1>1, <1>u, <1>t, <2>m, <2>f, <3>3 DEF MemberSound
    <3> QED
      BY <3>2, <3>3
  <2>4. GroupPhase' /\ GroupOwner'
    BY <1>1, <1>u DEF GroupInv, GroupPhase, GroupOwner
  <2> QED
    BY <1>u, <2>1, <2>2, <2>3, <2>4, EventKept DEF GroupInv
<1>2. CASE /\ at[f] = (IF BatchOf[f] \in consume THEN "dropped" ELSE "called") /\ G!Sub(1)
           /\ at' = [at EXCEPT ![f] = "done"] /\ UNCHANGED fref
  <2>m. /\ at'[f] = "done" /\ (\A g \in Members : g # f => at'[g] = at[g])
        /\ at' \in [Members -> {"idle", "skipped", "attached", "called", "dropped", "done"}]
        /\ Open' \ {f} = Open \ {f} /\ f \notin Open'
    BY <1>2, <1>u, MemberMoves
  <2>o. f \in Open /\ Open' = Open \ {f}
    BY <1>2, <2>m DEF Open
  <2>c. /\ count >= 1 /\ Cardinality(Open) \in Nat
        /\ Cardinality(Open \ {f}) = Cardinality(Open) - 1
    BY <2>o, OpenCount, FS_RemoveElement
  <2>1. GroupPhase' /\ count' \in Int /\ zero' \in BOOLEAN
    BY <1>2, <1>u, <2>c, SubPhase
  <2>2. GroupTypes'
    BY <1>2, <1>u, <2>1, <2>m DEF GroupInv, GroupTypes
  <2>3. GroupCount'
    <3>1. count' = count - 1 /\ count = Cardinality(Open) + (IF owner THEN 1 ELSE 0)
      BY <1>2 DEF G!Sub, GroupInv, GroupCount
    <3> QED
      BY <1>u, <2>o, <2>c, <3>1 DEF GroupCount
  <2>4. GroupMembers'
    <3> SUFFICES ASSUME NEW g \in Members PROVE MemberSound(g)'
      BY DEF GroupMembers
    <3>1. MemberSound(g)
      BY DEF GroupInv, GroupMembers
    <3>2. CASE g # f
      BY <1>2, <1>u, <2>m, <3>1, <3>2 DEF MemberSound
    <3>3. CASE g = f
      BY <1>2, <1>u, <1>t, <2>m, <3>3 DEF MemberSound
    <3> QED
      BY <3>2, <3>3
  <2>5. GroupOwner'
    BY <1>u DEF GroupInv, GroupOwner
  <2> QED
    BY <1>u, <2>1, <2>2, <2>3, <2>4, <2>5, EventKept DEF GroupInv
<1> QED
  BY <1>1, <1>2 DEF G!Callback

\* Done for the futures that had their results.
LEMMA GroupDoneBatchInv ==
    ASSUME G!ConstantsAssumption, GroupInv, NEW b \in G!Batches, G!DoneBatch(b)
    PROVE  GroupInv'
<1> DEFINE fs == {f \in Members : BatchOf[f] = b}
           sk == {f \in fs : at[f] = "skipped"}
<1>z. /\ batch[b] = "insert" /\ (\A f \in fs : at[f] # "idle")
      /\ batch' = [batch EXCEPT ![b] = "done"]
      /\ IF Cardinality(sk) = 0 THEN UNCHANGED <<count, zero>> ELSE G!Sub(Cardinality(sk))
      /\ UNCHANGED <<group, kind, consume, head, walk, job, flag, refs, ret, pc>>
      /\ UNCHANGED <<at, fref, ready, owner, round>>
  BY SameLibrary DEF G!DoneBatch, G!conf, G!event
<1>t. /\ batch \in [G!Batches -> {"idle", "insert", "done"}] /\ count \in Int /\ zero \in BOOLEAN
      /\ \A f \in Members : BatchOf[f] \in G!Batches
  BY DEF GroupInv, GroupTypes, G!Batches
<1>o. owner /\ group /\ round = 1
  BY <1>z DEF GroupInv, GroupOwner
<1>b. /\ batch' \in [G!Batches -> {"idle", "insert", "done"}] /\ batch'[b] = "done"
      /\ \A c \in G!Batches : c # b => batch'[c] = batch[c]
  BY <1>z, <1>t
<1>1. Open' = Open \ sk /\ sk \subseteq Open
  <2>1. sk \subseteq Open
    BY <1>z DEF Open
  <2>2. ASSUME NEW f \in Members PROVE f \in Open' <=> f \in Open /\ f \notin sk
    <3>1. CASE f \in fs
      BY <1>z, <1>b, <3>1 DEF Open
    <3>2. CASE f \notin fs
      BY <1>z, <1>b, <1>t, <3>2 DEF Open
    <3> QED
      BY <3>1, <3>2
  <2>3. Open \subseteq Members /\ Open' \subseteq Members
    BY DEF Open
  <2> HIDE DEF sk
  <2> QED
    BY <2>1, <2>2, <2>3
<1>m. GroupMembers'
  <2> SUFFICES ASSUME NEW f \in Members PROVE MemberSound(f)'
    BY DEF GroupMembers
  <2>1. MemberSound(f)
    BY DEF GroupInv, GroupMembers
  <2>2. CASE f \in fs
    BY <1>z, <1>b, <2>1, <2>2 DEF MemberSound
  <2>3. CASE f \notin fs
    <3>1. batch'[BatchOf[f]] = batch[BatchOf[f]]
      BY <1>b, <1>t, <2>3
    <3> QED
      BY <1>z, <2>1, <3>1 DEF MemberSound
  <2> QED
    BY <2>2, <2>3
<1> HIDE DEF sk
<1>2. /\ IsFiniteSet(sk) /\ IsFiniteSet(Open) /\ Cardinality(sk) \in Nat /\ Cardinality(Open) \in Nat
      /\ count = Cardinality(Open) + 1 /\ Cardinality(sk) <= Cardinality(Open)
  <2>1. IsFiniteSet(Open) /\ Cardinality(Open) \in Nat
    BY OpenCount
  <2>2. IsFiniteSet(sk) /\ Cardinality(sk) <= Cardinality(Open)
    BY <1>1, <2>1, FS_Subset
  <2>3. count = Cardinality(Open) + 1
    BY <1>o DEF GroupInv, GroupCount
  <2> QED
    BY <2>1, <2>2, <2>3, FS_CardinalityType
<1>3. Cardinality(Open') = Cardinality(Open) - Cardinality(sk)
  <2>1. Cardinality(Open \ sk) = Cardinality(Open) - Cardinality(Open \cap sk)
    BY <1>2, FS_Difference
  <2>2. Open \cap sk = sk
    BY <1>1
  <2> QED
    BY <1>1, <2>1, <2>2
<1>4. count' = count - Cardinality(sk)
  BY <1>z, <1>t, <1>2 DEF G!Sub
<1>5. GroupCount'
  BY <1>z, <1>o, <1>2, <1>3, <1>4 DEF GroupCount
<1>6. GroupPhase' /\ count' \in Int /\ zero' \in BOOLEAN
  <2>1. CASE Cardinality(sk) = 0
    BY <1>z, <1>t, <2>1 DEF GroupInv, GroupPhase
  <2>2. CASE Cardinality(sk) # 0
    <3>1. Cardinality(sk) >= 1 /\ count >= Cardinality(sk) /\ G!Sub(Cardinality(sk))
      BY <1>z, <1>2, <2>2
    <3> QED
      BY <1>z, <1>2, <3>1, SubPhase
  <2> QED
    BY <2>1, <2>2
<1>7. GroupTypes'
  BY <1>z, <1>b, <1>6 DEF GroupInv, GroupTypes
<1>8. GroupOwner'
  BY <1>z, <1>o DEF GroupInv, GroupOwner
<1> QED
  BY <1>z, <1>m, <1>5, <1>6, <1>7, <1>8, EventKept DEF GroupInv

\* The group's invariant holds at the beginning.
LEMMA GroupInitInv ==
    ASSUME G!ConstantsAssumption, G!Init
    PROVE  GroupInv
<1>z. /\ group \in BOOLEAN /\ kind \in [Waiters -> G!Kinds]
      /\ head = <<>> /\ walk = <<>> /\ job = None /\ pc = [w \in Waiters |-> "idle"] /\ flag = {}
      /\ refs = [w \in Waiters |-> 0] /\ ret = [w \in Waiters |-> None]
      /\ count = 1 /\ zero = FALSE /\ at = [f \in Members |-> "idle"] /\ fref = [f \in Members |-> 1]
      /\ batch = [b \in G!Batches |-> IF group THEN "idle" ELSE "done"] /\ owner = TRUE /\ round = 1
  BY DEF G!Init
<1>l. AllDone # <<>> /\ None \notin Waiters /\ <<>> \in Seq(Waiters)
  BY GroupConstants
<1>b. \A f \in Members : BatchOf[f] \in G!Batches
  BY DEF G!Batches
<1>h. head # AllDone
  BY <1>z, <1>l, Zenon
<1>0. G!Taken = <<>> /\ ToSet(<<>>) = {} /\ IsInjective(<<>>)
  BY <1>z, <1>h, ListEmpty DEF G!Taken
<1>1. GroupTypes
  <2>1. /\ head \in Seq(Waiters) \cup {AllDone} /\ walk \in Seq(Waiters) /\ job \in Waiters \cup {None}
        /\ flag \subseteq Waiters /\ count \in Int
    BY <1>z, <1>l
  <2>5. zero \in BOOLEAN /\ owner \in BOOLEAN
    BY <1>z
  <2>2. /\ pc \in [Waiters -> {"idle", "add", "waiting", "submitted", "done"}]
        /\ refs \in [Waiters -> Int]
    BY <1>z
  <2>3. ret \in [Waiters -> BOOLEAN \cup {None}]
    BY <1>z
  <2>4. /\ at \in [Members -> {"idle", "skipped", "attached", "called", "dropped", "done"}]
        /\ fref \in [Members -> Int] /\ batch \in [G!Batches -> {"idle", "insert", "done"}]
    BY <1>z
  <2> QED
    BY <1>z, <2>1, <2>2, <2>3, <2>4, <2>5 DEF GroupTypes
<1>2. GroupLists
  BY <1>z, <1>0 DEF GroupLists, Listed
<1>3. GroupJobs
  BY <1>z, <1>l, <1>0 DEF GroupJobs, JobSound, Reached, Listed
<1>4. GroupCount
  <2>1. Open = {}
    BY <1>z, <1>b DEF Open
  <2> QED
    BY <1>z, <2>1, FS_EmptySet DEF GroupCount
<1>5. GroupPhase /\ GroupOwner
  BY <1>z, <1>h DEF GroupPhase, GroupOwner
<1>6. GroupMembers
  BY <1>z, <1>b DEF GroupMembers, MemberSound
<1>7. GroupSignal
  BY <1>z DEF GroupSignal, Signal
<1> QED
  BY <1>1, <1>2, <1>3, <1>4, <1>5, <1>6, <1>7 DEF GroupInv

\* Every step of the group keeps its invariant.
LEMMA GroupNextInv ==
    ASSUME G!ConstantsAssumption, GroupInv, [G!Next]_G!vars
    PROVE  GroupInv'
<1>1. CASE G!SetterStep \/ G!Call \/ G!Done \/ G!Reset
  BY <1>1, GroupTakeInv, GroupReadInv, GroupCallInv, GroupDoneInv, GroupResetInv DEF G!SetterStep
<1>2. ASSUME NEW w \in Waiters, G!Begin(w) \/ G!WaiterStep(w) \/ G!Timeout(w) PROVE GroupInv'
  BY <1>2, GroupBeginInv, GroupAddInv, GroupLeaveInv DEF G!WaiterStep
<1>3. ASSUME NEW b \in G!Batches, G!AddBatch(b) \/ G!DoneBatch(b) PROVE GroupInv'
  BY <1>3, GroupAddBatchInv, GroupDoneBatchInv
<1>4. ASSUME NEW f \in Members, G!Insert(f) \/ G!Fulfil(f) \/ G!Callback(f) PROVE GroupInv'
  BY <1>4, GroupInsertInv, GroupFulfilInv, GroupCallbackInv
<1>5. CASE UNCHANGED G!vars
  <2>1. /\ UNCHANGED <<group, kind, consume, head, walk, job, flag, refs, ret, pc, zero>>
        /\ UNCHANGED <<count, at, fref, ready, batch, owner, round>>
    BY <1>5 DEF G!vars, G!conf, G!event, G!futures
  <2>2. GroupTypes' /\ GroupPhase'
    BY <2>1 DEF GroupInv, GroupTypes, GroupPhase
  <2> QED
    BY <2>1, <2>2, CountKept, EventKept DEF GroupInv
<1> QED
  BY <1>1, <1>2, <1>3, <1>4, <1>5 DEF G!Next

\* The group's invariant holds in every reachable state.
LEMMA GroupInvariance ==
    ASSUME G!ConstantsAssumption
    PROVE  G!Spec => []GroupInv
BY GroupInitInv, GroupNextInv, PTL DEF G!Spec

\* Every job that SetImpl or the stack can reach lives, although each call lets
\* a waiter return and a timed one leaves when it likes; no job is there twice,
\* and Set never finds the event set (one_shot_event.cpp).
THEOREM JobsOutliveTheirCalls ==
    ASSUME G!ConstantsAssumption
    PROVE  G!Spec => []G!JobsAlive
<1>1. ASSUME GroupInv PROVE G!JobsAlive
  <2> DEFINE todo == walk \o G!Taken
  <2>1. /\ walk \in Seq(Waiters) /\ G!Taken \in Seq(Waiters) /\ refs \in [Waiters -> Int]
        /\ IsInjective(walk) /\ IsInjective(G!Taken) /\ ToSet(walk) \cap ToSet(G!Taken) = {}
        /\ job \in Waiters \cup {None}
    BY <1>1, TakenList DEF GroupInv, GroupTypes, GroupLists
  <2>2. todo \in Seq(Waiters) /\ ToSet(todo) = ToSet(walk) \cup ToSet(G!Taken) /\ IsInjective(todo)
    BY <2>1, ListConcat
  <2>3. ASSUME NEW w \in Waiters, Reached(w) PROVE G!JobLives(w)
    BY <1>1, <2>1, <2>3 DEF GroupInv, GroupJobs, JobSound, G!JobLives
  <2>4. ASSUME NEW w \in Waiters PROVE refs[w] >= 0
    <3>1. JobSound(w) /\ refs[w] \in Int
      BY <1>1, <2>1 DEF GroupInv, GroupJobs
    <3>2. refs[w] \in {0, 1, 2}
      BY <3>1 DEF JobSound
    <3> QED
      BY <3>2
  <2>5. zero => head # AllDone
    BY <1>1 DEF GroupInv, GroupPhase
  <2> HIDE DEF todo
  <2>6. ASSUME NEW k \in DOMAIN todo PROVE G!JobLives(todo[k])
    <3>1. todo[k] \in ToSet(todo) /\ todo[k] \in Waiters
      <4>1. DOMAIN todo = 1 .. Len(todo)
        BY <2>2
      <4> QED
        BY <2>2, <4>1, ListElements
    <3>2. Reached(todo[k])
      BY <2>2, <3>1 DEF Reached, Listed
    <3> QED
      BY <2>3, <3>1, <3>2
  <2>7. job # None => G!JobLives(job)
    BY <2>1, <2>3 DEF Reached
  <2>8. G!IsInjective(todo)
    BY <2>2, SameLibrary
  <2> USE DEF todo
  <2> QED
    BY <2>4, <2>5, <2>6, <2>7, <2>8 DEF G!JobsAlive
<1> QED
  BY <1>1, GroupInvariance, PTL

\* A wait on the group says yes only after every operation is done: the owner's,
\* and those of all inserted futures, whose cores are released if they were
\* consumed (wait_group.hpp InsertRange, Done; DropCallback::Impl).
THEOREM GroupWaitsForAll ==
    ASSUME G!ConstantsAssumption
    PROVE  G!Spec => []G!WaitedForAll
<1>1. ASSUME GroupInv PROVE G!WaitedForAll
  <2> SUFFICES ASSUME group, NEW w \in Waiters, pc[w] = "done", ret[w]
               PROVE  ~owner /\ \A f \in Members : f \in ready /\ (BatchOf[f] \in consume <=> fref[f] = 0)
    BY DEF G!WaitedForAll
  <2>1. ret[w] # FALSE
    OBVIOUS
  <2>2. head = AllDone
    BY <1>1, <2>1 DEF GroupInv, GroupSignal, Signal
  <2>3. count = 0
    BY <1>1, <2>2 DEF GroupInv, GroupPhase
  <2>4. ~owner /\ Open = {}
    BY <1>1, <2>3, OpenCount
  <2>5. ASSUME NEW f \in Members PROVE f \in ready /\ (BatchOf[f] \in consume <=> fref[f] = 0)
    <3>1. batch[BatchOf[f]] = "done" /\ MemberSound(f)
      BY <1>1, <2>4 DEF GroupInv, GroupOwner, GroupMembers, G!Batches
    <3>2. at[f] \in {"skipped", "done"}
      BY <1>1, <2>4, <3>1 DEF GroupInv, GroupTypes, MemberSound, Open
    <3> QED
      BY <3>1, <3>2 DEF MemberSound
  <2> QED
    BY <2>4, <2>5
<1> QED
  BY <1>1, GroupInvariance, PTL
=============================================================================
