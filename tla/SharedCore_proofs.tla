------------------------- MODULE SharedCore_proofs -------------------------
(***************************************************************************)
(* The reference counter of a shared core is exact, and every reader gets  *)
(* what was stored, for any number of futures, callbacks and results.      *)
(*                                                                         *)
(* The counter licenses a move when it is small, so the two properties     *)
(* need each other: a move is right because the counter says that nobody   *)
(* else has a reference, and because a reader without a reference of its   *)
(* own is run by a thread that has one (Runners).  Moving, MovingOut and   *)
(* AfterMove follow the move from the look at the counter to the end.      *)
(***************************************************************************)
EXTENDS SharedCore, SequenceLemmas, FiniteSetTheorems, TLAPS

\* Callback c owns a reference.
Owns(c) ==
    \/ kind[c] = "unwrap" /\ stage[c] \in {"linked", "reading"}
    \/ kind[c] \in {"call", "async"} /\ stage[c] \in {"queued", "reading"}

\* What a stage says about the kind of the callback; nobody adopts the core.
KindStage ==
    \A c \in Callbacks :
        /\ stage[c] = "linked" => kind[c] \in AllKinds
        /\ stage[c] = "reading" => kind[c] \in {"inline", "async", "call", "unwrap"}
        /\ stage[c] = "queued" => kind[c] = "call"
        /\ stage[c] \in {"copying", "moving"} => kind[c] = "connect"
        /\ stage[c] # "adopting"

\* The way of the Setter through SetResultImpl.
SetterState ==
    /\ word = kResult <=> spc \notin {"promise", "stored"}
    /\ spc \notin {"walk", "last"} => todo = <<>>
    /\ spc = "last" => todo # <<>>
    /\ at[Setter] # None => spc \in {"walk", "drop"}

\* The lists of callbacks.
Linked(s) == IsInjective(s) /\ \A c \in ToSet(s) : stage[c] = "linked"
Lists == (word # kResult => Linked(word)) /\ Linked(todo)

\* Nobody is past a wait, and no callback has run, before there is a result.
AfterResult ==
    /\ \A c \in Callbacks : stage[c] \notin {"unused", "linked"} => word = kResult
    /\ \A u \in Users : upc[u] \notin {"idle", "wait"} => word = kResult

\* A user in a call has a future; one that waits does so on an event.
UserState ==
    \A u \in Users :
        /\ upc[u] # "idle" => u \in held
        /\ upc[u] = "wait" =>
              /\ at[u] \in Callbacks
              /\ kind[at[u]] = "event" /\ stage[at[u]] \in {"linked", "done"}

\* A callback that uses the result without a reference of its own is run by a
\* thread that has one.
Bare(c) == \/ stage[c] = "reading" /\ kind[c] = "inline"
           \/ stage[c] \in {"copying", "moving"}
RunBy(t, c) == at[t] = c /\ (t = Setter \/ (t \in held /\ upc[t] = "idle"))
Runners == \A c \in Callbacks : Bare(c) => \E t \in Threads : RunBy(t, c)

\* The last callback moves the result: only the Setter has references.
Moving ==
    \A c \in Callbacks : stage[c] = "moving" =>
        at[Setter] = c /\ spc = "drop" /\ held = {} /\ Owners = {}

\* Get moves the result: its future has the only reference.
MovingOut == \A u \in Users : upc[u] = "move" => held = {u} /\ spc = "done" /\ Owners = {}

\* Nobody can get at a result that has been moved out.
Using == {"queued", "reading", "copying", "moving"}
AfterMove ==
    slot = Moved => /\ spc \in {"drop", "drop1", "done"}
                    /\ \A u \in held : upc[u] = "spent"
                    /\ \A c \in Callbacks : stage[c] \notin Using

\* What is stored is there until it is moved out, and is what has been seen.
SlotState ==
    /\ spc = "promise" => slot = None /\ stored = None
    /\ spc # "promise" => stored \in Results /\ slot \in {stored, Moved}
SeenState == \A x \in Callbacks \cup Users : seen[x] # None => seen[x] = stored

\* The inductive invariant.
Inv ==
    /\ TypeOK
    /\ RefsAccounted
    /\ KindStage
    /\ SetterState
    /\ Lists
    /\ AfterResult
    /\ UserState
    /\ Runners
    /\ Moving
    /\ MovingOut
    /\ AfterMove
    /\ SlotState
    /\ SeenState

USE DEF Inv

-----------------------------------------------------------------------------
(***************************************************************************)
(* Counting.                                                               *)
(***************************************************************************)

\* The futures and the callbacks that own a reference can be counted.
LEMMA Counts ==
    /\ TypeOK => /\ IsFiniteSet(held) /\ Cardinality(held) \in Nat
                 /\ Cardinality(held) = 0 <=> held = {}
    /\ IsFiniteSet(Owners) /\ Cardinality(Owners) \in Nat
    /\ Cardinality(Owners) = 0 <=> Owners = {}
<1>1. TypeOK => IsFiniteSet(held)
  BY ConstantsAssumption, FS_Subset DEF TypeOK
<1>2. Owners \subseteq Callbacks
  BY DEF Owners
<1>3. IsFiniteSet(Owners)
  BY <1>2, ConstantsAssumption, FS_Subset
<1> QED
  BY <1>1, <1>3, FS_CardinalityType, FS_EmptySet

\* The references of the promise.
LEMMA SetterHas ==
    /\ spc \in {"promise", "stored", "walk"} => SetterRefs = 3
    /\ spc \in {"last", "drop"} => SetterRefs = 2
    /\ spc = "drop1" => SetterRefs = 1
    /\ spc = "done" => SetterRefs = 0
BY DEF SetterRefs

\* Their number is a natural number.
LEMMA SetterRefsType == ASSUME TypeOK PROVE SetterRefs \in Nat
BY SetterHas DEF TypeOK, SetterStates

\* The counter that a mover sees: who has a reference.
LEMMA CounterTells ==
    ASSUME Inv
    PROVE  /\ spc = "last" /\ refs = 2 => held = {} /\ Owners = {}
           /\ spc \in {"walk", "last"} => refs >= 2
           /\ spc = "walk" => refs >= 3
           /\ \A u \in held : refs >= 1 /\ (refs = 1 => held = {u} /\ spc = "done" /\ Owners = {})
           /\ Owners # {} => refs >= 1
<1>1. refs = Cardinality(held) + SetterRefs + Cardinality(Owners)
  BY DEF RefsAccounted
<1>2. Cardinality(held) \in Nat /\ SetterRefs \in Nat /\ Cardinality(Owners) \in Nat
  BY Counts, SetterRefsType
<1>3. spc = "last" /\ refs = 2 => held = {} /\ Owners = {}
  BY <1>1, <1>2, SetterHas, Counts
<1>4. (spc \in {"walk", "last"} => refs >= 2) /\ (spc = "walk" => refs >= 3)
  BY <1>1, <1>2, SetterHas
<1>5. ASSUME NEW u \in held
      PROVE  refs >= 1 /\ (refs = 1 => held = {u} /\ spc = "done" /\ Owners = {})
  <2>1. Cardinality(held \ {u}) = Cardinality(held) - 1
    BY Counts, FS_RemoveElement
  <2>2. IsFiniteSet(held \ {u}) /\ Cardinality(held \ {u}) \in Nat
    BY Counts, FS_RemoveElement, FS_CardinalityType
  <2>3. Cardinality(held) >= 1
    BY <1>2, <2>1, <2>2
  <2>4. CASE refs = 1
    <3>1. Cardinality(held \ {u}) = 0 /\ SetterRefs = 0 /\ Cardinality(Owners) = 0
      BY <1>1, <1>2, <2>1, <2>2, <2>3, <2>4
    <3>2. held \ {u} = {}
      BY <2>2, <3>1, FS_EmptySet
    <3>3. spc = "done"
      BY <3>1, SetterHas DEF TypeOK, SetterStates
    <3> QED
      BY <2>4, <3>1, <3>2, <3>3, Counts
  <2> QED
    BY <1>1, <1>2, <2>3, <2>4
<1>6. Owners # {} => refs >= 1
  BY <1>1, <1>2, Counts
<1> QED
  BY <1>3, <1>4, <1>5, <1>6

\* The owners when one callback moves.
LEMMA OwnersMove ==
    ASSUME NEW c \in Callbacks, \A d \in Callbacks : d # c => (Owns(d)' <=> Owns(d))
    PROVE  /\ (Owns(c)' <=> Owns(c)) => Owners' = Owners
           /\ ~Owns(c) /\ Owns(c)' => Cardinality(Owners') = Cardinality(Owners) + 1
           /\ Owns(c) /\ ~Owns(c)' => /\ Cardinality(Owners') = Cardinality(Owners) - 1
                                      /\ Cardinality(Owners) >= 1 /\ Owners # {}
                                      /\ Owners' \subseteq Owners
<1>0. Owners = {d \in Callbacks : Owns(d)} /\ Owners' = {d \in Callbacks : Owns(d)'}
  BY DEF Owners, Owns
<1> HIDE DEF Owns
<1>1. CASE Owns(c)' <=> Owns(c)
  <2>1. Owners' = Owners
    BY <1>0, <1>1
  <2> QED
    BY <1>1, <2>1
<1>2. CASE ~Owns(c) /\ Owns(c)'
  <2>1. Owners' = Owners \cup {c} /\ c \notin Owners
    BY <1>0, <1>2
  <2>2. Cardinality(Owners \cup {c}) = Cardinality(Owners) + 1
    BY <2>1, Counts, FS_AddElement
  <2> QED
    BY <1>2, <2>1, <2>2
<1>3. CASE Owns(c) /\ ~Owns(c)'
  <2>1. Owners' = Owners \ {c} /\ c \in Owners
    BY <1>0, <1>3
  <2>2. Cardinality(Owners \ {c}) = Cardinality(Owners) - 1
    BY <2>1, Counts, FS_RemoveElement
  <2>3. Cardinality(Owners) # 0
    BY <2>1, Counts
  <2>4. Cardinality(Owners) \in Nat
    BY Counts
  <2> QED
    BY <1>3, <2>1, <2>2, <2>3, <2>4
<1> QED
  BY <1>1, <1>2, <1>3

\* Callbacks that a step leaves alone.
LEMMA CallbacksStay ==
    ASSUME UNCHANGED <<kind, stage>>
    PROVE  /\ Owners' = Owners
           /\ \A c \in Callbacks : Bare(c)' <=> Bare(c)

BY DEF Owners, Bare

-----------------------------------------------------------------------------
(***************************************************************************)
(* The steps of Get preserve Inv.                                          *)
(***************************************************************************)

\* What a user's step in Get cannot disturb.
LEMMA UserStep ==
    ASSUME Inv, NEW u \in Users, NEW x \in UserStates, upc' = [upc EXCEPT ![u] = x],
           UNCHANGED <<word, refs, setter, held, kind, stage, stored>>, at'[Setter] = at[Setter]
    PROVE  /\ RefsAccounted' /\ KindStage' /\ SetterState' /\ Lists' /\ Moving'
           /\ upc'[u] = x /\ upc' \in [Users -> UserStates]
           /\ \A v \in Users : v # u => upc'[v] = upc[v]
           /\ Owners' = Owners
<1> USE DEF setter
<1>1. Owners' = Owners
  BY CallbacksStay
<1>2. RefsAccounted'
  BY <1>1 DEF RefsAccounted, SetterRefs
<1>3. KindStage' /\ SetterState'
  BY DEF KindStage, SetterState
<1>4. Lists'
  BY DEF Lists, Linked
<1>5. Moving'
  BY <1>1 DEF Moving
<1> QED
  BY <1>1, <1>2, <1>3, <1>4, <1>5 DEF TypeOK

\* Touch, and a Wait that finds the result.
LEMMA TouchInv ==
    ASSUME Inv, NEW u \in Users, Touch(u)
    PROVE  Inv'
<1> USE DEF core, setter
<1>z. /\ u \in held /\ upc[u] = "idle" /\ at[u] = None /\ word = kResult
      /\ upc' = [upc EXCEPT ![u] = "got"]
      /\ UNCHANGED <<core, setter, held, at, kind, stage, stored, seen>>
  BY DEF Touch, Free
<1>1. /\ RefsAccounted' /\ KindStage' /\ SetterState' /\ Lists' /\ Moving'
      /\ upc'[u] = "got" /\ upc' \in [Users -> UserStates]
      /\ (\A v \in Users : v # u => upc'[v] = upc[v])
      /\ Owners' = Owners
  BY <1>z, UserStep DEF UserStates
<1>2. TypeOK'
  BY <1>z, <1>1 DEF TypeOK
<1>3. AfterResult'
  BY <1>z, <1>1 DEF AfterResult
<1>4. UserState'
  BY <1>z, <1>1 DEF UserState
<1>5. Runners'
  <2> SUFFICES ASSUME NEW c \in Callbacks, Bare(c)' PROVE \E t \in Threads : RunBy(t, c)'
    BY DEF Runners
  <2>1. PICK t \in Threads : RunBy(t, c)
    BY <1>z, CallbacksStay DEF Runners
  <2>2. t # u
    BY <1>z, <2>1, ConstantsAssumption DEF RunBy
  <2> QED
    BY <1>z, <1>1, <2>1, <2>2 DEF RunBy, TypeOK
<1>6. MovingOut'
  BY <1>z, <1>1 DEF MovingOut
<1>7. AfterMove'
  BY <1>z, <1>1 DEF AfterMove
<1>8. SlotState' /\ SeenState'
  BY <1>z DEF SlotState, SeenState
<1> QED
  BY <1>1, <1>2, <1>3, <1>4, <1>5, <1>6, <1>7, <1>8

\* Wait returns once the event has been set.
LEMMA WaitEndInv ==
    ASSUME Inv, NEW u \in Users, WaitEnd(u)
    PROVE  Inv'
<1> USE DEF core, setter
<1>z. /\ upc[u] = "wait" /\ stage[at[u]] = "done"
      /\ upc' = [upc EXCEPT ![u] = "got"] /\ at' = [at EXCEPT ![u] = None]
      /\ UNCHANGED <<core, setter, held, kind, stage, stored, seen>>
  BY DEF WaitEnd
<1>a. u \in held /\ word = kResult /\ u # Setter
  BY <1>z, ConstantsAssumption DEF UserState, AfterResult
<1>0. at'[u] = None /\ (\A t \in Threads : t # u => at'[t] = at[t]) /\ Setter \in Threads
      /\ at' \in [Threads -> Callbacks \cup {None}]
  BY <1>z DEF TypeOK, Threads
<1>1. /\ RefsAccounted' /\ KindStage' /\ SetterState' /\ Lists' /\ Moving'
      /\ upc'[u] = "got" /\ upc' \in [Users -> UserStates]
      /\ (\A v \in Users : v # u => upc'[v] = upc[v])
      /\ Owners' = Owners
  BY <1>z, <1>0, <1>a, UserStep DEF UserStates
<1>2. TypeOK'
  BY <1>z, <1>0, <1>1 DEF TypeOK
<1>3. AfterResult'
  BY <1>z, <1>a, <1>1 DEF AfterResult
<1>4. UserState'
  BY <1>z, <1>a, <1>0, <1>1 DEF UserState, Threads
<1>5. Runners'
  <2> SUFFICES ASSUME NEW c \in Callbacks, Bare(c)' PROVE \E t \in Threads : RunBy(t, c)'
    BY DEF Runners
  <2>1. PICK t \in Threads : RunBy(t, c)
    BY <1>z, CallbacksStay DEF Runners
  <2>2. t # u
    BY <1>z, <1>a, <2>1 DEF RunBy
  <2> QED
    BY <1>z, <1>0, <1>1, <2>1, <2>2 DEF RunBy, Threads
<1>6. MovingOut'
  BY <1>z, <1>1 DEF MovingOut
<1>7. AfterMove'
  BY <1>z, <1>a, <1>1 DEF AfterMove
<1>8. SlotState' /\ SeenState'
  BY <1>z DEF SlotState, SeenState
<1> QED
  BY <1>1, <1>2, <1>3, <1>4, <1>5, <1>6, <1>7, <1>8

\* What a user in Get finds in the core.
LEMMA GetFinds ==
    ASSUME Inv, NEW u \in Users, upc[u] \in {"got", "copy", "move"}
    PROVE  u \in held /\ word = kResult /\ slot = stored /\ stored \in Results
<1>1. u \in held /\ word = kResult
  BY DEF UserState, AfterResult
<1>2. slot # Moved /\ spc # "promise"
  BY <1>1 DEF AfterMove, SetterState
<1> QED
  BY <1>1, <1>2 DEF SlotState

\* Get() const& and the end of Get() &&.
LEMMA GetInv ==
    ASSUME Inv, NEW u \in Users, GetConst(u) \/ Get(u)
    PROVE  Inv'
<1> USE DEF core, setter
<1>z. /\ upc[u] \in {"got", "copy", "move"} /\ seen' = [seen EXCEPT ![u] = slot]
      /\ (slot' = slot \/ (slot' = Moved /\ upc[u] = "move" /\ upc' = [upc EXCEPT ![u] = "spent"]))
      /\ UNCHANGED <<word, refs, setter, held, at, kind, stage, stored>>
  BY DEF GetConst, Get
<1>y. PICK x \in {"idle", "spent"} : upc' = [upc EXCEPT ![u] = x]
  BY DEF GetConst, Get
<1>a. u \in held /\ word = kResult /\ slot = stored /\ stored \in Results
  BY <1>z, GetFinds
<1>1. /\ RefsAccounted' /\ KindStage' /\ SetterState' /\ Lists' /\ Moving'
      /\ upc'[u] = x /\ upc' \in [Users -> UserStates]
      /\ (\A v \in Users : v # u => upc'[v] = upc[v])
      /\ Owners' = Owners
  BY <1>z, <1>y, UserStep DEF UserStates
<1>2. TypeOK'
  <2>1. seen' \in [Callbacks \cup Users -> Results \cup {None, Moved}]
    BY <1>z, <1>a DEF TypeOK
  <2> QED
    BY <1>z, <1>1, <1>a, <2>1 DEF TypeOK
<1>3. AfterResult'
  BY <1>z, <1>1, <1>a DEF AfterResult
<1>4. UserState'
  BY <1>z, <1>1, <1>a DEF UserState
<1>5. Runners'
  <2> SUFFICES ASSUME NEW c \in Callbacks, Bare(c)' PROVE \E t \in Threads : RunBy(t, c)'
    BY DEF Runners
  <2>1. PICK t \in Threads : RunBy(t, c)
    BY <1>z, CallbacksStay DEF Runners
  <2>2. t = Setter \/ t \in Users \ {u}
    BY <1>z, <2>1 DEF RunBy, Threads
  <2> QED
    BY <1>z, <1>1, <2>1, <2>2 DEF RunBy
<1>6. MovingOut'
  BY <1>z, <1>1 DEF MovingOut
<1>7. AfterMove'
  <2>1. CASE slot' = slot
    BY <1>z, <1>1, <1>a, <2>1, ConstantsAssumption DEF AfterMove
  <2>2. CASE upc[u] = "move" /\ upc' = [upc EXCEPT ![u] = "spent"]
    <3>1. held = {u} /\ spc = "done" /\ Owners = {}
      BY <2>2 DEF MovingOut
    <3>2. upc'[u] = "spent"
      BY <2>2 DEF TypeOK
    <3>3. ASSUME NEW c \in Callbacks, stage[c] \in Using PROVE FALSE
      <4>1. ~Bare(c)
        <5> SUFFICES ASSUME NEW t \in Threads, RunBy(t, c) PROVE FALSE
          BY DEF Runners
        <5>1. t # Setter
          BY <3>1, ConstantsAssumption DEF RunBy, SetterState
        <5> QED
          BY <2>2, <3>1, <5>1 DEF RunBy
      <4>2. c \notin Owners
        BY <3>1
      <4> QED
        BY <3>3, <4>1, <4>2 DEF Owners, Bare, KindStage, Using
    <3> QED
      BY <1>z, <3>1, <3>2, <3>3 DEF AfterMove
  <2> QED
    BY <1>z, <2>1, <2>2
<1>8. SlotState'
  BY <1>z, <1>a DEF SlotState, SetterState
<1>9. SeenState'
  BY <1>z, <1>a DEF SeenState, TypeOK
<1> QED
  BY <1>1, <1>2, <1>3, <1>4, <1>5, <1>6, <1>7, <1>8, <1>9

\* Get() && looks at the counter.
LEMMA GetRefInv ==
    ASSUME Inv, NEW u \in Users, GetRef(u)
    PROVE  Inv'
<1> USE DEF core, setter
<1>z. /\ upc[u] = "got" /\ UNCHANGED <<core, setter, held, at, kind, stage, stored, seen>>
  BY DEF GetRef
<1>y. PICK x \in {"copy", "move"} : upc' = [upc EXCEPT ![u] = x] /\ (x = "move" => refs = 1)
  BY DEF GetRef
<1>a. u \in held /\ word = kResult /\ slot = stored /\ stored \in Results
  BY <1>z, GetFinds
<1>1. /\ RefsAccounted' /\ KindStage' /\ SetterState' /\ Lists' /\ Moving'
      /\ upc'[u] = x /\ upc' \in [Users -> UserStates]
      /\ (\A v \in Users : v # u => upc'[v] = upc[v])
      /\ Owners' = Owners
  BY <1>z, <1>y, UserStep DEF UserStates
<1>2. TypeOK'
  BY <1>z, <1>1 DEF TypeOK
<1>3. AfterResult'
  BY <1>z, <1>1, <1>a DEF AfterResult
<1>4. UserState'
  BY <1>z, <1>1, <1>a DEF UserState
<1>5. Runners'
  <2> SUFFICES ASSUME NEW c \in Callbacks, Bare(c)' PROVE \E t \in Threads : RunBy(t, c)'
    BY DEF Runners
  <2>1. PICK t \in Threads : RunBy(t, c)
    BY <1>z, CallbacksStay DEF Runners
  <2>2. t = Setter \/ t \in Users \ {u}
    BY <1>z, <2>1 DEF RunBy, Threads
  <2> QED
    BY <1>z, <1>1, <2>1, <2>2 DEF RunBy
<1>6. MovingOut'
  <2>1. x = "move" => held = {u} /\ spc = "done" /\ Owners = {}
    BY <1>y, <1>a, CounterTells
  <2> QED
    BY <1>z, <1>1, <2>1 DEF MovingOut
<1>7. AfterMove'
  BY <1>z, <1>a, ConstantsAssumption DEF AfterMove
<1>8. SlotState' /\ SeenState'
  BY <1>z DEF SlotState, SeenState
<1> QED
  BY <1>1, <1>2, <1>3, <1>4, <1>5, <1>6, <1>7, <1>8

-----------------------------------------------------------------------------
(***************************************************************************)
(* Copying and destroying futures, storing the result.                     *)
(***************************************************************************)

\* Split and the copy constructor: one more future and one more reference.
LEMMA NewFuture ==
    ASSUME Inv, NEW v \in Users, v \notin held, upc[v] = "idle",
           held' = held \cup {v}, refs' = refs + 1,
           spc = "promise" \/ \E u \in held : upc[u] = "idle",
           UNCHANGED <<word, slot, setter, upc, at, kind, stage, stored, seen>>
    PROVE  Inv'
<1> USE DEF setter
<1>a. \A u \in held : u \in Users
  BY DEF TypeOK
<1>1. TypeOK'
  BY DEF TypeOK
<1>2. RefsAccounted'
  <2>1. Cardinality(held \cup {v}) = Cardinality(held) + 1
    BY Counts, FS_AddElement
  <2>2. Owners' = Owners /\ SetterRefs' = SetterRefs
    BY CallbacksStay DEF SetterRefs
  <2> QED
    BY <2>1, <2>2, Counts, SetterRefsType DEF RefsAccounted
<1>3. KindStage' /\ SetterState' /\ AfterResult' /\ SlotState' /\ SeenState'
  BY DEF KindStage, SetterState, AfterResult, SlotState, SeenState
<1>4. Lists'
  BY DEF Lists, Linked
<1>5. UserState'
  BY DEF UserState
<1>6. Runners'
  BY CallbacksStay DEF Runners, RunBy
<1>7. Moving'
  BY DEF Moving
<1>8. MovingOut'
  BY <1>a DEF MovingOut
<1>9. AfterMove'
  BY DEF AfterMove
<1> QED
  BY <1>1, <1>2, <1>3, <1>4, <1>5, <1>6, <1>7, <1>8, <1>9

\* Split, and the copy of a SharedFuture.
LEMMA SplitInv ==
    ASSUME Inv, NEW u \in Users, Split(u) \/ \E v \in Users : Copy(u, v)
    PROVE  Inv'
<1>1. CASE Split(u)
  BY <1>1, NewFuture DEF Split
<1>2. CASE \E v \in Users : Copy(u, v)
  BY <1>2, NewFuture DEF Copy, Free
<1> QED
  BY <1>1, <1>2

\* A future that is destroyed gives its reference back.
LEMMA ReleaseInv ==
    ASSUME Inv, NEW u \in Users, Release(u)
    PROVE  Inv'
<1> USE DEF setter
<1>z. /\ u \in held /\ upc[u] \in {"idle", "spent"} /\ at[u] = None
      /\ held' = held \ {u} /\ upc' = [upc EXCEPT ![u] = "idle"] /\ refs' = refs - 1
      /\ UNCHANGED <<word, slot, setter, at, kind, stage, stored, seen>>
  BY DEF Release
<1>0. /\ upc'[u] = "idle" /\ (\A v \in Users : v # u => upc'[v] = upc[v])
      /\ upc' \in [Users -> UserStates]
  BY <1>z DEF TypeOK, UserStates
<1>1. TypeOK'
  <2>1. refs' \in Nat
    BY <1>z, CounterTells DEF TypeOK
  <2> QED
    BY <1>z, <1>0, <2>1 DEF TypeOK
<1>2. RefsAccounted'
  <2>1. Cardinality(held \ {u}) = Cardinality(held) - 1
    BY <1>z, Counts, FS_RemoveElement
  <2>2. Owners' = Owners /\ SetterRefs' = SetterRefs
    BY <1>z, CallbacksStay DEF SetterRefs
  <2> QED
    BY <1>z, <2>1, <2>2, Counts, SetterRefsType DEF RefsAccounted
<1>3. KindStage' /\ SetterState' /\ SlotState' /\ SeenState'
  BY <1>z DEF KindStage, SetterState, SlotState, SeenState
<1>4. Lists'
  BY <1>z DEF Lists, Linked
<1>5. AfterResult' /\ UserState'
  BY <1>z, <1>0 DEF AfterResult, UserState
<1>6. Runners'
  <2> SUFFICES ASSUME NEW c \in Callbacks, Bare(c)' PROVE \E t \in Threads : RunBy(t, c)'
    BY DEF Runners
  <2>1. PICK t \in Threads : RunBy(t, c)
    BY <1>z, CallbacksStay DEF Runners
  <2>2. t = Setter \/ t \in Users \ {u}
    BY <1>z, <2>1, ConstantsAssumption DEF RunBy, Threads
  <2> QED
    BY <1>z, <1>0, <2>1, <2>2 DEF RunBy
<1>7. Moving'
  BY <1>z DEF Moving
<1>8. MovingOut'
  BY <1>z, <1>0 DEF MovingOut
<1>9. AfterMove'
  <2>1. \A v \in held' : v \in held /\ v \in Users /\ v # u
    BY <1>z DEF TypeOK
  <2> QED
    BY <1>z, <1>0, <2>1 DEF AfterMove
<1> QED
  BY <1>1, <1>2, <1>3, <1>4, <1>5, <1>6, <1>7, <1>8, <1>9

\* Before the exchange nothing has been run, read or moved.
LEMMA BeforeResult ==
    ASSUME Inv, word # kResult
    PROVE  /\ word \in Seq(Callbacks) /\ todo = <<>> /\ at[Setter] = None
           /\ spc \in {"promise", "stored"} /\ SetterRefs = 3 /\ slot # Moved
           /\ \A c \in Callbacks : stage[c] \in {"unused", "linked"}
           /\ \A u \in Users : upc[u] \in {"idle", "wait"}
<1>1. spc \in {"promise", "stored"}
  BY DEF SetterState
<1> QED
  BY <1>1, SetterHas DEF SetterState, AfterResult, AfterMove, TypeOK

\* The result is stored.
LEMMA StoreInv ==
    ASSUME Inv, NEW r \in Results, Store(r)
    PROVE  Inv'
<1>z. /\ spc = "promise" /\ slot' = r /\ stored' = r /\ spc' = "stored"
      /\ UNCHANGED <<word, refs, todo, held, upc, at, kind, stage, seen>>
  BY DEF Store
<1>a. word # kResult
  BY <1>z DEF SetterState
<1>1. TypeOK'
  BY <1>z DEF TypeOK, SetterStates
<1>2. RefsAccounted'
  <2>1. SetterRefs = 3 /\ SetterRefs' = 3
    BY <1>z, SetterHas DEF SetterRefs
  <2> QED
    BY <1>z, <2>1, CallbacksStay DEF RefsAccounted
<1>3. KindStage' /\ SetterState' /\ AfterResult' /\ UserState'
  BY <1>z DEF KindStage, SetterState, AfterResult, UserState
<1>4. Lists'
  BY <1>z DEF Lists, Linked
<1>5. Runners'
  BY <1>z, CallbacksStay DEF Runners, RunBy
<1>6. Moving' /\ MovingOut'
  BY <1>z, <1>a, BeforeResult DEF Moving, MovingOut
<1>7. AfterMove' /\ SlotState'
  BY <1>z, ConstantsAssumption DEF AfterMove, SlotState
<1>8. SeenState'
  BY <1>z DEF SeenState, SlotState
<1> QED
  BY <1>1, <1>2, <1>3, <1>4, <1>5, <1>6, <1>7, <1>8

\* The exchange of SetResultImpl takes the list.
LEMMA SetResultInv ==
    ASSUME Inv, SetResult
    PROVE  Inv'
<1>z. /\ spc = "stored" /\ todo' = word /\ word' = kResult /\ spc' = "walk"
      /\ UNCHANGED <<slot, refs, held, upc, at, kind, stage, stored, seen>>
  BY DEF SetResult
<1>a. word # kResult
  BY <1>z DEF SetterState
<1>b. word \in Seq(Callbacks) /\ at[Setter] = None /\ slot # Moved
  BY <1>a, BeforeResult
<1>1. TypeOK'
  BY <1>z, <1>b DEF TypeOK, SetterStates
<1>2. RefsAccounted'
  <2>1. SetterRefs = 3 /\ SetterRefs' = 3
    BY <1>z, SetterHas DEF SetterRefs
  <2> QED
    BY <1>z, <2>1, CallbacksStay DEF RefsAccounted
<1>3. KindStage' /\ SetterState' /\ AfterResult' /\ UserState'
  BY <1>z, <1>b DEF KindStage, SetterState, AfterResult, UserState
<1>4. Lists'
  BY <1>z, <1>a DEF Lists, Linked
<1>5. Runners'
  BY <1>z, CallbacksStay DEF Runners, RunBy
<1>6. Moving' /\ MovingOut'
  BY <1>z, <1>a, BeforeResult DEF Moving, MovingOut
<1>7. AfterMove' /\ SlotState' /\ SeenState'
  BY <1>z, <1>b DEF AfterMove, SlotState, SeenState
<1> QED
  BY <1>1, <1>2, <1>3, <1>4, <1>5, <1>6, <1>7

-----------------------------------------------------------------------------
(***************************************************************************)
(* Linking callbacks.                                                      *)
(***************************************************************************)

\* What holds whoever links a callback of whatever kind.
LEMMA Links ==
    ASSUME Inv, NEW c \in Callbacks, NEW k \in AllKinds, stage[c] = "unused", SetCallback(c),
           kind' = [kind EXCEPT ![c] = k], UNCHANGED <<slot, setter, stored, seen>>,
           refs' = refs, held' \in SUBSET Users, upc' \in [Users -> UserStates],
           \A u \in Users : upc'[u] \in {"idle", "wait"},
           at' \in [Threads -> Callbacks \cup {None}], at'[Setter] = at[Setter]
    PROVE  /\ TypeOK' /\ KindStage' /\ SetterState' /\ Lists' /\ AfterResult' /\ Runners'
           /\ Moving' /\ MovingOut' /\ AfterMove' /\ SlotState' /\ SeenState'
           /\ stage'[c] = "linked" /\ kind'[c] = k
           /\ \A d \in Callbacks : d # c => stage'[d] = stage[d] /\ kind'[d] = kind[d]
           /\ SetterRefs' = SetterRefs
           /\ k # "unwrap" => Owners' = Owners
           /\ k = "unwrap" => Cardinality(Owners') = Cardinality(Owners) + 1
<1> USE DEF setter
<1>z. word # kResult /\ word' = <<c>> \o word /\ stage' = [stage EXCEPT ![c] = "linked"]
  BY DEF SetCallback
<1>a. /\ word \in Seq(Callbacks) /\ todo = <<>> /\ spc \in {"promise", "stored"} /\ slot # Moved
      /\ at[Setter] = None
      /\ \A d \in Callbacks : stage[d] \in {"unused", "linked"}
  BY <1>z, BeforeResult
<1>b. stage'[c] = "linked" /\ kind'[c] = k
      /\ (\A d \in Callbacks : d # c => stage'[d] = stage[d] /\ kind'[d] = kind[d])
      /\ stage' \in [Callbacks -> Stages] /\ kind' \in [Callbacks -> AllKinds \cup {None}]
  BY <1>z DEF TypeOK, Stages
<1>c. \A d \in Callbacks : stage'[d] \in {"unused", "linked"}
  BY <1>a, <1>b
<1>d. c \notin ToSet(word) /\ IsInjective(word) /\ \A d \in ToSet(word) : stage[d] = "linked"
  BY <1>z DEF Lists, Linked
<1>e. /\ word' \in Seq(Callbacks) /\ IsInjective(word') /\ ToSet(word') = {c} \cup ToSet(word)
      /\ word' # kResult /\ ToSet(word) \subseteq Callbacks
  <2>1. /\ <<c>> \o word \in Seq(Callbacks) /\ ToSet(<<c>> \o word) = {c} \cup ToSet(word)
        /\ IsInjective(<<c>> \o word) <=> (c \notin ToSet(word) /\ IsInjective(word))
    BY <1>a, ListPush
  <2>2. ToSet(word) \subseteq Callbacks
    BY <1>a, ListElements
  <2>3. word' \in Seq(Callbacks) /\ word' # kResult
    BY <1>z, <2>1, ConstantsAssumption
  <2> QED
    BY <1>z, <1>d, <2>1, <2>2, <2>3
<1>1. TypeOK'
  BY <1>b, <1>e DEF TypeOK
<1>2. KindStage'
  BY <1>b, <1>c DEF KindStage
<1>3. SetterState'
  <2>1. word' # kResult /\ spc' \in {"promise", "stored"} /\ todo' = <<>> /\ at'[Setter] = None
    BY <1>a, <1>e
  <2> QED
    BY <2>1 DEF SetterState
<1>4. Lists'
  <2>1. \A d \in ToSet(word') : stage'[d] = "linked"
    BY <1>b, <1>d, <1>e
  <2>2. todo' = <<>> /\ IsInjective(todo') /\ ToSet(todo') = {}
    BY <1>a, ListEmpty
  <2> QED
    BY <1>e, <2>1, <2>2 DEF Lists, Linked
<1>5. AfterResult' /\ Moving' /\ MovingOut' /\ Runners'
  BY <1>c DEF AfterResult, Moving, MovingOut, Runners, Bare
<1>6. AfterMove' /\ SlotState' /\ SeenState'
  BY <1>a DEF AfterMove, SlotState, SeenState
<1>7. /\ k # "unwrap" => Owners' = Owners
      /\ k = "unwrap" => Cardinality(Owners') = Cardinality(Owners) + 1
  <2>1. \A d \in Callbacks : d # c => (Owns(d)' <=> Owns(d))
    BY <1>b DEF Owns
  <2>2. ~Owns(c) /\ (Owns(c)' <=> k = "unwrap")
    BY <1>b DEF Owns
  <2> QED
    BY <2>1, <2>2, OwnersMove
<1>8. SetterRefs' = SetterRefs
  BY DEF SetterRefs
<1> QED
  BY <1>1, <1>2, <1>3, <1>4, <1>5, <1>6, <1>7, <1>8, <1>b

\* A callback that owns no reference while it is linked.
LEMMA LinkInv ==
    ASSUME Inv, NEW c \in Callbacks, NEW k \in AllKinds, k # "unwrap", stage[c] = "unused",
           SetCallback(c), kind' = [kind EXCEPT ![c] = k],
           UNCHANGED <<slot, refs, setter, held, upc, at, stored, seen>>
    PROVE  Inv'
<1>0. \A u \in Users : upc[u] \in {"idle", "wait"}
  BY BeforeResult DEF SetCallback
<1>1. /\ TypeOK' /\ KindStage' /\ SetterState' /\ Lists' /\ AfterResult' /\ Runners'
      /\ Moving' /\ MovingOut' /\ AfterMove' /\ SlotState' /\ SeenState'
      /\ (\A d \in Callbacks : d # c => stage'[d] = stage[d] /\ kind'[d] = kind[d])
      /\ SetterRefs' = SetterRefs /\ Owners' = Owners
  BY <1>0, Links DEF TypeOK
<1>2. RefsAccounted'
  BY <1>1 DEF RefsAccounted
<1>3. UserState'
  BY <1>1 DEF UserState
<1> QED
  BY <1>1, <1>2, <1>3

\* Connect and Share before there is a result.
LEMMA ConnectPromiseInv ==
    ASSUME Inv, NEW c \in Callbacks, ConnectPromise(c)
    PROVE  Inv'
<1>1. SetCallback(c)
  BY DEF ConnectPromise, SetCallback, SetterState
<1> QED
  BY <1>1, LinkInv DEF ConnectPromise, AllKinds

\* Wait links the event.
LEMMA WaitInv ==
    ASSUME Inv, NEW u \in Users, NEW c \in Callbacks, Wait(u, c)
    PROVE  Inv'
<1>z. /\ u \in held /\ stage[c] = "unused" /\ SetCallback(c)
      /\ kind' = [kind EXCEPT ![c] = "event"] /\ upc' = [upc EXCEPT ![u] = "wait"]
      /\ at' = [at EXCEPT ![u] = c] /\ UNCHANGED <<slot, refs, setter, held, stored, seen>>
  BY DEF Wait, Free
<1>a. /\ upc'[u] = "wait" /\ (\A v \in Users : v # u => upc'[v] = upc[v] /\ at'[v] = at[v])
      /\ at'[u] = c /\ at'[Setter] = at[Setter]
      /\ upc' \in [Users -> UserStates] /\ at' \in [Threads -> Callbacks \cup {None}]
  BY <1>z, ConstantsAssumption DEF TypeOK, Threads, UserStates
<1>0. \A v \in Users : upc'[v] \in {"idle", "wait"}
  BY <1>z, <1>a, BeforeResult DEF SetCallback
<1>1. /\ TypeOK' /\ KindStage' /\ SetterState' /\ Lists' /\ AfterResult' /\ Runners'
      /\ Moving' /\ MovingOut' /\ AfterMove' /\ SlotState' /\ SeenState'
      /\ stage'[c] = "linked" /\ kind'[c] = "event"
      /\ (\A d \in Callbacks : d # c => stage'[d] = stage[d] /\ kind'[d] = kind[d])
      /\ SetterRefs' = SetterRefs /\ Owners' = Owners
  BY <1>z, <1>a, <1>0, Links DEF TypeOK, AllKinds
<1>2. RefsAccounted'
  BY <1>z, <1>1 DEF RefsAccounted
<1>3. UserState'
  BY <1>z, <1>a, <1>1 DEF UserState
<1> QED
  BY <1>1, <1>2, <1>3

\* CallResolveAsync links a callback that takes over the future's reference.
LEMMA UnwrapLinkInv ==
    ASSUME Inv, NEW u \in Users, NEW c \in Callbacks, Unwrap(u, c), SetCallback(c),
           UNCHANGED <<refs, at>>
    PROVE  Inv'
<1>z. /\ u \in held /\ upc[u] = "idle" /\ stage[c] = "unused"
      /\ kind' = [kind EXCEPT ![c] = "unwrap"] /\ held' = held \ {u}
      /\ UNCHANGED <<slot, setter, upc, stored, seen>>
  BY DEF Unwrap, Free
<1>0. \A v \in Users : upc[v] \in {"idle", "wait"}
  BY BeforeResult DEF SetCallback
<1>1. /\ TypeOK' /\ KindStage' /\ SetterState' /\ Lists' /\ AfterResult' /\ Runners'
      /\ Moving' /\ MovingOut' /\ AfterMove' /\ SlotState' /\ SeenState'
      /\ (\A d \in Callbacks : d # c => stage'[d] = stage[d] /\ kind'[d] = kind[d])
      /\ SetterRefs' = SetterRefs /\ Cardinality(Owners') = Cardinality(Owners) + 1
  BY <1>z, <1>0, Links DEF TypeOK, AllKinds
<1>2. RefsAccounted'
  <2>1. Cardinality(held \ {u}) = Cardinality(held) - 1
    BY <1>z, Counts, FS_RemoveElement
  <2> QED
    BY <1>z, <1>1, <2>1, Counts, SetterRefsType DEF RefsAccounted
<1>3. UserState'
  BY <1>z, <1>1 DEF UserState
<1> QED
  BY <1>1, <1>2, <1>3

-----------------------------------------------------------------------------
(***************************************************************************)
(* Running callbacks, by the Setter or by the user who finds the result.   *)
(***************************************************************************)

\* A thread that has a reference is about to use the result.
HasRef(t) == \/ t = Setter /\ spc \in {"walk", "last"}
             \/ t \in held /\ upc[t] = "idle"

\* Such a thread finds the result in its place.
LEMMA ResultThere ==
    ASSUME Inv, NEW t, HasRef(t)
    PROVE  /\ slot # Moved
           /\ \A v \in Users : upc[v] = "move" => FALSE
           /\ at[t] = None => \A c \in Callbacks : stage[c] # "moving"
<1>1. slot # Moved
  BY DEF HasRef, AfterMove
<1>2. ASSUME NEW v \in Users, upc[v] = "move" PROVE FALSE
  BY <1>2 DEF HasRef, MovingOut
<1>3. ASSUME at[t] = None, NEW c \in Callbacks, stage[c] = "moving" PROVE FALSE
  BY <1>3, ConstantsAssumption DEF HasRef, Moving
<1> QED
  BY <1>1, <1>2, <1>3

\* Thread t, which has a reference, begins to run callback c of kind k, and
\* brings it to stage s.
Starts(t, c, k, s) ==
    /\ HasRef(t) /\ at[t] = None /\ word = kResult
    /\ (stage[c] = "unused" /\ k # "event") \/ (stage[c] = "linked" /\ kind[c] = k)
    /\ k \in {"inline", "async", "unwrap"} => s = "reading"
    /\ k = "call" => s = "queued"
    /\ k = "event" => s = "done"
    /\ k = "connect" => s \in {"copying", "moving"}
    /\ s = "moving" => t = Setter /\ spc' = "drop" /\ held = {} /\ Owners = {}
    /\ stage' = [stage EXCEPT ![c] = s] /\ kind' = [kind EXCEPT ![c] = k]
    /\ at' = [at EXCEPT ![t] = IF k \in {"call", "event"} THEN None ELSE c]
    /\ held' \subseteq held /\ held \subseteq held' \cup {t}
    /\ k # "unwrap" => held' = held
    /\ UNCHANGED <<word, slot, upc, stored, seen>>
    /\ spc # "promise" /\ spc' # "promise"
    /\ todo' \in Seq(Callbacks) /\ IsInjective(todo')
    /\ \A d \in ToSet(todo') : d \in ToSet(todo) /\ d # c

\* What holds whichever thread runs a callback of whatever kind.
LEMMA Runs ==
    ASSUME Inv, NEW t \in Threads, NEW c \in Callbacks, NEW k \in AllKinds, NEW s \in Stages,
           Starts(t, c, k, s)
    PROVE  /\ KindStage' /\ Lists' /\ AfterResult' /\ UserState' /\ Runners'
           /\ Moving' /\ MovingOut' /\ AfterMove' /\ SlotState' /\ SeenState'
           /\ stage' \in [Callbacks -> Stages] /\ kind' \in [Callbacks -> AllKinds \cup {None}]
           /\ at' \in [Threads -> Callbacks \cup {None}]
           /\ at'[t] = (IF k \in {"call", "event"} THEN None ELSE c)
           /\ \A x \in Threads : x # t => at'[x] = at[x]
           /\ \/ Owners' = Owners /\ (k \in {"inline", "connect", "event"}
                                      \/ (k = "unwrap" /\ stage[c] = "linked"))
              \/ Cardinality(Owners') = Cardinality(Owners) + 1
                 /\ (k \in {"call", "async"} \/ (k = "unwrap" /\ stage[c] = "unused"))
<1> USE DEF Starts
<1>b. stage'[c] = s /\ kind'[c] = k
      /\ (\A d \in Callbacks : d # c => stage'[d] = stage[d] /\ kind'[d] = kind[d])
      /\ stage' \in [Callbacks -> Stages] /\ kind' \in [Callbacks -> AllKinds \cup {None}]
  BY DEF TypeOK
<1>c. /\ at'[t] = (IF k \in {"call", "event"} THEN None ELSE c)
      /\ (\A x \in Threads : x # t => at'[x] = at[x])
      /\ at' \in [Threads -> Callbacks \cup {None}]
  BY DEF TypeOK
<1>d. slot # Moved /\ (\A v \in Users : upc[v] = "move" => FALSE)
      /\ \A d \in Callbacks : stage[d] # "moving"
  BY ResultThere
<1>e. (t \in Users => upc[t] = "idle") /\ (t = Setter \/ t \in held)
  BY ConstantsAssumption DEF HasRef
<1>k. k \in {"inline", "async", "call", "unwrap", "connect", "event"}
  BY DEF AllKinds
<1>1. KindStage'
  BY <1>b, <1>k DEF KindStage, AllKinds
<1>2. Lists'
  <2>1. \A d \in ToSet(todo') : d \in Callbacks /\ stage[d] = "linked"
    BY ListElements DEF Lists, Linked, TypeOK
  <2> QED
    BY <1>b, <2>1 DEF Lists, Linked
<1>3. AfterResult'
  BY DEF AfterResult
<1>4. UserState'
  <2> SUFFICES ASSUME NEW v \in Users, upc[v] # "idle"
               PROVE  /\ v \in held'
                      /\ upc[v] = "wait" =>
                            /\ at'[v] \in Callbacks
                            /\ kind'[at'[v]] = "event" /\ stage'[at'[v]] \in {"linked", "done"}
    BY DEF UserState
  <2>1. v # t /\ v \in Threads /\ v \in held
    BY <1>e DEF Threads, UserState
  <2>2. at'[v] = at[v]
    BY <1>c, <2>1
  <2>3. ASSUME upc[v] = "wait"
        PROVE  at[v] \in Callbacks /\ kind'[at[v]] = "event" /\ stage'[at[v]] \in {"linked", "done"}
    BY <1>b, <2>3 DEF UserState
  <2> QED
    BY <2>1, <2>2, <2>3
<1>5. Runners'
  <2> SUFFICES ASSUME NEW d \in Callbacks, Bare(d)' PROVE \E x \in Threads : RunBy(x, d)'
    BY DEF Runners
  <2>1. CASE d = c
    <3>1. k \in {"inline", "connect"}
      BY <1>b, <1>k, <2>1 DEF Bare
    <3> QED
      BY <1>c, <1>e, <2>1, <3>1 DEF RunBy, HasRef
  <2>2. CASE d # c
    <3>1. Bare(d)
      BY <1>b, <2>2 DEF Bare
    <3>2. PICK x \in Threads : RunBy(x, d)
      BY <3>1 DEF Runners
    <3>3. x # t
      BY <3>2, ConstantsAssumption DEF RunBy
    <3> QED
      BY <1>c, <3>2, <3>3 DEF RunBy
  <2> QED
    BY <2>1, <2>2
<1>7. \/ Owners' = Owners /\ (k \in {"inline", "connect", "event"}
                              \/ (k = "unwrap" /\ stage[c] = "linked"))
      \/ Cardinality(Owners') = Cardinality(Owners) + 1
         /\ (k \in {"call", "async"} \/ (k = "unwrap" /\ stage[c] = "unused"))
  <2>1. \A d \in Callbacks : d # c => (Owns(d)' <=> Owns(d))
    BY <1>b DEF Owns
  <2>2. (Owns(c)' <=> k \in {"unwrap", "call", "async"})
        /\ (Owns(c) <=> k = "unwrap" /\ stage[c] = "linked")
    BY <1>b, <1>k DEF Owns
  <2>3. CASE (k = "unwrap" /\ stage[c] = "linked") \/ k \in {"inline", "connect", "event"}
    <3>1. Owns(c)' <=> Owns(c)
      BY <2>2, <2>3
    <3> QED
      BY <2>1, <2>3, <3>1, OwnersMove
  <2>4. CASE (k = "unwrap" /\ stage[c] = "unused") \/ k \in {"call", "async"}
    <3>1. Owns(c)' /\ ~Owns(c)
      BY <2>2, <2>4
    <3> QED
      BY <2>1, <2>4, <3>1, OwnersMove
  <2> QED
    BY <1>k, <2>3, <2>4
<1>8. Moving'
  <2> SUFFICES ASSUME NEW d \in Callbacks, stage'[d] = "moving"
               PROVE  at'[Setter] = d /\ spc' = "drop" /\ held' = {} /\ Owners' = {}
    BY DEF Moving
  <2>1. d = c /\ s = "moving"
    BY <1>b, <1>d
  <2>2. k = "connect"
    BY <2>1, <1>k
  <2>3. Owners' = Owners
    BY <1>7, <2>2
  <2> QED
    BY <1>c, <2>1, <2>2, <2>3
<1>9. MovingOut' /\ AfterMove' /\ SlotState' /\ SeenState'
  BY <1>d DEF MovingOut, AfterMove, SlotState, SeenState
<1> QED
  BY <1>1, <1>2, <1>3, <1>4, <1>5, <1>7, <1>8, <1>9, <1>b, <1>c

\* What a user who finds the result brings along.
LEMMA LateUser ==
    ASSUME Inv, NEW u \in Users, Free(u), word = kResult, NEW c \in Callbacks, stage[c] = "unused"
    PROVE  /\ HasRef(u) /\ u \in Threads /\ u # Setter /\ spc # "promise"
           /\ todo \in Seq(Callbacks) /\ IsInjective(todo)
           /\ \A d \in ToSet(todo) : d \in ToSet(todo) /\ d # c
<1>1. HasRef(u) /\ u \in Threads /\ u # Setter
  BY ConstantsAssumption DEF HasRef, Free, Threads
<1>2. spc # "promise"
  BY DEF SetterState
<1>3. todo \in Seq(Callbacks) /\ IsInjective(todo) /\ \A d \in ToSet(todo) : d # c
  BY DEF Lists, Linked, TypeOK
<1> QED
  BY <1>1, <1>2, <1>3

\* Then, ThenInline, Subscribe and SubscribeInline.
LEMMA AttachInv ==
    ASSUME Inv, NEW u \in Users, NEW c \in Callbacks, NEW k \in Kinds, Attach(u, c, k)
    PROVE  Inv'
<1> USE DEF setter
<1>z. /\ Free(u) /\ stage[c] = "unused" /\ k \in {"inline", "async", "call"}
      /\ kind' = [kind EXCEPT ![c] = k]
      /\ UNCHANGED <<slot, spc, todo, held, upc, stored, seen>>
  BY DEF Attach
<1>k. k \in AllKinds
  BY ConstantsAssumption
<1>1. CASE SetCallback(c) /\ UNCHANGED <<refs, at>>
  BY <1>z, <1>k, <1>1, LinkInv
<1>2. CASE word = kResult /\ Here(u, c, k) /\ UNCHANGED word
  <2> DEFINE s == IF k = "call" THEN "queued" ELSE "reading"
  <2>a. /\ HasRef(u) /\ u \in Threads /\ u # Setter /\ spc # "promise"
        /\ todo \in Seq(Callbacks) /\ IsInjective(todo)
        /\ \A d \in ToSet(todo) : d \in ToSet(todo) /\ d # c
    BY <1>z, <1>2, LateUser
  <2>b. /\ stage' = [stage EXCEPT ![c] = s]
        /\ at' = [at EXCEPT ![u] = IF k \in {"call", "event"} THEN None ELSE c]
        /\ refs' = IF k \in {"call", "async"} THEN refs + 1 ELSE refs
    BY <1>z, <1>2 DEF Here
  <2>c. s \in Stages /\ s # "moving" /\ at[u] = None
        /\ (k \in {"inline", "async", "unwrap"} => s = "reading")
        /\ (k = "call" => s = "queued") /\ (k = "event" => s = "done")
        /\ (k = "connect" => s \in {"copying", "moving"})
    BY <1>z DEF Stages, Free
  <2>d. /\ todo' \in Seq(Callbacks) /\ IsInjective(todo') /\ spc' # "promise"
        /\ \A d \in ToSet(todo') : d \in ToSet(todo) /\ d # c
        /\ held' \subseteq held /\ held \subseteq held' \cup {u}
        /\ UNCHANGED <<word, slot, upc, stored, seen>>
    BY <1>z, <1>2, <2>a
  <2> HIDE DEF s
  <2>1. /\ KindStage' /\ Lists' /\ AfterResult' /\ UserState' /\ Runners'
        /\ Moving' /\ MovingOut' /\ AfterMove' /\ SlotState' /\ SeenState'
        /\ stage' \in [Callbacks -> Stages] /\ kind' \in [Callbacks -> AllKinds \cup {None}]
        /\ at' \in [Threads -> Callbacks \cup {None}]
        /\ (\A x \in Threads : x # u => at'[x] = at[x])
        /\ \/ Owners' = Owners /\ k = "inline"
           \/ Cardinality(Owners') = Cardinality(Owners) + 1 /\ k \in {"call", "async"}
    <3>1. Starts(u, c, k, s)
      BY <1>z, <1>2, <2>a, <2>b, <2>c, <2>d DEF Starts
    <3> QED
      BY <1>z, <1>k, <2>a, <2>c, <3>1, Runs
  <2>2. TypeOK'
    BY <1>z, <1>2, <2>1, <2>b DEF TypeOK
  <2>3. RefsAccounted'
    <3>1. SetterRefs' = SetterRefs
      BY <1>z DEF SetterRefs
    <3> QED
      BY <1>z, <2>1, <2>b, <3>1, Counts, SetterRefsType DEF RefsAccounted
  <2>4. SetterState'
    BY <1>z, <1>2, <2>a, <2>1 DEF SetterState, Threads
  <2> QED
    BY <2>1, <2>2, <2>3, <2>4
<1> QED
  BY <1>1, <1>2 DEF Attach

\* CallResolveAsync with a SharedFuture.
LEMMA UnwrapInv ==
    ASSUME Inv, NEW u \in Users, NEW c \in Callbacks, Unwrap(u, c)
    PROVE  Inv'
<1> USE DEF setter
<1>z. /\ Free(u) /\ stage[c] = "unused" /\ held' = held \ {u}
      /\ kind' = [kind EXCEPT ![c] = "unwrap"]
      /\ UNCHANGED <<slot, spc, todo, upc, stored, seen>>
  BY DEF Unwrap
<1>1. CASE SetCallback(c) /\ UNCHANGED <<refs, at>>
  BY <1>1, UnwrapLinkInv
<1>2. CASE word = kResult /\ Here(u, c, "unwrap") /\ UNCHANGED word
  <2>a. /\ HasRef(u) /\ u \in Threads /\ u # Setter /\ spc # "promise"
        /\ todo \in Seq(Callbacks) /\ IsInjective(todo)
        /\ \A d \in ToSet(todo) : d \in ToSet(todo) /\ d # c
    BY <1>z, <1>2, LateUser
  <2>b. /\ stage' = [stage EXCEPT ![c] = "reading"]
        /\ at' = [at EXCEPT ![u] = IF "unwrap" \in {"call", "event"} THEN None ELSE c]
        /\ refs' = refs
    BY <1>z, <1>2 DEF Here
  <2>c. "reading" \in Stages /\ "unwrap" \in AllKinds /\ at[u] = None /\ u \in held
        /\ held' \subseteq held /\ held \subseteq held' \cup {u}
    BY <1>z DEF Stages, AllKinds, Free
  <2>d. /\ todo' \in Seq(Callbacks) /\ IsInjective(todo') /\ spc' # "promise"
        /\ \A d \in ToSet(todo') : d \in ToSet(todo) /\ d # c
        /\ held' \subseteq held /\ held \subseteq held' \cup {u}
        /\ UNCHANGED <<word, slot, upc, stored, seen>>
    BY <1>z, <1>2, <2>a
  <2>1. /\ KindStage' /\ Lists' /\ AfterResult' /\ UserState' /\ Runners'
        /\ Moving' /\ MovingOut' /\ AfterMove' /\ SlotState' /\ SeenState'
        /\ stage' \in [Callbacks -> Stages] /\ kind' \in [Callbacks -> AllKinds \cup {None}]
        /\ at' \in [Threads -> Callbacks \cup {None}]
        /\ (\A x \in Threads : x # u => at'[x] = at[x])
        /\ Cardinality(Owners') = Cardinality(Owners) + 1
    <3>1. Starts(u, c, "unwrap", "reading")
      BY <1>z, <1>2, <2>a, <2>b, <2>c, <2>d DEF Starts
    <3> QED
      BY <1>z, <2>a, <2>c, <3>1, Runs
  <2>2. TypeOK'
    BY <1>z, <1>2, <2>1, <2>b DEF TypeOK
  <2>3. RefsAccounted'
    <3>1. SetterRefs' = SetterRefs
      BY <1>z DEF SetterRefs
    <3>2. Cardinality(held \ {u}) = Cardinality(held) - 1
      BY <2>c, Counts, FS_RemoveElement
    <3> QED
      BY <1>z, <2>1, <2>b, <3>1, <3>2, Counts, SetterRefsType DEF RefsAccounted
  <2>4. SetterState'
    BY <1>z, <1>2, <2>a, <2>1 DEF SetterState, Threads
  <2> QED
    BY <2>1, <2>2, <2>3, <2>4
<1> QED
  BY <1>1, <1>2 DEF Unwrap

\* Connect and Share of a SharedFuture.
LEMMA ConnectInv ==
    ASSUME Inv, NEW u \in Users, NEW c \in Callbacks, Connect(u, c)
    PROVE  Inv'
<1> USE DEF setter
<1>z. /\ Free(u) /\ stage[c] = "unused" /\ kind' = [kind EXCEPT ![c] = "connect"]
      /\ UNCHANGED <<slot, refs, spc, todo, held, upc, stored, seen>>
  BY DEF Connect
<1>k. "connect" \in AllKinds
  BY DEF AllKinds
<1>1. CASE SetCallback(c) /\ UNCHANGED at
  BY <1>z, <1>k, <1>1, LinkInv
<1>2. CASE word = kResult /\ stage' = [stage EXCEPT ![c] = "copying"]
           /\ at' = [at EXCEPT ![u] = c] /\ UNCHANGED word
  <2>a. /\ HasRef(u) /\ u \in Threads /\ u # Setter /\ spc # "promise"
        /\ todo \in Seq(Callbacks) /\ IsInjective(todo)
        /\ \A d \in ToSet(todo) : d \in ToSet(todo) /\ d # c
    BY <1>z, <1>2, LateUser
  <2>b. at' = [at EXCEPT ![u] = IF "connect" \in {"call", "event"} THEN None ELSE c]
    BY <1>2
  <2>c. "copying" \in Stages /\ at[u] = None
    BY <1>z DEF Stages, Free
  <2>d. /\ todo' \in Seq(Callbacks) /\ IsInjective(todo') /\ spc' # "promise"
        /\ \A d \in ToSet(todo') : d \in ToSet(todo) /\ d # c
        /\ held' \subseteq held /\ held \subseteq held' \cup {u}
        /\ UNCHANGED <<word, slot, upc, stored, seen>>
    BY <1>z, <1>2, <2>a
  <2>1. /\ KindStage' /\ Lists' /\ AfterResult' /\ UserState' /\ Runners'
        /\ Moving' /\ MovingOut' /\ AfterMove' /\ SlotState' /\ SeenState'
        /\ stage' \in [Callbacks -> Stages] /\ kind' \in [Callbacks -> AllKinds \cup {None}]
        /\ at' \in [Threads -> Callbacks \cup {None}]
        /\ (\A x \in Threads : x # u => at'[x] = at[x])
        /\ Owners' = Owners
    <3>1. Starts(u, c, "connect", "copying")
      BY <1>z, <1>2, <2>a, <2>b, <2>c, <2>d DEF Starts
    <3> QED
      BY <1>z, <1>k, <2>a, <2>c, <3>1, Runs
  <2>2. TypeOK'
    BY <1>z, <1>2, <2>1 DEF TypeOK
  <2>3. RefsAccounted'
    <3>1. SetterRefs' = SetterRefs
      BY <1>z DEF SetterRefs
    <3> QED
      BY <1>z, <2>1, <3>1 DEF RefsAccounted
  <2>4. SetterState'
    BY <1>z, <1>2, <2>a, <2>1 DEF SetterState, Threads
  <2> QED
    BY <2>1, <2>2, <2>3, <2>4
<1> QED
  BY <1>1, <1>2 DEF Connect

\* The callback that the walk has come to.
LEMMA WalkHead ==
    ASSUME Inv, spc \in {"walk", "last"}, todo # <<>>
    PROVE  LET c == Head(todo)
           IN  /\ c \in Callbacks /\ stage[c] = "linked" /\ kind[c] \in AllKinds
               /\ Tail(todo) \in Seq(Callbacks) /\ IsInjective(Tail(todo))
               /\ \A d \in ToSet(Tail(todo)) : d \in ToSet(todo) /\ d # c
               /\ HasRef(Setter) /\ word = kResult /\ Setter \in Threads
               /\ kind = [kind EXCEPT ![c] = kind[c]]
<1> DEFINE c == Head(todo)
<1>1. /\ c \in Callbacks /\ Tail(todo) \in Seq(Callbacks) /\ ToSet(todo) = {c} \cup ToSet(Tail(todo))
      /\ (IsInjective(todo) => c \notin ToSet(Tail(todo)) /\ IsInjective(Tail(todo)))
  BY ListPop DEF TypeOK
<1>2. IsInjective(todo) /\ \A d \in ToSet(todo) : stage[d] = "linked"
  BY DEF Lists, Linked
<1> HIDE DEF c
<1>3. stage[c] = "linked" /\ kind[c] \in AllKinds
  BY <1>1, <1>2 DEF KindStage
<1>4. HasRef(Setter) /\ word = kResult /\ Setter \in Threads
  BY DEF HasRef, SetterState, Threads
<1>5. kind = [kind EXCEPT ![c] = kind[c]]
  BY <1>1 DEF TypeOK
<1>6. IsInjective(Tail(todo)) /\ \A d \in ToSet(Tail(todo)) : d \in ToSet(todo) /\ d # c
  BY <1>1, <1>2
<1> QED
  BY <1>1, <1>3, <1>4, <1>5, <1>6 DEF c

\* What holds after the Setter has begun to run a callback of the list.
LEMMA SetterRuns ==
    ASSUME Inv, spc \in {"walk", "last"}, todo # <<>>, at[Setter] = None,
           Here(Setter, Head(todo), kind[Head(todo)]),
           todo' \in {Tail(todo), <<>>},
           (spc = "walk" /\ spc' = "walk") \/ (spc = "last" /\ spc' = "drop" /\ todo' = <<>>),
           UNCHANGED <<word, slot, held, upc, kind, stored, seen>>
    PROVE  Inv'
<1> DEFINE c == Head(todo)
           k == kind[c]
           s == CASE k \in {"inline", "async", "unwrap"} -> "reading"
                  [] k = "call" -> "queued"
                  [] k = "connect" -> (IF refs >= 3 THEN "copying" ELSE "moving")
                  [] k = "event" -> "done"
<1>a. /\ c \in Callbacks /\ stage[c] = "linked" /\ k \in AllKinds
      /\ Tail(todo) \in Seq(Callbacks) /\ IsInjective(Tail(todo))
      /\ \A d \in ToSet(Tail(todo)) : d \in ToSet(todo) /\ d # c
      /\ HasRef(Setter) /\ word = kResult /\ Setter \in Threads
      /\ kind = [kind EXCEPT ![c] = k]
  BY WalkHead
<1>b. refs \in Nat /\ refs >= 2 /\ (spc = "walk" => refs >= 3)
      /\ (refs < 3 => spc = "last" /\ held = {} /\ Owners = {})
  <2>1. refs \in Nat
    BY DEF TypeOK
  <2>2. /\ spc = "last" /\ refs = 2 => held = {} /\ Owners = {}
        /\ spc \in {"walk", "last"} => refs >= 2
        /\ spc = "walk" => refs >= 3
    BY CounterTells
  <2> QED
    BY <2>1, <2>2
<1>k. k \in {"inline", "async", "call", "unwrap", "connect", "event"}
  BY <1>a DEF AllKinds
<1> HIDE DEF c, k
<1>c. /\ stage' = [stage EXCEPT ![c] = s]
      /\ at' = [at EXCEPT ![Setter] = IF k \in {"call", "event"} THEN None ELSE c]
      /\ refs' = IF k \in {"call", "async"} THEN refs + 1 ELSE refs
  BY <1>b, <1>k DEF Here, Impl, c, k
<1>d. /\ s \in Stages
      /\ (k \in {"inline", "async", "unwrap"} => s = "reading")
      /\ (k = "call" => s = "queued") /\ (k = "event" => s = "done")
      /\ (k = "connect" => s \in {"copying", "moving"})
      /\ (s = "moving" => refs < 3)
  BY <1>b, <1>k DEF Stages
<1> HIDE DEF s
<1>e. /\ todo' \in Seq(Callbacks) /\ IsInjective(todo')
      /\ \A d \in ToSet(todo') : d \in ToSet(todo) /\ d # c
  <2>1. CASE todo' = Tail(todo)
    BY <1>a, <2>1
  <2>2. CASE todo' = <<>>
    <3>1. todo' \in Seq(Callbacks)
      BY <2>2
    <3> QED
      BY <2>2, <3>1, ListEmpty
  <2> QED
    BY <2>1, <2>2
<1>f. /\ s = "moving" => Setter = Setter /\ spc' = "drop" /\ held = {} /\ Owners = {}
      /\ spc # "promise" /\ spc' # "promise"
  BY <1>b, <1>d
<1>g. Starts(Setter, c, k, s)
  <2>1. stage[c] = "linked" /\ kind[c] = k /\ kind' = [kind EXCEPT ![c] = k]
    BY <1>a DEF k
  <2> QED
    BY <1>a, <1>c, <1>d, <1>e, <1>f, <2>1 DEF Starts
<1>1. /\ KindStage' /\ Lists' /\ AfterResult' /\ UserState' /\ Runners'
      /\ Moving' /\ MovingOut' /\ AfterMove' /\ SlotState' /\ SeenState'
      /\ stage' \in [Callbacks -> Stages] /\ kind' \in [Callbacks -> AllKinds \cup {None}]
      /\ at' \in [Threads -> Callbacks \cup {None}]
      /\ \/ Owners' = Owners /\ (k \in {"inline", "connect", "event"}
                                 \/ (k = "unwrap" /\ stage[c] = "linked"))
         \/ Cardinality(Owners') = Cardinality(Owners) + 1
            /\ (k \in {"call", "async"} \/ (k = "unwrap" /\ stage[c] = "unused"))
  BY <1>a, <1>d, <1>g, Runs
<1>2. TypeOK'
  BY <1>b, <1>c, <1>1, <1>e DEF TypeOK, SetterStates
<1>3. RefsAccounted'
  <2>1. SetterRefs' = SetterRefs /\ SetterRefs \in Nat
    BY SetterRefsType DEF SetterRefs
  <2>2. /\ Cardinality(held) \in Nat /\ Cardinality(Owners) \in Nat /\ held' = held
        /\ refs = Cardinality(held) + SetterRefs + Cardinality(Owners)
    BY Counts DEF RefsAccounted
  <2>3. CASE k \in {"call", "async"}
    <3>1. refs' = refs + 1 /\ Cardinality(Owners') = Cardinality(Owners) + 1
      BY <1>c, <1>1, <2>3
    <3> QED
      BY <2>1, <2>2, <3>1 DEF RefsAccounted
  <2>4. CASE k \notin {"call", "async"}
    <3>1. refs' = refs /\ Owners' = Owners
      BY <1>a, <1>c, <1>1, <2>4
    <3> QED
      BY <2>1, <2>2, <3>1 DEF RefsAccounted
  <2> QED
    BY <2>3, <2>4
<1>4. SetterState'
  BY <1>a DEF SetterState
<1> QED
  BY <1>1, <1>2, <1>3, <1>4

\* The callbacks of the list, the last one after the first DecRef.
LEMMA WalkInv ==
    ASSUME Inv, WalkNext \/ WalkLast
    PROVE  Inv'
<1>1. CASE WalkNext
  <2>1. todo # <<>>
    <3> SUFFICES ASSUME todo = <<>> PROVE FALSE
      OBVIOUS
    <3>1. Len(todo) = 0
      OBVIOUS
    <3> QED
      BY <1>1, <3>1 DEF WalkNext
  <2> QED
    BY <1>1, <2>1, SetterRuns DEF WalkNext
<1>2. CASE WalkLast
  <2>1. todo # <<>> /\ at[Setter] = None
    BY <1>2 DEF WalkLast, SetterState
  <2> QED
    BY <1>2, <2>1, SetterRuns DEF WalkLast
<1> QED
  BY <1>1, <1>2

\* SetResultImpl gives up a reference.
LEMMA DecRefInv ==
    ASSUME Inv, DecRefFirst \/ DecRef
    PROVE  Inv'
<1>z. /\ refs' = refs - 1 /\ at[Setter] = None
      /\ UNCHANGED <<word, slot, todo, held, upc, at, kind, stage, stored, seen>>
  BY DEF DecRefFirst, DecRef, SetterState
<1>y. \/ spc = "walk" /\ todo = <<>> /\ spc' = "drop"
      \/ spc = "walk" /\ todo # <<>> /\ spc' = "last"
      \/ spc = "drop" /\ spc' = "drop1"
      \/ spc = "drop1" /\ spc' = "done"
  BY DEF DecRefFirst, DecRef
<1>a. SetterRefs' = SetterRefs - 1 /\ SetterRefs \in Nat /\ SetterRefs >= 1
  BY <1>y DEF SetterRefs
<1>b. refs' \in Nat /\ RefsAccounted'
  <2>1. /\ Cardinality(held) \in Nat /\ Cardinality(Owners) \in Nat /\ Owners' = Owners
        /\ refs = Cardinality(held) + SetterRefs + Cardinality(Owners)
    BY <1>z, Counts, CallbacksStay DEF RefsAccounted
  <2> QED
    BY <1>z, <1>a, <2>1 DEF RefsAccounted
<1>1. TypeOK'
  BY <1>z, <1>y, <1>b DEF TypeOK, SetterStates
<1>2. KindStage' /\ AfterResult' /\ UserState' /\ SeenState'
  BY <1>z DEF KindStage, AfterResult, UserState, SeenState
<1>3. SetterState'
  BY <1>z, <1>y DEF SetterState
<1>4. Lists'
  BY <1>z DEF Lists, Linked
<1>5. Runners'
  BY <1>z, CallbacksStay DEF Runners, RunBy
<1>6. Moving'
  BY <1>z, ConstantsAssumption DEF Moving
<1>7. MovingOut' /\ AfterMove' /\ SlotState'
  BY <1>z, <1>y, CallbacksStay DEF MovingOut, AfterMove, SlotState
<1> QED
  BY <1>1, <1>2, <1>3, <1>4, <1>5, <1>6, <1>7, <1>b

-----------------------------------------------------------------------------
(***************************************************************************)
(* The functors and the executor.                                          *)
(***************************************************************************)

\* The executor calls or drops what it has been given.
LEMMA CallInv ==
    ASSUME Inv, NEW c \in Callbacks, Call(c) \/ Drop(c)
    PROVE  Inv'
<1> USE DEF core, setter
<1>y. PICK s \in {"reading", "dropped"} :
         /\ stage' = [stage EXCEPT ![c] = s]
         /\ refs' = IF s = "dropped" THEN refs - 1 ELSE refs
  BY DEF Call, Drop
<1>z. /\ stage[c] = "queued" /\ kind[c] = "call"
      /\ UNCHANGED <<word, slot, spc, todo, held, upc, at, kind, stored, seen>>
  BY DEF Call, Drop, KindStage
<1>b. stage'[c] = s /\ (\A d \in Callbacks : d # c => stage'[d] = stage[d])
      /\ stage' \in [Callbacks -> Stages]
  BY <1>y DEF TypeOK, Stages
<1>c. /\ s = "reading" => Owners' = Owners
      /\ s = "dropped" => /\ Cardinality(Owners') = Cardinality(Owners) - 1
                          /\ Cardinality(Owners) >= 1
      /\ Owners # {}
  <2>1. \A d \in Callbacks : d # c => (Owns(d)' <=> Owns(d))
    BY <1>b, <1>z DEF Owns
  <2>2. Owns(c) /\ (Owns(c)' <=> s = "reading")
    BY <1>b, <1>z DEF Owns
  <2>3. c \in Owners
    BY <2>2 DEF Owns, Owners
  <2> QED
    BY <2>1, <2>2, <2>3, OwnersMove
<1>d. refs' \in Nat /\ RefsAccounted'
  <2>1. /\ SetterRefs' = SetterRefs /\ SetterRefs \in Nat /\ Cardinality(held) \in Nat
        /\ Cardinality(Owners) \in Nat /\ refs \in Nat
        /\ refs = Cardinality(held) + SetterRefs + Cardinality(Owners)
    BY <1>z, Counts, SetterRefsType DEF SetterRefs, RefsAccounted, TypeOK
  <2>2. CASE s = "reading"
    BY <1>y, <1>z, <1>c, <2>1, <2>2 DEF RefsAccounted
  <2>3. CASE s = "dropped"
    BY <1>y, <1>z, <1>c, <2>1, <2>3 DEF RefsAccounted
  <2> QED
    BY <1>y, <2>2, <2>3
<1>1. TypeOK'
  BY <1>z, <1>b, <1>d DEF TypeOK
<1>2. KindStage' /\ AfterResult'
  BY <1>z, <1>b DEF KindStage, AfterResult
<1>3. SetterState' /\ SlotState' /\ SeenState'
  BY <1>z DEF SetterState, SlotState, SeenState
<1>4. Lists'
  <2>1. word = kResult
    BY <1>z DEF AfterResult
  <2>2. \A d \in ToSet(todo) : d \in Callbacks /\ d # c /\ stage[d] = "linked"
    BY <1>z, ListElements DEF Lists, Linked, TypeOK
  <2> QED
    BY <1>z, <1>b, <2>1, <2>2 DEF Lists, Linked
<1>5. UserState'
  BY <1>z, <1>b DEF UserState
<1>6. Runners'
  <2>1. \A d \in Callbacks : Bare(d)' => Bare(d)
    BY <1>z, <1>b DEF Bare
  <2> QED
    BY <1>z, <2>1 DEF Runners, RunBy
<1>7. Moving' /\ MovingOut'
  BY <1>z, <1>b, <1>c DEF Moving, MovingOut
<1>8. AfterMove'
  BY <1>z, <1>b DEF AfterMove, Using
<1> QED
  BY <1>1, <1>2, <1>3, <1>4, <1>5, <1>6, <1>7, <1>8, <1>d

\* A callback that uses the result finds it in its place.
LEMMA UserFinds ==
    ASSUME Inv, NEW c \in Callbacks, stage[c] \in Using
    PROVE  word = kResult /\ slot = stored /\ stored \in Results
<1>1. word = kResult
  BY DEF AfterResult, Using
<1>2. slot # Moved /\ spc # "promise"
  BY <1>1 DEF AfterMove, SetterState
<1> QED
  BY <1>1, <1>2 DEF SlotState

\* What holds at the end of a callback, whatever it has done with the result.
LEMMA Ends ==
    ASSUME Inv, NEW c \in Callbacks, stage[c] \in {"reading", "copying", "moving"},
           stage' = [stage EXCEPT ![c] = "done"], seen' = [seen EXCEPT ![c] = slot], Return(c),
           UNCHANGED <<word, spc, todo, held, upc, kind, stored>>
    PROVE  /\ KindStage' /\ SetterState' /\ Lists' /\ AfterResult' /\ UserState'
           /\ Runners' /\ Moving' /\ MovingOut' /\ SeenState'
           /\ at' \in [Threads -> Callbacks \cup {None}] /\ stage' \in [Callbacks -> Stages]
           /\ seen' \in [Callbacks \cup Users -> Results \cup {None, Moved}]
           /\ SetterRefs' = SetterRefs
           /\ stage'[c] = "done" /\ \A d \in Callbacks : d # c => stage'[d] = stage[d]
           /\ ~Owns(c) => Owners' = Owners
           /\ Owns(c) => Cardinality(Owners') = Cardinality(Owners) - 1 /\ Cardinality(Owners) >= 1
<1>a. word = kResult /\ slot = stored /\ stored \in Results
  BY UserFinds DEF Using
<1>b. stage'[c] = "done" /\ (\A d \in Callbacks : d # c => stage'[d] = stage[d])
      /\ stage' \in [Callbacks -> Stages]
  BY DEF TypeOK, Stages
<1>c. at' \in [Threads -> Callbacks \cup {None}]
      /\ \A t \in Threads : at'[t] = (IF at[t] = c THEN None ELSE at[t])
  BY DEF Return, TypeOK
<1>d. /\ ~Owns(c) => Owners' = Owners
      /\ Owns(c) => /\ Cardinality(Owners') = Cardinality(Owners) - 1
                    /\ Cardinality(Owners) >= 1 /\ Owners # {}
  <2>1. \A d \in Callbacks : d # c => (Owns(d)' <=> Owns(d))
    BY <1>b DEF Owns
  <2>2. ~Owns(c)'
    BY <1>b DEF Owns
  <2> QED
    BY <2>1, <2>2, OwnersMove
<1>e. Setter \in Threads /\ Users \subseteq Threads
  BY DEF Threads
<1>1. KindStage' /\ AfterResult'
  BY <1>a, <1>b DEF KindStage, AfterResult
<1>2. SetterState'
  BY <1>c, <1>e DEF SetterState
<1>3. Lists'
  <2>1. \A d \in ToSet(todo) : d \in Callbacks /\ d # c /\ stage[d] = "linked"
    BY ListElements DEF Lists, Linked, TypeOK
  <2> QED
    BY <1>a, <1>b, <2>1 DEF Lists, Linked
<1>4. UserState'
  <2> SUFFICES ASSUME NEW v \in Users, upc[v] = "wait"
               PROVE  /\ at'[v] \in Callbacks
                      /\ kind[at'[v]] = "event" /\ stage'[at'[v]] \in {"linked", "done"}
    BY DEF UserState
  <2>1. /\ at[v] \in Callbacks /\ kind[at[v]] = "event" /\ stage[at[v]] \in {"linked", "done"}
    BY DEF UserState
  <2>2. at'[v] = at[v] /\ at[v] # c
    BY <1>c, <1>e, <2>1
  <2> QED
    BY <1>b, <2>1, <2>2
<1>5. Runners'
  <2> SUFFICES ASSUME NEW d \in Callbacks, Bare(d)' PROVE \E x \in Threads : RunBy(x, d)'
    BY DEF Runners
  <2>1. d # c /\ Bare(d)
    BY <1>b DEF Bare
  <2>2. PICK x \in Threads : RunBy(x, d)
    BY <2>1 DEF Runners
  <2> QED
    BY <1>c, <2>1, <2>2 DEF RunBy
<1>6. ~Owns(c) \/ ~\E d \in Callbacks : stage[d] = "moving"
  BY <1>d DEF Moving
<1>7. Moving'
  BY <1>b, <1>c, <1>d, <1>e, <1>6 DEF Moving
<1>8. MovingOut'
  BY <1>d DEF MovingOut
<1>9. SeenState' /\ seen' \in [Callbacks \cup Users -> Results \cup {None, Moved}]
  BY <1>a DEF SeenState, TypeOK
<1>10. SetterRefs' = SetterRefs
  BY DEF SetterRefs
<1> QED
  BY <1>1, <1>2, <1>3, <1>4, <1>5, <1>7, <1>8, <1>9, <1>10, <1>b, <1>c, <1>d

\* The functor returns, and the callback gives its reference back.
LEMMA DoneInv ==
    ASSUME Inv, NEW c \in Callbacks, Done(c)
    PROVE  Inv'
<1> USE DEF setter
<1>z. /\ stage[c] = "reading" /\ seen' = [seen EXCEPT ![c] = slot]
      /\ stage' = [stage EXCEPT ![c] = "done"] /\ Return(c)
      /\ refs' = (IF kind[c] = "inline" THEN refs ELSE refs - 1)
      /\ UNCHANGED <<word, slot, spc, todo, held, upc, kind, stored>>
  BY DEF Done
<1>1. /\ KindStage' /\ SetterState' /\ Lists' /\ AfterResult' /\ UserState'
      /\ Runners' /\ Moving' /\ MovingOut' /\ SeenState'
      /\ at' \in [Threads -> Callbacks \cup {None}] /\ stage' \in [Callbacks -> Stages]
      /\ seen' \in [Callbacks \cup Users -> Results \cup {None, Moved}]
      /\ SetterRefs' = SetterRefs
      /\ stage'[c] = "done" /\ (\A d \in Callbacks : d # c => stage'[d] = stage[d])
      /\ (~Owns(c) => Owners' = Owners)
      /\ (Owns(c) => Cardinality(Owners') = Cardinality(Owners) - 1 /\ Cardinality(Owners) >= 1)
  BY <1>z, Ends
<1>2. Owns(c) <=> kind[c] # "inline"
  BY <1>z DEF Owns, KindStage
<1>3. refs' \in Nat /\ RefsAccounted'
  <2>1. /\ SetterRefs \in Nat /\ Cardinality(held) \in Nat
        /\ Cardinality(Owners) \in Nat /\ refs \in Nat /\ held' = held
        /\ refs = Cardinality(held) + SetterRefs + Cardinality(Owners)
    BY <1>z, Counts, SetterRefsType DEF RefsAccounted, TypeOK
  <2>2. CASE kind[c] = "inline"
    <3>1. refs' = refs /\ Owners' = Owners
      BY <1>z, <1>1, <1>2, <2>2
    <3> QED
      BY <1>1, <2>1, <3>1 DEF RefsAccounted
  <2>3. CASE kind[c] # "inline"
    <3>1. /\ refs' = refs - 1
          /\ Cardinality(Owners') = Cardinality(Owners) - 1 /\ Cardinality(Owners) >= 1
      BY <1>z, <1>1, <1>2, <2>3
    <3> QED
      BY <1>1, <2>1, <3>1 DEF RefsAccounted
  <2> QED
    BY <2>2, <2>3
<1>4. TypeOK'
  BY <1>z, <1>1, <1>3 DEF TypeOK
<1>5. AfterMove' /\ SlotState'
  BY <1>z, <1>1 DEF AfterMove, SlotState, Using
<1> QED
  BY <1>1, <1>3, <1>4, <1>5

\* A connected core takes the result over: it copies it, or it moves it when
\* only SetResultImpl has references, and then nobody is left to read it.
LEMMA TransmitInv ==
    ASSUME Inv, NEW c \in Callbacks, Transmit(c)
    PROVE  Inv'
<1> USE DEF setter
<1>z. /\ stage[c] \in {"copying", "moving"} /\ seen' = [seen EXCEPT ![c] = slot]
      /\ stage' = [stage EXCEPT ![c] = "done"] /\ Return(c) /\ refs' = refs
      /\ slot' = (IF stage[c] = "copying" THEN slot ELSE Moved)
      /\ UNCHANGED <<word, spc, todo, held, upc, kind, stored>>
  BY DEF Transmit, KindStage
<1>1. /\ KindStage' /\ SetterState' /\ Lists' /\ AfterResult' /\ UserState'
      /\ Runners' /\ Moving' /\ MovingOut' /\ SeenState'
      /\ at' \in [Threads -> Callbacks \cup {None}] /\ stage' \in [Callbacks -> Stages]
      /\ seen' \in [Callbacks \cup Users -> Results \cup {None, Moved}]
      /\ SetterRefs' = SetterRefs
      /\ stage'[c] = "done" /\ (\A d \in Callbacks : d # c => stage'[d] = stage[d])
      /\ (~Owns(c) => Owners' = Owners)
  BY <1>z, Ends
<1>2. ~Owns(c)
  BY <1>z DEF Owns
<1>3. RefsAccounted'
  BY <1>z, <1>1, <1>2 DEF RefsAccounted
<1>4. TypeOK'
  BY <1>z, <1>1 DEF TypeOK
<1>5. SlotState'
  <2>1. spc # "promise"
    BY <1>z, UserFinds DEF SetterState, Using
  <2> QED
    BY <1>z, <2>1 DEF SlotState
<1>6. AfterMove'
  <2>1. CASE stage[c] = "copying"
    BY <1>z, <1>1, <2>1 DEF AfterMove, Using
  <2>2. CASE stage[c] = "moving"
    <3>1. at[Setter] = c /\ spc = "drop" /\ held = {} /\ Owners = {}
      BY <2>2 DEF Moving
    <3>2. ASSUME NEW d \in Callbacks, d # c, stage[d] \in Using PROVE FALSE
      <4>1. ~Bare(d)
        <5> SUFFICES ASSUME NEW t \in Threads, RunBy(t, d) PROVE FALSE
          BY DEF Runners
        <5> QED
          BY <3>1, <3>2 DEF RunBy
      <4>2. d \notin Owners
        BY <3>1
      <4> QED
        BY <3>2, <4>1, <4>2 DEF Owners, Bare, KindStage, Using
    <3>3. ASSUME NEW d \in Callbacks PROVE stage'[d] \notin Using
      <4>1. CASE d = c
        BY <1>1, <4>1 DEF Using
      <4>2. CASE d # c
        BY <1>1, <3>2, <4>2
      <4> QED
        BY <4>1, <4>2
    <3> QED
      BY <1>z, <3>1, <3>3 DEF AfterMove
  <2> QED
    BY <1>z, <2>1, <2>2
<1> QED
  BY <1>1, <1>3, <1>4, <1>5, <1>6

-----------------------------------------------------------------------------
(***************************************************************************)
(* The theorems.                                                           *)
(***************************************************************************)

\* MakeSharedContract and MakeSharedPromise establish the invariant.
LEMMA InitInv == Init => Inv
<1> SUFFICES ASSUME Init PROVE Inv
  OBVIOUS
<1>z. /\ word = <<>> /\ slot = None /\ spc = "promise" /\ todo = <<>>
      /\ upc = [u \in Users |-> "idle"] /\ at = [t \in Threads |-> None]
      /\ kind = [c \in Callbacks |-> None] /\ stage = [c \in Callbacks |-> "unused"]
      /\ stored = None /\ seen = [x \in Callbacks \cup Users |-> None]
  BY DEF Init
<1>y. held \subseteq Users /\ refs = 3 + Cardinality(held)
  BY DEF Init, kSharedRefNoFuture
<1>a. \A c \in Callbacks : stage[c] = "unused"
  BY <1>z
<1>b. \A u \in Users : upc[u] = "idle"
  BY <1>z
<1>c. IsFiniteSet(held) /\ Cardinality(held) \in Nat
  BY <1>y, ConstantsAssumption, FS_Subset, FS_CardinalityType
<1>d. word # kResult /\ word \in Seq(Callbacks)
  <2>1. word \in Seq(Callbacks)
    BY <1>z
  <2> QED
    BY <2>1, ConstantsAssumption
<1>1. TypeOK
  BY <1>z, <1>y, <1>c, <1>d DEF TypeOK, SetterStates, UserStates, Stages
<1>2. RefsAccounted
  <2>1. Owners = {} /\ SetterRefs = 3
    BY <1>z, <1>a, SetterHas DEF Owners
  <2> QED
    BY <1>y, <1>c, <2>1, FS_EmptySet DEF RefsAccounted
<1>3. KindStage /\ AfterResult
  BY <1>a, <1>b DEF KindStage, AfterResult
<1>4. SetterState
  <2>1. at[Setter] = None
    BY <1>z DEF Threads
  <2> QED
    BY <1>z, <1>d, <2>1 DEF SetterState
<1>5. Lists
  BY <1>z, ListEmpty DEF Lists, Linked
<1>6. UserState /\ Runners /\ Moving /\ MovingOut
  BY <1>a, <1>b DEF UserState, Runners, Bare, Moving, MovingOut
<1>7. AfterMove /\ SlotState /\ SeenState
  BY <1>z, ConstantsAssumption DEF AfterMove, SlotState, SeenState
<1> QED
  BY <1>1, <1>2, <1>3, <1>4, <1>5, <1>6, <1>7

\* A step that changes nothing keeps the invariant.
LEMMA StutterInv ==
    ASSUME Inv, UNCHANGED vars
    PROVE  Inv'
<1> USE DEF vars, core, setter
<1>1. TypeOK' /\ KindStage' /\ SetterState' /\ AfterResult' /\ UserState'
  BY DEF TypeOK, KindStage, SetterState, AfterResult, UserState
<1>2. Owners' = Owners /\ \A c \in Callbacks : Bare(c)' <=> Bare(c)
  BY CallbacksStay
<1>3. RefsAccounted' /\ Moving' /\ MovingOut'
  BY <1>2 DEF RefsAccounted, SetterRefs, Moving, MovingOut
<1>4. Lists'
  BY DEF Lists, Linked
<1>5. Runners'
  BY <1>2 DEF Runners, RunBy
<1>6. AfterMove' /\ SlotState' /\ SeenState'
  BY DEF AfterMove, SlotState, SeenState
<1> QED
  BY <1>1, <1>3, <1>4, <1>5, <1>6

\* Every step keeps the invariant.
LEMMA NextInv ==
    ASSUME Inv, Next
    PROVE  Inv'
<1>1. ASSUME NEW c \in Callbacks, RunCallback(c) \/ ConnectPromise(c) PROVE Inv'
  BY <1>1, CallInv, DoneInv, TransmitInv, ConnectPromiseInv DEF RunCallback
<1>2. ASSUME NEW r \in Results, Store(r) PROVE Inv'
  BY <1>2, StoreInv
<1>3. CASE SetterStep
  BY <1>3, SetResultInv, WalkInv, DecRefInv DEF SetterStep
<1>4. ASSUME NEW u \in Users,
             \/ Split(u) \/ Release(u) \/ Touch(u) \/ WaitEnd(u)
             \/ GetConst(u) \/ GetRef(u) \/ Get(u)
             \/ \E v \in Users : Copy(u, v)
      PROVE  Inv'
  BY <1>4, SplitInv, ReleaseInv, TouchInv, WaitEndInv, GetInv, GetRefInv
<1>5. ASSUME NEW u \in Users, NEW c \in Callbacks,
             (\E k \in Kinds : Attach(u, c, k)) \/ Unwrap(u, c) \/ Connect(u, c) \/ Wait(u, c)
      PROVE  Inv'
  BY <1>5, AttachInv, UnwrapInv, ConnectInv, WaitInv
<1> QED
  BY <1>1, <1>2, <1>3, <1>4, <1>5 DEF Next

\* The inductive invariant holds for every number of users and callbacks.
THEOREM Invariance == Spec => []Inv
<1>1. Inv /\ [Next]_vars => Inv'
  BY NextInv, StutterInv
<1> QED
  BY <1>1, InitInv, PTL DEF Spec

\* TypeOK, and with it that DecRef is never called on a destroyed core.
THEOREM TypeCorrect == Spec => []TypeOK
<1>1. Inv => TypeOK
  OBVIOUS
<1> QED
  BY <1>1, Invariance, PTL

\* The counter of shared_core.hpp, through Copy, Release, Unwrap, the callbacks
\* that take a reference and the three DecRefs of SetResultImpl, is exact.
THEOREM CounterIsExact == Spec => []RefsAccounted
<1>1. Inv => RefsAccounted
  OBVIOUS
<1> QED
  BY <1>1, Invariance, PTL

\* Whoever gets the result gets what was stored: no move takes it from anybody.
THEOREM ResultsStayIntact == Spec => []ResultIntact
<1>1. Inv => ResultIntact
  <2> SUFFICES ASSUME Inv PROVE ResultIntact
    OBVIOUS
  <2>1. \A x \in DOMAIN seen : seen[x] # None => seen[x] = stored
    BY DEF SeenState, TypeOK
  <2>2. ASSUME NEW c \in Callbacks, stage[c] \in {"reading", "copying", "moving"}
        PROVE  slot \in Results /\ slot = stored
    BY <2>2, UserFinds DEF Using
  <2>3. ASSUME NEW u \in held, word = kResult, upc[u] # "spent" PROVE slot \in Results
    BY <2>3 DEF AfterMove, SlotState, SetterState
  <2> QED
    BY <2>1, <2>2, <2>3 DEF ResultIntact
<1> QED
  BY <1>1, Invariance, PTL
=============================================================================
