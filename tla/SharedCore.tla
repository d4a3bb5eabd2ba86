----------------------------- MODULE SharedCore -----------------------------
(***************************************************************************)
(* algo/shared_core, async/shared_future, async/shared_promise: one shared *)
(* core, the thread that fulfils its SharedPromise, the SharedFutures that *)
(* users copy, consume and destroy, and the callbacks they link to it.     *)
(*                                                                         *)
(* The reference counter does two jobs at once.  It keeps the core alive,  *)
(* and whoever is about to consume the result reads it to decide whether   *)
(* nobody else can look at the result any more, so that it may be moved    *)
(* out instead of copied.  The promise therefore owns three references: it *)
(* gives one up before it runs the last callback and two after it.         *)
(*                                                                         *)
(* SetCallbackImpl<true> is a load and a loop of compare-and-swaps.  Up to *)
(* the one that succeeds, or the load that finds kResult, the callback     *)
(* belongs to its thread alone, so that is the one step it takes here.     *)
(*                                                                         *)
(* The definitions whose names end in an underscore and a word (X_Word)    *)
(* are faulty variants of X that show that the properties can fail; the    *)
(* specification does not use them.                                        *)
(***************************************************************************)
EXTENDS Naturals, FiniteSets, Sequences

CONSTANTS
    Users,      \* threads that may hold a SharedFuture
    Setter,     \* the thread that holds the SharedPromise
    Callbacks,  \* callback objects, each linked at most once
    Kinds,      \* the kinds of callback that users link
    Results,    \* what may be stored: a value, or the StopTag of ~SharedPromise
    kResult,    \* the word of a core that has its result
    Moved,      \* what a move leaves in _result
    None

AllKinds == {"inline",   \* ThenInline, SubscribeInline
             "async",    \* ThenInline of a functor that returns a future
             "call",     \* Then, Subscribe: submitted to an executor
             "unwrap",   \* waits for a SharedFuture that its functor returned
             "connect",  \* the core of a promise that this result is sent to
             "event"}    \* the event of a Wait

ASSUME ConstantsAssumption ==
    /\ IsFiniteSet(Users) /\ IsFiniteSet(Callbacks)
    /\ Setter \notin Users
    /\ Kinds \subseteq AllKinds
    /\ None \notin Callbacks \cup Results /\ Moved \notin Results \cup {None}
    /\ kResult \notin Seq(Callbacks)

Threads == Users \cup {Setter}

VARIABLES
    word,     \* _callback: kResult, or the linked callbacks, the newest first
    slot,     \* _result: None before Store, Moved after a move
    refs,     \* the reference counter
    spc,      \* where the Setter is
    todo,     \* the callbacks that SetResultImpl still has to run
    held,     \* the users whose SharedFuture is Valid
    upc,      \* where a user is in Get
    at,       \* the callback that a thread runs, or that a user waits on
    kind,     \* of a callback that is in use
    stage,    \* of a callback
    stored,   \* what Store has put into _result (history)
    seen      \* what a callback, or a user's Get, has received (history)

core == <<word, slot, refs>>
setter == <<spc, todo>>
vars == <<core, setter, held, upc, at, kind, stage, stored, seen>>

SetterStates == {"promise",  \* has the promise
                 "stored",   \* has stored the result
                 "walk",     \* runs the callbacks but the last
                 "last",     \* has given up the first reference
                 "drop",     \* has run the last callback
                 "drop1",    \* has given up the second reference
                 "done"}

UserStates == {"idle",
               "wait",   \* on the event
               "got",    \* Wait has returned
               "copy",   \* Get() && has read a counter other than 1
               "move",   \* Get() && has read the counter 1
               "spent"}  \* Get() && has returned: the future is only destroyed

Stages == {"unused",
           "linked",    \* in word or todo
           "queued",    \* in an executor
           "reading",   \* its functor has a const& to the result
           "copying",   \* copies the result into another core
           "moving",    \* moves it there
           "adopting",  \* moves it there, and will release its source
           "done",
           "dropped"}   \* by the executor

\* Types; that refs stays a natural number means that DecRef is never called
\* on a core that has been destroyed.
TypeOK ==
    /\ word \in Seq(Callbacks) \cup {kResult}
    /\ slot \in Results \cup {None, Moved}
    /\ refs \in Nat
    /\ spc \in SetterStates
    /\ todo \in Seq(Callbacks)
    /\ held \subseteq Users
    /\ upc \in [Users -> UserStates]
    /\ at \in [Threads -> Callbacks \cup {None}]
    /\ kind \in [Callbacks -> AllKinds \cup {None}]
    /\ stage \in [Callbacks -> Stages]
    /\ stored \in Results \cup {None}
    /\ seen \in [Callbacks \cup Users -> Results \cup {None, Moved}]

-----------------------------------------------------------------------------
(* The references that are not a SharedFuture's.                           *)

\* MakeSharedContract, MakeSharedPromise: three references for the promise,
\* one for the future if there is one.
kSharedRefNoFuture == 3

Init ==
    /\ \E us \in SUBSET Users :
          /\ Cardinality(us) <= 1
          /\ held = us
          /\ refs = kSharedRefNoFuture + Cardinality(us)
    /\ word = <<>> /\ slot = None
    /\ spc = "promise" /\ todo = <<>>
    /\ upc = [u \in Users |-> "idle"]
    /\ at = [t \in Threads |-> None]
    /\ kind = [c \in Callbacks |-> None]
    /\ stage = [c \in Callbacks |-> "unused"]
    /\ stored = None
    /\ seen = [x \in Callbacks \cup Users |-> None]

-----------------------------------------------------------------------------
(* Running a callback.                                                     *)

Impl_MovesAtThree(ref) == IF ref > 3 THEN "copying" ELSE IF ref = 3 THEN "moving" ELSE "adopting"

\* What ResultCore::Impl makes of the counter it reads.
Impl(ref) == IF ref >= 3 THEN "copying" ELSE IF ref = 2 THEN "moving" ELSE "adopting"

\* callback->Here(core) in thread t, up to its first use of the result.  A
\* callback that can outlive the futures takes a reference.
Here(t, c, k) ==
    /\ stage' = [stage EXCEPT ![c] = CASE k \in {"inline", "async", "unwrap"} -> "reading"
                                       [] k = "call" -> "queued"
                                       [] k = "connect" -> Impl(refs)
                                       [] k = "event" -> "done"]
    /\ at' = [at EXCEPT ![t] = IF k \in {"call", "event"} THEN None ELSE c]
    /\ refs' = IF k \in {"call", "async"} THEN refs + 1 ELSE refs

\* The thread that runs c, if one does, goes on.
Return(c) == at' = [t \in Threads |-> IF at[t] = c THEN None ELSE at[t]]

\* The executor calls c: its functor gets a const& to the result.
Call(c) ==
    /\ stage[c] = "queued"
    /\ stage' = [stage EXCEPT ![c] = "reading"]
    /\ UNCHANGED <<core, setter, held, upc, at, kind, stored, seen>>

\* The executor drops c: its functor gets StopTag, and Done releases.
Drop(c) ==
    /\ stage[c] = "queued"
    /\ stage' = [stage EXCEPT ![c] = "dropped"]
    /\ refs' = refs - 1
    /\ UNCHANGED <<word, slot, setter, held, upc, at, kind, stored, seen>>

Done_KeepsAsyncRef(c) ==
    /\ stage[c] = "reading"
    /\ seen' = [seen EXCEPT ![c] = slot]
    /\ stage' = [stage EXCEPT ![c] = "done"]
    /\ refs' = IF kind[c] \in {"inline", "async"} THEN refs ELSE refs - 1
    /\ Return(c)
    /\ UNCHANGED <<word, slot, setter, held, upc, kind, stored>>

\* The functor of c has returned.  Done, or CallResolveAsync for a functor
\* that returned a future, releases the reference that the callback owns.
Done(c) ==
    /\ stage[c] = "reading"
    /\ seen' = [seen EXCEPT ![c] = slot]
    /\ stage' = [stage EXCEPT ![c] = "done"]
    /\ refs' = IF kind[c] = "inline" THEN refs ELSE refs - 1
    /\ Return(c)
    /\ UNCHANGED <<word, slot, setter, held, upc, kind, stored>>

\* Store of a connected promise's core, from what Impl has decided on, or
\* p.Set(f.Touch()) when the result was already there.
Transmit(c) ==
    /\ stage[c] \in {"copying", "moving", "adopting"}
    /\ seen' = [seen EXCEPT ![c] = slot]
    /\ slot' = IF stage[c] = "copying" THEN slot ELSE Moved
    /\ refs' = IF stage[c] = "adopting" THEN refs - 1 ELSE refs
    /\ stage' = [stage EXCEPT ![c] = "done"]
    /\ Return(c)
    /\ UNCHANGED <<word, setter, held, upc, kind, stored>>

-----------------------------------------------------------------------------
(* The promise.                                                            *)

\* Connect(SharedPromise&, p) and Share(promise): there is no result yet.
ConnectPromise(c) ==
    /\ spc = "promise" /\ stage[c] = "unused" /\ "connect" \in Kinds
    /\ word' = <<c>> \o word
    /\ kind' = [kind EXCEPT ![c] = "connect"]
    /\ stage' = [stage EXCEPT ![c] = "linked"]
    /\ UNCHANGED <<slot, refs, setter, held, upc, at, stored, seen>>

\* Split(promise): a SharedFuture for user u.
Split(u) ==
    /\ spc = "promise" /\ u \notin held /\ upc[u] = "idle"
    /\ held' = held \cup {u}
    /\ refs' = refs + 1
    /\ UNCHANGED <<word, slot, setter, upc, at, kind, stage, stored, seen>>

\* SharedPromise::Set, ~SharedPromise with StopTag; the end of the callback
\* whose result a RunShared core is; Here of a core that Split connects.
Store(r) ==
    /\ spc = "promise"
    /\ slot' = r /\ stored' = r
    /\ spc' = "stored"
    /\ UNCHANGED <<word, refs, todo, held, upc, at, kind, stage, seen>>

\* The exchange of SetResultImpl.
SetResult ==
    /\ spc = "stored"
    /\ todo' = word /\ word' = kResult
    /\ spc' = "walk"
    /\ UNCHANGED <<slot, refs, held, upc, at, kind, stage, stored, seen>>

\* while (next = head->next) Loop(this, head): all callbacks but the last.
WalkNext ==
    /\ spc = "walk" /\ at[Setter] = None /\ Len(todo) > 1
    /\ Here(Setter, Head(todo), kind[Head(todo)])
    /\ todo' = Tail(todo)
    /\ UNCHANGED <<word, slot, spc, held, upc, kind, stored, seen>>

\* The first DecRef.
DecRefFirst ==
    /\ spc = "walk" /\ at[Setter] = None /\ Len(todo) <= 1
    /\ refs' = refs - 1
    /\ spc' = IF todo = <<>> THEN "drop" ELSE "last"
    /\ UNCHANGED <<word, slot, todo, held, upc, at, kind, stage, stored, seen>>

\* The last callback: a connected core may find the counter 2 and move.
WalkLast ==
    /\ spc = "last"
    /\ Here(Setter, Head(todo), kind[Head(todo)])
    /\ todo' = <<>>
    /\ spc' = "drop"
    /\ UNCHANGED <<word, slot, held, upc, kind, stored, seen>>

\* The two DecRefs after it.
DecRef ==
    /\ \/ spc = "drop" /\ at[Setter] = None /\ spc' = "drop1"
       \/ spc = "drop1" /\ spc' = "done"
    /\ refs' = refs - 1
    /\ UNCHANGED <<word, slot, todo, held, upc, at, kind, stage, stored, seen>>

-----------------------------------------------------------------------------
(* The futures.                                                            *)

\* A thread with a valid future that is not in a call.
Free(u) == u \in held /\ upc[u] = "idle" /\ at[u] = None

\* u copies its SharedFuture for v.
Copy(u, v) ==
    /\ Free(u) /\ v \notin held /\ upc[v] = "idle"
    /\ held' = held \cup {v}
    /\ refs' = refs + 1
    /\ UNCHANGED <<word, slot, setter, upc, at, kind, stage, stored, seen>>

\* ~SharedFuture, Detach.
Release(u) ==
    /\ u \in held /\ upc[u] \in {"idle", "spent"} /\ at[u] = None
    /\ held' = held \ {u}
    /\ upc' = [upc EXCEPT ![u] = "idle"]
    /\ refs' = refs - 1
    /\ UNCHANGED <<word, slot, setter, at, kind, stage, stored, seen>>

SetCallback_LosesList(c) ==
    /\ word # kResult
    /\ word' = <<c>>
    /\ stage' = [stage EXCEPT ![c] = "linked"]

\* SetCallbackImpl<true> succeeds: c is linked in front of the list.
SetCallback(c) ==
    /\ word # kResult
    /\ word' = <<c>> \o word
    /\ stage' = [stage EXCEPT ![c] = "linked"]

\* Then, ThenInline, Subscribe, SubscribeInline: SetInline runs the callback
\* itself when the result is already there.
Attach(u, c, k) ==
    /\ Free(u) /\ stage[c] = "unused" /\ k \in Kinds \cap {"inline", "async", "call"}
    /\ kind' = [kind EXCEPT ![c] = k]
    /\ \/ SetCallback(c) /\ UNCHANGED <<refs, at>>
       \/ word = kResult /\ Here(u, c, k) /\ UNCHANGED word
    /\ UNCHANGED <<slot, setter, held, upc, stored, seen>>

\* CallResolveAsync got u's SharedFuture from a functor: the callback takes
\* over the future's reference and waits for the result.
Unwrap(u, c) ==
    /\ Free(u) /\ stage[c] = "unused" /\ "unwrap" \in Kinds
    /\ kind' = [kind EXCEPT ![c] = "unwrap"]
    /\ held' = held \ {u}
    /\ \/ SetCallback(c) /\ UNCHANGED <<refs, at>>
       \/ word = kResult /\ Here(u, c, "unwrap") /\ UNCHANGED word
    /\ UNCHANGED <<slot, setter, upc, stored, seen>>

\* Connect(f, p), Share(f): a late one copies the result through f.
Connect(u, c) ==
    /\ Free(u) /\ stage[c] = "unused" /\ "connect" \in Kinds
    /\ kind' = [kind EXCEPT ![c] = "connect"]
    /\ \/ SetCallback(c) /\ UNCHANGED at
       \/ /\ word = kResult
          /\ stage' = [stage EXCEPT ![c] = "copying"]
          /\ at' = [at EXCEPT ![u] = c]
          /\ UNCHANGED word
    /\ UNCHANGED <<slot, refs, setter, held, upc, stored, seen>>

\* Wait in Get: the event c, on the stack of u, is linked.
Wait(u, c) ==
    /\ Free(u) /\ stage[c] = "unused" /\ "event" \in Kinds
    /\ SetCallback(c)
    /\ kind' = [kind EXCEPT ![c] = "event"]
    /\ upc' = [upc EXCEPT ![u] = "wait"]
    /\ at' = [at EXCEPT ![u] = c]
    /\ UNCHANGED <<slot, refs, setter, held, stored, seen>>

\* Wait finds the result, or Touch is called after it.  The assertion in Touch asks
\* less: Ready() is true as soon as any callback is linked, and Touch then reads a
\* result that is not there (the defect that SharedAwait shows of co_await).  Who
\* calls it that early is outside of this module.
Touch(u) ==
    /\ Free(u) /\ word = kResult
    /\ upc' = [upc EXCEPT ![u] = "got"]
    /\ UNCHANGED <<core, setter, held, at, kind, stage, stored, seen>>

\* The event has been set.
WaitEnd(u) ==
    /\ upc[u] = "wait" /\ stage[at[u]] = "done"
    /\ upc' = [upc EXCEPT ![u] = "got"]
    /\ at' = [at EXCEPT ![u] = None]
    /\ UNCHANGED <<core, setter, held, kind, stage, stored, seen>>

\* Get() const& returns the result; the future can be used again.
GetConst(u) ==
    /\ upc[u] = "got"
    /\ seen' = [seen EXCEPT ![u] = slot]
    /\ upc' = [upc EXCEPT ![u] = "idle"]
    /\ UNCHANGED <<core, setter, held, at, kind, stage, stored>>

\* Get() &&, Touch() &&, Retire: is this the only reference?
GetRef(u) ==
    /\ upc[u] = "got"
    /\ upc' = [upc EXCEPT ![u] = IF refs = 1 THEN "move" ELSE "copy"]
    /\ UNCHANGED <<core, setter, held, at, kind, stage, stored, seen>>

\* ... then the result is moved, else it is copied.
Get(u) ==
    /\ upc[u] \in {"copy", "move"}
    /\ seen' = [seen EXCEPT ![u] = slot]
    /\ slot' = IF upc[u] = "move" THEN Moved ELSE slot
    /\ upc' = [upc EXCEPT ![u] = "spent"]
    /\ UNCHANGED <<word, refs, setter, held, at, kind, stage, stored>>

-----------------------------------------------------------------------------
RunCallback(c) == Call(c) \/ Drop(c) \/ Done(c) \/ Transmit(c)

SetterStep == SetResult \/ WalkNext \/ DecRefFirst \/ WalkLast \/ DecRef

Next ==
    \/ \E c \in Callbacks : RunCallback(c) \/ ConnectPromise(c)
    \/ \E r \in Results : Store(r)
    \/ SetterStep
    \/ \E u \in Users :
          \/ Split(u) \/ Release(u) \/ Touch(u) \/ WaitEnd(u)
          \/ GetConst(u) \/ GetRef(u) \/ Get(u)
          \/ \E v \in Users : Copy(u, v)
          \/ \E c \in Callbacks :
                \/ \E k \in Kinds : Attach(u, c, k)
                \/ Unwrap(u, c) \/ Connect(u, c) \/ Wait(u, c)

\* A SharedPromise is set or, in the end, destroyed; threads go on inside the
\* library's calls; functors return; executors call or drop what they hold.
Fairness ==
    /\ WF_vars(\E r \in Results : Store(r))
    /\ WF_vars(SetterStep)
    /\ \A c \in Callbacks : WF_vars(RunCallback(c))
    /\ \A u \in Users : WF_vars(WaitEnd(u))

Spec == Init /\ [][Next]_vars /\ Fairness

-----------------------------------------------------------------------------
(* Properties.                                                             *)

\* The references of the promise's thread.
SetterRefs == CASE spc \in {"promise", "stored", "walk"} -> 3
                [] spc \in {"last", "drop"} -> 2
                [] spc = "drop1" -> 1
                [] spc = "done" -> 0

\* The callbacks that own a reference.
Owners == {c \in Callbacks :
             \/ kind[c] = "unwrap" /\ stage[c] \in {"linked", "reading"}
             \/ kind[c] \in {"call", "async"} /\ stage[c] \in {"queued", "reading"}}

\* The counter is exactly the number of futures, of callbacks that took a
\* reference and of references that SetResultImpl still has to drop: nobody
\* uses a destroyed core, and the core is destroyed when the last one leaves.
RefsAccounted == refs = Cardinality(held) + SetterRefs + Cardinality(Owners)

\* Whoever gets the result gets what was stored.  Nobody reads _result before
\* Store, and the move that the counter licenses (ResultCore::Impl with 2, Get
\* and Retire with 1) takes the result away from no reader and no future.
ResultIntact ==
    /\ \A x \in DOMAIN seen : seen[x] # None => seen[x] = stored
    /\ \A c \in Callbacks :
          stage[c] \in {"reading", "copying", "moving"} => slot \in Results /\ slot = stored
    /\ \A u \in held : word = kResult /\ upc[u] # "spent" => slot \in Results

\* Every callback that SetCallbackImpl accepted runs, whatever is linked, copied
\* and released next to it, and a thread blocked in Get on a pending
\* SharedFuture returns.
EveryoneServed ==
    /\ \A c \in Callbacks : stage[c] = "linked" ~> stage[c] \in {"done", "dropped"}
    /\ \A u \in Users : upc[u] = "wait" ~> upc[u] # "wait"
=============================================================================
