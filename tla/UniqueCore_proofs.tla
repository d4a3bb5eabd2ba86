-------------------------- MODULE UniqueCore_proofs --------------------------
(***************************************************************************)
(* The safety of the pipeline of unique cores, for every length of the     *)
(* pipeline, every number of waits and every set of executors.             *)
(*                                                                         *)
(* The properties are not inductive: that nobody uses a freed core follows *)
(* from who is going to free it, and that is a fact about the race between *)
(* the two sides of _callback.  Inv describes that race.  A core below the *)
(* last one was consumed by its continuation (Link), the last core is what *)
(* the owner of the future makes of it (Last), and a core is in one of few *)
(* stages: the callback waits for the result, the thread that came second  *)
(* has both, or the callback has been run.                                 *)
(*                                                                         *)
(* The second part is about the combinators, which take such cores as      *)
(* their inputs.                                                           *)
(***************************************************************************)
EXTENDS UniqueCore, Integers, Sequences, FiniteSetTheorems, WellFoundedInduction, TLAPS

\* The continuation has been handed its caller and has not released it yet.
Running == {"here", "queued", "run", "dropped"}

\* A thread is inside WaitRange, with its event on the stack.
Waiting == {"timed", "timedout", "waiting", "getting"}

\* The callback that the owner of the future has put into the last core.
CallbackOf(f) ==
    IF f \in Waiting THEN "event"
    ELSE IF f = "attached" THEN "group"
    ELSE IF f = "gone" THEN "drop"
    ELSE "kEmpty"

\* Core i and its continuation, core i + 1.
Link(i) ==
    \/ /\ callback[i] = "next" /\ taken[i] = "kEmpty"
       /\ phase[i] \notin {"absent", "ready"} /\ phase[i + 1] = "wait"
       /\ alive[i]
    \/ /\ callback[i] = "kResult" /\ taken[i] = "next"
       /\ phase[i] = "ready" /\ phase[i + 1] = "wait"
       /\ alive[i]
    \/ /\ callback[i] = "kResult" /\ taken[i] = "kEmpty"
       /\ phase[i] = "ready" /\ phase[i + 1] \in Running
       /\ alive[i]
    \/ /\ callback[i] = "kResult" /\ taken[i] = "kEmpty"
       /\ phase[i] = "ready" /\ phase[i + 1] \in {"stored", "ready"}
       /\ ~alive[i]

\* The core whose future has not been continued.
Last ==
    \/ /\ callback[top] = CallbackOf(future) /\ taken[top] = "kEmpty"
       /\ phase[top] \notin {"absent", "ready"}
       /\ alive[top]
       /\ future # "got"
       /\ event = IF future \in Waiting THEN "armed" ELSE "none"
    \/ /\ callback[top] = "kResult" /\ taken[top] = CallbackOf(future)
       /\ taken[top] # "kEmpty"
       /\ phase[top] = "ready"
       /\ alive[top]
       /\ event = IF future \in Waiting THEN "armed" ELSE "none"
    \/ /\ callback[top] = "kResult" /\ taken[top] = "kEmpty"
       /\ phase[top] = "ready"
       /\ alive[top] <=> future # "gone"
       /\ event = IF future \in Waiting THEN "set" ELSE "none"

\* Cores that do not exist yet.
Above(i) == callback[i] = "kEmpty" /\ taken[i] = "kEmpty" /\ phase[i] = "absent"

\* What has been stored stays until the core is freed.
Stored(i) == phase[i] \in {"stored", "ready"} /\ alive[i] => slot[i] \in Results

\* How often CallImpl has run.
Resolved(i) ==
    /\ resolved[i] <= 1
    /\ phase[i] \notin {"stored", "ready"} => resolved[i] = 0

Links == \A i \in Cores : i < top => Link(i)
Aboves == \A i \in Cores : i > top => Above(i)
Storeds == \A i \in Cores : Stored(i)
Resolveds == \A i \in Cores : Resolved(i)
NotPremature == ~QueryAttached => ~premature

\* The inductive invariant.
Inv == TypeOK /\ Links /\ Last /\ Aboves /\ Storeds /\ Resolveds /\ NotPremature

-----------------------------------------------------------------------------
(***************************************************************************)
(* What Inv says about one core.                                           *)
(***************************************************************************)

\* A core that is not complete still has its callback in _callback, nobody has
\* taken it, and the core has not been freed.
LEMMA Incomplete ==
    ASSUME Inv, NEW i \in Cores, phase[i] \notin {"absent", "ready"}
    PROVE  /\ i <= top
           /\ callback[i] # "kResult"
           /\ taken[i] = "kEmpty"
           /\ alive[i]
BY BoundsAssumption DEF Inv, Cores, TypeOK, Links, Link, Last, Aboves, Above, CallbackOf

\* A core whose continuation is being resolved is complete and has not been
\* freed.
LEMMA Caller ==
    ASSUME Inv, NEW i \in Cores \ {0}, phase[i] \in Running
    PROVE  /\ i - 1 \in Cores /\ i - 1 < top /\ i <= top
           /\ phase[i - 1] = "ready"
           /\ callback[i - 1] = "kResult" /\ taken[i - 1] = "kEmpty"
           /\ alive[i - 1]
           /\ slot[i - 1] \in Results
<1>1. i - 1 \in Cores /\ i <= top /\ (i - 1) + 1 = i
  BY BoundsAssumption DEF Inv, Cores, TypeOK, Running, Aboves, Above
<1>2. i - 1 < top
  BY <1>1, BoundsAssumption DEF Inv, Cores, TypeOK
<1>3. Link(i - 1)
  BY <1>1, <1>2 DEF Inv, Links
<1>4. /\ phase[i - 1] = "ready" /\ callback[i - 1] = "kResult"
      /\ taken[i - 1] = "kEmpty" /\ alive[i - 1]
  BY <1>1, <1>3 DEF Link, Running
<1> QED
  BY <1>1, <1>2, <1>4 DEF Inv, Storeds, Stored

\* The thread that took a continuation finds it waiting.
LEMMA TakenNext ==
    ASSUME Inv, NEW i \in Cores, taken[i] = "next"
    PROVE  i + 1 \in Cores /\ i < top /\ phase[i + 1] = "wait"
BY BoundsAssumption DEF Inv, Cores, TypeOK, Links, Link, Last, Aboves, Above, CallbackOf

-----------------------------------------------------------------------------
(***************************************************************************)
(* Every action preserves Inv.                                             *)
(***************************************************************************)

\* Promise::Set and ~Promise store the result of core 0 and touch nothing else.
LEMMA PromiseSetInv ==
    ASSUME Inv, PromiseSet
    PROVE  Inv'
<1> USE BoundsAssumption DEF Cores, Inv, PromiseSet, coreVars, contVars, userVars
<1>1. TypeOK'
  BY DEF TypeOK, Slot, Phases, Actors
<1>2. Links'
  BY DEF Links, Link
<1>3. Last'
  BY DEF Last
<1>4. Aboves'
  BY DEF Aboves, Above
<1>5. Storeds'
  BY DEF TypeOK, Storeds, Stored
<1>6. Resolveds'
  BY DEF Resolveds, Resolved
<1>7. NotPremature'
  BY DEF NotPremature
<1> QED
  BY <1>1, <1>2, <1>3, <1>4, <1>5, <1>6, <1>7

\* The exchange of kResult takes the callback to the completing thread.
LEMMA SetResultInv ==
    ASSUME NEW i \in Cores, Inv, SetResult(i)
    PROVE  Inv'
<1> USE BoundsAssumption DEF Cores, Inv, SetResult, coreVars, contVars, userVars
<1>1. TypeOK'
  BY Incomplete DEF TypeOK, CallbackWord, Phases, Actors
<1>2. Links'
  BY DEF TypeOK, Links, Link, Running
<1>3. Last'
  BY DEF TypeOK, Last, CallbackOf
<1>4. Aboves'
  BY DEF Aboves, Above
<1>5. Storeds'
  BY DEF Storeds, Stored
<1>6. Resolveds'
  BY DEF Resolveds, Resolved
<1>7. NotPremature'
  BY DEF NotPremature
<1> QED
  BY <1>1, <1>2, <1>3, <1>4, <1>5, <1>6, <1>7

\* The continuation is handed its caller.
LEMMA StepNextInv ==
    ASSUME NEW i \in Cores, Inv, StepNext(i)
    PROVE  Inv'
<1> USE BoundsAssumption DEF Cores, Inv, StepNext, coreVars, contVars, userVars
<1>1. TypeOK'
  BY DEF TypeOK, Phases, Actors
<1>2. Links'
  BY DEF TypeOK, Links, Link, Last, Waiting, Running
<1>3. Last'
  BY DEF Links, Link, Last, CallbackOf
<1>4. Aboves'
  BY DEF TypeOK, Last, CallbackOf, Aboves, Above
<1>5. Storeds'
  BY DEF Storeds, Stored
<1>6. Resolveds'
  BY TakenNext DEF Resolveds, Resolved
<1>7. NotPremature'
  BY DEF NotPremature
<1> QED
  BY <1>1, <1>2, <1>3, <1>4, <1>5, <1>6, <1>7

\* Drop frees a core whose future is gone and that nobody else can reach.
LEMMA StepDropInv ==
    ASSUME NEW i \in Cores, Inv, StepDrop(i)
    PROVE  Inv'
<1> USE BoundsAssumption DEF Cores, Inv, StepDrop, DecRef, coreVars, contVars, userVars
<1>1. TypeOK'
  BY DEF TypeOK, Actors
<1>2. Links'
  BY DEF Links, Link
<1>3. Last'
  BY DEF TypeOK, Last, CallbackOf
<1>4. Aboves'
  BY DEF Aboves, Above
<1>5. Storeds'
  BY DEF Storeds, Stored
<1>6. (Resolveds /\ NotPremature)'
  BY DEF Resolveds, Resolved, NotPremature
<1> QED
  BY <1>1, <1>2, <1>3, <1>4, <1>5, <1>6

\* The event is set by the last access of the core to it.
LEMMA StepEventInv ==
    ASSUME NEW i \in Cores, Inv, StepEvent(i)
    PROVE  Inv'
<1> USE BoundsAssumption DEF Cores, Inv, StepEvent, coreVars, contVars, userVars
<1>1. TypeOK'
  BY DEF TypeOK, Actors
<1>2. Links'
  BY DEF Links, Link
<1>3. Last'
  BY DEF TypeOK, Links, Link, Last, CallbackOf, Waiting, Running, Aboves, Above
<1>4. Aboves'
  BY DEF Aboves, Above
<1>5. (Storeds /\ Resolveds /\ NotPremature)'
  BY DEF Storeds, Stored, Resolveds, Resolved, NotPremature
<1> QED
  BY <1>1, <1>2, <1>3, <1>4, <1>5

\* A WaitGroup counts the core and lets go of it.
LEMMA StepGroupInv ==
    ASSUME NEW i \in Cores, Inv, StepGroup(i)
    PROVE  Inv'
<1> USE BoundsAssumption DEF Cores, Inv, StepGroup, coreVars, contVars, userVars
<1>1. TypeOK'
  BY DEF TypeOK, Actors
<1>2. Links'
  BY DEF Links, Link
<1>3. Last'
  BY DEF Last, CallbackOf
<1>4. Aboves'
  BY DEF Aboves, Above
<1>5. (Storeds /\ Resolveds /\ NotPremature)'
  BY DEF Storeds, Stored, Resolveds, Resolved, NotPremature
<1> QED
  BY <1>1, <1>2, <1>3, <1>4, <1>5

\* A continuation remembers its caller and inherits its executor.
LEMMA HereInv ==
    ASSUME NEW j \in Cores \ {0}, Inv, Here(j)
    PROVE  Inv'
<1> USE BoundsAssumption DEF Cores, Inv, Here, TransferExecutorTo, coreVars, contVars, userVars
<1>1. TypeOK'
  <2>1. exec' \in [Cores -> Executors \cup {Null, "inline"}]
    <3>1. j - 1 \in Cores
      OBVIOUS
    <3> QED
      BY <3>1 DEF TypeOK
  <2>2. phase' \in [Cores -> Phases]
    BY DEF TypeOK, Phases
  <2>3. slot' \in [Cores -> Slot]
    BY DEF TypeOK, Slot
  <2> QED
    BY <2>1, <2>2, <2>3 DEF TypeOK
<1>2. Links'
  BY Caller DEF Links, Link, Running
<1>3. Last'
  BY DEF Last
<1>4. Aboves'
  BY DEF Aboves, Above
<1>5. Storeds'
  BY DEF Storeds, Stored
<1>6. Resolveds'
  BY DEF Resolveds, Resolved
<1>7. NotPremature'
  BY DEF NotPremature
<1> QED
  BY <1>1, <1>2, <1>3, <1>4, <1>5, <1>6, <1>7

\* The executor calls or drops the continuation.
LEMMA ExecutorRunInv ==
    ASSUME NEW j \in Cores \ {0}, Inv, ExecutorRun(j)
    PROVE  Inv'
<1> USE BoundsAssumption DEF Cores, Inv, ExecutorRun, coreVars, contVars, userVars
<1>1. TypeOK'
  <2>1. phase' \in [Cores -> Phases]
    BY DEF TypeOK, Phases
  <2>2. PICK w \in {"worker", by[j]} : by' = [by EXCEPT ![j] = w]
    OBVIOUS
  <2>3. by' \in [Cores -> Actors]
    BY <2>2 DEF TypeOK, Actors
  <2> QED
    BY <2>1, <2>3 DEF TypeOK
<1>2. Links'
  BY DEF TypeOK, Links, Link, Running
<1>3. Last'
  BY DEF TypeOK, Last
<1>4. Aboves'
  BY DEF TypeOK, Aboves, Above
<1>5. Storeds'
  BY DEF TypeOK, Storeds, Stored
<1>6. Resolveds'
  BY DEF TypeOK, Resolveds, Resolved
<1>7. NotPremature'
  BY DEF NotPremature
<1> QED
  BY <1>1, <1>2, <1>3, <1>4, <1>5, <1>6, <1>7

\* Core::Done stores the result and frees the caller, which nobody else can reach.
LEMMA CallImplInv ==
    ASSUME NEW j \in Cores \ {0}, Inv, CallImpl(j)
    PROVE  Inv'
<1> USE BoundsAssumption DEF Cores, Inv, CallImpl, DecRef, Argument, Invokes, Ok, coreVars,
                             contVars, userVars
<1>1. TypeOK'
  <2>1. slot' \in [Cores -> Slot]
    <3>1. Argument(j) \in Slot
      BY DEF TypeOK, Slot, Results
    <3>2. CASE Invokes(functor[j], Argument(j))
      BY <3>2 DEF TypeOK, Slot, Results
    <3>3. CASE ~Invokes(functor[j], Argument(j))
      <4> HIDE DEF Argument, Invokes
      <4>1. slot' = [slot EXCEPT ![j] = Argument(j), ![j - 1] = "moved"]
        BY <3>3
      <4> QED
        BY <3>1, <4>1 DEF TypeOK, Slot
    <3> QED
      BY <3>2, <3>3
  <2>2. resolved' \in [Cores -> Nat]
    BY DEF TypeOK
  <2> QED
    BY <2>1, <2>2 DEF TypeOK, Phases
<1>2. Links'
  BY DEF TypeOK, Links, Link
<1>3. Last'
  BY DEF TypeOK, Links, Link, Last, CallbackOf, Waiting, Running, Aboves, Above
<1>4. Aboves'
  BY DEF Aboves, Above
<1>5. Storeds'
  <2>1. Argument(j) \in Results
    BY Caller DEF Running, Results
  <2>2. slot'[j] \in Results
    BY <2>1, Caller DEF TypeOK, Results
  <2>3. \A i \in Cores : i # j /\ i # j - 1 =>
            slot'[i] = slot[i] /\ alive'[i] = alive[i] /\ phase'[i] = phase[i]
    BY DEF TypeOK
  <2>4. ~alive'[j - 1]
    BY Caller DEF TypeOK
  <2> QED
    BY <2>2, <2>3, <2>4 DEF Storeds, Stored
<1>6. Resolveds'
  <2>1. resolved[j] = 0
    BY DEF Resolveds, Resolved
  <2>2. /\ resolved' = [resolved EXCEPT ![j] = @ + 1]
        /\ phase' = [phase EXCEPT ![j] = "stored"]
    OBVIOUS
  <2> HIDE DEF CallImpl
  <2>3. resolved'[j] = 1 /\ phase'[j] = "stored"
    BY <2>1, <2>2 DEF TypeOK
  <2>4. \A i \in Cores : i # j => resolved'[i] = resolved[i] /\ phase'[i] = phase[i]
    BY <2>2 DEF TypeOK
  <2> QED
    BY <2>3, <2>4 DEF Resolveds, Resolved
<1>7. NotPremature'
  BY DEF NotPremature
<1> QED
  BY <1>1, <1>2, <1>3, <1>4, <1>5, <1>6, <1>7

\* Then and Detach(f): the last core gets a continuation, a new last core.
LEMMA ContinuationInv ==
    ASSUME NEW own, NEW after, <<own, after>> \in {<<"kEmpty", "idle">>, <<"drop", "gone">>},
           Inv, Continuation(own, after)
    PROVE  Inv'
<1> USE BoundsAssumption DEF Cores, Inv, Continuation, MakeCore, SetInline, Empty, coreVars,
                             contVars, userVars
<1>1. TypeOK'
  <2>1. PICK f \in Functors, c \in BOOLEAN, e \in Executors \cup {Null} : MakeCore(f, c, e)
    OBVIOUS
  <2>2. /\ functor' \in [Cores -> Functors \cup {NoFunctor}]
        /\ call' \in [Cores -> BOOLEAN]
        /\ exec' \in [Cores -> Executors \cup {Null, "inline"}]
        /\ given' \in [Cores -> Executors \cup {Null}]
    BY <2>1 DEF TypeOK
  <2>3. /\ alive' \in [Cores -> BOOLEAN]
        /\ phase' \in [Cores -> Phases]
        /\ slot' \in [Cores -> Slot]
        /\ resolved' \in [Cores -> Nat]
    BY <2>1 DEF TypeOK, Phases
  <2>4. callback' \in [Cores -> CallbackWord]
    BY DEF TypeOK, CallbackWord, Callbacks
  <2>5. taken' \in [Cores -> {"kEmpty"} \cup Callbacks] /\ by' \in [Cores -> Actors]
    BY DEF TypeOK, Callbacks, Actors
  <2>6. top' \in Cores /\ future' \in Futures
    BY DEF TypeOK, Futures
  <2> QED
    BY <2>2, <2>3, <2>4, <2>5, <2>6 DEF TypeOK
<1>2. Links'
  BY DEF TypeOK, Links, Link, Last, CallbackOf, Waiting
<1>3. Last'
  BY DEF TypeOK, Last, CallbackOf, Waiting, Aboves, Above
<1>4. Aboves'
  BY DEF TypeOK, Aboves, Above
<1>5. Storeds'
  BY DEF TypeOK, Storeds, Stored
<1>6. Resolveds'
  <2>1. /\ resolved' = resolved
        /\ \A i \in Cores : phase'[i] = IF i = top + 1 THEN "wait" ELSE phase[i]
    BY DEF TypeOK
  <2>2. top + 1 \in Cores => resolved[top + 1] = 0
    <3>1. top + 1 > top
      BY DEF TypeOK
    <3>2. top + 1 \in Cores => phase[top + 1] = "absent"
      BY <3>1 DEF Aboves, Above
    <3> QED
      BY <3>2 DEF Resolveds, Resolved
  <2> QED
    BY <2>1, <2>2 DEF Resolveds, Resolved
<1>7. NotPremature'
  BY DEF NotPremature
<1> QED
  BY <1>1, <1>2, <1>3, <1>4, <1>5, <1>6, <1>7

\* Detach() leaves the last core to Drop.
LEMMA DetachInv ==
    ASSUME Inv, Detach
    PROVE  Inv'
<1> USE BoundsAssumption DEF Cores, Inv, Detach, SetCallback, Empty, coreVars, contVars,
                             userVars
<1>1. TypeOK'
  BY DEF TypeOK, CallbackWord, Callbacks, Actors, Futures
<1>2. Links'
  BY DEF TypeOK, Links, Link
<1>3. Last'
  BY DEF TypeOK, Last, CallbackOf, Waiting
<1>4. Aboves'
  BY DEF TypeOK, Aboves, Above
<1>5. (Storeds /\ Resolveds /\ NotPremature)'
  BY DEF Storeds, Stored, Resolveds, Resolved, NotPremature
<1> QED
  BY <1>1, <1>2, <1>3, <1>4, <1>5

\* Wait, WaitFor and Get leave the event in a core without a result.
LEMMA WaitBeginInv ==
    ASSUME NEW waiting \in {"waiting", "timed", "getting"}, NEW ready \in {"idle", "got"}, Inv,
           WaitBegin(waiting, ready)
    PROVE  Inv'
<1> USE BoundsAssumption DEF Cores, Inv, WaitBegin, Empty, coreVars, contVars, userVars
<1>1. TypeOK'
  BY DEF TypeOK, CallbackWord, Callbacks, Futures
<1>2. Links'
  BY DEF TypeOK, Links, Link
<1>3. Last'
  BY DEF TypeOK, Last, CallbackOf, Waiting
<1>4. Aboves'
  BY DEF TypeOK, Aboves, Above
<1>5. (Storeds /\ Resolveds /\ NotPremature)'
  BY DEF Storeds, Stored, Resolveds, Resolved, NotPremature
<1> QED
  BY <1>1, <1>2, <1>3, <1>4, <1>5

\* WaitRange returns after its event was set.
LEMMA WaitEndInv ==
    ASSUME Inv, WaitEnd
    PROVE  Inv'
<1> USE BoundsAssumption DEF Cores, Inv, WaitEnd, coreVars, contVars, userVars
<1>1. TypeOK'
  BY DEF TypeOK, Futures
<1>2. Last'
  BY DEF Last, Waiting
<1>3. (Links /\ Aboves /\ Storeds /\ Resolveds /\ NotPremature)'
  BY DEF Links, Link, Aboves, Above, Storeds, Stored, Resolveds, Resolved, NotPremature
<1> QED
  BY <1>1, <1>2, <1>3

\* A wait that has timed out still has its event in the core.
LEMMA TimeoutInv ==
    ASSUME Inv, Timeout
    PROVE  Inv'
<1> USE BoundsAssumption DEF Cores, Inv, Timeout, coreVars, contVars, userVars
<1>1. TypeOK'
  BY DEF TypeOK, Futures
<1>2. Last'
  BY DEF Last, CallbackOf, Waiting
<1>3. (Links /\ Aboves /\ Storeds /\ Resolveds /\ NotPremature)'
  BY DEF Links, Link, Aboves, Above, Storeds, Stored, Resolveds, Resolved, NotPremature
<1> QED
  BY <1>1, <1>2, <1>3

\* Reset takes the event back, or waits for the thread that has it.
LEMMA ResetInv ==
    ASSUME Inv, Reset
    PROVE  Inv'
<1> USE BoundsAssumption DEF Cores, Inv, Reset, coreVars, contVars, userVars
<1>1. TypeOK'
  BY DEF TypeOK, CallbackWord, Futures
<1>2. Links'
  BY DEF TypeOK, Links, Link
<1>3. Last'
  BY DEF TypeOK, Last, CallbackOf, Waiting
<1>4. Aboves'
  BY DEF TypeOK, Aboves, Above
<1>5. (Storeds /\ Resolveds /\ NotPremature)'
  BY DEF Storeds, Stored, Resolveds, Resolved, NotPremature
<1> QED
  BY <1>1, <1>2, <1>3, <1>4, <1>5

\* Touch and Get move the result out and free the core.
LEMMA TakeResultInv ==
    ASSUME (future = "idle" /\ Ready(top)) \/ future = "got", Inv, TakeResult
    PROVE  Inv'
<1> USE BoundsAssumption DEF Cores, Inv, TakeResult, DecRef, Ready, Empty, coreVars, contVars,
                             userVars
<1>1. TypeOK'
  BY DEF TypeOK, Slot, Futures
<1>2. Links'
  BY DEF Links, Link
<1>3. Last'
  BY DEF TypeOK, Last, CallbackOf, Waiting
<1>4. Aboves'
  BY DEF Aboves, Above
<1>5. Storeds'
  BY DEF TypeOK, Storeds, Stored
<1>6. (Resolveds /\ NotPremature)'
  BY DEF Resolveds, Resolved, NotPremature
<1> QED
  BY <1>1, <1>2, <1>3, <1>4, <1>5, <1>6

\* A future attached to a WaitGroup keeps its core.
LEMMA GroupAttachInv ==
    ASSUME Inv, GroupAttach
    PROVE  Inv'
<1> USE BoundsAssumption DEF Cores, Inv, GroupAttach, Empty, coreVars, contVars, userVars
<1>1. TypeOK'
  BY DEF TypeOK, CallbackWord, Callbacks, Futures
<1>2. Links'
  BY DEF Links, Link
<1>3. Last'
  BY DEF TypeOK, Last, CallbackOf, Waiting
<1>4. Aboves'
  BY DEF Aboves, Above
<1>5. (Storeds /\ Resolveds /\ NotPremature)'
  BY DEF Storeds, Stored, Resolveds, Resolved, NotPremature
<1> QED
  BY <1>1, <1>2, <1>3, <1>4, <1>5

\* After WaitGroup::Wait the future is its owner's again.
LEMMA GroupWaitInv ==
    ASSUME Inv, GroupWait
    PROVE  Inv'
<1> USE BoundsAssumption DEF Cores, Inv, GroupWait, coreVars, contVars, userVars
<1>1. TypeOK'
  BY DEF TypeOK, Futures
<1>2. Last'
  BY DEF Last, CallbackOf, Waiting
<1>3. (Links /\ Aboves /\ Storeds /\ Resolveds /\ NotPremature)'
  BY DEF Links, Link, Aboves, Above, Storeds, Stored, Resolveds, Resolved, NotPremature
<1> QED
  BY <1>1, <1>2, <1>3

\* The answer of Ready() on a future outside a WaitGroup is right.
LEMMA AskReadyInv ==
    ASSUME Inv, AskReady
    PROVE  Inv'
<1> USE BoundsAssumption DEF Cores, Inv, AskReady, Ready, Empty, coreVars, contVars, userVars
<1>1. TypeOK'
  BY DEF TypeOK
<1>2. NotPremature'
  BY DEF NotPremature, TypeOK, Last, CallbackOf, Waiting, Storeds, Stored
<1>3. (Links /\ Last /\ Aboves /\ Storeds /\ Resolveds)'
  BY DEF Links, Link, Last, Aboves, Above, Storeds, Stored, Resolveds, Resolved
<1> QED
  BY <1>1, <1>2, <1>3

-----------------------------------------------------------------------------
(***************************************************************************)
(* The theorems.                                                           *)
(***************************************************************************)

\* A contract, or a future made ready, satisfies Inv.
LEMMA InitInv == Init => Inv
<1> SUFFICES ASSUME Init PROVE Inv
  OBVIOUS
<1> USE BoundsAssumption DEF Init, Cores
<1>1. TypeOK
  <2>1. callback \in [Cores -> CallbackWord]
    BY DEF CallbackWord
  <2>2. slot \in [Cores -> Slot]
    BY DEF Slot, Results
  <2>3. phase \in [Cores -> Phases]
    BY DEF Phases
  <2>4. alive \in [Cores -> BOOLEAN] /\ call \in [Cores -> BOOLEAN]
    BY Zenon
  <2>5. /\ exec \in [Cores -> Executors \cup {Null, "inline"}]
        /\ given \in [Cores -> Executors \cup {Null}]
    OBVIOUS
  <2>6. resolved \in [Cores -> Nat] /\ top \in Cores /\ waits \in 0 .. MaxWaits
    OBVIOUS
  <2> QED
    BY <2>1, <2>2, <2>3, <2>4, <2>5, <2>6 DEF TypeOK, Actors, Futures
<1>2. Last
  <2>1. CASE phase = [i \in Cores |-> IF i = 0 THEN "wait" ELSE "absent"]
                /\ callback = [i \in Cores |-> "kEmpty"]
    <3>1. 0 \in Cores
      OBVIOUS
    <3>2. callback[0] = "kEmpty" /\ taken[0] = "kEmpty" /\ phase[0] = "wait" /\ alive[0]
      BY <3>1, <2>1
    <3> HIDE DEF Init
    <3>3. top = 0 /\ future = "idle" /\ event = "none"
      BY DEF Init
    <3> QED
      BY <3>2, <3>3 DEF Last, CallbackOf, Waiting
  <2>2. CASE phase = [i \in Cores |-> IF i = 0 THEN "ready" ELSE "absent"]
                /\ callback = [i \in Cores |-> IF i = 0 THEN "kResult" ELSE "kEmpty"]
    <3>1. 0 \in Cores
      OBVIOUS
    <3>2. callback[0] = "kResult" /\ taken[0] = "kEmpty" /\ phase[0] = "ready" /\ alive[0]
      BY <3>1, <2>2
    <3> HIDE DEF Init
    <3>3. top = 0 /\ future = "idle" /\ event = "none"
      BY DEF Init
    <3> QED
      BY <3>2, <3>3 DEF Last, Waiting
  <2> QED
    BY <2>1, <2>2
<1>3. Links /\ Aboves
  BY DEF Links, Aboves, Above
<1>4. Storeds /\ Resolveds /\ NotPremature
  BY DEF Storeds, Stored, Results, Resolveds, Resolved, NotPremature
<1> QED
  BY <1>1, <1>2, <1>3, <1>4 DEF Inv

\* Every step preserves Inv, whichever thread takes it.
LEMMA NextInv == Inv /\ [Next]_vars => Inv'
<1> SUFFICES ASSUME Inv, [Next]_vars PROVE Inv'
  OBVIOUS
<1>1. CASE PromiseSet
  BY <1>1, PromiseSetInv
<1>2. ASSUME NEW i \in Cores, Complete(i) PROVE Inv'
  BY <1>2, SetResultInv, StepNextInv, StepDropInv, StepEventInv, StepGroupInv DEF Complete
<1>3. ASSUME NEW i \in Cores \ {0}, Continue(i) PROVE Inv'
  BY <1>3, HereInv, ExecutorRunInv, CallImplInv DEF Continue
<1>4. CASE Consumer
  <2>1. CASE Then \/ DetachWith
    BY <2>1, ContinuationInv DEF Then, DetachWith
  <2>2. CASE Wait \/ WaitFor \/ Get
    BY <2>2, WaitBeginInv DEF Wait, WaitFor, Get
  <2>3. CASE Touch \/ GetEnd
    BY <2>3, TakeResultInv DEF Touch, GetEnd
  <2> QED
    BY <1>4, <2>1, <2>2, <2>3, DetachInv, WaitEndInv, TimeoutInv, ResetInv, GroupAttachInv,
       GroupWaitInv, AskReadyInv
       DEF Consumer
<1>5. CASE UNCHANGED vars
  BY <1>5
     DEF vars, coreVars, contVars, userVars, Inv, TypeOK, Links, Link, Last, Aboves, Above,
         Storeds, Stored, Resolveds, Resolved, NotPremature
<1> QED
  BY <1>1, <1>2, <1>3, <1>4, <1>5 DEF Next, Terminating

\* Inv holds in every reachable state.
LEMMA Invariance == Spec => []Inv
BY InitInv, NextInv, PTL DEF Spec

\* Every variable keeps its type; in particular the exchange in SetResultImpl
\* never finds kResult, which is what its YACLIB_ASSERT checks.
THEOREM TypeCorrect == Spec => []TypeOK
<1>1. Inv => TypeOK
  BY DEF Inv
<1> QED
  BY <1>1, Invariance, PTL

\* No thread uses a core after its DecRef, however long the pipeline is.
THEOREM MemorySafety == Spec => []NoUseAfterFree
<1>1. Inv => NoUseAfterFree
  <2> SUFFICES ASSUME Inv, NEW i \in Cores, InUse(i) PROVE alive[i]
    BY DEF NoUseAfterFree
  <2>1. CASE phase[i] \in Phases \ {"absent", "ready"}
    BY <2>1, Incomplete
  <2>2. CASE taken[i] # "kEmpty"
    BY <2>2, BoundsAssumption DEF Inv, Cores, TypeOK, Links, Link, Last, Aboves, Above
  <2>3. CASE \E j \in Cores : j = i + 1 /\ phase[j] \in Running
    <3>1. PICK j \in Cores : j = i + 1 /\ phase[j] \in Running
      BY <2>3
    <3>2. j \in Cores \ {0} /\ j - 1 = i
      BY <3>1, BoundsAssumption DEF Cores
    <3> QED
      BY <3>1, <3>2, Caller
  <2>4. CASE i = top /\ future # "gone"
    BY <2>4 DEF Inv, Last
  <2> QED
    BY <2>1, <2>2, <2>3, <2>4 DEF InUse, Running
<1> QED
  BY <1>1, Invariance, PTL

\* A continuation and Get only ever see a result that was stored and not moved.
THEOREM ResultsAreStored == Spec => []ResultBeforeRead
<1>1. Inv => ResultBeforeRead
  <2> SUFFICES ASSUME Inv PROVE ResultBeforeRead
    OBVIOUS
  <2>1. \A i \in Cores \ {0} : phase[i] \in Running => slot[i - 1] \in Results
    BY Caller
  <2>2. top \in Cores
    BY DEF Inv, TypeOK
  <2>3. future = "got" => slot[top] \in Results
    BY <2>2 DEF Inv, Last, Storeds, Stored
  <2>4. future = "idle" /\ Ready(top) => slot[top] \in Results
    BY <2>2 DEF Inv, Last, CallbackOf, Waiting, Storeds, Stored, Ready, Empty
  <2> QED
    BY <2>1, <2>3, <2>4 DEF ResultBeforeRead, Running
<1> QED
  BY <1>1, Invariance, PTL

\* WaitRange does not return while a core can still reach its event.
THEOREM EventsAreSafe == Spec => []EventOutlivesCallback
<1>1. Inv => EventOutlivesCallback
  <2> SUFFICES ASSUME Inv, NEW i \in Cores, callback[i] = "event" \/ taken[i] = "event"
               PROVE  event = "armed"
    BY DEF EventOutlivesCallback
  <2>1. ~(i < top)
    BY DEF Inv, Links, Link
  <2>2. ~(i > top)
    BY DEF Inv, Aboves, Above
  <2>3. i = top
    BY <2>1, <2>2, BoundsAssumption DEF Inv, TypeOK, Cores
  <2> QED
    BY <2>3 DEF Inv, Last, CallbackOf
<1> QED
  BY <1>1, Invariance, PTL

\* A continuation is run or passed over at most once.
THEOREM NeverTwice == Spec => []ResolvedAtMostOnce
<1>1. Inv => ResolvedAtMostOnce
  BY DEF Inv, Resolveds, Resolved, ResolvedAtMostOnce
<1> QED
  BY <1>1, Invariance, PTL

\* Unless Ready() is asked of a future inside a WaitGroup, its answer is right.
THEOREM ReadyIsRight ==
    ASSUME ~QueryAttached
    PROVE  Spec => []ReadyMeansComputed
<1>1. Inv => ReadyMeansComputed
  BY DEF Inv, NotPremature, ReadyMeansComputed
<1> QED
  BY <1>1, Invariance, PTL

-----------------------------------------------------------------------------
(***************************************************************************)
(* Executors.                                                              *)
(***************************************************************************)

\* The executor of core i is the last one given at or before it.
Forced(i) ==
    \/ \E j \in 0 .. i : /\ given[j] # Null /\ exec[i] = given[j]
                         /\ \A k \in (j + 1) .. i : given[k] = Null
    \/ (\A j \in 0 .. i : given[j] = Null) /\ exec[i] = "inline"

\* A continuation that has not been reached has the executor it was given, and
\* a core keeps the one in force at least until its continuation takes it over.
Unreached == {"wait", "here"}
ExecState ==
    \A i \in Cores : i <= top =>
        /\ i # 0 /\ phase[i] \in Unreached => exec[i] = given[i]
        /\ (i = 0 \/ phase[i] \notin Unreached) /\ (i = top \/ phase[i + 1] \in Unreached)
              => Forced(i)

\* A step that neither reaches a continuation nor makes one.
LEMMA ExecStays ==
    ASSUME TypeOK, ExecState, UNCHANGED <<exec, given, top>>,
           \A i \in Cores \ {0} : phase'[i] \in Unreached <=> phase[i] \in Unreached
    PROVE  ExecState'
<1> SUFFICES ASSUME NEW i \in Cores, i <= top
             PROVE  /\ i # 0 /\ phase'[i] \in Unreached => exec'[i] = given'[i]
                    /\ (i = 0 \/ phase'[i] \notin Unreached)
                          /\ (i = top \/ phase'[i + 1] \in Unreached) => Forced(i)'
  BY DEF ExecState
<1>1. i = top \/ (i + 1 \in Cores \ {0})
  BY BoundsAssumption DEF Cores, TypeOK
<1>2. Forced(i)' <=> Forced(i)
  BY DEF Forced
<1> QED
  BY <1>1, <1>2 DEF ExecState

\* A continuation without an executor takes over its caller's.
LEMMA HereExec ==
    ASSUME Inv, ExecState, NEW j \in Cores \ {0}, Here(j)
    PROVE  ExecState'
<1>z. /\ phase[j] = "here" /\ TransferExecutorTo(j) /\ UNCHANGED <<given, top>>
      /\ phase' = [phase EXCEPT ![j] = IF call[j] THEN "queued" ELSE "run"]
  BY DEF Here, userVars
<1>1. /\ j - 1 \in Cores /\ j - 1 < top /\ j <= top /\ phase[j - 1] = "ready" /\ (j - 1) + 1 = j
      /\ j \in Nat /\ top \in Nat
  BY <1>z, Caller, BoundsAssumption DEF Running, Cores, Inv, TypeOK
<1>2. exec[j] = given[j] /\ Forced(j - 1)
  BY <1>z, <1>1 DEF ExecState, Unreached
<1>3. /\ phase'[j] \notin Unreached /\ \A i \in Cores : i # j => phase'[i] = phase[i]
  BY <1>z DEF Inv, TypeOK, Unreached
<1>4. /\ exec'[j] = IF exec[j] = Null THEN exec[j - 1] ELSE exec[j]
      /\ \A i \in Cores : i # j /\ i # j - 1 => exec'[i] = exec[i]
  BY <1>z, <1>1 DEF TransferExecutorTo, Inv, TypeOK
<1>5. Forced(j)'
  <2>1. CASE given[j] # Null
    <3>1. j \in 0 .. j /\ (j + 1) .. j = {}
      BY <1>1
    <3> QED
      BY <1>z, <1>2, <1>4, <2>1, <3>1 DEF Forced
  <2>2. CASE given[j] = Null
    <3>1. exec'[j] = exec[j - 1] /\ 0 .. j = (0 .. j - 1) \cup {j}
      BY <1>1, <1>2, <1>4, <2>2
    <3>2. CASE (\A k \in 0 .. j - 1 : given[k] = Null) /\ exec[j - 1] = "inline"
      BY <1>z, <2>2, <3>1, <3>2 DEF Forced
    <3>3. CASE \E k \in 0 .. j - 1 : /\ given[k] # Null /\ exec[j - 1] = given[k]
                                     /\ \A m \in (k + 1) .. j - 1 : given[m] = Null
      <4>1. PICK k \in 0 .. j - 1 : /\ given[k] # Null /\ exec[j - 1] = given[k]
                                    /\ \A m \in (k + 1) .. j - 1 : given[m] = Null
        BY <3>3
      <4>2. k \in 0 .. j /\ \A m \in (k + 1) .. j : m = j \/ m \in (k + 1) .. j - 1
        BY <1>1, <4>1
      <4> QED
        BY <1>z, <2>2, <3>1, <4>1, <4>2 DEF Forced
    <3> QED
      BY <1>2, <3>2, <3>3 DEF Forced
  <2> QED
    BY <2>1, <2>2
<1> SUFFICES ASSUME NEW i \in Cores, i <= top
             PROVE  /\ i # 0 /\ phase'[i] \in Unreached => exec'[i] = given'[i]
                    /\ (i = 0 \/ phase'[i] \notin Unreached)
                          /\ (i = top \/ phase'[i + 1] \in Unreached) => Forced(i)'
  BY <1>z DEF ExecState
<1>6. CASE i = j
  BY <1>3, <1>5, <1>6
<1>7. CASE i = j - 1
  BY <1>1, <1>3, <1>7 DEF Unreached
<1>8. CASE i # j /\ i # j - 1
  <2>1. i + 1 # j /\ (i = top \/ i + 1 \in Cores)
    BY <1>1, <1>8, BoundsAssumption DEF Cores, Inv, TypeOK
  <2>2. phase'[i] = phase[i] /\ exec'[i] = exec[i] /\ (i = top \/ phase'[i + 1] = phase[i + 1])
    BY <1>3, <1>4, <1>8, <2>1
  <2>3. Forced(i)' <=> Forced(i)
    BY <1>z, <2>2 DEF Forced
  <2> QED
    BY <1>z, <2>2, <2>3 DEF ExecState
<1> QED
  BY <1>6, <1>7, <1>8

\* A new continuation has the executor it was given.
LEMMA ContinuationExec ==
    ASSUME Inv, ExecState, NEW own, NEW after, Continuation(own, after)
    PROVE  ExecState'
<1>1. PICK e \in Executors \cup {Null} :
        /\ exec' = [exec EXCEPT ![top + 1] = e] /\ given' = [given EXCEPT ![top + 1] = e]
        /\ phase' = [phase EXCEPT ![top + 1] = "wait"]
  BY DEF Continuation, MakeCore
<1>2. top' = top + 1 /\ top \in Nat /\ top + 1 \in Cores
  BY BoundsAssumption DEF Continuation, Inv, TypeOK, Cores
<1>3. /\ exec'[top + 1] = e /\ given'[top + 1] = e /\ phase'[top + 1] = "wait"
      /\ \A i \in Cores : i # top + 1 =>
            exec'[i] = exec[i] /\ given'[i] = given[i] /\ phase'[i] = phase[i]
  BY <1>1, <1>2 DEF Inv, TypeOK
<1> SUFFICES ASSUME NEW i \in Cores, i <= top + 1
             PROVE  /\ i # 0 /\ phase'[i] \in Unreached => exec'[i] = given'[i]
                    /\ (i = 0 \/ phase'[i] \notin Unreached)
                          /\ (i = top + 1 \/ phase'[i + 1] \in Unreached) => Forced(i)'
  BY <1>2 DEF ExecState
<1>4. CASE i = top + 1
  BY <1>2, <1>3, <1>4 DEF Unreached
<1>5. CASE i # top + 1
  <2>1. i <= top /\ i \in Nat /\ i + 1 \in Cores /\ (i = top \/ i + 1 # top + 1)
    BY <1>2, <1>5, BoundsAssumption DEF Cores
  <2>2. \A k \in 0 .. i : k \in Cores /\ k # top + 1
    BY <1>2, <2>1, BoundsAssumption DEF Cores
  <2>3. exec'[i] = exec[i] /\ \A k \in 0 .. i : given'[k] = given[k]
    BY <1>3, <1>5, <2>2
  <2>4. Forced(i)' <=> Forced(i)
    <3>1. \A k \in 0 .. i : \A m \in (k + 1) .. i : m \in 0 .. i
      BY <2>1
    <3> QED
      BY <2>3, <3>1 DEF Forced
  <2>5. /\ i # 0 /\ phase[i] \in Unreached => exec[i] = given[i]
        /\ (i = 0 \/ phase[i] \notin Unreached) /\ (i = top \/ phase[i + 1] \in Unreached)
              => Forced(i)
    BY <2>1 DEF ExecState
  <2> QED
    BY <1>3, <1>5, <2>1, <2>4, <2>5
<1> QED
  BY <1>4, <1>5

\* Every step preserves ExecState.
LEMMA NextExec == Inv /\ ExecState /\ [Next]_vars => ExecState'
<1> SUFFICES ASSUME Inv, ExecState, [Next]_vars PROVE ExecState'
  OBVIOUS
<1>a. TypeOK
  BY DEF Inv
<1>1. CASE PromiseSet
  <2>1. UNCHANGED <<exec, given, top>> /\ phase' = [phase EXCEPT ![0] = "stored"]
    BY <1>1 DEF PromiseSet, contVars, userVars
  <2>2. \A i \in Cores \ {0} : phase'[i] = phase[i]
    BY <1>a, <2>1 DEF TypeOK
  <2> QED
    BY <1>a, <2>1, <2>2, ExecStays
<1>2. ASSUME NEW i \in Cores, Complete(i) PROVE ExecState'
  <2>1. UNCHANGED <<exec, given, top>>
    BY <1>2 DEF Complete, SetResult, StepNext, StepDrop, StepEvent, StepGroup, contVars, userVars
  <2>2. CASE SetResult(i)
    <3>1. \A k \in Cores : phase'[k] \in Unreached <=> phase[k] \in Unreached
      BY <1>a, <2>2 DEF SetResult, TypeOK, Unreached
    <3> QED
      BY <1>a, <2>1, <3>1, ExecStays
  <2>3. CASE StepNext(i)
    <3>1. i + 1 \in Cores /\ phase[i + 1] = "wait"
      BY <2>3, TakenNext DEF StepNext
    <3>2. \A k \in Cores : phase'[k] \in Unreached <=> phase[k] \in Unreached
      BY <1>a, <2>3, <3>1 DEF StepNext, TypeOK, Unreached
    <3> QED
      BY <1>a, <2>1, <3>2, ExecStays
  <2>4. CASE StepDrop(i) \/ StepEvent(i) \/ StepGroup(i)
    <3>1. phase' = phase
      BY <2>4 DEF StepDrop, StepEvent, StepGroup
    <3> QED
      BY <1>a, <2>1, <3>1, ExecStays
  <2> QED
    BY <1>2, <2>2, <2>3, <2>4 DEF Complete
<1>3. ASSUME NEW i \in Cores \ {0}, Continue(i) PROVE ExecState'
  <2>1. CASE Here(i)
    BY <2>1, HereExec
  <2>2. CASE ExecutorRun(i) \/ CallImpl(i)
    <3>1. UNCHANGED <<exec, given, top>>
      BY <2>2 DEF ExecutorRun, CallImpl, contVars, userVars
    <3>2. \A k \in Cores : phase'[k] \in Unreached <=> phase[k] \in Unreached
      BY <1>a, <2>2 DEF ExecutorRun, CallImpl, TypeOK, Unreached
    <3> QED
      BY <1>a, <3>1, <3>2, ExecStays
  <2> QED
    BY <1>3, <2>1, <2>2 DEF Continue
<1>4. CASE Consumer
  <2>1. CASE Then \/ DetachWith
    BY <2>1, ContinuationExec DEF Then, DetachWith
  <2>2. CASE ~(Then \/ DetachWith)
    <3>1. UNCHANGED <<exec, given, top, phase>>
      BY <1>4, <2>2
         DEF Consumer, Detach, Wait, WaitFor, Get, WaitBegin, WaitEnd, Timeout, Reset, Touch,
             GetEnd, TakeResult, GroupAttach, GroupWait, AskReady, coreVars, contVars
    <3> QED
      BY <1>a, <3>1, ExecStays
  <2> QED
    BY <2>1, <2>2
<1>5. CASE UNCHANGED vars
  <2>1. UNCHANGED <<exec, given, top, phase>>
    BY <1>5 DEF vars, coreVars, contVars, userVars
  <2> QED
    BY <1>a, <2>1, ExecStays
<1> QED
  BY <1>1, <1>2, <1>3, <1>4, <1>5 DEF Next, Terminating

\* A contract made on an executor has it, another one runs inline.
LEMMA InitExec == Init => ExecState
<1> SUFFICES ASSUME Init, NEW i \in Cores, i <= top PROVE Forced(i) /\ i = 0
  BY DEF ExecState
<1>1. i = 0 /\ 0 \in Cores /\ 0 .. 0 = {0} /\ 1 .. 0 = {}
  BY BoundsAssumption DEF Init, Cores
<1>2. PICK e \in Executors \cup {Null} :
        /\ exec = [k \in Cores |-> IF k = 0 /\ e # Null THEN e ELSE "inline"]
        /\ given = [k \in Cores |-> IF k = 0 THEN e ELSE Null]
  BY DEF Init
<1>3. given[0] = e /\ exec[0] = IF e # Null THEN e ELSE "inline"
  BY <1>1, <1>2
<1> QED
  BY <1>1, <1>3 DEF Forced

\* What the property calls the executor in force is what Forced describes.
LEMMA ForcedInForce ==
    ASSUME NEW i \in Cores, Forced(i)
    PROVE  exec[i] = InForce(i)
<1>1. CASE (\A j \in 0 .. i : given[j] = Null) /\ exec[i] = "inline"
  BY <1>1 DEF InForce
<1>2. ASSUME NEW j \in 0 .. i, given[j] # Null, exec[i] = given[j],
             \A k \in (j + 1) .. i : given[k] = Null
      PROVE  exec[i] = InForce(i)
  <2> DEFINE P(m) == given[m] # Null /\ \A k \in (m + 1) .. i : given[k] = Null
             c == CHOOSE m \in 0 .. i : P(m)
  <2>1. P(j)
    BY <1>2
  <2>2. c \in 0 .. i /\ P(c)
    <3> HIDE DEF P
    <3> QED
      BY <2>1
  <2>3. c = j
    <3>1. i \in Nat /\ j \in Nat /\ c \in Nat
      BY <2>2, BoundsAssumption DEF Cores
    <3>2. ~(c < j) /\ ~(j < c)
      <4> HIDE DEF c
      <4>1. c < j => j \in (c + 1) .. i
        BY <3>1
      <4>2. j < c => c \in (j + 1) .. i
        BY <2>2, <3>1
      <4> QED
        BY <1>2, <2>2, <4>1, <4>2
    <3> HIDE DEF c
    <3> QED
      BY <3>1, <3>2
  <2> QED
    BY <1>2, <2>3 DEF InForce
<1> QED
  BY <1>1, <1>2 DEF Forced

\* A continuation without an executor runs where its predecessor ran, through
\* any number of inline continuations.
THEOREM ExecutorsInherit == Spec => []ExecutorInherited
<1>1. Inv /\ ExecState => ExecutorInherited
  <2> SUFFICES ASSUME Inv, ExecState, NEW i \in Cores,
                      phase[i] \in {"queued", "run", "dropped", "stored"}
               PROVE  exec[i] = InForce(i)
    BY DEF ExecutorInherited
  <2>1. i <= top
    BY Incomplete
  <2>2. i = top \/ phase[i + 1] = "wait"
    <3>1. i < top => Link(i)
      BY DEF Inv, Links
    <3> QED
      BY <2>1, <3>1, BoundsAssumption DEF Link, Inv, TypeOK, Cores
  <2> QED
    BY <2>1, <2>2, ForcedInForce DEF ExecState, Unreached
<1>2. Inv /\ ExecState /\ [Next]_vars => (Inv /\ ExecState)'
  BY NextInv, NextExec
<1>3. Init => Inv /\ ExecState
  BY InitInv, InitExec
<1> QED
  BY <1>1, <1>2, <1>3, PTL DEF Spec
-----------------------------------------------------------------------------
(***************************************************************************)
(* When: the combinators over many cores.                                  *)
(*                                                                         *)
(* The lemmas below are about steps of a combinator alone.  Two arguments  *)
(* carry them.  References: the combinator has one for every input that is *)
(* not done (CombCount), and a core has one for every input that has not   *)
(* released it (CombCores); so that what is read is still there and has    *)
(* not been moved (CombValues).  And the word of the strategy: it is       *)
(* marked exactly when somebody has won the promise (CombWinner), and as   *)
(* long as nobody has, no input that is through with the word had a result *)
(* that the policy waits for (CombWord), so the destructor sets what the   *)
(* policy promises.                                                        *)
(***************************************************************************)
CONSTANTS MaxInputs, Strategies, Word, None
VARIABLES strategy, dynamic, n, dup, held, result, refs, moved, dispatch, at, val, pos, crefs,
          word, error, tuple, out

W == INSTANCE When

\* What the parameters of a call can be.
CombInput ==
    /\ strategy \in Strategies /\ n \in 0 .. MaxInputs /\ dup \subseteq W!Inputs
    /\ dynamic \in BOOLEAN /\ held \in BOOLEAN /\ (dup = {} => ~held)

CombTypes ==
    /\ CombInput
    /\ result \in [0 .. MaxInputs -> {None, "value", "error"}]
    /\ refs \in [0 .. MaxInputs -> Int] /\ moved \subseteq 0 .. MaxInputs /\ dispatch \in 0 .. 3
    /\ at \in [1 .. MaxInputs ->
                 {"waiting", "attached", "queued", "consume", "rmw", "act", "decref", "done"}]
    /\ DOMAIN val = 1 .. MaxInputs /\ DOMAIN tuple = 1 .. MaxInputs
    /\ pos \in 0 .. n + 1 /\ crefs \in Nat /\ word \in 0 .. Word - 1
    /\ error \in W!Inputs \cup {None}

\* Where an input is: its result has been read, and the word has been changed
\* or left alone because of it.
Consumed(i) == at[i] \in {"rmw", "act", "decref", "done"}
Decided(i) == at[i] \in {"act", "decref", "done"}

\* Set attaches the inputs in their order; an input is consumed when its core
\* has the result.
CombStages ==
    /\ pos = 0 => out = <<>> /\ word = 0 /\ crefs = 0
    /\ \A i \in W!Inputs :
         /\ i > pos => at[i] = "waiting"
         /\ i = pos => at[i] \in {"waiting", "consume", "rmw", "act", "decref"}
         /\ i < pos => at[i] # "waiting"
         /\ at[i] = "attached" => result[W!Core(i)] = None
         /\ at[i] = "queued" => i \in dup
         /\ at[i] \notin {"waiting", "attached"} => result[W!Core(i)] # None

\* The combinator has a reference for every input that is not done.
Pending == {i \in W!Inputs : at[i] # "done"}
CombCount == pos # 0 => crefs = Cardinality(Pending)
Destroyed == pos # 0 /\ crefs = 0

\* The references to a core: one for every input that has not released it, and
\* for the shared core those of its producer and of the user.
Released(i) == IF W!Owned THEN Destroyed ELSE Consumed(i)
Sharing == {i \in dup : ~Released(i)}
CombCores ==
    /\ \A c \in 1 .. MaxInputs :
         refs[c] = IF c \in W!Inputs \ dup /\ ~Released(c) THEN 1 ELSE 0
    /\ refs[0] = Cardinality(Sharing) + (IF dup # {} /\ result[0] = None THEN 3 ELSE dispatch)
                                      + (IF held THEN 1 ELSE 0)
    /\ result[0] = None => dispatch = 0
    /\ \A c \in moved : refs[c] = 0

\* What was read is the result.
CombValues ==
    \A i \in W!Inputs : Consumed(i) =>
      /\ val[i] = result[W!Core(i)]
      /\ W!Kind = "AllTuple" /\ (W!Fail = "None" \/ val[i] = "value") => tuple[i] = val[i]

AnyFirst == W!Kind = "Any" /\ W!Fail = "FirstFail"

\* Some input has won the promise.
Marked ==
    IF W!Fail = "LastFail" THEN pos # 0 /\ (W!Odd(word) \/ word = 0)
    ELSE IF AnyFirst THEN W!Odd(word)
    ELSE word = 1

\* An input that is about to set the promise.
Sets(i) == at[i] = "act" /\ ~(AnyFirst /\ val[i] = "error")

\* Whoever wins sets the promise, once; otherwise the destructor does.
CombWinner ==
    /\ \A i \in W!Inputs : Sets(i) => Marked /\ out = <<>>
    /\ \A i, j \in W!Inputs : Sets(i) /\ Sets(j) => i = j
    /\ Marked => out # <<>> \/ \E i \in W!Inputs : Sets(i)
    /\ out # <<>> => Marked \/ Destroyed

\* An input that leaves the promise to others did not decide the outcome.
Undecided == {i \in W!Inputs : ~Decided(i)}
CombWord ==
    /\ ~AnyFirst /\ W!Fail # "LastFail" => word \in {0, 1}
    /\ AnyFirst => word \in 0 .. 3
    /\ W!Fail = "LastFail" /\ pos # 0 /\ ~W!Odd(word) => word = 2 * Cardinality(Undecided)
    /\ \A i \in W!Inputs :
         /\ at[i] \in {"rmw", "act"} /\ W!Kind # "Any" => val[i] = "error" /\ W!Fail = "FirstFail"
         /\ Decided(i) /\ ~Marked =>
              /\ W!Kind = "Any" => val[i] = "error" /\ W!Fail # "None"
              /\ AnyFirst => word # 0
              /\ W!Kind # "Any" /\ W!Fail = "FirstFail" => val[i] = "value"
         /\ at[i] = "act" /\ val[i] = "error" /\ W!Fail = "LastFail" =>
              \A j \in W!Inputs : Decided(j) /\ val[j] = "error"

\* The error that WhenAny with FirstFail keeps.
CombError ==
    /\ AnyFirst /\ word \in {2, 3} =>
         error # None \/ \E i \in W!Inputs : at[i] = "act" /\ val[i] = "error"
    /\ error # None => at[error] \in {"decref", "done"} /\ val[error] = "error"

\* What the promise was set to.
CombOutput ==
    out # <<>> =>
      /\ out = <<out[1]>> /\ W!Allowed(out[1])
      /\ "of" \in DOMAIN out[1] =>
           "each" \notin DOMAIN out[1] /\ out[1].of \in W!Inputs /\ out[1].val # None

\* The inductive invariant of the combinators.
CombInv ==
    /\ CombTypes
    /\ CombStages
    /\ CombCount
    /\ CombCores
    /\ CombValues
    /\ CombWinner
    /\ CombWord
    /\ CombError
    /\ CombOutput

\* WhenAny of one future in a range: that future becomes the output.
PassedInv ==
    /\ CombInput /\ pos \in {0, 2} /\ crefs = 0 /\ moved = {} /\ dispatch = 0
    /\ result \in [0 .. MaxInputs -> {None, "value", "error"}]
    /\ refs \in [0 .. MaxInputs -> Nat]
    /\ DOMAIN at = 1 .. MaxInputs
    /\ at[1] \in IF pos = 0 THEN {"waiting"} ELSE {"passed", "done"}
    /\ IF at[1] = "done" THEN result[1] # None /\ out = <<[of |-> 1, val |-> result[1]]>>
                         ELSE out = <<>>

WhenInv == IF W!Passed THEN PassedInv ELSE CombInv

\* The operators of the libraries are the same in the combinators' module.
LEMMA CombLibrary ==
    /\ \A S : W!Cardinality(S) = Cardinality(S)
    /\ \A S : W!Max(S) = CHOOSE x \in S : \A y \in S : x >= y
<1>1. \A S : W!Cardinality(S) = Cardinality(S)
  BY DEF W!Cardinality, Cardinality
<1>2. \A S : W!Max(S) = CHOOSE x \in S : \A y \in S : x >= y
  BY Zenon DEF W!Max
<1> QED
  BY <1>1, <1>2

\* A set of inputs that is not empty has a largest one.
LEMMA LastOfInputs ==
    ASSUME NEW m \in Nat, NEW S, S \subseteq 1 .. m, S # {}
    PROVE  W!Max(S) \in S
<1> DEFINE T == {m - x : x \in S}
<1>1. T \subseteq Nat /\ T # {}
  <2>1. \A x \in S : m - x \in Nat
    OBVIOUS
  <2>2. PICK y : y \in S
    BY Zenon
  <2>3. m - y \in T
    BY <2>2
  <2> QED
    BY <2>1, <2>3
<1>2. PICK t \in T : \A u \in T : <<u, t>> \notin OpToRel(<, Nat)
  BY <1>1, WFMin, NatLessThanWellFounded, Zenon
<1>3. \A u \in T : ~(u < t)
  BY <1>1, <1>2, Zenon DEF OpToRel
<1>4. PICK x \in S : t = m - x
  OBVIOUS
<1>5. \A y \in S : x >= y
  <2>1. SUFFICES ASSUME NEW y \in S PROVE x >= y
    OBVIOUS
  <2>2. ~(m - y < m - x)
    BY <1>3, <1>4
  <2>3. x \in 1 .. m /\ y \in 1 .. m
    OBVIOUS
  <2> QED
    BY <2>2, <2>3
<1>6. \E z \in S : \A y \in S : z >= y
  BY <1>5
<1>7. (CHOOSE z \in S : \A y \in S : z >= y) \in S
  BY <1>6
<1> QED
  BY <1>7, CombLibrary

\* The strategies, by their name and their policy.
LEMMA CombKinds ==
    ASSUME W!ConstantsAssumption, CombInput
    PROVE  /\ W!Kind \in {"All", "AllTuple", "Join", "Any"}
           /\ W!Fail \in {"None", "FirstFail", "LastFail"}
           /\ W!Fail = "LastFail" => W!Kind = "Any"
           /\ W!NoneConsumed <=> W!Kind \in {"All", "Join"} /\ W!Fail = "None"
           /\ strategy = <<"AllTuple", "None">> <=> W!Kind = "AllTuple" /\ W!Fail = "None"
           /\ strategy = <<"Any", "None">> <=> W!Kind = "Any" /\ W!Fail = "None"
           /\ strategy = <<"Any", "FirstFail">> <=> AnyFirst
           /\ strategy = <<"Any", "LastFail">> <=> W!Fail = "LastFail"
BY DEF W!ConstantsAssumption, CombInput, W!Kind, W!Fail, W!NoneConsumed, AnyFirst

\* No step changes the parameters of the call.
LEMMA CombFixed ==
    ASSUME UNCHANGED W!input
    PROVE  /\ UNCHANGED <<strategy, dynamic, n, dup>>
           /\ W!Inputs' = W!Inputs /\ \A i : W!Core(i)' = W!Core(i)
           /\ W!Kind' = W!Kind /\ W!Fail' = W!Fail /\ (W!Owned' <=> W!Owned)
           /\ (AnyFirst' <=> AnyFirst) /\ (W!Passed' <=> W!Passed)
BY DEF W!input, W!Inputs, W!Core, W!Kind, W!Fail, W!Owned, AnyFirst, W!Passed

\* The inputs and their cores.
LEMMA CombDomains ==
    ASSUME W!ConstantsAssumption, CombInput
    PROVE  /\ MaxInputs \in Nat \ {0} /\ n \in 0 .. MaxInputs /\ W!Inputs = 1 .. n
           /\ W!Inputs \subseteq 1 .. MaxInputs /\ dup \subseteq W!Inputs
           /\ Word \in Nat /\ Word % 2 = 0 /\ Word > 2 * MaxInputs
           /\ None # "value" /\ None # "error" /\ None \notin Nat
           /\ \A i \in W!Inputs : /\ W!Core(i) \in 0 .. MaxInputs
                                  /\ i \in dup => W!Core(i) = 0
                                  /\ i \notin dup => W!Core(i) = i /\ W!Core(i) # 0
BY DEF W!ConstantsAssumption, CombInput, W!Inputs, W!Core

\* Sets of inputs are finite.
LEMMA CombFinite ==
    ASSUME W!ConstantsAssumption, CombInput
    PROVE  /\ IsFiniteSet(W!Inputs) /\ Cardinality(W!Inputs) = n
           /\ \A S \in SUBSET W!Inputs : /\ IsFiniteSet(S) /\ Cardinality(S) \in Nat
                                         /\ Cardinality(S) <= n
                                         /\ Cardinality(S) = 0 <=> S = {}
                                         /\ \A i \in S : Cardinality(S \ {i}) = Cardinality(S) - 1
<1>1. W!Inputs = 1 .. n /\ n \in Nat
  BY CombDomains
<1>2. IsFiniteSet(W!Inputs) /\ Cardinality(W!Inputs) = n
  BY <1>1, FS_Interval
<1>3. ASSUME NEW S \in SUBSET W!Inputs
      PROVE  /\ IsFiniteSet(S) /\ Cardinality(S) \in Nat /\ Cardinality(S) <= n
             /\ Cardinality(S) = 0 <=> S = {}
             /\ \A i \in S : Cardinality(S \ {i}) = Cardinality(S) - 1
  <2>1. IsFiniteSet(S) /\ Cardinality(S) <= n
    BY <1>2, FS_Subset
  <2>2. Cardinality(S) \in Nat /\ (Cardinality(S) = 0 <=> S = {})
    BY <2>1, FS_CardinalityType, FS_EmptySet
  <2>3. \A i \in S : Cardinality(S \ {i}) = Cardinality(S) - 1
    BY <2>1, FS_RemoveElement
  <2> QED
    BY <2>1, <2>2, <2>3
<1> QED
  BY <1>2, <1>3

\* A step that only lets results appear and inputs go on.
Ripens ==
    /\ UNCHANGED W!input
    /\ \A c \in 0 .. MaxInputs : result[c] # None => result'[c] = result[c]
    /\ \A i \in W!Inputs : at[i] \in {"decref", "done"} => at'[i] \in {"decref", "done"}

\* What the policy allows stays allowed.
LEMMA AllowedStays ==
    ASSUME W!ConstantsAssumption, CombInput, Ripens, NEW o, W!Allowed(o),
           "of" \in DOMAIN o => "each" \notin DOMAIN o /\ o.of \in W!Inputs /\ o.val # None
    PROVE  W!Allowed(o)'
<1>1. /\ W!Inputs' = W!Inputs /\ \A i : W!Core(i)' = W!Core(i)
      /\ W!Kind' = W!Kind /\ W!Fail' = W!Fail
  BY CombFixed DEF Ripens
<1>2. \A i \in W!Inputs : W!Core(i) \in 0 .. MaxInputs
  BY CombDomains
<1>3. \A i \in W!Inputs : result[W!Core(i)] # None => result'[W!Core(i)] = result[W!Core(i)]
  BY <1>2 DEF Ripens
<1>n. None # "error"
  BY CombDomains
<1>4. W!Completed = W!Inputs => /\ W!Completed' = W!Inputs'
                                /\ W!Failed' = W!Failed
                                /\ [i \in W!Inputs |-> result[W!Core(i)]]' = [i \in W!Inputs |-> result[W!Core(i)]]
  <2>1. SUFFICES ASSUME W!Completed = W!Inputs
                 PROVE  /\ W!Completed' = W!Inputs' /\ W!Failed' = W!Failed
                        /\ [i \in W!Inputs |-> result[W!Core(i)]]' = [i \in W!Inputs |-> result[W!Core(i)]]
    OBVIOUS
  <2>2. \A i \in W!Inputs : result[W!Core(i)] # None /\ result'[W!Core(i)] = result[W!Core(i)]
    BY <2>1, <1>3 DEF W!Completed
  <2>3. W!Completed' = W!Inputs'
    BY <2>2, <1>1 DEF W!Completed
  <2>4. W!Failed' = W!Failed
    BY <2>2, <1>1 DEF W!Failed
  <2> QED
    BY <2>2, <2>3, <2>4, <1>1
<1>5. W!Failed = W!Inputs => W!Failed' = W!Inputs'
  BY <1>1, <1>3, <1>n DEF W!Failed
<1>6. \A i \in W!Inputs : at[i] \in {"decref", "done"} => at'[i] \in {"decref", "done"}
  BY DEF Ripens
<1>7. CASE "each" \in DOMAIN o /\ W!Kind = "Join"
  <2>1. W!Completed = W!Inputs /\ (W!Fail = "None" \/ W!Failed = {})
    BY <1>7 DEF W!Allowed
  <2>2. W!Completed' = W!Inputs' /\ (W!Fail' = "None" \/ W!Failed' = {}) /\ W!Kind' = "Join"
    BY <2>1, <1>1, <1>4, <1>7
  <2> QED
    BY <2>2, <1>7 DEF W!Allowed
<1>8. CASE "each" \in DOMAIN o /\ W!Kind # "Join"
  <2>1. /\ o.each = [i \in W!Inputs |-> result[W!Core(i)]]
        /\ W!Completed = W!Inputs /\ (W!Fail = "None" \/ W!Failed = {})
    BY <1>8 DEF W!Allowed
  <2>2. W!Completed' = W!Inputs' /\ (W!Fail' = "None" \/ W!Failed' = {}) /\ W!Kind' # "Join"
    BY <2>1, <1>1, <1>4, <1>8
  <2>3. o.each = [i \in W!Inputs |-> result[W!Core(i)]]'
    BY <2>1, <1>4
  <2> QED
    BY <2>2, <2>3, <1>8 DEF W!Allowed
<1>9. CASE "each" \notin DOMAIN o /\ "of" \in DOMAIN o
  <2>1. /\ o.of \in W!Inputs /\ o.val # None /\ o.val = result[W!Core(o.of)]
        /\ W!Kind # "Any" => o.val = "error" /\ W!Fail = "FirstFail"
        /\ W!Kind = "Any" /\ W!Fail # "None" /\ o.val = "error" =>
             /\ W!Failed = W!Inputs
             /\ W!Fail = "LastFail" => \A i \in W!Inputs \ {o.of} : at[i] \in {"decref", "done"}
    BY <1>9 DEF W!Allowed
  <2>2. o.val = result'[W!Core(o.of)]
    BY <2>1, <1>3
  <2> QED
    BY <2>1, <2>2, <1>1, <1>5, <1>6, <1>9 DEF W!Allowed
<1> QED
  BY <1>7, <1>8, <1>9 DEF W!Allowed

\* So a promise that was set stays as the policy allows.
LEMMA OutputKept ==
    ASSUME W!ConstantsAssumption, CombInput, CombOutput, Ripens, out' = out
    PROVE  CombOutput'
<1>1. SUFFICES ASSUME out # <<>> PROVE CombOutput'
  BY DEF CombOutput
<1>2. W!Inputs' = W!Inputs
  BY CombFixed DEF Ripens
<1>3. W!Allowed(out[1])'
  <2> DEFINE o == out[1]
  <2>1. W!Allowed(o) /\ ("of" \in DOMAIN o => "each" \notin DOMAIN o /\ o.of \in W!Inputs /\ o.val # None)
    BY <1>1 DEF CombOutput
  <2> HIDE DEF o
  <2>2. ASSUME NEW p, p = o PROVE W!Allowed(p)'
    BY <2>1, <2>2, AllowedStays
  <2> QED
    BY <2>2 DEF o
<1> QED
  BY <1>1, <1>2, <1>3 DEF CombOutput

\* A step before Consume: it changes nothing of the strategy, and at most
\* how an input waits.
Fresh == {"waiting", "attached", "queued", "consume"}
Calm ==
    /\ Ripens
    /\ UNCHANGED <<val, word, error, tuple, out, crefs>>
    /\ pos' = 0 <=> pos = 0
    /\ \A i \in W!Inputs : at'[i] = at[i] \/ (at[i] \in Fresh /\ at'[i] \in Fresh)

\* Such a step keeps whatever is about the strategy and the promise.
LEMMA CombCalm ==
    ASSUME W!ConstantsAssumption, CombInv, Calm
    PROVE  /\ CombCount' /\ CombValues' /\ CombWinner' /\ CombWord' /\ CombError' /\ CombOutput'
           /\ \A i \in W!Inputs : Released(i)' <=> Released(i)
<1>f. /\ UNCHANGED <<strategy, dynamic, n, dup>>
      /\ W!Inputs' = W!Inputs /\ \A i : W!Core(i)' = W!Core(i)
      /\ W!Kind' = W!Kind /\ W!Fail' = W!Fail /\ (W!Owned' <=> W!Owned) /\ (AnyFirst' <=> AnyFirst)
  BY CombFixed DEF Calm, Ripens
<1>d. /\ \A i \in W!Inputs : W!Core(i) \in 0 .. MaxInputs
      /\ None \notin Nat
  BY CombDomains DEF CombInv, CombTypes
<1>u. UNCHANGED <<val, word, error, tuple, out, crefs>> /\ (pos' = 0 <=> pos = 0)
  BY DEF Calm
<1>a. \A i \in W!Inputs : /\ (Consumed(i)' <=> Consumed(i)) /\ (Decided(i)' <=> Decided(i))
                          /\ at'[i] = "done" <=> at[i] = "done"
                          /\ at'[i] = "act" <=> at[i] = "act"
                          /\ at'[i] = "rmw" <=> at[i] = "rmw"
                          /\ at'[i] = "decref" <=> at[i] = "decref"
  BY DEF Calm, Fresh, Consumed, Decided
<1>1. Pending' = Pending /\ Undecided' = Undecided
  BY <1>a, <1>f DEF Pending, Undecided
<1>2. CombCount' /\ (Destroyed' <=> Destroyed)
  BY <1>1, <1>u DEF CombInv, CombCount, Destroyed
<1>3. CombValues'
  <2>1. SUFFICES ASSUME NEW i \in W!Inputs, Consumed(i)
                 PROVE  /\ val[i] = result'[W!Core(i)]
                        /\ W!Kind = "AllTuple" /\ (W!Fail = "None" \/ val[i] = "value") => tuple[i] = val[i]
    BY <1>a, <1>f, <1>u DEF CombValues
  <2>2. /\ val[i] = result[W!Core(i)] /\ result[W!Core(i)] # None
        /\ W!Kind = "AllTuple" /\ (W!Fail = "None" \/ val[i] = "value") => tuple[i] = val[i]
    BY <2>1 DEF CombInv, CombValues, CombStages, Consumed
  <2> QED
    BY <2>2, <1>d DEF Calm, Ripens
<1>4. Marked' <=> Marked
  BY <1>f, <1>u DEF Marked, W!Odd
<1>5. \A i \in W!Inputs : Sets(i)' <=> Sets(i)
  BY <1>a, <1>f, <1>u DEF Sets
<1>6. CombWinner'
  BY <1>2, <1>4, <1>5, <1>f, <1>u DEF CombInv, CombWinner
<1>7. CombWord'
  <2>1. CombWord /\ (W!Odd(word)' <=> W!Odd(word))
    BY <1>u DEF CombInv, W!Odd
  <2> QED
    BY <2>1, <1>1, <1>4, <1>a, <1>f, <1>u DEF CombWord
<1>8. CombError'
  <2>1. CombError /\ (error = None \/ error \in W!Inputs)
    BY DEF CombInv, CombTypes
  <2> QED
    BY <2>1, <1>a, <1>f, <1>u DEF CombError
<1>9. CombOutput'
  BY <1>u, OutputKept DEF CombInv, CombTypes, Calm
<1>10. \A i \in W!Inputs : Released(i)' <=> Released(i)
  BY <1>2, <1>a, <1>f DEF Released
<1> QED
  BY <1>2, <1>3, <1>6, <1>7, <1>8, <1>9, <1>10

\* A step that changes no count of a core and releases none.
LEMMA CoresKept ==
    ASSUME W!ConstantsAssumption, CombInv, Ripens, UNCHANGED <<refs, moved, held, dispatch>>,
           result'[0] = None <=> result[0] = None,
           \A i \in W!Inputs : Released(i)' <=> Released(i)
    PROVE  CombCores'
<1>1. UNCHANGED <<n, dup>> /\ W!Inputs' = W!Inputs
  BY CombFixed DEF Ripens
<1>2. dup \subseteq W!Inputs
  BY DEF CombInv, CombTypes, CombInput
<1>3. Sharing' = Sharing
  BY <1>1, <1>2 DEF Sharing
<1> QED
  BY <1>1, <1>3 DEF CombInv, CombCores

\* The parameters of the call do not change, so their types do not.
LEMMA InputKept ==
    ASSUME CombInput, UNCHANGED W!input, held' \in BOOLEAN, held' => held
    PROVE  CombInput'
BY CombFixed DEF CombInput

\* When makes the combinator.
LEMMA CombCall ==
    ASSUME W!ConstantsAssumption, CombInv, ~W!Passed, W!Call
    PROVE  CombInv'
<1>z. /\ pos = 0 /\ n > 0 /\ pos' = 1 /\ crefs' = n /\ word' = W!Word0 /\ at' = at
      /\ UNCHANGED W!input
      /\ UNCHANGED <<result, refs, moved, held, dispatch, val, error, tuple, out>>
  BY DEF W!Call, W!cores, W!Refs0
<1>f. /\ UNCHANGED <<strategy, dynamic, n, dup>>
      /\ W!Inputs' = W!Inputs /\ \A i : W!Core(i)' = W!Core(i)
      /\ W!Kind' = W!Kind /\ W!Fail' = W!Fail /\ (W!Owned' <=> W!Owned) /\ (AnyFirst' <=> AnyFirst)
  BY <1>z, CombFixed
<1>d. /\ MaxInputs \in Nat /\ n \in 0 .. MaxInputs /\ W!Inputs = 1 .. n /\ Word > 2 * MaxInputs /\ Word \in Nat
      /\ dup \subseteq W!Inputs
  BY CombDomains DEF CombInv, CombTypes
<1>a. \A i \in W!Inputs : at[i] = "waiting"
  BY <1>z, <1>d DEF CombInv, CombStages
<1>b. \A i \in W!Inputs : ~Consumed(i) /\ ~Decided(i) /\ ~Sets(i) /\ ~Consumed(i)' /\ ~Decided(i)' /\ ~Sets(i)'
  BY <1>a, <1>f, <1>z DEF Consumed, Decided, Sets
<1>o. out = <<>>
  BY <1>z DEF CombInv, CombStages
<1>w. /\ W!Fail = "LastFail" => word' = 2 * n
      /\ W!Fail # "LastFail" => word' = 0
  BY <1>z DEF W!Word0
<1>1. CombTypes'
  <2>1. CombInput'
    BY <1>z, InputKept DEF CombInv, CombTypes, CombInput
  <2>2. pos' \in 0 .. n + 1 /\ crefs' \in Nat /\ word' \in 0 .. Word - 1
    BY <1>z, <1>w, <1>d
  <2> QED
    BY <2>1, <2>2, <1>z, <1>f DEF CombInv, CombTypes
<1>2. CombStages'
  <2>1. 1 \in Int /\ \A i \in W!Inputs : i \in Int /\ i >= 1
    BY <1>d
  <2> QED
    BY <2>1, <1>a, <1>f, <1>z DEF CombStages
<1>3. CombCount' /\ Pending' = W!Inputs
  <2>1. Pending' = W!Inputs
    BY <1>a, <1>f, <1>z DEF Pending
  <2>2. Cardinality(W!Inputs) = n
    BY CombFinite DEF CombInv, CombTypes
  <2> QED
    BY <2>1, <2>2, <1>z DEF CombCount
<1>4. CombCores'
  <2>1. ~Destroyed /\ ~Destroyed'
    BY <1>z, <1>f DEF Destroyed
  <2>2. \A i \in W!Inputs : Released(i)' <=> Released(i)
    BY <2>1, <1>b, <1>f DEF Released
  <2>3. Ripens
    BY <1>z DEF Ripens
  <2> QED
    BY <2>2, <2>3, <1>z, CoresKept
<1>5. CombValues'
  BY <1>b, <1>f DEF CombValues
<1>6. ~Marked'
  <2>1. ~((2 * n) % 2 = 1) /\ 2 * n # 0
    BY <1>d, <1>z
  <2>2. CASE W!Fail = "LastFail"
    BY <2>1, <2>2, <1>w, <1>f DEF Marked, W!Odd
  <2>3. CASE W!Fail # "LastFail"
    BY <2>3, <1>w, <1>f DEF Marked, W!Odd
  <2> QED
    BY <2>2, <2>3
<1>7. CombWinner'
  BY <1>6, <1>b, <1>f, <1>o, <1>z DEF CombWinner
<1>8. CombWord'
  <2>1. Undecided' = W!Inputs
    BY <1>b, <1>f DEF Undecided
  <2>2. Cardinality(W!Inputs) = n
    BY CombFinite DEF CombInv, CombTypes
  <2>3. \A i \in W!Inputs : at'[i] = "waiting"
    BY <1>a, <1>z
  <2> QED
    BY <2>1, <2>2, <2>3, <1>b, <1>f, <1>w DEF CombWord, AnyFirst
<1>9. CombError'
  <2>1. CombError /\ (error = None \/ error \in W!Inputs)
    BY DEF CombInv, CombTypes
  <2>2. ~(AnyFirst /\ word' \in {2, 3})
    BY <1>w DEF AnyFirst
  <2> QED
    BY <2>1, <2>2, <1>f, <1>z DEF CombError
<1>10. CombOutput'
  BY <1>o, <1>z DEF CombOutput
<1> QED
  BY <1>1, <1>2, <1>3, <1>4, <1>5, <1>7, <1>8, <1>9, <1>10 DEF CombInv

\* Set attaches the callback, or begins to consume the input itself.
LEMMA CombSetCore ==
    ASSUME W!ConstantsAssumption, CombInv, W!SetCore
    PROVE  CombInv'
<1>z. /\ pos \in W!Inputs /\ at[pos] = "waiting"
      /\ \/ result[W!Core(pos)] = None /\ at' = [at EXCEPT ![pos] = "attached"] /\ pos' = pos + 1
         \/ result[W!Core(pos)] # None /\ at' = [at EXCEPT ![pos] = "consume"] /\ pos' = pos
      /\ UNCHANGED W!input
      /\ UNCHANGED <<result, refs, moved, held, dispatch, val, crefs, word, error, tuple, out>>
  BY DEF W!SetCore, W!cores, W!state
<1>f. /\ UNCHANGED <<strategy, dynamic, n, dup>>
      /\ W!Inputs' = W!Inputs /\ \A i : W!Core(i)' = W!Core(i)
  BY <1>z, CombFixed
<1>d. /\ MaxInputs \in Nat /\ n \in 0 .. MaxInputs /\ W!Inputs = 1 .. n
      /\ \A i \in W!Inputs : i \in 1 .. MaxInputs
  BY CombDomains DEF CombInv, CombTypes
<1>t. /\ CombInput
      /\ at \in [1 .. MaxInputs ->
                   {"waiting", "attached", "queued", "consume", "rmw", "act", "decref", "done"}]
  BY DEF CombInv, CombTypes
<1>a. /\ \A j \in W!Inputs : j # pos => at'[j] = at[j]
      /\ at'[pos] \in {"attached", "consume"}
      /\ at' \in [1 .. MaxInputs ->
                   {"waiting", "attached", "queued", "consume", "rmw", "act", "decref", "done"}]
  BY <1>z, <1>d, <1>t
<1>1. CombTypes'
  <2>1. CombInput'
    BY <1>z, <1>t, InputKept DEF CombInput
  <2>2. pos' \in 0 .. n + 1
    BY <1>z, <1>d
  <2> QED
    BY <2>1, <2>2, <1>a, <1>z, <1>f DEF CombInv, CombTypes
<1>2. CombStages'
  <2>1. SUFFICES ASSUME NEW i \in W!Inputs
                 PROVE  /\ i > pos' => at'[i] = "waiting"
                        /\ i = pos' => at'[i] \in {"waiting", "consume", "rmw", "act", "decref"}
                        /\ i < pos' => at'[i] # "waiting"
                        /\ at'[i] = "attached" => result[W!Core(i)] = None
                        /\ at'[i] = "queued" => i \in dup
                        /\ at'[i] \notin {"waiting", "attached"} => result[W!Core(i)] # None
    <3>1. pos' # 0
      BY <1>z, <1>d
    <3> QED
      BY <3>1, <1>z, <1>f DEF CombStages
  <2>2. /\ i > pos => at[i] = "waiting"
        /\ i < pos => at[i] # "waiting"
        /\ at[i] = "attached" => result[W!Core(i)] = None
        /\ at[i] = "queued" => i \in dup
        /\ at[i] \notin {"waiting", "attached"} => result[W!Core(i)] # None
    BY DEF CombInv, CombStages
  <2>3. i \in Int /\ pos \in Int
    BY <1>d, <1>z
  <2>4. CASE result[W!Core(pos)] = None /\ at' = [at EXCEPT ![pos] = "attached"] /\ pos' = pos + 1
    <3>1. at'[pos] = "attached"
      BY <2>4, <1>d, <1>t, <1>z
    <3>2. CASE i = pos
      BY <2>4, <3>1, <3>2, <2>3
    <3>3. CASE i # pos
      BY <2>4, <3>3, <2>2, <2>3, <1>a
    <3> QED
      BY <3>2, <3>3
  <2>5. CASE result[W!Core(pos)] # None /\ at' = [at EXCEPT ![pos] = "consume"] /\ pos' = pos
    <3>1. at'[pos] = "consume"
      BY <2>5, <1>d, <1>t, <1>z
    <3>2. CASE i = pos
      BY <2>5, <3>1, <3>2, <2>3
    <3>3. CASE i # pos
      BY <2>5, <3>3, <2>2, <2>3, <1>a
    <3> QED
      BY <3>2, <3>3
  <2> QED
    BY <2>4, <2>5, <1>z
<1>3. Calm
  <2>1. \A i \in W!Inputs : at'[i] = at[i] \/ (at[i] \in Fresh /\ at'[i] \in Fresh)
    BY <1>a, <1>z DEF Fresh
  <2>2. Ripens
    BY <1>a, <1>z DEF Ripens
  <2>3. pos # 0 /\ pos' # 0
    BY <1>z, <1>d
  <2> QED
    BY <2>1, <2>2, <2>3, <1>z DEF Calm
<1>4. /\ CombCount' /\ CombValues' /\ CombWinner' /\ CombWord' /\ CombError' /\ CombOutput'
      /\ \A i \in W!Inputs : Released(i)' <=> Released(i)
  BY <1>3, CombCalm
<1>5. CombCores'
  BY <1>3, <1>4, <1>z, CoresKept DEF Calm
<1> QED
  BY <1>1, <1>2, <1>4, <1>5 DEF CombInv

\* Producers of unique cores.
LEMMA CombFulfilUnique ==
    ASSUME W!ConstantsAssumption, CombInv, NEW c \in W!Inputs, NEW r \in {"value", "error"},
           W!FulfilUnique(c, r)
    PROVE  CombInv'
<1>d. /\ MaxInputs \in Nat /\ n \in 0 .. MaxInputs /\ W!Inputs = 1 .. n
      /\ \A i \in W!Inputs : i \in 1 .. MaxInputs
      /\ None # "value" /\ None # "error"
      /\ \A i \in W!Inputs : /\ W!Core(i) \in 0 .. MaxInputs
                             /\ i \in dup => W!Core(i) = 0
                             /\ i \notin dup => W!Core(i) = i
  BY CombDomains DEF CombInv, CombTypes
<1>t. /\ CombInput
      /\ at \in [1 .. MaxInputs ->
                   {"waiting", "attached", "queued", "consume", "rmw", "act", "decref", "done"}]
      /\ result \in [0 .. MaxInputs -> {None, "value", "error"}]
  BY DEF CombInv, CombTypes
<1>c. c # 0 /\ result[c] = None /\ c \notin dup /\ W!Core(c) = c
  <2>1. c # 0 /\ W!Uses(c) > 0 /\ result[c] = None
    BY DEF W!FulfilUnique
  <2>2. \E i \in W!Inputs : W!Core(i) = c
    <3>1. SUFFICES ASSUME {i \in W!Inputs : W!Core(i) = c} = {} PROVE FALSE
      OBVIOUS
    <3>2. W!Uses(c) = 0
      BY <3>1, CombLibrary, FS_EmptySet DEF W!Uses
    <3> QED
      BY <3>2, <2>1
  <2> QED
    BY <2>1, <2>2, <1>d
<1>s. /\ \A i \in W!Inputs : /\ i > pos => at[i] = "waiting"
                             /\ i = pos => at[i] \in {"waiting", "consume", "rmw", "act", "decref"}
                             /\ i < pos => at[i] # "waiting"
                             /\ at[i] = "attached" => result[W!Core(i)] = None
                             /\ at[i] = "queued" => i \in dup
                             /\ at[i] \notin {"waiting", "attached"} => result[W!Core(i)] # None
      /\ pos = 0 => out = <<>> /\ word = 0 /\ crefs = 0
  BY DEF CombInv, CombStages
<1>w. at[c] \in {"waiting", "attached"}
  BY <1>c, <1>s
<1>z. /\ result' = [result EXCEPT ![c] = r]
      /\ at' = IF at[c] = "attached" THEN [at EXCEPT ![c] = "consume"] ELSE at
      /\ UNCHANGED W!input
      /\ UNCHANGED <<refs, moved, held, dispatch, val, pos, crefs, word, error, tuple, out>>
  BY <1>w DEF W!FulfilUnique, W!state
<1>f. /\ UNCHANGED <<strategy, dynamic, n, dup>>
      /\ W!Inputs' = W!Inputs /\ \A i : W!Core(i)' = W!Core(i)
  BY <1>z, CombFixed
<1>a. /\ \A j \in W!Inputs : j # c => at'[j] = at[j]
      /\ at'[c] = IF at[c] = "attached" THEN "consume" ELSE at[c]
      /\ at' \in [1 .. MaxInputs ->
                   {"waiting", "attached", "queued", "consume", "rmw", "act", "decref", "done"}]
      /\ result' \in [0 .. MaxInputs -> {None, "value", "error"}]
      /\ result'[c] = r /\ \A k \in 0 .. MaxInputs : k # c => result'[k] = result[k]
  <2>1. c \in 1 .. MaxInputs /\ c \in 0 .. MaxInputs
    BY <1>d
  <2> QED
    BY <2>1, <1>z, <1>d, <1>t
<1>1. CombTypes'
  <2>1. CombInput'
    BY <1>z, <1>t, InputKept DEF CombInput
  <2> QED
    BY <2>1, <1>a, <1>z, <1>f DEF CombInv, CombTypes
<1>2. CombStages'
  <2>1. SUFFICES ASSUME NEW i \in W!Inputs
                 PROVE  /\ i > pos => at'[i] = "waiting"
                        /\ i = pos => at'[i] \in {"waiting", "consume", "rmw", "act", "decref"}
                        /\ i < pos => at'[i] # "waiting"
                        /\ at'[i] = "attached" => result'[W!Core(i)] = None
                        /\ at'[i] = "queued" => i \in dup
                        /\ at'[i] \notin {"waiting", "attached"} => result'[W!Core(i)] # None
    BY <1>z, <1>f, <1>s DEF CombStages
  <2>2. CASE i = c
    <3>1. result'[W!Core(i)] # None
      BY <2>2, <1>a, <1>c, <1>d
    <3>2. i > pos => at[i] = "waiting"
      BY <1>s
    <3>3. i = pos => at[i] # "attached"
      BY <1>s
    <3>4. i < pos => at[i] # "waiting"
      BY <1>s
    <3>5. i \in Int /\ pos \in Int
      BY <1>d DEF CombInv, CombTypes
    <3> QED
      BY <2>2, <3>1, <3>2, <3>3, <3>4, <3>5, <1>a, <1>w
  <2>3. CASE i # c
    <3>1. W!Core(i) # c /\ W!Core(i) \in 0 .. MaxInputs
      BY <2>3, <1>c, <1>d
    <3>2. result'[W!Core(i)] = result[W!Core(i)] /\ at'[i] = at[i]
      BY <3>1, <2>3, <1>a
    <3> QED
      BY <3>2, <1>s
  <2> QED
    BY <2>2, <2>3
<1>3. Calm
  <2>1. \A i \in W!Inputs : at'[i] = at[i] \/ (at[i] \in Fresh /\ at'[i] \in Fresh)
    BY <1>a, <1>w DEF Fresh
  <2>2. Ripens
    <3>1. \A k \in 0 .. MaxInputs : result[k] # None => result'[k] = result[k]
      BY <1>a, <1>c
    <3>2. \A i \in W!Inputs : at[i] \in {"decref", "done"} => at'[i] \in {"decref", "done"}
      BY <1>a, <1>w
    <3> QED
      BY <3>1, <3>2, <1>z DEF Ripens
  <2> QED
    BY <2>1, <2>2, <1>z DEF Calm
<1>4. /\ CombCount' /\ CombValues' /\ CombWinner' /\ CombWord' /\ CombError' /\ CombOutput'
      /\ \A i \in W!Inputs : Released(i)' <=> Released(i)
  BY <1>3, CombCalm
<1>5. CombCores'
  <2>1. result'[0] = result[0]
    BY <1>a, <1>c, <1>d
  <2> QED
    BY <2>1, <1>3, <1>4, <1>z, CoresKept DEF Calm
<1> QED
  BY <1>1, <1>2, <1>4, <1>5 DEF CombInv

\* The producer of the shared core.
LEMMA CombFulfilShared ==
    ASSUME W!ConstantsAssumption, CombInv, NEW r \in {"value", "error"}, W!FulfilShared(r)
    PROVE  CombInv'
<1>z. /\ dup # {} /\ result[0] = None /\ dispatch' = 3
      /\ result' = [result EXCEPT ![0] = r]
      /\ at' = [i \in DOMAIN at |-> IF i \in dup /\ at[i] = "attached" THEN "queued" ELSE at[i]]
      /\ UNCHANGED W!input
      /\ UNCHANGED <<refs, moved, held, val, pos, crefs, word, error, tuple, out>>
  BY DEF W!FulfilShared, W!state
<1>f. /\ UNCHANGED <<strategy, dynamic, n, dup>>
      /\ W!Inputs' = W!Inputs /\ \A i : W!Core(i)' = W!Core(i)
  BY <1>z, CombFixed
<1>d. /\ MaxInputs \in Nat /\ n \in 0 .. MaxInputs /\ W!Inputs = 1 .. n
      /\ \A i \in W!Inputs : i \in 1 .. MaxInputs
      /\ dup \subseteq W!Inputs /\ None # "value" /\ None # "error"
      /\ \A i \in W!Inputs : /\ W!Core(i) \in 0 .. MaxInputs
                             /\ i \in dup => W!Core(i) = 0
                             /\ i \notin dup => W!Core(i) # 0
  BY CombDomains DEF CombInv, CombTypes
<1>t. /\ CombInput
      /\ at \in [1 .. MaxInputs ->
                   {"waiting", "attached", "queued", "consume", "rmw", "act", "decref", "done"}]
      /\ result \in [0 .. MaxInputs -> {None, "value", "error"}]
  BY DEF CombInv, CombTypes
<1>a. /\ \A i \in W!Inputs : at'[i] = IF i \in dup /\ at[i] = "attached" THEN "queued" ELSE at[i]
      /\ at' \in [1 .. MaxInputs ->
                   {"waiting", "attached", "queued", "consume", "rmw", "act", "decref", "done"}]
      /\ result' \in [0 .. MaxInputs -> {None, "value", "error"}]
      /\ result'[0] = r /\ \A k \in 0 .. MaxInputs : k # 0 => result'[k] = result[k]
  BY <1>z, <1>d, <1>t
<1>s. /\ \A i \in W!Inputs : /\ i > pos => at[i] = "waiting"
                             /\ i = pos => at[i] \in {"waiting", "consume", "rmw", "act", "decref"}
                             /\ i < pos => at[i] # "waiting"
                             /\ at[i] = "attached" => result[W!Core(i)] = None
                             /\ at[i] = "queued" => i \in dup
                             /\ at[i] \notin {"waiting", "attached"} => result[W!Core(i)] # None
      /\ pos = 0 => out = <<>> /\ word = 0 /\ crefs = 0
  BY DEF CombInv, CombStages
<1>w. \A i \in dup : at[i] \in {"waiting", "attached"}
  BY <1>s, <1>d, <1>z
<1>1. CombTypes'
  <2>1. CombInput'
    BY <1>z, <1>t, InputKept DEF CombInput
  <2>2. dispatch' \in 0 .. 3
    BY <1>z
  <2> QED
    BY <2>1, <2>2, <1>a, <1>z, <1>f DEF CombInv, CombTypes
<1>2. CombStages'
  <2>1. SUFFICES ASSUME NEW i \in W!Inputs
                 PROVE  /\ i > pos => at'[i] = "waiting"
                        /\ i = pos => at'[i] \in {"waiting", "consume", "rmw", "act", "decref"}
                        /\ i < pos => at'[i] # "waiting"
                        /\ at'[i] = "attached" => result'[W!Core(i)] = None
                        /\ at'[i] = "queued" => i \in dup
                        /\ at'[i] \notin {"waiting", "attached"} => result'[W!Core(i)] # None
    BY <1>z, <1>f, <1>s DEF CombStages
  <2>2. CASE i \in dup
    <3>1. result'[W!Core(i)] # None
      BY <2>2, <1>a, <1>d
    <3>2. at'[i] = IF at[i] = "attached" THEN "queued" ELSE at[i]
      BY <2>2, <1>a
    <3>3. /\ i > pos => at[i] = "waiting"
          /\ i = pos => at[i] # "attached"
          /\ i < pos => at[i] # "waiting"
      BY <1>s
    <3>4. at[i] \in {"waiting", "attached"} /\ i \in Int /\ pos \in Int
      BY <2>2, <1>w, <1>d DEF CombInv, CombTypes
    <3> QED
      BY <2>2, <3>1, <3>2, <3>3, <3>4
  <2>3. CASE i \notin dup
    <3>1. W!Core(i) # 0 /\ W!Core(i) \in 0 .. MaxInputs
      BY <2>3, <1>d
    <3>2. result'[W!Core(i)] = result[W!Core(i)] /\ at'[i] = at[i]
      BY <3>1, <2>3, <1>a
    <3> QED
      BY <3>2, <1>s
  <2> QED
    BY <2>2, <2>3
<1>3. Calm
  <2>1. \A i \in W!Inputs : at'[i] = at[i] \/ (at[i] \in Fresh /\ at'[i] \in Fresh)
    BY <1>a DEF Fresh
  <2>2. Ripens
    <3>1. \A k \in 0 .. MaxInputs : result[k] # None => result'[k] = result[k]
      BY <1>a, <1>z
    <3>2. \A i \in W!Inputs : at[i] \in {"decref", "done"} => at'[i] \in {"decref", "done"}
      BY <1>a
    <3> QED
      BY <3>1, <3>2, <1>z DEF Ripens
  <2> QED
    BY <2>1, <2>2, <1>z DEF Calm
<1>4. /\ CombCount' /\ CombValues' /\ CombWinner' /\ CombWord' /\ CombError' /\ CombOutput'
      /\ \A i \in W!Inputs : Released(i)' <=> Released(i)
  BY <1>3, CombCalm
<1>5. CombCores'
  <2>1. Sharing' = Sharing
    BY <1>4, <1>f, <1>d DEF Sharing
  <2>2. result'[0] # None
    BY <1>a, <1>d
  <2> QED
    BY <2>1, <2>2, <1>4, <1>f, <1>z DEF CombInv, CombCores
<1> QED
  BY <1>1, <1>2, <1>4, <1>5 DEF CombInv

\* The shared core calls its callbacks.
LEMMA CombDispatch ==
    ASSUME W!ConstantsAssumption, CombInv, W!Dispatch
    PROVE  CombInv'
<1> DEFINE queued == {i \in dup : at[i] = "queued"}
<1>d. /\ MaxInputs \in Nat /\ n \in 0 .. MaxInputs /\ W!Inputs = 1 .. n
      /\ W!Inputs \subseteq 1 .. MaxInputs /\ dup \subseteq W!Inputs
  BY CombDomains DEF CombInv, CombTypes
<1>t. /\ CombInput
      /\ at \in [1 .. MaxInputs ->
                   {"waiting", "attached", "queued", "consume", "rmw", "act", "decref", "done"}]
      /\ refs \in [0 .. MaxInputs -> Int] /\ dispatch \in 0 .. 3
  BY DEF CombInv, CombTypes
<1>y. PICK drop \in 0 .. 3 :
        /\ dispatch > 0 /\ drop <= dispatch
        /\ dispatch' = dispatch - drop
        /\ refs' = [refs EXCEPT ![0] = @ - drop]
        /\ at' = IF queued = {} THEN at ELSE [at EXCEPT ![W!Max(queued)] = "consume"]
        /\ UNCHANGED W!input
        /\ UNCHANGED <<result, moved, held, val, pos, crefs, word, error, tuple, out>>
  <2> DEFINE k == CASE queued = {} -> dispatch [] W!Cardinality(queued) = 1 -> 1 [] OTHER -> 0
  <2>1. /\ dispatch > 0 /\ dispatch' = dispatch - k
        /\ refs' = [refs EXCEPT ![0] = @ - k]
        /\ at' = IF queued = {} THEN at ELSE [at EXCEPT ![W!Max(queued)] = "consume"]
        /\ UNCHANGED W!input
        /\ UNCHANGED <<result, moved, held, val, pos, crefs, word, error, tuple, out>>
    BY DEF W!Dispatch, W!state
  <2>2. k \in 0 .. 3 /\ k <= dispatch
    <3>1. queued = {} => W!Cardinality(queued) # 1
      BY CombLibrary, FS_EmptySet
    <3> QED
      BY <3>1, <2>1, <1>t
  <2> QED
    BY <2>1, <2>2
<1>q. queued # {} => W!Max(queued) \in queued
  <2>1. queued \subseteq 1 .. MaxInputs
    BY <1>d
  <2> QED
    BY <2>1, <1>d, LastOfInputs
<1>f. /\ UNCHANGED <<strategy, dynamic, n, dup>>
      /\ W!Inputs' = W!Inputs /\ \A i : W!Core(i)' = W!Core(i)
  BY <1>y, CombFixed
<1>a. /\ \A i \in W!Inputs : at'[i] = at[i] \/ (at[i] = "queued" /\ at'[i] = "consume")
      /\ at' \in [1 .. MaxInputs ->
                   {"waiting", "attached", "queued", "consume", "rmw", "act", "decref", "done"}]
  <2>1. CASE queued = {}
    BY <2>1, <1>y, <1>t
  <2>2. CASE queued # {}
    <3>1. PICK q \in queued : at' = [at EXCEPT ![q] = "consume"]
      BY <2>2, <1>y, <1>q
    <3>2. q \in 1 .. MaxInputs /\ at[q] = "queued"
      BY <3>1, <1>d
    <3> QED
      BY <3>1, <3>2, <1>t, <1>d
  <2> QED
    BY <2>1, <2>2
<1>r. /\ refs' \in [0 .. MaxInputs -> Int] /\ refs'[0] = refs[0] - drop
      /\ \A c \in 1 .. MaxInputs : refs'[c] = refs[c]
  BY <1>y, <1>t, <1>d
<1>1. CombTypes'
  <2>1. CombInput'
    BY <1>y, <1>t, InputKept DEF CombInput
  <2>2. dispatch' \in 0 .. 3
    BY <1>y, <1>t
  <2> QED
    BY <2>1, <2>2, <1>a, <1>r, <1>y, <1>f DEF CombInv, CombTypes
<1>2. CombStages'
  <2>1. \A i \in W!Inputs : i \in Int
    BY <1>d
  <2> QED
    BY <2>1, <1>a, <1>y, <1>f DEF CombInv, CombStages
<1>3. Calm
  <2>1. \A i \in W!Inputs : at'[i] = at[i] \/ (at[i] \in Fresh /\ at'[i] \in Fresh)
    BY <1>a DEF Fresh
  <2>2. Ripens
    BY <1>a, <1>y DEF Ripens
  <2> QED
    BY <2>1, <2>2, <1>y DEF Calm
<1>4. /\ CombCount' /\ CombValues' /\ CombWinner' /\ CombWord' /\ CombError' /\ CombOutput'
      /\ \A i \in W!Inputs : Released(i)' <=> Released(i)
  BY <1>3, CombCalm
<1>5. CombCores'
  <2>1. Sharing' = Sharing
    BY <1>4, <1>f, <1>d DEF Sharing
  <2>2. result[0] # None
    BY <1>y DEF CombInv, CombCores
  <2>3. Cardinality(Sharing) \in Nat
    <3>1. Sharing \in SUBSET W!Inputs
      BY <1>d DEF Sharing
    <3> QED
      BY <3>1, <1>t, CombFinite
  <2>4. refs[0] = Cardinality(Sharing) + dispatch + (IF held THEN 1 ELSE 0)
    BY <2>2 DEF CombInv, CombCores
  <2>5. 0 \notin moved
    BY <2>3, <2>4, <1>y, <1>t DEF CombInv, CombCores
  <2>6. refs'[0] = Cardinality(Sharing) + dispatch' + (IF held THEN 1 ELSE 0)
    BY <2>3, <2>4, <1>r, <1>y, <1>t
  <2>7. \A c \in moved : c \in 1 .. MaxInputs /\ refs'[c] = 0
    BY <2>5, <1>r DEF CombInv, CombTypes, CombCores
  <2>8. \A c \in 1 .. MaxInputs :
          refs'[c] = IF c \in W!Inputs \ dup /\ ~Released(c)' THEN 1 ELSE 0
    BY <1>4, <1>r DEF CombInv, CombCores
  <2> QED
    BY <2>1, <2>2, <2>6, <2>7, <2>8, <1>y, <1>f DEF CombCores
<1> QED
  BY <1>1, <1>2, <1>4, <1>5 DEF CombInv

\* The user drops a copy.
LEMMA CombDropHandle ==
    ASSUME W!ConstantsAssumption, CombInv, W!DropHandle
    PROVE  CombInv'
<1>z. /\ held /\ held' = FALSE /\ refs' = [refs EXCEPT ![0] = @ - 1]
      /\ UNCHANGED W!input
      /\ UNCHANGED <<result, moved, dispatch, at, val, pos, crefs, word, error, tuple, out>>
  BY DEF W!DropHandle, W!state
<1>f. /\ UNCHANGED <<strategy, dynamic, n, dup>>
      /\ W!Inputs' = W!Inputs /\ \A i : W!Core(i)' = W!Core(i)
  BY <1>z, CombFixed
<1>d. MaxInputs \in Nat /\ dup \subseteq W!Inputs
  BY CombDomains DEF CombInv, CombTypes
<1>t. CombInput /\ refs \in [0 .. MaxInputs -> Int] /\ dispatch \in 0 .. 3
  BY DEF CombInv, CombTypes
<1>r. /\ refs' \in [0 .. MaxInputs -> Int] /\ refs'[0] = refs[0] - 1
      /\ \A c \in 1 .. MaxInputs : refs'[c] = refs[c]
  BY <1>z, <1>t, <1>d
<1>1. CombTypes'
  <2>1. CombInput'
    BY <1>z, <1>t, InputKept DEF CombInput
  <2> QED
    BY <2>1, <1>r, <1>z, <1>f DEF CombInv, CombTypes
<1>2. CombStages'
  BY <1>z, <1>f DEF CombInv, CombStages
<1>3. Calm
  <2>1. Ripens
    BY <1>z DEF Ripens
  <2> QED
    BY <2>1, <1>z DEF Calm
<1>4. /\ CombCount' /\ CombValues' /\ CombWinner' /\ CombWord' /\ CombError' /\ CombOutput'
      /\ \A i \in W!Inputs : Released(i)' <=> Released(i)
  BY <1>3, CombCalm
<1>5. CombCores'
  <2>1. Sharing' = Sharing
    BY <1>4, <1>f, <1>d DEF Sharing
  <2>3. Cardinality(Sharing) \in Nat
    <3>1. Sharing \in SUBSET W!Inputs
      BY <1>d DEF Sharing
    <3> QED
      BY <3>1, <1>t, CombFinite
  <2> DEFINE k == IF dup # {} /\ result[0] = None THEN 3 ELSE dispatch
  <2>4. refs[0] = Cardinality(Sharing) + k + 1 /\ k \in 0 .. 3
    BY <1>z, <1>t DEF CombInv, CombCores
  <2>5. 0 \notin moved
    BY <2>3, <2>4 DEF CombInv, CombCores
  <2>6. refs'[0] = Cardinality(Sharing) + k + 0
    BY <2>3, <2>4, <1>r
  <2>7. \A c \in moved : c \in 1 .. MaxInputs /\ refs'[c] = 0
    BY <2>5, <1>r DEF CombInv, CombTypes, CombCores
  <2>8. \A c \in 1 .. MaxInputs :
          refs'[c] = IF c \in W!Inputs \ dup /\ ~Released(c)' THEN 1 ELSE 0
    BY <1>4, <1>r DEF CombInv, CombCores
  <2>9. result[0] = None => dispatch = 0
    BY DEF CombInv, CombCores
  <2> QED
    BY <2>1, <2>6, <2>7, <2>8, <2>9, <1>z, <1>f DEF CombCores
<1> QED
  BY <1>1, <1>2, <1>4, <1>5 DEF CombInv

\* The combinator is there for an input that is on its way.
LEMMA CombThere ==
    ASSUME W!ConstantsAssumption, CombInv, NEW i \in W!Inputs, at[i] \notin {"waiting", "done"}
    PROVE  pos # 0 /\ crefs > 0 /\ ~Destroyed /\ result[W!Core(i)] \in {None, "value", "error"}
<1>1. /\ W!Inputs = 1 .. n /\ n \in Nat /\ i \in 1 .. n /\ W!Core(i) \in 0 .. MaxInputs
  BY CombDomains DEF CombInv, CombTypes
<1>2. pos # 0
  BY <1>1 DEF CombInv, CombStages
<1>3. i \in Pending /\ Pending \in SUBSET W!Inputs
  BY DEF Pending
<1>4. Cardinality(Pending) # 0 /\ Cardinality(Pending) \in Nat
  BY <1>3, CombFinite DEF CombInv, CombTypes
<1>5. crefs = Cardinality(Pending)
  BY <1>2 DEF CombInv, CombCount
<1>6. result[W!Core(i)] \in {None, "value", "error"}
  BY <1>1 DEF CombInv, CombTypes
<1> QED
  BY <1>2, <1>4, <1>5, <1>6 DEF Destroyed

\* A core that an input has not released is there with its result.
LEMMA CoreThere ==
    ASSUME W!ConstantsAssumption, CombInv, NEW i \in W!Inputs, ~Released(i)
    PROVE  /\ refs[W!Core(i)] > 0 /\ W!Core(i) \notin moved
           /\ W!Get(W!Core(i)) = result[W!Core(i)]
           /\ i \notin dup => refs[W!Core(i)] = 1
<1>d. /\ i \in 1 .. MaxInputs /\ dup \subseteq W!Inputs
      /\ i \in dup => W!Core(i) = 0
      /\ i \notin dup => W!Core(i) = i
  BY CombDomains DEF CombInv, CombTypes
<1>1. CASE i \notin dup
  <2>1. refs[i] = 1
    BY <1>1, <1>d DEF CombInv, CombCores
  <2> QED
    BY <2>1, <1>1, <1>d DEF CombInv, CombCores, W!Get
<1>2. CASE i \in dup
  <2>1. i \in Sharing /\ Sharing \in SUBSET W!Inputs
    BY <1>2, <1>d DEF Sharing
  <2>2. Cardinality(Sharing) # 0 /\ Cardinality(Sharing) \in Nat
    BY <2>1, CombFinite DEF CombInv, CombTypes
  <2>3. dispatch \in 0 .. 3
    BY DEF CombInv, CombTypes
  <2>4. refs[0] > 0
    BY <2>2, <2>3 DEF CombInv, CombCores
  <2> QED
    BY <2>4, <1>2, <1>d DEF CombInv, CombCores, W!Get
<1> QED
  BY <1>1, <1>2

\* One input takes a step inside Consume.
Inside(i, x) ==
    /\ at[i] \in {"consume", "rmw", "act"} /\ x \in {"rmw", "act", "decref"}
    /\ at' = [at EXCEPT ![i] = x]
    /\ UNCHANGED W!input /\ UNCHANGED <<result, held, dispatch, pos, crefs>>

\* Such a step keeps the stages of the inputs and the combinator.
LEMMA CombInside ==
    ASSUME W!ConstantsAssumption, CombInv, NEW i \in W!Inputs, NEW x, Inside(i, x)
    PROVE  /\ at' \in [1 .. MaxInputs ->
                   {"waiting", "attached", "queued", "consume", "rmw", "act", "decref", "done"}]
           /\ at'[i] = x /\ \A j \in W!Inputs : j # i => at'[j] = at[j]
           /\ CombInput' /\ Ripens /\ CombStages' /\ CombCount'
           /\ pos # 0 /\ crefs > 0 /\ ~Destroyed /\ ~Destroyed'
           /\ result[W!Core(i)] \in {"value", "error"} /\ result[W!Core(i)] # None
<1>f. W!Inputs' = W!Inputs /\ (\A k : W!Core(k)' = W!Core(k)) /\ dup' = dup
  BY CombFixed DEF Inside
<1>d. MaxInputs \in Nat /\ W!Inputs \subseteq 1 .. MaxInputs /\ W!Inputs = 1 .. n /\ n \in Nat
  BY CombDomains DEF CombInv, CombTypes
<1>t. /\ CombInput
      /\ at \in [1 .. MaxInputs ->
                   {"waiting", "attached", "queued", "consume", "rmw", "act", "decref", "done"}]
  BY DEF CombInv, CombTypes
<1>1. /\ at' \in [1 .. MaxInputs ->
                   {"waiting", "attached", "queued", "consume", "rmw", "act", "decref", "done"}]
      /\ at'[i] = x /\ \A j \in W!Inputs : j # i => at'[j] = at[j]
  <2>1. i \in 1 .. MaxInputs
    BY <1>d
  <2> QED
    BY <2>1, <1>d, <1>t DEF Inside
<1>2. CombInput'
  BY <1>t, InputKept DEF Inside, CombInput
<1>3. Ripens
  BY <1>1 DEF Ripens, Inside
<1>4. pos # 0 /\ crefs > 0 /\ ~Destroyed /\ result[W!Core(i)] \in {None, "value", "error"}
  BY CombThere DEF Inside
<1>5. result[W!Core(i)] # None
  BY DEF Inside, CombInv, CombStages
<1>6. CombStages'
  <2>1. SUFFICES ASSUME NEW j \in W!Inputs
                 PROVE  /\ j > pos => at'[j] = "waiting"
                        /\ j = pos => at'[j] \in {"waiting", "consume", "rmw", "act", "decref"}
                        /\ j < pos => at'[j] # "waiting"
                        /\ at'[j] = "attached" => result[W!Core(j)] = None
                        /\ at'[j] = "queued" => j \in dup
                        /\ at'[j] \notin {"waiting", "attached"} => result[W!Core(j)] # None
    BY <1>4, <1>f DEF CombStages, Inside
  <2>2. CASE j = i
    <3>1. ~(i > pos)
      BY DEF Inside, CombInv, CombStages
    <3> QED
      BY <2>2, <3>1, <1>1, <1>5 DEF Inside
  <2>3. CASE j # i
    BY <2>3, <1>1 DEF CombInv, CombStages
  <2> QED
    BY <2>2, <2>3
<1>7. Pending' = Pending
  BY <1>1, <1>f DEF Pending, Inside
<1>8. CombCount' /\ ~Destroyed'
  BY <1>7, <1>4 DEF CombInv, CombCount, Destroyed, Inside
<1> QED
  BY <1>1, <1>2, <1>3, <1>4, <1>5, <1>6, <1>8

\* Who leaves the word alone does not decide the outcome.
LEMMA Attention ==
    ASSUME W!ConstantsAssumption, CombInv, pos # 0, NEW v \in {"value", "error"}
    PROVE  /\ W!Interested(v) /\ W!Kind # "Any" => v = "error" /\ W!Fail = "FirstFail"
           /\ ~W!Interested(v) /\ ~Marked =>
                /\ W!Kind = "Any" => v = "error" /\ W!Fail # "None"
                /\ AnyFirst => word # 0
                /\ W!Kind # "Any" /\ W!Fail = "FirstFail" => v = "value"
           /\ W!Fail = "LastFail" /\ ~W!Odd(word) => W!Interested(v)
<1>1. /\ W!Kind \in {"All", "AllTuple", "Join", "Any"}
      /\ W!Fail \in {"None", "FirstFail", "LastFail"}
      /\ W!Fail = "LastFail" => W!Kind = "Any"
      /\ W!NoneConsumed <=> W!Kind \in {"All", "Join"} /\ W!Fail = "None"
      /\ strategy = <<"AllTuple", "None">> <=> W!Kind = "AllTuple" /\ W!Fail = "None"
      /\ strategy = <<"Any", "None">> <=> W!Kind = "Any" /\ W!Fail = "None"
      /\ strategy = <<"Any", "FirstFail">> <=> AnyFirst
      /\ strategy = <<"Any", "LastFail">> <=> W!Fail = "LastFail"
  BY CombKinds DEF CombInv, CombTypes
<1>2. ~AnyFirst /\ W!Fail # "LastFail" => word \in {0, 1}
  BY DEF CombInv, CombWord
<1>3. CASE W!Kind # "Any" /\ W!Fail = "None"
  BY <1>1, <1>3 DEF W!Interested, AnyFirst
<1>4. CASE W!Kind # "Any" /\ W!Fail = "FirstFail"
  <2>1. W!Interested(v) <=> v = "error" /\ word = 0
    BY <1>1, <1>4 DEF W!Interested, AnyFirst
  <2> QED
    BY <2>1, <1>1, <1>2, <1>4 DEF Marked, AnyFirst
<1>5. CASE W!Kind = "Any" /\ W!Fail = "None"
  <2>1. W!Interested(v) <=> word = 0
    BY <1>1, <1>5 DEF W!Interested, AnyFirst
  <2> QED
    BY <2>1, <1>1, <1>2, <1>5 DEF Marked, AnyFirst
<1>6. CASE AnyFirst
  <2>1. W!Interested(v) <=> IF v = "value" THEN ~W!Odd(word) ELSE word = 0
    BY <1>1, <1>6 DEF W!Interested, AnyFirst
  <2> QED
    BY <2>1, <1>1, <1>6 DEF Marked, AnyFirst
<1>7. CASE W!Fail = "LastFail"
  <2>1. W!Interested(v) <=> ~W!Odd(word)
    BY <1>1, <1>7 DEF W!Interested, AnyFirst
  <2> QED
    BY <2>1, <1>1, <1>7 DEF Marked, AnyFirst
<1> QED
  BY <1>1, <1>3, <1>4, <1>5, <1>6, <1>7 DEF AnyFirst

\* Consume reads the result and looks at the word.
LEMMA CombConsume ==
    ASSUME W!ConstantsAssumption, CombInv, NEW i \in W!Inputs, W!Consume(i)
    PROVE  CombInv'
<1>0. PICK c : c = W!Core(i)
  OBVIOUS
<1> DEFINE v == result[c]
           x == IF W!Interested(v) THEN "rmw" ELSE "decref"
<1>a. at[i] = "consume" /\ ~Released(i)
  <2>1. at[i] = "consume"
    BY DEF W!Consume
  <2>2. ~Destroyed
    BY <2>1, CombThere
  <2> QED
    BY <2>1, <2>2 DEF Released, Consumed
<1>g. /\ refs[c] > 0 /\ c \notin moved /\ W!Get(c) = v /\ (i \notin dup => refs[c] = 1)
  BY <1>0, <1>a, CoreThere
<1>z. /\ at' = [at EXCEPT ![i] = x] /\ val' = [val EXCEPT ![i] = v]
      /\ IF W!Owned
           THEN UNCHANGED <<refs, moved>>
           ELSE /\ refs' = [refs EXCEPT ![c] = @ - 1]
                /\ moved' = IF ~W!NoneConsumed /\ W!Moves(c, 1) THEN moved \cup {c} ELSE moved
      /\ tuple' = IF W!Kind = "AllTuple" /\ (W!Fail = "None" \/ v = "value")
                    THEN [tuple EXCEPT ![i] = v] ELSE tuple
      /\ UNCHANGED W!input
      /\ UNCHANGED <<result, held, dispatch, pos, crefs, word, error, out>>
  BY <1>0, <1>g DEF W!Consume
<1>i. Inside(i, x)
  BY <1>a, <1>z DEF Inside
<1> HIDE DEF x
<1>k. /\ at' \in [1 .. MaxInputs ->
                   {"waiting", "attached", "queued", "consume", "rmw", "act", "decref", "done"}]
      /\ at'[i] = x /\ \A j \in W!Inputs : j # i => at'[j] = at[j]
      /\ CombInput' /\ Ripens /\ CombStages' /\ CombCount'
      /\ pos # 0 /\ crefs > 0 /\ ~Destroyed /\ ~Destroyed'
      /\ v \in {"value", "error"} /\ v # None
  BY <1>0, <1>i, CombInside
<1>x. x \in {"rmw", "decref"} /\ (x = "rmw" <=> W!Interested(v))
  BY DEF x
<1>f. /\ W!Inputs' = W!Inputs /\ (\A j : W!Core(j)' = W!Core(j)) /\ dup' = dup /\ n' = n
      /\ W!Kind' = W!Kind /\ W!Fail' = W!Fail /\ (W!Owned' <=> W!Owned) /\ (AnyFirst' <=> AnyFirst)
  BY <1>z, CombFixed
<1>d. /\ MaxInputs \in Nat /\ W!Inputs \subseteq 1 .. MaxInputs /\ dup \subseteq W!Inputs
      /\ i \in 1 .. MaxInputs /\ c \in 0 .. MaxInputs
      /\ i \in dup => c = 0
      /\ i \notin dup => c = i /\ c # 0
  BY <1>0, CombDomains DEF CombInv, CombTypes
<1>t. /\ refs \in [0 .. MaxInputs -> Int] /\ moved \subseteq 0 .. MaxInputs
      /\ DOMAIN val = 1 .. MaxInputs /\ DOMAIN tuple = 1 .. MaxInputs
  BY DEF CombInv, CombTypes
<1>v. /\ DOMAIN val' = 1 .. MaxInputs /\ DOMAIN tuple' = 1 .. MaxInputs
      /\ val'[i] = v /\ \A j \in W!Inputs : j # i => val'[j] = val[j] /\ tuple'[j] = tuple[j]
      /\ W!Kind = "AllTuple" /\ (W!Fail = "None" \/ v = "value") => tuple'[i] = v
  BY <1>z, <1>t, <1>d
<1>s. /\ \A j \in W!Inputs : j # i => (Consumed(j)' <=> Consumed(j)) /\ (Decided(j)' <=> Decided(j))
      /\ ~Consumed(i) /\ Consumed(i)' /\ ~Decided(i) /\ (Decided(i)' <=> x = "decref")
  BY <1>k, <1>x, <1>a DEF Consumed, Decided
<1>1. CombTypes'
  <2>1. refs[c] - 1 \in Int /\ moved \cup {c} \subseteq 0 .. MaxInputs
    BY <1>t, <1>d
  <2>2. refs' \in [0 .. MaxInputs -> Int]
    BY <2>1, <1>z, <1>t
  <2>3. moved' \subseteq 0 .. MaxInputs
    <3>1. moved' = moved \/ moved' = moved \cup {c}
      BY <1>z
    <3> QED
      BY <3>1, <2>1
  <2> QED
    BY <2>2, <2>3, <1>k, <1>v, <1>z, <1>f DEF CombInv, CombTypes
<1>4. CombCores'
  <2>1. CASE W!Owned
    <3>1. \A j \in W!Inputs : Released(j)' <=> Released(j)
      BY <2>1, <1>f, <1>k DEF Released
    <3> QED
      BY <2>1, <3>1, <1>k, <1>z, CoresKept
  <2>2. CASE ~W!Owned
    <3>1. /\ \A j \in W!Inputs : j # i => (Released(j)' <=> Released(j))
          /\ Released(i)'
      BY <2>2, <1>f, <1>s DEF Released
    <3>2. /\ refs'[c] = refs[c] - 1 /\ \A k \in 0 .. MaxInputs : k # c => refs'[k] = refs[k]
      BY <2>2, <1>z, <1>t, <1>d
    <3>3. \A k \in moved' : refs'[k] = 0
      <4>1. SUFFICES ASSUME NEW k \in moved' PROVE refs'[k] = 0
        OBVIOUS
      <4>2. CASE k = c
        <5>1. W!Moves(c, 1)
          BY <4>1, <4>2, <2>2, <1>z, <1>g
        <5>2. refs[c] = 1
          BY <5>1, <1>g, <1>d DEF W!Moves
        <5> QED
          BY <5>2, <3>2, <4>2
      <4>3. CASE k # c
        <5>1. k \in moved /\ k \in 0 .. MaxInputs
          BY <4>1, <4>3, <2>2, <1>z, <1>t
        <5> QED
          BY <5>1, <4>3, <3>2 DEF CombInv, CombCores
      <4> QED
        BY <4>2, <4>3
    <3>4. \A k \in 1 .. MaxInputs :
            refs'[k] = IF k \in W!Inputs \ dup /\ ~Released(k)' THEN 1 ELSE 0
      <4>1. SUFFICES ASSUME NEW k \in 1 .. MaxInputs
                     PROVE  refs'[k] = IF k \in W!Inputs \ dup /\ ~Released(k)' THEN 1 ELSE 0
        OBVIOUS
      <4>2. refs[k] = IF k \in W!Inputs \ dup /\ ~Released(k) THEN 1 ELSE 0
        BY DEF CombInv, CombCores
      <4>3. CASE k = c
        <5>1. k = i /\ i \notin dup
          BY <4>3, <1>d
        <5>2. Released(k)'
          BY <5>1, <3>1
        <5>3. refs'[k] = 0
          BY <5>1, <4>3, <3>2, <1>g
        <5> QED
          BY <5>2, <5>3
      <4>4. CASE k # c
        <5>1. refs'[k] = refs[k]
          BY <4>4, <3>2
        <5>2. k = i => i \in dup
          BY <4>4, <1>d
        <5>3. k \in W!Inputs /\ k # i => (Released(k)' <=> Released(k))
          BY <3>1
        <5> QED
          BY <5>1, <5>2, <5>3, <4>2
      <4> QED
        BY <4>3, <4>4
    <3>5. refs'[0] = Cardinality(Sharing') + (IF dup # {} /\ result[0] = None THEN 3 ELSE dispatch)
                                           + (IF held THEN 1 ELSE 0)
      <4> DEFINE p == IF dup # {} /\ result[0] = None THEN 3 ELSE dispatch
                 h == IF held THEN 1 ELSE 0
      <4>1. p \in 0 .. 3 /\ h \in 0 .. 1
        BY DEF CombInv, CombTypes
      <4>2. Sharing \in SUBSET W!Inputs /\ Cardinality(Sharing) \in Nat
        <5>1. Sharing \in SUBSET W!Inputs
          BY <1>d DEF Sharing
        <5> QED
          BY <5>1, CombFinite DEF CombInv, CombTypes
      <4>3. refs[0] = Cardinality(Sharing) + p + h
        BY DEF CombInv, CombCores
      <4> HIDE DEF p, h
      <4>6. SUFFICES refs'[0] = Cardinality(Sharing') + p + h
        BY DEF p, h
      <4>4. CASE i \in dup
        <5>1. i \in Sharing
          BY <4>4, <1>a DEF Sharing
        <5>2. Sharing' = Sharing \ {i}
          BY <3>1, <1>f, <1>d DEF Sharing
        <5>3. Cardinality(Sharing') = Cardinality(Sharing) - 1
          BY <5>1, <5>2, <4>2, CombFinite DEF CombInv, CombTypes
        <5>4. refs'[0] = refs[0] - 1
          BY <4>4, <3>2, <1>d
        <5> QED
          BY <5>3, <5>4, <4>1, <4>2, <4>3
      <4>5. CASE i \notin dup
        <5>1. Sharing' = Sharing
          BY <4>5, <3>1, <1>f, <1>d DEF Sharing
        <5>2. refs'[0] = refs[0]
          BY <4>5, <3>2, <1>d
        <5> QED
          BY <5>1, <5>2, <4>1, <4>2, <4>3
      <4> QED
        BY <4>4, <4>5
    <3>6. result[0] = None => dispatch = 0
      BY DEF CombInv, CombCores
    <3> QED
      BY <3>3, <3>4, <3>5, <3>6, <1>z, <1>f DEF CombCores
  <2> QED
    BY <2>1, <2>2
<1>5. CombValues'
  <2>1. \A j \in W!Inputs : j # i /\ Consumed(j) =>
          /\ val[j] = result[W!Core(j)]
          /\ W!Kind = "AllTuple" /\ (W!Fail = "None" \/ val[j] = "value") => tuple[j] = val[j]
    BY DEF CombInv, CombValues
  <2> QED
    BY <2>1, <1>0, <1>s, <1>v, <1>z, <1>f DEF CombValues
<1>6. Marked' <=> Marked
  BY <1>f, <1>z DEF Marked, W!Odd
<1>b. \A j \in W!Inputs : /\ at'[j] = "act" <=> at[j] = "act"
                          /\ at[j] = "act" => val'[j] = val[j]
  BY <1>k, <1>x, <1>a, <1>v
<1>7. CombWinner'
  <2>1. \A j \in W!Inputs : Sets(j)' <=> Sets(j)
    BY <1>b, <1>f DEF Sets
  <2> QED
    BY <2>1, <1>6, <1>k, <1>f, <1>z DEF CombInv, CombWinner
<1>8. CombWord'
  <2>1. /\ W!Interested(v) /\ W!Kind # "Any" => v = "error" /\ W!Fail = "FirstFail"
        /\ ~W!Interested(v) /\ ~Marked =>
             /\ W!Kind = "Any" => v = "error" /\ W!Fail # "None"
             /\ AnyFirst => word # 0
             /\ W!Kind # "Any" /\ W!Fail = "FirstFail" => v = "value"
        /\ W!Fail = "LastFail" /\ ~W!Odd(word) => W!Interested(v)
    BY <1>k, Attention
  <2>2. CombWord /\ (W!Odd(word)' <=> W!Odd(word))
    BY <1>z DEF CombInv, W!Odd
  <2>3. W!Fail = "LastFail" /\ ~W!Odd(word) => Undecided' = Undecided
    BY <2>1, <1>s, <1>x, <1>f DEF Undecided
  <2>4. \A j \in W!Inputs : ~(at[j] = "act" /\ val[j] = "error" /\ W!Fail = "LastFail")
    BY <2>2, <1>s DEF CombWord
  <2>5. \A j \in W!Inputs :
          /\ at'[j] \in {"rmw", "act"} /\ W!Kind # "Any" => val'[j] = "error" /\ W!Fail = "FirstFail"
          /\ Decided(j)' /\ ~Marked =>
               /\ W!Kind = "Any" => val'[j] = "error" /\ W!Fail # "None"
               /\ AnyFirst => word # 0
               /\ W!Kind # "Any" /\ W!Fail = "FirstFail" => val'[j] = "value"
    <3>1. SUFFICES ASSUME NEW j \in W!Inputs
                   PROVE  /\ at'[j] \in {"rmw", "act"} /\ W!Kind # "Any" => val'[j] = "error" /\ W!Fail = "FirstFail"
                          /\ Decided(j)' /\ ~Marked =>
                               /\ W!Kind = "Any" => val'[j] = "error" /\ W!Fail # "None"
                               /\ AnyFirst => word # 0
                               /\ W!Kind # "Any" /\ W!Fail = "FirstFail" => val'[j] = "value"
      BY Zenon
    <3>2. CASE j = i
      BY <3>2, <2>1, <1>k, <1>x, <1>s, <1>v
    <3>3. CASE j # i
      BY <3>3, <2>2, <1>k, <1>s, <1>v DEF CombWord
    <3> QED
      BY <3>2, <3>3
  <2> QED
    BY <2>2, <2>3, <2>4, <2>5, <1>b, <1>6, <1>f, <1>z DEF CombWord
<1>9. CombError'
  <2>1. CombError /\ (error = None \/ error \in W!Inputs)
    BY DEF CombInv, CombTypes
  <2>2. error # None => error # i
    BY <2>1, <1>a DEF CombError
  <2> QED
    BY <2>1, <2>2, <1>b, <1>k, <1>v, <1>f, <1>z DEF CombError
<1>10. CombOutput'
  BY <1>k, <1>z, OutputKept DEF CombInv, CombTypes
<1> QED
  BY <1>1, <1>k, <1>4, <1>5, <1>7, <1>8, <1>9, <1>10 DEF CombInv

\* The countdown of LastFail, whose word wraps around.
LEMMA CountsDown ==
    ASSUME NEW m \in Nat, m % 2 = 0, m > 2, NEW w \in 0 .. m - 1
    PROVE  /\ (w + m - 2) % m \in 0 .. m - 1
           /\ w >= 2 => (w + m - 2) % m = w - 2
           /\ W!Odd(w) => W!Odd((w + m - 2) % m)
<1>1. CASE w >= 2
  <2>1. (w + m - 2) % m = w - 2
    <3>1. w - 2 \in 0 .. m - 1 /\ w + m - 2 = (w - 2) + m
      BY <1>1
    <3> QED
      BY <3>1
  <2>2. W!Odd(w) => W!Odd(w - 2)
    BY <1>1 DEF W!Odd
  <2> QED
    BY <2>1, <2>2, <1>1
<1>2. CASE w < 2
  <2>1. (w + m - 2) % m = w + m - 2
    <3>1. w + m - 2 \in 0 .. m - 1
      BY <1>2
    <3> QED
      BY <3>1
  <2>2. W!Odd(w) => W!Odd(w + m - 2)
    BY <1>2 DEF W!Odd
  <2> QED
    BY <2>1, <2>2, <1>2
<1> QED
  BY <1>1, <1>2

\* What the read-modify-write does, whatever the strategy.
RmwDone(i) ==
    /\ word' \in 0 .. Word - 1
    /\ ~AnyFirst /\ W!Fail # "LastFail" => word' \in {0, 1}
    /\ AnyFirst => word' \in 1 .. 3
    /\ W!Fail = "LastFail" /\ ~W!Odd(word') => word' = 2 * (Cardinality(Undecided) - 1)
    /\ Marked' <=> Marked \/ Sets(i)'
    /\ Sets(i)' => ~Marked
    /\ ~Marked' => W!Kind = "Any" /\ W!Fail # "None" /\ val[i] = "error"
    /\ W!Fail = "LastFail" /\ at'[i] = "act" /\ val[i] = "error" => ~Marked /\ Cardinality(Undecided) = 1
    /\ AnyFirst /\ word' \in {2, 3} => word \in {2, 3} \/ (at'[i] = "act" /\ val[i] = "error")

\* By cases on the strategies and on the result.
LEMMA RmwOutcome ==
    ASSUME W!ConstantsAssumption, CombInv, NEW i \in W!Inputs, W!Rmw(i)
    PROVE  /\ at[i] = "rmw" /\ at'[i] \in {"act", "decref"} /\ Inside(i, at'[i]) /\ RmwDone(i)
           /\ UNCHANGED <<refs, moved, val, error, tuple, out>>
<1> DEFINE v == val[i]
<1>0. PICK ch : ch = W!Change(word, v)
  OBVIOUS
<1>z. /\ at[i] = "rmw" /\ word' = ch.word
      /\ at' = [at EXCEPT ![i] = IF ch.won THEN "act" ELSE "decref"]
      /\ UNCHANGED W!input
      /\ UNCHANGED <<result, refs, moved, held, dispatch, val, pos, crefs, error, tuple, out>>
  BY <1>0 DEF W!Rmw, W!cores
<1>d. /\ i \in 1 .. MaxInputs /\ MaxInputs \in Nat \ {0}
      /\ Word \in Nat /\ Word % 2 = 0 /\ Word > 2 * MaxInputs /\ Word > 2
  BY CombDomains DEF CombInv, CombTypes
<1>a. at'[i] = IF ch.won THEN "act" ELSE "decref"
  BY <1>z, <1>d DEF CombInv, CombTypes
<1>f. /\ W!Kind' = W!Kind /\ W!Fail' = W!Fail /\ (AnyFirst' <=> AnyFirst)
  BY <1>z, CombFixed
<1>p. pos # 0
  BY <1>z, CombThere
<1>v. v \in {"value", "error"}
  <2>1. v = result[W!Core(i)] /\ result[W!Core(i)] # None
    BY <1>z DEF CombInv, CombValues, CombStages, Consumed
  <2> QED
    BY <2>1, <1>z, CombThere
<1>w. word \in 0 .. Word - 1
  BY DEF CombInv, CombTypes
<1>k. /\ W!Kind \in {"All", "AllTuple", "Join", "Any"}
      /\ W!Fail \in {"None", "FirstFail", "LastFail"}
      /\ W!Fail = "LastFail" => W!Kind = "Any"
      /\ strategy = <<"Any", "FirstFail">> <=> AnyFirst
  BY CombKinds DEF CombInv, CombTypes
<1>i. at'[i] \in {"act", "decref"} /\ Inside(i, at'[i])
  BY <1>a, <1>z DEF Inside
<1>1. CASE ~AnyFirst /\ W!Fail # "LastFail"
  <2>1. ch.word = 1 /\ (ch.won <=> word = 0)
    BY <1>0, <1>1, <1>k DEF W!Change, W!Exchange
  <2>2. word \in {0, 1}
    BY <1>1 DEF CombInv, CombWord
  <2>3. Marked' /\ (Marked <=> word = 1)
    BY <2>1, <1>1, <1>z, <1>f DEF Marked
  <2>4. Sets(i)' <=> word = 0
    BY <2>1, <1>1, <1>a, <1>f, <1>z DEF Sets
  <2>5. word' \in 0 .. Word - 1
    BY <2>1, <1>z, <1>d
  <2> QED
    BY <2>1, <2>2, <2>3, <2>4, <2>5, <1>1, <1>i, <1>z DEF RmwDone
<1>2. CASE AnyFirst
  <2>0. W!Fail # "LastFail" /\ W!Kind = "Any" /\ W!Fail # "None"
    BY <1>2 DEF AnyFirst
  <2>1. ch = W!FetchOr(word, v)
    BY <1>0, <1>2, <2>0, <1>k DEF W!Change
  <2>2. word \in 0 .. 3
    BY <1>2 DEF CombInv, CombWord
  <2>w. Word > 3
    <3>1. Word # 3
      BY <1>d
    <3> QED
      BY <3>1, <1>d
  <2>3. (Marked <=> W!Odd(word)) /\ (Marked' <=> W!Odd(word'))
    BY <1>2, <2>0, <1>f DEF Marked, W!Odd
  <2>4. CASE v = "value"
    <3>0. ch = [word |-> IF W!Odd(word) THEN word ELSE word + 1, won |-> ~W!Odd(word)]
      BY <2>1, <2>4 DEF W!FetchOr
    <3>1. word' = (IF W!Odd(word) THEN word ELSE word + 1) /\ (ch.won <=> ~W!Odd(word))
      BY <3>0, <1>z
    <3>2. word' \in 1 .. 3 /\ W!Odd(word') /\ (word' \in {2, 3} => word \in {2, 3})
      BY <3>1, <2>2 DEF W!Odd
    <3>3. Sets(i)' <=> ~W!Odd(word)
      BY <3>1, <2>4, <1>a, <1>z DEF Sets
    <3>4. word' \in 0 .. Word - 1
      BY <3>2, <1>d, <2>w
    <3> QED
      BY <3>2, <3>3, <3>4, <2>0, <2>3, <2>4, <1>2, <1>i, <1>z DEF RmwDone
  <2>5. CASE v = "error"
    <3>0. ch = [word |-> IF word \in {2, 3} THEN word ELSE word + 2, won |-> word \notin {2, 3}]
      BY <2>1, <2>5 DEF W!FetchOr
    <3>1. word' = (IF word \in {2, 3} THEN word ELSE word + 2) /\ (ch.won <=> word \notin {2, 3})
      BY <3>0, <1>z
    <3>2. word' \in 2 .. 3 /\ (W!Odd(word') <=> W!Odd(word))
      BY <3>1, <2>2 DEF W!Odd
    <3>3. ~Sets(i)'
      BY <2>5, <1>2, <1>f, <1>z DEF Sets
    <3>4. word' \in 0 .. Word - 1
      BY <3>2, <1>d, <2>w
    <3>5. word \in {2, 3} \/ at'[i] = "act"
      BY <3>1, <1>a
    <3> QED
      BY <3>2, <3>3, <3>4, <3>5, <2>0, <2>3, <2>5, <1>2, <1>i, <1>z DEF RmwDone
  <2> QED
    BY <2>4, <2>5, <1>v
<1>3. CASE W!Fail = "LastFail"
  <2>0. ~AnyFirst /\ W!Kind = "Any" /\ W!Fail # "None"
    BY <1>3, <1>k DEF AnyFirst
  <2>1. ch = W!CountDown(word, v)
    BY <1>0, <1>3, <2>0, <1>k DEF W!Change
  <2>2. /\ Marked <=> W!Odd(word) \/ word = 0
        /\ Marked' <=> W!Odd(word') \/ word' = 0
    BY <1>3, <1>p, <1>f, <1>z DEF Marked, W!Odd
  <2>3. /\ Cardinality(Undecided) \in Nat /\ Cardinality(Undecided) >= 1
        /\ ~W!Odd(word) => word = 2 * Cardinality(Undecided)
    <3>1. i \in Undecided /\ Undecided \in SUBSET W!Inputs
      BY <1>z DEF Undecided, Decided
    <3>2. Cardinality(Undecided) # 0 /\ Cardinality(Undecided) \in Nat
      BY <3>1, CombFinite DEF CombInv, CombTypes
    <3>3. ~W!Odd(word) => word = 2 * Cardinality(Undecided)
      BY <1>3, <1>p DEF CombInv, CombWord
    <3> QED
      BY <3>2, <3>3
  <2>4. Sets(i)' <=> ch.won
    BY <2>0, <1>a, <1>f DEF Sets
  <2>5. CASE v = "value"
    <3>0. ch = [word |-> 1, won |-> ~W!Odd(word)]
      BY <2>1, <2>5 DEF W!CountDown
    <3>1. word' = 1 /\ (ch.won <=> ~W!Odd(word))
      BY <3>0, <1>z
    <3>2. W!Odd(word') /\ word' \in 0 .. Word - 1
      BY <3>1, <1>d DEF W!Odd
    <3>3. ~W!Odd(word) => word # 0
      BY <2>3
    <3> QED
      BY <3>1, <3>2, <3>3, <2>0, <2>2, <2>4, <2>5, <1>3, <1>i, <1>z DEF RmwDone
  <2>6. CASE v = "error"
    <3>0. ch = [word |-> (word + Word - 2) % Word, won |-> word = 2]
      BY <2>1, <2>6 DEF W!CountDown
    <3>1. word' = (word + Word - 2) % Word /\ (ch.won <=> word = 2)
      BY <3>0, <1>z
    <3>2. /\ word' \in 0 .. Word - 1
          /\ word >= 2 => word' = word - 2
          /\ W!Odd(word) => W!Odd(word')
      BY <3>1, <1>d, <1>w, CountsDown
    <3>3. CASE W!Odd(word)
      <4>1. word # 2
        BY <3>3 DEF W!Odd
      <4> QED
        BY <4>1, <3>1, <3>2, <3>3, <2>0, <2>2, <2>4, <2>6, <1>3, <1>a, <1>i, <1>z DEF RmwDone
    <3>4. CASE ~W!Odd(word)
      <4>1. word = 2 * Cardinality(Undecided) /\ word >= 2
        BY <3>4, <2>3
      <4>2. word' = word - 2 /\ word' = 2 * (Cardinality(Undecided) - 1)
        BY <4>1, <3>2, <2>3, <1>w
      <4>3. ~W!Odd(word')
        BY <4>2, <2>3 DEF W!Odd
      <4>4. ~Marked /\ (Marked' <=> word = 2)
        BY <4>1, <4>2, <4>3, <3>4, <2>2, <1>w
      <4>5. word = 2 => Cardinality(Undecided) = 1
        BY <4>1, <2>3
      <4>6. Sets(i)' <=> word = 2
        BY <2>4, <3>1
      <4>7. at'[i] = "act" => word = 2
        BY <3>1, <1>a
      <4> QED
        BY <4>2, <4>4, <4>5, <4>6, <4>7, <3>2, <2>0, <2>6, <1>3, <1>i, <1>z DEF RmwDone
    <3> QED
      BY <3>3, <3>4
  <2> QED
    BY <2>5, <2>6, <1>v
<1> QED
  BY <1>1, <1>2, <1>3

\* The read-modify-write picks the winner.
LEMMA CombRmw ==
    ASSUME W!ConstantsAssumption, CombInv, NEW i \in W!Inputs, W!Rmw(i)
    PROVE  CombInv'
<1>z. /\ at[i] = "rmw" /\ at'[i] \in {"act", "decref"} /\ Inside(i, at'[i]) /\ RmwDone(i)
      /\ UNCHANGED <<refs, moved, val, error, tuple, out>>
      /\ UNCHANGED W!input /\ UNCHANGED <<result, held, dispatch, pos, crefs>>
  BY RmwOutcome DEF Inside
<1>k. /\ at' \in [1 .. MaxInputs ->
                   {"waiting", "attached", "queued", "consume", "rmw", "act", "decref", "done"}]
      /\ \A j \in W!Inputs : j # i => at'[j] = at[j]
      /\ CombInput' /\ Ripens /\ CombStages' /\ CombCount'
      /\ pos # 0 /\ ~Destroyed /\ ~Destroyed'
  BY <1>z, CombInside
<1>f. /\ W!Inputs' = W!Inputs /\ (\A j : W!Core(j)' = W!Core(j)) /\ dup' = dup /\ n' = n
      /\ W!Kind' = W!Kind /\ W!Fail' = W!Fail /\ (W!Owned' <=> W!Owned) /\ (AnyFirst' <=> AnyFirst)
  BY <1>z, CombFixed
<1>s. /\ \A j \in W!Inputs : Consumed(j)' <=> Consumed(j)
      /\ \A j \in W!Inputs : j # i => (Decided(j)' <=> Decided(j)) /\ (Sets(j)' <=> Sets(j))
      /\ ~Decided(i) /\ Decided(i)' /\ ~Sets(i)
  BY <1>k, <1>z, <1>f DEF Consumed, Decided, Sets
<1>1. CombTypes'
  <2>1. word' \in 0 .. Word - 1
    BY <1>z DEF RmwDone
  <2> QED
    BY <2>1, <1>k, <1>z, <1>f DEF CombInv, CombTypes
<1>4. CombCores'
  <2>1. \A j \in W!Inputs : Released(j)' <=> Released(j)
    BY <1>s, <1>f, <1>k DEF Released
  <2> QED
    BY <2>1, <1>k, <1>z, CoresKept
<1>5. CombValues'
  BY <1>s, <1>z, <1>f DEF CombInv, CombValues
<1>6. /\ Marked' <=> Marked \/ Sets(i)'
      /\ Sets(i)' => ~Marked
  BY <1>z DEF RmwDone
<1>7. CombWinner'
  <2>1. /\ \A j \in W!Inputs : Sets(j) => Marked /\ out = <<>>
        /\ \A j, k \in W!Inputs : Sets(j) /\ Sets(k) => j = k
        /\ Marked => out # <<>> \/ \E j \in W!Inputs : Sets(j)
        /\ out # <<>> => Marked
    BY <1>k DEF CombInv, CombWinner
  <2>2. CASE Sets(i)'
    <3>1. ~Marked /\ Marked' /\ out = <<>> /\ out' = <<>>
      BY <2>1, <2>2, <1>6, <1>z
    <3>2. \A j \in W!Inputs : j # i => ~Sets(j)'
      BY <2>1, <3>1, <1>s
    <3> QED
      BY <3>1, <3>2, <2>2, <1>f DEF CombWinner
  <2>3. CASE ~Sets(i)'
    <3>1. \A j \in W!Inputs : Sets(j)' <=> Sets(j)
      BY <2>3, <1>s
    <3>2. Marked' <=> Marked
      BY <2>3, <1>6
    <3> QED
      BY <3>1, <3>2, <2>1, <1>z, <1>f DEF CombWinner
  <2> QED
    BY <2>2, <2>3
<1>8. CombWord'
  <2>1. Undecided' = Undecided \ {i} /\ i \in Undecided /\ Undecided \in SUBSET W!Inputs
    BY <1>s, <1>f DEF Undecided
  <2>2. Cardinality(Undecided') = Cardinality(Undecided) - 1
    BY <2>1, CombFinite DEF CombInv, CombTypes
  <2>3. /\ ~AnyFirst /\ W!Fail # "LastFail" => word' \in {0, 1}
        /\ AnyFirst => word' \in 1 .. 3
        /\ W!Fail = "LastFail" /\ ~W!Odd(word') => word' = 2 * Cardinality(Undecided')
        /\ ~Marked' => W!Kind = "Any" /\ W!Fail # "None" /\ val[i] = "error"
        /\ W!Fail = "LastFail" /\ at'[i] = "act" /\ val[i] = "error" => ~Marked /\ Cardinality(Undecided) = 1
    BY <2>2, <1>z DEF RmwDone
  <2>4. /\ AnyFirst => word' \in 0 .. 3 /\ word' # 0
        /\ W!Odd(word)' <=> W!Odd(word')
    BY <2>3 DEF W!Odd
  <2>5. ASSUME NEW j \in W!Inputs
        PROVE  /\ at'[j] \in {"rmw", "act"} /\ W!Kind # "Any" => val[j] = "error" /\ W!Fail = "FirstFail"
               /\ Decided(j)' /\ ~Marked' =>
                    /\ W!Kind = "Any" => val[j] = "error" /\ W!Fail # "None"
                    /\ W!Kind # "Any" /\ W!Fail = "FirstFail" => val[j] = "value"
    <3>1. /\ at[j] \in {"rmw", "act"} /\ W!Kind # "Any" => val[j] = "error" /\ W!Fail = "FirstFail"
          /\ Decided(j) /\ ~Marked =>
               /\ W!Kind = "Any" => val[j] = "error" /\ W!Fail # "None"
               /\ W!Kind # "Any" /\ W!Fail = "FirstFail" => val[j] = "value"
      BY DEF CombInv, CombWord
    <3>2. CASE j = i
      BY <3>1, <3>2, <2>3, <1>z
    <3>3. CASE j # i
      BY <3>1, <3>3, <1>s, <1>k, <1>6
    <3> QED
      BY <3>2, <3>3
  <2>6. ASSUME NEW j \in W!Inputs, at'[j] = "act", val[j] = "error", W!Fail = "LastFail"
        PROVE  \A k \in W!Inputs : Decided(k)' /\ val[k] = "error"
    <3>1. j = i
      <4>1. SUFFICES ASSUME j # i PROVE FALSE
        OBVIOUS
      <4>2. at[j] = "act"
        BY <4>1, <2>6, <1>k
      <4>3. Decided(i)
        BY <4>2, <2>6 DEF CombInv, CombWord
      <4> QED
        BY <4>3, <1>s
    <3>2. ~Marked /\ Cardinality(Undecided) = 1
      BY <3>1, <2>3, <2>6
    <3>3. Undecided = {i}
      <4>1. PICK u : Undecided = {u}
        BY <3>2, <2>1, CombFinite, FS_Singleton DEF CombInv, CombTypes
      <4> QED
        BY <4>1, <2>1
    <3>4. ASSUME NEW k \in W!Inputs, k # i PROVE Decided(k)' /\ val[k] = "error"
      <4>1. Decided(k)
        BY <3>3, <3>4 DEF Undecided
      <4>2. W!Kind = "Any"
        BY <2>6, CombKinds DEF CombInv, CombTypes
      <4> QED
        BY <4>1, <4>2, <3>2, <3>4, <1>s DEF CombInv, CombWord
    <3> QED
      BY <3>1, <3>4, <2>6, <1>s
  <2> QED
    BY <2>3, <2>4, <2>5, <2>6, <1>z, <1>f DEF CombWord
<1>9. CombError'
  <2>1. CombError /\ (error = None \/ error \in W!Inputs)
    BY DEF CombInv, CombTypes
  <2>2. error # None => error # i
    BY <2>1, <1>z DEF CombError
  <2>3. AnyFirst /\ word' \in {2, 3} => word \in {2, 3} \/ (at'[i] = "act" /\ val[i] = "error")
    BY <1>z DEF RmwDone
  <2>4. AnyFirst /\ word' \in {2, 3} =>
          error # None \/ \E j \in W!Inputs : at'[j] = "act" /\ val[j] = "error"
    <3>1. SUFFICES ASSUME AnyFirst, word' \in {2, 3}, error = None, ~(at'[i] = "act" /\ val[i] = "error")
                   PROVE  \E j \in W!Inputs : at'[j] = "act" /\ val[j] = "error"
      OBVIOUS
    <3>2. PICK j \in W!Inputs : at[j] = "act" /\ val[j] = "error"
      BY <3>1, <2>1, <2>3 DEF CombError
    <3>3. j # i
      BY <3>2, <1>z
    <3> QED
      BY <3>2, <3>3, <1>k
  <2>5. error # None => at'[error] \in {"decref", "done"} /\ val[error] = "error"
    BY <2>1, <2>2, <1>k DEF CombError
  <2> QED
    BY <2>4, <2>5, <1>z, <1>f DEF CombError
<1>10. CombOutput'
  BY <1>k, <1>z, OutputKept DEF CombInv, CombTypes
<1> QED
  BY <1>1, <1>k, <1>4, <1>5, <1>7, <1>8, <1>9, <1>10 DEF CombInv

\* The winner sets the promise; the first error is kept.
LEMMA CombAct ==
    ASSUME W!ConstantsAssumption, CombInv, NEW i \in W!Inputs, W!Act(i)
    PROVE  CombInv'
<1>z. /\ at[i] = "act" /\ at' = [at EXCEPT ![i] = "decref"]
      /\ UNCHANGED W!input
      /\ UNCHANGED <<result, refs, moved, held, dispatch, val, pos, crefs, word, tuple>>
  BY DEF W!Act, W!cores
<1>y. \/ AnyFirst /\ val[i] = "error" /\ error' = i /\ out' = out
      \/ Sets(i) /\ out' = Append(out, [of |-> i, val |-> val[i]]) /\ error' = error
  <2>1. strategy = <<"Any", "FirstFail">> <=> AnyFirst
    BY CombKinds DEF CombInv, CombTypes
  <2> QED
    BY <2>1 DEF W!Act, Sets
<1>k. /\ at' \in [1 .. MaxInputs ->
                   {"waiting", "attached", "queued", "consume", "rmw", "act", "decref", "done"}]
      /\ at'[i] = "decref" /\ \A j \in W!Inputs : j # i => at'[j] = at[j]
      /\ CombInput' /\ Ripens /\ CombStages' /\ CombCount'
      /\ pos # 0 /\ ~Destroyed /\ ~Destroyed'
      /\ result[W!Core(i)] # None
  <2>1. Inside(i, "decref")
    BY <1>z DEF Inside
  <2> QED
    BY <2>1, CombInside
<1>f. /\ W!Inputs' = W!Inputs /\ (\A j : W!Core(j)' = W!Core(j)) /\ dup' = dup /\ n' = n
      /\ W!Kind' = W!Kind /\ W!Fail' = W!Fail /\ (W!Owned' <=> W!Owned) /\ (AnyFirst' <=> AnyFirst)
  BY <1>z, CombFixed
<1>d. None \notin Nat /\ W!Inputs \subseteq Nat
  BY CombDomains DEF CombInv, CombTypes
<1>s. /\ \A j \in W!Inputs : (Consumed(j)' <=> Consumed(j)) /\ (Decided(j)' <=> Decided(j))
      /\ \A j \in W!Inputs : j # i => (Sets(j)' <=> Sets(j))
      /\ ~Sets(i)'
      /\ \A j \in W!Inputs : at'[j] = "rmw" <=> at[j] = "rmw"
  BY <1>k, <1>z, <1>f DEF Consumed, Decided, Sets
<1>1. CombTypes'
  <2>1. error' \in W!Inputs \cup {None}
    BY <1>y DEF CombInv, CombTypes
  <2> QED
    BY <2>1, <1>k, <1>z, <1>f DEF CombInv, CombTypes
<1>4. CombCores'
  <2>1. \A j \in W!Inputs : Released(j)' <=> Released(j)
    BY <1>s, <1>f, <1>k DEF Released
  <2> QED
    BY <2>1, <1>k, <1>z, CoresKept
<1>5. CombValues'
  BY <1>s, <1>z, <1>f DEF CombInv, CombValues
<1>6. Marked' <=> Marked
  BY <1>f, <1>z DEF Marked, W!Odd
<1>u. /\ \A j \in W!Inputs : Sets(j) => Marked /\ out = <<>>
      /\ \A j, k \in W!Inputs : Sets(j) /\ Sets(k) => j = k
      /\ Marked => out # <<>> \/ \E j \in W!Inputs : Sets(j)
      /\ out # <<>> => Marked
  BY <1>k DEF CombInv, CombWinner
<1>o. Sets(i) => out = <<>> /\ out' = <<[of |-> i, val |-> val[i]]>>
  <2>1. ~(AnyFirst /\ val[i] = "error") <=> Sets(i)
    BY <1>z DEF Sets
  <2>2. \A o : Append(<<>>, o) = <<o>>
    OBVIOUS
  <2>3. Sets(i) => out = <<>> /\ out' = Append(out, [of |-> i, val |-> val[i]])
    BY <2>1, <1>u, <1>y, Zenon
  <2> QED
    BY <2>2, <2>3, Zenon
<1>7. CombWinner'
  <2>1. CASE Sets(i)
    <3>1. out' # <<>> /\ Marked'
      BY <2>1, <1>o, <1>u, <1>6
    <3>2. \A j \in W!Inputs : ~Sets(j)'
      BY <2>1, <1>u, <1>s
    <3> QED
      BY <3>1, <3>2, <1>f DEF CombWinner
  <2>2. CASE ~Sets(i)
    <3>1. \A j \in W!Inputs : Sets(j)' <=> Sets(j)
      BY <2>2, <1>s
    <3>2. out' = out
      BY <2>2, <1>y
    <3> QED
      BY <3>1, <3>2, <1>u, <1>6, <1>f DEF CombWinner
  <2> QED
    BY <2>1, <2>2
<1>8. CombWord'
  <2>1. CombWord /\ (W!Odd(word)' <=> W!Odd(word)) /\ Undecided' = Undecided
    BY <1>s, <1>z, <1>f DEF CombInv, W!Odd, Undecided
  <2>2. \A j \in W!Inputs : at'[j] = "act" => at[j] = "act"
    BY <1>k
  <2> QED
    BY <2>1, <2>2, <1>6, <1>s, <1>z, <1>f DEF CombWord
<1>9. CombError'
  <2>1. CombError /\ (error = None \/ error \in W!Inputs)
    BY DEF CombInv, CombTypes
  <2>2. CASE Sets(i)
    <3>1. error' = error /\ ~(AnyFirst /\ val[i] = "error")
      BY <2>2, <1>y DEF Sets
    <3>2. error # None => error # i
      BY <2>1, <1>z DEF CombError
    <3>3. error # None => at'[error] \in {"decref", "done"} /\ val[error] = "error"
      BY <3>2, <2>1, <1>k DEF CombError
    <3>4. AnyFirst /\ word \in {2, 3} =>
            error # None \/ \E j \in W!Inputs : at'[j] = "act" /\ val[j] = "error"
      <4>1. SUFFICES ASSUME AnyFirst, word \in {2, 3}, error = None
                     PROVE  \E j \in W!Inputs : at'[j] = "act" /\ val[j] = "error"
        OBVIOUS
      <4>2. PICK j \in W!Inputs : at[j] = "act" /\ val[j] = "error"
        BY <4>1, <2>1 DEF CombError
      <4>3. j # i
        BY <4>1, <4>2, <3>1
      <4> QED
        BY <4>2, <4>3, <1>k
    <3> QED
      BY <3>1, <3>3, <3>4, <1>z, <1>f DEF CombError
  <2>3. CASE ~Sets(i)
    <3>1. error' = i /\ val[i] = "error" /\ i # None
      BY <2>3, <1>y, <1>d
    <3> QED
      BY <3>1, <1>k, <1>z DEF CombError
  <2> QED
    BY <2>2, <2>3
<1>10. CombOutput'
  <2>1. CASE Sets(i)
    <3>0. PICK o : o = [of |-> i, val |-> val[i]]
      OBVIOUS
    <3>1. val[i] = result[W!Core(i)] /\ val[i] # None
      BY <1>k, <1>z DEF CombInv, CombValues, Consumed
    <3>2. W!Kind # "Any" => val[i] = "error" /\ W!Fail = "FirstFail"
      BY <1>z DEF CombInv, CombWord
    <3>3. ASSUME W!Kind = "Any", W!Fail # "None", val[i] = "error"
          PROVE  /\ W!Failed' = W!Inputs
                 /\ \A j \in W!Inputs \ {i} : at'[j] \in {"decref", "done"}
      <4>1. W!Fail = "LastFail" /\ ~AnyFirst
        BY <3>3, <2>1, CombKinds DEF CombInv, CombTypes, Sets, AnyFirst
      <4>2. \A j \in W!Inputs : Decided(j) /\ val[j] = "error"
        BY <4>1, <3>3, <1>z DEF CombInv, CombWord
      <4>3. \A j \in W!Inputs : result[W!Core(j)] = "error"
        BY <4>2 DEF CombInv, CombValues, Decided, Consumed
      <4>4. \A j \in W!Inputs : j # i => at[j] # "act"
        BY <4>1, <2>1, <1>u DEF Sets
      <4>5. W!Failed' = W!Inputs
        BY <4>3, <1>f, <1>z DEF W!Failed
      <4> QED
        BY <4>2, <4>4, <4>5, <1>k DEF Decided
    <3>4. W!Allowed(o)'
      <4>1. "each" \notin DOMAIN o /\ "of" \in DOMAIN o /\ o.of = i /\ o.val = val[i]
        BY <3>0
      <4>2. o.val = result'[W!Core(i)]
        BY <4>1, <3>1, <1>z
      <4> QED
        BY <4>1, <4>2, <3>2, <3>3, <1>f DEF W!Allowed
    <3>5. out' = <<o>> /\ out'[1] = o /\ out' = <<out'[1]>>
      BY <3>0, <2>1, <1>o
    <3>6. W!Allowed(out[1])'
      BY <3>4, <3>5
    <3> QED
      BY <3>0, <3>1, <3>5, <3>6, <1>f DEF CombOutput
  <2>2. CASE ~Sets(i)
    BY <2>2, <1>y, <1>k, OutputKept DEF CombInv, CombTypes
  <2> QED
    BY <2>1, <2>2
<1> QED
  BY <1>1, <1>k, <1>4, <1>5, <1>7, <1>8, <1>9, <1>10 DEF CombInv

\* How many inputs use a core.
LEMMA UsesOf ==
    ASSUME W!ConstantsAssumption, CombInput
    PROVE  /\ \A c \in 1 .. MaxInputs : W!Uses(c) = IF c \in W!Inputs \ dup THEN 1 ELSE 0
           /\ W!Uses(0) = Cardinality(dup)
<1>d. /\ dup \subseteq W!Inputs /\ 0 \notin W!Inputs
      /\ \A i \in W!Inputs : /\ i \in dup => W!Core(i) = 0
                             /\ i \notin dup => W!Core(i) = i /\ W!Core(i) # 0
  BY CombDomains
<1>1. ASSUME NEW c \in 1 .. MaxInputs
      PROVE  W!Uses(c) = IF c \in W!Inputs \ dup THEN 1 ELSE 0
  <2>0. c # 0
    OBVIOUS
  <2>1. {i \in W!Inputs : W!Core(i) = c} = IF c \in W!Inputs \ dup THEN {c} ELSE {}
    <3>1. \A i \in W!Inputs : W!Core(i) = c => i = c /\ i \notin dup
      BY <2>0, <1>d
    <3>2. c \in W!Inputs \ dup => W!Core(c) = c
      BY <1>d
    <3>3. CASE c \in W!Inputs \ dup
      BY <3>1, <3>2, <3>3
    <3>4. CASE c \notin W!Inputs \ dup
      <4>1. \A i \in W!Inputs : W!Core(i) # c
        BY <3>1, <3>4
      <4> QED
        BY <4>1, <3>4
    <3> QED
      BY <3>3, <3>4
  <2> QED
    BY <2>1, CombLibrary, FS_EmptySet, FS_Singleton DEF W!Uses
<1>2. {i \in W!Inputs : W!Core(i) = 0} = dup
  BY <1>d
<1>3. W!Uses(0) = Cardinality(dup)
  BY <1>2, CombLibrary DEF W!Uses
<1> QED
  BY <1>1, <1>3

\* The destructor of All releases every core.
LEMMA AllReleases ==
    ASSUME W!ConstantsAssumption, CombInv, W!Owned, ~Destroyed, Destroyed',
           UNCHANGED W!input, UNCHANGED <<result, held, dispatch>>,
           refs' = [c \in DOMAIN refs |-> refs[c] - W!Uses(c)],
           moved' = moved \cup {c \in DOMAIN refs : W!Valid /\ W!Uses(c) > 0 /\ W!Moves(c, W!Uses(c))}
    PROVE  CombCores' /\ refs' \in [0 .. MaxInputs -> Int] /\ moved' \subseteq 0 .. MaxInputs
<1>d. MaxInputs \in Nat /\ dup \subseteq W!Inputs
  BY CombDomains DEF CombInv, CombTypes
<1>f. W!Inputs' = W!Inputs /\ dup' = dup /\ (W!Owned' <=> W!Owned)
  BY CombFixed
<1>t. /\ refs \in [0 .. MaxInputs -> Int] /\ moved \subseteq 0 .. MaxInputs /\ CombInput
      /\ dispatch \in 0 .. 3
  BY DEF CombInv, CombTypes
<1>r. \A i : Released(i)' /\ ~Released(i)
  BY <1>f DEF Released
<1>s. Sharing = dup /\ Sharing' = {} /\ Cardinality(Sharing') = 0
  <2>1. Sharing = dup /\ Sharing' = {}
    BY <1>r DEF Sharing
  <2> QED
    BY <2>1, FS_EmptySet
<1>u. /\ \A c \in 1 .. MaxInputs : W!Uses(c) = IF c \in W!Inputs \ dup THEN 1 ELSE 0
      /\ W!Uses(0) = Cardinality(dup) /\ Cardinality(dup) \in Nat
      /\ Cardinality(dup) = 0 <=> dup = {}
  BY <1>t, <1>d, UsesOf, CombFinite
<1>c. /\ \A c \in 1 .. MaxInputs : refs[c] = IF c \in W!Inputs \ dup THEN 1 ELSE 0
      /\ \A c \in moved : refs[c] = 0
  BY <1>r DEF CombInv, CombCores
<1>1. \A c \in 1 .. MaxInputs : refs'[c] = 0
  <2>1. SUFFICES ASSUME NEW c \in 1 .. MaxInputs PROVE refs'[c] = 0
    OBVIOUS
  <2>2. c \in DOMAIN refs /\ refs[c] = W!Uses(c) /\ refs[c] \in Int
    BY <1>c, <1>u, <1>t
  <2>3. refs'[c] = refs[c] - W!Uses(c)
    BY <2>2
  <2> QED
    BY <2>2, <2>3
<1>2. refs'[0] = refs[0] - Cardinality(dup)
  BY <1>u, <1>t, <1>d
<1>3. refs' \in [0 .. MaxInputs -> Int]
  <2>1. \A c \in 0 .. MaxInputs : refs[c] - W!Uses(c) \in Int
    <3>1. SUFFICES ASSUME NEW c \in 0 .. MaxInputs PROVE refs[c] - W!Uses(c) \in Int
      OBVIOUS
    <3>2. W!Uses(c) \in Int
      <4>1. CASE c = 0
        BY <4>1, <1>u
      <4>2. CASE c # 0
        <5>1. c \in 1 .. MaxInputs
          BY <4>2
        <5> QED
          BY <5>1, <1>u
      <4> QED
        BY <4>1, <4>2
    <3> QED
      BY <3>2, <1>t
  <2> QED
    BY <2>1, <1>t
<1>4. moved' \subseteq 0 .. MaxInputs
  BY <1>t
<1> DEFINE p == IF dup # {} /\ result[0] = None THEN 3 ELSE dispatch
           h == IF held THEN 1 ELSE 0
<1>p. p \in 0 .. 3 /\ h \in 0 .. 1 /\ refs[0] = Cardinality(dup) + p + h
  <2>1. p \in 0 .. 3 /\ h \in 0 .. 1
    BY <1>t
  <2>2. refs[0] = Cardinality(dup) + p + h
    BY <1>s DEF CombInv, CombCores
  <2> QED
    BY <2>1, <2>2
<1>5. refs'[0] = Cardinality(Sharing') + p + h
  <2> HIDE DEF p, h
  <2> QED
    BY <1>p, <1>2, <1>s, <1>u
<1>6. \A c \in moved' : refs'[c] = 0
  <2>1. SUFFICES ASSUME NEW c \in moved' PROVE refs'[c] = 0
    OBVIOUS
  <2>2. CASE c # 0
    <3>1. c \in 1 .. MaxInputs
      BY <2>2, <1>4, <1>d
    <3> QED
      BY <3>1, <1>1
  <2>3. CASE c = 0
    <3> HIDE DEF p, h
    <3>1. CASE 0 \in moved
      BY <2>3, <3>1, <1>c, <1>p, <1>u, <1>2
    <3>2. CASE 0 \notin moved
      <4>1. W!Moves(0, W!Uses(0))
        BY <2>1, <2>3, <3>2
      <4>2. refs[0] = Cardinality(dup)
        BY <4>1, <1>u DEF W!Moves
      <4> QED
        BY <4>2, <2>3, <1>2, <1>u
    <3> QED
      BY <3>1, <3>2
  <2> QED
    BY <2>2, <2>3
<1>7. CombCores'
  <2>1. refs'[0] = Cardinality(Sharing') + (IF dup' # {} /\ result'[0] = None THEN 3 ELSE dispatch')
                                         + (IF held' THEN 1 ELSE 0)
    BY <1>5, <1>f
  <2>2. \A c \in 1 .. MaxInputs :
          refs'[c] = IF c \in (W!Inputs \ dup)' /\ ~Released(c)' THEN 1 ELSE 0
    BY <1>1, <1>r
  <2>3. result'[0] = None => dispatch' = 0
    BY DEF CombInv, CombCores
  <2> QED
    BY <2>1, <2>2, <2>3, <1>6 DEF CombCores
<1> QED
  BY <1>3, <1>4, <1>7

\* What the destructor sets is what the policy promises.
LEMMA FinalAllowed ==
    ASSUME W!ConstantsAssumption, CombInv, ~Destroyed, pos # 0, out = <<>>,
           \A j \in W!Inputs : at[j] \in {"decref", "done"},
           NEW o, o = W!Final, Ripens, result' = result
    PROVE  /\ W!Allowed(o)'
           /\ "of" \in DOMAIN o => "each" \notin DOMAIN o /\ o.of \in W!Inputs /\ o.val # None
<1>f. /\ W!Inputs' = W!Inputs /\ (\A j : W!Core(j)' = W!Core(j))
      /\ W!Kind' = W!Kind /\ W!Fail' = W!Fail
  BY CombFixed DEF Ripens
<1>d. None # "error"
  BY CombDomains DEF CombInv, CombTypes
<1>m. ~Marked
  <2>1. \A j \in W!Inputs : ~Sets(j)
    BY DEF Sets
  <2> QED
    BY <2>1 DEF CombInv, CombWinner
<1>v. \A j \in W!Inputs : /\ Decided(j) /\ Consumed(j) /\ val[j] = result[W!Core(j)]
                          /\ result[W!Core(j)] # None
                          /\ W!Kind = "AllTuple" /\ (W!Fail = "None" \/ val[j] = "value") => tuple[j] = val[j]
  BY DEF CombInv, CombValues, CombStages, Decided, Consumed
<1>w. \A j \in W!Inputs : /\ W!Kind = "Any" => val[j] = "error" /\ W!Fail # "None"
                          /\ AnyFirst => word # 0
                          /\ W!Kind # "Any" /\ W!Fail = "FirstFail" => val[j] = "value"
  BY <1>m, <1>v DEF CombInv, CombWord
<1>k. /\ W!Kind \in {"All", "AllTuple", "Join", "Any"}
      /\ W!Fail \in {"None", "FirstFail", "LastFail"}
      /\ W!Fail = "LastFail" => W!Kind = "Any"
      /\ strategy = <<"Any", "FirstFail">> <=> AnyFirst
  BY CombKinds DEF CombInv, CombTypes
<1>n. PICK i : i \in W!Inputs
  <2>1. W!Inputs # {}
    <3>1. n # 0 /\ W!Inputs = 1 .. n /\ n \in Nat
      <4>1. crefs # 0 /\ crefs = Cardinality(Pending)
        BY DEF Destroyed, CombInv, CombCount
      <4>2. Pending \in SUBSET W!Inputs
        BY DEF Pending
      <4> QED
        BY <4>1, <4>2, CombFinite, CombDomains DEF CombInv, CombTypes
    <3> QED
      BY <3>1
  <2> QED
    BY <2>1
<1>c. W!Completed' = W!Inputs'
  BY <1>v, <1>f DEF W!Completed
<1>1. CASE W!Kind # "Any"
  <2>1. W!Fail = "None" \/ W!Failed' = {}
    <3>1. W!Fail = "FirstFail" => \A j \in W!Inputs : result[W!Core(j)] # "error"
      BY <1>1, <1>w, <1>v
    <3>2. W!Fail = "FirstFail" => W!Failed' = {}
      BY <3>1, <1>f DEF W!Failed
    <3> QED
      BY <3>2, <1>k, <1>1
  <2>0. strategy # <<"Any", "FirstFail">>
    BY <1>1, <1>k DEF AnyFirst
  <2>2. CASE W!Kind = "Join"
    <3>1. o = [each |-> <<>>]
      BY <2>0, <2>2 DEF W!Final
    <3>2. "each" \in DOMAIN o /\ "of" \notin DOMAIN o
      BY <3>1
    <3> QED
      BY <3>2, <2>1, <2>2, <1>c, <1>f DEF W!Allowed
  <2>3. CASE W!Kind # "Join"
    <3>1. o = [each |-> [j \in W!Inputs |-> result[W!Core(j)]]]
      <4>1. CASE W!Kind = "All"
        <5>1. o = [each |-> [j \in W!Inputs |-> W!Get(W!Core(j))]]
          BY <2>0, <4>1 DEF W!Final
        <5>2. \A j \in W!Inputs : ~Released(j)
          BY <4>1 DEF Released, W!Owned
        <5>3. \A j \in W!Inputs : W!Get(W!Core(j)) = result[W!Core(j)]
          BY <5>2, CoreThere
        <5>4. [j \in W!Inputs |-> W!Get(W!Core(j))] = [j \in W!Inputs |-> result[W!Core(j)]]
          BY <5>3
        <5> QED
          BY <5>1, <5>4
      <4>2. CASE W!Kind = "AllTuple"
        <5>1. o = [each |-> [j \in W!Inputs |-> tuple[j]]]
          BY <2>0, <4>2 DEF W!Final
        <5>2. W!Fail = "None" \/ W!Fail = "FirstFail"
          BY <1>1, <1>k
        <5>3. \A j \in W!Inputs : tuple[j] = result[W!Core(j)]
          BY <5>2, <4>2, <1>w, <1>v
        <5>4. [j \in W!Inputs |-> tuple[j]] = [j \in W!Inputs |-> result[W!Core(j)]]
          BY <5>3
        <5> QED
          BY <5>1, <5>4
      <4> QED
        BY <4>1, <4>2, <2>3, <1>1, <1>k
    <3>2. "each" \in DOMAIN o /\ "of" \notin DOMAIN o /\ o.each = [j \in W!Inputs |-> result[W!Core(j)]]
      BY <3>1
    <3>3. o.each = [j \in W!Inputs |-> result[W!Core(j)]]'
      <4>1. [j \in W!Inputs |-> result[W!Core(j)]]' = [j \in W!Inputs |-> result[W!Core(j)]]
        BY <1>f
      <4> QED
        BY <4>1, <3>2
    <3> QED
      BY <3>2, <3>3, <2>1, <2>3, <1>c, <1>f DEF W!Allowed
  <2> QED
    BY <2>2, <2>3
<1>2. CASE W!Kind = "Any"
  <2>1. W!Fail # "None" /\ val[i] = "error"
    BY <1>2, <1>w, <1>n
  <2>2. W!Fail # "LastFail"
    <3>1. SUFFICES ASSUME W!Fail = "LastFail" PROVE FALSE
      OBVIOUS
    <3>2. Undecided = {}
      BY <1>v DEF Undecided
    <3>3. ~W!Odd(word) => word = 2 * Cardinality(Undecided)
      BY <3>1 DEF CombInv, CombWord
    <3>4. Cardinality(Undecided) = 0
      BY <3>2, FS_EmptySet
    <3> QED
      BY <3>1, <3>3, <3>4, <1>m DEF Marked
  <2>3. AnyFirst
    BY <2>1, <2>2, <1>2, <1>k DEF AnyFirst
  <2>4. error # None
    <3>1. word \in 0 .. 3 /\ word # 0 /\ ~W!Odd(word)
      BY <2>2, <2>3, <1>w, <1>n, <1>m DEF CombInv, CombWord, Marked
    <3>2. word = 2
      BY <3>1 DEF W!Odd
    <3> QED
      BY <3>2, <2>3 DEF CombInv, CombError
  <2>5. error \in W!Inputs
    BY <2>4 DEF CombInv, CombTypes
  <2>6. o = [of |-> error, val |-> "error"]
    BY <2>3, <1>2, <1>k DEF W!Final
  <2>7. "each" \notin DOMAIN o /\ "of" \in DOMAIN o /\ o.of = error /\ o.val = "error"
    BY <2>6
  <2>8. \A j \in W!Inputs : result[W!Core(j)] = "error"
    BY <1>2, <1>v, <1>w
  <2>9. W!Failed' = W!Inputs'
    BY <2>8, <1>f DEF W!Failed
  <2>10. o.val = result'[W!Core(o.of)']
    BY <2>5, <2>7, <2>8, <1>f
  <2> QED
    BY <2>2, <2>5, <2>7, <2>9, <2>10, <1>2, <1>d, <1>f DEF W!Allowed
<1> QED
  BY <1>1, <1>2

\* An input is done; the last one destroys the combinator.
LEMMA CombDecRef ==
    ASSUME W!ConstantsAssumption, CombInv, NEW i \in W!Inputs, W!DecRef(i)
    PROVE  CombInv'
<1>z. /\ at[i] = "decref" /\ at' = [at EXCEPT ![i] = "done"] /\ crefs' = crefs - 1
      /\ pos' = (IF pos = i THEN pos + 1 ELSE pos)
      /\ UNCHANGED W!input
      /\ UNCHANGED <<result, held, dispatch, val, word, error, tuple>>
      /\ IF crefs = 1 THEN W!Destroy ELSE UNCHANGED <<out, refs, moved>>
  BY DEF W!DecRef, W!state
<1>f. /\ W!Inputs' = W!Inputs /\ (\A j : W!Core(j)' = W!Core(j)) /\ dup' = dup /\ n' = n
      /\ W!Kind' = W!Kind /\ W!Fail' = W!Fail /\ (W!Owned' <=> W!Owned) /\ (AnyFirst' <=> AnyFirst)
  BY <1>z, CombFixed
<1>d. /\ MaxInputs \in Nat /\ n \in 0 .. MaxInputs /\ W!Inputs = 1 .. n /\ i \in 1 .. MaxInputs
      /\ W!Inputs \subseteq 1 .. MaxInputs
  BY CombDomains DEF CombInv, CombTypes
<1>t. /\ CombInput /\ pos \in 0 .. n + 1 /\ crefs \in Nat
      /\ at \in [1 .. MaxInputs ->
                   {"waiting", "attached", "queued", "consume", "rmw", "act", "decref", "done"}]
  BY DEF CombInv, CombTypes
<1>p. pos # 0 /\ crefs > 0 /\ ~Destroyed /\ pos' # 0
  BY <1>z, <1>t, <1>d, CombThere
<1>a. /\ at' \in [1 .. MaxInputs ->
                   {"waiting", "attached", "queued", "consume", "rmw", "act", "decref", "done"}]
      /\ at'[i] = "done" /\ \A j \in W!Inputs : j # i => at'[j] = at[j]
  BY <1>z, <1>d, <1>t
<1>r. Ripens
  BY <1>a, <1>z DEF Ripens
<1>s. /\ \A j \in W!Inputs : (Consumed(j)' <=> Consumed(j)) /\ (Decided(j)' <=> Decided(j)) /\ (Sets(j)' <=> Sets(j))
      /\ \A j \in W!Inputs : /\ at'[j] = "act" <=> at[j] = "act"
                             /\ at'[j] = "rmw" <=> at[j] = "rmw"
  BY <1>a, <1>z, <1>f DEF Consumed, Decided, Sets
<1>2. CombStages'
  <2>1. SUFFICES ASSUME NEW j \in W!Inputs
                 PROVE  /\ j > pos' => at'[j] = "waiting"
                        /\ j = pos' => at'[j] \in {"waiting", "consume", "rmw", "act", "decref"}
                        /\ j < pos' => at'[j] # "waiting"
                        /\ at'[j] = "attached" => result[W!Core(j)] = None
                        /\ at'[j] = "queued" => j \in dup
                        /\ at'[j] \notin {"waiting", "attached"} => result[W!Core(j)] # None
    BY <1>p, <1>f, <1>z DEF CombStages
  <2>2. /\ j > pos => at[j] = "waiting"
        /\ j = pos => at[j] \in {"waiting", "consume", "rmw", "act", "decref"}
        /\ j < pos => at[j] # "waiting"
        /\ at[j] = "attached" => result[W!Core(j)] = None
        /\ at[j] = "queued" => j \in dup
        /\ at[j] \notin {"waiting", "attached"} => result[W!Core(j)] # None
    BY DEF CombInv, CombStages
  <2>3. j \in Int /\ i \in Int /\ pos \in Int
    BY <1>d, <1>t
  <2>4. CASE j = i
    <3>1. ~(i > pos)
      BY <2>2, <2>4, <1>z
    <3>2. i < pos'
      BY <3>1, <2>3, <1>z
    <3>3. pos' \in Int
      BY <2>3, <1>z
    <3> QED
      BY <2>2, <2>4, <3>2, <3>3, <2>3, <1>a, <1>z
  <2>5. CASE j # i
    <3>1. at'[j] = at[j]
      BY <2>5, <1>a
    <3>2. CASE pos = i
      <4>1. pos' = i + 1 /\ (j > pos' => j > pos) /\ (j = pos' => j > pos) /\ (j < pos' => j < pos)
        BY <3>2, <2>3, <2>5, <1>z
      <4> QED
        BY <4>1, <3>1, <2>2
    <3>3. CASE pos # i
      BY <3>3, <3>1, <2>2, <1>z
    <3> QED
      BY <3>2, <3>3
  <2> QED
    BY <2>4, <2>5
<1>c. /\ Pending' = Pending \ {i} /\ i \in Pending /\ Pending \in SUBSET W!Inputs
      /\ crefs = Cardinality(Pending) /\ Cardinality(Pending') = Cardinality(Pending) - 1
  <2>1. Pending' = Pending \ {i} /\ i \in Pending /\ Pending \in SUBSET W!Inputs
    BY <1>a, <1>z, <1>f DEF Pending
  <2>2. crefs = Cardinality(Pending)
    BY <1>p DEF CombInv, CombCount
  <2> QED
    BY <2>1, <2>2, <1>t, CombFinite
<1>3. CombCount'
  BY <1>c, <1>z DEF CombCount
<1>e. Destroyed' <=> crefs = 1
  BY <1>p, <1>z, <1>t DEF Destroyed
<1>4. CombCores' /\ refs' \in [0 .. MaxInputs -> Int] /\ moved' \subseteq 0 .. MaxInputs
  <2>1. CASE crefs = 1 /\ W!Owned
    BY <2>1, <1>e, <1>p, <1>z, AllReleases DEF W!Destroy
  <2>2. CASE ~(crefs = 1 /\ W!Owned)
    <3>1. UNCHANGED <<refs, moved>>
      BY <2>2, <1>z DEF W!Destroy
    <3>2. \A j \in W!Inputs : Released(j)' <=> Released(j)
      BY <2>2, <1>e, <1>p, <1>s, <1>f DEF Released
    <3> QED
      BY <3>1, <3>2, <1>r, <1>z, CoresKept DEF CombInv, CombTypes
  <2> QED
    BY <2>1, <2>2
<1>1. CombTypes'
  <2>1. CombInput'
    BY <1>t, <1>z, InputKept DEF CombInput
  <2>2. pos' \in 0 .. n + 1 /\ crefs' \in Nat
    BY <1>p, <1>t, <1>z, <1>d
  <2> QED
    BY <2>1, <2>2, <1>4, <1>a, <1>z, <1>f DEF CombInv, CombTypes
<1>5. CombValues'
  BY <1>s, <1>z, <1>f DEF CombInv, CombValues
<1>6. Marked' <=> Marked
  BY <1>f, <1>p, <1>z DEF Marked, W!Odd
<1>l. crefs = 1 => \A j \in W!Inputs : at[j] \in {"decref", "done"} /\ ~Sets(j)
  <2>1. SUFFICES ASSUME crefs = 1, NEW j \in W!Inputs
                 PROVE  at[j] \in {"decref", "done"} /\ ~Sets(j)
    OBVIOUS
  <2>2. PICK u : Pending = {u}
    BY <2>1, <1>c, <1>t, CombFinite, FS_Singleton
  <2>3. Pending = {i}
    BY <2>2, <1>c
  <2>4. j = i \/ at[j] = "done"
    BY <2>3 DEF Pending
  <2> QED
    BY <2>4, <1>z DEF Sets
<1>7. CombWinner'
  <2>1. /\ \A j \in W!Inputs : Sets(j) => Marked /\ out = <<>>
        /\ \A j, k \in W!Inputs : Sets(j) /\ Sets(k) => j = k
        /\ Marked => out # <<>> \/ \E j \in W!Inputs : Sets(j)
        /\ out # <<>> => Marked
    BY <1>p DEF CombInv, CombWinner
  <2>2. CASE crefs = 1
    <3>1. Marked => out' # <<>>
      <4>1. Marked => out # <<>>
        BY <2>1, <2>2, <1>l
      <4>2. out # <<>> => out' = out
        BY <2>2, <1>z DEF W!Destroy, W!Valid
      <4> QED
        BY <4>1, <4>2
    <3>2. \A j \in W!Inputs : ~Sets(j)'
      BY <2>2, <1>l, <1>s
    <3> QED
      BY <3>1, <3>2, <2>2, <1>e, <1>6, <1>f DEF CombWinner
  <2>3. CASE crefs # 1
    <3>1. out' = out
      BY <2>3, <1>z
    <3> QED
      BY <3>1, <2>1, <1>s, <1>6, <1>f DEF CombWinner
  <2> QED
    BY <2>2, <2>3
<1>8. CombWord'
  <2>1. CombWord /\ (W!Odd(word)' <=> W!Odd(word)) /\ Undecided' = Undecided
    BY <1>s, <1>z, <1>f DEF CombInv, W!Odd, Undecided
  <2> QED
    BY <2>1, <1>p, <1>6, <1>s, <1>z, <1>f DEF CombWord
<1>9. CombError'
  <2>1. CombError /\ (error = None \/ error \in W!Inputs)
    BY DEF CombInv, CombTypes
  <2>2. error # None => at'[error] \in {"decref", "done"}
    BY <2>1, <1>a DEF CombError
  <2> QED
    BY <2>1, <2>2, <1>s, <1>z, <1>f DEF CombError
<1>10. CombOutput'
  <2>1. CASE crefs = 1 /\ out = <<>>
    <3>0. PICK o : o = W!Final
      OBVIOUS
    <3>1. out' = Append(<<>>, o)
      BY <3>0, <2>1, <1>z DEF W!Destroy, W!Valid
    <3>2. out' = <<o>> /\ out'[1] = o
      BY <3>1
    <3>3. /\ W!Allowed(o)'
          /\ "of" \in DOMAIN o => "each" \notin DOMAIN o /\ o.of \in W!Inputs /\ o.val # None
      BY <3>0, <2>1, <1>l, <1>p, <1>r, <1>z, FinalAllowed
    <3>4. W!Allowed(out[1])'
      BY <3>2, <3>3
    <3> QED
      BY <3>2, <3>3, <3>4, <1>f DEF CombOutput
  <2>2. CASE ~(crefs = 1 /\ out = <<>>)
    <3>1. out' = out
      BY <2>2, <1>z DEF W!Destroy, W!Valid
    <3> QED
      BY <3>1, <1>r, <1>t, OutputKept DEF CombInv
  <2> QED
    BY <2>1, <2>2
<1> QED
  BY <1>1, <1>2, <1>3, <1>4, <1>5, <1>7, <1>8, <1>9, <1>10 DEF CombInv

\* The state before the call.
LEMMA WhenInitial ==
    ASSUME W!ConstantsAssumption, W!Init
    PROVE  WhenInv
<1>i. /\ CombInput
      /\ result = [c \in 0 .. MaxInputs |-> None]
      /\ refs = [c \in 0 .. MaxInputs |->
                   IF c = 0 THEN (IF dup = {} THEN 0 ELSE 3 + W!Uses(0) + (IF held THEN 1 ELSE 0))
                            ELSE W!Uses(c)]
      /\ moved = {} /\ dispatch = 0
      /\ at = [i \in 1 .. MaxInputs |-> "waiting"]
      /\ val = [i \in 1 .. MaxInputs |-> None]
      /\ pos = 0 /\ crefs = 0 /\ word = 0 /\ error = None
      /\ tuple = [i \in 1 .. MaxInputs |-> None] /\ out = <<>>
  BY DEF W!Init, CombInput
<1>d. /\ MaxInputs \in Nat \ {0} /\ n \in 0 .. MaxInputs /\ W!Inputs \subseteq 1 .. MaxInputs
      /\ dup \subseteq W!Inputs /\ Word \in Nat /\ Word > 2 * MaxInputs
  BY <1>i, CombDomains
<1>a. /\ \A i \in 1 .. MaxInputs : at[i] = "waiting"
      /\ \A i \in W!Inputs : ~Consumed(i) /\ ~Decided(i) /\ ~Sets(i)
  BY <1>i, <1>d DEF Consumed, Decided, Sets
<1>u. /\ \A c \in 1 .. MaxInputs : W!Uses(c) = IF c \in W!Inputs \ dup THEN 1 ELSE 0
      /\ W!Uses(0) = Cardinality(dup) /\ Cardinality(dup) \in Nat
      /\ Cardinality(dup) = 0 <=> dup = {}
  BY <1>i, <1>d, UsesOf, CombFinite
<1> DEFINE h == IF held THEN 1 ELSE 0
<1>h. h \in 0 .. 1 /\ (dup = {} => h = 0)
  BY <1>i DEF CombInput
<1>r. /\ \A c \in 1 .. MaxInputs : refs[c] = IF c \in W!Inputs \ dup THEN 1 ELSE 0
      /\ refs[0] = IF dup = {} THEN 0 ELSE 3 + Cardinality(dup) + h
  BY <1>i, <1>d, <1>u
<1>t. refs \in [0 .. MaxInputs -> Nat]
  <2> HIDE DEF h
  <2>1. refs[0] \in Nat
    BY <1>r, <1>u, <1>h
  <2>2. \A c \in 0 .. MaxInputs : refs[c] \in Nat
    <3>1. SUFFICES ASSUME NEW c \in 0 .. MaxInputs PROVE refs[c] \in Nat
      OBVIOUS
    <3>2. CASE c = 0
      BY <3>2, <2>1
    <3>3. CASE c # 0
      <4>1. c \in 1 .. MaxInputs
        BY <3>3
      <4> QED
        BY <4>1, <1>r
    <3> QED
      BY <3>2, <3>3
  <2>3. DOMAIN refs = 0 .. MaxInputs /\ refs = [c \in DOMAIN refs |-> refs[c]]
    BY <1>i
  <2> QED
    BY <2>2, <2>3
<1>1. PassedInv
  <2>1. result \in [0 .. MaxInputs -> {None, "value", "error"}]
    BY <1>i
  <2>2. DOMAIN at = 1 .. MaxInputs /\ at[1] = "waiting"
    BY <1>i, <1>d, <1>a
  <2> QED
    BY <2>1, <2>2, <1>t, <1>i DEF PassedInv
<1>2. CombTypes
  <2>1. refs \in [0 .. MaxInputs -> Int]
    BY <1>t
  <2>2. pos \in 0 .. n + 1 /\ word \in 0 .. Word - 1 /\ crefs \in Nat /\ dispatch \in 0 .. 3
    BY <1>i, <1>d
  <2>3. result \in [0 .. MaxInputs -> {None, "value", "error"}]
    BY <1>i
  <2>4. at \in [1 .. MaxInputs ->
                {"waiting", "attached", "queued", "consume", "rmw", "act", "decref", "done"}]
    BY <1>i
  <2>5. DOMAIN val = 1 .. MaxInputs /\ DOMAIN tuple = 1 .. MaxInputs
    BY <1>i
  <2>6. moved \subseteq 0 .. MaxInputs /\ error \in W!Inputs \cup {None} /\ CombInput
    BY <1>i
  <2> QED
    BY <2>1, <2>2, <2>3, <2>4, <2>5, <2>6 DEF CombTypes
<1>3. CombStages
  <2>1. \A i \in W!Inputs : at[i] = "waiting" /\ i > 0 /\ i \in Int
    BY <1>a, <1>d
  <2> QED
    BY <2>1, <1>i DEF CombStages
<1>4. CombCount
  BY <1>i DEF CombCount
<1>5. CombCores
  <2>1. \A i \in W!Inputs : ~Released(i)
    BY <1>a, <1>i DEF Released, Destroyed
  <2>2. Sharing = dup
    BY <2>1, <1>d DEF Sharing
  <2>3. result[0] = None
    BY <1>i, <1>d
  <2>4. refs[0] = Cardinality(Sharing) + (IF dup # {} /\ result[0] = None THEN 3 ELSE dispatch) + h
    <3> HIDE DEF h
    <3>1. CASE dup = {}
      BY <3>1, <2>2, <1>r, <1>u, <1>h, <1>i
    <3>2. CASE dup # {}
      BY <3>2, <2>2, <2>3, <1>r, <1>u, <1>h
    <3> QED
      BY <3>1, <3>2
  <2> QED
    BY <2>1, <2>4, <1>r, <1>i DEF CombCores
<1>6. CombValues
  BY <1>a DEF CombValues
<1>7. ~Marked
  BY <1>i DEF Marked, W!Odd
<1>8. CombWinner
  BY <1>7, <1>a, <1>i DEF CombWinner
<1>9. CombWord
  <2>1. \A i \in W!Inputs : at[i] = "waiting"
    BY <1>a, <1>d
  <2>2. word \in {0, 1} /\ word \in 0 .. 3 /\ pos = 0
    BY <1>i
  <2>3. \A i \in W!Inputs : ~Decided(i)
    BY <1>a
  <2> QED
    BY <2>1, <2>2, <2>3 DEF CombWord
<1>10. CombError /\ CombOutput
  BY <1>i DEF CombError, CombOutput
<1> QED
  BY <1>1, <1>2, <1>3, <1>4, <1>5, <1>6, <1>8, <1>9, <1>10 DEF WhenInv, CombInv

\* The output that is the input: only its producer does anything.
LEMMA PassedStep ==
    ASSUME W!ConstantsAssumption, PassedInv, W!Passed, W!Next
    PROVE  PassedInv'
<1>d. MaxInputs \in Nat \ {0} /\ W!Inputs = {1} /\ dup = {} /\ ~held /\ None # "value" /\ None # "error"
  <2>1. n = 1 /\ dup = {} /\ ~held
    BY DEF W!Passed, PassedInv, CombInput
  <2> QED
    BY <2>1, CombDomains DEF PassedInv
<1>t. /\ CombInput /\ pos \in {0, 2} /\ crefs = 0 /\ moved = {} /\ dispatch = 0
      /\ result \in [0 .. MaxInputs -> {None, "value", "error"}]
      /\ DOMAIN at = 1 .. MaxInputs /\ 1 \in DOMAIN at
  BY <1>d DEF PassedInv
<1>a. /\ pos = 0 => at[1] = "waiting"
      /\ pos = 2 => at[1] \in {"passed", "done"}
      /\ at[1] = "done" => result[1] # None /\ out = <<[of |-> 1, val |-> result[1]]>>
      /\ at[1] # "done" => out = <<>>
  BY DEF PassedInv
<1>1. CASE W!Call
  <2>1. /\ pos = 0 /\ pos' = 2 /\ crefs' = 0 /\ at' = [at EXCEPT ![1] = "passed"]
        /\ UNCHANGED W!input /\ UNCHANGED <<result, refs, moved, held, dispatch, out>>
    BY <1>1 DEF W!Call, W!cores
  <2>2. DOMAIN at' = 1 .. MaxInputs /\ at'[1] = "passed"
    BY <2>1, <1>t
  <2>3. CombInput'
    BY <2>1, <1>t, InputKept DEF CombInput
  <2>4. out' = <<>>
    BY <2>1, <1>a
  <2> QED
    BY <2>1, <2>2, <2>3, <2>4 DEF PassedInv
<1>2. CASE \E r \in {"value", "error"}, c \in W!Inputs : W!FulfilUnique(c, r)
  <2>1. PICK r \in {"value", "error"} : W!FulfilUnique(1, r)
    BY <1>2, <1>d
  <2>2. /\ result[1] = None /\ result' = [result EXCEPT ![1] = r]
        /\ at' = CASE at[1] = "attached" -> [at EXCEPT ![1] = "consume"]
                   [] at[1] = "passed" -> [at EXCEPT ![1] = "done"]
                   [] OTHER -> at
        /\ out' = IF at[1] = "passed" THEN <<[of |-> 1, val |-> r]>> ELSE out
        /\ UNCHANGED W!input /\ UNCHANGED <<refs, moved, held, dispatch, pos, crefs>>
    BY <2>1 DEF W!FulfilUnique
  <2>3. CombInput'
    BY <2>2, <1>t, InputKept DEF CombInput
  <2>4. result' \in [0 .. MaxInputs -> {None, "value", "error"}] /\ result'[1] = r /\ r # None
    BY <2>2, <1>t, <1>d
  <2>5. CASE at[1] = "passed"
    <3>1. DOMAIN at' = 1 .. MaxInputs /\ at'[1] = "done" /\ pos = 2
      BY <2>2, <2>5, <1>t, <1>a
    <3>2. out' = <<[of |-> 1, val |-> result'[1]]>>
      BY <2>2, <2>4, <2>5
    <3> QED
      BY <3>1, <3>2, <2>2, <2>3, <2>4 DEF PassedInv
  <2>6. CASE at[1] = "waiting"
    <3>1. at' = at /\ out' = out /\ out = <<>> /\ pos = 0
      BY <2>2, <2>6, <1>a, <1>t
    <3> QED
      BY <3>1, <2>2, <2>3, <2>4, <2>6, <1>t DEF PassedInv
  <2>7. at[1] \in {"waiting", "passed"}
    BY <2>2, <1>a, <1>t
  <2> QED
    BY <2>5, <2>6, <2>7
<1>3. ~W!SetCore
  BY <1>t, <1>d DEF W!SetCore
<1>4. ~W!Dispatch
  BY <1>t DEF W!Dispatch
<1>5. ~W!DropHandle
  BY <1>d DEF W!DropHandle
<1>6. \A i \in W!Inputs : ~(W!Consume(i) \/ W!Rmw(i) \/ W!Act(i) \/ W!DecRef(i))
  <2>1. at[1] \in {"waiting", "passed", "done"}
    BY <1>a, <1>t
  <2> QED
    BY <2>1, <1>d DEF W!Consume, W!Rmw, W!Act, W!DecRef
<1>7. \A r : ~W!FulfilShared(r)
  BY <1>d DEF W!FulfilShared
<1> QED
  BY <1>1, <1>2, <1>3, <1>4, <1>5, <1>6, <1>7 DEF W!Next, W!Steps

\* Every step of the combinators, and a step that changes nothing.
LEMMA WhenStep ==
    ASSUME W!ConstantsAssumption, WhenInv, [W!Next]_W!vars
    PROVE  WhenInv'
<1>1. CASE UNCHANGED W!vars
  <2>1. UNCHANGED <<strategy, dynamic, n, dup, result, refs, moved, held, dispatch, at, val, pos,
                    crefs, word, error, tuple, out>>
    BY <1>1 DEF W!vars, W!input, W!cores, W!state
  <2>2. UNCHANGED W!input
    BY <2>1 DEF W!input
  <2>3. (W!Passed' <=> W!Passed) /\ W!Inputs' = W!Inputs /\ (\A j : W!Core(j)' = W!Core(j))
    BY <2>2, CombFixed
  <2>4. CASE W!Passed
    <3>1. CombInput'
      BY <2>1, <2>2, <2>4, InputKept DEF WhenInv, PassedInv, CombInput
    <3> QED
      BY <3>1, <2>1, <2>3, <2>4 DEF WhenInv, PassedInv
  <2>5. CASE ~W!Passed
    <3>1. CombInv
      BY <2>5 DEF WhenInv
    <3>2. Calm /\ Ripens
      BY <2>1, <2>2 DEF Calm, Ripens
    <3>3. /\ CombCount' /\ CombValues' /\ CombWinner' /\ CombWord' /\ CombError' /\ CombOutput'
          /\ \A i \in W!Inputs : Released(i)' <=> Released(i)
      BY <3>1, <3>2, CombCalm
    <3>4. CombCores'
      BY <3>1, <3>2, <3>3, <2>1, CoresKept
    <3>5. CombInput'
      BY <3>1, <2>1, <2>2, InputKept DEF CombInv, CombTypes, CombInput
    <3>6. CombTypes' /\ CombStages'
      BY <3>1, <3>5, <2>1, <2>3 DEF CombInv, CombTypes, CombStages
    <3> QED
      BY <3>3, <3>4, <3>6, <2>3, <2>5 DEF WhenInv, CombInv
  <2> QED
    BY <2>4, <2>5
<1>2. CASE W!Next
  <2>1. UNCHANGED W!input
    BY <1>2 DEF W!Next, W!Steps, W!Call, W!SetCore, W!Dispatch, W!Consume, W!Rmw, W!Act, W!DecRef,
                W!FulfilShared, W!FulfilUnique, W!DropHandle
  <2>2. W!Passed' <=> W!Passed
    BY <2>1, CombFixed
  <2>3. CASE W!Passed
    BY <1>2, <2>2, <2>3, PassedStep DEF WhenInv
  <2>4. CASE ~W!Passed
    <3>1. CombInv
      BY <2>4 DEF WhenInv
    <3>2. CASE W!Call
      BY <3>1, <3>2, <2>4, CombCall, <2>2 DEF WhenInv
    <3>3. CASE W!SetCore
      BY <3>1, <3>3, <2>4, CombSetCore, <2>2 DEF WhenInv
    <3>4. CASE W!Dispatch
      BY <3>1, <3>4, <2>4, CombDispatch, <2>2 DEF WhenInv
    <3>5. CASE \E i \in W!Inputs : W!Consume(i)
      BY <3>1, <3>5, <2>4, CombConsume, <2>2 DEF WhenInv
    <3>6. CASE \E i \in W!Inputs : W!Rmw(i)
      BY <3>1, <3>6, <2>4, CombRmw, <2>2 DEF WhenInv
    <3>7. CASE \E i \in W!Inputs : W!Act(i)
      BY <3>1, <3>7, <2>4, CombAct, <2>2 DEF WhenInv
    <3>8. CASE \E i \in W!Inputs : W!DecRef(i)
      BY <3>1, <3>8, <2>4, CombDecRef, <2>2 DEF WhenInv
    <3>9. CASE \E r \in {"value", "error"} : W!FulfilShared(r)
      BY <3>1, <3>9, <2>4, CombFulfilShared, <2>2 DEF WhenInv
    <3>10. CASE \E r \in {"value", "error"}, c \in W!Inputs : W!FulfilUnique(c, r)
      BY <3>1, <3>10, <2>4, CombFulfilUnique, <2>2 DEF WhenInv
    <3>11. CASE W!DropHandle
      BY <3>1, <3>11, <2>4, CombDropHandle, <2>2 DEF WhenInv
    <3> QED
      BY <1>2, <3>2, <3>3, <3>4, <3>5, <3>6, <3>7, <3>8, <3>9, <3>10, <3>11 DEF W!Next, W!Steps
  <2> QED
    BY <2>3, <2>4
<1> QED
  BY <1>1, <1>2

\* WhenInv holds in every reachable state, for every number of inputs, every
\* mix of futures and copies of a shared future, and every strategy.
THEOREM WhenInvariance ==
    ASSUME W!ConstantsAssumption
    PROVE  W!Spec => []WhenInv
<1>1. W!Init => WhenInv
  BY WhenInitial
<1>2. WhenInv /\ [W!Next]_W!vars => WhenInv'
  BY WhenStep
<1> QED
  BY <1>1, <1>2, PTL DEF W!Spec

\* OutputAllowed for every number of inputs: the promise is set at most once,
\* to what the policy of the strategy promises, and to results that nobody had
\* moved out of their core.
THEOREM CombinatorsKeepTheirPolicy ==
    ASSUME W!ConstantsAssumption
    PROVE  W!Spec => []W!OutputAllowed
<1>1. WhenInv => W!OutputAllowed
  <2>1. SUFFICES ASSUME WhenInv PROVE W!OutputAllowed
    OBVIOUS
  <2>2. CASE out = <<>>
    BY <2>2 DEF W!OutputAllowed
  <2>3. CASE out # <<>> /\ ~W!Passed
    <3>1. out = <<out[1]>> /\ W!Allowed(out[1])
      BY <2>1, <2>3 DEF WhenInv, CombInv, CombOutput
    <3>2. Len(out) = 1 /\ DOMAIN out = {1}
      BY <3>1
    <3> QED
      BY <3>1, <3>2 DEF W!OutputAllowed
  <2>4. CASE out # <<>> /\ W!Passed
    <3>1. /\ result[1] # None /\ out = <<[of |-> 1, val |-> result[1]]>>
      BY <2>1, <2>4 DEF WhenInv, PassedInv
    <3>2. W!Kind = "Any" /\ W!Inputs = {1} /\ W!Core(1) = 1
      BY <2>4 DEF W!Passed, W!Inputs, W!Core
    <3>3. PICK o : o = [of |-> 1, val |-> result[1]]
      OBVIOUS
    <3>4. "each" \notin DOMAIN o /\ "of" \in DOMAIN o /\ o.of = 1 /\ o.val = result[1]
      BY <3>3
    <3>5. result[1] = "error" => W!Failed = W!Inputs
      BY <3>2 DEF W!Failed
    <3>6. W!Allowed(o)
      BY <3>2, <3>4, <3>5 DEF W!Allowed
    <3>7. Len(out) = 1 /\ DOMAIN out = {1} /\ out[1] = o
      BY <3>1, <3>3
    <3> QED
      BY <3>6, <3>7 DEF W!OutputAllowed
  <2> QED
    BY <2>2, <2>3, <2>4
<1> QED
  BY <1>1, WhenInvariance, PTL

\* NothingUsedAfterRelease for every number of inputs: the combinator outlives
\* its callbacks and every Consume, a core outlives the inputs that read it,
\* and nobody moves a result out of a core the user still has a copy of.
THEOREM CombinatorsOutliveTheirCallbacks ==
    ASSUME W!ConstantsAssumption
    PROVE  W!Spec => []W!NothingUsedAfterRelease
<1>1. WhenInv => W!NothingUsedAfterRelease
  <2>1. SUFFICES ASSUME WhenInv PROVE W!NothingUsedAfterRelease
    OBVIOUS
  <2>2. CASE W!Passed
    <3>1. PassedInv /\ W!Inputs = {1} /\ dup = {} /\ ~held
      BY <2>1, <2>2 DEF WhenInv, PassedInv, CombInput, W!Passed, W!Inputs
    <3>2. at[1] \in {"waiting", "passed", "done"} /\ pos \notin W!Inputs
      BY <3>1 DEF PassedInv
    <3>3. \A c \in DOMAIN refs : refs[c] >= 0
      BY <3>1 DEF PassedInv
    <3> QED
      BY <3>1, <3>2, <3>3 DEF W!NothingUsedAfterRelease
  <2>3. CASE ~W!Passed
    <3>i. CombInv /\ CombInput
      BY <2>1, <2>3 DEF WhenInv, CombInv, CombTypes
    <3>d. dup \subseteq W!Inputs /\ W!Inputs = 1 .. n /\ n \in Nat /\ MaxInputs \in Nat
      BY <3>i, CombDomains
    <3>1. pos \in W!Inputs => crefs > 0
      <4>1. SUFFICES ASSUME pos \in W!Inputs PROVE crefs > 0
        OBVIOUS
      <4>2. pos # 0 /\ pos \in Pending /\ Pending \in SUBSET W!Inputs
        BY <4>1, <3>i, <3>d DEF CombInv, CombStages, Pending
      <4>3. Cardinality(Pending) # 0 /\ Cardinality(Pending) \in Nat
        BY <4>2, <3>i, CombFinite
      <4> QED
        BY <4>2, <4>3, <3>i DEF CombInv, CombCount
    <3>2. \A i \in W!Inputs :
            at[i] \in {"attached", "queued", "consume", "rmw", "act", "decref"} => crefs > 0
      BY <3>i, CombThere
    <3>3. \A i \in W!Inputs : at[i] = "consume" => refs[W!Core(i)] > 0
      <4>1. SUFFICES ASSUME NEW i \in W!Inputs, at[i] = "consume" PROVE refs[W!Core(i)] > 0
        OBVIOUS
      <4>2. ~Released(i)
        BY <4>1, <3>i, CombThere DEF Released, Consumed
      <4> QED
        BY <4>2, <3>i, CoreThere
    <3>4. refs[0] >= 0 /\ (held => refs[0] # 0)
      <4> DEFINE p == IF dup # {} /\ result[0] = None THEN 3 ELSE dispatch
                 h == IF held THEN 1 ELSE 0
      <4>1. p \in 0 .. 3 /\ h \in 0 .. 1 /\ (held => h = 1)
        BY <3>i DEF CombInv, CombTypes
      <4>2. refs[0] = Cardinality(Sharing) + p + h
        BY <3>i DEF CombInv, CombCores
      <4>3. Cardinality(Sharing) \in Nat
        <5>1. Sharing \in SUBSET W!Inputs
          BY <3>d DEF Sharing
        <5> QED
          BY <5>1, <3>i, CombFinite
      <4> HIDE DEF p, h
      <4> QED
        BY <4>1, <4>2, <4>3
    <3>5. \A c \in DOMAIN refs : refs[c] >= 0
      <4>1. DOMAIN refs = 0 .. MaxInputs
        BY <3>i DEF CombInv, CombTypes
      <4>2. \A c \in 1 .. MaxInputs : refs[c] >= 0
        BY <3>i DEF CombInv, CombCores
      <4>3. \A c \in 0 .. MaxInputs : c = 0 \/ c \in 1 .. MaxInputs
        BY <3>d
      <4> QED
        BY <4>1, <4>2, <4>3, <3>4
    <3>6. held => 0 \notin moved
      BY <3>4, <3>i DEF CombInv, CombCores
    <3>7. \A i, j \in dup : i # j => W!Callback(i) # W!Callback(j)
      <4>1. SUFFICES ASSUME NEW i \in dup, NEW j \in dup, i # j PROVE W!Callback(i) # W!Callback(j)
        OBVIOUS
      <4>2. ~W!SingleCombinator
        BY <4>1, <3>d DEF W!SingleCombinator
      <4> QED
        BY <4>1, <4>2 DEF W!Callback
    <3> QED
      BY <3>1, <3>2, <3>3, <3>5, <3>6, <3>7 DEF W!NothingUsedAfterRelease
  <2> QED
    BY <2>2, <2>3
<1> QED
  BY <1>1, WhenInvariance, PTL
=============================================================================
