-------------------------------- MODULE When --------------------------------
(***************************************************************************)
(* async/when: the combinators behind WhenAll, WhenAny and Join.           *)
(*                                                                         *)
(* A combinator takes n inputs, gives each input's core a callback and     *)
(* holds one reference per input.  The thread that calls When runs Set: it *)
(* attaches the callbacks one after another and consumes by itself every   *)
(* input whose result is there already.  The others are consumed by the    *)
(* threads that fulfil them.  Whoever drops the last reference destroys    *)
(* the strategy, which sets the promise if nobody has.                     *)
(*                                                                         *)
(* Input i is its own unique core i or, for the inputs in dup, copies of   *)
(* one SharedFuture: core 0.  held says that the user keeps another copy   *)
(* of it.  A step is one atomic access to the strategy's word, and what    *)
(* the thread does to the core before it.  Definitions named X_Word are    *)
(* faulty variants of X that show that the properties can fail; the        *)
(* specification does not use them.                                        *)
(***************************************************************************)
EXTENDS Integers, Sequences, FiniteSets, FiniteSetsExt

CONSTANTS
    MaxInputs,   \* bound on the number of inputs
    Strategies,  \* strategies to check: pairs <<strategy, FailPolicy>>
    Word,        \* modulus of the strategy's atomic word
    None

ASSUME ConstantsAssumption ==
    /\ MaxInputs \in Nat \ {0}
    /\ Strategies \subseteq ({"All", "AllTuple", "Join"} \X {"None", "FirstFail"})
                            \cup ({"Any"} \X {"None", "FirstFail", "LastFail"})
    /\ Word \in Nat /\ Word % 2 = 0 /\ Word > 2 * MaxInputs
    /\ None \notin Nat \cup {"value", "error"}

VARIABLES
    strategy,  \* the Strategy and its FailPolicy
    dynamic,   \* called with an iterator and a count, not with a pack of futures
    n,         \* number of inputs
    dup,       \* the inputs that are copies of one SharedFuture
    held,      \* the user holds another copy of it
    result,    \* core -> its result, None before
    refs,      \* core -> reference count
    moved,     \* cores whose result has been moved out
    dispatch,  \* references its SetResult has yet to drop, 0 when it does not run
    at,        \* input -> how far it has come
    val,       \* input -> the result its Consume was given
    pos,       \* Set: the input it attaches next, 0 before the call
    crefs,     \* reference count of the combinator
    word,      \* _done or _state of the strategy
    error,     \* Any<FirstFail>::_error: the input whose error it holds
    tuple,     \* AllTuple::_tuple
    out        \* what the promise was set to, every time

input == <<strategy, dynamic, n, dup>>
cores == <<result, refs, moved, held, dispatch>>
state == <<word, error, tuple>>
vars == <<input, cores, at, val, pos, crefs, state, out>>

Inputs == 1 .. n
Core(i) == IF i \in dup THEN 0 ELSE i
Uses(c) == Cardinality({i \in Inputs : Core(i) = c})
Kind == strategy[1]
Fail == strategy[2]
NoneConsumed == strategy \in {<<"All", "None">>, <<"Join", "None">>}
Owned == Kind = "All"
Valid == out = <<>>

SingleCombinator ==
    Kind # "AllTuple" /\ (dup = {} \/ (~dynamic /\ n = 1))

\* the callback node that input i's core is given; 0 is one that inputs share
Callback(i) ==
    IF SingleCombinator \/ (Kind # "AllTuple" /\ i \notin dup) THEN 0 ELSE i

Init ==
    /\ strategy \in Strategies
    /\ n \in 0 .. MaxInputs
    /\ dup \in SUBSET Inputs
    /\ dynamic \in BOOLEAN
    /\ dynamic => Kind # "AllTuple" /\ dup \in {{}, Inputs}
    /\ held \in BOOLEAN /\ (dup = {} => ~held)
    /\ result = [c \in 0 .. MaxInputs |-> None]
    /\ refs = [c \in 0 .. MaxInputs |->
                 IF c = 0 THEN (IF dup = {} THEN 0 ELSE 3 + Uses(0) + (IF held THEN 1 ELSE 0))
                          ELSE Uses(c)]
    /\ moved = {} /\ dispatch = 0
    /\ at = [i \in 1 .. MaxInputs |-> "waiting"]
    /\ val = [i \in 1 .. MaxInputs |-> None]
    /\ pos = 0 /\ crefs = 0
    /\ word = 0 /\ error = None
    /\ tuple = [i \in 1 .. MaxInputs |-> None]
    /\ out = <<>>

\* the strategy's constructor
Word0 == IF Fail = "LastFail" THEN 2 * n ELSE 0

Refs0_Off == n - 1

\* references that MakeShared gives the combinator
Refs0 == n

\* WhenAny of one future in a range is that future
Passed == dynamic /\ Kind = "Any" /\ n = 1 /\ dup = {}

\* When; without inputs it returns an invalid future and does nothing else
Call ==
    /\ pos = 0 /\ n > 0
    /\ pos' = IF Passed THEN 2 ELSE 1
    /\ crefs' = IF Passed THEN 0 ELSE Refs0
    /\ word' = Word0
    /\ at' = IF Passed THEN [at EXCEPT ![1] = "passed"] ELSE at
    /\ UNCHANGED <<input, cores, val, error, tuple, out>>

\* Set: the next input, which the caller consumes itself if it is ready
SetCore ==
    /\ pos \in Inputs /\ at[pos] = "waiting"
    /\ IF result[Core(pos)] = None
         THEN at' = [at EXCEPT ![pos] = "attached"] /\ pos' = pos + 1
         ELSE at' = [at EXCEPT ![pos] = "consume"] /\ pos' = pos
    /\ UNCHANGED <<input, cores, val, crefs, state, out>>

-----------------------------------------------------------------------------
(* The cores, as far as the combinator sees them.                          *)

\* the producer of a unique core sets its result and calls its callback
FulfilUnique(c, r) ==
    /\ c # 0 /\ Uses(c) > 0 /\ result[c] = None
    /\ result' = [result EXCEPT ![c] = r]
    /\ at' = CASE at[c] = "attached" -> [at EXCEPT ![c] = "consume"]
               [] at[c] = "passed" -> [at EXCEPT ![c] = "done"]
               [] OTHER -> at
    /\ out' = IF at[c] = "passed" THEN <<[of |-> c, val |-> r]>> ELSE out
    /\ UNCHANGED <<input, refs, moved, held, dispatch, val, pos, crefs, state>>

FulfilShared(r) ==
    /\ dup # {} /\ result[0] = None
    /\ result' = [result EXCEPT ![0] = r]
    /\ dispatch' = 3
    /\ at' = [i \in DOMAIN at |-> IF i \in dup /\ at[i] = "attached" THEN "queued" ELSE at[i]]
    /\ UNCHANGED <<input, refs, moved, held, val, pos, crefs, state, out>>

\* SetResult of the shared core calls its callbacks, the last attached first;
\* one of its three references goes before the last callback, two after it
Dispatch ==
    /\ dispatch > 0
    /\ \A i \in dup : at[i] \in {"consume", "rmw", "act", "decref"} => i = pos
    /\ LET queued == {i \in dup : at[i] = "queued"}
           drop == CASE queued = {} -> dispatch [] Cardinality(queued) = 1 -> 1 [] OTHER -> 0
       IN /\ dispatch' = dispatch - drop
          /\ refs' = [refs EXCEPT ![0] = @ - drop]
          /\ at' = IF queued = {} THEN at ELSE [at EXCEPT ![Max(queued)] = "consume"]
    /\ UNCHANGED <<input, result, moved, held, val, pos, crefs, state, out>>

\* the user's own copy goes away
DropHandle ==
    /\ held
    /\ held' = FALSE
    /\ refs' = [refs EXCEPT ![0] = @ - 1]
    /\ UNCHANGED <<input, result, moved, dispatch, at, val, pos, crefs, state, out>>

\* the result as it is found in the core
Get(c) == IF c \in moved THEN "moved" ELSE result[c]

\* the last of k calls of Retire on c moves the result out of it
Moves(c, k) == c # 0 \/ refs[c] = k

-----------------------------------------------------------------------------
(* Consume.                                                                *)

Odd(w) == w % 2 = 1

\* Consume looks at the word and leaves at once, or goes on to change it
Interested(v) ==
    CASE NoneConsumed \/ strategy = <<"AllTuple", "None">> -> FALSE
      [] strategy = <<"Any", "None">> -> word = 0
      [] strategy = <<"Any", "FirstFail">> -> IF v = "value" THEN ~Odd(word) ELSE word = 0
      [] strategy = <<"Any", "LastFail">> -> ~Odd(word)
      [] OTHER -> v = "error" /\ word = 0

\* the promise or, for All, the destructor gets the result as Retire leaves it
Consume(i) ==
    /\ at[i] = "consume"
    /\ LET c == Core(i)
           v == Get(c)
       IN /\ val' = [val EXCEPT ![i] = v]
          /\ at' = [at EXCEPT ![i] = IF Interested(v) THEN "rmw" ELSE "decref"]
          /\ IF Owned
               THEN UNCHANGED <<refs, moved>>
               ELSE /\ refs' = [refs EXCEPT ![c] = @ - 1]
                    /\ moved' = IF ~NoneConsumed /\ Moves(c, 1) THEN moved \cup {c} ELSE moved
          /\ tuple' = IF Kind = "AllTuple" /\ (Fail = "None" \/ v = "value")
                        THEN [tuple EXCEPT ![i] = v] ELSE tuple
    /\ UNCHANGED <<input, result, held, dispatch, pos, crefs, word, error, out>>

\* what the read-modify-write leaves, and whether it makes input i the winner
Exchange(w, v) == [word |-> 1, won |-> w = 0]
FetchOr(w, v) ==
    IF v = "value" THEN [word |-> IF Odd(w) THEN w ELSE w + 1, won |-> ~Odd(w)]
                   ELSE [word |-> IF w \in {2, 3} THEN w ELSE w + 2, won |-> w \notin {2, 3}]
CountDown_Store(w, v) ==
    IF v = "value" THEN [word |-> 0, won |-> ~Odd(w)]
                   ELSE [word |-> (w + Word - 2) % Word, won |-> w = 2]
CountDown(w, v) ==
    IF v = "value" THEN [word |-> 1, won |-> ~Odd(w)]
                   ELSE [word |-> (w + Word - 2) % Word, won |-> w = 2]

Change(w, v) ==
    CASE Fail = "LastFail" -> CountDown(w, v)
      [] strategy = <<"Any", "FirstFail">> -> FetchOr(w, v)
      [] OTHER -> Exchange(w, v)

Rmw(i) ==
    /\ at[i] = "rmw"
    /\ LET c == Change(word, val[i])
       IN word' = c.word /\ at' = [at EXCEPT ![i] = IF c.won THEN "act" ELSE "decref"]
    /\ UNCHANGED <<input, cores, val, pos, crefs, error, tuple, out>>

\* the winner sets the promise, or keeps the error for the destructor
Act(i) ==
    /\ at[i] = "act"
    /\ IF strategy = <<"Any", "FirstFail">> /\ val[i] = "error"
         THEN error' = i /\ UNCHANGED out
         ELSE out' = Append(out, [of |-> i, val |-> val[i]]) /\ UNCHANGED error
    /\ at' = [at EXCEPT ![i] = "decref"]
    /\ UNCHANGED <<input, cores, val, pos, crefs, word, tuple>>

\* what the destructor sets a promise to that is still valid
Final ==
    CASE Kind = "All" -> [each |-> [i \in Inputs |-> Get(Core(i))]]
      [] Kind = "AllTuple" -> [each |-> [i \in Inputs |-> tuple[i]]]
      [] Kind = "Join" -> [each |-> <<>>]
      [] strategy = <<"Any", "FirstFail">> -> [of |-> error, val |-> "error"]
      [] OTHER -> [stop |-> TRUE]

Destroy_Leak == UNCHANGED <<out, refs, moved>>

\* the destructor of the strategy; All owns its cores and releases them
Destroy ==
    /\ out' = IF Valid THEN Append(out, Final) ELSE out
    /\ IF Owned
         THEN /\ refs' = [c \in DOMAIN refs |-> refs[c] - Uses(c)]
              /\ moved' = moved \cup {c \in DOMAIN refs : Valid /\ Uses(c) > 0 /\ Moves(c, Uses(c))}
         ELSE UNCHANGED <<refs, moved>>

DecRef(i) ==
    /\ at[i] = "decref"
    /\ crefs' = crefs - 1
    /\ IF crefs = 1 THEN Destroy ELSE UNCHANGED <<out, refs, moved>>
    /\ at' = [at EXCEPT ![i] = "done"]
    /\ pos' = IF pos = i THEN pos + 1 ELSE pos
    /\ UNCHANGED <<input, result, held, dispatch, val, state>>

Steps == Call \/ SetCore \/ Dispatch \/ \E i \in Inputs : Consume(i) \/ Rmw(i) \/ Act(i) \/ DecRef(i)

Next ==
    \/ Steps
    \/ \E r \in {"value", "error"} : FulfilShared(r) \/ \E c \in Inputs : FulfilUnique(c, r)
    \/ DropHandle

Spec == Init /\ [][Next]_vars /\ WF_vars(Steps)

-----------------------------------------------------------------------------
(* Properties.                                                             *)

Failed == {i \in Inputs : result[Core(i)] = "error"}
Completed == {i \in Inputs : result[Core(i)] # None}

\* what the policy lets a future be fulfilled with
Allowed(o) ==
    CASE "each" \in DOMAIN o /\ Kind = "Join" ->
           Completed = Inputs /\ (Fail = "None" \/ Failed = {})
      [] "each" \in DOMAIN o /\ Kind # "Join" ->
           /\ o.each = [i \in Inputs |-> result[Core(i)]]
           /\ Completed = Inputs /\ (Fail = "None" \/ Failed = {})
      [] "of" \in DOMAIN o ->
           /\ o.val = result[Core(o.of)]
           /\ Kind # "Any" => o.val = "error" /\ Fail = "FirstFail"
           /\ Kind = "Any" /\ Fail # "None" /\ o.val = "error" =>
                /\ Failed = Inputs
                /\ Fail = "LastFail" => \A i \in Inputs \ {o.of} : at[i] \in {"decref", "done"}
      [] OTHER -> FALSE

\* However the inputs race, the promise is set at most once, and to what the
\* policy promises: WhenAll gives every result in the order of the inputs or
\* the error of one that failed; WhenAny gives an error only if every input
\* failed and, with LastFail, the error that arrived last.  No output was
\* moved out of a core before it was read (any.hpp, all.hpp, all_tuple.hpp,
\* join.hpp: Consume against Consume and against the destructor)
OutputAllowed == Len(out) <= 1 /\ \A k \in DOMAIN out : Allowed(out[k])

\* While Set still attaches callbacks, or a callback or a Consume may still
\* come, the combinator is there; nobody consumes a core that has been freed
\* or takes the result a SharedFuture of the user still reads; and a callback
\* node is in one list of a shared core at most once (when.hpp: Set, Impl)
NothingUsedAfterRelease ==
    /\ pos \in Inputs => crefs > 0
    /\ \A i \in Inputs : at[i] \in {"attached", "queued", "consume", "rmw", "act", "decref"} => crefs > 0
    /\ \A i \in Inputs : at[i] = "consume" => refs[Core(i)] > 0
    /\ \A c \in DOMAIN refs : refs[c] >= 0
    /\ held => 0 \notin moved
    /\ \A i, j \in dup : i # j /\ {at[i], at[j]} \subseteq {"attached", "queued"}
                        => Callback(i) # Callback(j)

\* Once every input has its result the output gets one, and every reference to
\* the combinator and the cores is dropped (when.hpp: DecRef, destructors)
EverythingSettles ==
    (pos # 0 /\ Completed = Inputs) ~>
        (Passed \/ (/\ out # <<>> /\ crefs = 0
                    /\ \A c \in DOMAIN refs : refs[c] = IF c = 0 /\ held THEN 1 ELSE 0))
=============================================================================
