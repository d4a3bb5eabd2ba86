----------------------------- MODULE SharedAwait ----------------------------
(***************************************************************************)
(* coro/detail/await_awaiter, coro/detail/promise_type: coroutines that    *)
(* co_await one SharedFuture, next to the callbacks of SharedCore.  A      *)
(* coroutine is itself the callback it links: a member of Callbacks of the *)
(* kind "coro", started by a user that holds a future.                     *)
(***************************************************************************)
EXTENDS SharedCore

\* BaseCore::Empty.
Empty == word = <<>>

\* await_resume: the coroutine reads the result, and the awaiter's own
\* SharedCorePtr goes away.
Resume(c) ==
    /\ seen' = [seen EXCEPT ![c] = IF slot = None THEN "garbage" ELSE slot]
    /\ stage' = [stage EXCEPT ![c] = "done"]

\* co_await future: the awaiter copies the SharedCorePtr, then await_ready.
AwaitReady(u, c) ==
    /\ Free(u) /\ stage[c] = "unused"
    /\ kind' = [kind EXCEPT ![c] = "coro"]
    /\ \/ /\ ~Empty
          /\ Resume(c)
          /\ UNCHANGED refs
       \/ /\ Empty
          /\ stage' = [stage EXCEPT ![c] = "suspending"]
          /\ refs' = refs + 1
          /\ UNCHANGED seen
    /\ UNCHANGED <<word, slot, setter, held, upc, at, stored>>

\* await_suspend: links the coroutine, or goes on at once.
AwaitSuspend(c) ==
    /\ stage[c] = "suspending"
    /\ \/ SetCallback(c) /\ UNCHANGED <<refs, seen>>
       \/ word = kResult /\ Resume(c) /\ refs' = refs - 1 /\ UNCHANGED word
    /\ UNCHANGED <<slot, setter, held, upc, at, kind, stored>>

\* PromiseType::Here in the promise's thread: the coroutine runs up to the end
\* of the co_await.
ResumeHere(c) ==
    /\ Resume(c)
    /\ refs' = refs - 1

\* The walk of SetResultImpl, with coroutines among the callbacks.
AwaitWalk ==
    /\ at[Setter] = None /\ todo # <<>>
    /\ \/ spc = "walk" /\ Len(todo) > 1 /\ spc' = spc
       \/ spc = "last" /\ spc' = "drop"
    /\ \/ kind[Head(todo)] = "coro" /\ ResumeHere(Head(todo)) /\ UNCHANGED at
       \/ /\ kind[Head(todo)] # "coro"
          /\ Here(Setter, Head(todo), kind[Head(todo)])
          /\ UNCHANGED seen
    /\ todo' = Tail(todo)
    /\ UNCHANGED <<word, slot, held, upc, kind, stored>>

AwaitNext ==
    \/ \E c \in Callbacks, u \in Users : AwaitReady(u, c)
    \/ \E c \in Callbacks : AwaitSuspend(c)
    \/ \E u \in Users, c \in Callbacks, k \in Kinds : Attach(u, c, k)
    \/ AwaitWalk
    \/ \E c \in Callbacks : RunCallback(c)
    \/ \E r \in Results : Store(r)
    \/ SetResult \/ DecRefFirst \/ DecRef
    \/ \E u \in Users : Release(u)

AwaitSpec == Init /\ [][AwaitNext]_vars

-----------------------------------------------------------------------------
(* Properties.                                                             *)

\* co_await of a SharedFuture gives the coroutine the stored result
\* (test/unit/coro/await.cpp: EXPECT_EQ(str, kSetString)).
AwaitedResult == \A c \in Callbacks : seen[c] # None => seen[c] = stored
=============================================================================
