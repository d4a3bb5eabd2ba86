------------------------------ MODULE MC_Fiber ------------------------------
(* Every mutex class with the operations that it has, a condition variable *)
(* with the plain one, an atomic, and sleeps; some with ticks longer than  *)
(* one, which may pass over a time to stop at.                             *)
EXTENDS Fiber, TLC

CONSTANTS f1, f2, f3

World(k, o, c, t) == [kind |-> k, ops |-> o, calls |-> c, tick |-> t]
Calls(a, b, c) == (f1 :> a) @@ (f2 :> b) @@ (f3 :> c)

MCWorlds ==
    {World("mutex", {"lock", "wait", "wait_until", "notify_one", "notify_all"}, Calls(1, 2, 2), 1),
     World("mutex", {"lock", "wait_until", "notify_one"}, Calls(0, 2, 2), 2),
     World("mutex", {"lock", "sleep", "yield"}, Calls(1, 1, 2), 1),
     World("timed", {"lock", "try_lock_until"}, Calls(1, 1, 2), 1),
     World("timed", {"lock", "try_lock_until"}, Calls(0, 1, 2), 2),
     World("recursive", {"lock", "try_lock", "try_lock_until"}, Calls(0, 1, 2), 1),
     World("shared", {"lock", "try_lock_until", "try_lock_shared_until"}, Calls(1, 1, 1), 1),
     World("shared", {"lock", "lock_shared", "try_lock", "try_lock_shared"}, Calls(1, 1, 1), 1),
     World("mutex", {"load", "cas_weak", "cas", "fetch_add"}, Calls(0, 2, 2), 1),
     World("mutex", {"fetch_add", "atomic_wait", "atomic_notify"}, Calls(0, 2, 2), 1)}
=============================================================================
