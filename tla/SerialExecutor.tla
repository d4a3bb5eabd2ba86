--------------------------- MODULE SerialExecutor ---------------------------
(***************************************************************************)
(* What a strand promises (exe/strand.hpp): the jobs submitted to it are   *)
(* called one at a time, in the order of their submission.  The executor   *)
(* below it may refuse to go on; then everything that is queued at that    *)
(* moment is dropped instead of called.                                    *)
(***************************************************************************)
EXTENDS Sequences, SequencesExt

CONSTANTS Jobs, None

VARIABLES
    queue,     \* jobs submitted, not started, in order of submission
    running,   \* the job being called, or None
    dropping,  \* jobs refused and not dropped yet
    finished   \* jobs that have been called or dropped

vars == <<queue, running, dropping, finished>>

Init ==
    /\ queue = <<>>
    /\ running = None
    /\ dropping = {}
    /\ finished = {}

Submit(j) ==
    /\ j \notin ToSet(queue) \cup {running} \cup dropping \cup finished
    /\ queue' = Append(queue, j)
    /\ UNCHANGED <<running, dropping, finished>>

Start ==
    /\ running = None
    /\ queue # <<>>
    /\ running' = Head(queue)
    /\ queue' = Tail(queue)
    /\ UNCHANGED <<dropping, finished>>

Finish ==
    /\ running # None
    /\ finished' = finished \cup {running}
    /\ running' = None
    /\ UNCHANGED <<queue, dropping>>

Reject ==
    /\ running = None
    /\ queue # <<>>
    /\ dropping' = dropping \cup ToSet(queue)
    /\ queue' = <<>>
    /\ UNCHANGED <<running, finished>>

Drop(j) ==
    /\ j \in dropping
    /\ dropping' = dropping \ {j}
    /\ finished' = finished \cup {j}
    /\ UNCHANGED <<queue, running>>

Next ==
    \/ \E j \in Jobs : Submit(j) \/ Drop(j)
    \/ Start
    \/ Finish
    \/ Reject

Spec == Init /\ [][Next]_vars
=============================================================================
