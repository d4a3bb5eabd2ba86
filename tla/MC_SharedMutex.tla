--------------------------- MODULE MC_SharedMutex ---------------------------
(***************************************************************************)
(* SharedMutex with each combination of its two template arguments.        *)
(***************************************************************************)
EXTENDS SharedMutex

MCTemplates == BOOLEAN \X BOOLEAN
=============================================================================
