------------------------------ MODULE MC_Mutex ------------------------------
(***************************************************************************)
(* Mutex<> as the library instantiates it by default, and the opposite.    *)
(***************************************************************************)
EXTENDS Mutex

MCTemplates == {<<TRUE, FALSE>>, <<FALSE, TRUE>>}
=============================================================================
