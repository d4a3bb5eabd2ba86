------------------------------ MODULE MC_When ------------------------------
(* Every strategy of async/when, for TLC.                                  *)
EXTENDS When

AllStrategies == ({"All", "AllTuple", "Join"} \X {"None", "FirstFail"})
                 \cup ({"Any"} \X {"None", "FirstFail", "LastFail"})
=============================================================================
