-------------------------- MODULE MCNeqsimService --------------------------
(***************************************************************************)
(* A main thread and a worker; two fluid models of which one reference fits *)
(* the cache, a TP and a PH flash at the same numbers, a PH flash that does *)
(* not meet its target.                                                     *)
(***************************************************************************)
EXTENDS NeqsimService

CONSTANTS worker, m1, m2

Query(flash, model, state) == [flash |-> flash, model |-> model, state |-> state]

MCRequests == {Query("TP", m1, 1), Query("PH", m1, 1), Query("TP", m2, 1), Query("PH", m2, 2)}
MCUnsolvable == {Query("PH", m2, 2)}
MCOptions == {[reference |-> 1, flash |-> NONE]}

=============================================================================
