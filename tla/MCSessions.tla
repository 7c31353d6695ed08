---------------------------- MODULE MCSessions ----------------------------
(* Sessions on small instances: the .cfg files give the constants.         *)
EXTENDS Sessions, TLC

\* Endpoints are interchangeable where no liveness is checked.
EndpointSymmetry == Permutations(Endpoints)
=============================================================================
