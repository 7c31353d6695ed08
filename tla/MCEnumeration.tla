--------------------------- MODULE MCEnumeration ---------------------------
(* Enumeration on small instances: the .cfg files give the constants.      *)
EXTENDS Enumeration
=============================================================================
