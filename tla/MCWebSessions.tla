--------------------------- MODULE MCWebSessions ---------------------------
(* WebSessions on small instances: the .cfg files give the constants.      *)
EXTENDS WebSessions, TLC

\* Pages are interchangeable where no liveness is checked.
BrowserSymmetry == Permutations(Browsers)
=============================================================================
