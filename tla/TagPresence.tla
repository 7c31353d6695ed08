---------------------------- MODULE TagPresence ----------------------------
(***************************************************************************)
(* What one port of the server promises the console about an amiibo: it is *)
(* there once a client presents it, it is taken away once, and then it is  *)
(* gone, whatever the console reads, writes, repeats or abandons.  Only a  *)
(* tag that is kept for a write may be put back by the server itself.      *)
(***************************************************************************)
EXTENDS Naturals

VARIABLES
  presence, \* "none", "there" or "taken": type and is_placed of S2NfcRuntime
  kept,     \* defers_read_eject: the client presented the tag again for a write
  shown     \* the tags that clients have presented

Init == presence = "none" /\ ~kept /\ shown = 0

Presented == presence' = "there" /\ kept' \in BOOLEAN /\ shown' = shown + 1
Taken == presence = "there" /\ presence' = "taken" /\ UNCHANGED <<kept, shown>>
Returned == presence = "taken" /\ kept /\ presence' = "there" /\ UNCHANGED <<kept, shown>>
Cleared == presence # "none" /\ presence' = "none" /\ ~kept' /\ UNCHANGED shown

Spec == Init /\ [][Presented \/ Taken \/ Returned \/ Cleared]_<<presence, kept, shown>>
=============================================================================
