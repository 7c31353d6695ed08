------------------------------ MODULE MCPorts ------------------------------
(* PortAssignment for TLC: reports of two pads.                            *)
EXTENDS PortAssignment

CONSTANT Web  \* the libwebsockets thread

UdpOnly   == {Udp}
UdpAndWeb == {Udp, Web}

\* What reports show: no pad, with the first one configured as a pair (the session asks for
\* that pair), or the second pad alone, with the first one configured as a pair.  A new
\* session shows no pad and asks for a single controller.
Pad(first, second) == [s \in {0, 1} |-> IF s = 0 THEN first ELSE second]

TwoShown == {Pad("idlePair", "absent"), Pad("idlePair", "single")}

\* Macros on the first pad of the second client: while one runs, the pair plays beside the
\* second pad, shown or not.
OneMacro == {<<1, 0>>}

=============================================================================
