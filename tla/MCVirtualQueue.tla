--------------------------- MODULE MCVirtualQueue ---------------------------
(* Two users, two release workers and a limit of one: the head of the line   *)
(* keeps asking while the workers race for it and for the user behind it,    *)
(* and a user joins again while it is being released.                        *)
EXTENDS VirtualQueue, TLC

CONSTANTS alice, bob, r1, r2, p1, q1
MCUser == {alice, bob}
MCReleaser == {r1, r2}
MCPoll == {p1}
MCRequest == {q1}
MCMaxJoins == (alice :> 2) @@ (bob :> 1)
=============================================================================
