--------------------------- MODULE MCChannelLease ---------------------------
(* TLC instances of the channel lease: see the cfg files. *)
EXTENDS ChannelLease

CONSTANTS r1, r2, r3

MCReplicas == {r1, r2, r3}

\* One gate per replica, named like its replica.
MCOwnHost == [g \in Gates |-> g]
=============================================================================
