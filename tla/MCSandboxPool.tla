---------------------------- MODULE MCSandboxPool ----------------------------
(***************************************************************************)
(* SandboxPool for TLC: the tool calls of one chat, and as many sandboxes    *)
(* as an eviction and a recreation need.                                     *)
(***************************************************************************)
EXTENDS SandboxPool

CONSTANTS c1, c2

MCCalls == {c1, c2}
=============================================================================
