------------------------------- MODULE MCMCP --------------------------------
(***************************************************************************)
(* Two goroutines that connect, call, disconnect and check at once, over   *)
(* two connections, so that one replaces the other, the first with two     *)
(* tool calls after its two of setting up; or over one whose server also   *)
(* writes a notification.                                                  *)
(***************************************************************************)
EXTENDS MCP

CONSTANTS g1, g2   \* goroutines

MCLimits == {[calls |-> <<4, 2>>, notes |-> <<0, 0>>],
             [calls |-> <<4, 0>>, notes |-> <<1, 0>>]}
=============================================================================
