----------------------------- MODULE MCToolCalls -----------------------------
(***************************************************************************)
(* Trees of tool calls for the runs of TLC.                                *)
(***************************************************************************)
EXTENDS ToolCalls, TLC

CONSTANTS p, q, a, b, c

(* Two bodies run a child agent: that of p makes two calls, that of q one. *)
TwoAgents == p :> NoCall @@ q :> NoCall @@ a :> p @@ b :> p @@ c :> q
=============================================================================
