---------------------------- MODULE MCPendingConnect ----------------------------
(* One challenge of each flow, and calls enough to overlap on either.       *)
EXTENDS PendingConnect, TLC

CONSTANTS p, d

MCPendings == {p, d}
MCFlow == p :> "redirect" @@ d :> "device"
================================================================================
