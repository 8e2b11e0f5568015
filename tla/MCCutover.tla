----------------------------- MODULE MCCutover ------------------------------
(***************************************************************************)
(* Two domains of one workspace, the first of them the pilot: with a       *)
(* stream each, and with one stream in common.                             *)
(***************************************************************************)
EXTENDS Cutover

MCDomains == {"pilot", "rest"}
MCScope == [d \in MCDomains |-> "objects"]
MCPilots == {"pilot"}

OwnStreams == {"s1", "s2"}
OwnStreamsOf == [d \in MCDomains |-> IF d = "pilot" THEN {"s1"} ELSE {"s2"}]

OneStream == {"s1"}
OneStreamOf == [d \in MCDomains |-> {"s1"}]
=============================================================================
