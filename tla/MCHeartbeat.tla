---------------------------- MODULE MCHeartbeat ----------------------------
(***************************************************************************)
(* Instances of Heartbeat for TLC.  One unit of time is ten seconds; limits *)
(* are rounded up to whole units.                                           *)
(***************************************************************************)
EXTENDS Heartbeat, FiniteSets, SequencesExt

\* The peers in some order; in a file shared by all nodes, the node itself too.
Unlisted == SetToSeq(Peer)
Listed == <<Me>> \o SetToSeq(Peer)

\* Thunderbolt, LAN and Tailscale.
ThreeAddrs == [p \in Peer \cup {Me} |-> 3]
=============================================================================
