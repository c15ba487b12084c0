---------------------------- MODULE MCLeadership ----------------------------
(* Two replicas: a takeover concerns the holder and one other.               *)
EXTENDS Leadership, TLC

CONSTANTS r1, r2

MCReplicas == {r1, r2}
MCSymmetry == Permutations(MCReplicas)
=============================================================================
