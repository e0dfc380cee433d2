---------------------------- MODULE MCPrimaryLoss ----------------------------
(* Four replicas that nobody operates, of which one may be lost.           *)
EXTENDS PrimaryLoss

CONSTANTS r1, r2, r3, r4

FourReplicas == <<r1, r2, r3, r4>>
=============================================================================
