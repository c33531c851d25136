----------------------------- MODULE MCDrainHelper -----------------------------
(* Instances of DrainHelper for TLC. *)
EXTENDS DrainHelper, TLC

CONSTANTS n1, n2, MisconfiguredNodes

\* LEASE_DURATION_SECONDS as it is by default, and below RenewDeadline.
MCLeaseDuration == [n \in Nodes |-> IF n \in MisconfiguredNodes THEN {10, 600} ELSE {600}]
=============================================================================
