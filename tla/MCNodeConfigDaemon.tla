-------------------------- MODULE MCNodeConfigDaemon --------------------------
(* Instances of NodeConfigDaemon for TLC. *)
EXTENDS NodeConfigDaemon, TLC

CONSTANTS n1, n2, d1, d2, v0, v1

MCLeaseDuration == [n \in Nodes |-> {600}]

\* Below RenewDeadline until somebody notices.
MCLeaseDurations == [n \in Nodes |-> {10, 600}]

Ask(fw, ddp) == [fw |-> fw, ddp |-> ddp, param |-> FALSE]

\* Firmware or nothing.
FwCfgs == [Devices -> {Ask(v1, None), Ask(None, None)}]

\* Two devices: firmware and DDP on one, something or nothing on the other, and
\* a config that is not empty but asks for no version.
TwoDeviceCfgs ==
  {NoCfg,
   [NoCfg EXCEPT ![d1].param = TRUE],
   [NoCfg EXCEPT ![d1] = Ask(v1, v1)],
   [NoCfg EXCEPT ![d1] = Ask(v1, None), ![d2] = Ask(v1, None)],
   [NoCfg EXCEPT ![d2] = Ask(None, v1)],
   [NoCfg EXCEPT ![d1] = Ask(v0, v0), ![d2] = Ask(None, v0)]}
=============================================================================
