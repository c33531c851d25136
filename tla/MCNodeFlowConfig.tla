--------------------------- MODULE MCNodeFlowConfig ---------------------------
(* Instances of NodeFlowConfig for TLC. *)
EXTENDS NodeFlowConfig

CONSTANTS a, b, vf1, vf2, vf3

\* vf1 and vf2 are on a PF with a DCF port, vf3 is on one without.
MCPortOf == [v \in VFs |-> IF v = vf3 THEN NoPort ELSE 1]

MCVfIdOf == [v \in VFs |-> IF v = vf2 THEN 1 ELSE 0]

FlowRule(spec, last, port, vf) == [spec |-> spec, last |-> last, port |-> port, vf |-> vf]

\* A rule for a port given by the user, a range that ends with its value (the two
\* make the same request), the value for another VF on the same PF, and one whose
\* VF has no port.
MCRules == {FlowRule(b, None, 1, vf1), FlowRule(a, b, AutoPort, vf1),
            FlowRule(b, None, AutoPort, vf2), FlowRule(b, None, AutoPort, vf3)}
=============================================================================
