--------------------------------- MODULE Operator ---------------------------------
(***************************************************************************)
(* The operator's Deployment: replicas that deploy the assets and start    *)
(* (AssetManager), and the FlowConfigNodeAgentDeployment controller that   *)
(* runs in the leader only (NodeAgentDeployment).                          *)
(*                                                                         *)
(* The controller's memory is the leader's: it is lost with the leader.    *)
(* The watches of the next one begin with a Create event of the object:    *)
(* this request is in the queue from then on.                              *)
(***************************************************************************)
EXTENDS AssetManager, NodeAgentDeployment

CONSTANT Starts  \* how it begins: [assets, edits, faults]

ASSUME StartsAssumption == Starts \subseteq [assets : AssetStarts, edits : Nat, faults : Nat]

operatorVars == <<assetVars, agentVars>>

OperatorInit == \E b \in Starts : AssetInit(b.assets) /\ AgentInit(b.edits, b.faults)

Up == leader # NoReplica

\* A replica deploys the assets; the controller goes on in the leader.
DeployStep == (\E r \in Replicas : ReplicaStep(r)) /\ UNCHANGED agentVars

TakeOver == (\E r \in Replicas : Elect(r)) /\ UNCHANGED agentVars

\* A replica ends; with the leader goes what the controller knew.
Stop(r) ==
  /\ ReplicaExits(r)
  /\ IF leader = r
       THEN /\ queue' = (cr # None) /\ later' = FALSE /\ rec' = Idle
            /\ old' = NoOld /\ tmpl' = NoLimits
       ELSE UNCHANGED memory
  /\ UNCHANGED <<outside, podOf, bounds>>

Controller == Up /\ ReconcileStep /\ UNCHANGED assetVars

ControllerTrouble == Up /\ ReconcileTrouble /\ UNCHANGED assetVars

InformerResync == Up /\ Resync /\ UNCHANGED assetVars

Kubernetes == ClusterStep /\ UNCHANGED assetVars

\* The kubelets replace the pods of the DaemonSets and report.  (Nobody looks at
\* the pods of the others.)
DaemonSetPods == (\E o \in Blocking : PodsChange(o)) /\ UNCHANGED agentVars

OthersWrite ==
  \/ Users /\ UNCHANGED assetVars
  \/ (\E a \in AssetNames, c \in Data : PinMap(a, c)) /\ UNCHANGED agentVars

OperatorNext ==
  \/ DeployStep \/ TakeOver \/ \E r \in Replicas : Stop(r)
  \/ Controller \/ ControllerTrouble \/ InformerResync
  \/ Kubernetes \/ DaemonSetPods \/ OthersWrite

OperatorSpec == OperatorInit /\ [][OperatorNext]_operatorVars

\* Every replica goes on and is started again, some replica is elected, the
\* controller's worker and the informer go on, and Kubernetes removes pods.
OperatorFairSpec ==
  /\ OperatorSpec
  /\ \A r \in Replicas : WF_operatorVars(ReplicaStep(r) /\ UNCHANGED agentVars)
  /\ WF_operatorVars(TakeOver)
  /\ WF_operatorVars(Controller)
  /\ WF_operatorVars(InformerResync)
  /\ WF_operatorVars(Kubernetes)
===================================================================================
