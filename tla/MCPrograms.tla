----------------------------- MODULE MCPrograms -----------------------------
(***************************************************************************)
(* The two programs around the codec on small instances: the command-line  *)
(* tool and the ROS 2 bridge. They share no state: a behaviour is one of   *)
(* either, and the other stays where it starts.                            *)
(***************************************************************************)
EXTENDS MCCommandLine, PoseBridge

VARIABLE part

toolVars == <<state, found, search>>

AnyInit ==
  /\ part \in {"tool", "bridge"}
  /\ Init /\ (part = "bridge" => text = <<>> /\ \A a \in Axes : codec[a][MaxStep] = 0)
  /\ BridgeInit /\ (part = "tool" => unfit = {})

AnyNext ==
  /\ \/ part = "tool" /\ Next /\ UNCHANGED bridgeVars
     \/ part = "bridge" /\ BridgeNext /\ UNCHANGED toolVars
  /\ UNCHANGED part

\* The bridge is as fair as BridgeFairSpec; the tool need not go on.
AnySpec ==
  /\ AnyInit /\ [][AnyNext]_<<part, toolVars, bridgeVars>>
  /\ WF_bridgeVars(part = "bridge" /\ Sender /\ UNCHANGED <<part, toolVars>>)
  /\ WF_bridgeVars(part = "bridge" /\ Receiver /\ UNCHANGED <<part, toolVars>>)
=============================================================================
