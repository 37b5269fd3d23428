------------------------------- MODULE Clients -------------------------------
(***************************************************************************)
(* The two clients of the API this repository ships: the web application   *)
(* and the simulator.  They meet only in the platform, where the console   *)
(* sees what the simulator stores as a change of others (OthersChange), so *)
(* one of them is at work in a behaviour and the other never starts.       *)
(***************************************************************************)
EXTENDS Console, Simulator

VARIABLE client

clientVars == <<client, conVars, simVars>>

ClientsInit ==
  /\ client \in {"console", "simulator"}
  /\ ConInit
  /\ SimInit
  /\ client = "console" => config = [scenario |-> "nominal", every |-> 0, timer |-> TRUE]
  /\ client = "simulator" => route = [page |-> "dashboard", id |-> Nil]

ClientsNext ==
  /\ \/ client = "console" /\ ConNext /\ UNCHANGED simVars
     \/ client = "simulator" /\ SimNext /\ UNCHANGED conVars
  /\ UNCHANGED client

ClientsSpec == ClientsInit /\ [][ClientsNext]_clientVars

===============================================================================
