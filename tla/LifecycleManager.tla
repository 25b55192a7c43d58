-------------------------- MODULE LifecycleManager --------------------------
(***************************************************************************)
(* nav2_lifecycle_manager: brings the nav2 servers up and down in order,   *)
(* watches them through bonds, and takes the system down when one is lost. *)
(* Service requests and timers share one callback group, so one job runs   *)
(* at a time; the servers change state, crash and come back beside it.     *)
(* Every exchange with a server is split: the request is sent, the server  *)
(* answers, the manager asks for the server's state.  bond_timeout_ and    *)
(* bond_heartbeat_period are positive and rclcpp::ok() stays true.         *)
(***************************************************************************)
EXTENDS Naturals, Sequences, SequencesExt

CONSTANTS
  N,                             \* number of managed nodes
  attempt_respawn_reconnection_

ASSUME ManagerAssumption ==
  N \in Nat \ {0} /\ attempt_respawn_reconnection_ \in BOOLEAN

Node == 1 .. N
node_names_ == [n \in Node |-> n]

VARIABLES
  managed_nodes_state_,
  bond_map_,           \* per node; "stale": the peer is gone, not yet noticed
  bond_timer_, bond_respawn_timer_,
  clients,             \* node_map_ holds its service clients
  job,                 \* what the callback that runs is doing
  phases,              \* the transitions it has to make, the first one now
  left,                \* the nodes of this transition that are left
  call,                \* the exchange with the first of them
  node                 \* per node: its lifecycle state, or "dead"

work == <<job, phases, left, call>>
timers == <<bond_timer_, bond_respawn_timer_>>
vars == <<managed_nodes_state_, bond_map_, timers, clients, work, node>>

Commands == {"startup", "configure", "cleanup", "reset", "shutdown",
             "pause", "resume"}

Phases ==
  [startup   |-> <<"configure", "activate">>,
   configure |-> <<"configure">>,
   cleanup   |-> <<"cleanup">>,
   reset     |-> <<"deactivate", "cleanup">>,
   hardReset |-> <<"deactivate", "cleanup">>,
   shutdown  |-> <<"deactivate", "cleanup", "shutdown">>,
   pause     |-> <<"deactivate">>,
   resume    |-> <<"activate">>]

(* managed_nodes_state_ after a success.                                   *)
Succeeds ==
  [startup |-> "ACTIVE", configure |-> "INACTIVE", cleanup |-> "UNCONFIGURED",
   reset |-> "UNCONFIGURED", hardReset |-> "UNCONFIGURED",
   shutdown |-> "FINALIZED", pause |-> "INACTIVE", resume |-> "ACTIVE"]

transition_state_map_ ==
  [configure |-> "inactive", cleanup |-> "unconfigured",
   activate |-> "active", deactivate |-> "inactive", shutdown |-> "finalized"]

(* The state from which a node makes a transition (rclcpp_lifecycle).      *)
From ==
  [configure |-> "unconfigured", cleanup |-> "inactive",
   activate |-> "inactive", deactivate |-> "active",
   shutdown |-> "unconfigured"]

AlwaysForward(transition) == node_names_

(* Nodes come up in order and go down in the reverse order.                *)
Order(transition) ==
  IF transition \in {"configure", "activate"} THEN node_names_
                                              ELSE Reverse(node_names_)

Init ==
  /\ managed_nodes_state_ = "UNCONFIGURED"
  /\ bond_map_ = [n \in Node |-> "none"]
  /\ bond_timer_ = FALSE /\ bond_respawn_timer_ = FALSE
  /\ clients = TRUE
  /\ job = "none" /\ phases = <<>> /\ left = <<>> /\ call = "none"
  /\ node = [n \in Node |-> "unconfigured"]

-----------------------------------------------------------------------------
(* Jobs.                                                                   *)

Start(j) ==
  /\ job' = j
  /\ phases' = Phases[j]
  /\ left' = Order(Phases[j][1])
  /\ call' = "none"

(* After shutdown() node_map_ holds null pointers: the next use of one is  *)
(* the end of the manager.                                                 *)
Dies ==
  /\ job' = "dead" /\ phases' = <<>> /\ left' = <<>> /\ call' = "none"

(* managerCallback, or the autostart timer.                                *)
Command(j) ==
  /\ job = "none"
  /\ IF clients THEN Start(j) ELSE Dies
  /\ bond_timer_' =
       (bond_timer_ /\ j \notin {"reset", "shutdown", "pause"})
  /\ managed_nodes_state_' =
       IF j = "shutdown" THEN "FINALIZED" ELSE managed_nodes_state_
  /\ UNCHANGED <<bond_map_, bond_respawn_timer_, clients, node>>

ResetDestroysClients(state, bonds) ==
  /\ job' = "none" /\ phases' = <<>> /\ left' = <<>> /\ call' = "none"
  /\ managed_nodes_state_' = state
  /\ bond_timer_' = (bond_timer_ \/ state = "ACTIVE")
  /\ bond_map_' = IF job = "hardReset" THEN [n \in Node |-> "none"] ELSE bonds
  /\ bond_respawn_timer_' =
       (bond_respawn_timer_ \/ (job = "hardReset" /\ attempt_respawn_reconnection_))
  /\ clients' = (job \notin {"shutdown", "reset"})

(* The rest of a job once its transitions are over.                        *)
Finish(state, bonds) ==
  /\ job' = "none" /\ phases' = <<>> /\ left' = <<>> /\ call' = "none"
  /\ managed_nodes_state_' = state
  /\ bond_timer_' = (bond_timer_ \/ state = "ACTIVE")
  /\ bond_map_' = IF job = "hardReset" THEN [n \in Node |-> "none"] ELSE bonds
  /\ bond_respawn_timer_' =
       (bond_respawn_timer_ \/ (job = "hardReset" /\ attempt_respawn_reconnection_))
  /\ clients' = (job # "shutdown")

NextPhase(bonds) ==
  IF Len(phases) > 1
  THEN /\ phases' = Tail(phases)
       /\ left' = Order(phases[2])
       /\ call' = "none"
       /\ bond_map_' = bonds
       /\ UNCHANGED <<job, managed_nodes_state_, timers, clients>>
  ELSE Finish(Succeeds[job], bonds)

NextNode(bonds) ==
  IF Len(left) > 1
  THEN /\ left' = Tail(left)
       /\ call' = "none"
       /\ bond_map_' = bonds
       /\ UNCHANGED <<job, phases, managed_nodes_state_, timers, clients>>
  ELSE NextPhase(bonds)

(* changeStateForAllNodes returns false: shutdownAllNodes goes on with its *)
(* next transition, every other caller stops.                              *)
PhaseFails(bonds) ==
  CASE job = "shutdown" -> NextPhase(bonds)
    [] job = "hardReset" -> Finish("UNCONFIGURED", bonds)
    [] OTHER -> Finish("UNKNOWN", bonds)

(* changeStateForNode returns false.                                       *)
NodeFails(bonds) ==
  IF job = "hardReset" THEN NextNode(bonds) ELSE PhaseFails(bonds)

-----------------------------------------------------------------------------
(* One node's transition.                                                  *)

Busy == job \notin {"none", "dead", "respawn"}
Target == left[1]

SendChangeState ==
  /\ Busy /\ call = "none"
  /\ node[Target] # "dead"
  /\ call' = "sent"
  /\ UNCHANGED <<managed_nodes_state_, bond_map_, timers, clients,
                 job, phases, left, node>>

WaitForService ==
  /\ Busy /\ call = "none"
  /\ node[Target] = "dead"
  /\ UNCHANGED vars

(* No such service: an exception, which ends the loop over the nodes.      *)
ServiceNotAvailable ==
  /\ Busy /\ call = "none"
  /\ node[Target] = "dead"
  /\ PhaseFails(bond_map_)
  /\ UNCHANGED node

(* change_state is true for any answer; the state that get_state reports   *)
(* then decides.                                                           *)
Reached ==
  /\ Busy /\ call = "answered"
  /\ node[Target] = transition_state_map_[phases[1]]

ConnectBond ==
  /\ Reached /\ phases[1] = "activate"
  /\ \/ bond_map_[Target] # "none" /\ NextNode(bond_map_)
     \/ /\ bond_map_[Target] = "none"
        /\ \/ NextNode([bond_map_ EXCEPT ![Target] = "formed"])
           \/ NodeFails([bond_map_ EXCEPT ![Target] = "stale"])
  /\ UNCHANGED node

EraseBond ==
  /\ Reached /\ phases[1] = "deactivate"
  /\ NextNode([bond_map_ EXCEPT ![Target] = "none"])
  /\ UNCHANGED node

OtherReached ==
  /\ Reached /\ phases[1] \notin {"activate", "deactivate"}
  /\ NextNode(bond_map_)
  /\ UNCHANGED node

TrustAnswer ==
  /\ Busy /\ call = "answered"
  /\ node[Target] \notin {"dead", transition_state_map_[phases[1]]}
  /\ NextNode(bond_map_)
  /\ UNCHANGED node

NotReached ==
  /\ Busy /\ call = "answered"
  /\ node[Target] \notin {"dead", transition_state_map_[phases[1]]}
  /\ NodeFails(bond_map_)
  /\ UNCHANGED node

(* The node is gone, or too slow with its answer.                          *)
GetStateThrows ==
  /\ Busy /\ call = "answered"
  /\ PhaseFails(bond_map_)
  /\ UNCHANGED node

-----------------------------------------------------------------------------
(* The timers.                                                             *)

CheckFirstBond ==
  /\ job = "none" /\ bond_timer_
  /\ managed_nodes_state_ = "ACTIVE"
  /\ bond_map_[1] = "broken"
  /\ Start("hardReset")
  /\ bond_timer_' = FALSE
  /\ UNCHANGED <<managed_nodes_state_, bond_map_, bond_respawn_timer_,
                 clients, node>>

CheckBondConnections ==
  /\ job = "none" /\ bond_timer_
  /\ managed_nodes_state_ = "ACTIVE"
  /\ \E n \in Node : bond_map_[n] = "broken"
  /\ Start("hardReset")
  /\ bond_timer_' = FALSE
  /\ UNCHANGED <<managed_nodes_state_, bond_map_, bond_respawn_timer_,
                 clients, node>>

(* checkBondRespawnConnection gives up if the system is active again, and  *)
(* asks one server after the other for its state otherwise ...             *)
StopRespawn ==
  /\ managed_nodes_state_ = "ACTIVE"
  /\ bond_respawn_timer_' = FALSE
  /\ UNCHANGED work

StartPoll ==
  /\ managed_nodes_state_ # "ACTIVE" /\ clients
  /\ job' = "respawn" /\ left' = node_names_
  /\ UNCHANGED <<phases, call, bond_respawn_timer_>>

RespawnAfterShutdown ==
  /\ managed_nodes_state_ # "ACTIVE" /\ ~clients
  /\ Dies
  /\ UNCHANGED bond_respawn_timer_

CheckBondRespawnConnection ==
  /\ job = "none" /\ bond_respawn_timer_
  /\ StopRespawn \/ StartPoll \/ RespawnAfterShutdown
  /\ UNCHANGED <<managed_nodes_state_, bond_map_, bond_timer_, clients, node>>

(* ... to start up when all have answered ...                              *)
ServerAlive ==
  /\ job = "respawn" /\ node[Target] # "dead"
  /\ IF Len(left) > 1
     THEN left' = Tail(left) /\ UNCHANGED <<job, phases, call, bond_respawn_timer_>>
     ELSE Start("startup") /\ bond_respawn_timer_' = FALSE
  /\ UNCHANGED <<managed_nodes_state_, bond_map_, bond_timer_, clients, node>>

(* ... and, when one is gone or too slow, to try again later or, after     *)
(* bond_respawn_max_duration_, no more.                                    *)
ServerMissing ==
  /\ job = "respawn"
  /\ job' = "none" /\ left' = <<>>
  /\ bond_respawn_timer_' \in BOOLEAN
  /\ UNCHANGED <<managed_nodes_state_, bond_map_, bond_timer_, clients, phases, call, node>>

Poll == ServerAlive \/ ServerMissing

-----------------------------------------------------------------------------
(* The nodes.  The bond of a node that leaves its active state, or dies,   *)
(* has lost its peer.                                                      *)

Becomes(n, state) ==
  /\ node' = [node EXCEPT ![n] = state]
  /\ bond_map_' = IF node[n] = "active" /\ state # "active" /\ bond_map_[n] = "formed"
                  THEN [bond_map_ EXCEPT ![n] = "stale"] ELSE bond_map_

(* A transition succeeds, fails and leaves the state, or ends in on_error  *)
(* and leaves the node unconfigured; one that the state does not allow     *)
(* changes nothing.                                                        *)
Answer ==
  /\ Busy /\ call = "sent"
  /\ \E state \in IF node[Target] = From[phases[1]]
                  THEN {transition_state_map_[phases[1]], node[Target],
                        "unconfigured"}
                  ELSE {node[Target]} :
       Becomes(Target, state)
  /\ call' = "answered"
  /\ UNCHANGED <<managed_nodes_state_, timers, clients, job, phases, left>>

(* Nobody answers a request whose node dies, and change_state waits        *)
(* without a limit.                                                        *)
Crash(n) ==
  /\ node[n] # "dead"
  /\ Becomes(n, "dead")
  /\ call' = IF call = "sent" /\ Target = n THEN "lost" ELSE call
  /\ UNCHANGED <<managed_nodes_state_, timers, clients, job, phases, left>>

Respawn(n) ==
  /\ node[n] = "dead"
  /\ Becomes(n, "unconfigured")
  /\ UNCHANGED <<managed_nodes_state_, timers, clients, work>>

(* No heartbeat within bond_timeout_.                                      *)
BondBreaks(n) ==
  /\ bond_map_[n] = "stale"
  /\ bond_map_' = [bond_map_ EXCEPT ![n] = "broken"]
  /\ UNCHANGED <<managed_nodes_state_, timers, clients, work, node>>

-----------------------------------------------------------------------------
Exchange ==
  \/ SendChangeState \/ ServiceNotAvailable \/ NotReached \/ GetStateThrows
  \/ ConnectBond \/ EraseBond \/ OtherReached

Next ==
  \/ \E j \in Commands : Command(j)
  \/ Exchange
  \/ CheckBondConnections \/ CheckBondRespawnConnection \/ Poll
  \/ Answer
  \/ \E n \in Node : Crash(n) \/ Respawn(n) \/ BondBreaks(n)

Spec == Init /\ [][Next]_vars

(* The manager goes on with its job, a living server answers, heartbeats   *)
(* are missed, and the bond timer gets its turn between two requests: the  *)
(* executor takes timers first.                                            *)
FairSpec ==
  /\ Spec
  /\ WF_vars(Exchange) /\ WF_vars(Poll) /\ WF_vars(Answer)
  /\ SF_vars(CheckBondConnections)
  /\ \A n \in Node : WF_vars(BondBreaks(n))

-----------------------------------------------------------------------------
(* What the manager reports between two jobs is true, whatever crashed,    *)
(* came back or failed before.  ACTIVE: each node is active, or its bond   *)
(* has lost its peer and the bond timer is there to find that out.         *)
(* INACTIVE: no node is active (lifecycle_manager.cpp:311-340, 390-421,    *)
(* 476-514).                                                               *)
ReportHolds ==
  ~Busy =>
    /\ managed_nodes_state_ = "ACTIVE"
         => /\ bond_timer_
            /\ \A n \in Node : \/ node[n] = "active" /\ bond_map_[n] # "none"
                               \/ bond_map_[n] \in {"stale", "broken"}
    /\ managed_nodes_state_ = "INACTIVE" => \A n \in Node : node[n] # "active"

(* Nodes depend on those before them in node_names_.  None is told to      *)
(* activate unless each of those is active or has been lost meanwhile, and *)
(* none is told to deactivate while a later one is still active, except in *)
(* a hard reset, which goes on past failures                               *)
(* (lifecycle_manager.cpp:264-299).                                        *)
OrderKept ==
  Busy /\ call = "sent" =>
    /\ phases[1] = "activate"
         => \A n \in 1 .. (Target - 1) :
              node[n] = "active" \/ bond_map_[n] \in {"stale", "broken"}
    /\ phases[1] = "deactivate" /\ job # "hardReset"
         => \A n \in (Target + 1) .. N : node[n] # "active"

(* The manager runs into a destroyed service client only after a shutdown  *)
(* (lifecycle_manager.cpp:204-211, 356-366, 541).                          *)
DiesOnlyAfterShutdown == job = "dead" => managed_nodes_state_ = "FINALIZED"

(* A node that is lost while the system is active takes the system out of  *)
(* the active state, unless the manager waits for an answer that a crash   *)
(* has swallowed (lifecycle_manager.cpp:476-514).                          *)
LossIsNoticed ==
  \A n \in Node :
    (managed_nodes_state_ = "ACTIVE" /\ bond_map_[n] \in {"stale", "broken"})
      ~> (managed_nodes_state_ # "ACTIVE" \/ call = "lost")

(* Every command is answered, with the same exception                      *)
(* (lifecycle_manager.cpp:117-147).                                        *)
CommandEnds == Busy ~> (~Busy \/ call = "lost")

-----------------------------------------------------------------------------
(* What comments in the code say of it.                                    *)

(* lifecycle_manager.cpp:493: "if one is down, bring them all down", by a  *)
(* "hard reset to transition all still active down" (499).                 *)
AllBroughtDown ==
  job = "none" /\ managed_nodes_state_ = "UNCONFIGURED"
    => \A n \in Node : node[n] # "active"

=============================================================================
