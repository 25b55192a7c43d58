-------------------------- MODULE LifecycleProofs ---------------------------
(***************************************************************************)
(* Theorems about LifecycleManager for every number of managed nodes,      *)
(* every series of commands, and crashes, restarts and lost bonds at any   *)
(* moment.                                                                 *)
(***************************************************************************)
EXTENDS LifecycleManager, TLAPS

(* The inductive invariant.  First the values of the variables.            *)
Jobs == Commands \cup {"hardReset"}
Bonds == {"none", "formed", "stale", "broken"}
States == {"unconfigured", "inactive", "active", "finalized", "dead"}

TypeInv ==
  /\ node \in [Node -> States]
  /\ bond_map_ \in [Node -> Bonds]
  /\ job \in Jobs \cup {"none", "dead", "respawn"}
  /\ bond_timer_ \in BOOLEAN /\ clients \in BOOLEAN

(* The transitions ahead of a job, the present one first.                  *)
Ahead(j) ==
  CASE j = "startup"   -> {<<"configure", "activate">>, <<"activate">>}
    [] j = "configure" -> {<<"configure">>}
    [] j = "cleanup"   -> {<<"cleanup">>}
    [] j = "reset"     -> {<<"deactivate", "cleanup">>, <<"cleanup">>}
    [] j = "hardReset" -> {<<"deactivate", "cleanup">>, <<"cleanup">>}
    [] j = "shutdown"  -> {<<"deactivate", "cleanup", "shutdown">>,
                           <<"cleanup", "shutdown">>, <<"shutdown">>}
    [] j = "pause"     -> {<<"deactivate">>}
    [] j = "resume"    -> {<<"activate">>}

(* The nodes left are a tail of the order of the transition.               *)
Up(transition) == transition \in {"configure", "activate"}
IsLeft(s, transition) ==
  /\ s \in Seq(Node) /\ Len(s) \in 1 .. N
  /\ \A i \in 1 .. Len(s) : s[i] = IF Up(transition) THEN (N - Len(s)) + i
                                                     ELSE (Len(s) - i) + 1

WorkInv == Busy => phases \in Ahead(job) /\ IsLeft(left, phases[1])

(* Only a finished shutdown destroys the service clients.                  *)
ClientsInv ==
  /\ ~clients => managed_nodes_state_ = "FINALIZED" /\ job \in {"none", "dead"}
  /\ job = "dead" => ~clients

(* What a transition has achieved for the nodes that it is through with,   *)
(* if the bonds are b: an activated one is active and bonded unless its    *)
(* bond has lost its peer; a configured or deactivated one is not active.  *)
Bonded(n, b) ==
  \/ node[n] = "active" /\ b[n] # "none"
  \/ b[n] \in {"stale", "broken"}
Achieved(n, b) ==
  /\ phases[1] = "activate" => Bonded(n, b)
  /\ phases[1] \in {"configure", "deactivate"} /\ job # "hardReset" => node[n] # "active"
Through(n) == IF Up(phases[1]) THEN n < Target ELSE n > Target

DoneInv == Busy => \A n \in Node : Through(n) => Achieved(n, bond_map_)

ManagerInv == WorkInv /\ ClientsInv /\ DoneInv /\ ReportHolds

-----------------------------------------------------------------------------
LEMMA OrderIsLeft ==
  ASSUME NEW transition
  PROVE  /\ IsLeft(Order(transition), transition)
         /\ Up(transition) => Order(transition)[1] = 1
         /\ ~Up(transition) => Order(transition)[1] = N
<1>1. node_names_ \in Seq(Node) /\ Len(node_names_) = N
  BY ManagerAssumption DEF node_names_, Node
<1>2. \A i \in 1 .. N : node_names_[i] = i
  BY DEF node_names_, Node
<1>3. CASE Up(transition)
  BY <1>1, <1>2, <1>3, ManagerAssumption DEF Order, Up, IsLeft
<1>4. CASE ~Up(transition)
  <2>1. Order(transition) = [i \in 1 .. N |-> node_names_[(N - i) + 1]]
    BY <1>1, <1>4 DEF Order, Up, Reverse
  <2>2. Order(transition) = [i \in 1 .. N |-> (N - i) + 1]
    BY <1>2, <2>1, ManagerAssumption
  <2>3. Order(transition) \in Seq(Node) /\ Len(Order(transition)) = N
    BY <2>2, ManagerAssumption DEF Node
  <2> QED BY <1>4, <2>2, <2>3, ManagerAssumption DEF IsLeft
<1> QED BY <1>3, <1>4

(* No node is done when a transition begins, and all but the last are when *)
(* one is left.                                                            *)
LEMMA LeftTarget ==
  ASSUME NEW t, NEW s, IsLeft(s, t)
  PROVE  /\ s[1] \in Node /\ s[1] = IF Up(t) THEN (N - Len(s)) + 1 ELSE Len(s)
         /\ Len(s) > 1 => IsLeft(Tail(s), t) /\ Len(Tail(s)) = Len(s) - 1
<1>1. /\ s \in Seq(Node) /\ Len(s) \in 1 .. N
      /\ \A i \in 1 .. Len(s) : s[i] = IF Up(t) THEN (N - Len(s)) + i ELSE (Len(s) - i) + 1
  BY DEF IsLeft
<1>2. s[1] \in Node /\ s[1] = IF Up(t) THEN (N - Len(s)) + 1 ELSE Len(s)
  BY <1>1, ManagerAssumption
<1>3. ASSUME Len(s) > 1
      PROVE  IsLeft(Tail(s), t) /\ Len(Tail(s)) = Len(s) - 1
  <2>1. /\ Tail(s) \in Seq(Node) /\ Len(Tail(s)) = Len(s) - 1
        /\ \A i \in 1 .. (Len(s) - 1) : Tail(s)[i] = s[i + 1]
    BY <1>1, <1>3
  <2>2. Len(s) - 1 \in 1 .. N
    BY <1>1, <1>3, ManagerAssumption
  <2>3. ASSUME NEW i \in 1 .. (Len(s) - 1)
        PROVE  Tail(s)[i] = IF Up(t) THEN (N - (Len(s) - 1)) + i
                                     ELSE ((Len(s) - 1) - i) + 1
    <3>1. i + 1 \in 1 .. Len(s)
      BY <1>1
    <3>2. s[i + 1] = IF Up(t) THEN (N - Len(s)) + (i + 1) ELSE (Len(s) - (i + 1)) + 1
      BY <1>1, <3>1
    <3> QED BY <1>1, <2>1, <3>2, ManagerAssumption
  <2> QED BY <2>1, <2>2, <2>3 DEF IsLeft
<1> QED BY <1>2, <1>3

LEMMA ManagerInit == Init => TypeInv /\ ManagerInv
<1> SUFFICES ASSUME Init PROVE TypeInv /\ ManagerInv
  OBVIOUS
<1>1. bond_timer_ \in BOOLEAN /\ clients \in BOOLEAN /\ clients
  BY DEF Init
<1>2. TypeInv
  BY <1>1 DEF Init, TypeInv, States, Bonds
<1>3. ManagerInv
  BY <1>1 DEF Init, ManagerInv, WorkInv, ClientsInv, DoneInv, ReportHolds, Busy
<1> QED BY <1>2, <1>3

LEMMA ShortTails ==
  ASSUME NEW x, NEW y, NEW z
  PROVE  /\ Len(<<x>>) = 1 /\ <<x>>[1] = x
         /\ Len(<<x, y>>) = 2 /\ <<x, y>>[1] = x /\ <<x, y>>[2] = y
         /\ Tail(<<x, y>>) = <<y>>
         /\ Len(<<x, y, z>>) = 3 /\ <<x, y, z>>[1] = x /\ <<x, y, z>>[2] = y
         /\ Tail(<<x, y, z>>) = <<y, z>>
  OBVIOUS

(* The jobs and their transitions.                                         *)
LEMMA AheadValues ==
  ASSUME NEW j \in Jobs, NEW p \in Ahead(j)
  PROVE  /\ Len(p) >= 1
         /\ p[1] \in {"configure", "cleanup", "activate", "deactivate", "shutdown"}
         /\ Len(p) > 1 => Tail(p) \in Ahead(j) /\ Tail(p)[1] = p[2]
         /\ ~(Len(p) > 1) /\ j \in {"startup", "resume"} => p[1] = "activate"
         /\ ~(Len(p) > 1) /\ j \in {"configure", "pause"}
              => p[1] \in {"configure", "deactivate"}
<1>1. CASE j = "startup"
  <2>1. Ahead(j) = {<<"configure", "activate">>, <<"activate">>}
    BY <1>1 DEF Ahead
  <2>2. CASE p = <<"configure", "activate">>
    BY <1>1, <2>1, <2>2, ShortTails
  <2>3. CASE p = <<"activate">>
    BY <1>1, <2>1, <2>3, ShortTails
  <2> QED BY <2>1, <2>2, <2>3
<1>2. CASE j \in {"configure", "cleanup", "pause", "resume"}
  <2>1. PICK t \in {"configure", "cleanup", "deactivate", "activate"} :
          /\ p = <<t>>
          /\ j = "resume" => t = "activate"
          /\ j \in {"configure", "pause"} => t \in {"configure", "deactivate"}
    BY <1>2 DEF Ahead
  <2> QED BY <1>2, <2>1, ShortTails
<1>3. CASE j \in {"reset", "hardReset"}
  <2>1. Ahead(j) = {<<"deactivate", "cleanup">>, <<"cleanup">>}
    BY <1>3 DEF Ahead
  <2>2. CASE p = <<"deactivate", "cleanup">>
    BY <1>3, <2>1, <2>2, ShortTails
  <2>3. CASE p = <<"cleanup">>
    BY <1>3, <2>1, <2>3, ShortTails
  <2> QED BY <2>1, <2>2, <2>3
<1>4. CASE j = "shutdown"
  <2>1. Ahead(j) = {<<"deactivate", "cleanup", "shutdown">>, <<"cleanup", "shutdown">>,
                    <<"shutdown">>}
    BY <1>4 DEF Ahead
  <2>2. CASE p = <<"deactivate", "cleanup", "shutdown">>
    BY <1>4, <2>1, <2>2, ShortTails
  <2>3. CASE p = <<"cleanup", "shutdown">>
    BY <1>4, <2>1, <2>3, ShortTails
  <2>4. CASE p = <<"shutdown">>
    BY <1>4, <2>1, <2>4, ShortTails
  <2> QED BY <2>1, <2>2, <2>3, <2>4
<1> QED BY <1>1, <1>2, <1>3, <1>4 DEF Jobs, Commands

LEMMA PhasesAhead ==
  ASSUME NEW j \in Jobs
  PROVE  Phases[j] \in Ahead(j)
  BY DEF Jobs, Commands, Phases, Ahead

LEMMA SucceedsValues ==
  ASSUME NEW j \in Jobs
  PROVE  /\ Succeeds[j] = "ACTIVE" <=> j \in {"startup", "resume"}
         /\ Succeeds[j] = "INACTIVE" <=> j \in {"configure", "pause"}
         /\ j = "shutdown" => Succeeds[j] = "FINALIZED"
  BY DEF Jobs, Commands, Succeeds

(* A job starts.                                                           *)
LEMMA StartKeeps ==
  ASSUME TypeInv, NEW j \in Jobs, Start(j), clients' = TRUE
  PROVE  job' \in Jobs /\ ManagerInv'
<1>1. /\ job' = j /\ phases' = Phases[j] /\ left' = Order(Phases[j][1])
      /\ phases' \in Ahead(j) /\ phases'[1] = Phases[j][1]
  BY PhasesAhead DEF Start
<1>2. j \notin {"none", "dead", "respawn"} /\ Busy'
  BY <1>1 DEF Jobs, Commands, Busy
<1>3. /\ IsLeft(left', phases'[1])
      /\ Up(phases'[1]) => left'[1] = 1
      /\ ~Up(phases'[1]) => left'[1] = N
  BY <1>1, OrderIsLeft
<1>4. WorkInv'
  BY <1>1, <1>3 DEF WorkInv
<1>5. ClientsInv'
  BY <1>1, <1>2 DEF ClientsInv
<1>6. DoneInv'
  BY <1>3, ManagerAssumption DEF DoneInv, Through, Target, Node
<1>7. ReportHolds'
  BY <1>1, <1>2 DEF ReportHolds
<1> QED BY <1>1, <1>4, <1>5, <1>6, <1>7 DEF ManagerInv

(* A job ends.  Success means that the last transition has achieved what   *)
(* it was to achieve for every node.                                       *)
LEMMA FinishKeeps ==
  ASSUME TypeInv, ManagerInv, Busy, node' = node, NEW b \in [Node -> Bonds],
         NEW state, Finish(state, b),
         state = "ACTIVE" => job # "hardReset" /\ \A n \in Node : Bonded(n, b),
         state = "INACTIVE" => \A n \in Node : node[n] # "active",
         job = "shutdown" => state = "FINALIZED"
  PROVE  TypeInv' /\ ManagerInv'
<1>1. /\ job' = "none" /\ managed_nodes_state_' = state
      /\ bond_timer_' = (bond_timer_ \/ state = "ACTIVE")
      /\ bond_map_' = IF job = "hardReset" THEN [n \in Node |-> "none"] ELSE b
      /\ clients' = (job # "shutdown")
  BY DEF Finish
<1>2. bond_timer_' \in BOOLEAN /\ clients' \in BOOLEAN
  BY <1>1
<1>3. bond_map_' \in [Node -> Bonds]
  BY <1>1 DEF Bonds
<1>4. TypeInv'
  BY <1>1, <1>2, <1>3 DEF TypeInv
<1>5. ~Busy' /\ job' # "dead"
  BY <1>1 DEF Busy
<1>6. WorkInv' /\ DoneInv'
  BY <1>5 DEF WorkInv, DoneInv
<1>7. ClientsInv'
  BY <1>1, <1>5 DEF ClientsInv
<1>8. ReportHolds'
  BY <1>1 DEF ReportHolds, Bonded
<1> QED BY <1>4, <1>6, <1>7, <1>8 DEF ManagerInv

(* The next transition, or the end: either nothing is claimed of the last  *)
(* one, or it has achieved its aim.                                        *)
LEMMA NextPhaseKeeps ==
  ASSUME TypeInv, ManagerInv, Busy, node' = node, NEW b \in [Node -> Bonds], NextPhase(b),
         job = "shutdown" \/ \A n \in Node : Achieved(n, b)
  PROVE  TypeInv' /\ ManagerInv'
<1>1. job \in Jobs /\ phases \in Ahead(job) /\ clients
  BY DEF Busy, TypeInv, ManagerInv, WorkInv, ClientsInv
<1>2. CASE Len(phases) > 1
  <2>1. /\ phases' = Tail(phases) /\ left' = Order(phases[2]) /\ bond_map_' = b
        /\ UNCHANGED <<job, managed_nodes_state_, bond_timer_, clients>>
    BY <1>2 DEF NextPhase, timers
  <2>2. phases' \in Ahead(job) /\ phases'[1] = phases[2]
    BY <1>1, <1>2, <2>1, AheadValues
  <2>3. /\ IsLeft(left', phases'[1])
        /\ Up(phases'[1]) => left'[1] = 1
        /\ ~Up(phases'[1]) => left'[1] = N
    BY <2>1, <2>2, OrderIsLeft
  <2>4. TypeInv'
    BY <2>1 DEF TypeInv
  <2>5. WorkInv'
    BY <2>1, <2>2, <2>3 DEF WorkInv
  <2>6. ClientsInv'
    BY <2>1 DEF ManagerInv, ClientsInv, Busy
  <2>7. DoneInv'
    BY <2>3, ManagerAssumption DEF DoneInv, Through, Target, Node
  <2>8. ReportHolds'
    BY <2>1 DEF ReportHolds, Busy
  <2> QED BY <2>4, <2>5, <2>6, <2>7, <2>8 DEF ManagerInv
<1>3. CASE ~(Len(phases) > 1)
  <2>1. Finish(Succeeds[job], b)
    BY <1>3 DEF NextPhase
  <2>2. Succeeds[job] = "ACTIVE" => job # "hardReset" /\ \A n \in Node : Bonded(n, b)
    BY <1>1, <1>3, AheadValues, SucceedsValues DEF Achieved
  <2>3. Succeeds[job] = "INACTIVE" => \A n \in Node : node[n] # "active"
    BY <1>1, <1>3, AheadValues, SucceedsValues DEF Achieved
  <2>4. job = "shutdown" => Succeeds[job] = "FINALIZED"
    BY <1>1, SucceedsValues
  <2> QED BY <2>1, <2>2, <2>3, <2>4, FinishKeeps
<1> QED BY <1>2, <1>3

LEMMA NextNodeKeeps ==
  ASSUME TypeInv, ManagerInv, Busy, node' = node, NEW b \in [Node -> Bonds], NextNode(b),
         \A n \in Node : Through(n) \/ n = Target => Achieved(n, b)
  PROVE  TypeInv' /\ ManagerInv'
<1>1. phases \in Ahead(job) /\ IsLeft(left, phases[1])
  BY DEF ManagerInv, WorkInv
<1>2. /\ Target \in Node /\ Len(left) \in 1 .. N
      /\ Target = IF Up(phases[1]) THEN (N - Len(left)) + 1 ELSE Len(left)
      /\ Len(left) > 1 => IsLeft(Tail(left), phases[1]) /\ Len(Tail(left)) = Len(left) - 1
  BY <1>1, LeftTarget DEF Target, IsLeft
<1>3. CASE Len(left) > 1
  <2>1. /\ left' = Tail(left) /\ bond_map_' = b
        /\ UNCHANGED <<job, phases, managed_nodes_state_, bond_timer_, clients>>
    BY <1>3 DEF NextNode, timers
  <2>2. IsLeft(left', phases'[1]) /\ Len(left') = Len(left) - 1
    BY <1>2, <1>3, <2>1
  <2>3. Target' = IF Up(phases[1]) THEN (N - Len(left')) + 1 ELSE Len(left')
    BY <2>1, <2>2, LeftTarget DEF Target
  <2>4. \A n \in Node : Through(n)' => Through(n) \/ n = Target
    <3>1. Target' = IF Up(phases[1]) THEN Target + 1 ELSE Target - 1
      BY <1>2, <2>2, <2>3, ManagerAssumption
    <3>2. Target \in Int /\ \A n \in Node : n \in Int
      BY <1>2, ManagerAssumption DEF Node
    <3>3. \A n \in Node : Through(n)' <=> IF Up(phases[1]) THEN n < Target' ELSE n > Target'
      BY <2>1 DEF Through
    <3> QED BY <3>1, <3>2, <3>3 DEF Through
  <2>5. TypeInv'
    BY <2>1 DEF TypeInv
  <2>6. WorkInv'
    BY <1>1, <2>1, <2>2 DEF WorkInv
  <2>7. ClientsInv'
    BY <2>1 DEF ManagerInv, ClientsInv, Busy
  <2>8. DoneInv'
    BY <2>1, <2>4 DEF DoneInv, Achieved, Bonded
  <2>9. ReportHolds'
    BY <2>1 DEF ReportHolds, Busy
  <2> QED BY <2>5, <2>6, <2>7, <2>8, <2>9 DEF ManagerInv
<1>4. CASE ~(Len(left) > 1)
  <2>1. \A n \in Node : Through(n) \/ n = Target
    <3>1. Target = IF Up(phases[1]) THEN N ELSE 1
      BY <1>2, <1>4, ManagerAssumption
    <3> QED BY <3>1, ManagerAssumption DEF Through, Node
  <2>2. NextPhase(b)
    BY <1>4 DEF NextNode
  <2> QED BY <2>1, <2>2, NextPhaseKeeps
<1> QED BY <1>3, <1>4

LEMMA PhaseFailsKeeps ==
  ASSUME TypeInv, ManagerInv, Busy, node' = node, NEW b \in [Node -> Bonds], PhaseFails(b)
  PROVE  TypeInv' /\ ManagerInv'
<1>1. CASE job = "shutdown"
  BY <1>1, NextPhaseKeeps DEF PhaseFails
<1>2. CASE job # "shutdown"
  <2>1. PICK state \in {"UNCONFIGURED", "UNKNOWN"} : Finish(state, b)
    BY <1>2 DEF PhaseFails
  <2> QED BY <1>2, <2>1, FinishKeeps
<1> QED BY <1>1, <1>2

LEMMA NodeFailsKeeps ==
  ASSUME TypeInv, ManagerInv, Busy, node' = node, NEW b \in [Node -> Bonds], NodeFails(b)
  PROVE  TypeInv' /\ ManagerInv'
<1>1. CASE job = "hardReset"
  <2>1. phases[1] # "activate"
    <3>1. phases \in {<<"deactivate", "cleanup">>, <<"cleanup">>}
      BY <1>1 DEF ManagerInv, WorkInv, Ahead
    <3> QED BY <3>1, ShortTails
  <2>2. \A n \in Node : Achieved(n, b)
    BY <1>1, <2>1 DEF Achieved
  <2> QED BY <1>1, <2>2, NextNodeKeeps DEF NodeFails
<1>2. CASE job # "hardReset"
  BY <1>2, PhaseFailsKeeps DEF NodeFails
<1> QED BY <1>1, <1>2

-----------------------------------------------------------------------------
(* The exchanges with a node.                                              *)
LEMMA TargetAhead ==
  ASSUME TypeInv, ManagerInv, Busy
  PROVE  /\ Target \in Node /\ job \in Jobs
         /\ phases[1] \in {"configure", "cleanup", "activate", "deactivate", "shutdown"}
         /\ \A n \in Node : Through(n) => n # Target
<1>1. job \in Jobs /\ phases \in Ahead(job) /\ IsLeft(left, phases[1])
  BY DEF Busy, TypeInv, ManagerInv, WorkInv
<1>2. Target \in Node
  BY <1>1, LeftTarget DEF Target
<1> QED BY <1>1, <1>2, AheadValues, ManagerAssumption DEF Through, Node

LEMMA ExchangeKeeps ==
  ASSUME TypeInv, ManagerInv, Exchange
  PROVE  TypeInv' /\ ManagerInv'
<1>0. bond_map_ \in [Node -> Bonds]
  BY DEF TypeInv
<1>1. CASE SendChangeState
  <2>1. UNCHANGED <<managed_nodes_state_, bond_map_, bond_timer_, clients, job, phases, left,
                    node>>
    BY <1>1 DEF SendChangeState, timers
  <2>2. TypeInv'
    BY <2>1 DEF TypeInv
  <2>3. WorkInv' /\ ClientsInv' /\ DoneInv' /\ ReportHolds'
    BY <2>1
    DEF ManagerInv, WorkInv, ClientsInv, DoneInv, ReportHolds, Busy, Through, Target,
        Achieved, Bonded
  <2> QED BY <2>2, <2>3 DEF ManagerInv
<1>2. CASE ServiceNotAvailable \/ GetStateThrows
  BY <1>0, <1>2, PhaseFailsKeeps DEF ServiceNotAvailable, GetStateThrows
<1>3. CASE NotReached
  BY <1>0, <1>3, NodeFailsKeeps DEF NotReached
<1>4. CASE ConnectBond
  <2>1. Busy /\ node' = node /\ phases[1] = "activate" /\ node[Target] = "active"
    BY <1>4 DEF ConnectBond, Reached, transition_state_map_
  <2>2. Target \in Node /\ \A n \in Node : Through(n) => n # Target /\ Bonded(n, bond_map_)
    BY <2>1, TargetAhead DEF ManagerInv, DoneInv, Achieved
  <2>3. CASE bond_map_[Target] # "none" /\ NextNode(bond_map_)
    <3>1. \A n \in Node : Through(n) \/ n = Target => Achieved(n, bond_map_)
      BY <2>1, <2>2, <2>3 DEF Achieved, Bonded
    <3> QED BY <1>0, <2>1, <2>3, <3>1, NextNodeKeeps
  <2>4. ASSUME NextNode([bond_map_ EXCEPT ![Target] = "formed"])
        PROVE  TypeInv' /\ ManagerInv'
    <3> DEFINE b == [bond_map_ EXCEPT ![Target] = "formed"]
    <3>1. b \in [Node -> Bonds]
      BY <1>0, <2>2 DEF Bonds
    <3>2. \A n \in Node : Through(n) \/ n = Target => Achieved(n, b)
      BY <1>0, <2>1, <2>2 DEF Achieved, Bonded
    <3> QED BY <2>1, <2>4, <3>1, <3>2, NextNodeKeeps
  <2>5. ASSUME NodeFails([bond_map_ EXCEPT ![Target] = "stale"])
        PROVE  TypeInv' /\ ManagerInv'
    <3>1. [bond_map_ EXCEPT ![Target] = "stale"] \in [Node -> Bonds]
      BY <1>0, <2>2 DEF Bonds
    <3> QED BY <2>1, <2>5, <3>1, NodeFailsKeeps
  <2> QED BY <1>4, <2>3, <2>4, <2>5 DEF ConnectBond
<1>5. CASE EraseBond
  <2> DEFINE b == [bond_map_ EXCEPT ![Target] = "none"]
  <2>1. /\ Busy /\ node' = node /\ phases[1] = "deactivate" /\ node[Target] = "inactive"
        /\ NextNode(b)
    BY <1>5 DEF EraseBond, Reached, transition_state_map_
  <2>2. /\ Target \in Node
        /\ \A n \in Node : Through(n) => (job # "hardReset" => node[n] # "active")
    BY <2>1, TargetAhead DEF ManagerInv, DoneInv, Achieved
  <2>3. b \in [Node -> Bonds]
    BY <1>0, <2>2 DEF Bonds
  <2>4. \A n \in Node : Through(n) \/ n = Target => Achieved(n, b)
    BY <2>1, <2>2 DEF Achieved
  <2> HIDE DEF b
  <2> QED BY <2>1, <2>3, <2>4, NextNodeKeeps
<1>6. CASE OtherReached
  <2>1. /\ Busy /\ node' = node /\ phases[1] \notin {"activate", "deactivate"}
        /\ node[Target] = transition_state_map_[phases[1]] /\ NextNode(bond_map_)
    BY <1>6 DEF OtherReached, Reached
  <2>2. phases[1] = "configure" => node[Target] # "active"
    BY <2>1 DEF transition_state_map_
  <2>3. \A n \in Node : Through(n) \/ n = Target => Achieved(n, bond_map_)
    BY <2>1, <2>2 DEF ManagerInv, DoneInv, Achieved
  <2> QED BY <1>0, <2>1, <2>3, NextNodeKeeps
<1> QED BY <1>1, <1>2, <1>3, <1>4, <1>5, <1>6 DEF Exchange

-----------------------------------------------------------------------------
(* The nodes.  A node that changes state takes its bond along; none        *)
(* becomes active but by an activation of the manager.                     *)
LEMMA BecomesKeeps ==
  ASSUME TypeInv, ManagerInv, NEW n \in Node, NEW state \in States, Becomes(n, state),
         UNCHANGED <<managed_nodes_state_, bond_timer_, clients, job, phases, left>>,
         state # "active" \/ node[n] = "active" \/ (Busy /\ n = Target)
  PROVE  TypeInv' /\ ManagerInv'
<1>1. /\ node' = [node EXCEPT ![n] = state]
      /\ bond_map_' = IF node[n] = "active" /\ state # "active" /\ bond_map_[n] = "formed"
                      THEN [bond_map_ EXCEPT ![n] = "stale"] ELSE bond_map_
  BY DEF Becomes
<1>2. TypeInv'
  BY <1>1 DEF TypeInv, Bonds
<1>3. WorkInv' /\ ClientsInv'
  BY DEF ManagerInv, WorkInv, ClientsInv, Busy
<1>4. \A m \in Node : Bonded(m, bond_map_) => Bonded(m, bond_map_)'
  BY <1>1 DEF Bonded, TypeInv, Bonds
<1>5. \A m \in Node : (Busy => m # Target) /\ node[m] # "active" => node'[m] # "active"
  BY <1>1 DEF TypeInv
<1>6. DoneInv'
  <2> SUFFICES ASSUME Busy, NEW m \in Node, Through(m) PROVE Achieved(m, bond_map_)'
    BY DEF DoneInv, Busy, Through, Target
  <2>1. m # Target /\ Achieved(m, bond_map_)
    BY TargetAhead DEF ManagerInv, DoneInv
  <2> QED BY <1>4, <1>5, <2>1 DEF Achieved
<1>7. ReportHolds'
  <2> SUFFICES ASSUME ~Busy PROVE ReportHolds'
    BY DEF ReportHolds, Busy
  <2> QED BY <1>4, <1>5 DEF ManagerInv, ReportHolds, Bonded
<1> QED BY <1>2, <1>3, <1>6, <1>7 DEF ManagerInv

LEMMA NodesKeep ==
  ASSUME TypeInv, ManagerInv,
         Answer \/ \E n \in Node : Crash(n) \/ Respawn(n) \/ BondBreaks(n)
  PROVE  TypeInv' /\ ManagerInv'
<1>1. CASE Answer
  <2>1. Busy
    BY <1>1 DEF Answer
  <2>2. /\ Target \in Node
        /\ phases[1] \in {"configure", "cleanup", "activate", "deactivate", "shutdown"}
    BY <2>1, TargetAhead
  <2>3. transition_state_map_[phases[1]] \in States /\ node[Target] \in States
        /\ "unconfigured" \in States
    BY <2>2 DEF transition_state_map_, States, TypeInv
  <2>4. PICK state \in States : Becomes(Target, state)
    BY <1>1, <2>3 DEF Answer
  <2>5. UNCHANGED <<managed_nodes_state_, bond_timer_, clients, job, phases, left>>
    BY <1>1 DEF Answer, timers
  <2> QED BY <2>1, <2>2, <2>4, <2>5, BecomesKeeps
<1>2. ASSUME NEW n \in Node, Crash(n)
      PROVE  TypeInv' /\ ManagerInv'
  <2>1. /\ Becomes(n, "dead") /\ "dead" \in States
        /\ UNCHANGED <<managed_nodes_state_, bond_timer_, clients, job, phases, left>>
    BY <1>2 DEF Crash, timers, States
  <2> QED BY <2>1, BecomesKeeps
<1>3. ASSUME NEW n \in Node, Respawn(n)
      PROVE  TypeInv' /\ ManagerInv'
  <2>1. /\ Becomes(n, "unconfigured") /\ "unconfigured" \in States
        /\ UNCHANGED <<managed_nodes_state_, bond_timer_, clients, job, phases, left>>
    BY <1>3 DEF Respawn, timers, work, States
  <2> QED BY <2>1, BecomesKeeps
<1>4. ASSUME NEW n \in Node, BondBreaks(n)
      PROVE  TypeInv' /\ ManagerInv'
  <2>1. /\ bond_map_[n] = "stale" /\ bond_map_' = [bond_map_ EXCEPT ![n] = "broken"]
        /\ UNCHANGED <<managed_nodes_state_, bond_timer_, clients, job, phases, left, node>>
    BY <1>4 DEF BondBreaks, timers, work
  <2>2. TypeInv'
    BY <2>1 DEF TypeInv, Bonds
  <2>3. \A m \in Node : Bonded(m, bond_map_) => Bonded(m, bond_map_)'
    BY <2>1 DEF Bonded, TypeInv
  <2>4. WorkInv' /\ ClientsInv'
    BY <2>1 DEF ManagerInv, WorkInv, ClientsInv, Busy
  <2>5. DoneInv'
    BY <2>1, <2>3 DEF ManagerInv, DoneInv, Busy, Through, Target, Achieved
  <2>6. ReportHolds'
    BY <2>1, <2>3 DEF ManagerInv, ReportHolds, Bonded, Busy
  <2> QED BY <2>2, <2>4, <2>5, <2>6 DEF ManagerInv
<1> QED BY <1>1, <1>2, <1>3, <1>4

-----------------------------------------------------------------------------
(* The requests and the timers.                                            *)
LEMMA DiesKeeps ==
  ASSUME TypeInv, ManagerInv, Dies, ~clients, clients' = clients, job = "none",
         bond_timer_' \in BOOLEAN, UNCHANGED <<bond_map_, node>>,
         managed_nodes_state_' \in {managed_nodes_state_, "FINALIZED"}
  PROVE  TypeInv' /\ ManagerInv'
<1>1. job' = "dead" /\ ~Busy'
  BY DEF Dies, Busy
<1>2. TypeInv'
  BY <1>1 DEF TypeInv
<1>3. WorkInv' /\ DoneInv'
  BY <1>1 DEF WorkInv, DoneInv
<1>4. ClientsInv'
  BY <1>1 DEF ManagerInv, ClientsInv
<1>5. ReportHolds'
  BY DEF ManagerInv, ClientsInv, ReportHolds
<1> QED BY <1>2, <1>3, <1>4, <1>5 DEF ManagerInv

(* The poll for servers that have come back: a job that claims nothing.    *)
LEMMA PollKeeps ==
  ASSUME TypeInv, ManagerInv, ~Busy, ~Busy', job' \in {"none", "respawn"}, clients,
         UNCHANGED <<managed_nodes_state_, bond_map_, bond_timer_, clients, node>>
  PROVE  TypeInv' /\ ManagerInv'
<1>1. TypeInv'
  BY DEF TypeInv
<1>2. WorkInv' /\ DoneInv'
  BY DEF WorkInv, DoneInv
<1>3. ClientsInv'
  BY DEF ClientsInv
<1>4. ReportHolds'
  BY DEF ManagerInv, ReportHolds
<1> QED BY <1>1, <1>2, <1>3, <1>4 DEF ManagerInv

LEMMA PollStep ==
  ASSUME TypeInv, ManagerInv, Poll
  PROVE  TypeInv' /\ ManagerInv'
<1>1. /\ job = "respawn" /\ ~Busy
      /\ UNCHANGED <<managed_nodes_state_, bond_map_, bond_timer_, clients, node>>
  BY DEF Poll, ServerAlive, ServerMissing, Busy
<1>2. clients
  BY <1>1 DEF ManagerInv, ClientsInv
<1>3. CASE Start("startup")
  <2>1. clients' = TRUE /\ "startup" \in Jobs
    BY <1>1, <1>2 DEF TypeInv, Jobs, Commands
  <2>2. job' \in Jobs /\ ManagerInv'
    BY <1>3, <2>1, StartKeeps
  <2> QED BY <1>1, <2>2 DEF TypeInv
<1>4. CASE job' \in {"none", "respawn"}
  <2>1. ~Busy'
    BY <1>4 DEF Busy
  <2> QED BY <1>1, <1>2, <1>4, <2>1, PollKeeps
<1> QED BY <1>1, <1>3, <1>4 DEF Poll, ServerAlive, ServerMissing

LEMMA RequestsKeep ==
  ASSUME TypeInv, ManagerInv,
         \/ \E j \in Commands : Command(j)
         \/ CheckBondConnections \/ CheckBondRespawnConnection
  PROVE  TypeInv' /\ ManagerInv'
<1>1. ASSUME NEW j \in Commands, Command(j)
      PROVE  TypeInv' /\ ManagerInv'
  <2>1. /\ job = "none" /\ UNCHANGED <<bond_map_, clients, node>>
        /\ bond_timer_' = (bond_timer_ /\ j \notin {"reset", "shutdown", "pause"})
        /\ managed_nodes_state_' = IF j = "shutdown" THEN "FINALIZED"
                                                     ELSE managed_nodes_state_
    BY <1>1 DEF Command
  <2>2. bond_timer_' \in BOOLEAN
    BY <2>1
  <2>3. CASE clients
    <3>1. Start(j) /\ clients' = TRUE /\ j \in Jobs
      BY <1>1, <2>1, <2>3 DEF Command, TypeInv, Jobs
    <3>2. job' \in Jobs /\ ManagerInv'
      BY <3>1, StartKeeps
    <3> QED BY <2>1, <2>2, <3>2 DEF TypeInv
  <2>4. CASE ~clients
    <3>1. Dies
      BY <1>1, <2>4 DEF Command
    <3> QED BY <2>1, <2>2, <2>4, <3>1, DiesKeeps
  <2> QED BY <2>3, <2>4
<1>2. CASE CheckBondConnections
  <2>1. /\ job = "none" /\ Start("hardReset") /\ managed_nodes_state_ = "ACTIVE"
        /\ bond_timer_' = FALSE /\ UNCHANGED <<bond_map_, clients, node>>
        /\ "hardReset" \in Jobs
    BY <1>2 DEF CheckBondConnections, Jobs
  <2>2. clients' = TRUE
    BY <2>1 DEF ManagerInv, ClientsInv, TypeInv
  <2>3. job' \in Jobs /\ ManagerInv'
    BY <2>1, <2>2, StartKeeps
  <2>4. bond_timer_' \in BOOLEAN
    BY <2>1
  <2> QED BY <2>1, <2>3, <2>4 DEF TypeInv
<1>3. CASE CheckBondRespawnConnection
  <2>1. job = "none" /\ UNCHANGED <<managed_nodes_state_, bond_map_, bond_timer_, clients, node>>
    BY <1>3 DEF CheckBondRespawnConnection
  <2>2. CASE StopRespawn
    <3>1. UNCHANGED <<job, phases, left>>
      BY <2>2 DEF StopRespawn, work
    <3>2. TypeInv'
      BY <2>1, <3>1 DEF TypeInv
    <3>3. WorkInv' /\ ClientsInv' /\ DoneInv' /\ ReportHolds'
      BY <2>1, <3>1
      DEF ManagerInv, WorkInv, ClientsInv, DoneInv, ReportHolds, Busy, Through, Target,
          Achieved, Bonded
    <3> QED BY <3>2, <3>3 DEF ManagerInv
  <2>3. CASE StartPoll
    <3>1. job' = "respawn" /\ clients /\ ~Busy /\ ~Busy'
      BY <2>1, <2>3 DEF StartPoll, Busy
    <3> QED BY <2>1, <3>1, PollKeeps
  <2>4. CASE RespawnAfterShutdown
    <3>1. Dies /\ ~clients /\ bond_timer_' \in BOOLEAN
      BY <2>1, <2>4 DEF RespawnAfterShutdown, TypeInv
    <3> QED BY <2>1, <3>1, DiesKeeps
  <2> QED BY <1>3, <2>2, <2>3, <2>4 DEF CheckBondRespawnConnection
<1> QED BY <1>1, <1>2, <1>3

-----------------------------------------------------------------------------
LEMMA ManagerSound == Spec => [](TypeInv /\ ManagerInv)
<1>1. TypeInv /\ ManagerInv /\ [Next]_vars => (TypeInv /\ ManagerInv)'
  <2> SUFFICES ASSUME TypeInv, ManagerInv, [Next]_vars PROVE TypeInv' /\ ManagerInv'
    OBVIOUS
  <2>1. CASE Next
    BY <2>1, ExchangeKeeps, NodesKeep, RequestsKeep, PollStep DEF Next
  <2>2. CASE UNCHANGED vars
    <3>1. UNCHANGED <<managed_nodes_state_, bond_map_, bond_timer_, clients, job, phases,
                      left, node>>
      BY <2>2 DEF vars, timers, work
    <3>2. TypeInv'
      BY <3>1 DEF TypeInv
    <3>3. WorkInv' /\ ClientsInv' /\ DoneInv' /\ ReportHolds'
      BY <3>1
      DEF ManagerInv, WorkInv, ClientsInv, DoneInv, ReportHolds, Busy, Through, Target,
          Achieved, Bonded
    <3> QED BY <3>2, <3>3 DEF ManagerInv
  <2> QED BY <2>1, <2>2
<1> QED BY <1>1, ManagerInit, PTL DEF Spec

(* What the manager reports between two jobs is true for every number of   *)
(* nodes: ACTIVE, each is active or its lost bond is about to be found     *)
(* out; INACTIVE, none is active (lifecycle_manager.cpp:311-340, 390-421,  *)
(* 476-514).                                                               *)
THEOREM ReportsHold == Spec => []ReportHolds
<1>1. ManagerInv => ReportHolds
  BY DEF ManagerInv
<1> QED BY <1>1, ManagerSound, PTL

(* Nodes are activated in the order of node_names_, each only after those  *)
(* before it are active or lost, and deactivated in the reverse order,     *)
(* except in a hard reset (lifecycle_manager.cpp:264-299).                 *)
THEOREM OrderHolds == Spec => []OrderKept
<1>1. TypeInv /\ ManagerInv => OrderKept
  <2> SUFFICES ASSUME TypeInv, ManagerInv, Busy PROVE OrderKept
    BY DEF OrderKept
  <2>1. Target \in Node
    BY TargetAhead
  <2>2. \A n \in Node : Through(n) => Achieved(n, bond_map_)
    BY DEF ManagerInv, DoneInv
  <2>3. ASSUME phases[1] = "activate", NEW n \in 1 .. (Target - 1)
        PROVE  node[n] = "active" \/ bond_map_[n] \in {"stale", "broken"}
    <3>1. n \in Node /\ Through(n)
      BY <2>1, <2>3, ManagerAssumption DEF Through, Up, Node
    <3> QED BY <2>2, <2>3, <3>1 DEF Achieved, Bonded
  <2>4. ASSUME phases[1] = "deactivate", job # "hardReset", NEW n \in (Target + 1) .. N
        PROVE  node[n] # "active"
    <3>1. n \in Node /\ Through(n)
      BY <2>1, <2>4, ManagerAssumption DEF Through, Up, Node
    <3> QED BY <2>2, <2>4, <3>1 DEF Achieved
  <2> QED BY <2>3, <2>4 DEF OrderKept
<1> QED BY <1>1, ManagerSound, PTL

(* The manager runs into a destroyed service client only after a shutdown  *)
(* (lifecycle_manager.cpp:204-211, 356-366, 541).                          *)
THEOREM DeathOnlyAfterShutdown == Spec => []DiesOnlyAfterShutdown
<1>1. ManagerInv => DiesOnlyAfterShutdown
  BY DEF ManagerInv, ClientsInv, DiesOnlyAfterShutdown
<1> QED BY <1>1, ManagerSound, PTL

=============================================================================
