------------------------- MODULE BehaviorTreeProofs -------------------------
(***************************************************************************)
(* Theorems about BehaviorTree for every tree of recovery nodes,           *)
(* pipelines, round robins, rate controllers and leaves, every number of   *)
(* retries, and leaves that return anything or throw.                      *)
(***************************************************************************)
EXTENDS BehaviorTree, Integers, TLAPS

-----------------------------------------------------------------------------
(* The tree.                                                               *)

LEMMA BelowDef ==
  ASSUME NEW n \in Node
  PROVE  /\ Children[n] \in Seq(Node \ {Root}) /\ Len(Children[n]) \in Nat
         /\ DOMAIN Children[n] = 1 .. Len(Children[n])
         /\ Below(n) = {Children[n][k] : k \in 1 .. Len(Children[n])}
         /\ Below(n) \subseteq Node \ {Root}
<1>1. Children[n] \in Seq(Node \ {Root})
  BY TreeAssumption
<1>2. Len(Children[n]) \in Nat /\ DOMAIN Children[n] = 1 .. Len(Children[n])
  BY <1>1
<1>3. Below(n) = {Children[n][k] : k \in 1 .. Len(Children[n])}
  BY <1>2 DEF Below, Range
<1> QED BY <1>1, <1>2, <1>3

(* The child at a place is at no other place of the tree.                  *)
LEMMA OnePlace ==
  ASSUME NEW p \in Node, NEW q \in Node,
         NEW j \in 1 .. Len(Children[p]), NEW k \in 1 .. Len(Children[q]),
         Children[p][j] = Children[q][k]
  PROVE  p = q /\ j = k
<1>1. j \in DOMAIN Children[p] /\ k \in DOMAIN Children[q]
  BY BelowDef
<1>2. \A x, y \in Node : \A u \in DOMAIN Children[x], v \in DOMAIN Children[y] :
        Children[x][u] = Children[y][v] => x = y /\ u = v
  BY TreeAssumption, Zenon
<1> QED BY <1>1, <1>2, Zenon

LEMMA ChildPlace ==
  ASSUME NEW n \in Node, NEW k \in 1 .. Len(Children[n])
  PROVE  /\ Children[n][k] \in Below(n) /\ Children[n][k] \in Node \ {Root}
         /\ \A j \in 1 .. Len(Children[n]) : Children[n][j] = Children[n][k] => j = k
<1>1. Children[n][k] \in Below(n) /\ Below(n) \subseteq Node \ {Root}
  BY BelowDef
<1>2. \A j \in 1 .. Len(Children[n]) : Children[n][j] = Children[n][k] => j = k
  BY OnePlace
<1> QED BY <1>1, <1>2

LEMMA ParentIs ==
  ASSUME NEW n \in Node, NEW c \in Below(n)
  PROVE  Parent(c) = n /\ c \in Node \ {Root}
<1>1. c \in Node \ {Root}
  BY BelowDef
<1>2. \A p \in Node : c \in Below(p) => p = n
  <2> SUFFICES ASSUME NEW p \in Node, c \in Below(p) PROVE p = n
    OBVIOUS
  <2>1. PICK j \in 1 .. Len(Children[p]) : c = Children[p][j]
    BY BelowDef
  <2>2. PICK k \in 1 .. Len(Children[n]) : c = Children[n][k]
    BY BelowDef
  <2> QED BY <2>1, <2>2, OnePlace
<1> QED BY <1>1, <1>2 DEF Parent

LEMMA ParentType ==
  ASSUME NEW n \in Node \ {Root}
  PROVE  Parent(n) \in Node /\ n \in Below(Parent(n)) /\ Parent(n) # "engine"
<1>1. PICK p \in Node : n \in Below(p)
  BY TreeAssumption
<1>2. Parent(n) = p
  BY <1>1, ParentIs
<1> QED BY <1>1, <1>2, TreeAssumption

(* Sets that hold, with a node, its parent.                                *)
Upward(S) == \A x \in S \ {Root} : Parent(x) \in S

LEMMA PathIn ==
  ASSUME NEW n \in Node
  PROVE  /\ n \in Path[n] /\ Path[n] \subseteq Node /\ Upward(Path[n])
         /\ \A S \in SUBSET Node : n \in S /\ Upward(S) => Path[n] \subseteq S
<1>1. Path[n] = {m \in Node : \A S \in SUBSET Node : n \in S /\ Upward(S) => m \in S}
  BY DEF Path, Upward
<1>2. Upward(Path[n])
  <2> SUFFICES ASSUME NEW x \in Path[n] \ {Root} PROVE Parent(x) \in Path[n]
    BY DEF Upward
  <2>1. x \in Node \ {Root} /\ Parent(x) \in Node
    BY <1>1, ParentType
  <2>2. ASSUME NEW S \in SUBSET Node, n \in S, Upward(S) PROVE Parent(x) \in S
    BY <1>1, <2>1, <2>2 DEF Upward
  <2> QED BY <1>1, <2>1, <2>2
<1> QED BY <1>1, <1>2

LEMMA PathStep ==
  ASSUME NEW n \in Node \ {Root}
  PROVE  Path[n] = {n} \cup Path[Parent(n)]
<1> DEFINE p == Parent(n)
<1>1. p \in Node
  BY ParentType
<1>2. /\ p \in Path[p] /\ Path[p] \subseteq Node /\ Upward(Path[p])
      /\ \A S \in SUBSET Node : p \in S /\ Upward(S) => Path[p] \subseteq S
  <2> HIDE DEF p
  <2> QED BY <1>1, PathIn
<1>3. /\ n \in Path[n] /\ Path[n] \subseteq Node /\ Upward(Path[n])
      /\ \A S \in SUBSET Node : n \in S /\ Upward(S) => Path[n] \subseteq S
  BY PathIn
<1>4. Path[p] \subseteq Path[n]
  BY <1>2, <1>3 DEF Upward
<1>5. Path[n] \subseteq {n} \cup Path[p]
  <2> DEFINE S == {n} \cup Path[p]
  <2>1. S \in SUBSET Node /\ n \in S
    BY <1>2
  <2>2. Upward(S)
    BY <1>2 DEF Upward
  <2> HIDE DEF S
  <2>3. Path[n] \subseteq S
    BY <1>3, <2>1, <2>2
  <2> QED BY <2>3 DEF S
<1> QED BY <1>3, <1>4, <1>5

LEMMA PathRoot == Path[Root] = {Root}
<1>1. Root \in Node
  BY TreeAssumption
<1>2. {Root} \in SUBSET Node /\ Upward({Root})
  BY <1>1 DEF Upward
<1>3. Path[Root] \subseteq {Root} /\ Root \in Path[Root]
  BY <1>1, <1>2, PathIn
<1> QED BY <1>3

LEMMA PathTrans ==
  ASSUME NEW a \in Node, NEW b \in Path[a]
  PROVE  Path[b] \subseteq Path[a]
  BY PathIn

(* No node is above itself: the way up would not lead to the root.         *)
LEMMA PathAnti ==
  ASSUME NEW a \in Node, NEW b \in Path[a], a \in Path[b]
  PROVE  a = b
<1> SUFFICES ASSUME a # b PROVE FALSE
  OBVIOUS
<1>1. b \in Node /\ a # Root
  BY PathIn, PathRoot
<1>2. Parent(a) \in Node /\ Path[a] = {a} \cup Path[Parent(a)]
  BY <1>1, PathStep, ParentType
<1>3. a \in Path[Parent(a)]
  BY <1>2, PathTrans
<1> DEFINE S == {x \in Node : a \in Path[x]}
<1>4. Upward(S)
  <2> SUFFICES ASSUME NEW x \in S \ {Root} PROVE Parent(x) \in S
    BY DEF Upward
  <2>1. Parent(x) \in Node /\ Path[x] = {x} \cup Path[Parent(x)]
    BY PathStep, ParentType
  <2> QED BY <1>3, <2>1
<1>5. a \in S /\ S \in SUBSET Node
  BY PathIn
<1>6. Path[a] \subseteq S
  <2> HIDE DEF S
  <2> QED BY <1>4, <1>5, PathIn
<1>7. Root \in S
  BY <1>6, TreeAssumption
<1> QED BY <1>1, <1>7, PathRoot

(* A child is not above its parent, and what is above a child is the child *)
(* or above its parent.                                                    *)
LEMMA PathBelow ==
  ASSUME NEW n \in Node, NEW c \in Below(n)
  PROVE  /\ c \notin Path[n] /\ c # n
         /\ Path[c] = {c} \cup Path[n]
<1>1. Parent(c) = n /\ c \in Node \ {Root}
  BY ParentIs
<1>2. Path[c] = {c} \cup Path[n]
  BY <1>1, PathStep
<1>3. c # n
  <2> SUFFICES ASSUME c = n PROVE FALSE
    OBVIOUS
  <2>1. Parent(c) = c
    BY <1>1
  <2>2. Upward({c}) /\ {c} \in SUBSET Node
    BY <1>1, <2>1 DEF Upward
  <2>3. Path[c] \subseteq {c}
    BY <1>1, <2>2, PathIn
  <2> QED BY <1>1, <2>3, TreeAssumption
<1>4. c \notin Path[n]
  BY <1>1, <1>2, <1>3, PathAnti, PathIn
<1> QED BY <1>2, <1>3, <1>4

-----------------------------------------------------------------------------
(* The values of the variables.                                            *)
Statuses == {"IDLE", "RUNNING", "SUCCESS", "FAILURE"}
Answers == {"RUNNING", "SUCCESS", "FAILURE", "SKIPPED"}

TypeInv ==
  /\ status \in [Node -> Statuses]
  /\ at \in Node \cup {"engine"}
  /\ ret \in Answers \cup {"none"} \/ (at = "engine" /\ ret = "EXCEPTION" /\ running)
  /\ running \in BOOLEAN
  /\ index \in [Node -> Nat] /\ count \in [Node -> Nat]
  /\ first_time_ \in [OfKind("rate") -> BOOLEAN]
  /\ i \in [Node -> Nat] /\ skipped \in [Node -> Nat]
  /\ recoveries \in [Node -> Nat] /\ passed \in [Node -> SUBSET Nat]
  /\ unlucky \in SUBSET Node

-----------------------------------------------------------------------------
(* What a step at node n may do to the others: the nodes above n are left  *)
(* alone, a running node is halted with all that it keeps and its children *)
(* are reset, and a finished one is reset.                                 *)
Spared(p) == status'[p] = status[p] /\ index'[p] = index[p] /\ count'[p] = count[p]
Halted(p) ==
  status[p] = "RUNNING" /\ status'[p] = "IDLE" /\ index'[p] = 0 /\ count'[p] = 0
WasDone(p) ==
  /\ status[p] # "RUNNING" /\ status'[p] = "IDLE"
  /\ index'[p] = index[p] /\ count'[p] = count[p]

Apart(n, p) ==
  /\ Spared(p) \/ (p \notin Path[n] /\ (Halted(p) \/ WasDone(p)))
  /\ status[p] = "RUNNING" /\ status'[p] # "RUNNING"
       => \A d \in Below(p) : status'[d] = "IDLE"

Kept(p) ==
  /\ passed'[p] = passed[p] /\ recoveries'[p] = recoveries[p]
  /\ p \in unlucky' <=> p \in unlucky
  /\ i'[p] = i[p] /\ skipped'[p] = skipped[p]

Resets(n, S) ==
  \A x \in Node \ {n} :
    /\ status'[x] = Reset(S)[x]
    /\ index'[x] = Cleared(index, Halting(S))[x]
    /\ count'[x] = Cleared(count, Halting(S))[x]
Leaves(n) == \A x \in Node \ {n} : Spared(x)

(* A halt that starts below n reaches running nodes below n only, and all  *)
(* of those whose parent it reaches.                                       *)
LEMMA HaltingBelow ==
  ASSUME TypeInv, NEW n \in Node, NEW S \in SUBSET Below(n), NEW d \in Node
  PROVE  /\ d \in Halting(S) => status[d] = "RUNNING"
         /\ d \in Halting(S) \/ d \in S \/ Parent(d) \in Halting(S) => d \notin Path[n]
         /\ status[d] = "RUNNING" /\ (d \in S \/ Parent(d) \in Halting(S)) => d \in Halting(S)
<1>1. ASSUME NEW e \in Halting(S)
      PROVE  status[e] = "RUNNING" /\ n \in Path[e] /\ e \notin Path[n] /\ e \in Node
  <2>1. PICK c \in Path[e] \cap S : \A a \in Path[e] : c \in Path[a] => status[a] = "RUNNING"
    BY DEF Halting
  <2>2. e \in Node /\ e \in Path[e]
    BY PathIn DEF Halting
  <2>3. c \in Node /\ n \in Path[c] /\ c \notin Path[n] /\ Path[c] = {c} \cup Path[n]
    BY BelowDef, PathBelow, PathIn
  <2>4. n \in Path[e]
    BY <2>2, <2>3, PathTrans
  <2>5. e \notin Path[n]
    <3> SUFFICES ASSUME e \in Path[n] PROVE FALSE
      OBVIOUS
    <3>1. e = c
      BY <2>1, <2>2, <2>3, PathAnti
    <3> QED BY <2>3, <3>1
  <2> QED BY <2>1, <2>2, <2>4, <2>5
<1>2. ASSUME d \in S PROVE d \notin Path[n]
  BY <1>2, PathBelow
<1>3. ASSUME Parent(d) \in Halting(S)
      PROVE  d \notin Path[n] /\ d # Root /\ Path[d] = {d} \cup Path[Parent(d)]
  <2>1. Parent(d) \in Node
    BY <1>1, <1>3
  <2>2. d # Root
    BY <2>1, TreeAssumption DEF Parent
  <2>3. d \in Below(Parent(d)) /\ Path[d] = {d} \cup Path[Parent(d)]
    BY <2>2, ParentType, PathStep
  <2>4. d \notin Path[Parent(d)]
    BY <2>1, <2>3, PathBelow
  <2>5. Path[n] \subseteq Path[Parent(d)]
    BY <1>1, <1>3, <2>1, PathTrans
  <2> QED BY <2>2, <2>3, <2>4, <2>5
<1>4. ASSUME status[d] = "RUNNING", d \in S PROVE d \in Halting(S)
  <2>1. d \in Path[d] /\ \A a \in Path[d] : d \in Path[a] => a = d
    BY PathIn, PathAnti
  <2> QED BY <1>4, <2>1 DEF Halting
<1>5. ASSUME status[d] = "RUNNING", Parent(d) \in Halting(S) PROVE d \in Halting(S)
  <2>1. PICK c \in Path[Parent(d)] \cap S :
          \A a \in Path[Parent(d)] : c \in Path[a] => status[a] = "RUNNING"
    BY <1>5 DEF Halting
  <2>2. Path[d] = {d} \cup Path[Parent(d)]
    BY <1>3, <1>5
  <2> QED BY <1>5, <2>1, <2>2 DEF Halting
<1> QED BY <1>1, <1>2, <1>3, <1>4, <1>5

LEMMA ResetsApart ==
  ASSUME TypeInv, NEW n \in Node, NEW S \in SUBSET Below(n), Resets(n, S)
  PROVE  \A p \in Node \ {n} : Apart(n, p)
<1> SUFFICES ASSUME NEW p \in Node \ {n} PROVE Apart(n, p)
  OBVIOUS
<1> DEFINE H == Halting(S)
<1>1. \A x \in Node \ {n} :
        /\ status'[x] = IF x \in S \/ Parent(x) \in H THEN "IDLE" ELSE status[x]
        /\ index'[x] = IF x \in H THEN 0 ELSE index[x]
        /\ count'[x] = IF x \in H THEN 0 ELSE count[x]
  BY DEF Resets, Reset, Cleared
<1>2. \A x \in Node :
        /\ x \in H => status[x] = "RUNNING"
        /\ x \in H \/ x \in S \/ Parent(x) \in H => x \notin Path[n]
        /\ status[x] = "RUNNING" /\ (x \in S \/ Parent(x) \in H) => x \in H
  BY HaltingBelow
<1>3. p \in H => p \in S \/ Parent(p) \in H
  <2> SUFFICES ASSUME p \in H, p \notin S PROVE Parent(p) \in H
    OBVIOUS
  <2>1. PICK c \in Path[p] \cap S : \A a \in Path[p] : c \in Path[a] => status[a] = "RUNNING"
    BY DEF Halting
  <2>2. p # Root
    <3> SUFFICES ASSUME p = Root PROVE FALSE
      OBVIOUS
    <3>1. c = Root
      BY <2>1, PathRoot
    <3> QED BY <3>1, BelowDef
  <2>3. Parent(p) \in Node /\ Path[p] = {p} \cup Path[Parent(p)]
    BY <2>2, PathStep, ParentType
  <2>4. c \in Path[Parent(p)] \cap S
    BY <2>1, <2>3
  <2> QED BY <2>1, <2>3, <2>4 DEF Halting
<1> HIDE DEF H
<1>4. Spared(p) \/ (p \notin Path[n] /\ (Halted(p) \/ WasDone(p)))
  BY <1>1, <1>2, <1>3 DEF Spared, Halted, WasDone
<1>5. ASSUME status[p] = "RUNNING", status'[p] # "RUNNING", NEW d \in Below(p)
      PROVE  status'[d] = "IDLE"
  <2>1. p \in H
    BY <1>1, <1>2, <1>5
  <2>2. Parent(d) = p /\ d \in Node
    BY ParentIs
  <2>3. d # n
    <3> SUFFICES ASSUME d = n PROVE FALSE
      OBVIOUS
    <3>1. Path[n] = {n} \cup Path[p]
      BY PathBelow
    <3>2. p \in Path[n]
      BY <3>1, PathIn
    <3> QED BY <1>2, <2>1, <3>2
  <2> QED BY <1>1, <2>1, <2>2, <2>3
<1> QED BY <1>4, <1>5 DEF Apart

LEMMA LeavesApart ==
  ASSUME NEW n \in Node, Leaves(n)
  PROVE  \A p \in Node \ {n} : Apart(n, p)
  BY DEF Leaves, Apart, Spared

(* A return changes the status of no other node than st does.              *)
LEMMA ReturnStatus ==
  ASSUME NEW n \in Node, NEW st \in [Node -> Statuses], NEW s \in Answers, Return(n, st, s)
  PROVE  /\ status' \in [Node -> Statuses]
         /\ at' = Parent(n) /\ ret' = s
         /\ \A x \in Node \ {n} : status'[x] = st[x]
         /\ status'[n] = IF s = "SKIPPED" THEN st[n] ELSE s
<1>1. CASE s = "SKIPPED"
  BY <1>1 DEF Return
<1>2. CASE s # "SKIPPED"
  <2>1. status' = [st EXCEPT ![n] = s] /\ s \in Statuses
    BY <1>2 DEF Return, Answers, Statuses
  <2> QED BY <1>2, <2>1 DEF Return
<1> QED BY <1>1, <1>2

LEMMA ResetType ==
  ASSUME TypeInv, NEW S
  PROVE  Reset(S) \in [Node -> Statuses]
<1>1. Reset(S) = [d \in Node |-> IF d \in S \/ Parent(d) \in Halting(S) THEN "IDLE" ELSE status[d]]
  BY DEF Reset
<1> QED BY <1>1 DEF TypeInv, Statuses

-----------------------------------------------------------------------------
(* The inductive invariant.  A node is working while one of its children   *)
(* is ticked, or has just returned.                                        *)
Working(n) == at # "engine" /\ n \in Path[at] /\ ~Entered(n)

(* The child that a node has called last.                                  *)
Place(n) ==
  IF Kind[n] = "pipeline" THEN i[n]
  ELSE IF Kind[n] \in {"recovery", "robin"} THEN index[n] ELSE 0
Current(n) == Children[n][Place(n) + 1]

PipelineInv(n) ==
  /\ i[n] < Len(Children[n]) /\ index[n] < Len(Children[n])
  /\ 1 .. i[n] \subseteq passed[n] /\ 1 .. index[n] \subseteq passed[n]
  /\ status[n] # "RUNNING" => index[n] = 0
  /\ ~Working(n) => i[n] = 0

(* The count is that of this activation, unless a recovery was skipped.    *)
RecoveryInv(n) ==
  /\ index[n] \in {0, 1} /\ count[n] <= number_of_retries_[n]
  /\ index[n] = 1 => count[n] < number_of_retries_[n] /\ status[n] = "RUNNING"
  /\ recoveries[n] <= number_of_retries_[n]
  /\ status[n] = "RUNNING" => recoveries[n] <= count[n]
  /\ n \notin unlucky => count[n] = IF status[n] = "RUNNING" THEN recoveries[n] ELSE 0
  /\ Working(n) => status[n] = "RUNNING"

(* The children that were counted are the last ones before the present,    *)
(* round the end.                                                          *)
Back(n, j) == IF j <= index[n] THEN index[n] - j ELSE (index[n] + Len(Children[n])) - j

RobinInv(n) ==
  /\ index[n] < Len(Children[n]) /\ count[n] + skipped[n] < Len(Children[n])
  /\ passed[n] \subseteq 1 .. Len(Children[n])
  /\ \A j \in 1 .. (count[n] + skipped[n]) : Back(n, j) + 1 \in passed[n]
  /\ status[n] # "RUNNING" => count[n] = 0
  /\ ~Working(n) => skipped[n] = 0
  /\ Working(n) => status[n] = "RUNNING"

RateInv(n) == Working(n) => status[n] = "RUNNING"

NodeInv(n) ==
  /\ Kind[n] = "pipeline" => PipelineInv(n)
  /\ Kind[n] = "recovery" => RecoveryInv(n)
  /\ Kind[n] = "robin" => RobinInv(n)
  /\ Kind[n] = "rate" => RateInv(n)

(* Calls go to the present child, and its status is what it returned.      *)
CallInv ==
  at # "engine" =>
    /\ \A n \in Node : \A c \in Below(n) : c \in Path[at] => c = Current(n)
    /\ ret \in {"SUCCESS", "FAILURE", "RUNNING"} => status[Current(at)] = ret

(* What runs is below what runs or works, and not the first child of a     *)
(* recovery node that tries its second.                                    *)
RunInv ==
  ret # "EXCEPTION" =>
    \A n \in Node : \A c \in Below(n) : status[c] = "RUNNING" =>
      /\ status[n] = "RUNNING" \/ Working(n)
      /\ Kind[n] = "recovery" /\ index[n] = 1 => c # Children[n][1]

(* A finished child is that of a pipeline, which ticks it again, or of a   *)
(* round robin that has passed it, or has just returned.                   *)
Idling == {"IDLE", "RUNNING"}
Settled(n, c) ==
  \/ status[c] \in Idling
  \/ Kind[n] = "pipeline" /\ c # Children[n][Len(Children[n])]
  \/ /\ Kind[n] = "robin" /\ (Working(n) \/ status[n] = "RUNNING")
     /\ \E k \in passed[n] : c = Children[n][k]
  \/ at = n /\ ret # "none" /\ c = Current(n)

FreshInv ==
  ret # "EXCEPTION" =>
    /\ \A n \in Node : \A c \in Below(n) : Settled(n, c)
    /\ at # "engine" \/ ret \in {"none", "RUNNING"} => status[Root] \in Idling
    /\ ~running => at = "engine" /\ ret = "none"

TreeInv == TypeInv /\ (\A n \in Node : NodeInv(n)) /\ CallInv /\ RunInv /\ FreshInv

-----------------------------------------------------------------------------
(* A step at node n calls a child or returns to the parent.                *)
Calls(n) ==
  /\ at' \in Below(n) /\ ret' = "none" /\ at' = Current(n)'
  /\ status'[n] \in {status[n], "RUNNING"}
Returns(n) ==
  /\ at' = Parent(n) /\ ret' \in Answers
  /\ IF ret' = "SKIPPED" THEN status'[n] \in Idling \cup {status[n]} ELSE status'[n] = ret'
  /\ status'[n] = "RUNNING" \/ \A c \in Below(n) : status'[c] # "RUNNING"
Moves(n) ==
  /\ at = n /\ running' = running
  /\ \A p \in Node \ {n} : Apart(n, p) /\ Kept(p)
  /\ Calls(n) \/ Returns(n)

(* What is left to show of a step at n: the invariant of n itself and of   *)
(* its children.                                                           *)
ChildrenInv(n) ==
  \A c \in Below(n) :
    /\ Settled(n, c)
    /\ Kind[n] = "recovery" /\ index[n] = 1 /\ status[c] = "RUNNING" => c # Children[n][1]

LEMMA MovesWorking ==
  ASSUME NEW n \in Node, Moves(n)
  PROVE  /\ \A p \in Node \ {n} : Working(p)' <=> Working(p)
         /\ Working(n)' <=> at' \in Below(n)
<1>0. at = n /\ n # "engine"
  BY TreeAssumption DEF Moves
<1>1. CASE Calls(n)
  <2>1. at' \in Below(n) /\ ret' = "none" /\ at' \in Node /\ at' # "engine"
    BY <1>1, BelowDef, TreeAssumption DEF Calls
  <2>2. Path[at'] = {at'} \cup Path[n] /\ at' \notin Path[n] /\ at' # n /\ n \in Path[n]
    BY <2>1, PathBelow, PathIn
  <2>3. \A p \in Node : Working(p)' <=> p \in Path[n]
    BY <2>1, <2>2 DEF Working, Entered
  <2>4. \A p \in Node \ {n} : Working(p) <=> p \in Path[n]
    BY <1>0 DEF Working, Entered
  <2> QED BY <2>1, <2>2, <2>3, <2>4
<1>2. CASE Returns(n)
  <2>0. ret' # "none" /\ at' = Parent(n)
    BY <1>2 DEF Returns, Answers
  <2>1. CASE n = Root
    <3>1. at' = "engine" /\ Path[n] = {n}
      BY <2>0, <2>1, PathRoot DEF Parent
    <3>2. at' \notin Below(n)
      BY <3>1, BelowDef, TreeAssumption
    <3> QED BY <1>0, <3>1, <3>2 DEF Working, Entered
  <2>2. CASE n # Root
    <3>1. at' \in Node /\ at' # "engine" /\ n \in Below(at')
      BY <2>0, <2>2, ParentType
    <3>2. Path[n] = {n} \cup Path[at'] /\ n \notin Path[at'] /\ at' \in Path[at']
      BY <3>1, PathBelow, PathIn
    <3>3. \A p \in Node : Working(p)' <=> p \in Path[at']
      BY <2>0, <3>1 DEF Working, Entered
    <3>4. \A p \in Node \ {n} : Working(p) <=> p \in Path[at']
      BY <1>0, <3>2 DEF Working, Entered
    <3>5. at' \notin Below(n)
      <4> SUFFICES ASSUME at' \in Below(n) PROVE FALSE
        OBVIOUS
      <4> QED BY <3>2, PathBelow
    <3> QED BY <3>2, <3>3, <3>4, <3>5
  <2> QED BY <2>1, <2>2
<1> QED BY <1>1, <1>2 DEF Moves

LEMMA MovesNodes ==
  ASSUME TreeInv, NEW n \in Node, Moves(n), NEW p \in Node \ {n}
  PROVE  NodeInv(p)'
<1>1. Apart(n, p) /\ Kept(p) /\ (Working(p)' <=> Working(p))
  BY MovesWorking DEF Moves
<1>2. NodeInv(p) /\ TypeInv
  BY DEF TreeInv
<1>3. p \notin Path[n] => ~Working(p)
  BY DEF Moves, Working
<1>4. /\ \/ Spared(p)
         \/ ~Working(p) /\ (Halted(p) \/ WasDone(p))
      /\ passed'[p] = passed[p] /\ recoveries'[p] = recoveries[p]
      /\ p \in unlucky' <=> p \in unlucky
      /\ i'[p] = i[p] /\ skipped'[p] = skipped[p]
  BY <1>1, <1>3 DEF Apart, Kept
<1>5. /\ index[p] \in Nat /\ count[p] \in Nat /\ i[p] \in Nat /\ skipped[p] \in Nat
      /\ recoveries[p] \in Nat /\ Len(Children[p]) \in Nat
  BY <1>2, BelowDef DEF TypeInv
<1>6. ASSUME Kind[p] = "pipeline" PROVE PipelineInv(p)'
  <2>1. PipelineInv(p)
    BY <1>2, <1>6 DEF NodeInv
  <2> QED BY <1>1, <1>4, <1>5, <2>1 DEF PipelineInv, Spared, Halted, WasDone
<1>7. ASSUME Kind[p] = "recovery" PROVE RecoveryInv(p)'
  <2>1. RecoveryInv(p) /\ number_of_retries_[p] \in Nat
    BY <1>2, <1>7, TreeAssumption DEF NodeInv, OfKind
  <2> QED BY <1>1, <1>4, <1>5, <2>1 DEF RecoveryInv, Spared, Halted, WasDone
<1>8. ASSUME Kind[p] = "robin" PROVE RobinInv(p)'
  <2>1. RobinInv(p) /\ Len(Children[p]) > 0
    BY <1>2, <1>8, TreeAssumption DEF NodeInv, OfKind
  <2>2. CASE Spared(p)
    BY <1>1, <1>4, <2>1, <2>2 DEF RobinInv, Spared, Back
  <2>3. CASE ~Working(p) /\ (Halted(p) \/ WasDone(p))
    <3>1. /\ count'[p] = 0 /\ skipped'[p] = 0 /\ index'[p] < Len(Children[p])
          /\ ~Working(p)'
      BY <1>1, <1>4, <2>1, <2>3 DEF RobinInv, Halted, WasDone
    <3> QED BY <1>4, <2>1, <3>1 DEF RobinInv
  <2> QED BY <1>4, <2>2, <2>3
<1>9. ASSUME Kind[p] = "rate" PROVE RateInv(p)'
  <2>1. RateInv(p)
    BY <1>2, <1>9 DEF NodeInv
  <2> QED BY <1>1, <1>4, <2>1 DEF RateInv, Spared
<1> QED BY <1>6, <1>7, <1>8, <1>9 DEF NodeInv

LEMMA MovesCall ==
  ASSUME TreeInv, NEW n \in Node, Moves(n)
  PROVE  CallInv'
<1>0. at = n /\ n # "engine" /\ CallInv
  BY TreeAssumption DEF Moves, TreeInv
<1>1. ASSUME NEW p \in Path[n], p # n
      PROVE  Current(p)' = Current(p)
  <2>1. p \in Node
    BY PathIn
  <2>2. Spared(p) /\ Kept(p)
    BY <1>1, <2>1 DEF Moves, Apart
  <2> QED BY <2>2 DEF Current, Place, Spared, Kept
<1>2. ASSUME NEW p \in Node, NEW c \in Below(p), c \in Path[n]
      PROVE  c = Current(p)'
  <2>1. c \in Node /\ Path[c] = {c} \cup Path[p] /\ c \notin Path[p] /\ p \in Path[p]
    BY ParentIs, PathBelow, PathIn
  <2>2. p \in Path[n] /\ p # n
    BY <1>2, <2>1, PathTrans
  <2>3. c = Current(p)
    BY <1>0, <1>2 DEF CallInv
  <2> QED BY <1>1, <2>2, <2>3
<1>3. CASE Calls(n)
  <2>1. at' \in Below(n) /\ ret' = "none" /\ at' = Current(n)'
    BY <1>3 DEF Calls
  <2>2. Path[at'] = {at'} \cup Path[n]
    BY <2>1, PathBelow
  <2>3. ASSUME NEW p \in Node, NEW c \in Below(p), c \in Path[at']
        PROVE  c = Current(p)'
    <3>1. CASE c \in Path[n]
      BY <1>2, <3>1
    <3>2. CASE c = at'
      <4>1. p = n
        BY <2>1, <3>2, ParentIs
      <4> QED BY <2>1, <3>2, <4>1
    <3> QED BY <2>2, <2>3, <3>1, <3>2
  <2> QED BY <2>1, <2>3 DEF CallInv
<1>4. CASE Returns(n)
  <2> SUFFICES ASSUME at' # "engine" PROVE CallInv'
    BY DEF CallInv
  <2>1. n # Root /\ at' = Parent(n)
    BY <1>4 DEF Returns, Parent
  <2>2. at' \in Node /\ n \in Below(at') /\ Path[n] = {n} \cup Path[at'] /\ n \in Path[n]
    BY <2>1, ParentType, PathStep, PathIn
  <2>3. \A p \in Node : \A c \in Below(p) : c \in Path[at'] => c = Current(p)'
    BY <1>2, <2>2
  <2> DEFINE p == Parent(n)
  <2>4. n = Current(p)'
    BY <1>2, <2>1, <2>2
  <2>5. ret' \in {"SUCCESS", "FAILURE", "RUNNING"} => status'[n] = ret'
    BY <1>4 DEF Returns
  <2>6. Current(at)' = Current(p)'
    BY <2>1 DEF Current, Place
  <2> QED BY <2>3, <2>4, <2>5, <2>6 DEF CallInv
<1> QED BY <1>3, <1>4 DEF Moves

LEMMA MovesRun ==
  ASSUME TreeInv, NEW n \in Node, Moves(n), ChildrenInv(n)'
  PROVE  RunInv'
<1>0. at = n /\ n # "engine" /\ CallInv /\ RunInv /\ ret # "EXCEPTION" /\ TypeInv
  BY TreeAssumption DEF Moves, TreeInv, TypeInv, Answers
<1>1. SUFFICES ASSUME NEW p \in Node, NEW c \in Below(p), status'[c] = "RUNNING"
               PROVE  /\ status'[p] = "RUNNING" \/ Working(p)'
                      /\ Kind[p] = "recovery" /\ index'[p] = 1 => c # Children[p][1]
  BY DEF RunInv
<1>2. c \in Node /\ c # p /\ Path[c] = {c} \cup Path[p] /\ Parent(c) = p
  BY ParentIs, PathBelow
<1>3. CASE p = n
  <2>1. status'[n] = "RUNNING" \/ Working(n)'
    <3>1. CASE Calls(n)
      BY <3>1, MovesWorking DEF Calls
    <3>2. CASE Returns(n)
      BY <1>1, <1>3, <3>2 DEF Returns
    <3> QED BY <3>1, <3>2 DEF Moves
  <2> QED BY <1>1, <1>3, <2>1 DEF ChildrenInv
<1>4. CASE p # n /\ c # n
  <2>1. Apart(n, p) /\ Apart(n, c) /\ (Working(p)' <=> Working(p))
    BY <1>2, <1>4, MovesWorking DEF Moves
  <2>2. status[c] = "RUNNING"
    BY <1>1, <2>1 DEF Apart, Spared, Halted, WasDone
  <2>3. /\ status[p] = "RUNNING" \/ Working(p)
        /\ Kind[p] = "recovery" /\ index[p] = 1 => c # Children[p][1]
    BY <1>0, <2>2 DEF RunInv
  <2>4. status[p] = "RUNNING" => status'[p] = "RUNNING"
    BY <1>1, <2>1 DEF Apart
  <2>5. index'[p] = 1 => index[p] = 1
    BY <2>1 DEF Apart, Spared, Halted, WasDone
  <2> QED BY <2>1, <2>3, <2>4, <2>5
<1>5. CASE p # n /\ c = n
  <2>1. c = Current(p) /\ p \in Path[n] /\ n \in Path[n]
    BY <1>0, <1>2, <1>5, PathIn DEF CallInv
  <2>2. Working(p)'
    <3>1. Working(p)
      BY <1>0, <1>5, <2>1 DEF Working, Entered
    <3> QED BY <1>5, <3>1, MovesWorking
  <2>3. ASSUME Kind[p] = "recovery", index'[p] = 1 PROVE c # Children[p][1]
    <3>1. Spared(p)
      BY <1>5, <2>1 DEF Moves, Apart
    <3>2. c = Children[p][2]
      BY <2>1, <2>3, <3>1 DEF Current, Place, Spared
    <3>3. Len(Children[p]) = 2
      BY <2>3, TreeAssumption DEF OfKind
    <3>4. 1 \in 1 .. Len(Children[p]) /\ 2 \in 1 .. Len(Children[p])
      BY <3>3
    <3> QED BY <3>2, <3>4, OnePlace
  <2> QED BY <2>2, <2>3
<1> QED BY <1>3, <1>4, <1>5

LEMMA MovesFresh ==
  ASSUME TreeInv, NEW n \in Node, Moves(n), ChildrenInv(n)'
  PROVE  FreshInv'
<1>0. /\ at = n /\ n # "engine" /\ CallInv /\ FreshInv /\ ret # "EXCEPTION"
      /\ status[Root] \in Idling /\ running
  BY TreeAssumption DEF Moves, TreeInv, TypeInv, Answers, FreshInv
<1>1. ASSUME NEW p \in Node, NEW c \in Below(p)
      PROVE  Settled(p, c)'
  <2>1. c \in Node /\ c # p /\ Path[c] = {c} \cup Path[p] /\ Parent(c) = p
    BY ParentIs, PathBelow
  <2>2. CASE p = n
    BY <2>2 DEF ChildrenInv
  <2>3. CASE p # n /\ c # n
    <3>1. Apart(n, p) /\ Kept(p) /\ Apart(n, c) /\ (Working(p)' <=> Working(p))
      BY <2>1, <2>3, MovesWorking DEF Moves
    <3>2. status'[c] \in {status[c], "IDLE"}
      BY <3>1 DEF Apart, Spared, Halted, WasDone
    <3>3. status[p] = "RUNNING" => status'[p] = "RUNNING" \/ status'[c] = "IDLE"
      BY <3>1 DEF Apart
    <3>4. passed'[p] = passed[p]
      BY <3>1 DEF Kept
    <3>5. Settled(p, c)
      BY <1>0 DEF FreshInv
    <3> QED BY <1>0, <2>3, <3>1, <3>2, <3>3, <3>4, <3>5 DEF Settled, Idling
  <2>4. CASE p # n /\ c = n
    <3>1. c = Current(p) /\ p \in Path[n] /\ n \in Path[n]
      BY <1>0, <2>1, <2>4, PathIn DEF CallInv
    <3>2. Spared(p) /\ Kept(p) /\ (Working(p)' <=> Working(p))
      BY <2>4, <3>1, MovesWorking DEF Moves, Apart
    <3>3. CASE Calls(n)
      <4>1. status'[c] \in {status[c], "RUNNING"}
        BY <2>4, <3>3 DEF Calls
      <4>2. Settled(p, c)
        BY <1>0 DEF FreshInv
      <4> QED BY <1>0, <2>4, <3>2, <4>1, <4>2 DEF Settled, Idling, Spared, Kept
    <3>4. CASE Returns(n)
      <4>1. at' = p /\ ret' # "none"
        BY <2>1, <2>4, <3>4 DEF Returns, Answers
      <4>2. Current(p)' = Current(p)
        BY <3>2 DEF Current, Place, Spared, Kept
      <4> QED BY <3>1, <4>1, <4>2 DEF Settled
    <3> QED BY <3>3, <3>4 DEF Moves
  <2> QED BY <2>2, <2>3, <2>4
<1>2. at' # "engine" \/ ret' \in {"none", "RUNNING"} => status'[Root] \in Idling
  <2>1. CASE n # Root
    <3>1. Apart(n, Root)
      BY <2>1, TreeAssumption DEF Moves
    <3> QED BY <1>0, <3>1 DEF Apart, Spared, Halted, WasDone, Idling
  <2>2. CASE n = Root /\ Calls(n)
    BY <1>0, <2>2 DEF Calls, Idling
  <2>3. CASE n = Root /\ Returns(n)
    <3>1. at' = "engine" /\ ret' # "none"
      BY <2>3 DEF Returns, Parent, Answers
    <3>2. ret' = "RUNNING" => status'[Root] = "RUNNING"
      BY <2>3 DEF Returns
    <3> QED BY <3>1, <3>2 DEF Idling
  <2> QED BY <2>1, <2>2, <2>3 DEF Moves
<1>3. running'
  BY <1>0 DEF Moves
<1> QED BY <1>1, <1>2, <1>3 DEF FreshInv

(* The invariant of the whole tree from that of the node at work.          *)
LEMMA MovesKeep ==
  ASSUME TreeInv, NEW n \in Node, Moves(n), TypeInv', NodeInv(n)', ChildrenInv(n)'
  PROVE  TreeInv'
<1>1. \A p \in Node : NodeInv(p)'
  BY MovesNodes
<1> QED BY <1>1, MovesCall, MovesRun, MovesFresh DEF TreeInv

-----------------------------------------------------------------------------
(* What halts and returns do to the node at work.                          *)
LEMMA OwnReset ==
  ASSUME TypeInv, NEW n \in Node, NEW S \in SUBSET Below(n)
  PROVE  /\ n \notin Halting(S) /\ Reset(S)[n] = status[n]
         /\ \A c \in S : Reset(S)[c] = "IDLE"
         /\ \A x \in Node : Reset(S)[x] \in {status[x], "IDLE"}
<1>1. n \in Path[n] /\ S \subseteq Node
  BY PathIn, BelowDef
<1>2. n \notin Halting(S) /\ n \notin S /\ Parent(n) \notin Halting(S)
  BY <1>1, HaltingBelow
<1> QED BY <1>1, <1>2 DEF Reset

LEMMA ClearedType ==
  ASSUME NEW f \in [Node -> Nat], NEW S
  PROVE  /\ Cleared(f, S) \in [Node -> Nat]
         /\ \A x \in Node : Cleared(f, S)[x] = IF x \in S THEN 0 ELSE f[x]
  BY DEF Cleared

LEMMA ParentAny ==
  ASSUME NEW n \in Node
  PROVE  Parent(n) \in Node \cup {"engine"}
<1>1. CASE n = Root
  BY <1>1 DEF Parent
<1>2. CASE n # Root
  BY <1>2, ParentType
<1> QED BY <1>1, <1>2

LEMMA HaltReturns ==
  ASSUME TypeInv, NEW n \in Node, at = n, running' = running,
         NEW s \in {"SUCCESS", "FAILURE", "SKIPPED"}, HaltAndReturn(n, s),
         \A p \in Node \ {n} : Kept(p)
  PROVE  /\ Moves(n) /\ Returns(n) /\ ret' = s
         /\ status' \in [Node -> Statuses] /\ status'[n] # "RUNNING"
         /\ index' \in [Node -> Nat] /\ count' \in [Node -> Nat]
         /\ index'[n] = 0 /\ count'[n] = 0
         /\ \A c \in Below(n) : status'[c] = "IDLE"
<1> DEFINE S == Below(n)
           st == [Reset(S) EXCEPT ![n] = "IDLE"]
<1>1. Reset(S) \in [Node -> Statuses] /\ st \in [Node -> Statuses]
  BY ResetType DEF Statuses
<1>2. /\ st[n] = "IDLE" /\ \A x \in Node \ {n} : st[x] = Reset(S)[x]
      /\ S \subseteq Node \ {n}
  <2>1. S \subseteq Node \ {n}
    BY BelowDef, PathBelow
  <2> QED BY <1>1, <2>1
<1>3. Return(n, st, s) /\ s \in Answers
  BY DEF HaltAndReturn, Answers
<1>4. /\ status' \in [Node -> Statuses] /\ at' = Parent(n) /\ ret' = s
      /\ \A x \in Node \ {n} : status'[x] = st[x]
      /\ status'[n] = IF s = "SKIPPED" THEN st[n] ELSE s
  <2> HIDE DEF st
  <2> QED BY <1>1, <1>3, ReturnStatus
<1>5. /\ index' = Cleared(index, Halting(S) \cup {n})
      /\ count' = Cleared(count, Halting(S) \cup {n})
  BY DEF HaltAndReturn
<1>6. index \in [Node -> Nat] /\ count \in [Node -> Nat]
  BY DEF TypeInv
<1> HIDE DEF st
<1>7. /\ index' \in [Node -> Nat] /\ count' \in [Node -> Nat]
      /\ index'[n] = 0 /\ count'[n] = 0
  BY <1>5, <1>6, ClearedType
<1>8. Resets(n, S)
  BY <1>2, <1>4, <1>5, <1>6, ClearedType DEF Resets
<1>9. \A p \in Node \ {n} : Apart(n, p)
  BY <1>8, ResetsApart
<1>10. \A c \in S : Reset(S)[c] = "IDLE"
  BY OwnReset
<1>11. \A c \in Below(n) : status'[c] = "IDLE"
  BY <1>2, <1>4, <1>10
<1>12. status'[n] # "RUNNING"
  BY <1>2, <1>4
<1>13. Returns(n)
  <2>1. IF ret' = "SKIPPED" THEN status'[n] \in Idling \cup {status[n]} ELSE status'[n] = ret'
    BY <1>2, <1>4 DEF Idling
  <2> QED BY <1>3, <1>4, <1>11, <2>1 DEF Returns
<1> QED BY <1>4, <1>7, <1>9, <1>11, <1>12, <1>13 DEF Moves

-----------------------------------------------------------------------------
(* RecoveryNode.                                                           *)
LEMMA RecoveryFacts ==
  ASSUME TreeInv, NEW n \in OfKind("recovery")
  PROVE  /\ n \in Node /\ Kind[n] = "recovery" /\ RecoveryInv(n) /\ TypeInv
         /\ Len(Children[n]) = 2 /\ number_of_retries_[n] \in Nat
         /\ Children[n][1] \in Below(n) /\ Children[n][2] \in Below(n)
         /\ Children[n][1] # Children[n][2]
         /\ \A c \in Below(n) : c = Children[n][1] \/ c = Children[n][2]
         /\ n \notin Below(n) /\ Below(n) \subseteq Node
<1>1. /\ n \in Node /\ Kind[n] = "recovery" /\ Len(Children[n]) = 2
      /\ number_of_retries_[n] \in Nat
  BY TreeAssumption DEF OfKind
<1>2. RecoveryInv(n) /\ TypeInv
  BY <1>1 DEF TreeInv, NodeInv
<1>3. 1 \in 1 .. Len(Children[n]) /\ 2 \in 1 .. Len(Children[n])
  BY <1>1
<1>4. /\ Children[n][1] \in Below(n) /\ Children[n][2] \in Below(n)
      /\ Children[n][1] # Children[n][2]
  BY <1>1, <1>3, ChildPlace
<1>5. \A c \in Below(n) : c = Children[n][1] \/ c = Children[n][2]
  BY <1>1, BelowDef
<1>6. n \notin Below(n) /\ Below(n) \subseteq Node
  BY <1>1, BelowDef, PathBelow
<1> QED BY <1>1, <1>2, <1>4, <1>5, <1>6

LEMMA RecoveryTickKeeps ==
  ASSUME TreeInv, NEW n \in OfKind("recovery"), RecoveryTick(n)
  PROVE  TreeInv'
<1>1. /\ n \in Node /\ Kind[n] = "recovery" /\ RecoveryInv(n) /\ TypeInv
      /\ Len(Children[n]) = 2 /\ number_of_retries_[n] \in Nat
      /\ Children[n][1] \in Below(n) /\ Children[n][2] \in Below(n)
      /\ n \notin Below(n) /\ Below(n) \subseteq Node
  BY RecoveryFacts
<1>2. /\ at = n /\ ret = "none" /\ n # "engine"
      /\ at' = Children[n][index[n] + 1] /\ ret' = "none"
      /\ status' = [status EXCEPT ![n] = "RUNNING"]
      /\ index' = index /\ count' = count /\ i' = i /\ skipped' = skipped
      /\ recoveries' = [recoveries EXCEPT ![n] = IF Starting(n) THEN 0 ELSE @]
      /\ passed' = [passed EXCEPT ![n] = IF Starting(n) THEN {} ELSE @]
      /\ unlucky' = unlucky /\ running' = running /\ first_time_' = first_time_
  BY <1>1, TreeAssumption DEF RecoveryTick, RecoveryInv, Entered, Call, Fresh, locals
<1>3. at' \in Below(n) /\ at' = Current(n)' /\ at' \in Node
  BY <1>1, <1>2 DEF RecoveryInv, Current, Place
<1>4. /\ status'[n] = "RUNNING" /\ \A x \in Node \ {n} : status'[x] = status[x]
      /\ status' \in [Node -> Statuses]
  BY <1>1, <1>2 DEF TypeInv, Statuses
<1>5. Moves(n)
  <2>1. \A p \in Node \ {n} : Apart(n, p)
    BY <1>1, <1>2, <1>4, LeavesApart DEF Leaves, Spared
  <2>2. \A p \in Node \ {n} : Kept(p)
    BY <1>1, <1>2 DEF Kept, TypeInv
  <2> QED BY <1>2, <1>3, <1>4, <2>1, <2>2 DEF Moves, Calls
<1>6. TypeInv'
  BY <1>1, <1>2, <1>3, <1>4 DEF TypeInv
<1>7. recoveries'[n] = IF status[n] = "RUNNING" THEN recoveries[n] ELSE 0
  BY <1>1, <1>2 DEF TypeInv, Starting
<1>8. RecoveryInv(n)'
  BY <1>1, <1>2, <1>4, <1>7 DEF RecoveryInv, TypeInv
<1>9. ChildrenInv(n)'
  <2> SUFFICES ASSUME NEW c \in Below(n)
               PROVE  /\ status'[c] \in Idling
                      /\ index'[n] = 1 /\ status'[c] = "RUNNING" => c # Children[n][1]
    BY DEF ChildrenInv, Settled
  <2>1. status'[c] = status[c] /\ Settled(n, c)
    BY <1>1, <1>2, <1>4 DEF TreeInv, FreshInv
  <2>2. index[n] = 1 /\ status[c] = "RUNNING" => c # Children[n][1]
    BY <1>1, <1>2 DEF TreeInv, RunInv
  <2> QED BY <1>1, <1>2, <2>1, <2>2 DEF Settled
<1> QED BY <1>1, <1>5, <1>6, <1>8, <1>9, MovesKeep DEF NodeInv

LEMMA ReturnRests ==
  ASSUME NEW n \in Node, Moves(n), Returns(n)
  PROVE  ~Working(n)' /\ at' \in Node \cup {"engine"}
<1>1. at' = Parent(n)
  BY DEF Returns
<1>2. Parent(n) \notin Below(n)
  <2>1. CASE n = Root
    BY <2>1, BelowDef, TreeAssumption DEF Parent
  <2>2. CASE n # Root
    <3>1. Parent(n) \in Node /\ Path[n] = {n} \cup Path[Parent(n)]
      BY <2>2, ParentType, PathStep
    <3>2. Parent(n) \in Path[n]
      BY <3>1, PathIn
    <3> QED BY <3>2, PathBelow
  <2> QED BY <2>1, <2>2
<1> QED BY <1>1, <1>2, MovesWorking, ParentAny

(* RecoveryDone and GiveUp.                                                *)
LEMMA RecoveryHaltKeeps ==
  ASSUME TreeInv, NEW n \in OfKind("recovery"), at = n,
         NEW s \in {"SUCCESS", "FAILURE", "SKIPPED"}, HaltAndReturn(n, s),
         UNCHANGED <<running, first_time_, locals, history>>
  PROVE  TreeInv'
<1>1. /\ n \in Node /\ Kind[n] = "recovery" /\ RecoveryInv(n) /\ TypeInv
      /\ number_of_retries_[n] \in Nat
  BY RecoveryFacts
<1>2. /\ i' = i /\ skipped' = skipped /\ recoveries' = recoveries /\ passed' = passed
      /\ unlucky' = unlucky /\ running' = running /\ first_time_' = first_time_
  BY DEF locals, history
<1>3. \A p \in Node \ {n} : Kept(p)
  BY <1>2 DEF Kept
<1>4. /\ Moves(n) /\ Returns(n) /\ ret' = s
      /\ status' \in [Node -> Statuses] /\ status'[n] # "RUNNING"
      /\ index' \in [Node -> Nat] /\ count' \in [Node -> Nat]
      /\ index'[n] = 0 /\ count'[n] = 0
      /\ \A c \in Below(n) : status'[c] = "IDLE"
  BY <1>1, <1>2, <1>3, HaltReturns
<1>5. ~Working(n)' /\ at' \in Node \cup {"engine"}
  BY <1>1, <1>4, ReturnRests
<1>6. TypeInv'
  BY <1>1, <1>2, <1>4, <1>5 DEF TypeInv, Answers
<1>7. RecoveryInv(n)'
  BY <1>1, <1>2, <1>4, <1>5 DEF RecoveryInv
<1>8. ChildrenInv(n)'
  BY <1>4 DEF ChildrenInv, Settled, Idling
<1> QED BY <1>1, <1>4, <1>6, <1>7, <1>8, MovesKeep DEF NodeInv

LEMMA RecoveryRunningKeeps ==
  ASSUME TreeInv, NEW n \in OfKind("recovery"), RecoveryRunning(n)
  PROVE  TreeInv'
<1>1. /\ n \in Node /\ Kind[n] = "recovery" /\ RecoveryInv(n) /\ TypeInv
      /\ Len(Children[n]) = 2 /\ number_of_retries_[n] \in Nat
      /\ n \notin Below(n) /\ Below(n) \subseteq Node
  BY RecoveryFacts
<1>2. /\ at = n /\ ret = "RUNNING" /\ n # "engine" /\ Return(n, status, "RUNNING")
      /\ index' = index /\ count' = count /\ i' = i /\ skipped' = skipped
      /\ recoveries' = recoveries /\ passed' = passed
      /\ unlucky' = unlucky /\ running' = running /\ first_time_' = first_time_
  BY <1>1, TreeAssumption DEF RecoveryRunning, Returned, members, locals, history
<1>3. /\ status' \in [Node -> Statuses] /\ at' = Parent(n) /\ ret' = "RUNNING"
      /\ \A x \in Node \ {n} : status'[x] = status[x]
      /\ status'[n] = "RUNNING"
  BY <1>1, <1>2, ReturnStatus DEF TypeInv, Answers
<1>4. Moves(n) /\ Returns(n)
  <2>1. \A p \in Node \ {n} : Apart(n, p)
    BY <1>1, <1>2, <1>3, LeavesApart DEF Leaves, Spared
  <2>2. \A p \in Node \ {n} : Kept(p)
    BY <1>2 DEF Kept
  <2> QED BY <1>2, <1>3, <2>1, <2>2 DEF Moves, Returns, Answers
<1>5. ~Working(n)' /\ at' \in Node \cup {"engine"}
  BY <1>1, <1>4, ReturnRests
<1>6. TypeInv'
  BY <1>1, <1>2, <1>3, <1>5 DEF TypeInv, Answers
<1>7. status[n] = "RUNNING" /\ status[Current(n)] = "RUNNING"
  <2>1. Working(n)
    BY <1>1, <1>2, PathIn DEF Working, Entered
  <2> QED BY <1>1, <1>2, <2>1 DEF RecoveryInv, TreeInv, CallInv
<1>8. RecoveryInv(n)'
  BY <1>1, <1>2, <1>3, <1>5, <1>7 DEF RecoveryInv
<1>9. ChildrenInv(n)'
  <2> SUFFICES ASSUME NEW c \in Below(n)
               PROVE  /\ status'[c] \in Idling
                      /\ index'[n] = 1 /\ status'[c] = "RUNNING" => c # Children[n][1]
    BY DEF ChildrenInv, Settled
  <2>1. status'[c] = status[c] /\ Settled(n, c)
    BY <1>1, <1>2, <1>3 DEF TreeInv, FreshInv
  <2>2. index[n] = 1 /\ status[c] = "RUNNING" => c # Children[n][1]
    BY <1>1, <1>2 DEF TreeInv, RunInv
  <2> QED BY <1>1, <1>2, <1>7, <2>1, <2>2 DEF Settled, Idling
<1> QED BY <1>1, <1>4, <1>6, <1>8, <1>9, MovesKeep DEF NodeInv

LEMMA StartRecoveryKeeps ==
  ASSUME TreeInv, NEW n \in OfKind("recovery"), StartRecovery(n)
  PROVE  TreeInv'
<1> DEFINE S == {Children[n][1]}
<1>1. /\ n \in Node /\ Kind[n] = "recovery" /\ RecoveryInv(n) /\ TypeInv
      /\ Len(Children[n]) = 2 /\ number_of_retries_[n] \in Nat
      /\ Children[n][1] \in Below(n) /\ Children[n][2] \in Below(n)
      /\ Children[n][1] # Children[n][2]
      /\ \A c \in Below(n) : c = Children[n][1] \/ c = Children[n][2]
      /\ n \notin Below(n) /\ Below(n) \subseteq Node
  BY RecoveryFacts
<1>2. /\ at = n /\ ret = "FAILURE" /\ n # "engine" /\ index[n] = 0
      /\ count[n] < number_of_retries_[n]
      /\ at' = Children[n][2] /\ ret' = "none"
      /\ status' = Reset(S)
      /\ index' = [Cleared(index, Halting(S)) EXCEPT ![n] = 1]
      /\ count' = Cleared(count, Halting(S))
      /\ i' = i /\ skipped' = skipped /\ recoveries' = recoveries /\ passed' = passed
      /\ unlucky' = unlucky /\ running' = running /\ first_time_' = first_time_
  BY <1>1, TreeAssumption DEF StartRecovery, Returned, MayRetry, Call, locals, history
<1> S \in SUBSET Below(n)
  BY <1>1
<1>3. /\ n \notin Halting(S) /\ Reset(S)[n] = status[n]
      /\ Reset(S)[Children[n][1]] = "IDLE"
      /\ \A x \in Node : Reset(S)[x] \in {status[x], "IDLE"}
      /\ Reset(S) \in [Node -> Statuses]
  <2>1. \A c \in S : Reset(S)[c] = "IDLE"
    BY <1>1, OwnReset
  <2> HIDE DEF S
  <2>2. Children[n][1] \in S
    BY DEF S
  <2> QED BY <1>1, <2>1, <2>2, OwnReset, ResetType
<1> HIDE DEF S
<1>4. /\ index' \in [Node -> Nat] /\ count' \in [Node -> Nat]
      /\ index'[n] = 1 /\ count'[n] = count[n]
      /\ \A x \in Node \ {n} : index'[x] = Cleared(index, Halting(S))[x]
  BY <1>1, <1>2, <1>3, ClearedType DEF TypeInv
<1>5. Moves(n)
  <2>1. Resets(n, S)
    BY <1>2, <1>4 DEF Resets
  <2>2. \A p \in Node \ {n} : Apart(n, p)
    BY <1>1, <2>1, ResetsApart
  <2>3. \A p \in Node \ {n} : Kept(p)
    BY <1>2 DEF Kept
  <2>4. at' = Current(n)'
    BY <1>1, <1>2, <1>4 DEF Current, Place
  <2> QED BY <1>1, <1>2, <1>3, <2>2, <2>3, <2>4 DEF Moves, Calls
<1>6. TypeInv'
  BY <1>1, <1>2, <1>3, <1>4 DEF TypeInv
<1>7. status[n] = "RUNNING"
  <2>1. Working(n)
    BY <1>1, <1>2, PathIn DEF Working, Entered
  <2> QED BY <1>1, <2>1 DEF RecoveryInv
<1>8. RecoveryInv(n)'
  BY <1>1, <1>2, <1>3, <1>4, <1>7 DEF RecoveryInv, TypeInv
<1>9. ChildrenInv(n)'
  <2>1. status'[Children[n][1]] = "IDLE" /\ status'[Children[n][2]] \in Idling
    <3>1. Settled(n, Children[n][2])
      BY <1>1, <1>2 DEF TreeInv, FreshInv
    <3>2. Current(n) = Children[n][1]
      BY <1>1, <1>2 DEF Current, Place
    <3>3. status[Children[n][2]] \in Idling
      BY <1>1, <3>1, <3>2 DEF Settled
    <3> QED BY <1>1, <1>2, <1>3, <3>3 DEF Idling
  <2> QED BY <1>1, <2>1 DEF ChildrenInv, Settled, Idling
<1> QED BY <1>1, <1>5, <1>6, <1>8, <1>9, MovesKeep DEF NodeInv

LEMMA RecoverySkippedKeeps ==
  ASSUME TreeInv, NEW n \in OfKind("recovery"), RecoverySkipped(n)
  PROVE  TreeInv'
<1> DEFINE S == {Children[n][2]}
<1>1. /\ n \in Node /\ Kind[n] = "recovery" /\ RecoveryInv(n) /\ TypeInv
      /\ Len(Children[n]) = 2 /\ number_of_retries_[n] \in Nat
      /\ Children[n][1] \in Below(n) /\ Children[n][2] \in Below(n)
      /\ Children[n][1] # Children[n][2]
      /\ \A c \in Below(n) : c = Children[n][1] \/ c = Children[n][2]
      /\ n \notin Below(n) /\ Below(n) \subseteq Node
  BY RecoveryFacts
<1>2. /\ at = n /\ ret = "SKIPPED" /\ n # "engine" /\ index[n] = 1
      /\ Return(n, Reset(S), "FAILURE")
      /\ index' = [Cleared(index, Halting(S)) EXCEPT ![n] = 0]
      /\ count' = Cleared(count, Halting(S))
      /\ i' = i /\ skipped' = skipped /\ recoveries' = recoveries /\ passed' = passed
      /\ unlucky' = unlucky \cup {n} /\ running' = running /\ first_time_' = first_time_
  BY <1>1, TreeAssumption DEF RecoverySkipped, Returned, locals
<1> S \in SUBSET Below(n)
  BY <1>1
<1>3. /\ n \notin Halting(S)
      /\ Reset(S)[Children[n][2]] = "IDLE"
      /\ \A x \in Node : Reset(S)[x] \in {status[x], "IDLE"}
      /\ Reset(S) \in [Node -> Statuses]
  <2>1. \A c \in S : Reset(S)[c] = "IDLE"
    BY <1>1, OwnReset
  <2> HIDE DEF S
  <2>2. Children[n][2] \in S
    BY DEF S
  <2> QED BY <1>1, <2>1, <2>2, OwnReset, ResetType
<1> HIDE DEF S
<1>4. /\ index' \in [Node -> Nat] /\ count' \in [Node -> Nat]
      /\ index'[n] = 0 /\ count'[n] = count[n]
      /\ \A x \in Node \ {n} : index'[x] = Cleared(index, Halting(S))[x]
  BY <1>1, <1>2, <1>3, ClearedType DEF TypeInv
<1>5. /\ status' \in [Node -> Statuses] /\ at' = Parent(n) /\ ret' = "FAILURE"
      /\ \A x \in Node \ {n} : status'[x] = Reset(S)[x]
      /\ status'[n] = "FAILURE"
  BY <1>1, <1>2, <1>3, ReturnStatus DEF Answers
<1>6. status'[Children[n][1]] = "IDLE" /\ status'[Children[n][2]] = "IDLE"
  <2>1. Settled(n, Children[n][1])
    BY <1>1, <1>2 DEF TreeInv, FreshInv
  <2>2. Current(n) = Children[n][2]
    BY <1>1, <1>2 DEF Current, Place
  <2>3. status[Children[n][1]] \in Idling
    BY <1>1, <2>1, <2>2 DEF Settled
  <2>4. status[Children[n][1]] # "RUNNING"
    BY <1>1, <1>2 DEF TreeInv, RunInv
  <2> QED BY <1>1, <1>3, <1>5, <2>3, <2>4 DEF Idling
<1>7. Moves(n) /\ Returns(n)
  <2>1. Resets(n, S)
    BY <1>2, <1>4, <1>5 DEF Resets
  <2>2. \A p \in Node \ {n} : Apart(n, p)
    BY <1>1, <2>1, ResetsApart
  <2>3. \A p \in Node \ {n} : Kept(p)
    BY <1>2 DEF Kept
  <2>4. \A c \in Below(n) : status'[c] # "RUNNING"
    BY <1>1, <1>6
  <2> QED BY <1>2, <1>5, <2>2, <2>3, <2>4 DEF Moves, Returns, Answers
<1>8. ~Working(n)' /\ at' \in Node \cup {"engine"}
  BY <1>1, <1>7, ReturnRests
<1>9. TypeInv'
  BY <1>1, <1>2, <1>4, <1>5, <1>8 DEF TypeInv, Answers
<1>10. RecoveryInv(n)'
  BY <1>1, <1>2, <1>4, <1>5, <1>8 DEF RecoveryInv, TypeInv
<1>11. ChildrenInv(n)'
  BY <1>1, <1>6 DEF ChildrenInv, Settled, Idling
<1> QED BY <1>1, <1>7, <1>9, <1>10, <1>11, MovesKeep DEF NodeInv

LEMMA RecoverySucceededKeeps ==
  ASSUME TreeInv, NEW n \in OfKind("recovery"), RecoverySucceeded(n)
  PROVE  TreeInv'
<1> DEFINE S == {Children[n][2]}
<1>1. /\ n \in Node /\ Kind[n] = "recovery" /\ RecoveryInv(n) /\ TypeInv
      /\ Len(Children[n]) = 2 /\ number_of_retries_[n] \in Nat
      /\ Children[n][1] \in Below(n) /\ Children[n][2] \in Below(n)
      /\ Children[n][1] # Children[n][2]
      /\ \A c \in Below(n) : c = Children[n][1] \/ c = Children[n][2]
      /\ n \notin Below(n) /\ Below(n) \subseteq Node
  BY RecoveryFacts
<1>2. /\ at = n /\ ret = "SUCCESS" /\ n # "engine" /\ index[n] = 1
      /\ at' = Children[n][1] /\ ret' = "none"
      /\ status' = Reset(S)
      /\ index' = [Cleared(index, Halting(S)) EXCEPT ![n] = 0]
      /\ count' = [Cleared(count, Halting(S)) EXCEPT ![n] = count[n] + 1]
      /\ recoveries' = [recoveries EXCEPT ![n] =
                          IF @ > number_of_retries_[n] THEN @ ELSE @ + 1]
      /\ i' = i /\ skipped' = skipped /\ passed' = passed
      /\ unlucky' = unlucky /\ running' = running /\ first_time_' = first_time_
  BY <1>1, TreeAssumption DEF RecoverySucceeded, Helped, Returned, Call, locals
<1> S \in SUBSET Below(n)
  BY <1>1
<1>3. /\ Reset(S)[n] = status[n]
      /\ Reset(S)[Children[n][2]] = "IDLE"
      /\ \A x \in Node : Reset(S)[x] \in {status[x], "IDLE"}
      /\ Reset(S) \in [Node -> Statuses]
  <2>1. \A c \in S : Reset(S)[c] = "IDLE"
    BY <1>1, OwnReset
  <2> HIDE DEF S
  <2>2. Children[n][2] \in S
    BY DEF S
  <2> QED BY <1>1, <2>1, <2>2, OwnReset, ResetType
<1> HIDE DEF S
<1>4. /\ index' \in [Node -> Nat] /\ count' \in [Node -> Nat]
      /\ index'[n] = 0 /\ count'[n] = count[n] + 1
      /\ \A x \in Node \ {n} : index'[x] = Cleared(index, Halting(S))[x]
      /\ \A x \in Node \ {n} : count'[x] = Cleared(count, Halting(S))[x]
  BY <1>1, <1>2, ClearedType DEF TypeInv
<1>5. /\ status[n] = "RUNNING" /\ recoveries[n] <= count[n]
      /\ count[n] < number_of_retries_[n]
      /\ recoveries[n] \in Nat /\ count[n] \in Nat
  BY <1>1, <1>2 DEF RecoveryInv, TypeInv
<1>6. /\ recoveries' \in [Node -> Nat] /\ recoveries'[n] = recoveries[n] + 1
      /\ \A x \in Node \ {n} : recoveries'[x] = recoveries[x]
  BY <1>1, <1>2, <1>5 DEF TypeInv
<1>7. Moves(n)
  <2>1. Resets(n, S)
    BY <1>2, <1>4 DEF Resets
  <2>2. \A p \in Node \ {n} : Apart(n, p)
    BY <1>1, <2>1, ResetsApart
  <2>3. \A p \in Node \ {n} : Kept(p)
    BY <1>2, <1>6 DEF Kept
  <2>4. at' = Current(n)'
    BY <1>1, <1>2, <1>4 DEF Current, Place
  <2> QED BY <1>1, <1>2, <1>3, <2>2, <2>3, <2>4 DEF Moves, Calls
<1>8. TypeInv'
  BY <1>1, <1>2, <1>3, <1>4, <1>6 DEF TypeInv
<1>9. RecoveryInv(n)'
  BY <1>1, <1>2, <1>3, <1>4, <1>5, <1>6 DEF RecoveryInv
<1>10. ChildrenInv(n)'
  <2>1. status'[Children[n][2]] = "IDLE" /\ status'[Children[n][1]] \in Idling
    <3>1. Settled(n, Children[n][1])
      BY <1>1, <1>2 DEF TreeInv, FreshInv
    <3>2. Current(n) = Children[n][2]
      BY <1>1, <1>2 DEF Current, Place
    <3>3. status[Children[n][1]] \in Idling
      BY <1>1, <3>1, <3>2 DEF Settled
    <3> QED BY <1>1, <1>2, <1>3, <3>3 DEF Idling
  <2> QED BY <1>1, <1>4, <2>1 DEF ChildrenInv, Settled, Idling
<1> QED BY <1>1, <1>7, <1>8, <1>9, <1>10, MovesKeep DEF NodeInv

LEMMA RecoveryKeeps ==
  ASSUME TreeInv, NEW n \in OfKind("recovery"), Recovery(n)
  PROVE  TreeInv'
<1>1. CASE RecoveryTick(n)
  BY <1>1, RecoveryTickKeeps
<1>2. CASE RecoveryDone(n)
  <2>1. PICK s \in {"SUCCESS", "SKIPPED"} :
          index[n] = 0 /\ Returned(n, s) /\ HaltAndReturn(n, s)
    BY <1>2 DEF RecoveryDone
  <2> QED BY <1>2, <2>1, RecoveryHaltKeeps DEF RecoveryDone, Returned
<1>3. CASE RecoveryRunning(n)
  BY <1>3, RecoveryRunningKeeps
<1>4. CASE StartRecovery(n)
  BY <1>4, StartRecoveryKeeps
<1>5. CASE GiveUp(n)
  BY <1>5, RecoveryHaltKeeps DEF GiveUp, Returned
<1>6. CASE RecoverySkipped(n)
  BY <1>6, RecoverySkippedKeeps
<1>7. CASE RecoverySucceeded(n)
  BY <1>7, RecoverySucceededKeeps
<1> QED BY <1>1, <1>2, <1>3, <1>4, <1>5, <1>6, <1>7 DEF Recovery

-----------------------------------------------------------------------------
(* PipelineSequence.                                                       *)
LEMMA PipelineFacts ==
  ASSUME TreeInv, NEW n \in OfKind("pipeline")
  PROVE  /\ n \in Node /\ Kind[n] = "pipeline" /\ PipelineInv(n) /\ TypeInv
         /\ Len(Children[n]) \in Nat \ {0} /\ i[n] \in Nat /\ index[n] \in Nat
         /\ \A k \in 1 .. Len(Children[n]) : Children[n][k] \in Below(n)
         /\ n \notin Below(n) /\ Below(n) \subseteq Node /\ n # "engine"
<1>1. n \in Node /\ Kind[n] = "pipeline" /\ Len(Children[n]) > 0
  BY TreeAssumption DEF OfKind
<1>2. PipelineInv(n) /\ TypeInv
  BY <1>1 DEF TreeInv, NodeInv
<1>3. /\ Len(Children[n]) \in Nat \ {0} /\ n \notin Below(n) /\ Below(n) \subseteq Node
      /\ \A k \in 1 .. Len(Children[n]) : Children[n][k] \in Below(n)
  BY <1>1, BelowDef, PathBelow
<1> QED BY <1>1, <1>2, <1>3, TreeAssumption DEF TypeInv

LEMMA PipelineTickKeeps ==
  ASSUME TreeInv, NEW n \in OfKind("pipeline"), PipelineTick(n)
  PROVE  TreeInv'
<1>1. /\ n \in Node /\ Kind[n] = "pipeline" /\ PipelineInv(n) /\ TypeInv
      /\ Len(Children[n]) \in Nat \ {0} /\ i[n] \in Nat /\ index[n] \in Nat
      /\ \A k \in 1 .. Len(Children[n]) : Children[n][k] \in Below(n)
      /\ n \notin Below(n) /\ Below(n) \subseteq Node /\ n # "engine"
  BY PipelineFacts
<1>2. /\ at = n /\ ret = "none"
      /\ at' = Children[n][1] /\ ret' = "none"
      /\ status' = status /\ index' = index /\ count' = count
      /\ i' = i /\ skipped' = skipped
      /\ recoveries' = [recoveries EXCEPT ![n] = IF Starting(n) THEN 0 ELSE @]
      /\ passed' = [passed EXCEPT ![n] = IF Starting(n) THEN {} ELSE @]
      /\ unlucky' = unlucky /\ running' = running /\ first_time_' = first_time_
  BY DEF PipelineTick, Entered, Call, Fresh, members, locals
<1>3. i[n] = 0
  BY <1>1, <1>2 DEF PipelineInv, Working, Entered
<1>4. at' \in Below(n) /\ at' = Current(n)' /\ at' \in Node
  BY <1>1, <1>2, <1>3 DEF Current, Place
<1>5. Moves(n)
  <2>1. \A p \in Node \ {n} : Apart(n, p)
    BY <1>1, <1>2, LeavesApart DEF Leaves, Spared
  <2>2. \A p \in Node \ {n} : Kept(p)
    BY <1>1, <1>2 DEF Kept, TypeInv
  <2> QED BY <1>2, <1>4, <2>1, <2>2 DEF Moves, Calls
<1>6. TypeInv'
  BY <1>1, <1>2, <1>4 DEF TypeInv
<1>7. passed'[n] = IF status[n] = "RUNNING" THEN passed[n] ELSE {}
  BY <1>1, <1>2 DEF TypeInv, Starting
<1>8. PipelineInv(n)'
  BY <1>1, <1>2, <1>3, <1>7 DEF PipelineInv
<1>9. ChildrenInv(n)'
  <2> SUFFICES ASSUME NEW c \in Below(n) PROVE Settled(n, c)'
    BY <1>1 DEF ChildrenInv
  <2>1. Settled(n, c)
    BY <1>1, <1>2 DEF TreeInv, FreshInv
  <2> QED BY <1>1, <1>2, <2>1 DEF Settled
<1> QED BY <1>1, <1>5, <1>6, <1>8, <1>9, MovesKeep DEF NodeInv

(* PipelineFails and PipelineDone.                                         *)
LEMMA PipelineEndKeeps ==
  ASSUME TreeInv, NEW n \in OfKind("pipeline"), at = n,
         NEW s \in {"SUCCESS", "FAILURE", "SKIPPED"}, PipelineEnds(n, s), ForgetLocals(n),
         UNCHANGED <<running, first_time_, history>>
  PROVE  TreeInv'
<1> DEFINE S == Below(n)
<1>1. /\ n \in Node /\ Kind[n] = "pipeline" /\ PipelineInv(n) /\ TypeInv
      /\ Len(Children[n]) \in Nat \ {0} /\ i[n] \in Nat /\ index[n] \in Nat
      /\ n \notin Below(n) /\ Below(n) \subseteq Node /\ n # "engine"
  BY PipelineFacts
<1>2. /\ Return(n, Reset(S), s)
      /\ index' = Cleared(index, Halting(S) \cup {n})
      /\ count' = Cleared(count, Halting(S))
      /\ i' = [i EXCEPT ![n] = 0] /\ skipped' = [skipped EXCEPT ![n] = 0]
      /\ recoveries' = recoveries /\ passed' = passed
      /\ unlucky' = unlucky /\ running' = running /\ first_time_' = first_time_
  BY DEF PipelineEnds, ForgetLocals, history
<1>3. /\ Reset(S)[n] = status[n] /\ \A c \in S : Reset(S)[c] = "IDLE"
      /\ Reset(S) \in [Node -> Statuses]
  BY <1>1, OwnReset, ResetType
<1>4. /\ status' \in [Node -> Statuses] /\ at' = Parent(n) /\ ret' = s
      /\ \A x \in Node \ {n} : status'[x] = Reset(S)[x]
      /\ status'[n] = IF s = "SKIPPED" THEN status[n] ELSE s
  <2>1. s \in Answers
    BY DEF Answers
  <2> QED BY <1>1, <1>2, <1>3, <2>1, ReturnStatus
<1>5. /\ index' \in [Node -> Nat] /\ count' \in [Node -> Nat] /\ index'[n] = 0
      /\ \A x \in Node \ {n} : index'[x] = Cleared(index, Halting(S))[x]
  <2>1. index \in [Node -> Nat] /\ count \in [Node -> Nat]
    BY <1>1 DEF TypeInv
  <2>2. count' \in [Node -> Nat] /\ index' \in [Node -> Nat]
    BY <1>2, <2>1, ClearedType
  <2>3. \A x \in Node : /\ index'[x] = IF x \in Halting(S) \cup {n} THEN 0 ELSE index[x]
                        /\ Cleared(index, Halting(S))[x] = IF x \in Halting(S) THEN 0 ELSE index[x]
    BY <1>2, <2>1, ClearedType
  <2> QED BY <1>1, <2>2, <2>3
<1>6. /\ i' \in [Node -> Nat] /\ skipped' \in [Node -> Nat] /\ i'[n] = 0
      /\ \A x \in Node \ {n} : i'[x] = i[x] /\ skipped'[x] = skipped[x]
  BY <1>1, <1>2 DEF TypeInv
<1>7. \A c \in Below(n) : status'[c] = "IDLE"
  BY <1>1, <1>3, <1>4
<1>8. Moves(n) /\ Returns(n)
  <2>1. Resets(n, S)
    BY <1>2, <1>4, <1>5 DEF Resets
  <2>2. \A p \in Node \ {n} : Apart(n, p)
    BY <1>1, <2>1, ResetsApart
  <2>3. \A p \in Node \ {n} : Kept(p)
    BY <1>2, <1>6 DEF Kept
  <2> QED BY <1>2, <1>4, <1>7, <2>2, <2>3 DEF Moves, Returns, Answers
<1>9. ~Working(n)' /\ at' \in Node \cup {"engine"}
  BY <1>1, <1>8, ReturnRests
<1>10. TypeInv'
  BY <1>1, <1>2, <1>4, <1>5, <1>6, <1>9 DEF TypeInv, Answers
<1>11. PipelineInv(n)'
  BY <1>1, <1>5, <1>6 DEF PipelineInv
<1>12. ChildrenInv(n)'
  BY <1>7 DEF ChildrenInv, Settled, Idling
<1> QED BY <1>1, <1>8, <1>10, <1>11, <1>12, MovesKeep DEF NodeInv

LEMMA PipelineRunningKeeps ==
  ASSUME TreeInv, NEW n \in OfKind("pipeline"), PipelineRunning(n)
  PROVE  TreeInv'
<1>1. /\ n \in Node /\ Kind[n] = "pipeline" /\ PipelineInv(n) /\ TypeInv
      /\ Len(Children[n]) \in Nat \ {0} /\ i[n] \in Nat /\ index[n] \in Nat
      /\ n \notin Below(n) /\ Below(n) \subseteq Node /\ n # "engine"
  BY PipelineFacts
<1>2. /\ at = n /\ ret = "RUNNING" /\ Return(n, status, "RUNNING")
      /\ index' = [index EXCEPT ![n] = i[n]] /\ count' = count
      /\ i' = [i EXCEPT ![n] = 0] /\ skipped' = [skipped EXCEPT ![n] = 0]
      /\ recoveries' = recoveries /\ passed' = passed
      /\ unlucky' = unlucky /\ running' = running /\ first_time_' = first_time_
  BY DEF PipelineRunning, Returned, ForgetLocals, history
<1>3. /\ status' \in [Node -> Statuses] /\ at' = Parent(n) /\ ret' = "RUNNING"
      /\ \A x \in Node \ {n} : status'[x] = status[x]
      /\ status'[n] = "RUNNING"
  BY <1>1, <1>2, ReturnStatus DEF TypeInv, Answers
<1>4. /\ i' \in [Node -> Nat] /\ skipped' \in [Node -> Nat] /\ i'[n] = 0
      /\ index' \in [Node -> Nat] /\ index'[n] = i[n]
      /\ \A x \in Node \ {n} : i'[x] = i[x] /\ skipped'[x] = skipped[x] /\ index'[x] = index[x]
  BY <1>1, <1>2 DEF TypeInv
<1>5. Moves(n) /\ Returns(n)
  <2>1. \A p \in Node \ {n} : Apart(n, p)
    BY <1>1, <1>2, <1>3, <1>4, LeavesApart DEF Leaves, Spared
  <2>2. \A p \in Node \ {n} : Kept(p)
    BY <1>2, <1>4 DEF Kept
  <2> QED BY <1>2, <1>3, <2>1, <2>2 DEF Moves, Returns, Answers
<1>6. ~Working(n)' /\ at' \in Node \cup {"engine"}
  BY <1>1, <1>5, ReturnRests
<1>7. TypeInv'
  BY <1>1, <1>2, <1>3, <1>4, <1>6 DEF TypeInv, Answers
<1>8. PipelineInv(n)'
  BY <1>1, <1>2, <1>3, <1>4 DEF PipelineInv
<1>9. ChildrenInv(n)'
  <2> SUFFICES ASSUME NEW c \in Below(n) PROVE Settled(n, c)'
    BY <1>1 DEF ChildrenInv
  <2>1. status'[c] = status[c] /\ Settled(n, c)
    BY <1>1, <1>2, <1>3 DEF TreeInv, FreshInv
  <2>2. status[Current(n)] = "RUNNING"
    BY <1>1, <1>2 DEF TreeInv, CallInv
  <2> QED BY <1>1, <1>2, <2>1, <2>2 DEF Settled, Idling
<1> QED BY <1>1, <1>5, <1>7, <1>8, <1>9, MovesKeep DEF NodeInv

LEMMA PipelineGoesOnKeeps ==
  ASSUME TreeInv, NEW n \in OfKind("pipeline"), PipelineGoesOn(n)
  PROVE  TreeInv'
<1>1. /\ n \in Node /\ Kind[n] = "pipeline" /\ PipelineInv(n) /\ TypeInv
      /\ Len(Children[n]) \in Nat \ {0} /\ i[n] \in Nat /\ index[n] \in Nat
      /\ \A k \in 1 .. Len(Children[n]) : Children[n][k] \in Below(n)
      /\ n \notin Below(n) /\ Below(n) \subseteq Node /\ n # "engine"
  BY PipelineFacts
<1>2. /\ at = n /\ ret \in Answers /\ (ret = "RUNNING" => i[n] < index[n])
      /\ i[n] + 1 < Len(Children[n])
      /\ at' = Children[n][i[n] + 2] /\ ret' = "none"
      /\ status' = status /\ index' = index /\ count' = count
      /\ i' = [i EXCEPT ![n] = @ + 1] /\ skipped' = [skipped EXCEPT ![n] = Skips(n)]
      /\ recoveries' = recoveries
      /\ passed' = [passed EXCEPT ![n] = IF ret = "RUNNING" THEN @ ELSE @ \cup {i[n] + 1}]
      /\ unlucky' = unlucky /\ running' = running /\ first_time_' = first_time_
  BY DEF PipelineGoesOn, Passes, Returned, Call, Mark, members, Answers
<1>3. Skips(n) \in Nat
  BY <1>1 DEF Skips, TypeInv
<1>4. /\ i' \in [Node -> Nat] /\ skipped' \in [Node -> Nat] /\ i'[n] = i[n] + 1
      /\ \A x \in Node \ {n} : i'[x] = i[x] /\ skipped'[x] = skipped[x]
  BY <1>1, <1>2, <1>3 DEF TypeInv
<1>5. /\ passed' \in [Node -> SUBSET Nat]
      /\ passed'[n] = IF ret = "RUNNING" THEN passed[n] ELSE passed[n] \cup {i[n] + 1}
      /\ \A x \in Node \ {n} : passed'[x] = passed[x]
  BY <1>1, <1>2 DEF TypeInv
<1>6. at' \in Below(n) /\ at' = Current(n)' /\ at' \in Node
  BY <1>1, <1>2, <1>4 DEF Current, Place
<1>7. Moves(n)
  <2>1. \A p \in Node \ {n} : Apart(n, p)
    BY <1>1, <1>2, LeavesApart DEF Leaves, Spared
  <2>2. \A p \in Node \ {n} : Kept(p)
    BY <1>2, <1>4, <1>5 DEF Kept
  <2> QED BY <1>2, <1>6, <2>1, <2>2 DEF Moves, Calls
<1>8. TypeInv'
  BY <1>1, <1>2, <1>4, <1>5, <1>6 DEF TypeInv
<1>9. Working(n)'
  BY <1>1, <1>6, <1>7, MovesWorking
<1>10. PipelineInv(n)'
  <2>1. 1 .. (i[n] + 1) \subseteq passed'[n]
    <3> SUFFICES ASSUME NEW k \in 1 .. (i[n] + 1) PROVE k \in passed'[n]
      OBVIOUS
    <3>1. CASE k \in 1 .. i[n]
      BY <1>1, <1>5, <3>1 DEF PipelineInv
    <3>2. CASE k = i[n] + 1 /\ ret = "RUNNING"
      <4>1. k \in 1 .. index[n]
        BY <1>1, <1>2, <3>2
      <4> QED BY <1>1, <1>5, <4>1 DEF PipelineInv
    <3>3. CASE k = i[n] + 1 /\ ret # "RUNNING"
      BY <1>5, <3>3
    <3> QED BY <1>1, <3>1, <3>2, <3>3
  <2>2. 1 .. index[n] \subseteq passed'[n]
    BY <1>1, <1>5 DEF PipelineInv
  <2> QED BY <1>1, <1>2, <1>4, <1>9, <2>1, <2>2 DEF PipelineInv
<1>11. ChildrenInv(n)'
  <2> SUFFICES ASSUME NEW c \in Below(n) PROVE Settled(n, c)'
    BY <1>1 DEF ChildrenInv
  <2>1. Settled(n, c)
    BY <1>1, <1>2 DEF TreeInv, FreshInv, Answers
  <2>2. Current(n) # Children[n][Len(Children[n])]
    <3>1. i[n] + 1 \in 1 .. Len(Children[n]) /\ Len(Children[n]) \in 1 .. Len(Children[n])
      BY <1>1, <1>2
    <3>2. Current(n) = Children[n][i[n] + 1]
      BY <1>1 DEF Current, Place
    <3>3. i[n] + 1 # Len(Children[n])
      BY <1>1, <1>2
    <3> QED BY <1>1, <3>1, <3>2, <3>3, OnePlace
  <2> QED BY <1>1, <1>2, <2>1, <2>2 DEF Settled
<1> QED BY <1>1, <1>7, <1>8, <1>10, <1>11, MovesKeep DEF NodeInv

LEMMA PipelineKeeps ==
  ASSUME TreeInv, NEW n \in OfKind("pipeline"), Pipeline(n)
  PROVE  TreeInv'
<1>1. CASE PipelineTick(n)
  BY <1>1, PipelineTickKeeps
<1>2. CASE PipelineFails(n)
  BY <1>2, PipelineEndKeeps DEF PipelineFails, Returned
<1>3. CASE PipelineRunning(n)
  BY <1>3, PipelineRunningKeeps
<1>4. CASE PipelineGoesOn(n)
  BY <1>4, PipelineGoesOnKeeps
<1>5. CASE PipelineDone(n)
  <2>1. at = n
    BY <1>5 DEF PipelineDone, Passes, Returned
  <2>2. \E s \in {"SUCCESS", "FAILURE", "SKIPPED"} : PipelineEnds(n, s)
    BY <1>5 DEF PipelineDone
  <2> QED BY <1>5, <2>1, <2>2, PipelineEndKeeps DEF PipelineDone
<1> QED BY <1>1, <1>2, <1>3, <1>4, <1>5 DEF Pipeline

-----------------------------------------------------------------------------
(* RoundRobin.  The place after x, round the end.                          *)
LEMMA ModSmall ==
  ASSUME NEW m \in Nat \ {0}, NEW y \in 0 .. m
  PROVE  y % m = IF y = m THEN 0 ELSE y
<1> DEFINE q == y \div m
           r == y % m
<1>1. y = m * q + r /\ r \in 0 .. (m - 1) /\ q \in Int
  OBVIOUS
<1> HIDE DEF q, r
<1>2. m * q \in Int
  BY <1>1
<1>3. q \in {0, 1}
  <2>1. CASE q <= -1
    <3>1. m * q <= -m
      BY <1>1, <2>1
    <3> QED BY <1>1, <1>2, <3>1
  <2>2. CASE q >= 2
    <3>1. m * q >= 2 * m
      BY <1>1, <2>2
    <3> QED BY <1>1, <1>2, <3>1
  <2> QED BY <1>1, <2>1, <2>2
<1>4. m * 0 = 0 /\ m * 1 = m
  OBVIOUS
<1>5. r = IF y = m THEN 0 ELSE y
  BY <1>1, <1>3, <1>4
<1> QED BY <1>5 DEF r

LEMMA RobinFacts ==
  ASSUME TreeInv, NEW n \in OfKind("robin")
  PROVE  /\ n \in Node /\ Kind[n] = "robin" /\ RobinInv(n) /\ TypeInv
         /\ Len(Children[n]) \in Nat \ {0}
         /\ index[n] \in Nat /\ count[n] \in Nat /\ skipped[n] \in Nat
         /\ \A k \in 1 .. Len(Children[n]) : Children[n][k] \in Below(n)
         /\ n \notin Below(n) /\ Below(n) \subseteq Node /\ n # "engine"
         /\ Following(n) = IF index[n] + 1 = Len(Children[n]) THEN 0 ELSE index[n] + 1
         /\ Following(n) \in 0 .. (Len(Children[n]) - 1) /\ index[n] < Len(Children[n])
<1>1. n \in Node /\ Kind[n] = "robin" /\ Len(Children[n]) > 0
  BY TreeAssumption DEF OfKind
<1>2. RobinInv(n) /\ TypeInv
  BY <1>1 DEF TreeInv, NodeInv
<1>3. /\ Len(Children[n]) \in Nat \ {0} /\ n \notin Below(n) /\ Below(n) \subseteq Node
      /\ \A k \in 1 .. Len(Children[n]) : Children[n][k] \in Below(n)
  BY <1>1, BelowDef, PathBelow
<1>4. index[n] \in Nat /\ count[n] \in Nat /\ skipped[n] \in Nat
  BY <1>1, <1>2 DEF TypeInv
<1>5. Following(n) = IF index[n] + 1 = Len(Children[n]) THEN 0 ELSE index[n] + 1
  <2> DEFINE m == Len(Children[n])
             y == index[n] + 1
  <2>1. m \in Nat \ {0} /\ y \in 0 .. m
    BY <1>2, <1>3, <1>4 DEF RobinInv
  <2> HIDE DEF m, y
  <2>2. y % m = IF y = m THEN 0 ELSE y
    BY <2>1, ModSmall
  <2> QED BY <2>2 DEF m, y, Following
<1>6. index[n] < Len(Children[n])
  BY <1>2 DEF RobinInv
<1>7. Following(n) \in 0 .. (Len(Children[n]) - 1)
  <2> DEFINE f == Following(n)
  <2>1. f = IF index[n] + 1 = Len(Children[n]) THEN 0 ELSE index[n] + 1
    BY <1>5
  <2> HIDE DEF f
  <2>2. f \in 0 .. (Len(Children[n]) - 1)
    BY <1>3, <1>4, <1>6, <2>1
  <2> QED BY <2>2 DEF f
<1> QED BY <1>1, <1>2, <1>3, <1>4, <1>5, <1>6, <1>7, TreeAssumption

LEMMA RobinTickKeeps ==
  ASSUME TreeInv, NEW n \in OfKind("robin"), RobinTick(n)
  PROVE  TreeInv'
<1>1. /\ n \in Node /\ Kind[n] = "robin" /\ RobinInv(n) /\ TypeInv
      /\ Len(Children[n]) \in Nat \ {0}
      /\ index[n] \in Nat /\ count[n] \in Nat /\ skipped[n] \in Nat
      /\ index[n] < Len(Children[n])
      /\ \A k \in 1 .. Len(Children[n]) : Children[n][k] \in Below(n)
      /\ n \notin Below(n) /\ Below(n) \subseteq Node /\ n # "engine"
  BY RobinFacts
<1>2. /\ at = n /\ ret = "none" /\ at' = Children[n][index[n] + 1] /\ ret' = "none"
      /\ status' = [status EXCEPT ![n] = "RUNNING"]
      /\ index' = index /\ count' = count /\ i' = i /\ skipped' = skipped
      /\ recoveries' = [recoveries EXCEPT ![n] = IF Starting(n) THEN 0 ELSE @]
      /\ passed' = [passed EXCEPT ![n] = IF Starting(n) THEN {} ELSE @]
      /\ unlucky' = unlucky /\ running' = running /\ first_time_' = first_time_
  <2>1. count[n] < Len(Children[n])
    BY <1>1 DEF RobinInv
  <2> QED BY <2>1 DEF RobinTick, Entered, Call, Fresh, locals
<1>3. at' \in Below(n) /\ at' = Current(n)' /\ at' \in Node
  <2>1. index[n] + 1 \in 1 .. Len(Children[n])
    BY <1>1
  <2>2. at' = Current(n)'
    BY <1>1, <1>2 DEF Current, Place
  <2> QED BY <1>1, <1>2, <2>1, <2>2
<1>4. /\ status'[n] = "RUNNING" /\ \A x \in Node \ {n} : status'[x] = status[x]
      /\ status' \in [Node -> Statuses]
  BY <1>1, <1>2 DEF TypeInv, Statuses
<1>5. Moves(n)
  <2>1. \A p \in Node \ {n} : Apart(n, p)
    BY <1>1, <1>2, <1>4, LeavesApart DEF Leaves, Spared
  <2>2. \A p \in Node \ {n} : Kept(p)
    BY <1>1, <1>2 DEF Kept, TypeInv
  <2> QED BY <1>2, <1>3, <1>4, <2>1, <2>2 DEF Moves, Calls
<1>6. TypeInv'
  BY <1>1, <1>2, <1>3, <1>4 DEF TypeInv
<1>7. passed'[n] = IF status[n] = "RUNNING" THEN passed[n] ELSE {}
  BY <1>1, <1>2 DEF TypeInv, Starting
<1>8. skipped[n] = 0 /\ ~Working(n)
  BY <1>1, <1>2 DEF RobinInv, Working, Entered
<1>9. RobinInv(n)'
  <2>1. CASE status[n] = "RUNNING"
    BY <1>1, <1>2, <1>4, <1>7, <1>8, <2>1 DEF RobinInv, Back
  <2>2. CASE status[n] # "RUNNING"
    <3>1. count[n] = 0
      BY <1>1, <2>2 DEF RobinInv
    <3>2. 1 .. (count'[n] + skipped'[n]) = {}
      BY <1>2, <1>8, <3>1
    <3>3. \A j \in 1 .. (count'[n] + skipped'[n]) : Back(n, j)' + 1 \in passed'[n]
      BY <3>2, Zenon
    <3>4. /\ index'[n] < Len(Children[n]) /\ count'[n] + skipped'[n] < Len(Children[n])
          /\ passed'[n] = {} /\ skipped'[n] = 0 /\ status'[n] = "RUNNING"
      BY <1>1, <1>2, <1>4, <1>7, <1>8, <2>2, <3>1 DEF RobinInv
    <3> QED BY <3>3, <3>4 DEF RobinInv
  <2> QED BY <2>1, <2>2
<1>10. ChildrenInv(n)'
  <2> SUFFICES ASSUME NEW c \in Below(n) PROVE Settled(n, c)'
    BY <1>1 DEF ChildrenInv
  <2>1. status'[c] = status[c] /\ Settled(n, c)
    BY <1>1, <1>2, <1>4 DEF TreeInv, FreshInv
  <2> QED BY <1>1, <1>2, <1>4, <1>7, <1>8, <2>1 DEF Settled
<1> QED BY <1>1, <1>5, <1>6, <1>9, <1>10, MovesKeep DEF NodeInv

LEMMA RobinRunningKeeps ==
  ASSUME TreeInv, NEW n \in OfKind("robin"), RobinRunning(n)
  PROVE  TreeInv'
<1>1. /\ n \in Node /\ Kind[n] = "robin" /\ RobinInv(n) /\ TypeInv
      /\ Len(Children[n]) \in Nat \ {0}
      /\ index[n] \in Nat /\ count[n] \in Nat /\ skipped[n] \in Nat
      /\ n \notin Below(n) /\ Below(n) \subseteq Node /\ n # "engine"
  BY RobinFacts
<1>2. /\ at = n /\ ret = "RUNNING" /\ Return(n, status, "RUNNING")
      /\ index' = index /\ count' = count
      /\ i' = [i EXCEPT ![n] = 0] /\ skipped' = [skipped EXCEPT ![n] = 0]
      /\ recoveries' = recoveries /\ passed' = passed
      /\ unlucky' = unlucky /\ running' = running /\ first_time_' = first_time_
  BY DEF RobinRunning, Returned, ForgetLocals, members, history
<1>3. /\ status' \in [Node -> Statuses] /\ at' = Parent(n) /\ ret' = "RUNNING"
      /\ \A x \in Node \ {n} : status'[x] = status[x]
      /\ status'[n] = "RUNNING"
  BY <1>1, <1>2, ReturnStatus DEF TypeInv, Answers
<1>4. /\ i' \in [Node -> Nat] /\ skipped' \in [Node -> Nat] /\ skipped'[n] = 0
      /\ \A x \in Node \ {n} : i'[x] = i[x] /\ skipped'[x] = skipped[x]
  BY <1>1, <1>2 DEF TypeInv
<1>5. Moves(n) /\ Returns(n)
  <2>1. \A p \in Node \ {n} : Apart(n, p)
    BY <1>1, <1>2, <1>3, LeavesApart DEF Leaves, Spared
  <2>2. \A p \in Node \ {n} : Kept(p)
    BY <1>2, <1>4 DEF Kept
  <2> QED BY <1>2, <1>3, <2>1, <2>2 DEF Moves, Returns, Answers
<1>6. ~Working(n)' /\ at' \in Node \cup {"engine"}
  BY <1>1, <1>5, ReturnRests
<1>7. TypeInv'
  BY <1>1, <1>2, <1>3, <1>4, <1>6 DEF TypeInv, Answers
<1>8. RobinInv(n)'
  <2>1. \A j \in 1 .. (count'[n] + skipped'[n]) : j \in 1 .. (count[n] + skipped[n])
    BY <1>1, <1>2, <1>4
  <2> QED BY <1>1, <1>2, <1>3, <1>4, <1>6, <2>1 DEF RobinInv, Back
<1>9. ChildrenInv(n)'
  <2> SUFFICES ASSUME NEW c \in Below(n) PROVE Settled(n, c)'
    BY <1>1 DEF ChildrenInv
  <2>1. status'[c] = status[c] /\ Settled(n, c)
    BY <1>1, <1>2, <1>3 DEF TreeInv, FreshInv
  <2>2. status[Current(n)] = "RUNNING"
    BY <1>1, <1>2 DEF TreeInv, CallInv
  <2> QED BY <1>1, <1>2, <1>3, <2>1, <2>2 DEF Settled, Idling
<1> QED BY <1>1, <1>5, <1>7, <1>8, <1>9, MovesKeep DEF NodeInv

LEMMA RobinSucceedsKeeps ==
  ASSUME TreeInv, NEW n \in OfKind("robin"), RobinSucceeds(n)
  PROVE  TreeInv'
<1> DEFINE S == Below(n)
<1>1. /\ n \in Node /\ Kind[n] = "robin" /\ RobinInv(n) /\ TypeInv
      /\ Len(Children[n]) \in Nat \ {0}
      /\ index[n] \in Nat /\ count[n] \in Nat /\ skipped[n] \in Nat
      /\ n \notin Below(n) /\ Below(n) \subseteq Node /\ n # "engine"
      /\ Following(n) = IF index[n] + 1 = Len(Children[n]) THEN 0 ELSE index[n] + 1
      /\ Following(n) \in 0 .. (Len(Children[n]) - 1) /\ index[n] < Len(Children[n])
  BY RobinFacts
<1>2. /\ at = n /\ Return(n, Reset(S), "SUCCESS")
      /\ index' = [Cleared(index, Halting(S)) EXCEPT ![n] = Following(n)]
      /\ count' = Cleared(count, Halting(S) \cup {n})
      /\ i' = [i EXCEPT ![n] = 0] /\ skipped' = [skipped EXCEPT ![n] = 0]
      /\ recoveries' = recoveries /\ passed' = passed
      /\ unlucky' = unlucky /\ running' = running /\ first_time_' = first_time_
  BY DEF RobinSucceeds, Returned, ForgetLocals, history
<1>3. (\A c \in S : Reset(S)[c] = "IDLE") /\ Reset(S) \in [Node -> Statuses]
  BY <1>1, OwnReset, ResetType
<1>4. /\ status' \in [Node -> Statuses] /\ at' = Parent(n) /\ ret' = "SUCCESS"
      /\ \A x \in Node \ {n} : status'[x] = Reset(S)[x]
      /\ status'[n] = "SUCCESS"
  BY <1>1, <1>2, <1>3, ReturnStatus DEF Answers
<1>5. /\ index' \in [Node -> Nat] /\ count' \in [Node -> Nat]
      /\ index'[n] = Following(n) /\ index'[n] < Len(Children[n]) /\ count'[n] = 0
      /\ \A x \in Node \ {n} : index'[x] = Cleared(index, Halting(S))[x]
      /\ \A x \in Node \ {n} : count'[x] = Cleared(count, Halting(S))[x]
  <2> HIDE DEF S
  <2>1. index \in [Node -> Nat] /\ count \in [Node -> Nat] /\ Following(n) \in Nat
        /\ Following(n) < Len(Children[n])
    BY <1>1 DEF TypeInv
  <2>2. count' \in [Node -> Nat] /\ Cleared(index, Halting(S)) \in [Node -> Nat]
    <3>1. count' = Cleared(count, Halting(S) \cup {n})
      BY <1>2
    <3>2. Cleared(count, Halting(S) \cup {n}) \in [Node -> Nat]
      BY <2>1, ClearedType
    <3>3. Cleared(index, Halting(S)) \in [Node -> Nat]
      BY <2>1, ClearedType
    <3> QED BY <3>1, <3>2, <3>3
  <2>3. \A x \in Node : /\ count'[x] = IF x \in Halting(S) \cup {n} THEN 0 ELSE count[x]
                        /\ Cleared(count, Halting(S))[x] = IF x \in Halting(S) THEN 0 ELSE count[x]
    BY <1>2, <2>1, ClearedType
  <2> QED BY <1>1, <1>2, <2>1, <2>2, <2>3
<1>6. /\ i' \in [Node -> Nat] /\ skipped' \in [Node -> Nat] /\ skipped'[n] = 0
      /\ \A x \in Node \ {n} : i'[x] = i[x] /\ skipped'[x] = skipped[x]
  BY <1>1, <1>2 DEF TypeInv
<1>7. \A c \in Below(n) : status'[c] = "IDLE"
  BY <1>1, <1>3, <1>4
<1>8. Moves(n) /\ Returns(n)
  <2>1. Resets(n, S)
    BY <1>4, <1>5 DEF Resets
  <2>2. \A p \in Node \ {n} : Apart(n, p)
    BY <1>1, <2>1, ResetsApart
  <2>3. \A p \in Node \ {n} : Kept(p)
    BY <1>2, <1>6 DEF Kept
  <2> QED BY <1>2, <1>4, <1>7, <2>2, <2>3 DEF Moves, Returns, Answers
<1>9. ~Working(n)' /\ at' \in Node \cup {"engine"}
  BY <1>1, <1>8, ReturnRests
<1>10. TypeInv'
  BY <1>1, <1>2, <1>4, <1>5, <1>6, <1>9 DEF TypeInv, Answers
<1>11. RobinInv(n)'
  <2>1. 1 .. (count'[n] + skipped'[n]) = {}
    BY <1>5, <1>6
  <2>2. \A j \in 1 .. (count'[n] + skipped'[n]) : Back(n, j)' + 1 \in passed'[n]
    BY <2>1, Zenon
  <2>3. /\ count'[n] + skipped'[n] < Len(Children[n])
        /\ passed'[n] \subseteq 1 .. Len(Children[n])
    BY <1>1, <1>2, <1>5, <1>6 DEF RobinInv
  <2> QED BY <1>5, <1>6, <1>9, <2>2, <2>3 DEF RobinInv
<1>12. ChildrenInv(n)'
  BY <1>7 DEF ChildrenInv, Settled, Idling
<1> QED BY <1>1, <1>8, <1>10, <1>11, <1>12, MovesKeep DEF NodeInv

(* What the present child adds to the children that have been tried.       *)
LEMMA RobinTried ==
  ASSUME TreeInv, NEW n \in OfKind("robin"), at = n, ret \in {"FAILURE", "SKIPPED"}
  PROVE  /\ Failures(n) \in Nat /\ Skips(n) \in Nat
         /\ Failures(n) + Skips(n) = count[n] + skipped[n] + 1
         /\ status[n] = "RUNNING"
<1>1. /\ n \in Node /\ RobinInv(n) /\ TypeInv /\ n # "engine"
      /\ count[n] \in Nat /\ skipped[n] \in Nat
  BY RobinFacts
<1>2. Working(n)
  BY <1>1, PathIn DEF Working, Entered
<1>3. CASE ret = "FAILURE"
  BY <1>1, <1>2, <1>3 DEF Failures, Skips, RobinInv
<1>4. CASE ret = "SKIPPED"
  BY <1>1, <1>2, <1>4 DEF Failures, Skips, RobinInv
<1> QED BY <1>3, <1>4

LEMMA RobinTriesNextKeeps ==
  ASSUME TreeInv, NEW n \in OfKind("robin"), RobinTriesNext(n)
  PROVE  TreeInv'
<1>1. /\ n \in Node /\ Kind[n] = "robin" /\ RobinInv(n) /\ TypeInv
      /\ Len(Children[n]) \in Nat \ {0}
      /\ index[n] \in Nat /\ count[n] \in Nat /\ skipped[n] \in Nat
      /\ \A k \in 1 .. Len(Children[n]) : Children[n][k] \in Below(n)
      /\ n \notin Below(n) /\ Below(n) \subseteq Node /\ n # "engine"
      /\ Following(n) = IF index[n] + 1 = Len(Children[n]) THEN 0 ELSE index[n] + 1
      /\ Following(n) \in 0 .. (Len(Children[n]) - 1) /\ index[n] < Len(Children[n])
  BY RobinFacts
<1>2. /\ at = n /\ ret \in {"FAILURE", "SKIPPED"}
      /\ ~(Failures(n) + Skips(n) >= Len(Children[n]))
      /\ at' = Children[n][Following(n) + 1] /\ ret' = "none"
      /\ index' = [index EXCEPT ![n] = Following(n)]
      /\ count' = [count EXCEPT ![n] = Failures(n)]
      /\ skipped' = [skipped EXCEPT ![n] = Skips(n)]
      /\ passed' = [passed EXCEPT ![n] = @ \cup {index[n] + 1}]
      /\ status' = status /\ i' = i /\ recoveries' = recoveries
      /\ unlucky' = unlucky /\ running' = running /\ first_time_' = first_time_
  BY DEF RobinTriesNext, OutOfChildren, Call
<1>3. /\ Failures(n) \in Nat /\ Skips(n) \in Nat
      /\ Failures(n) + Skips(n) = count[n] + skipped[n] + 1
      /\ status[n] = "RUNNING"
  BY <1>2, RobinTried
<1>4. Following(n) \in Nat /\ Following(n) < Len(Children[n]) /\ index[n] + 1 \in 1 .. Len(Children[n])
  BY <1>1
<1>5. /\ index' \in [Node -> Nat] /\ count' \in [Node -> Nat] /\ skipped' \in [Node -> Nat]
      /\ index'[n] = Following(n) /\ count'[n] = Failures(n) /\ skipped'[n] = Skips(n)
      /\ \A x \in Node \ {n} :
           index'[x] = index[x] /\ count'[x] = count[x] /\ skipped'[x] = skipped[x]
  BY <1>1, <1>2, <1>3, <1>4 DEF TypeInv
<1>6. /\ passed' \in [Node -> SUBSET Nat] /\ passed'[n] = passed[n] \cup {index[n] + 1}
      /\ \A x \in Node \ {n} : passed'[x] = passed[x]
  BY <1>1, <1>2 DEF TypeInv
<1>7. at' \in Below(n) /\ at' = Current(n)' /\ at' \in Node
  BY <1>1, <1>2, <1>4, <1>5 DEF Current, Place
<1>8. Moves(n)
  <2>1. \A p \in Node \ {n} : Apart(n, p)
    BY <1>1, <1>2, <1>5, LeavesApart DEF Leaves, Spared
  <2>2. \A p \in Node \ {n} : Kept(p)
    BY <1>2, <1>5, <1>6 DEF Kept
  <2> QED BY <1>2, <1>7, <2>1, <2>2 DEF Moves, Calls
<1>9. TypeInv'
  BY <1>1, <1>2, <1>5, <1>6, <1>7 DEF TypeInv
<1>10. Working(n)'
  BY <1>1, <1>7, <1>8, MovesWorking
<1>11. ASSUME NEW j \in 1 .. (count'[n] + skipped'[n])
       PROVE  Back(n, j)' + 1 \in passed'[n]
  <2> DEFINE m == Len(Children[n])
             x == index[n]
  <2>0. /\ m \in Nat \ {0} /\ x \in Nat /\ x < m /\ j \in Nat /\ j >= 1
        /\ j - 1 \in 0 .. (count[n] + skipped[n]) /\ j < m
    <3>1. m \in Nat \ {0} /\ x \in Nat /\ x < m
      BY <1>1
    <3>2. /\ count'[n] + skipped'[n] = count[n] + skipped[n] + 1
          /\ count'[n] + skipped'[n] < m
      BY <1>1, <1>2, <1>3, <1>5
    <3> HIDE DEF m, x
    <3> QED BY <1>1, <1>11, <3>1, <3>2
  <2>1. Back(n, j)' = IF j <= Following(n) THEN Following(n) - j ELSE (Following(n) + m) - j
    BY <1>5 DEF Back
  <2>2. Back(n, j)' = IF j - 1 <= x THEN x - (j - 1) ELSE (x + m) - (j - 1)
    <3> DEFINE f == Following(n)
    <3>1. f = IF x + 1 = m THEN 0 ELSE x + 1
      BY <1>1
    <3> HIDE DEF f, m, x
    <3>2. (IF j <= f THEN f - j ELSE (f + m) - j)
            = IF j - 1 <= x THEN x - (j - 1) ELSE (x + m) - (j - 1)
      BY <2>0, <3>1
    <3> QED BY <2>1, <3>2 DEF f
  <2>3. CASE j = 1
    <3>1. Back(n, j)' = x
      BY <2>0, <2>2, <2>3
    <3> QED BY <1>6, <3>1
  <2>4. CASE j # 1
    <3>1. j - 1 \in 1 .. (count[n] + skipped[n])
      BY <2>0, <2>4
    <3>2. Back(n, j - 1) + 1 \in passed[n]
      BY <1>1, <3>1 DEF RobinInv
    <3>3. Back(n, j - 1) = Back(n, j)'
      BY <2>2 DEF Back
    <3> QED BY <1>6, <3>2, <3>3
  <2> QED BY <2>3, <2>4
<1>12. RobinInv(n)'
  <2>1. passed'[n] \subseteq 1 .. Len(Children[n])
    BY <1>1, <1>4, <1>6 DEF RobinInv
  <2>2. index'[n] < Len(Children[n]) /\ count'[n] + skipped'[n] < Len(Children[n])
    BY <1>1, <1>2, <1>3, <1>4, <1>5
  <2>3. status'[n] = "RUNNING"
    BY <1>2, <1>3
  <2> QED BY <1>10, <1>11, <2>1, <2>2, <2>3 DEF RobinInv
<1>13. ChildrenInv(n)'
  <2> SUFFICES ASSUME NEW c \in Below(n) PROVE Settled(n, c)'
    BY <1>1 DEF ChildrenInv
  <2>1. Settled(n, c)
    BY <1>1, <1>2 DEF TreeInv, FreshInv
  <2>2. Current(n) = Children[n][index[n] + 1] /\ index[n] + 1 \in passed'[n]
    BY <1>1, <1>6 DEF Current, Place
  <2>3. passed[n] \subseteq passed'[n]
    BY <1>6
  <2>4. CASE c = Current(n)
    BY <1>1, <1>10, <2>2, <2>4 DEF Settled
  <2>5. CASE c # Current(n)
    BY <1>1, <1>2, <1>10, <2>1, <2>3, <2>5 DEF Settled
  <2> QED BY <2>4, <2>5
<1> QED BY <1>1, <1>8, <1>9, <1>12, <1>13, MovesKeep DEF NodeInv

LEMMA RobinFailsKeeps ==
  ASSUME TreeInv, NEW n \in OfKind("robin"), RobinFails(n)
  PROVE  TreeInv'
<1>1. /\ n \in Node /\ Kind[n] = "robin" /\ RobinInv(n) /\ TypeInv
      /\ Len(Children[n]) \in Nat \ {0}
      /\ index[n] \in Nat /\ count[n] \in Nat /\ skipped[n] \in Nat
      /\ n \notin Below(n) /\ Below(n) \subseteq Node /\ n # "engine"
  BY RobinFacts
<1>2. /\ at = n
      /\ i' = [i EXCEPT ![n] = 0] /\ skipped' = [skipped EXCEPT ![n] = 0]
      /\ passed' = [passed EXCEPT ![n] = @ \cup {index[n] + 1}]
      /\ recoveries' = recoveries
      /\ unlucky' = unlucky /\ running' = running /\ first_time_' = first_time_
  BY DEF RobinFails, ForgetLocals
<1>3. PICK s \in {"SUCCESS", "FAILURE", "SKIPPED"} : HaltAndReturn(n, s)
  BY DEF RobinFails
<1>4. /\ i' \in [Node -> Nat] /\ skipped' \in [Node -> Nat] /\ skipped'[n] = 0
      /\ \A x \in Node \ {n} : i'[x] = i[x] /\ skipped'[x] = skipped[x]
  BY <1>1, <1>2 DEF TypeInv
<1>5. /\ passed' \in [Node -> SUBSET Nat] /\ passed'[n] = passed[n] \cup {index[n] + 1}
      /\ \A x \in Node \ {n} : passed'[x] = passed[x]
  BY <1>1, <1>2 DEF TypeInv
<1>6. \A p \in Node \ {n} : Kept(p)
  BY <1>2, <1>4, <1>5 DEF Kept
<1>7. /\ Moves(n) /\ Returns(n) /\ ret' = s
      /\ status' \in [Node -> Statuses] /\ status'[n] # "RUNNING"
      /\ index' \in [Node -> Nat] /\ count' \in [Node -> Nat]
      /\ index'[n] = 0 /\ count'[n] = 0
      /\ \A c \in Below(n) : status'[c] = "IDLE"
  BY <1>1, <1>2, <1>3, <1>6, HaltReturns
<1>8. ~Working(n)' /\ at' \in Node \cup {"engine"}
  BY <1>1, <1>7, ReturnRests
<1>9. TypeInv'
  BY <1>1, <1>2, <1>4, <1>5, <1>7, <1>8 DEF TypeInv, Answers
<1>10. RobinInv(n)'
  BY <1>1, <1>4, <1>5, <1>7, <1>8 DEF RobinInv
<1>11. ChildrenInv(n)'
  BY <1>7 DEF ChildrenInv, Settled, Idling
<1> QED BY <1>1, <1>7, <1>9, <1>10, <1>11, MovesKeep DEF NodeInv

LEMMA RobinKeeps ==
  ASSUME TreeInv, NEW n \in OfKind("robin"), Robin(n)
  PROVE  TreeInv'
  BY RobinTickKeeps, RobinRunningKeeps, RobinSucceedsKeeps, RobinTriesNextKeeps,
     RobinFailsKeeps DEF Robin

-----------------------------------------------------------------------------
(* RateController.                                                         *)
LEMMA RateFacts ==
  ASSUME TreeInv, NEW n \in OfKind("rate")
  PROVE  /\ n \in Node /\ Kind[n] = "rate" /\ RateInv(n) /\ TypeInv
         /\ Children[n][1] \in Below(n) /\ Children[n][1] \in Node \ {n}
         /\ \A c \in Below(n) : c = Children[n][1]
         /\ Current(n) = Children[n][1] /\ Children[n][1] \notin Path[n]
         /\ n # "engine" /\ n \in Path[n]
<1>1. n \in Node /\ Kind[n] = "rate" /\ Len(Children[n]) = 1
  BY TreeAssumption DEF OfKind
<1>2. RateInv(n) /\ TypeInv
  BY <1>1 DEF TreeInv, NodeInv
<1>3. Children[n][1] \in Below(n) /\ \A c \in Below(n) : c = Children[n][1]
  BY <1>1, BelowDef
<1>4. Children[n][1] \in Node \ {n} /\ Children[n][1] \notin Path[n] /\ n \in Path[n]
  BY <1>1, <1>3, BelowDef, PathBelow, PathIn
<1>5. Current(n) = Children[n][1]
  BY <1>1 DEF Current, Place
<1> QED BY <1>1, <1>2, <1>3, <1>4, <1>5, TreeAssumption

LEMMA RateTickKeeps ==
  ASSUME TreeInv, NEW n \in OfKind("rate"), RateTick(n)
  PROVE  TreeInv'
<1>1. /\ n \in Node /\ Kind[n] = "rate" /\ RateInv(n) /\ TypeInv
      /\ Children[n][1] \in Below(n) /\ Children[n][1] \in Node \ {n}
      /\ \A c \in Below(n) : c = Children[n][1]
      /\ Current(n) = Children[n][1]
      /\ n # "engine" /\ n \in Path[n]
  BY RateFacts
<1>2. /\ at = n /\ ret = "none"
      /\ index' = index /\ count' = count /\ i' = i /\ skipped' = skipped
      /\ recoveries' = recoveries /\ passed' = passed
      /\ unlucky' = unlucky /\ running' = running
  BY DEF RateTick, Entered, locals, history
<1>3. /\ first_time_' \in [OfKind("rate") -> BOOLEAN]
      /\ \/ /\ at' = Children[n][1] /\ ret' = "none"
            /\ status' = [status EXCEPT ![n] = "RUNNING"]
         \/ Return(n, status, "RUNNING")
  <2>1. PICK elapsed \in BOOLEAN :
          LET first == first_time_[n] \/ ~Active(n)
              due == first \/ status[Children[n][1]] = "RUNNING" \/ elapsed
          IN /\ first_time_' = [first_time_ EXCEPT ![n] = first /\ ~due]
             /\ IF due THEN /\ Call(Children[n][1])
                            /\ status' = [status EXCEPT ![n] = "RUNNING"]
                       ELSE Return(n, status, "RUNNING")
    BY DEF RateTick
  <2> DEFINE first == first_time_[n] \/ ~Active(n)
             due == first \/ status[Children[n][1]] = "RUNNING" \/ elapsed
             v == first /\ ~due
  <2>2. first_time_' = [first_time_ EXCEPT ![n] = v] /\ v \in BOOLEAN
    BY <2>1
  <2> HIDE DEF v
  <2>3. first_time_' \in [OfKind("rate") -> BOOLEAN]
    BY <1>1, <2>2 DEF TypeInv
  <2> QED BY <2>1, <2>3 DEF Call
<1>4. /\ status' \in [Node -> Statuses] /\ status'[n] = "RUNNING"
      /\ \A x \in Node \ {n} : status'[x] = status[x]
      /\ \/ at' = Children[n][1] /\ ret' = "none"
         \/ at' = Parent(n) /\ ret' = "RUNNING"
  <2>1. CASE Return(n, status, "RUNNING")
    BY <1>1, <2>1, ReturnStatus DEF TypeInv, Answers
  <2>2. CASE /\ at' = Children[n][1] /\ ret' = "none"
             /\ status' = [status EXCEPT ![n] = "RUNNING"]
    BY <1>1, <2>2 DEF TypeInv, Statuses
  <2> QED BY <1>3, <2>1, <2>2
<1>5. Moves(n)
  <2>1. \A p \in Node \ {n} : Apart(n, p)
    BY <1>1, <1>2, <1>4, LeavesApart DEF Leaves, Spared
  <2>2. \A p \in Node \ {n} : Kept(p)
    BY <1>2 DEF Kept
  <2>3. Current(n)' = Children[n][1]
    BY <1>1 DEF Current, Place
  <2> QED BY <1>1, <1>2, <1>4, <2>1, <2>2, <2>3 DEF Moves, Calls, Returns, Answers
<1>6. TypeInv'
  <2>1. at' \in Node \cup {"engine"} /\ ret' \in Answers \cup {"none"}
    BY <1>1, <1>4, ParentAny DEF Answers
  <2> QED BY <1>1, <1>2, <1>3, <1>4, <2>1 DEF TypeInv
<1>7. RateInv(n)'
  BY <1>4 DEF RateInv
<1>8. ChildrenInv(n)'
  <2> SUFFICES ASSUME NEW c \in Below(n) PROVE status'[c] \in Idling
    BY <1>1 DEF ChildrenInv, Settled
  <2>1. Settled(n, c) /\ status'[c] = status[c]
    BY <1>1, <1>2, <1>4 DEF TreeInv, FreshInv
  <2> QED BY <1>1, <1>2, <2>1 DEF Settled
<1> QED BY <1>1, <1>5, <1>6, <1>7, <1>8, MovesKeep DEF NodeInv

LEMMA RateReturnsKeeps ==
  ASSUME TreeInv, NEW n \in OfKind("rate"), RateReturns(n)
  PROVE  TreeInv'
<1> DEFINE c == Children[n][1]
           st == [status EXCEPT ![c] = IF @ = "RUNNING" THEN @ ELSE "IDLE"]
<1>1. /\ n \in Node /\ Kind[n] = "rate" /\ RateInv(n) /\ TypeInv
      /\ c \in Below(n) /\ c \in Node \ {n} /\ c \notin Path[n]
      /\ \A d \in Below(n) : d = c
      /\ Current(n) = c
      /\ n # "engine" /\ n \in Path[n]
  BY RateFacts
<1>2. /\ at = n /\ ret \in Answers /\ Return(n, st, ret)
      /\ index' = index /\ count' = count /\ i' = i /\ skipped' = skipped
      /\ recoveries' = recoveries /\ passed' = passed
      /\ unlucky' = unlucky /\ running' = running /\ first_time_' = first_time_
  BY <1>1 DEF RateReturns, members, locals, history, TypeInv
<1>3. /\ st \in [Node -> Statuses] /\ st[c] = IF status[c] = "RUNNING" THEN "RUNNING" ELSE "IDLE"
      /\ \A x \in Node \ {c} : st[x] = status[x]
  BY <1>1 DEF TypeInv, Statuses
<1> HIDE DEF st
<1>4. /\ status' \in [Node -> Statuses] /\ at' = Parent(n) /\ ret' = ret
      /\ \A x \in Node \ {n} : status'[x] = st[x]
      /\ status'[n] = IF ret = "SKIPPED" THEN status[n] ELSE ret
  BY <1>1, <1>2, <1>3, ReturnStatus
<1> HIDE DEF c
<1>5. status[n] = "RUNNING"
  BY <1>1, <1>2 DEF RateInv, Working, Entered, Answers
<1>6. ret # "SKIPPED" => status[c] = ret
  BY <1>1, <1>2 DEF TreeInv, CallInv, Answers
<1>7. Moves(n) /\ Returns(n)
  <2>1. ASSUME NEW p \in Node \ {n} PROVE Apart(n, p)
    <3>1. CASE p = c
      BY <1>1, <1>2, <1>3, <1>4, <3>1 DEF Apart, Spared, WasDone
    <3>2. CASE p # c
      BY <1>2, <1>3, <1>4, <3>2 DEF Apart, Spared
    <3> QED BY <3>1, <3>2
  <2>2. \A p \in Node \ {n} : Kept(p)
    BY <1>2 DEF Kept
  <2>3. status'[n] = "RUNNING" \/ \A d \in Below(n) : status'[d] # "RUNNING"
    BY <1>1, <1>3, <1>4, <1>5, <1>6
  <2> QED BY <1>2, <1>4, <2>1, <2>2, <2>3 DEF Moves, Returns, Answers
<1>8. ~Working(n)' /\ at' \in Node \cup {"engine"}
  BY <1>1, <1>7, ReturnRests
<1>9. TypeInv'
  BY <1>1, <1>2, <1>4, <1>8 DEF TypeInv
<1>10. RateInv(n)'
  BY <1>8 DEF RateInv
<1>11. ChildrenInv(n)'
  BY <1>1, <1>3, <1>4 DEF ChildrenInv, Settled, Idling
<1> QED BY <1>1, <1>7, <1>9, <1>10, <1>11, MovesKeep DEF NodeInv

-----------------------------------------------------------------------------
(* Leaves.                                                                 *)
LEMMA LeafFacts ==
  ASSUME TreeInv, NEW n \in OfKind("leaf")
  PROVE  n \in Node /\ Kind[n] = "leaf" /\ Below(n) = {} /\ TypeInv /\ n # "engine"
<1>1. n \in Node /\ Kind[n] = "leaf" /\ Children[n] = <<>> /\ n # "engine"
  BY TreeAssumption DEF OfKind
<1>2. Len(Children[n]) = 0
  BY <1>1
<1>3. Below(n) = {}
  BY <1>1, <1>2, BelowDef
<1> QED BY <1>1, <1>3 DEF TreeInv

LEMMA LeafTickKeeps ==
  ASSUME TreeInv, NEW n \in OfKind("leaf"), LeafTick(n)
  PROVE  TreeInv'
<1>1. n \in Node /\ Kind[n] = "leaf" /\ Below(n) = {} /\ TypeInv /\ n # "engine"
  BY LeafFacts
<1>2. /\ at = n
      /\ index' = index /\ count' = count /\ i' = i /\ skipped' = skipped
      /\ recoveries' = recoveries /\ passed' = passed
      /\ unlucky' = unlucky /\ running' = running /\ first_time_' = first_time_
  BY DEF LeafTick, Entered, members, locals, history
<1>3. /\ status' \in [Node -> Statuses] /\ at' = Parent(n) /\ ret' \in Answers
      /\ \A x \in Node \ {n} : status'[x] = status[x]
      /\ IF ret' = "SKIPPED" THEN status'[n] = "IDLE" ELSE status'[n] = ret'
  <2>1. CASE \E s \in {"SUCCESS", "FAILURE", "RUNNING"} : Return(n, status, s)
    <3>1. PICK s \in {"SUCCESS", "FAILURE", "RUNNING"} : Return(n, status, s)
      BY <2>1
    <3>2. s \in Answers /\ s # "SKIPPED" /\ status \in [Node -> Statuses]
      BY <1>1 DEF Answers, TypeInv
    <3>3. /\ status' \in [Node -> Statuses] /\ at' = Parent(n) /\ ret' = s
          /\ \A x \in Node \ {n} : status'[x] = status[x]
          /\ status'[n] = IF s = "SKIPPED" THEN status[n] ELSE s
      BY <1>1, <3>1, <3>2, ReturnStatus
    <3> QED BY <3>2, <3>3
  <2>2. CASE Return(n, [status EXCEPT ![n] = "IDLE"], "SKIPPED")
    <3> DEFINE st == [status EXCEPT ![n] = "IDLE"]
    <3>1. /\ st \in [Node -> Statuses] /\ st[n] = "IDLE"
          /\ \A x \in Node \ {n} : st[x] = status[x]
      BY <1>1 DEF TypeInv, Statuses
    <3> HIDE DEF st
    <3>2. Return(n, st, "SKIPPED") /\ "SKIPPED" \in Answers
      BY <2>2 DEF st, Answers
    <3> QED BY <1>1, <3>1, <3>2, ReturnStatus
  <2> QED BY <2>1, <2>2 DEF LeafTick
<1>4. Moves(n) /\ Returns(n)
  <2>1. \A p \in Node \ {n} : Apart(n, p)
    BY <1>1, <1>2, <1>3, LeavesApart DEF Leaves, Spared
  <2>2. \A p \in Node \ {n} : Kept(p)
    BY <1>2 DEF Kept
  <2> QED BY <1>1, <1>2, <1>3, <2>1, <2>2 DEF Moves, Returns, Idling
<1>5. TypeInv'
  BY <1>1, <1>2, <1>3, ParentAny DEF TypeInv
<1> QED BY <1>1, <1>4, <1>5, MovesKeep DEF NodeInv, ChildrenInv

(* An exception leaves the statuses as they are, and the run ends.         *)
LEMMA LeafThrowsKeeps ==
  ASSUME TreeInv, NEW n \in OfKind("leaf"), LeafThrows(n)
  PROVE  TreeInv'
<1>1. n \in Node /\ TypeInv /\ n # "engine"
  BY LeafFacts
<1>2. /\ at = n /\ ret = "none" /\ at' = "engine" /\ ret' = "EXCEPTION"
      /\ status' = status /\ index' = index /\ count' = count
      /\ i' = [m \in Node |-> 0] /\ skipped' = [m \in Node |-> 0]
      /\ recoveries' = recoveries /\ passed' = passed
      /\ unlucky' = unlucky /\ running' = running /\ first_time_' = first_time_
  BY DEF LeafThrows, Entered, members, history
<1>3. running
  BY <1>1, <1>2 DEF TreeInv, FreshInv
<1>4. TypeInv'
  BY <1>1, <1>2, <1>3 DEF TypeInv
<1>5. ASSUME NEW p \in Node PROVE NodeInv(p)'
  <2>1. ~Working(p)' /\ i'[p] = 0 /\ skipped'[p] = 0
    BY <1>2 DEF Working
  <2>2. NodeInv(p)
    BY DEF TreeInv
  <2>3. Len(Children[p]) \in Nat /\ index[p] \in Nat /\ count[p] \in Nat /\ skipped[p] \in Nat
    BY <1>1, BelowDef DEF TypeInv
  <2>4. ASSUME Kind[p] = "pipeline" PROVE PipelineInv(p)'
    <3>1. PipelineInv(p) /\ Len(Children[p]) > 0
      BY <2>2, <2>4, TreeAssumption DEF NodeInv, OfKind
    <3> QED BY <1>2, <2>1, <2>3, <3>1 DEF PipelineInv
  <2>5. ASSUME Kind[p] = "recovery" PROVE RecoveryInv(p)'
    <3>1. RecoveryInv(p)
      BY <2>2, <2>5 DEF NodeInv
    <3> QED BY <1>2, <2>1, <3>1 DEF RecoveryInv
  <2>6. ASSUME Kind[p] = "robin" PROVE RobinInv(p)'
    <3>1. RobinInv(p)
      BY <2>2, <2>6 DEF NodeInv
    <3>2. \A j \in 1 .. (count'[p] + skipped'[p]) : j \in 1 .. (count[p] + skipped[p])
      BY <1>2, <2>1, <2>3
    <3>3. \A j \in 1 .. (count'[p] + skipped'[p]) : Back(p, j)' + 1 \in passed'[p]
      <4> SUFFICES ASSUME NEW j \in 1 .. (count'[p] + skipped'[p])
                   PROVE  Back(p, j)' + 1 \in passed'[p]
        OBVIOUS
      <4>1. Back(p, j) + 1 \in passed[p]
        BY <3>1, <3>2 DEF RobinInv
      <4>2. Back(p, j)' = Back(p, j)
        BY <1>2 DEF Back
      <4> QED BY <1>2, <4>1, <4>2
    <3>4. count'[p] + skipped'[p] < Len(Children[p])
      BY <1>2, <2>1, <2>3, <3>1 DEF RobinInv
    <3> QED BY <1>2, <2>1, <3>1, <3>3, <3>4 DEF RobinInv
  <2>7. RateInv(p)'
    BY <2>1 DEF RateInv
  <2> QED BY <2>4, <2>5, <2>6, <2>7 DEF NodeInv
<1> QED BY <1>2, <1>4, <1>5 DEF TreeInv, CallInv, RunInv, FreshInv

-----------------------------------------------------------------------------
(* The engine.  Nothing works between two ticks or as a tick starts.       *)
LEMMA NothingWorks ==
  ASSUME at = "engine" \/ (at = Root /\ ret = "none"), NEW p \in Node
  PROVE  ~Working(p)
  BY PathRoot DEF Working, Entered

LEMMA NodeInvSame ==
  ASSUME NEW p \in Node, NodeInv(p), Working(p)' <=> Working(p),
         UNCHANGED <<status, index, count, i, skipped, recoveries, passed, unlucky>>
  PROVE  NodeInv(p)'
  BY DEF NodeInv, PipelineInv, RecoveryInv, RobinInv, RateInv, Back

(* A halted tree.                                                          *)
Halt ==
  /\ TypeInv /\ at = "engine" /\ ret = "none"
  /\ status = [n \in Node |-> "IDLE"]
  /\ index = [n \in Node |-> 0] /\ count = [n \in Node |-> 0]
  /\ \A p \in Node :
       /\ Kind[p] = "pipeline" => i[p] = 0
       /\ Kind[p] = "recovery" => recoveries[p] <= number_of_retries_[p]
       /\ Kind[p] = "robin" => skipped[p] = 0 /\ passed[p] \subseteq 1 .. Len(Children[p])

LEMMA HaltInv == Halt => TreeInv
<1> SUFFICES ASSUME Halt PROVE TreeInv
  OBVIOUS
<1> USE DEF Halt
<1>1. ASSUME NEW p \in Node PROVE NodeInv(p)
  <2>1. /\ ~Working(p) /\ status[p] = "IDLE" /\ index[p] = 0 /\ count[p] = 0
        /\ Len(Children[p]) \in Nat
    BY NothingWorks, BelowDef
  <2>2. ASSUME Kind[p] = "pipeline" PROVE PipelineInv(p)
    <3>1. Len(Children[p]) > 0
      BY <2>2, TreeAssumption DEF OfKind
    <3>2. i[p] = 0
      BY <2>2
    <3> QED BY <2>1, <3>1, <3>2 DEF PipelineInv
  <2>3. ASSUME Kind[p] = "recovery" PROVE RecoveryInv(p)
    <3>1. number_of_retries_[p] \in Nat
      BY <2>3, TreeAssumption DEF OfKind
    <3> QED BY <2>1, <2>3, <3>1 DEF RecoveryInv
  <2>4. ASSUME Kind[p] = "robin" PROVE RobinInv(p)
    <3>1. Len(Children[p]) > 0
      BY <2>4, TreeAssumption DEF OfKind
    <3>0. skipped[p] = 0
      BY <2>4
    <3>2. 1 .. (count[p] + skipped[p]) = {}
      BY <2>1, <3>0
    <3>3. \A j \in 1 .. (count[p] + skipped[p]) : Back(p, j) + 1 \in passed[p]
      BY <3>2, Zenon
    <3>4. count[p] + skipped[p] < Len(Children[p])
      BY <2>1, <3>0, <3>1
    <3> QED BY <2>1, <2>4, <3>0, <3>1, <3>3, <3>4 DEF RobinInv
  <2>5. RateInv(p)
    BY <2>1 DEF RateInv
  <2> QED BY <2>2, <2>3, <2>4, <2>5 DEF NodeInv
<1>2. \A n \in Node : \A c \in Below(n) : status[c] = "IDLE"
  BY BelowDef
<1>3. CallInv /\ RunInv
  BY <1>2 DEF CallInv, RunInv
<1>4. FreshInv
  BY <1>2, TreeAssumption DEF FreshInv, Settled, Idling
<1> QED BY <1>1, <1>3, <1>4 DEF TreeInv

LEMMA HaltInvNext == Halt' => TreeInv'
  BY HaltInv, PTL

LEMMA InitInv == Init => TreeInv
<1> SUFFICES ASSUME Init PROVE Halt
  BY HaltInv
<1>1. TypeInv
  BY DEF Init, TypeInv, Statuses
<1>2. \A p \in Node :
        /\ i[p] = 0 /\ skipped[p] = 0 /\ passed[p] = {}
        /\ Kind[p] = "recovery" => recoveries[p] <= number_of_retries_[p]
  BY TreeAssumption DEF Init, OfKind
<1> QED BY <1>1, <1>2 DEF Init, Halt

LEMMA RunEndsKeeps ==
  ASSUME TreeInv, RunEnds
  PROVE  TreeInv'
<1>1. /\ at' = "engine" /\ ret' = "none" /\ at = "engine"
      /\ status' = [n \in Node |-> "IDLE"]
      /\ index' = [n \in Node |-> 0] /\ count' = [n \in Node |-> 0]
      /\ running' = FALSE /\ unlucky' = {}
      /\ first_time_' = first_time_ /\ i' = i /\ skipped' = skipped
      /\ recoveries' = recoveries /\ passed' = passed
  BY DEF RunEnds, haltTree, locals
<1>2. TypeInv'
  BY <1>1 DEF TreeInv, TypeInv, Statuses
<1>3. ASSUME NEW p \in Node
      PROVE  /\ Kind[p] = "recovery" => recoveries[p] <= number_of_retries_[p]
             /\ Kind[p] = "robin" => passed[p] \subseteq 1 .. Len(Children[p])
             /\ Kind[p] = "robin" => skipped[p] = 0
             /\ Kind[p] = "pipeline" => i[p] = 0
  <2>1. ~Working(p) /\ NodeInv(p)
    BY <1>1, NothingWorks DEF TreeInv
  <2> QED BY <2>1 DEF NodeInv, RecoveryInv, RobinInv, PipelineInv
<1>4. Halt'
  BY <1>1, <1>2, <1>3 DEF Halt
<1> QED BY <1>4, HaltInvNext

LEMMA EngineKeeps ==
  ASSUME TreeInv, NewGoal \/ TickOnce
  PROVE  TreeInv'
<1>1. /\ at = "engine" /\ ret # "EXCEPTION" /\ (at' = "engine" \/ (at' = Root /\ ret' = "none"))
      /\ ret' \in {"none", "RUNNING"} /\ running' /\ ret \in {"none", "RUNNING"}
      /\ UNCHANGED <<status, index, count, first_time_, i, skipped, recoveries, passed, unlucky>>
  <2>1. CASE NewGoal
    BY <2>1 DEF NewGoal, TreeInv, TypeInv, FreshInv, members, locals, history, Answers
  <2>2. CASE TickOnce
    BY <2>2 DEF TickOnce, Call, members, locals, history
  <2> QED BY <2>1, <2>2
<1>2. \A p \in Node : ~Working(p) /\ ~Working(p)'
  BY <1>1, PathRoot DEF Working, Entered
<1>3. TypeInv'
  BY <1>1, TreeAssumption DEF TreeInv, TypeInv, Answers
<1>4. \A p \in Node : NodeInv(p)'
  BY <1>1, <1>2, NodeInvSame DEF TreeInv
<1>5. CallInv'
  <2> SUFFICES ASSUME at' = Root, ret' = "none" PROVE CallInv'
    BY <1>1 DEF CallInv
  <2> QED BY PathRoot, BelowDef DEF CallInv
<1>6. RunInv'
  BY <1>1, <1>2 DEF TreeInv, RunInv
<1>7. FreshInv'
  <2>1. ASSUME NEW n \in Node, NEW c \in Below(n) PROVE Settled(n, c)'
    <3>1. Settled(n, c) /\ n # "engine"
      BY <1>1, TreeAssumption DEF TreeInv, FreshInv
    <3> QED BY <1>1, <1>2, <3>1 DEF Settled
  <2>2. status'[Root] \in Idling
    BY <1>1 DEF TreeInv, FreshInv
  <2> QED BY <1>1, <2>1, <2>2 DEF FreshInv
<1> QED BY <1>3, <1>4, <1>5, <1>6, <1>7 DEF TreeInv

LEMMA NextInv == TreeInv /\ [Next]_vars => TreeInv'
<1> SUFFICES ASSUME TreeInv, [Next]_vars PROVE TreeInv'
  OBVIOUS
<1>1. CASE NewGoal \/ TickOnce
  BY <1>1, EngineKeeps
<1>2. CASE RunEnds
  BY <1>2, RunEndsKeeps
<1>3. CASE \E n \in OfKind("recovery") : Recovery(n)
  BY <1>3, RecoveryKeeps
<1>4. CASE \E n \in OfKind("pipeline") : Pipeline(n)
  BY <1>4, PipelineKeeps
<1>5. CASE \E n \in OfKind("robin") : Robin(n)
  BY <1>5, RobinKeeps
<1>6. CASE \E n \in OfKind("rate") : Rate(n)
  BY <1>6, RateTickKeeps, RateReturnsKeeps DEF Rate
<1>7. CASE \E n \in OfKind("leaf") : Leaf(n)
  BY <1>7, LeafTickKeeps, LeafThrowsKeeps DEF Leaf
<1>8. CASE UNCHANGED vars
  BY <1>8 DEF vars, members, locals, history, TreeInv, TypeInv, NodeInv, PipelineInv,
     RecoveryInv, RobinInv, RateInv, Back, CallInv, RunInv, FreshInv, Settled, Working,
     Entered, Current, Place
<1> QED BY <1>1, <1>2, <1>3, <1>4, <1>5, <1>6, <1>7, <1>8 DEF Next, Step

LEMMA AlwaysTreeInv == Spec => []TreeInv
  BY InitInv, NextInv, PTL DEF Spec

-----------------------------------------------------------------------------
(* The child of n that is being ticked is the present one.                 *)
LEMMA TickedIsCurrent ==
  ASSUME TreeInv, NEW n \in Node, NEW k \in 1 .. Len(Children[n]), at = Children[n][k]
  PROVE  Children[n][k] = Current(n)
<1>1. Children[n][k] \in Below(n) /\ Children[n][k] \in Node
  BY ChildPlace
<1>2. at # "engine" /\ Children[n][k] \in Path[at]
  BY <1>1, PathIn, TreeAssumption
<1> QED BY <1>1, <1>2 DEF TreeInv, CallInv

(* PipelineSequence::tick ticks a child only after all children before it  *)
(* have succeeded or been skipped in the same activation, in every tree.   *)
THEOREM PipelineOrdered == Spec => []PipelineInOrder
<1>1. TreeInv => PipelineInOrder
  <2> SUFFICES ASSUME TreeInv, NEW p \in OfKind("pipeline"),
                      NEW k \in 1 .. Len(Children[p]), at = Children[p][k]
               PROVE  1 .. (k - 1) \subseteq passed[p]
    BY DEF PipelineInOrder
  <2>1. /\ p \in Node /\ Kind[p] = "pipeline" /\ PipelineInv(p)
        /\ Len(Children[p]) \in Nat /\ i[p] \in Nat
    BY PipelineFacts
  <2>2. Children[p][k] = Children[p][i[p] + 1]
    BY <2>1, TickedIsCurrent DEF Current, Place
  <2>3. i[p] + 1 \in 1 .. Len(Children[p])
    BY <2>1 DEF PipelineInv
  <2>4. k = i[p] + 1
    BY <2>1, <2>2, <2>3, OnePlace
  <2>5. k - 1 = i[p]
    BY <2>1, <2>4
  <2> QED BY <2>1, <2>5 DEF PipelineInv
<1> QED BY <1>1, AlwaysTreeInv, PTL

(* Between two ticks of BehaviorTreeEngine::run a node runs only below a   *)
(* running node, whatever was halted, reset or skipped before: haltTree    *)
(* reaches every running action.                                           *)
THEOREM HaltReachesAll == Spec => []NothingRunsAlone
<1>1. TreeInv => NothingRunsAlone
  <2> SUFFICES ASSUME TreeInv, at = "engine", ret # "EXCEPTION",
                      NEW n \in Node \ {Root}, status[n] = "RUNNING"
               PROVE  status[Parent(n)] = "RUNNING"
    BY DEF NothingRunsAlone
  <2>1. Parent(n) \in Node /\ n \in Below(Parent(n))
    BY ParentType
  <2>2. status[Parent(n)] = "RUNNING" \/ Working(Parent(n))
    BY <2>1 DEF TreeInv, RunInv
  <2> QED BY <2>2 DEF Working
<1> QED BY <1>1, AlwaysTreeInv, PTL

-----------------------------------------------------------------------------
(* A step is that of the node that is ticked.                              *)
LEMMA StepOfNode ==
  ASSUME Next, NEW n \in Node, at = n
  PROVE  /\ Kind[n] = "recovery" => Recovery(n)
         /\ Kind[n] = "robin" => Robin(n)
<1>0. at # "engine"
  BY TreeAssumption
<1>1. CASE NewGoal \/ TickOnce \/ RunEnds
  BY <1>0, <1>1 DEF NewGoal, TickOnce, RunEnds
<1>2. CASE \E m \in OfKind("recovery") : Recovery(m)
  <2>1. PICK m \in OfKind("recovery") : Recovery(m)
    BY <1>2
  <2>2. at = m
    BY <2>1 DEF Recovery, RecoveryTick, RecoveryDone, RecoveryRunning, StartRecovery, GiveUp,
       RecoverySkipped, RecoverySucceeded, Helped, Entered, Returned
  <2> QED BY <2>1, <2>2 DEF OfKind
<1>3. CASE \E m \in OfKind("pipeline") : Pipeline(m)
  <2>1. PICK m \in OfKind("pipeline") : Pipeline(m)
    BY <1>3
  <2>2. at = m
    BY <2>1 DEF Pipeline, PipelineTick, PipelineFails, PipelineRunning, PipelineGoesOn,
       PipelineDone, Passes, Entered, Returned
  <2> QED BY <2>1, <2>2 DEF OfKind
<1>4. CASE \E m \in OfKind("robin") : Robin(m)
  <2>1. PICK m \in OfKind("robin") : Robin(m)
    BY <1>4
  <2>2. at = m
    BY <2>1 DEF Robin, RobinTick, RobinRunning, RobinSucceeds, RobinTriesNext, RobinFails,
       Entered, Returned
  <2> QED BY <2>1, <2>2 DEF OfKind
<1>5. CASE \E m \in OfKind("rate") : Rate(m)
  <2>1. PICK m \in OfKind("rate") : Rate(m)
    BY <1>5
  <2>2. at = m
    BY <2>1 DEF Rate, RateTick, RateReturns, Entered
  <2> QED BY <2>1, <2>2 DEF OfKind
<1>6. CASE \E m \in OfKind("leaf") : Leaf(m)
  <2>1. PICK m \in OfKind("leaf") : Leaf(m)
    BY <1>6
  <2>2. at = m
    BY <2>1 DEF Leaf, LeafTick, LeafThrows, Entered
  <2> QED BY <2>1, <2>2 DEF OfKind
<1> QED BY <1>1, <1>2, <1>3, <1>4, <1>5, <1>6 DEF Next, Step

LEMMA ParentNotBelow ==
  ASSUME NEW n \in Node
  PROVE  Parent(n) \notin Below(n) /\ Parent(n) # n
<1>1. CASE n = Root
  BY <1>1, BelowDef, TreeAssumption DEF Parent
<1>2. CASE n # Root
  <2>1. Parent(n) \in Node /\ n \in Below(Parent(n)) /\ Path[n] = {n} \cup Path[Parent(n)]
    BY <1>2, ParentType, PathStep
  <2>2. Parent(n) \in Path[n] /\ Parent(n) # n
    BY <2>1, PathIn, PathBelow
  <2> QED BY <2>2, PathBelow
<1> QED BY <1>1, <1>2

(* RecoveryNode::tick makes at most number_of_retries_ recoveries in an    *)
(* activation, and gives up on its first child only after that many,       *)
(* unless a recovery was skipped in this run, for every number of retries. *)
THEOREM RetriesCounted == Spec => RetriesExact
<1> DEFINE A == \A n \in OfKind("recovery") :
                  /\ recoveries'[n] <= number_of_retries_[n]
                  /\ n \notin unlucky /\ index[n] = 0 /\ Returned(n, "FAILURE") /\ at' = Parent(n)
                       => recoveries[n] = number_of_retries_[n]
<1>1. ASSUME TreeInv, TreeInv', [Next]_vars PROVE [A]_vars
  <2> SUFFICES ASSUME Next, NEW n \in OfKind("recovery")
               PROVE  /\ recoveries'[n] <= number_of_retries_[n]
                      /\ n \notin unlucky /\ index[n] = 0 /\ Returned(n, "FAILURE")
                           /\ at' = Parent(n)
                           => recoveries[n] = number_of_retries_[n]
    BY <1>1
  <2>1. /\ n \in Node /\ Kind[n] = "recovery" /\ RecoveryInv(n) /\ TypeInv
        /\ number_of_retries_[n] \in Nat /\ Children[n][2] \in Below(n)
    BY <1>1, RecoveryFacts
  <2>2. recoveries'[n] <= number_of_retries_[n]
    BY <1>1, <2>1 DEF TreeInv, NodeInv, RecoveryInv
  <2>3. ASSUME n \notin unlucky, index[n] = 0, Returned(n, "FAILURE"), at' = Parent(n)
        PROVE  recoveries[n] = number_of_retries_[n]
    <3>1. at = n /\ ret = "FAILURE" /\ Parent(n) \notin Below(n)
      BY <2>1, <2>3, ParentNotBelow DEF Returned
    <3>2. Recovery(n)
      BY <2>1, <3>1, StepOfNode
    <3>3. ~MayRetry(n)
      BY <2>1, <2>3, <3>1, <3>2 DEF Recovery, RecoveryTick, RecoveryDone, RecoveryRunning,
         StartRecovery, GiveUp, RecoverySkipped, RecoverySucceeded, Helped, Entered, Returned, Call
    <3>4. status[n] = "RUNNING"
      BY <2>1, <3>1, PathIn, TreeAssumption DEF RecoveryInv, Working, Entered
    <3>5. count[n] = recoveries[n] /\ count[n] <= number_of_retries_[n] /\ count[n] \in Nat
      BY <2>1, <2>3, <3>4 DEF RecoveryInv, TypeInv
    <3> QED BY <2>1, <3>3, <3>5 DEF MayRetry
  <2> QED BY <2>2, <2>3
<1>2. RetriesExact <=> [][A]_vars
  BY DEF RetriesExact
<1> HIDE DEF A
<1> QED BY <1>1, <1>2, AlwaysTreeInv, PTL DEF Spec

(* Every place but the present is some steps back, round the end.          *)
LEMMA RoundBack ==
  ASSUME NEW m \in Nat \ {0}, NEW y \in 0 .. (m - 1), NEW k \in 1 .. m, k # y + 1
  PROVE  \E j \in 1 .. (m - 1) : (IF j <= y THEN y - j ELSE (y + m) - j) + 1 = k
<1>1. CASE k <= y
  <2>1. (y + 1) - k \in 1 .. (m - 1) /\ (y + 1) - k <= y /\ (y - ((y + 1) - k)) + 1 = k
    BY <1>1
  <2> QED BY <2>1
<1>2. CASE k > y
  <2>1. /\ (y + 1 + m) - k \in 1 .. (m - 1) /\ ~((y + 1 + m) - k <= y)
        /\ ((y + m) - ((y + 1 + m) - k)) + 1 = k
    BY <1>2
  <2> QED BY <2>1
<1> QED BY <1>1, <1>2

(* RoundRobin::tick returns FAILURE only when each of its children has     *)
(* failed or been skipped in this activation, whichever it started with    *)
(* and however many it has.                                                *)
THEOREM RobinFailsLast == Spec => RobinTriesAll
<1> DEFINE A == \A n \in OfKind("robin") :
                  at = n /\ at' = Parent(n) /\ ret' = "FAILURE"
                    => passed'[n] = 1 .. Len(Children[n])
<1>1. ASSUME TreeInv, [Next]_vars PROVE [A]_vars
  <2> SUFFICES ASSUME Next, NEW n \in OfKind("robin"), at = n, at' = Parent(n), ret' = "FAILURE"
               PROVE  passed'[n] = 1 .. Len(Children[n])
    BY <1>1
  <2> DEFINE L == Len(Children[n])
             x == index[n]
  <2>1. /\ n \in Node /\ Kind[n] = "robin" /\ RobinInv(n) /\ TypeInv
        /\ L \in Nat \ {0} /\ x \in Nat /\ count[n] \in Nat /\ skipped[n] \in Nat
        /\ \A k \in 1 .. L : Children[n][k] \in Below(n)
        /\ Following(n) \in 0 .. (L - 1) /\ x < L
    BY <1>1, RobinFacts
  <2>2. Parent(n) \notin Below(n) /\ Robin(n)
    BY <2>1, ParentNotBelow, StepOfNode
  <2>3. RobinFails(n)
    <3>1. ~RobinTick(n)
      <4>1. count[n] < L
        BY <2>1 DEF RobinInv
      <4> QED BY <4>1 DEF RobinTick, Call
    <3>2. ~RobinRunning(n) /\ ~RobinSucceeds(n)
      BY DEF RobinRunning, RobinSucceeds, Return
    <3>3. ~RobinTriesNext(n)
      BY DEF RobinTriesNext, Call
    <3> QED BY <2>2, <3>1, <3>2, <3>3 DEF Robin
  <2>4. passed'[n] = passed[n] \cup {x + 1} /\ OutOfChildren(n) /\ ret \in {"FAILURE", "SKIPPED"}
    BY <2>1, <2>3 DEF RobinFails, TypeInv
  <2>5. count[n] + skipped[n] = L - 1
    <3>1. Failures(n) + Skips(n) = count[n] + skipped[n] + 1
      BY <1>1, <2>4, RobinTried
    <3>2. count[n] + skipped[n] < L /\ Failures(n) + Skips(n) >= L
      BY <2>1, <2>4 DEF RobinInv, OutOfChildren
    <3>3. ASSUME NEW a \in Nat, NEW b \in Nat, NEW m \in Nat, NEW y,
                 y = a + b + 1, a + b < m, y >= m
          PROVE  a + b = m - 1
      BY <3>3
    <3> HIDE DEF L
    <3> QED BY <2>1, <3>1, <3>2, <3>3
  <2>6. ASSUME NEW k \in 1 .. L PROVE k \in passed'[n]
    <3>1. CASE k = x + 1
      BY <2>4, <3>1
    <3>2. CASE k # x + 1
      <4>0. x \in 0 .. (L - 1)
        <5> HIDE DEF L, x
        <5> QED BY <2>1
      <4>1. PICK j \in 1 .. (L - 1) : (IF j <= x THEN x - j ELSE (x + L) - j) + 1 = k
        <5> HIDE DEF L, x
        <5> QED BY <2>1, <3>2, <4>0, RoundBack
      <4>2. Back(n, j) + 1 = k
        BY <4>1 DEF Back
      <4>3. j \in 1 .. (count[n] + skipped[n])
        BY <2>5, <4>1
      <4> QED BY <2>1, <2>4, <4>2, <4>3 DEF RobinInv
    <3> QED BY <3>1, <3>2
  <2>7. passed'[n] \subseteq 1 .. L
    <3>1. passed[n] \subseteq 1 .. L
      BY <2>1 DEF RobinInv
    <3>2. x + 1 \in 1 .. L
      <4> HIDE DEF L, x
      <4> QED BY <2>1
    <3> QED BY <2>4, <3>1, <3>2
  <2> QED BY <2>6, <2>7
<1>2. RobinTriesAll <=> [][A]_vars
  BY DEF RobinTriesAll
<1> HIDE DEF A
<1> QED BY <1>1, <1>2, AlwaysTreeInv, PTL DEF Spec

-----------------------------------------------------------------------------
(* The children of a pipeline but the last are no leaves: it ticks them    *)
(* again with the status of the last tick.                                 *)
LeavesLast ==
  \A p \in OfKind("pipeline") : \A k \in 1 .. (Len(Children[p]) - 1) :
    Kind[Children[p][k]] # "leaf"

(* BtActionNode::tick is never called with the outcome of an earlier       *)
(* activation, but by a RoundRobin that comes round to a child it has      *)
(* passed, in every tree whose pipelines have actions in their last place  *)
(* only, like the one that navigates to a pose.                            *)
THEOREM ActionsTickedFresh ==
  ASSUME LeavesLast
  PROVE  Spec => []TickedFresh
<1>1. TreeInv => TickedFresh
  <2> SUFFICES ASSUME TreeInv, NEW n \in OfKind("leaf"), at = n, ret = "none",
                      status[n] \notin Idling
               PROVE  Kind[Parent(n)] = "robin" /\ index[Parent(n)] + 1 \in passed[Parent(n)]
    BY DEF TickedFresh, Entered, Idling
  <2> DEFINE p == Parent(n)
  <2>1. n \in Node /\ Kind[n] = "leaf" /\ n # "engine" /\ n # Root
    BY LeafFacts DEF TreeInv, FreshInv
  <2>2. p \in Node /\ n \in Below(p)
    BY <2>1, ParentType
  <2>3. n # p
    BY <2>1, <2>2, PathBelow
  <2> HIDE DEF p
  <2>4. Settled(p, n)
    BY <2>2 DEF TreeInv, FreshInv
  <2>5. PICK k \in 1 .. Len(Children[p]) : n = Children[p][k]
    BY <2>2, BelowDef
  <2>6. CASE Kind[p] = "pipeline" /\ n # Children[p][Len(Children[p])]
    <3>1. Len(Children[p]) \in Nat /\ k # Len(Children[p]) /\ p \in OfKind("pipeline")
      BY <2>2, <2>5, <2>6, BelowDef DEF OfKind
    <3>2. k \in 1 .. (Len(Children[p]) - 1)
      BY <3>1
    <3> QED BY <2>1, <2>5, <3>1, <3>2 DEF LeavesLast
  <2>7. CASE Kind[p] = "robin" /\ \E j \in passed[p] : n = Children[p][j]
    <3>1. PICK j \in passed[p] : n = Children[p][j]
      BY <2>7
    <3>2. p \in OfKind("robin")
      BY <2>2, <2>7 DEF OfKind
    <3>3. RobinInv(p) /\ index[p] \in Nat /\ Len(Children[p]) \in Nat
      BY <3>2, RobinFacts
    <3>4. j \in 1 .. Len(Children[p]) /\ index[p] + 1 \in 1 .. Len(Children[p])
      BY <3>3 DEF RobinInv
    <3>5. Children[p][k] = Current(p)
      BY <2>2, <2>5, TickedIsCurrent
    <3>6. Children[p][j] = Children[p][index[p] + 1]
      BY <2>5, <2>7, <3>1, <3>5 DEF Current, Place
    <3>7. j = index[p] + 1
      BY <2>2, <3>4, <3>6, OnePlace
    <3> QED BY <2>7, <3>7 DEF p
  <2> QED BY <2>3, <2>4, <2>6, <2>7 DEF Settled
<1> QED BY <1>1, AlwaysTreeInv, PTL
=============================================================================
