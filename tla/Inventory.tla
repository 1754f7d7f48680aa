------------------------------- MODULE Inventory -------------------------------
(***************************************************************************)
(* The checks of an inventory that look at more than one node: node ids    *)
(* that occur twice, and bastions, which must exist and must not lead back *)
(* to where a chain began.  The walk along a chain is modelled step by     *)
(* step.                                                                   *)
(*                                                                         *)
(* Abstractions.  Whatever is wrong with a node by itself (its schema, its *)
(* credential reference) is one flag of the list, and of a problem only    *)
(* its kind is kept and, of a cycle, the nodes that are named.             *)
(***************************************************************************)
EXTENDS Naturals, Sequences

CONSTANTS Id,         \* node ids
          NoBastion,  \* the node is reached directly
          MaxNodes    \* bound: length of the list

ASSUME InventoryAssumption ==
  NoBastion \notin Id /\ MaxNodes \in Nat \ {0}

VARIABLES
  nodes,     \* the list of the file
  flawed,    \* is something wrong with one of them by itself?
  problems,  \* kinds of the problems found
  cycles,    \* the chains that were reported as cycles
  phase,
  place,         \* place in the list of the node that is looked at
  path,      \* find_cycle: the nodes of the chain so far
  cur        \* find_cycle: the node it goes on with

inventoryVars == <<nodes, flawed, problems, cycles, phase, place, path, cur>>

Node == [id : Id, bastion : Id \cup {NoBastion}]

Places == 1..Len(nodes)

Ids == {nodes[k].id : k \in Places}

\* by_id: the last entry of an id counts.
EntryOf(id) ==
  nodes[CHOOSE k \in Places :
          nodes[k].id = id /\ \A m \in Places : nodes[m].id = id => m <= k]

Seen == {path[k] : k \in DOMAIN path}

InventoryInit ==
  /\ nodes = <<>>
  /\ flawed = FALSE
  /\ problems = {}
  /\ cycles = {}
  /\ phase = "load"
  /\ place = 1
  /\ path = <<>>
  /\ cur = NoBastion

\* The file is read, and each node looked at by itself.
Load ==
  /\ phase = "load"
  /\ phase' = "ids"
  /\ nodes' \in UNION {[1..n -> Node] : n \in 1..MaxNodes}
  /\ flawed' \in BOOLEAN
  /\ problems' = IF flawed' THEN {"node"} ELSE {}
  /\ UNCHANGED <<cycles, place, path, cur>>

Found(kind, holds) ==
  problems' = problems \cup (IF holds THEN {kind} ELSE {})

\* The loop goes to its next node, or the next loop begins.
Advance(loop) ==
  IF place < Len(nodes) THEN place' = place + 1 /\ UNCHANGED phase
                        ELSE place' = 1 /\ phase' = loop

\* Mutant: an id is compared with its neighbour only.
RepeatedNext(k) == k > 1 /\ nodes[k - 1].id = nodes[k].id

Repeated(k) == \E m \in 1..(k - 1) : nodes[m].id = nodes[k].id

\* The loop over the nodes, with seen_ids.
CheckId ==
  /\ phase = "ids"
  /\ Found("duplicate", Repeated(place))
  /\ Advance("bastions")
  /\ UNCHANGED <<nodes, flawed, cycles, path, cur>>

Dangling(k) == nodes[k].bastion \notin Ids \cup {NoBastion}

\* The first loop of _check_bastions.
CheckBastion ==
  /\ phase = "bastions"
  /\ Found("dangling", Dangling(place))
  /\ Advance("chains")
  /\ UNCHANGED <<nodes, flawed, cycles, path, cur>>

\* The second loop: find_cycle starts at each node.
StartChain ==
  /\ phase = "chains"
  /\ path' = <<>> /\ cur' = nodes[place].id
  /\ phase' = "walk"
  /\ UNCHANGED <<nodes, flawed, problems, cycles, place>>

\* find_cycle returns, with what it found.
Return(found) ==
  /\ cycles' = cycles \cup found
  /\ Found("cycle", found # {})
  /\ path' = <<>> /\ cur' = NoBastion
  /\ IF place < Len(nodes) THEN place' = place + 1 /\ phase' = "chains"
                       ELSE place' = 1 /\ phase' = "decide"
  /\ UNCHANGED <<nodes, flawed>>

\* Mutant: only the way back to the start of the chain ends the walk.
VisitedStart(id) == path # <<>> /\ id = path[1]

\* cur in seen
Visited(id) == id \in Seen

\* Mutant: the node is not added.
WithSame(id) == path

With(id) == Append(path, id)

Follow ==
  /\ phase = "walk"
  /\ cur \in Ids /\ ~Visited(cur)
  /\ LET next == EntryOf(cur).bastion
     IN IF next = NoBastion
        THEN Return({})
        ELSE /\ path' = With(cur) /\ cur' = next
             /\ UNCHANGED <<nodes, flawed, problems, cycles, phase, place>>

\* Mutant: the whole chain is reported.
LoopWhole(id) == Append(path, id)

\* path.index: the chain from its first visit on, closed.
Loop(id) ==
  LET first == CHOOSE k \in DOMAIN path : path[k] = id
  IN Append(SubSeq(path, first, Len(path)), id)

Meet ==
  /\ phase = "walk"
  /\ cur \notin Ids \/ Visited(cur)
  /\ Return(IF Visited(cur) THEN {Loop(cur)} ELSE {})

\* ensure_inventory_valid
Verdict ==
  /\ phase = "decide"
  /\ phase' = IF problems = {} THEN "accepted" ELSE "rejected"
  /\ UNCHANGED <<nodes, flawed, problems, cycles, place, path, cur>>

InventoryNext ==
  \/ Load
  \/ CheckId
  \/ CheckBastion
  \/ StartChain
  \/ Follow
  \/ Meet
  \/ Verdict

InventorySpec == InventoryInit /\ [][InventoryNext]_inventoryVars

------------------------------------------------------------------------------
\* Correctness.

\* The list is one of nodes, and a chain never outgrows it.
InventoryTypeOK ==
  /\ \A k \in Places : nodes[k] \in Node
  /\ flawed \in BOOLEAN
  /\ problems \subseteq {"node", "duplicate", "dangling", "cycle"}
  /\ phase \in {"load", "ids", "bastions", "chains", "walk", "decide",
               "accepted", "rejected"}
  /\ place \in 1..(Len(nodes) + 1)
  /\ Seen \subseteq Ids /\ Len(path) <= Len(nodes)
  /\ cur \in Id \cup {NoBastion}

\* A node that has a bastion is reached by way of nodes that have one each.
Endless == \E S \in (SUBSET Places) \ {{}} :
             \A k \in S : \E m \in S : nodes[m].id = nodes[k].bastion

\* "bastion references must point to an existing node and must not form a
\* cycle": in an accepted inventory every chain of bastions ends at a node that
\* is reached directly, whatever the order of the list; and what is rejected
\* has a flaw.
VerdictRight ==
  LET sound ==
        /\ ~flawed
        /\ \A k, m \in Places : nodes[k].id = nodes[m].id => k = m
        /\ \A k \in Places : nodes[k].bastion \in Ids \cup {NoBastion}
        /\ ~Endless
  IN /\ phase = "accepted" => sound
     /\ phase = "rejected" => ~sound

\* A chain that is reported as a cycle is one: each node has the next one as
\* its bastion, it ends where it begins, and passes through no other node twice.
ReportedCyclesAreCycles ==
  \A c \in cycles :
    /\ Len(c) > 1 /\ c[1] = c[Len(c)]
    /\ \A k \in 1..(Len(c) - 1) :
         /\ \E m \in Places : nodes[m] = [id |-> c[k], bastion |-> c[k + 1]]
         /\ \A m \in 1..(Len(c) - 1) : c[k] = c[m] => k = m

\* How far the check has come: the loop, the node it is at, the steps of its
\* walk.  A phase of a later loop ranks higher; a walk belongs to "chains".
Progress ==
  LET rank == [load |-> 0, ids |-> 1, bastions |-> 2, chains |-> 3, walk |-> 3,
               decide |-> 4, accepted |-> 5, rejected |-> 5]
  IN <<rank[phase], place, IF phase = "walk" THEN Len(path) + 1 ELSE 0>>

\* The check ends, cycles or not: every step takes it further, through a bounded
\* number of loops, nodes and steps of a walk (InventoryTypeOK).
EveryStepAdvances ==
  \E k \in 1..3 :
    /\ Progress[k] < Progress'[k]
    /\ \A m \in 1..(k - 1) : Progress[m] = Progress'[m]

\* The check ends, with the right verdict and with cycles that are there.
CheckRight ==
  [][/\ VerdictRight' /\ ReportedCyclesAreCycles'
     /\ EveryStepAdvances]_inventoryVars
==============================================================================
