---------------------------- MODULE FlowCompiler ----------------------------
(***************************************************************************)
(* How Node-RED's graph of nodes becomes the sections that modules store   *)
(* (NodeRed/src/flow_parsing).  A graph is a function from the ids of its  *)
(* nodes to records; wires is a tuple with, for each output of the node,   *)
(* the set of ids it is wired to.  A function called on a module is told   *)
(* by the id of the node it comes from, so a section keeps that id, and    *)
(* what a comparison is made with is left out: either outcome may come.    *)
(*                                                                         *)
(* Two words for what the graph says: Wired is where the flow goes on from *)
(* a node, None if nowhere, and a leg of an if dangles when its wire ends  *)
(* at a node that was left out (disabled, wired twice, of another type).   *)
(***************************************************************************)
EXTENDS Naturals, Sequences, FiniteSets, FiniteSetsExt, SequencesExt

CONSTANT None

(* Each type of node has its outputs.  A wire may lead to a node that was deleted. *)
IsGraph(nodes) ==
    /\ IsFiniteSet(DOMAIN nodes) /\ None \notin DOMAIN nodes
    /\ \A id \in DOMAIN nodes :
          /\ nodes[id].type \in {"event", "command"} => DOMAIN nodes[id].wires = {1}
          /\ nodes[id].type = "if" => DOMAIN nodes[id].wires = {1, 2}
          /\ \A leg \in DOMAIN nodes[id].wires : None \notin nodes[id].wires[leg]

TargetOf(wire) == IF wire = {} THEN None ELSE CHOOSE id \in wire : TRUE

isValidEventNode(nodes, id) ==
    /\ ~nodes[id].d
    /\ Cardinality(nodes[id].wires[1]) = 1
    /\ nodes[id].wires[1] \subseteq DOMAIN nodes

isValidCommandNode(nodes, id) ==
    /\ ~nodes[id].d
    /\ Cardinality(nodes[id].wires[1]) <= 1

isValidIfNode(nodes, id) ==
    /\ ~nodes[id].d
    /\ \E leg \in 1 .. 2 : nodes[id].wires[leg] # {}
    /\ \A leg \in 1 .. 2 : Cardinality(nodes[id].wires[leg]) <= 1

eventNodes(nodes) ==
    {id \in DOMAIN nodes : nodes[id].type = "event" /\ isValidEventNode(nodes, id)}

childNodes(nodes) ==
    {id \in DOMAIN nodes : \/ nodes[id].type = "command" /\ isValidCommandNode(nodes, id)
                           \/ nodes[id].type = "if" /\ isValidIfNode(nodes, id)}
-----------------------------------------------------------------------------
Wired(nodes, id, leg) ==
    LET target == TargetOf(nodes[id].wires[leg])
    IN  IF target \in childNodes(nodes) THEN target ELSE None

Dangles(nodes, id) ==
    /\ id \in childNodes(nodes)
    /\ nodes[id].type = "if"
    /\ \E leg \in 1 .. 2 : nodes[id].wires[leg] # {} /\ Wired(nodes, id, leg) = None

LegsOf(nodes, id) == {Wired(nodes, id, leg) : leg \in DOMAIN nodes[id].wires} \ {None}

(* For each n, the nodes from which at most n wires in a row lead on.       *)
DoneWithin(nodes) ==
    LET done[n \in 0 .. Cardinality(DOMAIN nodes)] ==
            LET before == IF n = 0 THEN {} ELSE done[n - 1]
            IN  {id \in DOMAIN nodes : LegsOf(nodes, id) \subseteq before}
    IN  done

(* More wires in a row than there are nodes go in a circle, and             *)
(* parseNodesImpl goes round it until the stack is full.                    *)
Circular(nodes, id) == id \notin DoneWithin(nodes)[Cardinality(DOMAIN nodes)]
-----------------------------------------------------------------------------
getFormattedCommand(nodes, id, section, next) ==
    [node |-> id, type |-> "command", module |-> nodes[id].module,
     section_number |-> section, next |-> <<next>>]

(* Mutant: the legs are swapped. *)
SwappedIf(nodes, id, section, ifTrue, ifFalse) ==
    [node |-> id, type |-> "if", module |-> nodes[id].module,
     section_number |-> section, next |-> <<ifFalse, ifTrue>>]

getFormattedIf(nodes, id, section, ifTrue, ifFalse) ==
    [node |-> id, type |-> "if", module |-> nodes[id].module,
     section_number |-> section, next |-> <<ifTrue, ifFalse>>]

(* Mutant: a leg gets the section after the last one that was pushed. *)
LastSectionNumber(flow) == IF flow = <<>> THEN 0 ELSE Last(flow).section_number

getMaxSectionNumber(flow) == Max({s.section_number : s \in ToSet(flow)} \cup {0})

Section(nodes) ==
    [node : DOMAIN nodes, type : {"event", "command", "if"},
     module : {nodes[id].module : id \in DOMAIN nodes}, section_number : Nat,
     next : [1 .. 1 -> Nat] \cup [1 .. 2 -> Nat]]

ParseCall(nodes) == [flow : Seq(Section(nodes)), id : childNodes(nodes), section : Nat]

(* What a call of parseNodesImpl returns, if deeper is what the calls with a node return. *)
Parsed(nodes, deeper, flowSoFar, nextNodeID, section) ==
    IF nextNodeID \in childNodes(nodes)
    THEN deeper[[flow |-> flowSoFar, id |-> nextNodeID, section |-> section]]
    ELSE flowSoFar

CommandParsed(nodes, deeper, flowSoFar, id, section) ==
    LET target == TargetOf(nodes[id].wires[1])
        next == IF target \in childNodes(nodes) THEN section + 1 ELSE 0
    IN  Parsed(nodes, deeper, Append(flowSoFar, getFormattedCommand(nodes, id, section, next)),
               target, next)

(* An if is pushed after both of its legs; its number is cached until then. *)
(* A leg that is wired gets a number whether or not its node is parsed.     *)
IfParsed(nodes, deeper, flowSoFar, id, section) ==
    LET leg(i) == TargetOf(nodes[id].wires[i])
        ifTrue == IF leg(1) = None THEN 0 ELSE section + 1
        flow1 == Parsed(nodes, deeper, flowSoFar, leg(1), ifTrue)
        ifFalse == IF leg(2) = None THEN 0
                   ELSE IF leg(1) = None THEN section + 1
                   ELSE getMaxSectionNumber(flow1) + 1
        flow2 == Parsed(nodes, deeper, flow1, leg(2), ifFalse)
    IN  Append(flow2, getFormattedIf(nodes, id, section, ifTrue, ifFalse))

(* For each n, what calls return that nest no deeper than n: as deep as     *)
(* calls nest that do not go in a circle.                                   *)
parseNodesImpl(nodes) ==
    LET impl[n \in 0 .. Cardinality(DOMAIN nodes)] ==
            [call \in ParseCall(nodes) |->
                IF n = 0 THEN call.flow
                ELSE IF nodes[call.id].type = "command"
                THEN CommandParsed(nodes, impl[n - 1], call.flow, call.id, call.section)
                ELSE IfParsed(nodes, impl[n - 1], call.flow, call.id, call.section)]
    IN  impl

(* The event itself is section 0; the list is never empty. *)
parseNodes(nodes, id) ==
    Parsed(nodes, parseNodesImpl(nodes)[Cardinality(DOMAIN nodes)],
           <<[node |-> id, type |-> "event", module |-> nodes[id].module,
              section_number |-> 0, next |-> <<1>>]>>,
           TargetOf(nodes[id].wires[1]), 1)

(* The numbers of the sections are 0, 1, 2 and so on, each once. *)
isFlowValid(flow) == {s.section_number : s \in ToSet(flow)} = 0 .. Len(flow) - 1

(* Flows without a section are left out; one that is not valid takes all the
   others with it; a circle of wires ends the call, and no file is written. *)
parseFlows(nodes) ==
    IF \E id \in eventNodes(nodes) : Circular(nodes, id) THEN {}
    ELSE LET flows == {flow \in {parseNodes(nodes, id) : id \in eventNodes(nodes)} : Len(flow) > 1}
         IN  IF \A flow \in flows : isFlowValid(flow) THEN flows ELSE {}
=============================================================================
