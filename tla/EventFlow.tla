----------------------------- MODULE EventFlow ------------------------------
(***************************************************************************)
(* Modules run the sections of the flows they store (check_main_events,    *)
(* event_run_next_part and run_child_event of                              *)
(* Modules/Common/AutoMato/Automato.cpp).  FlowInit picks a graph and      *)
(* compiles it; every section is stored by the module it names.  A flow    *)
(* goes by the id of its event node.  Each time an event matches is one    *)
(* run, numbered, so that runs under way at once are told apart; the code  *)
(* does not.                                                               *)
(*                                                                         *)
(* One action is one turn of the loop in event_run_next_part: on a module  *)
(* nothing else happens meanwhile, other modules go on.                    *)
(***************************************************************************)
EXTENDS FlowCompiler

CONSTANTS
    Module,
    Uid,            \* the uid of each module
    ANY,            \* the uid of a broadcast
    Graph,          \* the graphs Node-RED may hold
    MaxRuns         \* bound: times that an event matches

ASSUME FlowAssumption ==
    /\ MaxRuns \in Nat
    /\ \A nodes \in Graph :
          IsGraph(nodes) /\ \A id \in DOMAIN nodes : nodes[id].module \in Module

VARIABLES
    nodes,      \* the graph in Node-RED
    flows,      \* what the compiler made of it
    running,    \* per module, the section event_run_next_part is to run
    inbox,      \* per module, broadcasts it has not read
    at,         \* per run, the node that ran last and the leg it left by
    lost,       \* history: the runs a broadcast of which was lost
    refused     \* history: runs, with the modules that dropped a part of theirs

flowVars == <<nodes, flows, running, inbox, at, lost, refused>>

Idle == [flow |-> None, section |-> 0, run |-> 0]
Part == [flow : {id \in DOMAIN nodes : nodes[id].type = "event"},
         section : Nat, run : DOMAIN at]

SectionsOf(id) == UNION {ToSet(flow) : flow \in {f \in flows : f[1].node = id}}

(* m_child_events of module m, the part that belongs to one flow. *)
ChildEvents(m, id) ==
    {s \in SectionsOf(id) : s.module = m /\ s.type # "event"}

is_child_event_for_me(m, id, section) ==
    \E s \in ChildEvents(m, id) : s.section_number = section

(* The receiver's own uid is compared with ANY, not the frame's. *)
is_for_me(m, to_id) == Uid[m] = ANY \/ Uid[m] = to_id

Step(id, leg) == [node |-> id, leg |-> leg]

Ended(r) ==
    /\ \A m \in Module : running[m].run # r
    /\ \A m \in Module : \A f \in ToSet(inbox[m]) : f.run # r

FlowInit ==
    /\ nodes \in Graph
    /\ flows = parseFlows(nodes)
    /\ running = [m \in Module |-> Idle]
    /\ inbox = [m \in Module |-> <<>>]
    /\ at = <<>>
    /\ lost = {} /\ refused = {}

(* Nobody acknowledges a broadcast: each other module reads it, or never will. *)
Broadcast(m, part) ==
    \E got \in SUBSET (Module \ {m}) :
        /\ inbox' = [k \in Module |-> IF k \in got THEN Append(inbox[k], part) ELSE inbox[k]]
        /\ lost' = IF got = Module \ {m} THEN lost ELSE lost \cup {part.run}

(* Mutant: the module that told the others goes on itself, too. *)
GoOnAndTell(m, part) ==
    /\ running' = [running EXCEPT ![m] = IF part.section > 0 THEN part ELSE Idle]
    /\ IF part.section > 0 /\ ~is_child_event_for_me(m, part.flow, part.section)
       THEN Broadcast(m, part) ELSE UNCHANGED <<inbox, lost>>

(* Mutant: the next section is run without a look at whose it is. *)
KeepRunning(m, part) ==
    /\ running' = [running EXCEPT ![m] = IF part.section > 0 THEN part ELSE Idle]
    /\ UNCHANGED <<inbox, lost>>

(* Mutant: what is not mine is forgotten. *)
GoOnAlone(m, part) ==
    /\ running' = [running EXCEPT ![m] =
                      IF is_child_event_for_me(m, part.flow, part.section) THEN part ELSE Idle]
    /\ UNCHANGED <<inbox, lost>>

(* On with the next section: it is mine, it is somebody's, or there is none. *)
GoOn(m, part) ==
    IF is_child_event_for_me(m, part.flow, part.section)
    THEN running' = [running EXCEPT ![m] = part] /\ UNCHANGED <<inbox, lost>>
    ELSE /\ running' = [running EXCEPT ![m] = Idle]
         /\ IF part.section > 0 THEN Broadcast(m, part) ELSE UNCHANGED <<inbox, lost>>

(* The interval has passed, the function ran, and the comparison is true. *)
check_main_events(m) ==
    \E flow \in flows :
        /\ running[m] = Idle
        /\ flow[1].module = m
        /\ Len(at) < MaxRuns
        /\ at' = Append(at, Step(flow[1].node, 1))
        /\ GoOn(m, [flow |-> flow[1].node, section |-> 1, run |-> Len(at) + 1])
        /\ UNCHANGED <<nodes, flows, refused>>

(* Whether a comparison is true is left to chance; a command has one output. *)
run_child_event(m) ==
    /\ running[m] # Idle
    /\ \E s \in ChildEvents(m, running[m].flow) : \E leg \in DOMAIN s.next :
        /\ s.section_number = running[m].section
        /\ at' = [at EXCEPT ![running[m].run] = Step(s.node, leg)]
        /\ GoOn(m, [running[m] EXCEPT !.section = s.next[leg]])
    /\ UNCHANGED <<nodes, flows, refused>>

(* The loop reads a frame: EVENT_RUN_NEXT_PART, for whoever takes broadcasts. *)
ReadFrame(m) ==
    /\ running[m] = Idle
    /\ inbox[m] # <<>>
    /\ LET part == Head(inbox[m])
           mine == is_child_event_for_me(m, part.flow, part.section)
       IN  /\ running' = [running EXCEPT ![m] = IF is_for_me(m, ANY) /\ mine THEN part ELSE Idle]
           /\ refused' = refused \cup (IF mine /\ ~is_for_me(m, ANY) THEN {<<part.run, m>>} ELSE {})
    /\ inbox' = [inbox EXCEPT ![m] = Tail(@)]
    /\ UNCHANGED <<nodes, flows, at, lost>>

FlowNext == \E m \in Module : check_main_events(m) \/ run_child_event(m) \/ ReadFrame(m)

(* loop runs for ever on every module; that an event matches is up to the world. *)
FlowFairness == \A m \in Module : WF_flowVars(run_child_event(m)) /\ WF_flowVars(ReadFrame(m))

FlowSpec == FlowInit /\ [][FlowNext]_flowVars /\ FlowFairness
-----------------------------------------------------------------------------
(* Legs that dangle get a number all the same, which can be somebody else's. *)
WellWired == \A id \in DOMAIN nodes : ~Dangles(nodes, id)

(* What modules run and hand on are sections of flows by their event, for   *)
(* runs that were started, and no more runs are started than the bound.     *)
FlowTypeOK ==
    /\ running \in [Module -> Part \cup {Idle}]
    /\ inbox \in [Module -> Seq(Part)]
    /\ at \in Seq([node : DOMAIN nodes, leg : {1, 2}]) /\ Len(at) <= MaxRuns
    /\ lost \subseteq DOMAIN at /\ refused \subseteq (DOMAIN at) \X Module

(* Whether module m runs a section of run r, at i = 0, or will when it      *)
(* comes to the i-th frame in its inbox.                                    *)
Has(m, i, r) ==
    IF i = 0 THEN running[m].run = r
    ELSE /\ inbox[m][i].run = r
         /\ is_child_event_for_me(m, inbox[m][i].flow, inbox[m][i].section)

(* A run is in one place at most: of the modules that read a broadcast one  *)
(* at most goes on with it, the one that sent it does not, and no frame     *)
(* that a slow module has yet to read starts the run again, whatever the    *)
(* graph.                                                                   *)
OneModuleAtATime ==
    \A r \in DOMAIN at : \A m, k \in Module :
        \A i \in 0 .. Len(inbox[m]), j \in 0 .. Len(inbox[k]) :
            Has(m, i, r) /\ Has(k, j, r) => m = k /\ i = j

(* Every node that runs is wired to the leg by which the run left the node  *)
(* before, whichever module runs it and however many runs are under way:    *)
(* the numbers that parseNodesImpl gives to sections lead along the wires   *)
(* of the graph, through any nesting of ifs and any node that several wires *)
(* lead to.  For graphs in which no leg dangles.                            *)
FollowsWires ==
    [][\A r \in DOMAIN at :
        (at'[r] # at[r] /\ WellWired)
        => at'[r].node = Wired(nodes, at[r].node, at[r].leg)]_flowVars

(* The node that a run is to come to next, None when the wires end there,  *)
(* and whether it is on another module.                                    *)
Awaited(r) == Wired(nodes, at[r].node, at[r].leg)
Elsewhere(r) == nodes[Awaited(r)].module # nodes[at[r].node].module

(* What Parsing.md:158 says of EVENT_RUN_NEXT_PART, "asking for the next   *)
(* event in a flow to be ran": a run that is over ended where the wires    *)
(* end, or its broadcast was lost on the way to another module.  Violated: *)
(* is_for_me (CanFrame.cpp:70) drops a broadcast that arrived.             *)
EndsWhereWiresEnd ==
    \A r \in DOMAIN at :
        (Ended(r) /\ WellWired) => Awaited(r) = None \/ (Elsewhere(r) /\ r \in lost)

(* The rest of the way to the next node holds: a run that is over had come *)
(* to the end of its wires, or its broadcast was lost, or it reached the   *)
(* very module that stores the next node, and is_for_me dropped it there.  *)
(* No section is forgotten between the numbers that the compiler gave, the *)
(* tests by which event_run_next_part finds the next one, and the          *)
(* broadcast.                                                              *)
PartsReachTheirModule ==
    \A r \in DOMAIN at :
        (Ended(r) /\ WellWired)
        => \/ Awaited(r) = None
           \/ Elsewhere(r) /\ (r \in lost \/ <<r, nodes[Awaited(r)].module>> \in refused)

(* When no leg dangles and no wires run in a circle, every event that has a *)
(* node to go on to has its flow: isFlowValid, which gives up all flows for *)
(* one, never does so for a graph that is in order.                         *)
GoodFlowsKept ==
    (WellWired /\ \A id \in eventNodes(nodes) : ~Circular(nodes, id))
    => \A id \in eventNodes(nodes) :
           LegsOf(nodes, id) # {} => \E flow \in flows : flow[1].node = id

(* event_run_next_part leaves its loop: a run always ends.  An if both legs *)
(* of which dangle can lead back to the start of the flow, and the module   *)
(* then does nothing else; so this too is for graphs in which none does.    *)
RunsEnd ==
    \A r \in 1 .. MaxRuns :
        (r \in DOMAIN at /\ WellWired) ~> (r \in DOMAIN at /\ Ended(r))

(* parseNodes.ts:68 of the number for the second leg of an if: "a new,      *)
(* unused section number".  No two legs of a flow have the same.            *)
LegNumbersUnused ==
    \A flow \in flows : \A s, t \in ToSet(flow) : \A i \in DOMAIN s.next, j \in DOMAIN t.next :
        (s.next[i] = t.next[j] /\ s.next[i] > 0) => (s = t /\ i = j)
=============================================================================
