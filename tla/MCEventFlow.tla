---------------------------- MODULE MCEventFlow -----------------------------
(* Node 0 is an event, the others its commands and ifs.  Wires lead to     *)
(* higher numbers except in the circles.                                   *)
EXTENDS EventFlow, TLC

CONSTANTS a, b, c

MCModule == {a, b, c}

(* Modules have uids other than ANY, and then no run goes on elsewhere.    *)
RealUid == (a :> 5) @@ (b :> 6) @@ (c :> 7)

(* b and c take broadcasts: what happens after a hand-over can be seen.    *)
MCUid == (a :> 5) @@ (b :> 1) @@ (c :> 1)

Ahead(i, n) == {{}} \cup {{j} : j \in i + 1 .. n}

Shape(type, wires) == [type |-> type, wires |-> wires]

(* The commands and ifs that can be node i of n. *)
Shapes(i, n) ==
    {Shape("command", <<w>>) : w \in Ahead(i, n)}
    \cup {Shape("if", <<w1, w2>>) : w1 \in Ahead(i, n), w2 \in Ahead(i, n)}

AnEvent == Shape("event", <<{1}>>)

(* The nodes in off are disabled, those in away are on b. *)
Place(shapes, off, away) ==
    [i \in DOMAIN shapes |->
        [type |-> shapes[i].type, wires |-> shapes[i].wires, d |-> i \in off,
         module |-> IF i \in away THEN b ELSE a]]

WiredTo(shapes) == UNION {UNION {s.wires[leg] : leg \in DOMAIN s.wires} : s \in shapes}

ACommand == Shape("command", <<{}>>)

(* Four nodes on one module, one of them disabled: ifs in ifs. *)
Nested ==
    {Place(0 :> AnEvent @@ 1 :> s[1] @@ 2 :> s[2] @@ 3 :> s[3] @@ 4 :> ACommand, off, {}) :
        s \in {t \in Shapes(1, 4) \X Shapes(2, 4) \X Shapes(3, 4) :
                 t[1].type = "if" /\ {2, 3, 4} \subseteq WiredTo({t[1], t[2], t[3]})},
        off \in {{}, {3}}}

(* Three nodes on two modules. *)
Spread ==
    {Place(0 :> AnEvent @@ 1 :> s[1] @@ 2 :> s[2] @@ 3 :> ACommand, {}, away) :
        s \in {t \in Shapes(1, 3) \X Shapes(2, 3) : {2, 3} \subseteq WiredTo({t[1], t[2]})},
        away \in {{2}, {1, 3}}}

(* Nodes on three modules. *)
Handed ==
    {[Place(0 :> AnEvent @@ 1 :> s @@ 2 :> Shape("command", <<{3}>>) @@ 3 :> ACommand, {}, {1, 2, 3})
         EXCEPT ![i].module = c] : s \in Shapes(1, 3), i \in 1 .. 3}

(* Two events with nodes in common, or that cannot be compiled together. *)
Shared ==
    {Place(0 :> AnEvent @@ 1 :> s @@ 2 :> Shape("if", <<{3}, w>>) @@ 3 :> ACommand
             @@ 9 :> Shape("event", <<{2}>>), off, {2, 9}) :
        s \in Shapes(1, 3), w \in {{}, {3}}, off \in {{}, {9}}}

(* Wires in a circle, and two wires from one output. *)
Odd ==
    {Place(0 :> AnEvent @@ 1 :> Shape("command", <<{w}>>) @@ 2 :> Shape("if", <<{v}, {}>>), {}, {}) :
        w \in 1 .. 2, v \in 1 .. 2}
    \cup {Place(0 :> Shape("event", <<{1, 2}>>) @@ 1 :> Shape("command", <<{2}>>)
                @@ 2 :> Shape("command", <<{}>>), {}, {})}

MCGraph == Nested \cup Spread \cup Handed \cup Shared \cup Odd
=============================================================================
