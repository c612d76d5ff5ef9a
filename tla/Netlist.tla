-------------------------------- MODULE Netlist --------------------------------
(* inspect_netlist in verification/synthesis.py: what it accepts of a        *)
(* synthesized netlist and how it counts the cells of the hierarchy.         *)
EXTENDS Integers, Sequences, FiniteSets, SequencesExt

CONSTANTS
  CPU_CORE_PORTS,   \* name -> direction and width
  Combinational,    \* the cell types of _COMBINATIONAL_INPUTS
  FlipFlop,         \* and of _FLIPFLOP_INPUTS
  MaxDepth          \* of the hierarchy, 256 in the code

Top       == "cpu_core"
primitive == Combinational \union FlipFlop       \* anything else is refused

ports_ok(ports) ==
  /\ DOMAIN ports = DOMAIN CPU_CORE_PORTS
  /\ \A p \in DOMAIN ports :
       /\ <<ports[p].direction, ports[p].width>> = CPU_CORE_PORTS[p]
       /\ ports[p].direction = "input" => ~ports[p].tied

Refused == [failed |-> TRUE, leaves |-> 0, sequential |-> 0, instances |-> 0]

plus(a, b) ==
  [ failed     |-> a.failed \/ b.failed,
    leaves     |-> a.leaves + b.leaves,
    sequential |-> a.sequential + b.sequential,
    instances  |-> a.instances + b.instances ]

leaf(type) == [ failed     |-> type \notin primitive, leaves |-> 1,
                sequential |-> IF type \in FlipFlop THEN 1 ELSE 0, instances |-> 0 ]

(* Mutant: a module that is instantiated again adds nothing. *)
expand_once(modules) ==
  LET reached[n \in DOMAIN modules, k \in 0 .. MaxDepth] ==
        IF k = 0 THEN {n}
        ELSE UNION {reached[c.type, k - 1] :
                      c \in {x \in ToSet(modules[n].cells) : x.type \in DOMAIN modules}} \union {n}
      own(n) == FoldSeq(LAMBDA c, total :
                          plus(total, IF c.type \in DOMAIN modules THEN [Refused EXCEPT !.failed = FALSE]
                                      ELSE leaf(c.type)),
                        [failed |-> modules[n].residue, leaves |-> 0, sequential |-> 0, instances |-> 1],
                        modules[n].cells)
  IN  FoldSeq(LAMBDA n, total : plus(total, own(n)), [Refused EXCEPT !.failed = FALSE],
              SetToSeq(reached[Top, 3]))

(* expand: the cells below an instance of a module.  A module met again      *)
(* below itself, one with memories, processes or a box attribute, and a cell *)
(* with wrong ports are refused.  The cache of the code changes no count.    *)
expand(modules) ==
  LET below[n \in DOMAIN modules, visiting \in SUBSET DOMAIN modules] ==
        LET of_cell(c) == IF ~c.wired THEN Refused
                          ELSE IF c.type \in DOMAIN modules THEN below[c.type, visiting \union {n}]
                          ELSE leaf(c.type)
        IN  IF n \in visiting \/ Cardinality(visiting) >= MaxDepth \/ modules[n].residue THEN Refused
            ELSE FoldSeq(LAMBDA c, total : plus(total, of_cell(c)),
                         [failed |-> FALSE, leaves |-> 0, sequential |-> 0, instances |-> 1],
                         modules[n].cells)
  IN  below[Top, {}]

(* The summary, or one that failed where the code raises ValueError. *)
inspect_netlist(d) ==
  IF \/ ~d.readable \/ Top \notin DOMAIN d.modules
     \/ ~d.top \/ ~ports_ok(d.ports)
    THEN Refused
  ELSE LET total == expand(d.modules)
       IN  IF total.failed \/ total.leaves = 0 THEN Refused ELSE total

-----------------------------------------------------------------------------
(* What the counts stand for: a cell is named by the way to it from the top, *)
(* a sequence of positions.                                                  *)
cells_at(d, n) == IF n \in DOMAIN d.modules THEN d.modules[n].cells ELSE <<>>

TypeAt(d, way) ==
  LET at[k \in 0 .. Len(way)] ==
        IF k = 0 THEN Top
        ELSE IF way[k] \in DOMAIN cells_at(d, at[k - 1]) THEN cells_at(d, at[k - 1])[way[k]].type
        ELSE "nothing"
  IN  at[Len(way)]

Depth(d) == Cardinality(DOMAIN d.modules)
Widest(d) == Max({Len(d.modules[m].cells) : m \in DOMAIN d.modules})

(* The cell at the end of every way, those that go on for ever cut short. *)
Reached(d) ==
  LET ways == UNION {[1 .. k -> 1 .. Widest(d)] : k \in 0 .. Depth(d) + 1}
      type == [w \in ways |-> TypeAt(d, w)]
  IN  [w \in {v \in ways : type[v] # "nothing"} |-> type[w]]

Count(reached, types) == Cardinality({w \in DOMAIN reached : reached[w] \in types})

(* A netlist that may stand as evidence: the interface, no way that returns  *)
(* to a module, and only mapped and wired cells in modules without residue.  *)
Proper(d, reached) ==
  /\ d.top /\ ports_ok(d.ports) /\ Top \in DOMAIN d.modules
  /\ \A w \in DOMAIN reached : Len(w) <= Depth(d) /\ reached[w] \in primitive \union DOMAIN d.modules
  /\ \A n \in DOMAIN d.modules \intersect {reached[w] : w \in DOMAIN reached} :
       ~d.modules[n].residue /\ \A c \in ToSet(d.modules[n].cells) : c.wired
  /\ Count(reached, primitive) > 0
==============================================================================
