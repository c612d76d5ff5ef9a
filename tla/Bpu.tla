--------------------------------- MODULE Bpu ---------------------------------
(* The branch predictor of bpu.v: 2-bit counters that say whether a branch   *)
(* is taken, and a direct-mapped table of targets tagged with the whole PC.  *)
(* Both are indexed by the word index of the PC modulo their size.           *)
EXTENDS ProgramCounter

CONSTANTS BhtEntries, BtbEntries, ENABLE_BPU

ASSUME BpuAssumption ==
  BhtEntries \in Nat \ {0} /\ BtbEntries \in Nat \ {0} /\ ENABLE_BPU \in BOOLEAN

VARIABLES bht, btb

bpuVars == <<bht, btb>>

BtbEntry == [valid: BOOLEAN, tag: Pc, target: Pc]

BpuTypeOK ==
  /\ bht \in [0 .. BhtEntries - 1 -> 0 .. 3]
  /\ btb \in [0 .. BtbEntries - 1 -> BtbEntry]

ColdBht == [k \in 0 .. BhtEntries - 1 |-> 1]
ColdBtb == [k \in 0 .. BtbEntries - 1 |-> [valid |-> FALSE, tag |-> 0, target |-> 0]]

pred_taken(pc)  == bht[pc % BhtEntries] >= 2
(* Mutant: the tag is not compared. *)
pred_hit_untagged(pc) == btb[pc % BtbEntries].valid

pred_hit(pc)    == btb[pc % BtbEntries].valid /\ btb[pc % BtbEntries].tag = pc
pred_target(pc) == btb[pc % BtbEntries].target

(* launch_pred of cpu_core.v: the successor fetched after pc. *)
launch_pred(pc) ==
  IF ENABLE_BPU /\ pred_hit(pc) /\ pred_taken(pc) THEN pred_target(pc) ELSE Plus4(pc)

Stepped(count, up) ==
  IF up THEN IF count = 3 THEN 3 ELSE count + 1
        ELSE IF count = 0 THEN 0 ELSE count - 1

(* One rising edge; pc, up and target are those of the branch that resolves. *)
BpuEdge(update, pc, up, target) ==
  /\ bht' = IF update THEN [bht EXCEPT ![pc % BhtEntries] = Stepped(@, up)] ELSE bht
  /\ btb' = IF update /\ up
              THEN [btb EXCEPT ![pc % BtbEntries] = [valid |-> TRUE, tag |-> pc, target |-> target]]
              ELSE btb
=============================================================================
