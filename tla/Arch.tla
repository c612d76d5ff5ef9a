-------------------------------- MODULE Arch --------------------------------
(* What the pipeline and the reference model share: instructions as          *)
(* control_unit.v tells them apart, values, the address map, and the event   *)
(* an instruction leaves in the retirement trace.                            *)
(*                                                                           *)
(* Instructions with equal control signals are one operation here: ALU is    *)
(* every register-register operation but the immediate shifts (SHIFT), ADDI  *)
(* every immediate operation but LUI, LW and SW stand for the loads and      *)
(* stores of every size, ILLEGAL for every encoding the decoder refuses.     *)
(* Branch and jump targets are kept resolved.  Values are the numbers below  *)
(* ValCount and wrap; a PC held in a register is the value of its index.     *)
EXTENDS ProgramCounter, FiniteSets

CONSTANTS
  ValCount,       \* 2^32 in the code
  RegCount,       \* 32 in the code
  TRAP_VEC,
  RamAddr,        \* word addresses inside the data RAM
  Misaligned,     \* addresses that are not a multiple of the access size
  CsrPage,        \* addresses inside the CSR page
  CSR_INSTRET, CSR_EPC, CSR_CAUSE

Val  == 0 .. ValCount - 1
Reg  == 0 .. RegCount - 1
Link == RegCount - 1        \* JAL's destination, register 31

CauseMisalignedLoad  == 1
CauseMisalignedStore == 2
CauseUnmappedLoad    == 3
CauseUnmappedStore   == 4
CauseCsr             == 5
CauseIllegal         == 6

ASSUME ArchAssumption ==
  /\ ValCount \in Nat /\ PcCount <= ValCount /\ CauseIllegal < ValCount
  /\ RegCount \in Nat /\ RegCount > 1
  /\ TRAP_VEC \in Pc
  /\ 0 \in RamAddr /\ RamAddr \subseteq Val /\ Misaligned \subseteq Val /\ CsrPage \subseteq Val
  /\ RamAddr \intersect (CsrPage \union Misaligned) = {}
  /\ {CSR_INSTRET, CSR_EPC, CSR_CAUSE} \subseteq CsrPage \ Misaligned
  /\ Cardinality({CSR_INSTRET, CSR_EPC, CSR_CAUSE}) = 3

-----------------------------------------------------------------------------
Op == {"ALU", "SHIFT", "ADDI", "LUI", "LW", "SW", "BEQ", "BNE", "J", "JAL",
       "ERET", "ILLEGAL"}

Instr == [op: Op, rs: Reg, rt: Reg, rd: Reg, imm: Val, target: Pc]

(* The all-zeros word: a shift of r0 into r0. *)
Nop == [op |-> "SHIFT", rs |-> 0, rt |-> 0, rd |-> 0, imm |-> 0, target |-> 0]

usesRs(i)   == i.op \in {"ALU", "ADDI", "LW", "SW", "BEQ", "BNE"}
usesRt(i)   == i.op \in {"ALU", "SHIFT", "SW", "BEQ", "BNE"}
regWrite(i) == i.op \in {"ALU", "SHIFT", "ADDI", "LUI", "LW", "JAL"}
memRead(i)  == i.op = "LW"
memWrite(i) == i.op = "SW"
branch(i)   == i.op \in {"BEQ", "BNE"}
jump(i)     == i.op \in {"J", "JAL"}
regDest(i)  == IF i.op = "JAL" THEN Link ELSE IF i.op \in {"ALU", "SHIFT"} THEN i.rd ELSE i.rt

(* Mutant: the adder does not wrap. *)
Plus_unbounded(x, y) == x + y

Plus(x, y) == (x + y) % ValCount

(* The adder for what adds, a doubling for what shifts.  Where the result is *)
(* not used it is 0.                                                         *)
alu(i, a, b) ==
  CASE i.op = "ALU"                  -> Plus(a, b)
    [] i.op = "SHIFT"                -> Plus(b, b)
    [] i.op \in {"ADDI", "LW", "SW"} -> Plus(a, i.imm)
    [] i.op = "LUI"                  -> i.imm
    [] OTHER                         -> 0

taken(i, a, b) == (i.op = "BEQ" /\ a = b) \/ (i.op = "BNE" /\ a # b)

-----------------------------------------------------------------------------
(* One retirement or trap as the trace reports it.  epc is pc in a trap.     *)
Event == [ pc: Pc, next_pc: Pc, trap: BOOLEAN, cause: Val, rd: Reg, rd_data: Val,
           mem: {"none", "load", "store"}, addr: Val, data: Val ]

NoEvent == [ pc |-> 0, next_pc |-> 0, trap |-> FALSE, cause |-> 0, rd |-> 0, rd_data |-> 0,
             mem |-> "none", addr |-> 0, data |-> 0 ]
=============================================================================
