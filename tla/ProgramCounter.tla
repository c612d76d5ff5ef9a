--------------------------- MODULE ProgramCounter ---------------------------
(* Instruction addresses.  The core numbers bytes with 32-bit vectors and    *)
(* every program counter it ever forms is word aligned, so a PC is modelled  *)
(* by the index of its word: PcCount words, RESET_PC the first of them, and  *)
(* an increment that wraps as the 32-bit adder does.                         *)
EXTENDS Naturals

CONSTANT PcCount        \* number of instruction words that can be addressed

ASSUME PcCountAssumption == PcCount \in Nat \ {0}

Pc == 0 .. PcCount - 1

RESET_PC == 0

(* Mutant: the increment does not wrap. *)
Plus4_no_wrap(pc) == pc + 1

(* pc + 32'd4 *)
Plus4(pc) == IF pc = PcCount - 1 THEN 0 ELSE pc + 1
=============================================================================
