-------------------------------- MODULE CpuMC --------------------------------
(* Small instances of Cpu for TLC.  The eight values are also the data       *)
(* addresses: 0 and 1 are RAM, 2 is misaligned, 3 is not mapped, 4 to 7 are   *)
(* the CSR page, of which 7 is not implemented.  Programs have eight words,   *)
(* the last two of which are the trap handler.                               *)
EXTENDS Cpu

MCRam        == {0, 1}
MCMisaligned == {2}
MCMisalignedCsr == {2, 7}
MCCsrPage    == 4 .. 7

I(op, rs, rt, rd, imm) ==
  [op |-> op, rs |-> rs, rt |-> rt, rd |-> rd, imm |-> imm, target |-> 0]
ALU(rd, rs, rt)       == I("ALU", rs, rt, rd, 0)
SHIFT(rd, rt)         == I("SHIFT", 0, rt, rd, 0)
ADDI(rt, rs, imm)     == I("ADDI", rs, rt, 0, imm)
LUI(rt, imm)          == I("LUI", 0, rt, 0, imm)
LW(rt, rs, imm)       == I("LW", rs, rt, 0, imm)
SW(rt, rs, imm)       == I("SW", rs, rt, 0, imm)
BEQ(rs, rt, target)   == [I("BEQ", rs, rt, 0, 0) EXCEPT !.target = target]
BNE(rs, rt, target)   == [I("BNE", rs, rt, 0, 0) EXCEPT !.target = target]
J(target)             == [I("J", 0, 0, 0, 0) EXCEPT !.target = target]
JAL(target)           == [I("JAL", 0, 0, 0, 0) EXCEPT !.target = target]
ERET                  == I("ERET", 0, 0, 0, 0)
ILLEGAL               == I("ILLEGAL", 0, 0, 0, 0)

Word(program) == [p \in Pc |-> program[p + 1]]

(* A load feeds an add at once, the sum is stored and loaded again, and      *)
(* decides a branch that is taken until the sum wraps.                       *)
Dependences == Word(<< LW(1, 0, 0), ADDI(1, 1, 3), SW(1, 0, 0), LW(2, 0, 0),
                       BNE(2, 1, 6), BNE(1, 0, 0), J(0), Nop >>)

(* An operand held in ID/EX while its producer leaves: the second source of  *)
(* the add and of the store is a slow load's, the first an older result's.   *)
Holding == Word(<< LUI(1, 5), LW(2, 0, 1), ALU(1, 1, 2), SW(1, 0, 1), SHIFT(2, 1),
                   BEQ(2, 1, 0), JAL(0), Nop >>)

(* A link is used at once, a result is meant for r0, and the program runs    *)
(* into the handler, which returns to the start.                             *)
Links == Word(<< JAL(3), ILLEGAL, J(0), ALU(2, 2, 2), ADDI(0, 2, 3), ALU(1, 0, 2),
                 LW(1, 0, 5), ERET >>)

(* Behind a branch that turns out taken stand a store and a trap.            *)
WrongPath == Word(<< BEQ(0, 0, 3), SW(0, 0, 1), ILLEGAL, LW(1, 0, 1), BNE(1, 0, 0), ILLEGAL,
                     J(0), Nop >>)

(* Every cause but the illegal instruction: the handler repairs the address  *)
(* and returns, until the access is legal.  Then an instruction that cannot  *)
(* be repaired.                                                              *)
Repair == Word(<< LW(2, 1, 2), SW(2, 1, 0), LW(2, 1, 7), BNE(1, 0, 0), ILLEGAL, J(0),
                  ADDI(1, 1, 1), ERET >>)

(* EPC is read by the instruction in front of the one that traps, the cause  *)
(* and the instruction count by the first ones behind it.                    *)
Counts == Word(<< ADDI(1, 1, 1), LW(2, 0, 5), ILLEGAL, LW(2, 0, 4), SW(2, 0, 0), J(0),
                  LW(2, 0, 6), J(3) >>)

(* A store, the load of the same word, and a branch that alternates.         *)
Alternates == Word(<< ADDI(1, 1, 4), SW(1, 0, 0), LW(2, 0, 0), BEQ(2, 0, 0), BNE(2, 0, 0),
                      ILLEGAL, J(0), Nop >>)

MCPrograms == {Dependences, Holding, Links, WrongPath, Repair, Counts, Alternates}
MCRepair == {Repair}
MCInitialRam == {[a \in MCRam |-> a]}
MCOpen == {TRUE}
=============================================================================
