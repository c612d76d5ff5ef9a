--------------------------- MODULE TbCoreResetMC ---------------------------
(* The programs of tb_core_reset.sv.  Words 0x100, 0x104 and 0x108 of the    *)
(* RAM are 1, 2 and 3; their contents, and the other numbers, are the values *)
(* 4 to 11.  Registers are numbered as in the bench.                         *)
EXTENDS TbCoreReset, CpuMC

ResetRam == 0 .. 3
OldStore == 6       \* 32'hdead_beef
MCOldRam == [a \in ResetRam |-> CASE a = 1 -> 4 [] a = 2 -> OldStore [] OTHER -> 0]

WorkOf(target) == Word(<< ADDI(1, 0, 1), ADDI(2, 0, 7), ADDI(6, 0, 8), target, ADDI(7, 0, 11),
                          Nop, Nop, Nop >>)
MCLoadWork  == WorkOf(LW(3, 1, 0))
MCStoreWork == WorkOf(SW(2, 1, 1))

MCRestartWork == Word(<< ADDI(8, 0, 9), LW(9, 0, 1), SW(8, 0, 3), ADDI(10, 9, 1), ADDI(11, 0, 10),
                         Nop, Nop, Nop >>)

MCResetPrograms == {MCLoadWork, MCStoreWork, MCRestartWork}
MCOldRams == {MCOldRam}
MCAligned == {}
MCCsrs == 12 .. 15
=============================================================================
