------------------------------ MODULE TbCoreMC ------------------------------
(* Jobs for the bench.  The addresses are those of CpuMC; as in              *)
(* tests/programs, what follows the completion instruction does nothing.     *)
EXTENDS TbCore, CpuMC

Job(program, completion_pc) ==
  [program |-> Word(program), ram |-> [a \in MCRam |-> a], completion_pc |-> completion_pc]

(* The completion instruction follows a load: the hook cannot trust its      *)
(* response, and fetching goes on past it.                                   *)
Memory_ == Job(<< LW(1, 0, 1), ADDI(1, 1, 3), SW(1, 0, 0), LW(2, 0, 0), Nop, Nop, Nop, Nop >>, 4)

(* It follows a loop, so it is fetched early and killed each time round.     *)
Loop == Job(<< SW(0, 0, 1), LUI(1, 2), ADDI(1, 1, 7), BNE(1, 0, 2), Nop, Nop, Nop, Nop >>, 4)

(* It follows a jump over what must not happen.                              *)
Jump == Job(<< ADDI(1, 0, 5), JAL(3), SW(1, 0, 0), ALU(1, 1, 2), J(6), ILLEGAL, Nop, Nop >>, 6)

(* It follows a trap, its handler and the repaired access.                   *)
Trap == Job(<< LW(1, 1, 2), SW(1, 0, 1), Nop, Nop, Nop, Nop, ADDI(1, 1, 6), ERET >>, 2)

(* It is a branch, behind the count of what retired.                         *)
Branch == Job(<< ADDI(1, 0, 1), LW(2, 0, 4), BEQ(1, 2, 5), Nop, ILLEGAL, Nop, Nop, Nop >>, 2)

MCJobs == {Memory_, Loop, Jump, Trap, Branch}

(* A branch waits for a slow load right in front of the completion PC.       *)
HeldBranch == Job(<< LW(1, 0, 1), BNE(1, 0, 4), Nop, Nop, J(2), Nop, Nop, Nop >>, 2)

MCHeldBranch == {HeldBranch}

ASSUME QuietJobsAssumption == NoAccessFollows

ProgramsOf(jobs) == {j.program : j \in jobs}
MCJobPrograms == ProgramsOf(MCJobs)
MCHeldPrograms == ProgramsOf(MCHeldBranch)
=============================================================================
