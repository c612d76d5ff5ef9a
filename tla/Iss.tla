--------------------------------- MODULE Iss ---------------------------------
(* One step of the reference model, verification/iss.py, as a function of    *)
(* its state s: program, PC, registers, EPC, CAUSE, count of the retired     *)
(* instructions, and data memory.                                            *)
EXTENDS Arch

reset(program, ram) ==
  [ program |-> program, pc |-> RESET_PC, gpr |-> [r \in Reg |-> 0], epc |-> 0, cause |-> 0,
    retired |-> 0, ram |-> ram ]

instruction(s) == s.program[s.pc]
rsVal(s) == s.gpr[instruction(s).rs]
rtVal(s) == s.gpr[instruction(s).rt]

base_event(s, npc) == [NoEvent EXCEPT !.pc = s.pc, !.next_pc = npc]

trap_event(s, c) == [base_event(s, TRAP_VEC) EXCEPT !.trap = TRUE, !.cause = c]

write_event(s, npc, rd, v) ==
  [base_event(s, npc) EXCEPT !.rd = rd, !.rd_data = IF rd = 0 THEN 0 ELSE v]

read_csr(s, a) == CASE a = CSR_INSTRET -> s.retired
                    [] a = CSR_EPC     -> s.epc
                    [] a = CSR_CAUSE   -> s.cause

load_event(s, a, v) ==
  [ write_event(s, Plus4(s.pc), instruction(s).rt, v)
      EXCEPT !.mem = "load", !.addr = a, !.data = v ]

(* The CSR page is decoded before the alignment is looked at. *)
memory_event(s) ==
  LET a     == Plus(rsVal(s), instruction(s).imm)
      store == instruction(s).op = "SW"
  IN  IF a \in CsrPage THEN
        IF store \/ a \notin {CSR_INSTRET, CSR_EPC, CSR_CAUSE} THEN trap_event(s, CauseCsr)
        ELSE load_event(s, a, read_csr(s, a))
      ELSE IF a \in Misaligned THEN
        trap_event(s, IF store THEN CauseMisalignedStore ELSE CauseMisalignedLoad)
      ELSE IF a \notin RamAddr THEN
        trap_event(s, IF store THEN CauseUnmappedStore ELSE CauseUnmappedLoad)
      ELSE IF store THEN
        [base_event(s, Plus4(s.pc)) EXCEPT !.mem = "store", !.addr = a, !.data = rtVal(s)]
      ELSE load_event(s, a, s.ram[a])

(* The event of the instruction at s.pc. *)
step_event(s) ==
  LET i    == instruction(s)
      next == Plus4(s.pc)
  IN  CASE i.op = "ALU"   -> write_event(s, next, i.rd, Plus(rsVal(s), rtVal(s)))
        [] i.op = "SHIFT" -> write_event(s, next, i.rd, Plus(rtVal(s), rtVal(s)))
        [] i.op = "ADDI"  -> write_event(s, next, i.rt, Plus(rsVal(s), i.imm))
        [] i.op = "LUI"   -> write_event(s, next, i.rt, i.imm)
        [] i.op \in {"LW", "SW"} -> memory_event(s)
        [] i.op = "BEQ"   -> base_event(s, IF rsVal(s) = rtVal(s) THEN i.target ELSE next)
        [] i.op = "BNE"   -> base_event(s, IF rsVal(s) # rtVal(s) THEN i.target ELSE next)
        [] i.op = "J"     -> base_event(s, i.target)
        [] i.op = "JAL"   -> write_event(s, i.target, Link, next)
        [] i.op = "ERET"  -> base_event(s, s.epc)
        [] OTHER          -> trap_event(s, CauseIllegal)

(* The state after that event: the instruction traps or retires. *)
step(s) ==
  LET e == step_event(s)
  IN  [ s EXCEPT !.pc = e.next_pc,
                 !.gpr = IF e.rd = 0 THEN @ ELSE [@ EXCEPT ![e.rd] = e.rd_data],
                 !.epc = IF e.trap THEN s.pc ELSE @,
                 !.cause = IF e.trap THEN e.cause ELSE @,
                 !.retired = IF e.trap THEN @ ELSE Plus(@, 1),
                 !.ram = IF e.mem = "store" THEN [@ EXCEPT ![e.addr] = e.data] ELSE @ ]
=============================================================================
