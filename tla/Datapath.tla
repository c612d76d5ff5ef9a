------------------------------ MODULE Datapath ------------------------------
(* What the pipeline computes for one instruction, word by word: the decoder *)
(* of control_unit.v, alu.v, and the address, lane and trap logic of         *)
(* cpu_core.v, with a data memory of words written through byte strobes.     *)
(* Timing, hazards and prediction are the business of Cpu and FrontEnd: here *)
(* one instruction finishes before the next begins, and core c is pc, gpr,   *)
(* the trap CSRs, the counters and the two memories.                         *)
EXTENDS Words

-----------------------------------------------------------------------------
(* control_unit.v *)

memRead(op)    == op \in {32, 33, 35, 36, 37}
memWrite(op)   == op \in {40, 41, 43}
memSize(op)    == CASE op \in {32, 36, 40} -> 1 [] op \in {33, 37, 41} -> 2 [] OTHER -> 4
loadSigned(op) == op \notin {36, 37}
branch(op)     == op \in {4, 5}
jump(op)       == op \in {2, 3}
immZeroExt(op) == op \in {12, 13, 14, 15}
aluSrc(op)     == memRead(op) \/ memWrite(op) \/ op = 8 \/ immZeroExt(op)
regWrite(op)   == op \in {0, 3, 8} \/ memRead(op) \/ immZeroExt(op)

aluOp(op) == CASE op = 0 -> 0 [] op \in {4, 5} -> 1 [] op = 12 -> 3 [] op = 13 -> 4
               [] op = 14 -> 5 [] op = 15 -> 7 [] OTHER -> 2

(* ERET is one word of its major opcode. *)
illegal(w) ==
  CASE opcode(w) = 0  -> funct(w) \notin {0, 2, 3} \union (32 .. 39) \union {42}
    [] opcode(w) = 24 -> bits(w, 0, WordBits - 6) # 0
    [] OTHER -> opcode(w) \notin {2, 3, 4, 5, 8, 12, 13, 14, 15, 32, 33, 35, 36, 37, 40, 41, 43}

regDest(w) == CASE opcode(w) = 3 -> LinkReg [] opcode(w) = 0 -> rd(w) [] OTHER -> rt(w)

immExt(w) == IF immZeroExt(opcode(w)) THEN immediate(w) ELSE u32(sext16(immediate(w)))

(* alu.v *)
alu(op, fn, in1, in2, sh) ==
  CASE op = 0 -> CASE fn \in {32, 33} -> u32(in1 + in2)
                   [] fn \in {34, 35} -> u32(in1 - in2)
                   [] fn = 36 -> in1 & in2
                   [] fn = 37 -> in1 | in2
                   [] fn = 38 -> in1 ^^ in2
                   [] fn = 39 -> nor(in1, in2)
                   [] fn = 42 -> IF s32(in1) < s32(in2) THEN 1 ELSE 0
                   [] fn = 0  -> u32(in2 * 2^sh)
                   [] fn = 2  -> in2 \div 2^sh
                   [] fn = 3  -> u32(s32(in2) \div 2^sh)
                   [] OTHER   -> 0
    [] op = 1 -> u32(in1 - in2)
    [] op = 2 -> u32(in1 + in2)
    [] op = 3 -> in1 & in2
    [] op = 4 -> in1 | in2
    [] op = 5 -> in1 ^^ in2
    [] op = 7 -> bits(in2, 0, ImmBits) * 2^ImmBits

-----------------------------------------------------------------------------
(* cpu_core.v: lanes *)

(* Repeat the sign bit of the n-bit x, or zeros, above it. *)
extend(x, n, is_signed) ==
  x + IF is_signed /\ bits(x, n - 1, 1) = 1 THEN 2^WordBits - 2^n ELSE 0

(* Mutant: the byte lanes are counted from the wrong end. *)
load_extend_swapped(raw, size, offset, is_signed) ==
  CASE size = 1 -> extend(bits(raw, ByteBits * (3 - offset), ByteBits), ByteBits, is_signed)
    [] size = 2 -> extend(bits(raw, ImmBits * (offset \div 2), ImmBits), ImmBits, is_signed)
    [] OTHER    -> raw

load_extend(raw, size, offset, is_signed) ==
  CASE size = 1 -> extend(bits(raw, ByteBits * offset, ByteBits), ByteBits, is_signed)
    [] size = 2 -> extend(bits(raw, ImmBits * (offset \div 2), ImmBits), ImmBits, is_signed)
    [] OTHER    -> raw

ex_store_strobe(size, offset) ==
  CASE size = 1 -> 2^offset
    [] size = 2 -> IF offset \div 2 = 1 THEN 12 ELSE 3
    [] OTHER    -> 15

ex_store_aligned(size, offset, value) ==
  CASE size = 1 -> bits(value, 0, ByteBits) * 2^(ByteBits * offset)
    [] size = 2 -> bits(value, 0, ImmBits) * 2^(ImmBits * (offset \div 2))
    [] OTHER    -> value

(* rv_mem.v: the strobed bytes of one word. *)
written(word, wdata, wstrb) ==
  MapThenSumSet(LAMBDA lane : 2^(ByteBits * lane) *
                  bits(IF bits(wstrb, lane, 1) = 1 THEN wdata ELSE word, ByteBits * lane, ByteBits),
                0 .. 3)

-----------------------------------------------------------------------------
core_reset(rom, dmem) ==
  [ pc |-> 0, gpr |-> [r \in Register |-> 0], epc |-> 0, cause |-> 0,
    events |-> 0, retired |-> 0, rom |-> rom, dmem |-> dmem ]

(* The cause of the trap the instruction takes, 0 for none.  A misaligned    *)
(* access to the CSR page is reported as misaligned.                         *)
ex_trap_cause(w, address) ==
  LET op         == opcode(w)
      size       == memSize(op)
      mem        == memRead(op) \/ memWrite(op)
      misaligned == mem /\ address % size # 0
      csr_bad    == mem /\ in_csr_page(address)
                        /\ (memWrite(op) \/ size # 4 \/ address \notin VALID_CSRS)
      unmapped   == mem /\ ~in_csr_page(address)
                        /\ ~(address < RamSize /\ address + size - 1 < RamSize)
  IN  IF illegal(w) THEN 6
      ELSE IF misaligned THEN (IF memRead(op) THEN 1 ELSE 2)
      ELSE IF csr_bad THEN 5
      ELSE IF unmapped THEN (IF memRead(op) THEN 3 ELSE 4)
      ELSE 0

csr_rdata(c, a) == CASE a = CSR_INSTRET -> u32(c.retired)
                     [] a = CSR_EPC     -> c.epc
                     [] a = CSR_CAUSE   -> c.cause

(* The row the instruction at c.pc leaves in the trace. *)
row(c) ==
  LET w        == word_at(c.rom, c.pc)
      op       == opcode(w)
      fwdA     == c.gpr[rs(w)]
      fwdB     == c.gpr[rt(w)]
      result   == alu(aluOp(op), funct(w), fwdA, IF aluSrc(op) THEN immExt(w) ELSE fwdB, shamt(w))
      cause    == ex_trap_cause(w, result)
      trap     == cause # 0
      next     == u32(c.pc + 4)
      taken    == branch(op) /\ (IF op = 5 THEN fwdA # fwdB ELSE fwdA = fwdB)
      offset   == result % 4
      load     == ~trap /\ memRead(op)
      stored   == ~trap /\ memWrite(op)
      raw      == IF in_csr_page(result) THEN csr_rdata(c, result) ELSE c.dmem[result - offset]
      loaded   == IF in_csr_page(result) THEN raw
                  ELSE load_extend(raw, memSize(op), offset, loadSigned(op))
      rd_we    == ~trap /\ regWrite(op) /\ regDest(w) # 0
  IN  [ epoch |-> 0, event_order |-> c.events, retire_order |-> c.retired,
        cycle |-> c.events, uid |-> c.events,
        trap |-> IF trap THEN 1 ELSE 0, pc |-> c.pc, instr |-> w,
        next_pc |-> CASE trap -> TRAP_VECTOR
                      [] ~trap /\ taken    -> u32(next + 4 * immExt(w))
                      [] ~trap /\ jump(op) -> jump_target(w, next)
                      [] ~trap /\ op = 24  -> c.epc
                      [] OTHER -> next,
        rd_we |-> IF rd_we THEN 1 ELSE 0,
        rd |-> IF rd_we THEN regDest(w) ELSE 0,
        rd_data |-> CASE ~rd_we -> 0 [] rd_we /\ op = 3 -> next [] rd_we /\ load -> loaded [] OTHER -> result,
        mem_valid |-> IF load \/ stored THEN 1 ELSE 0,
        mem_write |-> IF stored THEN 1 ELSE 0,
        mem_addr |-> IF load \/ stored THEN result ELSE 0,
        mem_size |-> IF load \/ stored THEN memSize(op) ELSE 0,
        store_data |-> IF stored THEN fwdB ELSE 0,
        bus_wdata |-> IF stored THEN ex_store_aligned(memSize(op), offset, fwdB) ELSE 0,
        wstrb |-> IF stored THEN ex_store_strobe(memSize(op), offset) ELSE 0,
        load_raw |-> IF load THEN raw ELSE 0,
        load_value |-> IF load THEN loaded ELSE 0,
        cause |-> cause, epc |-> IF trap THEN c.pc ELSE 0 ]

(* The core after it. *)
retired(c, r) ==
  LET word == r.mem_addr - (r.mem_addr % 4)
  IN  [ c EXCEPT !.pc = r.next_pc,
                 !.gpr = IF r.rd_we = 1 THEN [@ EXCEPT ![r.rd] = r.rd_data] ELSE @,
                 !.epc = IF r.trap = 1 THEN r.epc ELSE @,
                 !.cause = IF r.trap = 1 THEN r.cause ELSE @,
                 !.events = @ + 1,
                 !.retired = IF r.trap = 1 THEN @ ELSE @ + 1,
                 !.dmem = IF r.mem_write = 1
                          THEN [@ EXCEPT ![word] = written(@, r.bus_wdata, r.wstrb)] ELSE @ ]
=============================================================================
