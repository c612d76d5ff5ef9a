------------------------------- MODULE WordIss -------------------------------
(* The reference model of verification/iss.py down to its words and bytes:   *)
(* one step as a function of its state s, which is program, pc, gpr, epc,    *)
(* cause, memory (a byte per RAM address) and the counters of its events.    *)
(* Iss describes the same step over abstract values, for the pipeline.       *)
EXTENDS Words

-----------------------------------------------------------------------------
(* SparseMemory *)

contains(a, size) == a + size <= RamSize

load_u(mem, a, size) == MapThenSumSet(LAMBDA lane : mem[a + lane] * 2^(ByteBits * lane), 0 .. size - 1)

load_s(mem, a, size) == u32(signed(load_u(mem, a, size), size * ByteBits))

store(mem, a, size, value) ==
  [ x \in DOMAIN mem |->
      IF x \in a .. a + size - 1 THEN bits(value, ByteBits * (x - a), ByteBits) ELSE mem[x] ]

dump_words(mem) == [a \in {x \in DOMAIN mem : x % 4 = 0} |-> load_u(mem, a, 4)]

-----------------------------------------------------------------------------
start(program, entry, mem) ==
  [ program |-> program, entry |-> entry, pc |-> entry, gpr |-> [r \in Register |-> 0],
    epc |-> 0, cause |-> 0, epoch |-> 0, events |-> 0, retired |-> 0, memory |-> mem ]

(* Core state restarts; the external RAM keeps its contents. *)
reset(s) == [start(s.program, s.entry, s.memory) EXCEPT !.epoch = s.epoch + 1]

instr(s) == word_at(s.program, s.pc)

(* cycle and uid are bookkeeping: the model numbers its events. *)
base_event(s, npc) ==
  [ epoch |-> s.epoch, event_order |-> s.events, retire_order |-> s.retired,
    cycle |-> s.events, uid |-> s.events, trap |-> 0, pc |-> s.pc, instr |-> instr(s),
    next_pc |-> npc, rd_we |-> 0, rd |-> 0, rd_data |-> 0,
    mem_valid |-> 0, mem_write |-> 0, mem_addr |-> 0, mem_size |-> 0, store_data |-> 0,
    bus_wdata |-> 0, wstrb |-> 0, load_raw |-> 0, load_value |-> 0, cause |-> 0, epc |-> 0 ]

trap_event(s, cause) ==
  [base_event(s, TRAP_VECTOR) EXCEPT !.trap = 1, !.cause = cause, !.epc = s.pc]

(* An instruction that targets r0 retires without a write. *)
write_event(s, npc, reg, value) ==
  IF reg = 0 THEN base_event(s, npc)
  ELSE [base_event(s, npc) EXCEPT !.rd_we = 1, !.rd = reg, !.rd_data = u32(value)]

load_event(s, a, size, raw, value) ==
  [ write_event(s, u32(s.pc + 4), rt(instr(s)), value)
      EXCEPT !.mem_valid = 1, !.mem_addr = a, !.mem_size = size,
             !.load_raw = raw, !.load_value = value ]

(* The timing-dependent CSRs need a provider that no run here gives. *)
read_csr(s, a) == CASE a = CSR_INSTRET -> u32(s.retired)
                    [] a = CSR_EPC     -> s.epc
                    [] a = CSR_CAUSE   -> s.cause

bus_wdata(a, size, value) == u32(bits(value, 0, size * ByteBits) * 2^(ByteBits * (a % 4)))
bus_wstrb(a, size)        == CASE size = 1 -> 2^(a % 4) [] size = 2 -> 3 * 2^(a % 4) [] OTHER -> 15

store_event(s, a, size) ==
  LET value == s.gpr[rt(instr(s))]
  IN  [ base_event(s, u32(s.pc + 4))
          EXCEPT !.mem_valid = 1, !.mem_write = 1, !.mem_addr = a, !.mem_size = size,
                 !.store_data = value,
                 !.bus_wdata = IF size = 4 THEN value ELSE bus_wdata(a, size, value),
                 !.wstrb = bus_wstrb(a, size) ]

access_size(op) == CASE op \in {32, 36, 40} -> 1 [] op \in {33, 37, 41} -> 2 [] op \in {35, 43} -> 4

memory_event(s) ==
  LET op         == opcode(instr(s))
      is_store   == op \in {40, 41, 43}
      size       == access_size(op)
      a          == u32(s.gpr[rs(instr(s))] + sext16(immediate(instr(s))))
      misaligned == ~in_csr_page(a) /\ a % size # 0
      unmapped   == ~in_csr_page(a) /\ ~misaligned /\ ~contains(a, size)
      value      == IF op \in {32, 33} THEN load_s(s.memory, a, size) ELSE load_u(s.memory, a, size)
  IN  CASE in_csr_page(a) ->
             IF op # 35 \/ a \notin VALID_CSRS THEN trap_event(s, 5)
             ELSE load_event(s, a, 4, read_csr(s, a), read_csr(s, a))
        [] misaligned -> trap_event(s, IF is_store THEN 2 ELSE 1)
        [] unmapped   -> trap_event(s, IF is_store THEN 4 ELSE 3)
        [] OTHER      -> IF is_store THEN store_event(s, a, size)
                         ELSE load_event(s, a, size, load_u(s.memory, a - (a % 4), 4), value)

(* The result of the register-register operations, by their funct code. *)
Functs == {0, 2, 3, 32, 33, 34, 35, 36, 37, 38, 39, 42}

register_result(fn, a, b, sh) ==
  CASE fn \in {32, 33} -> u32(a + b)
    [] fn \in {34, 35} -> u32(a - b)
    [] fn = 36 -> a & b
    [] fn = 37 -> a | b
    [] fn = 38 -> a ^^ b
    [] fn = 39 -> nor(a, b)
    [] fn = 42 -> IF s32(a) < s32(b) THEN 1 ELSE 0
    [] fn = 0  -> u32(b * 2^sh)
    [] fn = 2  -> b \div 2^sh
    [] fn = 3  -> u32(s32(b) \div 2^sh)

ERET == 24 * 2^(WordBits - 6)

(* The event of the instruction at s.pc. *)
step_event(s) ==
  LET w    == instr(s)
      op   == opcode(w)
      imm  == immediate(w)
      next == u32(s.pc + 4)
      a    == s.gpr[rs(w)]
      b    == s.gpr[rt(w)]
  IN  CASE op = 0 /\ funct(w) \in Functs ->
             write_event(s, next, rd(w), register_result(funct(w), a, b, shamt(w)))
        [] op = 8  -> write_event(s, next, rt(w), a + sext16(imm))
        [] op = 12 -> write_event(s, next, rt(w), a & imm)
        [] op = 13 -> write_event(s, next, rt(w), a | imm)
        [] op = 14 -> write_event(s, next, rt(w), a ^^ imm)
        [] op = 15 -> write_event(s, next, rt(w), imm * 2^ImmBits)
        [] op \in {32, 33, 35, 36, 37, 40, 41, 43} -> memory_event(s)
        [] op \in {4, 5} ->
             base_event(s, IF (a = b) = (op = 4) THEN u32(next + 4 * sext16(imm)) ELSE next)
        [] op = 2  -> base_event(s, jump_target(w, next))
        [] op = 3  -> write_event(s, jump_target(w, next), LinkReg, next)
        [] w = ERET -> base_event(s, s.epc)
        [] OTHER   -> trap_event(s, 6)

(* The state after an event: the instruction retired, or trapped. *)
after(s, e) ==
  [ s EXCEPT !.pc = e.next_pc,
             !.gpr = IF e.rd_we = 1 THEN [@ EXCEPT ![e.rd] = e.rd_data] ELSE @,
             !.epc = IF e.trap = 1 THEN s.pc ELSE @,
             !.cause = IF e.trap = 1 THEN e.cause ELSE @,
             !.events = @ + 1,
             !.retired = IF e.trap = 1 THEN @ ELSE @ + 1,
             !.memory = IF e.mem_write = 1 THEN store(@, e.mem_addr, e.mem_size, e.store_data) ELSE @ ]
=============================================================================
