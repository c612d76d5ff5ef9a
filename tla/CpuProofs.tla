------------------------------ MODULE CpuProofs ------------------------------
(* What Cpu promises, for every program, memory, latency, predictor size and *)
(* bus behaviour: each register keeps its type, the load or store in MEM and *)
(* the RAM agree, operands are not lost, the fetched path is the predicted   *)
(* one, only branches are predicted away from, and the core implements Isa,  *)
(* the reference model of verification/iss.py.                               *)
EXTENDS Cpu, FrontEndFacts, FiniteSetTheorems, SequenceTheorems, TLAPS

RomFacts == INSTANCE BusSlaveFacts WITH slot <- islot, mem <- imem, WaitMax <- IWaitMax,
                                        Addr <- Pc, Data <- Instr, Zero <- Nop
RamFacts == INSTANCE BusSlaveFacts WITH slot <- dslot, mem <- dmem, WaitMax <- DWaitMax,
                                        Addr <- RamAddr, Data <- Val, Zero <- 0

(* The core and the ROM agree on who owns the one fetch of the bus, and the  *)
(* word offered for it is the program's.                                     *)
FetchOwnership ==
  /\ if_out.valid <=> Rom!Occupied
  /\ ~(islot.busy /\ islot.resp_valid)
  /\ islot.wdata = NoWrite
  /\ if_out.valid => islot.addr = if_out.pc
  /\ islot.resp_valid => islot.resp_data = imem[if_out.pc]

(* What EX lets through to MEM without a trap is a legal access.             *)
LegalAccess ==
  EX_MEM.valid /\ ~EX_MEM.trap /\ (memRead(EX_MEM.instr) \/ memWrite(EX_MEM.instr)) =>
    IF EX_MEM.alu \in CsrPage
      THEN memRead(EX_MEM.instr) /\ EX_MEM.alu \in {CSR_INSTRET, CSR_EPC, CSR_CAUSE}
      ELSE EX_MEM.alu \in RamAddr

(* Every entry of the table was written for a branch of the program, with    *)
(* the target that branch has.                                               *)
TargetsSound ==
  \A k \in 0 .. BtbEntries - 1 : btb[k].valid =>
    branch(imem[btb[k].tag]) /\ btb[k].target = imem[btb[k].tag].target

(* An answer the RAM holds back is still the word that is there. *)
RamAnswers ==
  /\ ~(dslot.busy /\ dslot.resp_valid)
  /\ dslot.resp_valid /\ dslot.wdata = NoWrite => dslot.resp_data = dmem[dslot.addr]

(* Register 0 is never written. *)
ZeroRegister == rf[0] = 0

CpuInv ==
  /\ TypeOK /\ AtMostOneFetch /\ PathInOrder
  /\ FetchOwnership /\ LegalAccess /\ TargetsSound /\ RamAnswers
  /\ DataOwnership /\ OperandsFresh /\ ZeroRegister

-----------------------------------------------------------------------------
(* What the wires of one cycle carry.                                        *)

(* Values are closed under the adders of the core, and cover the constants.  *)
LEMMA ValFacts ==
  /\ Pc \subseteq Val /\ RamAddr \subseteq Val /\ 0 \in Val /\ 0 \in Reg /\ Link \in Reg
  /\ {CauseMisalignedLoad, CauseMisalignedStore, CauseUnmappedLoad, CauseUnmappedStore,
      CauseCsr, CauseIllegal} \subseteq Val
  /\ Nop \in Instr /\ TRAP_VEC \in Pc
  /\ \A x, y \in Val : Plus(x, y) \in Val
<1> USE ArchAssumption, PcCountAssumption
<1>1. Pc \subseteq Val /\ RamAddr \subseteq Val /\ 0 \in Val /\ 0 \in Pc
  BY DEF Pc, Val, CauseIllegal
<1>2. {CauseMisalignedLoad, CauseMisalignedStore, CauseUnmappedLoad, CauseUnmappedStore,
       CauseCsr, CauseIllegal} \subseteq Val
  BY DEF CauseMisalignedLoad, CauseMisalignedStore, CauseUnmappedLoad, CauseUnmappedStore,
         CauseCsr, CauseIllegal, Val
<1>3. 0 \in Reg /\ Link \in Reg
  BY DEF Reg, Link
<1>4. Nop \in Instr /\ TRAP_VEC \in Pc
  BY <1>1, <1>3 DEF Nop, Instr, Op
<1>5. ValCount \in Nat /\ ValCount > 0
  BY DEF CauseIllegal
<1>6. ASSUME NEW x \in Val, NEW y \in Val PROVE Plus(x, y) \in Val
  <2>1. x + y \in Nat
    BY <1>5 DEF Val
  <2>2. \A n \in Nat : n % ValCount \in 0 .. ValCount - 1
    BY <1>5
  <2> QED BY <2>1, <2>2 DEF Plus, Val
<1> QED BY <1>1, <1>2, <1>3, <1>4, <1>6

(* Fields of the pipeline registers. *)
LEMMA BackTypes ==
  ASSUME TypeOK
  PROVE  /\ ID_EX.valid \in BOOLEAN /\ ID_EX.pc \in Pc /\ ID_EX.pnext \in Pc
         /\ ID_EX.instr \in Instr /\ ID_EX.a \in Val /\ ID_EX.b \in Val
         /\ EX_MEM.valid \in BOOLEAN /\ EX_MEM.pc \in Pc /\ EX_MEM.next_pc \in Pc
         /\ EX_MEM.instr \in Instr /\ EX_MEM.trap \in BOOLEAN /\ EX_MEM.cause \in Val
         /\ EX_MEM.alu \in Val /\ EX_MEM.sdata \in Val /\ EX_MEM.accepted \in BOOLEAN
         /\ MEM_WB.valid \in BOOLEAN /\ MEM_WB.pc \in Pc /\ MEM_WB.next_pc \in Pc
         /\ MEM_WB.instr \in Instr /\ MEM_WB.trap \in BOOLEAN /\ MEM_WB.cause \in Val
         /\ MEM_WB.result \in Val /\ MEM_WB.addr \in Val /\ MEM_WB.sdata \in Val
  BY DEF TypeOK, Decoded, Memory, Written

(* What an instruction word says of itself. *)
LEMMA InstrFacts ==
  ASSUME NEW i \in Instr
  PROVE  /\ i.rs \in Reg /\ i.rt \in Reg /\ i.rd \in Reg /\ i.imm \in Val /\ i.target \in Pc
         /\ regDest(i) \in Reg
         /\ usesRs(i) \in BOOLEAN /\ usesRt(i) \in BOOLEAN /\ regWrite(i) \in BOOLEAN
         /\ memRead(i) \in BOOLEAN /\ memWrite(i) \in BOOLEAN /\ branch(i) \in BOOLEAN
         /\ jump(i) \in BOOLEAN
  BY ValFacts DEF Instr, regDest, usesRs, usesRt, regWrite, memRead, memWrite, branch, jump

(* MEM: its result is a value, its request a request. *)
LEMMA MemWires ==
  ASSUME TypeOK
  PROVE  /\ exmem_csr_read \in BOOLEAN /\ exmem_external_mem \in BOOLEAN
         /\ dbus_req_valid \in BOOLEAN /\ dbus_resp_ready \in BOOLEAN
         /\ exmem_complete \in BOOLEAN /\ exmem_can_accept \in BOOLEAN
         /\ exmem_result_ready \in BOOLEAN /\ wb_commit_we \in BOOLEAN
         /\ dbus_req_wdata \in Val \union {NoWrite}
         /\ csr_rdata \in Val /\ exmem_result_value \in Val
<1> USE BackTypes, ValFacts
<1>1. instret \in Val /\ epc \in Val /\ cause \in Val /\ Plus(instret, 1) \in Val
  <2>1. 1 \in Val
    BY DEF CauseMisalignedLoad
  <2> QED BY <2>1 DEF TypeOK
<1>2. csr_rdata \in Val
  BY <1>1 DEF csr_rdata
<1>3. dslot.resp_data \in Val
  BY DEF TypeOK, Ram!Slot
<1>4. Plus4(EX_MEM.pc) \in Val
  BY Plus4Type
<1>5. exmem_result_value \in Val
  BY <1>2, <1>3, <1>4 DEF exmem_result_value
<1>6. dbus_req_wdata \in Val \union {NoWrite}
  BY DEF dbus_req_wdata
<1>7. /\ exmem_csr_read \in BOOLEAN /\ exmem_external_mem \in BOOLEAN
      /\ dbus_req_valid \in BOOLEAN /\ dbus_resp_ready \in BOOLEAN
      /\ exmem_result_ready \in BOOLEAN /\ wb_commit_we \in BOOLEAN
  BY DEF exmem_csr_read, exmem_external_mem, dbus_req_valid, dbus_resp_ready,
         exmem_result_ready, wb_commit_we
<1>8. exmem_complete \in BOOLEAN
  BY DEF exmem_complete
<1> QED BY <1>2, <1>5, <1>6, <1>7, <1>8 DEF exmem_can_accept

(* EX: operands and result are values, the successor is a program counter.   *)
LEMMA ExWires ==
  ASSUME TypeOK
  PROVE  /\ fwdA \in Val /\ fwdB \in Val /\ alu_result \in Val
         /\ forward_blocked \in BOOLEAN /\ idex_fire \in BOOLEAN /\ ex_trap \in BOOLEAN
         /\ ex_trap_cause \in Val /\ actual_next \in Pc
         /\ resolve_redirect \in BOOLEAN /\ load_hazard \in BOOLEAN
         /\ idex_slot_available \in BOOLEAN
<1> USE BackTypes, ValFacts
<1>1. exmem_result_value \in Val /\ exmem_can_accept \in BOOLEAN
  BY MemWires
<1>2. fwdA \in Val /\ fwdB \in Val
  BY <1>1 DEF fwdA, fwdB, forward
<1>3. ID_EX.instr.imm \in Val /\ ID_EX.instr.target \in Pc
  BY InstrFacts
<1>4. alu_result \in Val
  BY <1>2, <1>3 DEF alu_result, alu
<1>5. ex_trap \in BOOLEAN
  BY DEF ex_trap, ex_illegal, ex_misaligned, ex_csr_bad, ex_unmapped
<1>6. ex_trap_cause \in Val
  BY DEF ex_trap_cause
<1>7. actual_next \in Pc
  BY <1>3, Plus4Type DEF actual_next, TypeOK
<1>8. forward_blocked \in BOOLEAN /\ idex_fire \in BOOLEAN
  BY <1>1 DEF forward_blocked, blocked, ex_match, idex_fire
<1>9. resolve_redirect \in BOOLEAN /\ load_hazard \in BOOLEAN /\ idex_slot_available \in BOOLEAN
  BY <1>5, <1>8 DEF resolve_redirect, load_hazard, idex_slot_available
<1> QED BY <1>2, <1>4, <1>5, <1>6, <1>7, <1>8, <1>9

(* The predictor predicts a program counter. *)
LEMMA PredType == TypeOK => \A pc \in Pc : launch_pred(pc) \in Pc
<1> SUFFICES ASSUME TypeOK, NEW pc \in Pc PROVE launch_pred(pc) \in Pc
  OBVIOUS
<1>1. pc % BtbEntries \in 0 .. BtbEntries - 1
  BY BpuAssumption DEF Pc
<1>2. btb[pc % BtbEntries].target \in Pc
  BY <1>1 DEF TypeOK, BpuTypeOK, BtbEntry
<1> QED BY <1>2, Plus4Type DEF launch_pred, pred_target

-----------------------------------------------------------------------------
(* One clock edge, with the wires named and each memory's part told apart.   *)
CoreEdge(e, irdy, open, halt) ==
  /\ SoundWires(e, Instr)
  /\ (e.redirect <=> resolve_redirect) /\ e.target = actual_next
  /\ e.issue <=> idex_slot_available /\ ~load_hazard
  /\ (e.halt <=> verification_halt) /\ e.pnext = launch_pred(fetch_pc)
  /\ e.resp_valid = islot.resp_valid /\ e.resp_data = islot.resp_data
  /\ irdy \in BOOLEAN /\ (irdy => Rom!req_ready(ibus_resp_ready(e)))
  /\ FrontEdge(e, irdy)
  /\ BpuEdge(idex_fire /\ branch(ID_EX.instr) /\ ~ex_trap, ID_EX.pc,
             taken(ID_EX.instr, fwdA, fwdB), ID_EX.instr.target)
  /\ ID_EX' = NextIdEx(e) /\ EX_MEM' = NextExMem(open) /\ MEM_WB' = NextMemWb
  /\ RegFileEdge /\ CsrEdge /\ TraceEdge
  /\ dheld' = IF dbus_req_valid /\ ~dbus_req_fire(open)
                THEN [valid |-> TRUE, addr |-> EX_MEM.alu, data |-> dbus_req_wdata]
                ELSE NoneHeld
  /\ verification_halt' = halt
  /\ RomFacts!Outcome(ibus_req_fire(e, irdy), active_req(e).addr, NoWrite, ibus_resp_ready(e))
  /\ islot' \in Rom!Slot /\ islot'.wdata = NoWrite /\ imem' = imem
  /\ RamFacts!Outcome(dbus_req_fire(open), EX_MEM.alu, dbus_req_wdata, dbus_resp_ready)
  /\ dslot' \in Ram!Slot /\ dmem' \in [RamAddr -> Val]

(* The wires as Cpu connects them are wires of the front end. *)
LEMMA WiresSound ==
  ASSUME TypeOK, NEW en \in BOOLEAN, ~(en /\ verification_halt)
  PROVE  SoundWires(Wires(en), Instr)
<1>1. /\ resolve_redirect \in BOOLEAN /\ actual_next \in Pc
      /\ (idex_slot_available /\ ~load_hazard) \in BOOLEAN
  BY ExWires
<1>2. launch_pred(fetch_pc) \in Pc
  BY PredType DEF TypeOK, FrontTypeOK
<1>3. islot.resp_valid \in BOOLEAN /\ islot.resp_data \in Instr /\ verification_halt \in BOOLEAN
  BY DEF TypeOK, Rom!Slot
<1> QED BY <1>1, <1>2, <1>3 DEF SoundWires, Wires

(* The two memories are memories of BusSlave. *)
LEMMA SlaveFacts ==
  ASSUME TypeOK
  PROVE  /\ RomFacts!SlaveTypes /\ RamFacts!SlaveTypes
         /\ RomFacts!Slot = Rom!Slot /\ RamFacts!Slot = Ram!Slot
         /\ \A fire, addr, wdata, ready, wait :
              /\ Rom!SlaveEdge(fire, addr, wdata, ready, wait)
                   => RomFacts!SlaveEdge(fire, addr, wdata, ready, wait)
              /\ Ram!SlaveEdge(fire, addr, wdata, ready, wait)
                   => RamFacts!SlaveEdge(fire, addr, wdata, ready, wait)
<1>1. RomFacts!Slot = Rom!Slot /\ RamFacts!Slot = Ram!Slot
  BY DEF RomFacts!Slot, RamFacts!Slot, Rom!Slot, Ram!Slot
<1>2. RomFacts!SlaveTypes /\ RamFacts!SlaveTypes
  BY <1>1, CpuAssumption DEF TypeOK, RomFacts!SlaveTypes, RamFacts!SlaveTypes
<1>3. ASSUME NEW fire, NEW addr, NEW wdata, NEW ready, NEW wait
      PROVE  Rom!SlaveEdge(fire, addr, wdata, ready, wait)
               => RomFacts!SlaveEdge(fire, addr, wdata, ready, wait)
  BY DEF Rom!SlaveEdge, Rom!Accept, Rom!Work, Rom!Respond, Rom!Written, RomFacts!SlaveEdge,
         RomFacts!Accept, RomFacts!Work, RomFacts!Respond, RomFacts!Written
<1>4. ASSUME NEW fire, NEW addr, NEW wdata, NEW ready, NEW wait
      PROVE  Ram!SlaveEdge(fire, addr, wdata, ready, wait)
               => RamFacts!SlaveEdge(fire, addr, wdata, ready, wait)
  BY DEF Ram!SlaveEdge, Ram!Accept, Ram!Work, Ram!Respond, Ram!Written, RamFacts!SlaveEdge,
         RamFacts!Accept, RamFacts!Work, RamFacts!Respond, RamFacts!Written
<1> QED BY <1>1, <1>2, <1>3, <1>4

(* The wires of an edge, and whether the ROM takes a request on it. *)
Driven(en) == Wires(en /\ ~verification_halt)
RomReady(en, iopen) == iopen /\ Rom!req_ready(ibus_resp_ready(Driven(en)))

(* Every Tick is such an edge. *)
LEMMA TickIsEdge ==
  ASSUME TypeOK, FetchOwnership, LegalAccess, NEW en \in BOOLEAN, NEW iopen \in BOOLEAN,
         NEW open \in BOOLEAN, NEW halt, Tick(en, iopen, open, halt)
  PROVE  CoreEdge(Driven(en), RomReady(en, iopen), open, halt)
<1> DEFINE e == Wires(en /\ ~verification_halt)
           irdy == iopen /\ Rom!req_ready(ibus_resp_ready(e))
           fetch == ibus_req_fire(e, irdy)
           access == dbus_req_fire(open)
<1>1. /\ (e.redirect <=> resolve_redirect) /\ e.target = actual_next
      /\ e.issue <=> idex_slot_available /\ ~load_hazard
      /\ (e.halt <=> verification_halt) /\ e.pnext = launch_pred(fetch_pc)
      /\ e.resp_valid = islot.resp_valid /\ e.resp_data = islot.resp_data
  BY DEF Wires
<1>2. SoundWires(e, Instr)
  <2>1. verification_halt \in BOOLEAN
    BY DEF TypeOK
  <2> QED BY <2>1, WiresSound
<1>3. /\ FrontEdge(e, irdy)
      /\ BpuEdge(idex_fire /\ branch(ID_EX.instr) /\ ~ex_trap, ID_EX.pc,
                 taken(ID_EX.instr, fwdA, fwdB), ID_EX.instr.target)
      /\ ID_EX' = NextIdEx(e) /\ EX_MEM' = NextExMem(open) /\ MEM_WB' = NextMemWb
      /\ RegFileEdge /\ CsrEdge /\ TraceEdge
      /\ dheld' = IF dbus_req_valid /\ ~dbus_req_fire(open)
                    THEN [valid |-> TRUE, addr |-> EX_MEM.alu, data |-> dbus_req_wdata]
                    ELSE NoneHeld
      /\ verification_halt' = halt
  BY DEF Tick, Clock
<1>4. \E wait \in 0 .. IWaitMax :
        Rom!SlaveEdge(fetch, active_req(e).addr, NoWrite, ibus_resp_ready(e), wait)
  BY DEF Tick, Clock
<1>5. \E wait \in 0 .. DWaitMax :
        Ram!SlaveEdge(access, EX_MEM.alu, dbus_req_wdata, dbus_resp_ready, wait)
  BY DEF Tick, Clock
<1>6. irdy \in BOOLEAN /\ (irdy => Rom!req_ready(ibus_resp_ready(e)))
  BY DEF Rom!req_ready
<1> HIDE DEF e, irdy
<1>7. fetch \in BOOLEAN /\ ibus_resp_ready(e) \in BOOLEAN /\ active_req(e).addr \in Pc
  BY <1>2, <1>6, FrontWires DEF TypeOK
<1>8. /\ access \in BOOLEAN /\ dbus_resp_ready \in BOOLEAN
      /\ access => EX_MEM.alu \in RamAddr /\ dbus_req_wdata \in Val \union {NoWrite}
  BY MemWires DEF dbus_req_fire, Ram!req_ready, dbus_req_valid, exmem_external_mem, LegalAccess
<1> HIDE DEF fetch, access
<1>9. /\ islot' \in Rom!Slot
      /\ RomFacts!Outcome(fetch, active_req(e).addr, NoWrite, ibus_resp_ready(e))
  <2>1. PICK wait \in 0 .. IWaitMax :
          RomFacts!SlaveEdge(fetch, active_req(e).addr, NoWrite, ibus_resp_ready(e), wait)
    BY <1>4, SlaveFacts
  <2>2. RomFacts!SlaveTypes
    BY SlaveFacts
  <2>3. islot' \in RomFacts!Slot
        /\ RomFacts!Outcome(fetch, active_req(e).addr, NoWrite, ibus_resp_ready(e))
    BY <1>7, <2>1, <2>2, RomFacts!SlaveCases
  <2> QED BY <2>3, SlaveFacts
<1>10. islot'.wdata = NoWrite /\ imem' = imem
  BY <1>7, <1>9, RomFacts!ReadsKeepWords DEF FetchOwnership
<1>11. /\ dslot' \in Ram!Slot /\ dmem' \in [RamAddr -> Val]
       /\ RamFacts!Outcome(access, EX_MEM.alu, dbus_req_wdata, dbus_resp_ready)
  <2>1. PICK wait \in 0 .. DWaitMax :
          RamFacts!SlaveEdge(access, EX_MEM.alu, dbus_req_wdata, dbus_resp_ready, wait)
    BY <1>5, SlaveFacts
  <2>2. RamFacts!SlaveTypes
    BY SlaveFacts
  <2>3. dslot' \in RamFacts!Slot /\ dmem' \in [RamAddr -> Val]
        /\ RamFacts!Outcome(access, EX_MEM.alu, dbus_req_wdata, dbus_resp_ready)
    BY <1>8, <2>1, <2>2, RamFacts!SlaveCases
  <2> QED BY <2>3, SlaveFacts
<1>12. CoreEdge(e, irdy, open, halt)
  BY <1>1, <1>2, <1>3, <1>6, <1>9, <1>10, <1>11 DEF CoreEdge, fetch, access
<1> QED BY <1>12 DEF e, irdy, Driven, RomReady

-----------------------------------------------------------------------------
(* Type correctness.                                                         *)

(* The predictor's tables keep their types. *)
LEMMA BpuType ==
  ASSUME BpuTypeOK, NEW update \in BOOLEAN, NEW pc \in Pc, NEW up \in BOOLEAN,
         NEW target \in Pc, BpuEdge(update, pc, up, target)
  PROVE  BpuTypeOK'
<1>1. pc % BhtEntries \in 0 .. BhtEntries - 1 /\ pc % BtbEntries \in 0 .. BtbEntries - 1
  BY BpuAssumption DEF Pc
<1>2. \A count \in 0 .. 3 : Stepped(count, up) \in 0 .. 3
  BY DEF Stepped
<1>3. bht' \in [0 .. BhtEntries - 1 -> 0 .. 3]
  BY <1>1, <1>2 DEF BpuTypeOK, BpuEdge
<1>4. [valid |-> TRUE, tag |-> pc, target |-> target] \in BtbEntry
  BY DEF BtbEntry
<1>5. btb' \in [0 .. BtbEntries - 1 -> BtbEntry]
  BY <1>1, <1>4 DEF BpuTypeOK, BpuEdge
<1> QED BY <1>3, <1>5 DEF BpuTypeOK

(* So do the registers between the stages. *)
LEMMA BackType ==
  ASSUME TypeOK, NEW e, NEW irdy, NEW open \in BOOLEAN, NEW halt, CoreEdge(e, irdy, open, halt)
  PROVE  ID_EX' \in Decoded /\ EX_MEM' \in Memory /\ MEM_WB' \in Written
<1> USE BackTypes, ValFacts
<1>1. /\ ID_EX \in Decoded /\ EX_MEM \in Memory /\ MEM_WB \in Written
  BY DEF TypeOK
<1>2. /\ exmem_result_value \in Val
      /\ exmem_complete \in BOOLEAN
      /\ dbus_req_fire(open) \in BOOLEAN
  BY MemWires DEF dbus_req_fire, Ram!req_ready
<1>3. /\ fwdA \in Val /\ fwdB \in Val /\ alu_result \in Val /\ ex_trap \in BOOLEAN
      /\ ex_trap_cause \in Val /\ actual_next \in Pc
  BY ExWires
<1>4. ID_EX' \in Decoded
  <2>1. IF_ID \in Fetched(Instr) /\ IF_ID.instr \in Instr
    BY DEF TypeOK, FrontTypeOK, Fetched
  <2>2. \A r \in Reg, uses \in BOOLEAN : dec_regData(r, uses) \in Val
    BY DEF dec_regData, TypeOK
  <2>3. /\ dec_regData(IF_ID.instr.rs, usesRs(IF_ID.instr)) \in Val
        /\ dec_regData(IF_ID.instr.rt, usesRt(IF_ID.instr)) \in Val
    BY <2>1, <2>2, InstrFacts
  <2>4. ID_EX' = NextIdEx(e)
    BY DEF CoreEdge
  <2> QED BY <1>1, <1>3, <2>1, <2>3, <2>4 DEF NextIdEx, Decoded, HeldIdEx, Fetched
<1>5. EX_MEM' \in Memory
  <2>1. EX_MEM' = NextExMem(open)
    BY DEF CoreEdge
  <2> QED BY <1>1, <1>2, <1>3, <2>1 DEF NextExMem, Memory
<1>6. MEM_WB' \in Written
  <2>1. MEM_WB' = NextMemWb
    BY DEF CoreEdge
  <2> QED BY <1>1, <1>2, <2>1 DEF NextMemWb, Written
<1> QED BY <1>4, <1>5, <1>6

(* The event of the instruction in MEM/WB is an event. *)
LEMMA RetiringType == TypeOK => RetiringEvent \in Event
<1> SUFFICES ASSUME TypeOK PROVE RetiringEvent \in Event
  OBVIOUS
<1> USE BackTypes, ValFacts
<1>1. regDest(MEM_WB.instr) \in Reg
  BY InstrFacts
<1> QED BY <1>1 DEF RetiringEvent, Event

(* So do the register file, the CSRs, the trace and the monitor. *)
LEMMA StateType ==
  ASSUME TypeOK, LegalAccess, NEW e, NEW irdy, NEW open \in BOOLEAN, NEW halt,
         CoreEdge(e, irdy, open, halt)
  PROVE  /\ rf' \in [Reg -> Val]
         /\ instret' \in Val /\ epc' \in Pc /\ cause' \in Val
         /\ trace_valid' \in BOOLEAN /\ trace' \in Event /\ event_order_count' \in {0, 1}
         /\ dheld' \in [valid: BOOLEAN, addr: RamAddr, data: Val \union {NoWrite}]
<1> USE BackTypes, ValFacts DEF TypeOK
<1>1. rf' \in [Reg -> Val]
  <2>1. regDest(MEM_WB.instr) \in Reg
    BY InstrFacts
  <2> QED BY <2>1 DEF CoreEdge, RegFileEdge
<1>2. instret' \in Val /\ epc' \in Pc /\ cause' \in Val
  <2>1. 1 \in Val /\ ex_trap_cause \in Val
    BY ExWires DEF CauseMisalignedLoad
  <2>2. Plus(instret, 1) \in Val
    BY <2>1
  <2> QED BY <2>1, <2>2 DEF CoreEdge, CsrEdge
<1>3. trace_valid' \in BOOLEAN /\ trace' \in Event /\ event_order_count' \in {0, 1}
  BY RetiringType DEF CoreEdge, TraceEdge
<1>4. dheld' \in [valid: BOOLEAN, addr: RamAddr, data: Val \union {NoWrite}]
  <2>1. dbus_req_valid => EX_MEM.alu \in RamAddr
    BY MemWires DEF dbus_req_valid, exmem_external_mem, LegalAccess
  <2>2. 0 \in RamAddr
    BY ArchAssumption
  <2> QED BY <2>1, <2>2, MemWires DEF CoreEdge, NoneHeld
<1> QED BY <1>1, <1>2, <1>3, <1>4

(* Every edge keeps every type. *)
LEMMA EdgeType ==
  ASSUME TypeOK, LegalAccess, NEW e, NEW irdy, NEW open \in BOOLEAN, NEW halt \in BOOLEAN,
         CoreEdge(e, irdy, open, halt)
  PROVE  TypeOK'
<1>1. FrontTypeOK(Instr)'
  BY FrontType DEF CoreEdge, TypeOK
<1>2. BpuTypeOK'
  <2>1. /\ (idex_fire /\ branch(ID_EX.instr) /\ ~ex_trap) \in BOOLEAN
        /\ taken(ID_EX.instr, fwdA, fwdB) \in BOOLEAN
    BY DEF taken
  <2>2. ID_EX.pc \in Pc /\ ID_EX.instr.target \in Pc
    BY BackTypes, InstrFacts
  <2> DEFINE update == idex_fire /\ branch(ID_EX.instr) /\ ~ex_trap
             up == taken(ID_EX.instr, fwdA, fwdB)
  <2>3. BpuEdge(update, ID_EX.pc, up, ID_EX.instr.target) /\ BpuTypeOK
    BY DEF CoreEdge, TypeOK
  <2>4. update \in BOOLEAN /\ up \in BOOLEAN
    BY <2>1
  <2> HIDE DEF update, up
  <2> QED BY <2>2, <2>3, <2>4, BpuType
<1>3. /\ islot' \in Rom!Slot /\ imem' \in [Pc -> Instr]
      /\ dslot' \in Ram!Slot /\ dmem' \in [RamAddr -> Val]
      /\ verification_halt' \in BOOLEAN
  BY DEF CoreEdge, TypeOK
<1>4. ID_EX' \in Decoded /\ EX_MEM' \in Memory /\ MEM_WB' \in Written
  BY BackType
<1>5. /\ rf' \in [Reg -> Val]
      /\ instret' \in Val /\ epc' \in Pc /\ cause' \in Val
      /\ trace_valid' \in BOOLEAN /\ trace' \in Event /\ event_order_count' \in {0, 1}
      /\ dheld' \in [valid: BOOLEAN, addr: RamAddr, data: Val \union {NoWrite}]
  BY StateType
<1> QED BY <1>1, <1>2, <1>3, <1>4, <1>5 DEF TypeOK

-----------------------------------------------------------------------------
(* The two buses.                                                            *)

(* The part of the invariant that is about the front end alone. *)
LEMMA FrontPart == CpuInv => FrontInv(Instr) /\ WordsOf(imem)
  BY DEF CpuInv, TypeOK, PathInOrder, FrontInv, Walk, WordsOf

(* No edge makes the core and the ROM disagree on who owns the fetch. *)
LEMMA EdgeFetch ==
  ASSUME CpuInv, NEW e, NEW irdy, NEW open \in BOOLEAN, NEW halt, CoreEdge(e, irdy, open, halt),
         FrontTypeOK(Instr)'
  PROVE  FetchOwnership'
<1> DEFINE ready == ibus_resp_ready(e)
           accept == ibus_req_fire(e, irdy)
<1>1. if_out' = NextOutstanding(e, irdy) /\ irdy \in BOOLEAN /\ SoundWires(e, Instr)
  BY DEF CoreEdge, FrontEdge
<1>2. ready \in BOOLEAN /\ accept \in BOOLEAN /\ active_req(e).addr \in Pc
  BY <1>1, FrontWires DEF CpuInv, TypeOK
<1>3. /\ RomFacts!Outcome(accept, active_req(e).addr, NoWrite, ready) /\ imem' = imem
      /\ islot' \in Rom!Slot /\ islot'.wdata = NoWrite
  BY DEF CoreEdge
<1>4. /\ islot.busy \in BOOLEAN /\ islot.resp_valid \in BOOLEAN
      /\ islot'.busy \in BOOLEAN /\ islot'.resp_valid \in BOOLEAN
      /\ if_out.valid \in BOOLEAN /\ if_out'.valid \in BOOLEAN
  BY <1>3 DEF CpuInv, TypeOK, FrontTypeOK, Outstanding, Rom!Slot
<1>5. /\ ibus_resp_fire(e) <=> (islot.resp_valid /\ ready)
      /\ ready => if_out.valid
      /\ accept => ~islot.busy /\ (~islot.resp_valid \/ ready)
  BY DEF ibus_resp_fire, ibus_resp_ready, ibus_req_fire, CoreEdge, Rom!req_ready
<1> HIDE DEF ready, accept
<1>6. CASE accept
  <2>1. ~(e.halt /\ ibus_resp_fire(e))
    BY <1>1, <1>6 DEF accept, ibus_req_fire, ibus_req_valid, turnover_offer, CpuInv,
                      AtMostOneFetch, SoundWires, ibus_resp_fire, ibus_resp_ready
  <2>2. if_out'.valid /\ if_out'.pc = active_req(e).addr
    BY <1>1, <1>6, <2>1 DEF NextOutstanding, accept
  <2> QED BY <1>3, <1>4, <1>6, <2>2 DEF RomFacts!Outcome, FetchOwnership, Rom!Occupied
<1>7. CASE ~accept
  <2>1. /\ if_out'.valid <=> (if_out.valid /\ ~ibus_resp_fire(e))
        /\ if_out'.pc = if_out.pc
    BY <1>1, <1>4, <1>7 DEF NextOutstanding, accept
  <2> QED
    BY <1>3, <1>4, <1>5, <1>7, <2>1 DEF RomFacts!Outcome, CpuInv, FetchOwnership, Rom!Occupied
<1> QED BY <1>6, <1>7

(* No edge breaks the walk along the predictions, up to ID/EX. *)
LEMMA EdgePath ==
  ASSUME CpuInv, NEW e, NEW irdy, NEW open \in BOOLEAN, NEW halt, CoreEdge(e, irdy, open, halt)
  PROVE  PathInOrder'
<1>1. /\ FrontInv(Instr) /\ WordsOf(imem) /\ SoundWires(e, Instr) /\ irdy \in BOOLEAN
      /\ FrontEdge(e, irdy) /\ imem' = imem
  BY FrontPart DEF CoreEdge
<1>2. Walk'
  BY <1>1, FrontWalk
<1>3. fill_buffer(e) => e.resp_data = imem[if_out.pc]
  BY DEF fill_buffer, ibus_resp_fire, ibus_resp_ready, CoreEdge, CpuInv, FetchOwnership
<1>4. /\ if_buf'.valid => if_buf'.instr = imem[if_buf'.pc]
      /\ IF_ID'.valid => IF_ID'.instr = imem[IF_ID'.pc]
  BY <1>1, <1>3, FrontWords DEF WordsOf
<1>5. ASSUME ID_EX'.valid
      PROVE  ID_EX'.pnext = NextIssue' /\ ID_EX'.instr = imem[ID_EX'.pc]
  <2>1. ID_EX' = NextIdEx(e) /\ ID_EX \in Decoded
    BY DEF CoreEdge, CpuInv, TypeOK
  <2>2. ~e.halt /\ ~e.redirect
    BY <1>5, <2>1 DEF NextIdEx, Decoded
  <2>3. /\ ifid_to_idex(e) => IF_ID.valid /\ NextIssue' = IF_ID.pnext
        /\ ~ifid_to_idex(e) => NextIssue' = NextIssue
    BY <1>1, <2>2, IssueSide
  <2>4. CASE ifid_to_idex(e)
    BY <1>1, <2>1, <2>2, <2>3, <2>4 DEF NextIdEx, WordsOf
  <2>5. CASE ~ifid_to_idex(e)
    <3>1. /\ ID_EX'.pc = ID_EX.pc /\ ID_EX'.pnext = ID_EX.pnext
          /\ ID_EX'.instr = ID_EX.instr /\ ID_EX.valid
      BY <1>5, <2>1, <2>2, <2>5 DEF NextIdEx, Decoded, HeldIdEx
    <3> QED BY <2>3, <2>5, <3>1 DEF CpuInv, PathInOrder
  <2> QED BY <2>4, <2>5
<1> QED BY <1>1, <1>2, <1>4, <1>5 DEF Walk, PathInOrder

(* EX lets only legal accesses through. *)
LEMMA EdgeAccess ==
  ASSUME CpuInv, NEW e, NEW irdy, NEW open \in BOOLEAN, NEW halt, CoreEdge(e, irdy, open, halt)
  PROVE  LegalAccess'
<1>1. EX_MEM' = NextExMem(open) /\ EX_MEM \in Memory
  BY DEF CoreEdge, CpuInv, TypeOK
<1>2. CASE idex_fire /\ ~verification_halt
  <2>1. /\ EX_MEM'.instr = ID_EX.instr /\ EX_MEM'.trap = ex_trap /\ EX_MEM'.alu = alu_result
    BY <1>1, <1>2 DEF NextExMem
  <2>2. ID_EX.instr \in Instr
    BY BackTypes DEF CpuInv
  <2>3. ~(memRead(ID_EX.instr) /\ memWrite(ID_EX.instr))
    BY DEF memRead, memWrite
  <2> QED
    BY <2>1, <2>3 DEF LegalAccess, ex_trap, ex_csr_bad, ex_unmapped, ex_mem_op
<1>3. CASE ~(idex_fire /\ ~verification_halt)
  <2>1. /\ EX_MEM'.valid => EX_MEM.valid
        /\ EX_MEM'.instr = EX_MEM.instr /\ EX_MEM'.trap = EX_MEM.trap
        /\ EX_MEM'.alu = EX_MEM.alu
    BY <1>1, <1>3 DEF NextExMem, Memory
  <2> QED BY <2>1 DEF LegalAccess, CpuInv
<1> QED BY <1>2, <1>3

(* The answer of the RAM stays what the memory holds. *)
LEMMA EdgeAnswers ==
  ASSUME CpuInv, NEW e, NEW irdy, NEW open \in BOOLEAN, NEW halt, CoreEdge(e, irdy, open, halt)
  PROVE  RamAnswers'
<1>1. /\ RamFacts!Outcome(dbus_req_fire(open), EX_MEM.alu, dbus_req_wdata, dbus_resp_ready)
      /\ dslot' \in Ram!Slot /\ dslot \in Ram!Slot
  BY DEF CoreEdge, CpuInv, TypeOK
<1>2. /\ dslot.busy \in BOOLEAN /\ dslot.resp_valid \in BOOLEAN
      /\ dslot'.busy \in BOOLEAN /\ dslot'.resp_valid \in BOOLEAN
  BY <1>1 DEF Ram!Slot
<1>3. /\ ~(dslot.busy /\ dslot.resp_valid)
      /\ dslot.resp_valid /\ dslot.wdata = NoWrite => dslot.resp_data = dmem[dslot.addr]
  BY DEF CpuInv, RamAnswers
<1> DEFINE fire == dbus_req_fire(open)
<1> HIDE DEF fire
<1> QED BY <1>1, <1>2, <1>3 DEF RamFacts!Outcome, RamFacts!Written, RamAnswers

(* When MEM lets go of the access it holds, and what becomes of it. *)
LEMMA MemCases ==
  ASSUME TypeOK, LegalAccess, NEW open \in BOOLEAN, ~verification_halt
  PROVE  /\ exmem_external_mem /\ ~dbus_resp_fire =>
              /\ ~exmem_complete /\ ~exmem_can_accept /\ ~idex_fire
              /\ NextExMem(open) = [EX_MEM EXCEPT !.accepted = @ \/ dbus_req_fire(open)]
         /\ dbus_resp_fire => exmem_complete /\ exmem_can_accept
         /\ ~(exmem_external_mem /\ ~dbus_resp_fire) => NextExMem(open).accepted = FALSE
<1> USE BackTypes, InstrFacts
<1>1. ASSUME exmem_external_mem, ~dbus_resp_fire
      PROVE  ~exmem_complete /\ ~exmem_can_accept /\ ~idex_fire
  <2>1. ~exmem_complete
    BY <1>1 DEF exmem_external_mem, exmem_complete, exmem_csr_read
  <2>2. EX_MEM.valid
    BY <1>1 DEF exmem_external_mem
  <2> QED BY <2>1, <2>2 DEF exmem_can_accept, idex_fire
<1>2. ASSUME dbus_resp_fire PROVE exmem_complete /\ exmem_can_accept
  BY <1>2 DEF dbus_resp_fire, dbus_resp_ready, exmem_external_mem, exmem_complete,
              exmem_can_accept
<1>3. ASSUME ~(exmem_external_mem /\ ~dbus_resp_fire) PROVE NextExMem(open).accepted = FALSE
  <2>1. EX_MEM \in Memory
    BY DEF TypeOK
  <2>2. exmem_can_accept
    <3>1. CASE dbus_resp_fire
      BY <1>2, <3>1
    <3>2. CASE ~exmem_external_mem
      BY <3>2 DEF exmem_can_accept, exmem_complete, exmem_external_mem, exmem_csr_read,
                  LegalAccess
    <3> QED BY <1>3, <3>1, <3>2
  <2> QED BY <2>1, <2>2 DEF NextExMem, Memory
<1> QED BY <1>1, <1>2, <1>3 DEF NextExMem

(* Also of an access that a halt is about to drop. *)
AcceptedOccupies ==
  exmem_external_mem /\ EX_MEM.accepted =>
    Ram!Occupied /\ dslot.addr = EX_MEM.alu /\ dslot.wdata = dbus_req_wdata

(* The access in MEM and the slot of the RAM stay together, through every    *)
(* acceptance, wait and answer, and a request not taken is presented again.  *)
LEMMA EdgeData ==
  ASSUME CpuInv, NEW e, NEW irdy, NEW open \in BOOLEAN, NEW halt \in BOOLEAN,
         verification_halt => halt, CoreEdge(e, irdy, open, halt)
  PROVE  DataOwnership' /\ (~verification_halt => AcceptedOccupies')
<1> SUFFICES ASSUME ~verification_halt
             PROVE  DataOwnership' /\ AcceptedOccupies'
  BY DEF DataOwnership, CoreEdge
<1> DEFINE fire == dbus_req_fire(open)
           held == exmem_external_mem /\ ~dbus_resp_fire
<1> USE DEF CpuInv, TypeOK
<1>1. /\ EX_MEM' = NextExMem(open) /\ EX_MEM \in Memory
      /\ RamFacts!Outcome(fire, EX_MEM.alu, dbus_req_wdata, dbus_resp_ready)
      /\ dslot' \in Ram!Slot /\ dslot \in Ram!Slot
      /\ dheld' = IF dbus_req_valid /\ ~fire
                    THEN [valid |-> TRUE, addr |-> EX_MEM.alu, data |-> dbus_req_wdata]
                    ELSE NoneHeld
  BY DEF CoreEdge
<1>2. /\ dslot.busy \in BOOLEAN /\ dslot.resp_valid \in BOOLEAN
      /\ dslot'.busy \in BOOLEAN /\ dslot'.resp_valid \in BOOLEAN
  BY <1>1 DEF Ram!Slot
<1>3. /\ (exmem_external_mem /\ EX_MEM.accepted) <=> (dslot.busy \/ dslot.resp_valid)
      /\ ~(dslot.busy /\ dslot.resp_valid)
      /\ dslot.busy \/ dslot.resp_valid => dslot.addr = EX_MEM.alu /\ dslot.wdata = dbus_req_wdata
  BY MemWires, BackTypes, <1>2 DEF DataOwnership, Ram!Occupied
<1>4. /\ fire => exmem_external_mem /\ ~EX_MEM.accepted
      /\ dbus_resp_ready <=> exmem_external_mem /\ EX_MEM.accepted
      /\ dbus_resp_fire <=> dslot.resp_valid /\ dbus_resp_ready
      /\ dbus_req_valid => exmem_external_mem /\ ~EX_MEM.accepted
  BY DEF dbus_req_fire, dbus_req_valid, dbus_resp_ready, dbus_resp_fire
<1>5. CASE held
  <2>1. EX_MEM' = [EX_MEM EXCEPT !.accepted = EX_MEM.accepted \/ fire]
    BY <1>1, <1>5, MemCases
  <2>2. /\ EX_MEM'.accepted <=> EX_MEM.accepted \/ fire
        /\ EX_MEM'.valid = EX_MEM.valid /\ EX_MEM'.trap = EX_MEM.trap
        /\ EX_MEM'.instr = EX_MEM.instr /\ EX_MEM'.alu = EX_MEM.alu
        /\ EX_MEM'.sdata = EX_MEM.sdata
    BY <1>1, <2>1 DEF Memory
  <2>3. exmem_external_mem' /\ dbus_req_wdata' = dbus_req_wdata
    BY <1>5, <2>2 DEF exmem_external_mem, dbus_req_wdata
  <2> HIDE DEF fire
  <2>4. /\ (EX_MEM.accepted \/ fire) <=> (dslot'.busy \/ dslot'.resp_valid)
        /\ ~(dslot'.busy /\ dslot'.resp_valid)
        /\ dslot'.busy \/ dslot'.resp_valid
             => dslot'.addr = EX_MEM.alu /\ dslot'.wdata = dbus_req_wdata
    BY <1>1, <1>2, <1>3, <1>4, <1>5 DEF RamFacts!Outcome
  <2>5. dheld'.valid => dbus_req_valid /\ ~fire /\ dheld'.addr = EX_MEM.alu
                        /\ dheld'.data = dbus_req_wdata
    BY <1>1 DEF NoneHeld
  <2>6. dheld'.valid /\ ~verification_halt' => dbus_req_valid'
    BY <1>4, <2>2, <2>3, <2>5 DEF dbus_req_valid
  <2> QED
    BY <1>2, <2>2, <2>3, <2>4, <2>5, <2>6 DEF DataOwnership, AcceptedOccupies, Ram!Occupied
<1>6. CASE ~held
  <2>1. EX_MEM'.accepted = FALSE
    BY <1>1, <1>6, MemCases
  <2>2. ~fire /\ ~dbus_req_valid
    BY <1>4, <1>6 DEF dbus_req_fire
  <2> HIDE DEF fire
  <2>3. ~dslot'.busy /\ ~dslot'.resp_valid
    BY <1>1, <1>2, <1>3, <1>4, <1>6, <2>2 DEF RamFacts!Outcome
  <2>4. ~dheld'.valid
    BY <1>1, <2>2 DEF NoneHeld
  <2> QED BY <2>1, <2>3, <2>4 DEF DataOwnership, AcceptedOccupies, Ram!Occupied
<1> QED BY <1>5, <1>6

-----------------------------------------------------------------------------
(* Operands and predictions.                                                 *)

(* The write of this edge, as the operand of register r sees it. *)
LEMMA WriteBack ==
  ASSUME TypeOK, RegFileEdge, NEW r \in Reg
  PROVE  IF r = 0 THEN rf'[r] = rf[r]
         ELSE rf'[r] = IF wb_commit_we /\ regDest(MEM_WB.instr) = r THEN MEM_WB.result ELSE rf[r]
<1>1. regDest(MEM_WB.instr) \in Reg /\ rf \in [Reg -> Val]
  BY BackTypes, InstrFacts DEF TypeOK
<1> QED BY <1>1 DEF RegFileEdge, wb_commit_we

(* No operand of ID/EX is lost: what it holds after the edge, unless a       *)
(* producer is still in front of it, is the register after the edge.         *)
LEMMA OperandKept ==
  ASSUME CpuInv, NEW e, NEW irdy, NEW open \in BOOLEAN, NEW halt, CoreEdge(e, irdy, open, halt),
         ~verification_halt, ID_EX.valid, ~idex_fire, ID_EX' = HeldIdEx,
         NEW r \in Reg, NEW uses \in BOOLEAN, NEW data, Fresh(uses, r, data),
         uses, ~ex_match(uses, r)', ~wb_match(uses, r)'
  PROVE  forward(uses, r, data) = IF r = 0 THEN 0 ELSE rf'[r]
<1> USE DEF CpuInv
<1>1. EX_MEM' = NextExMem(open) /\ MEM_WB' = NextMemWb /\ RegFileEdge
  BY DEF CoreEdge
<1>2. EX_MEM \in Memory /\ ID_EX \in Decoded /\ ID_EX'.valid
  BY DEF TypeOK, HeldIdEx, Decoded
<1>3. ~ex_match(uses, r)
  <2> SUFFICES ASSUME ex_match(uses, r) PROVE FALSE
    OBVIOUS
  <2>1. /\ EX_MEM.valid /\ ~EX_MEM.trap /\ regWrite(EX_MEM.instr)
        /\ regDest(EX_MEM.instr) # 0 /\ regDest(EX_MEM.instr) = r
    BY DEF ex_match
  <2>2. CASE exmem_complete
    <3>1. /\ MEM_WB'.valid /\ MEM_WB'.trap = EX_MEM.trap /\ MEM_WB'.instr = EX_MEM.instr
      BY <1>1, <2>2 DEF NextMemWb
    <3> QED BY <1>2, <2>1, <3>1 DEF wb_match
  <2>3. CASE ~exmem_complete
    <3>1. EX_MEM' = [EX_MEM EXCEPT !.accepted = EX_MEM.accepted \/ dbus_req_fire(open)]
      BY <1>1, <2>1, <2>3 DEF NextExMem, exmem_can_accept
    <3>2. /\ EX_MEM'.valid = EX_MEM.valid /\ EX_MEM'.trap = EX_MEM.trap
          /\ EX_MEM'.instr = EX_MEM.instr
      BY <1>2, <3>1 DEF Memory
    <3> QED BY <1>2, <2>1, <3>2 DEF ex_match
  <2> QED BY <2>2, <2>3
<1>4. CASE wb_match(uses, r)
  <2>1. /\ forward(uses, r, data) = MEM_WB.result /\ r # 0
        /\ wb_commit_we /\ regDest(MEM_WB.instr) = r
    BY <1>3, <1>4 DEF forward, wb_match, wb_commit_we
  <2> QED BY <1>1, <2>1, WriteBack
<1>5. CASE ~wb_match(uses, r)
  <2>1. forward(uses, r, data) = IF r = 0 THEN 0 ELSE rf[r]
    BY <1>3, <1>5 DEF forward, Fresh
  <2>2. ~(wb_commit_we /\ regDest(MEM_WB.instr) = r)
    BY <1>5 DEF wb_commit_we, wb_match
  <2>3. rf'[r] = rf[r]
    BY <1>1, <2>2, WriteBack
  <2> QED BY <2>1, <2>3
<1> QED BY <1>4, <1>5

(* An operand read in decode is the register after the edge. *)
LEMMA OperandRead ==
  ASSUME TypeOK, ~verification_halt, RegFileEdge, NEW r \in Reg
  PROVE  dec_regData(r, TRUE) = IF r = 0 THEN 0 ELSE rf'[r]
<1>1. wb_commit_we => regDest(MEM_WB.instr) # 0
  BY DEF wb_commit_we
<1> QED BY <1>1, WriteBack DEF dec_regData

(* No edge loses an operand. *)
LEMMA EdgeOperands ==
  ASSUME CpuInv, NEW e, NEW irdy, NEW open \in BOOLEAN, NEW halt, CoreEdge(e, irdy, open, halt)
  PROVE  OperandsFresh'
<1> USE DEF CpuInv
<1>1. /\ ID_EX' = NextIdEx(e) /\ ID_EX \in Decoded /\ RegFileEdge
      /\ (e.halt <=> verification_halt) /\ IF_ID.instr \in Instr /\ ID_EX.instr \in Instr
  BY DEF CoreEdge, TypeOK, FrontTypeOK, Fetched, Decoded
<1>2. CASE ~ID_EX'.valid
  BY <1>2 DEF OperandsFresh, Fresh
<1>3. CASE ID_EX'.valid /\ ifid_to_idex(e)
  <2>1. ~verification_halt
    BY <1>1, <1>3 DEF NextIdEx, Decoded
  <2>2. /\ ID_EX'.instr = IF_ID.instr
        /\ ID_EX'.a = dec_regData(IF_ID.instr.rs, usesRs(IF_ID.instr))
        /\ ID_EX'.b = dec_regData(IF_ID.instr.rt, usesRt(IF_ID.instr))
    BY <1>1, <1>3, <2>1 DEF NextIdEx, ifid_to_idex
  <2>3. IF_ID.instr.rs \in Reg /\ IF_ID.instr.rt \in Reg
        /\ usesRs(IF_ID.instr) \in BOOLEAN /\ usesRt(IF_ID.instr) \in BOOLEAN
    BY <1>1, InstrFacts
  <2>4. /\ usesRs(IF_ID.instr) =>
             ID_EX'.a = IF IF_ID.instr.rs = 0 THEN 0 ELSE rf'[IF_ID.instr.rs]
        /\ usesRt(IF_ID.instr) =>
             ID_EX'.b = IF IF_ID.instr.rt = 0 THEN 0 ELSE rf'[IF_ID.instr.rt]
    BY <1>1, <2>1, <2>2, <2>3, OperandRead
  <2> QED BY <2>2, <2>4 DEF OperandsFresh, Fresh
<1>4. CASE ID_EX'.valid /\ ~ifid_to_idex(e)
  <2>1. /\ ~verification_halt /\ ID_EX' = HeldIdEx /\ ID_EX.valid /\ ~idex_fire
    BY <1>1, <1>4 DEF NextIdEx, Decoded, idex_slot_available
  <2>2. /\ ID_EX'.instr = ID_EX.instr /\ ID_EX'.a = fwdA /\ ID_EX'.b = fwdB
    BY <1>1, <2>1 DEF HeldIdEx, Decoded
  <2>3. ID_EX.instr.rs \in Reg /\ ID_EX.instr.rt \in Reg
        /\ usesRs(ID_EX.instr) \in BOOLEAN /\ usesRt(ID_EX.instr) \in BOOLEAN
    BY <1>1, InstrFacts
  <2>4. Fresh(usesRs(ID_EX.instr), ID_EX.instr.rs, ID_EX.a)
        /\ Fresh(usesRt(ID_EX.instr), ID_EX.instr.rt, ID_EX.b)
    BY DEF OperandsFresh
  <2>5. ASSUME usesRs(ID_EX.instr), ~ex_match(usesRs(ID_EX.instr), ID_EX.instr.rs)',
               ~wb_match(usesRs(ID_EX.instr), ID_EX.instr.rs)'
        PROVE  ID_EX'.a = IF ID_EX.instr.rs = 0 THEN 0 ELSE rf'[ID_EX.instr.rs]
    BY <2>1, <2>2, <2>3, <2>4, <2>5, OperandKept DEF fwdA
  <2>6. ASSUME usesRt(ID_EX.instr), ~ex_match(usesRt(ID_EX.instr), ID_EX.instr.rt)',
               ~wb_match(usesRt(ID_EX.instr), ID_EX.instr.rt)'
        PROVE  ID_EX'.b = IF ID_EX.instr.rt = 0 THEN 0 ELSE rf'[ID_EX.instr.rt]
    BY <2>1, <2>2, <2>3, <2>4, <2>6, OperandKept DEF fwdB
  <2> QED BY <2>2, <2>5, <2>6 DEF OperandsFresh, Fresh
<1> QED BY <1>2, <1>3, <1>4

(* What the table learns on an edge is the target of a branch of the program.*)
LEMMA EdgeTargets ==
  ASSUME CpuInv, NEW e, NEW irdy, NEW open \in BOOLEAN, NEW halt, CoreEdge(e, irdy, open, halt)
  PROVE  TargetsSound'
<1>1. /\ imem' = imem
      /\ BpuEdge(idex_fire /\ branch(ID_EX.instr) /\ ~ex_trap, ID_EX.pc,
                 taken(ID_EX.instr, fwdA, fwdB), ID_EX.instr.target)
  BY DEF CoreEdge
<1>2. idex_fire => ID_EX.instr = imem[ID_EX.pc]
  BY DEF idex_fire, CpuInv, PathInOrder
<1>3. btb \in [0 .. BtbEntries - 1 -> BtbEntry]
  BY DEF CpuInv, TypeOK, BpuTypeOK
<1>4. ASSUME NEW k \in 0 .. BtbEntries - 1
      PROVE  \/ btb'[k] = btb[k]
             \/ /\ btb'[k] = [valid |-> TRUE, tag |-> ID_EX.pc, target |-> ID_EX.instr.target]
                /\ idex_fire /\ branch(ID_EX.instr)
  BY <1>1, <1>3 DEF BpuEdge
<1>5. ASSUME NEW k \in 0 .. BtbEntries - 1, btb'[k].valid
      PROVE  branch(imem'[btb'[k].tag]) /\ btb'[k].target = imem'[btb'[k].tag].target
  BY <1>1, <1>2, <1>4, <1>5 DEF CpuInv, TargetsSound
<1> QED BY <1>5 DEF TargetsSound

-----------------------------------------------------------------------------
(* The invariant.                                                            *)

(* What Init and Reset leave in every register. *)
Cleared ==
  /\ bht = ColdBht /\ btb = ColdBtb
  /\ ID_EX = NoDecoded /\ EX_MEM = NoMemory /\ MEM_WB = NoWritten
  /\ rf = [r \in Reg |-> 0]
  /\ instret = 0 /\ epc = 0 /\ cause = 0
  /\ trace_valid = FALSE /\ trace = NoEvent /\ event_order_count = 0
  /\ islot = Rom!ResetSlot /\ dslot = Ram!ResetSlot
  /\ verification_halt = FALSE
  /\ dheld = NoneHeld

(* And of the front end and the memories. *)
AtReset ==
  /\ Cleared /\ FrontInv(Instr) /\ WordsOf(imem) /\ ~if_out.valid
  /\ imem \in [Pc -> Instr] /\ dmem \in [RamAddr -> Val]

(* It is of the right types, with nothing in flight on either bus. *)
LEMMA ClearedInv == AtReset => CpuInv
<1> SUFFICES ASSUME AtReset PROVE CpuInv
  OBVIOUS
<1> USE ValFacts, ResetType DEF AtReset, Cleared
<1>1. BpuTypeOK
  BY BpuAssumption DEF BpuTypeOK, ColdBht, ColdBtb, BtbEntry
<1>2. ID_EX \in Decoded /\ EX_MEM \in Memory /\ MEM_WB \in Written
  BY DEF NoDecoded, NoMemory, NoWritten, Decoded, Memory, Written
<1>3. trace \in Event
  BY DEF NoEvent, Event
<1>4. islot \in Rom!Slot /\ dslot \in Ram!Slot
  <2>1. 0 \in 0 .. IWaitMax /\ 0 \in 0 .. DWaitMax /\ 0 \in RamAddr
    BY CpuAssumption, ArchAssumption
  <2> QED BY <2>1 DEF Rom!Slot, Rom!ResetSlot, Ram!Slot, Ram!ResetSlot
<1>5. dheld \in [valid: BOOLEAN, addr: RamAddr, data: Val \union {NoWrite}]
  BY ArchAssumption DEF NoneHeld
<1>6. TypeOK
  BY <1>1, <1>2, <1>3, <1>4, <1>5 DEF TypeOK, FrontInv
<1>7. AtMostOneFetch /\ PathInOrder
  BY DEF FrontInv, Walk, WordsOf, PathInOrder, NoDecoded
<1>8. FetchOwnership /\ RamAnswers /\ DataOwnership
  BY DEF FetchOwnership, RamAnswers, DataOwnership, Rom!ResetSlot, Ram!ResetSlot, Rom!Occupied,
         Ram!Occupied, NoMemory, NoneHeld, exmem_external_mem
<1>9. LegalAccess /\ TargetsSound /\ OperandsFresh /\ ZeroRegister
  BY DEF LegalAccess, TargetsSound, OperandsFresh, Fresh, ZeroRegister, NoMemory, NoDecoded,
         ColdBtb
<1> QED BY <1>6, <1>7, <1>8, <1>9 DEF CpuInv

(* Every clock edge keeps the invariant. *)
LEMMA TickInv ==
  ASSUME CpuInv, NEW en \in BOOLEAN, NEW iopen \in BOOLEAN, NEW open \in BOOLEAN,
         NEW halt \in BOOLEAN, verification_halt => halt, Tick(en, iopen, open, halt)
  PROVE  CpuInv'
<1>1. \E e, irdy : CoreEdge(e, irdy, open, halt)
  BY TickIsEdge DEF CpuInv
<1>2. TypeOK'
  BY <1>1, EdgeType DEF CpuInv
<1>3. AtMostOneFetch'
  BY <1>1, FrontOneFetch DEF CpuInv, CoreEdge
<1>4. FetchOwnership'
  BY <1>1, <1>2, EdgeFetch DEF TypeOK
<1>5. PathInOrder' /\ LegalAccess' /\ TargetsSound' /\ RamAnswers' /\ OperandsFresh'
  BY <1>1, EdgePath, EdgeAccess, EdgeTargets, EdgeAnswers, EdgeOperands
<1>6. DataOwnership'
  BY <1>1, EdgeData
<1>7. ZeroRegister'
  BY <1>1, WriteBack, ValFacts DEF CpuInv, ZeroRegister, CoreEdge
<1> QED BY <1>2, <1>3, <1>4, <1>5, <1>6, <1>7 DEF CpuInv

(* The initial states satisfy AtReset, *)
LEMMA InitClear == Init => AtReset
<1> SUFFICES ASSUME Init PROVE AtReset
  OBVIOUS
<1>1. FrontInv(Instr) /\ WordsOf(imem)
  BY ValFacts, FrontAtReset DEF Init
<1>2. imem \in [Pc -> Instr] /\ dmem \in [RamAddr -> Val]
  BY CpuAssumption DEF Init
<1>3. Cleared /\ ~if_out.valid
  BY DEF Init, Cleared, FrontInit, NoOutstanding
<1> QED BY <1>1, <1>2, <1>3 DEF AtReset

(* and so does every state after a reset. *)
LEMMA ResetClears ==
  ASSUME CpuInv, Reset
  PROVE  AtReset'
<1>1. FrontInv(Instr)' /\ WordsOf(imem)'
  BY ValFacts, FrontAtReset DEF Reset
<1>2. imem' \in [Pc -> Instr] /\ dmem' \in [RamAddr -> Val]
  BY DEF Reset, CpuInv, TypeOK
<1>3. Cleared' /\ ~if_out'.valid
  BY DEF Reset, ResetSlaves, Cleared, FrontReset, NoOutstanding, Rom!ResetSlot, Ram!ResetSlot
<1> QED BY <1>1, <1>2, <1>3 DEF AtReset

(* It is about the core's and the memories' registers alone. *)
LEMMA StutterInv ==
  ASSUME CpuInv, UNCHANGED vars
  PROVE  CpuInv'
<1> USE DEF vars, CpuInv
<1>1. TypeOK' /\ AtMostOneFetch' /\ PathInOrder'
  BY DEF frontVars, bpuVars, backVars, csrVars, outVars, busVars, TypeOK, FrontTypeOK,
         BpuTypeOK, AtMostOneFetch, PathInOrder, NextIssue, FromBuffer, FromOutstanding,
         FromRequest, LiveRequest, LiveOutstanding
<1>2. FetchOwnership' /\ LegalAccess' /\ TargetsSound' /\ RamAnswers'
  BY DEF frontVars, bpuVars, backVars, busVars, FetchOwnership, Rom!Occupied, LegalAccess,
         TargetsSound, RamAnswers
<1>3. DataOwnership' /\ OperandsFresh' /\ ZeroRegister'
  BY DEF backVars, busVars, ZeroRegister, DataOwnership, Ram!Occupied, exmem_external_mem,
         dbus_req_valid, dbus_req_wdata, OperandsFresh, Fresh, ex_match, wb_match
<1> QED BY <1>1, <1>2, <1>3

(* So it is an invariant. *)
LEMMA CpuInvariance == Spec => []CpuInv
<1>1. CpuInv /\ [Next]_vars => CpuInv'
  <2> SUFFICES ASSUME CpuInv, [Next]_vars PROVE CpuInv'
    OBVIOUS
  <2>1. ASSUME NEW en \in Enables, NEW iopen \in IGates, NEW dopen \in DGates,
               NEW halt \in {verification_halt, verification_halt \/ MayHalt},
               Tick(en, iopen, dopen, halt)
        PROVE  CpuInv'
    <3>1. /\ en \in BOOLEAN /\ iopen \in BOOLEAN /\ dopen \in BOOLEAN
          /\ halt \in BOOLEAN /\ (verification_halt => halt)
      BY CpuAssumption DEF CpuInv, TypeOK
    <3> QED BY <2>1, <3>1, TickInv
  <2>2. CASE Reset
    BY <2>2, ResetClears, ClearedInv, PTL
  <2>3. CASE UNCHANGED vars
    BY <2>3, StutterInv
  <2> QED BY <2>1, <2>2, <2>3 DEF Next
<1> QED BY <1>1, InitClear, ClearedInv, PTL DEF Spec

-----------------------------------------------------------------------------
(* TypeOK: in every reachable state every register holds a value of its kind.*)
THEOREM TypeCorrect == Spec => []TypeOK
  BY CpuInvariance, PTL DEF CpuInv

(* DataOwnership: the load or store in EX/MEM occupies the RAM's slot exactly *)
(* while it is accepted, and a request not taken is presented again.         *)
THEOREM DataOwned == Spec => []DataOwnership
  BY CpuInvariance, PTL DEF CpuInv

(* OperandsFresh: an operand of ID/EX that nothing in front will write is    *)
(* the register's value, however long ID/EX has been held.                   *)
THEOREM OperandsKept == Spec => []OperandsFresh
  BY CpuInvariance, PTL DEF CpuInv

(* PathInOrder: what is in flight is one walk along the predictions, word by *)
(* word the program, through every kill, turnover, stall, hold and halt.     *)
THEOREM PathKept == Spec => []PathInOrder
  BY CpuInvariance, PTL DEF CpuInv

(* PredictsBranchesOnly: whatever the tables alias, nothing but a branch of  *)
(* the program is predicted away from, and that only to its target.          *)
THEOREM BranchesPredicted == Spec => []PredictsBranchesOnly
<1>1. CpuInv => PredictsBranchesOnly
  <2> SUFFICES ASSUME CpuInv, NEW pc \in Pc, launch_pred(pc) # Plus4(pc)
               PROVE  branch(imem[pc]) /\ launch_pred(pc) = imem[pc].target
    BY DEF PredictsBranchesOnly
  <2>1. pc % BtbEntries \in 0 .. BtbEntries - 1
    BY BpuAssumption DEF Pc
  <2>2. pred_hit(pc) /\ launch_pred(pc) = btb[pc % BtbEntries].target
    BY DEF launch_pred, pred_target
  <2> QED BY <2>1, <2>2 DEF pred_hit, CpuInv, TargetsSound
<1> QED BY <1>1, CpuInvariance, PTL

-----------------------------------------------------------------------------
(* The refinement holds as long as no load or store is both misaligned and   *)
(* inside the CSR page: for such an access the two report different causes.  *)
(* The two decode such an access in opposite orders.                         *)
NoMisalignedCsr == ~(idex_fire /\ ex_misaligned /\ alu_result \in CsrPage)

(* What the instruction in ID/EX is about to do, as the pipeline sees it.    *)
ExWrites == ~ex_trap /\ regWrite(ID_EX.instr) /\ regDest(ID_EX.instr) # 0

ExMem == IF ex_trap THEN "none" ELSE IF memRead(ID_EX.instr) THEN "load"
         ELSE IF memWrite(ID_EX.instr) THEN "store" ELSE "none"

ExLoaded ==
  IF alu_result \notin CsrPage THEN dmem[alu_result]
  ELSE CASE alu_result = CSR_INSTRET -> ArchRetired
         [] alu_result = CSR_EPC     -> epc
         [] alu_result = CSR_CAUSE   -> cause
         [] OTHER                    -> 0

ExValue == IF ID_EX.instr.op = "JAL" THEN Plus4(ID_EX.pc)
           ELSE IF memRead(ID_EX.instr) THEN ExLoaded ELSE alu_result

ExEvent ==
  [ pc |-> ID_EX.pc, next_pc |-> actual_next,
    trap |-> ex_trap, cause |-> IF ex_trap THEN ex_trap_cause ELSE 0,
    rd |-> IF ExWrites THEN regDest(ID_EX.instr) ELSE 0,
    rd_data |-> IF ExWrites THEN ExValue ELSE 0,
    mem |-> ExMem,
    addr |-> IF ExMem # "none" THEN alu_result ELSE 0,
    data |-> CASE ExMem = "load" -> ExValue [] ExMem = "store" -> fwdB [] OTHER -> 0 ]

-----------------------------------------------------------------------------
(* What MEM holds, and when it lets go of it.                                *)

(* A completed access delivers what it was due to deliver. *)
LEMMA MemValue ==
  ASSUME CpuInv, ~verification_halt, exmem_complete
  PROVE  exmem_result_value = ExMemValue
<1> SUFFICES ASSUME exmem_external_mem, memRead(EX_MEM.instr)
             PROVE  exmem_result_value = dmem[EX_MEM.alu]
  BY DEF ExMemValue
<1>1. dbus_resp_fire
  BY DEF exmem_complete, exmem_external_mem, exmem_csr_read
<1>2. dslot.resp_valid /\ EX_MEM.accepted
  BY <1>1 DEF dbus_resp_fire, dbus_resp_ready
<1>3. dslot.addr = EX_MEM.alu /\ dslot.wdata = dbus_req_wdata
  BY <1>2 DEF CpuInv, DataOwnership, Ram!Occupied
<1>4. EX_MEM.instr.op = "LW" /\ dbus_req_wdata = NoWrite
  BY DEF memRead, memWrite, dbus_req_wdata
<1>5. dslot.resp_data = dmem[EX_MEM.alu]
  BY <1>2, <1>3, <1>4 DEF CpuInv, RamAnswers
<1> QED BY <1>4, <1>5 DEF exmem_result_value, exmem_csr_read, exmem_external_mem

(* What does not complete is an access of the RAM that is still unanswered.  *)
LEMMA MemHeld ==
  ASSUME CpuInv, ~verification_halt
  PROVE  ~exmem_can_accept <=> exmem_external_mem /\ ~dbus_resp_fire
<1>1. exmem_external_mem /\ ~dbus_resp_fire => ~exmem_can_accept
  BY MemCases DEF CpuInv
<1>2. ~exmem_can_accept => exmem_external_mem /\ ~dbus_resp_fire
  BY DEF exmem_can_accept, exmem_complete, exmem_external_mem, exmem_csr_read, LegalAccess,
         CpuInv
<1> QED BY <1>1, <1>2

(* The store in MEM reaches the memory once, while MEM holds it.             *)
LEMMA DataStep ==
  ASSUME CpuInv, NEW e, NEW irdy, NEW open \in BOOLEAN, NEW halt, CoreEdge(e, irdy, open, halt),
         ~verification_halt
  PROVE  /\ \/ dmem' = dmem /\ (~idex_fire => PendingStore' = PendingStore)
            \/ /\ StorePending /\ dmem' = [dmem EXCEPT ![EX_MEM.alu] = EX_MEM.sdata]
               /\ ~StorePending'
         /\ exmem_can_accept => dmem' = dmem /\ ~StorePending
         /\ memRead(EX_MEM.instr) => dmem' = dmem
<1> DEFINE fire == dbus_req_fire(open)
           ready == dbus_resp_ready
<1> USE DEF CpuInv
<1>1. /\ EX_MEM' = NextExMem(open) /\ EX_MEM \in Memory
      /\ RamFacts!Outcome(fire, EX_MEM.alu, dbus_req_wdata, ready)
      /\ dslot' \in Ram!Slot /\ dslot \in Ram!Slot
  BY DEF CoreEdge, TypeOK
<1>2. /\ dslot.busy \in BOOLEAN /\ dslot.resp_valid \in BOOLEAN
      /\ dslot'.busy \in BOOLEAN /\ dslot'.resp_valid \in BOOLEAN
  BY <1>1 DEF Ram!Slot
<1>3. /\ (exmem_external_mem /\ EX_MEM.accepted) <=> (dslot.busy \/ dslot.resp_valid)
      /\ ~(dslot.busy /\ dslot.resp_valid)
      /\ dslot.busy \/ dslot.resp_valid => dslot.addr = EX_MEM.alu /\ dslot.wdata = dbus_req_wdata
  BY MemWires, BackTypes, <1>2 DEF DataOwnership, Ram!Occupied
<1>4. /\ fire => exmem_external_mem /\ ~EX_MEM.accepted
      /\ ready <=> exmem_external_mem /\ EX_MEM.accepted
      /\ dbus_resp_fire <=> dslot.resp_valid /\ ready
  BY DEF dbus_req_fire, dbus_req_valid, dbus_resp_ready, dbus_resp_fire
<1>5. /\ memWrite(EX_MEM.instr) => dbus_req_wdata = EX_MEM.sdata /\ EX_MEM.sdata # NoWrite
      /\ memRead(EX_MEM.instr) => dbus_req_wdata = NoWrite /\ ~memWrite(EX_MEM.instr)
  BY BackTypes, CpuAssumption DEF dbus_req_wdata, memRead, memWrite
<1>6. exmem_external_mem => memRead(EX_MEM.instr) \/ memWrite(EX_MEM.instr)
  BY DEF exmem_external_mem
<1>7. CASE exmem_can_accept
  <2>1. ~(exmem_external_mem /\ ~dbus_resp_fire)
    BY <1>7, MemHeld
  <2>2. ~StorePending
    BY <1>4, <2>1 DEF StorePending
  <2> HIDE DEF fire, ready
  <2>3. ~fire /\ ~dslot.busy
    BY <1>2, <1>3, <1>4, <2>1
  <2>4. dmem' = dmem
    BY <1>1, <1>2, <2>3 DEF RamFacts!Outcome
  <2>5. ~idex_fire => ~StorePending'
    <3>1. ~idex_fire => ~EX_MEM'.valid
      BY <1>1, <1>7 DEF NextExMem, Memory
    <3> QED BY <3>1 DEF StorePending, exmem_external_mem
  <2>6. ~idex_fire => PendingStore' = PendingStore
    BY <2>2, <2>5 DEF PendingStore
  <2> QED BY <1>7, <2>2, <2>4, <2>6
<1>8. CASE ~exmem_can_accept
  <2>1. exmem_external_mem /\ ~dbus_resp_fire
    BY <1>8, MemHeld
  <2>2. EX_MEM' = [EX_MEM EXCEPT !.accepted = EX_MEM.accepted \/ fire]
    BY <1>1, <2>1, MemCases
  <2>3. /\ EX_MEM'.accepted <=> EX_MEM.accepted \/ fire
        /\ EX_MEM'.valid = EX_MEM.valid /\ EX_MEM'.trap = EX_MEM.trap
        /\ EX_MEM'.instr = EX_MEM.instr /\ EX_MEM'.alu = EX_MEM.alu
        /\ EX_MEM'.sdata = EX_MEM.sdata
    BY <1>1, <2>2 DEF Memory
  <2>4. exmem_external_mem'
    BY <2>1, <2>3 DEF exmem_external_mem
  <2>5. /\ StorePending <=> memWrite(EX_MEM.instr)
        /\ StorePending' <=> memWrite(EX_MEM.instr)
                             /\ ~((EX_MEM.accepted \/ fire) /\ dslot'.resp_valid)
    BY <1>4, <2>1, <2>3, <2>4 DEF StorePending
  <2>6. (StorePending' <=> StorePending) => PendingStore' = PendingStore
    BY <2>3 DEF PendingStore
  <2> HIDE DEF fire, ready
  <2>7. CASE memRead(EX_MEM.instr)
    <3>1. dmem' = dmem
      BY <1>1, <1>2, <1>3, <1>5, <2>7 DEF RamFacts!Outcome, RamFacts!Written
    <3> QED BY <1>5, <1>8, <2>5, <2>6, <2>7, <3>1
  <2>8. CASE memWrite(EX_MEM.instr)
    <3>1. \/ dmem' = dmem /\ ~((EX_MEM.accepted \/ fire) /\ dslot'.resp_valid)
          \/ /\ dmem' = [dmem EXCEPT ![EX_MEM.alu] = EX_MEM.sdata]
             /\ (EX_MEM.accepted \/ fire) /\ dslot'.resp_valid
      BY <1>1, <1>2, <1>3, <1>4, <1>5, <2>1, <2>8 DEF RamFacts!Outcome, RamFacts!Written
    <3> QED BY <1>5, <1>8, <2>5, <2>6, <2>8, <3>1
  <2> QED BY <1>6, <2>1, <2>7, <2>8
<1> QED BY <1>7, <1>8

(* An access MEM goes on holding keeps its event, and nothing passes it.     *)
LEMMA MemKept ==
  ASSUME CpuInv, NEW e, NEW irdy, NEW open \in BOOLEAN, NEW halt, CoreEdge(e, irdy, open, halt),
         ~verification_halt, ~exmem_can_accept
  PROVE  /\ ~idex_fire /\ EX_MEM.valid /\ EX_MEM'.valid /\ ~MEM_WB'.valid
         /\ EX_MEM'.instr = EX_MEM.instr /\ EX_MEM'.trap = EX_MEM.trap /\ ~EX_MEM.trap
         /\ (ExMemWrites' <=> ExMemWrites)
         /\ ExMemWrites => ExMemValue' = ExMemValue
         /\ ExMemEvent' = ExMemEvent
<1> USE DEF CpuInv
<1>1. /\ EX_MEM' = NextExMem(open) /\ MEM_WB' = NextMemWb
      /\ EX_MEM \in Memory /\ MEM_WB \in Written
  BY DEF CoreEdge, TypeOK
<1>2. exmem_external_mem /\ ~dbus_resp_fire
  BY MemHeld
<1>3. /\ ~idex_fire /\ ~exmem_complete
      /\ EX_MEM' = [EX_MEM EXCEPT !.accepted = EX_MEM.accepted \/ dbus_req_fire(open)]
  BY <1>1, <1>2, MemCases
<1>4. /\ EX_MEM'.valid = EX_MEM.valid /\ EX_MEM'.trap = EX_MEM.trap
      /\ EX_MEM'.instr = EX_MEM.instr /\ EX_MEM'.alu = EX_MEM.alu
      /\ EX_MEM'.sdata = EX_MEM.sdata /\ EX_MEM'.pc = EX_MEM.pc
      /\ EX_MEM'.next_pc = EX_MEM.next_pc /\ EX_MEM'.cause = EX_MEM.cause
  BY <1>1, <1>3 DEF Memory
<1>5. exmem_external_mem' /\ EX_MEM.valid /\ ~EX_MEM.trap
  BY <1>2, <1>4 DEF exmem_external_mem
<1>6. ~MEM_WB'.valid
  BY <1>1, <1>3 DEF NextMemWb, Written
<1>7. ExMemWrites' <=> ExMemWrites
  BY <1>4 DEF ExMemWrites
<1>8. memRead(EX_MEM.instr) => dmem' = dmem
  BY DataStep
<1>9. memRead(EX_MEM.instr) => ExMemValue' = ExMemValue
  BY <1>2, <1>4, <1>5, <1>8 DEF ExMemValue
<1>10. ExMemWrites => memRead(EX_MEM.instr)
  BY <1>2 DEF ExMemWrites, exmem_external_mem, regWrite, memRead, memWrite
<1>11. ExMemEvent' = ExMemEvent
  <2>1. CASE memRead(EX_MEM.instr)
    BY <1>4, <1>7, <1>9, <2>1 DEF ExMemEvent
  <2>2. CASE ~memRead(EX_MEM.instr)
    BY <1>4, <1>7, <1>10, <2>2 DEF ExMemEvent
  <2> QED BY <2>1, <2>2
<1> QED BY <1>3, <1>4, <1>5, <1>6, <1>7, <1>9, <1>10, <1>11

(* What MEM completes goes on to MEM/WB, its event unchanged.                *)
LEMMA MemDone ==
  ASSUME CpuInv, NEW e, NEW irdy, NEW open \in BOOLEAN, NEW halt, CoreEdge(e, irdy, open, halt),
         ~verification_halt, exmem_complete
  PROVE  /\ EX_MEM.valid /\ MEM_WB'.valid
         /\ MEM_WB'.instr = EX_MEM.instr /\ MEM_WB'.trap = EX_MEM.trap
         /\ MEM_WB'.result = ExMemValue
         /\ RetiringEvent' = ExMemEvent
<1>1. MEM_WB' =
        [ valid |-> TRUE, pc |-> EX_MEM.pc, next_pc |-> EX_MEM.next_pc, instr |-> EX_MEM.instr,
          trap |-> EX_MEM.trap, cause |-> EX_MEM.cause, result |-> exmem_result_value,
          addr |-> EX_MEM.alu, sdata |-> EX_MEM.sdata ]
  BY DEF CoreEdge, NextMemWb
<1>2. exmem_result_value = ExMemValue /\ EX_MEM.valid /\ EX_MEM.trap \in BOOLEAN
  BY MemValue, BackTypes DEF exmem_complete, CpuInv
<1> HIDE DEF ExMemValue
<1>3. RetiringEvent' = ExMemEvent
  BY <1>1, <1>2 DEF RetiringEvent, ExMemEvent, ExMemWrites, memRead, memWrite
<1> QED BY <1>1, <1>2, <1>3

-----------------------------------------------------------------------------
(* The registers of the reference model.                                     *)

(* What is written behind MEM, once MEM has let go of what it held, is what  *)
(* was written up to MEM before.                                             *)
LEMMA Behind ==
  ASSUME CpuInv, NEW e, NEW irdy, NEW open \in BOOLEAN, NEW halt, CoreEdge(e, irdy, open, halt),
         ~verification_halt, ~verification_halt', NEW r \in Reg
  PROVE  (IF wb_commit_we' /\ regDest(MEM_WB'.instr) = r THEN MEM_WB'.result ELSE rf'[r])
           = IF exmem_complete /\ ExMemWrites /\ regDest(EX_MEM.instr) = r THEN ExMemValue
             ELSE IF wb_commit_we /\ regDest(MEM_WB.instr) = r THEN MEM_WB.result
             ELSE rf[r]
<1>1. rf'[r] = IF wb_commit_we /\ regDest(MEM_WB.instr) = r THEN MEM_WB.result ELSE rf[r]
  <2>1. IF r = 0 THEN rf'[r] = rf[r]
        ELSE rf'[r] = IF wb_commit_we /\ regDest(MEM_WB.instr) = r THEN MEM_WB.result ELSE rf[r]
    BY WriteBack DEF CpuInv, CoreEdge
  <2> QED BY <2>1 DEF wb_commit_we
<1>2. CASE exmem_complete
  <2>1. /\ MEM_WB'.valid /\ MEM_WB'.instr = EX_MEM.instr /\ MEM_WB'.trap = EX_MEM.trap
        /\ MEM_WB'.result = ExMemValue /\ EX_MEM.valid
    BY <1>2, MemDone
  <2>2. wb_commit_we' <=> ExMemWrites
    BY <2>1 DEF wb_commit_we, ExMemWrites
  <2> QED BY <1>1, <1>2, <2>1, <2>2
<1>3. CASE ~exmem_complete
  <2>1. MEM_WB' = [MEM_WB EXCEPT !.valid = FALSE] /\ MEM_WB \in Written
    BY <1>3 DEF CoreEdge, NextMemWb, CpuInv, TypeOK
  <2>2. ~wb_commit_we'
    BY <2>1 DEF wb_commit_we, Written
  <2> QED BY <1>1, <1>3, <2>2
<1> QED BY <1>2, <1>3

(* Unless an instruction leaves EX, no register of the model changes.        *)
LEMMA RegsKept ==
  ASSUME CpuInv, NEW e, NEW irdy, NEW open \in BOOLEAN, NEW halt, CoreEdge(e, irdy, open, halt),
         ~verification_halt, ~verification_halt', ~idex_fire
  PROVE  ArchRegs' = ArchRegs
<1> SUFFICES ASSUME NEW r \in Reg PROVE ArchRegs'[r] = ArchRegs[r]
  BY DEF ArchRegs
<1>1. /\ ArchRegs'[r] = IF ExMemWrites' /\ regDest(EX_MEM'.instr) = r THEN ExMemValue'
                        ELSE IF wb_commit_we' /\ regDest(MEM_WB'.instr) = r THEN MEM_WB'.result
                        ELSE rf'[r]
      /\ ArchRegs[r] = IF ExMemWrites /\ regDest(EX_MEM.instr) = r THEN ExMemValue
                       ELSE IF wb_commit_we /\ regDest(MEM_WB.instr) = r THEN MEM_WB.result
                       ELSE rf[r]
  BY DEF ArchRegs
<1>2. CASE exmem_can_accept
  <2>1. ~EX_MEM'.valid
    BY <1>2 DEF CoreEdge, NextExMem, CpuInv, TypeOK, Memory
  <2>2. ~ExMemWrites' /\ (ExMemWrites => exmem_complete)
    BY <1>2, <2>1 DEF ExMemWrites, exmem_can_accept
  <2> HIDE DEF ExMemWrites, ExMemValue
  <2> QED BY <1>1, <2>2, Behind
<1>3. CASE ~exmem_can_accept
  <2>1. /\ EX_MEM'.instr = EX_MEM.instr /\ (ExMemWrites' <=> ExMemWrites)
        /\ ExMemWrites => ExMemValue' = ExMemValue
    BY <1>3, MemKept
  <2>2. ~exmem_complete
    BY <1>3 DEF exmem_can_accept
  <2> QED BY <1>1, <2>1, <2>2, Behind
<1> QED BY <1>2, <1>3

(* The instruction that leaves EX took its operands from them. *)
LEMMA OperandsArch ==
  ASSUME CpuInv, ~verification_halt, idex_fire
  PROVE  /\ usesRs(ID_EX.instr) => fwdA = ArchRegs[ID_EX.instr.rs]
         /\ usesRt(ID_EX.instr) => fwdB = ArchRegs[ID_EX.instr.rt]
<1>1. /\ ID_EX.valid /\ ~forward_blocked /\ (EX_MEM.valid => exmem_complete)
  BY DEF idex_fire, exmem_can_accept
<1>2. ID_EX.instr.rs \in Reg /\ ID_EX.instr.rt \in Reg
      /\ usesRs(ID_EX.instr) \in BOOLEAN /\ usesRt(ID_EX.instr) \in BOOLEAN
  BY BackTypes, InstrFacts DEF CpuInv
<1>3. ASSUME NEW r \in Reg, NEW uses \in BOOLEAN, NEW data, Fresh(uses, r, data), uses,
             ~blocked(uses, r)
      PROVE  forward(uses, r, data) = ArchRegs[r]
  <2>1. ArchRegs[r] = IF ExMemWrites /\ regDest(EX_MEM.instr) = r THEN ExMemValue
                      ELSE IF wb_commit_we /\ regDest(MEM_WB.instr) = r THEN MEM_WB.result
                      ELSE rf[r]
    BY DEF ArchRegs
  <2>2. ex_match(uses, r) <=> ExMemWrites /\ regDest(EX_MEM.instr) = r
    BY <1>1, <1>3 DEF ex_match, ExMemWrites
  <2>3. wb_match(uses, r) <=> wb_commit_we /\ regDest(MEM_WB.instr) = r
    BY <1>1, <1>3 DEF wb_match, wb_commit_we
  <2>4. CASE ex_match(uses, r)
    <3>1. exmem_result_ready /\ exmem_complete
      BY <1>1, <1>3, <2>4 DEF blocked, ex_match
    <3>2. exmem_result_value = ExMemValue
      BY <3>1, MemValue
    <3> QED BY <2>1, <2>2, <2>4, <3>1, <3>2 DEF forward
  <2>5. CASE ~ex_match(uses, r) /\ wb_match(uses, r)
    BY <2>1, <2>2, <2>3, <2>5 DEF forward
  <2>6. CASE ~ex_match(uses, r) /\ ~wb_match(uses, r)
    <3>1. data = rf[r]
      BY <1>1, <1>3, <2>6 DEF Fresh, CpuInv, ZeroRegister
    <3> QED BY <2>1, <2>2, <2>3, <2>6, <3>1 DEF forward
  <2> QED BY <2>4, <2>5, <2>6
<1>4. /\ Fresh(usesRs(ID_EX.instr), ID_EX.instr.rs, ID_EX.a)
      /\ Fresh(usesRt(ID_EX.instr), ID_EX.instr.rt, ID_EX.b)
      /\ ~blocked(usesRs(ID_EX.instr), ID_EX.instr.rs)
      /\ ~blocked(usesRt(ID_EX.instr), ID_EX.instr.rt)
  BY <1>1 DEF CpuInv, OperandsFresh, forward_blocked
<1> HIDE DEF ArchRegs
<1> QED BY <1>2, <1>3, <1>4 DEF fwdA, fwdB

-----------------------------------------------------------------------------
(* The count of the reference model.                                         *)

Counted(r) == r.valid /\ ~r.trap

Advanced(x, b) == IF b THEN Plus(x, 1) ELSE x

(* Counting one by one is counting at once. *)
LEMMA CountsUp ==
  ASSUME NEW x \in Val
  PROVE  /\ x % ValCount = x /\ Plus(x, 1) \in Val
         /\ Plus(Plus(x, 1), 1) = (x + 2) % ValCount
<1>1. ValCount \in Nat /\ ValCount > 2 /\ x \in Nat /\ x < ValCount
  BY ArchAssumption DEF CauseIllegal, Val
<1>2. x % ValCount = x
  BY <1>1
<1>3. CASE x + 2 < ValCount
  BY <1>1, <1>2, <1>3 DEF Plus, Val
<1>4. CASE x + 2 = ValCount
  BY <1>1, <1>2, <1>4 DEF Plus, Val
<1>5. CASE x + 1 = ValCount
  BY <1>1, <1>2, <1>5 DEF Plus, Val
<1> QED BY <1>1, <1>3, <1>4, <1>5

(* The count of the model is that of the core, and one for each instruction  *)
(* behind EX that will retire.                                               *)
CountAgrees ==
  ArchRetired = Advanced(Advanced(instret, Counted(MEM_WB)), Counted(EX_MEM))

(* The core's count of retired instructions is the architectural one.        *)
LEMMA Retired == TypeOK => CountAgrees
<1> SUFFICES ASSUME TypeOK
             PROVE  ArchRetired = Advanced(Advanced(instret, Counted(MEM_WB)), Counted(EX_MEM))
  BY DEF CountAgrees
<1> DEFINE S == {r \in {EX_MEM, MEM_WB} : r.valid /\ ~r.trap}
<1>1. EX_MEM # MEM_WB
  <2>1. DOMAIN EX_MEM # DOMAIN MEM_WB
    <3>1. "accepted" \in DOMAIN EX_MEM /\ "accepted" \notin DOMAIN MEM_WB
      BY DEF TypeOK, Memory, Written
    <3> QED BY <3>1
  <2> QED BY <2>1
<1>2. /\ Counted(EX_MEM) /\ Counted(MEM_WB) => S = {EX_MEM, MEM_WB}
      /\ Counted(EX_MEM) /\ ~Counted(MEM_WB) => S = {EX_MEM}
      /\ ~Counted(EX_MEM) /\ Counted(MEM_WB) => S = {MEM_WB}
      /\ ~Counted(EX_MEM) /\ ~Counted(MEM_WB) => S = {}
  BY DEF Counted
<1>3. /\ Cardinality({EX_MEM, MEM_WB}) = 2 /\ Cardinality({EX_MEM}) = 1
      /\ Cardinality({MEM_WB}) = 1 /\ Cardinality({}) = 0
  <2>1. Cardinality({EX_MEM}) = 1 /\ Cardinality({MEM_WB}) = 1 /\ Cardinality({}) = 0
        /\ IsFiniteSet({EX_MEM})
    BY FS_Singleton, FS_EmptySet
  <2>2. Cardinality({EX_MEM} \union {MEM_WB}) = 2
    BY <1>1, <2>1, FS_AddElement
  <2>3. {EX_MEM} \union {MEM_WB} = {EX_MEM, MEM_WB}
    OBVIOUS
  <2> QED BY <2>1, <2>2, <2>3
<1>4. ArchRetired = (instret + Cardinality(S)) % ValCount
  BY DEF ArchRetired
<1>5. instret \in Val /\ instret \in Nat
  BY DEF TypeOK, Val
<1> HIDE DEF S
<1>6. instret % ValCount = instret /\ Plus(Plus(instret, 1), 1) = (instret + 2) % ValCount
  BY <1>5, CountsUp
<1>7. CASE Counted(EX_MEM) /\ Counted(MEM_WB)
  BY <1>2, <1>3, <1>4, <1>6, <1>7 DEF Advanced
<1>8. CASE Counted(EX_MEM) /\ ~Counted(MEM_WB)
  BY <1>2, <1>3, <1>4, <1>8 DEF Advanced, Plus
<1>9. CASE ~Counted(EX_MEM) /\ Counted(MEM_WB)
  BY <1>2, <1>3, <1>4, <1>9 DEF Advanced, Plus
<1>10. CASE ~Counted(EX_MEM) /\ ~Counted(MEM_WB)
  <2>1. Cardinality(S) = 0
    BY <1>2, <1>3, <1>10
  <2>2. instret + 0 = instret
    BY <1>5
  <2> QED BY <1>4, <1>6, <1>10, <2>1, <2>2 DEF Advanced
<1> QED BY <1>7, <1>8, <1>9, <1>10

(* It counts on when an instruction leaves EX without a trap, and only then. *)
LEMMA RetiredStep ==
  ASSUME CpuInv, NEW e, NEW irdy, NEW open \in BOOLEAN, NEW halt, CoreEdge(e, irdy, open, halt),
         ~verification_halt, ~verification_halt', TypeOK'
  PROVE  /\ idex_fire => /\ ArchRetired' = Advanced(ArchRetired, ~ex_trap)
                         /\ ArchRetired = IF retire_event' THEN Plus(instret', 1) ELSE instret'
         /\ ~idex_fire => ArchRetired' = ArchRetired
<1>1. /\ ArchRetired = Advanced(Advanced(instret, Counted(MEM_WB)), Counted(EX_MEM))
      /\ ArchRetired' = Advanced(Advanced(instret', Counted(MEM_WB')), Counted(EX_MEM'))
  <2>1. CountAgrees /\ CountAgrees'
    BY Retired, PTL DEF CpuInv
  <2> QED BY <2>1 DEF CountAgrees
<1>2. instret' = Advanced(instret, Counted(MEM_WB))
  BY DEF CoreEdge, CsrEdge, retire_event, Advanced, Counted
<1>3. /\ EX_MEM' = NextExMem(open) /\ MEM_WB' = NextMemWb
      /\ EX_MEM \in Memory /\ MEM_WB \in Written
  BY DEF CoreEdge, CpuInv, TypeOK
<1>4. (IF retire_event' THEN Plus(instret', 1) ELSE instret')
        = Advanced(instret', Counted(MEM_WB'))
  BY DEF retire_event, Advanced, Counted
<1>5. exmem_can_accept => (Counted(MEM_WB') <=> Counted(EX_MEM))
  <2>1. CASE exmem_complete
    <3>1. MEM_WB'.valid /\ MEM_WB'.trap = EX_MEM.trap /\ EX_MEM.valid
      BY <2>1, MemDone
    <3> QED BY <3>1 DEF Counted
  <2>2. CASE ~exmem_complete
    BY <1>3, <2>2 DEF NextMemWb, Written, exmem_can_accept, Counted
  <2> QED BY <2>1, <2>2
<1>6. CASE idex_fire
  <2>1. exmem_can_accept
    BY <1>6 DEF idex_fire
  <2>2. Counted(EX_MEM') <=> ~ex_trap
    BY <1>3, <1>6 DEF NextExMem, Counted
  <2>3. Advanced(instret', Counted(MEM_WB')) = ArchRetired
    BY <1>1, <1>2, <1>5, <2>1 DEF Advanced
  <2> QED BY <1>1, <1>4, <1>6, <2>2, <2>3 DEF Advanced
<1>7. CASE ~idex_fire /\ exmem_can_accept
  <2>1. ~Counted(EX_MEM')
    BY <1>3, <1>7 DEF NextExMem, Memory, Counted
  <2> QED BY <1>1, <1>2, <1>5, <1>7, <2>1 DEF Advanced
<1>8. CASE ~idex_fire /\ ~exmem_can_accept
  <2>1. /\ ~MEM_WB'.valid /\ EX_MEM'.valid /\ EX_MEM.valid /\ EX_MEM'.trap = EX_MEM.trap
    BY <1>8, MemKept
  <2>2. ~Counted(MEM_WB') /\ (Counted(EX_MEM') <=> Counted(EX_MEM))
    BY <2>1 DEF Counted
  <2> QED BY <1>1, <1>2, <1>8, <2>2 DEF Advanced
<1> QED BY <1>6, <1>7, <1>8

-----------------------------------------------------------------------------
(* The event of the instruction that leaves EX.                              *)

(* MEM holds it as EX computed it, whatever retires on the same edge.        *)
LEMMA EventLeaves ==
  ASSUME CpuInv, NEW e, NEW irdy, NEW open \in BOOLEAN, NEW halt, CoreEdge(e, irdy, open, halt),
         ~verification_halt, ~verification_halt', TypeOK', idex_fire
  PROVE  /\ EX_MEM'.valid /\ ~EX_MEM'.accepted /\ EX_MEM'.instr = ID_EX.instr
         /\ EX_MEM'.alu = alu_result /\ EX_MEM'.sdata = fwdB
         /\ (ExMemWrites' <=> ExWrites) /\ (ExWrites => ExMemValue' = ExValue)
         /\ exmem_external_mem' /\ memWrite(EX_MEM'.instr) <=> ExMem = "store"
         /\ ExMemEvent' = ExEvent
<1>1. EX_MEM' =
        [ valid |-> TRUE, pc |-> ID_EX.pc, next_pc |-> actual_next, instr |-> ID_EX.instr,
          trap |-> ex_trap, cause |-> IF ex_trap THEN ex_trap_cause ELSE 0,
          alu |-> alu_result, sdata |-> fwdB, accepted |-> FALSE ]
  BY DEF CoreEdge, NextExMem
<1>2. ex_trap \in BOOLEAN
  BY ExWires DEF CpuInv
<1>3. dmem' = dmem
  BY DataStep DEF idex_fire
<1>4. ~ex_trap => epc' = epc /\ cause' = cause
  BY DEF CoreEdge, CsrEdge
<1>5. ArchRetired = IF retire_event' THEN Plus(instret', 1) ELSE instret'
  BY RetiredStep
<1>6. ExMemWrites' <=> ExWrites
  BY <1>1 DEF ExMemWrites, ExWrites
<1>7. ASSUME ~ex_trap, memRead(ID_EX.instr)
      PROVE  ExMemValue' = ExLoaded
  <2>1. ID_EX.instr.op = "LW"
    BY <1>7 DEF memRead
  <2>2. CASE alu_result \in CsrPage
    <3>1. ExMemValue' = csr_rdata'
      BY <1>1, <1>7, <2>1, <2>2 DEF ExMemValue, exmem_external_mem, exmem_result_value,
                                    exmem_csr_read
    <3>2. csr_rdata' = ExLoaded
      BY <1>1, <1>4, <1>5, <1>7, <2>2 DEF csr_rdata, ExLoaded
    <3> QED BY <3>1, <3>2
  <2>3. CASE alu_result \notin CsrPage
    BY <1>1, <1>3, <1>7, <2>3 DEF ExMemValue, exmem_external_mem, ExLoaded
  <2> QED BY <2>2, <2>3
<1>8. ASSUME ~ex_trap, ~memRead(ID_EX.instr)
      PROVE  ExMemValue' = ExValue
  BY <1>1, <1>8 DEF ExMemValue, exmem_result_value, exmem_csr_read, ExValue
<1>9. ~ex_trap => ExMemValue' = ExValue
  BY <1>7, <1>8 DEF ExValue, memRead
<1>10. exmem_external_mem' /\ memWrite(EX_MEM'.instr) <=> ExMem = "store"
  <2>1. memWrite(ID_EX.instr) /\ ~ex_trap => alu_result \notin CsrPage
    BY DEF ex_trap, ex_csr_bad, ex_mem_op
  <2>2. ~(memWrite(ID_EX.instr) /\ memRead(ID_EX.instr))
    BY DEF memWrite, memRead
  <2> QED BY <1>1, <2>1, <2>2 DEF exmem_external_mem, ExMem
<1> HIDE DEF ExMemValue, ExValue
<1>11. ExMemEvent' = ExEvent
  BY <1>1, <1>2, <1>6, <1>9 DEF ExMemEvent, ExEvent, ExMem, ExWrites
<1> QED BY <1>1, <1>6, <1>9, <1>10, <1>11 DEF ExWrites

(* The reference model executes the instruction in ID/EX. *)
LEMMA SameInstruction ==
  ASSUME CpuInv, ID_EX.valid
  PROVE  /\ Reference!State.pc = ID_EX.pc /\ Reference!State.program = imem
         /\ Reference!State.gpr = ArchRegs /\ Reference!State.ram = dmem
         /\ Reference!State.epc = epc /\ Reference!State.cause = cause
         /\ Reference!State.retired = ArchRetired
         /\ imem[ID_EX.pc] = ID_EX.instr
  BY DEF Reference!State, ExecutePc, CpuInv, PathInOrder

(* Which of the traps of EX hold, for an instruction of each kind. *)
LEMMA TrapCases ==
  ASSUME CpuInv, ID_EX.valid
  PROVE  /\ ex_illegal <=> ID_EX.instr.op = "ILLEGAL"
         /\ ~ex_mem_op => ~ex_misaligned /\ ~ex_csr_bad /\ ~ex_unmapped
         /\ ex_mem_op <=> ID_EX.instr.op \in {"LW", "SW"}
         /\ ex_trap \in BOOLEAN
  BY ExWires DEF ex_illegal, ex_mem_op, ex_misaligned, ex_csr_bad, ex_unmapped, memRead,
                 memWrite, CpuInv

(* The records the reference model builds its events from. *)
LEMMA BaseEvent ==
  ASSUME NEW s, NEW npc, NEW x, x = Reference!base_event(s, npc)
  PROVE  x = [ pc |-> s.pc, next_pc |-> npc, trap |-> FALSE, cause |-> 0, rd |-> 0,
               rd_data |-> 0, mem |-> "none", addr |-> 0, data |-> 0 ]
  BY DEF Reference!base_event, Reference!NoEvent

(* The model's events, field by field: a trap, *)
LEMMA TrapEvent ==
  ASSUME NEW s, NEW c, NEW x, x = Reference!trap_event(s, c)
  PROVE  x = [ pc |-> s.pc, next_pc |-> TRAP_VEC, trap |-> TRUE, cause |-> c, rd |-> 0,
               rd_data |-> 0, mem |-> "none", addr |-> 0, data |-> 0 ]
  BY DEF Reference!trap_event, Reference!base_event, Reference!NoEvent

(* a register write, *)
LEMMA WriteEvent ==
  ASSUME NEW s, NEW npc, NEW rd, NEW v, NEW x, x = Reference!write_event(s, npc, rd, v)
  PROVE  x = [ pc |-> s.pc, next_pc |-> npc, trap |-> FALSE, cause |-> 0, rd |-> rd,
               rd_data |-> IF rd = 0 THEN 0 ELSE v, mem |-> "none", addr |-> 0, data |-> 0 ]
  BY DEF Reference!write_event, Reference!base_event, Reference!NoEvent

(* a load *)
LEMMA LoadEvent ==
  ASSUME NEW s, NEW a, NEW v, NEW x, x = Reference!load_event(s, a, v)
  PROVE  x = [ pc |-> s.pc, next_pc |-> Plus4(s.pc), trap |-> FALSE, cause |-> 0,
               rd |-> Reference!instruction(s).rt,
               rd_data |-> IF Reference!instruction(s).rt = 0 THEN 0 ELSE v,
               mem |-> "load", addr |-> a, data |-> v ]
  BY DEF Reference!load_event, Reference!write_event, Reference!base_event,
         Reference!NoEvent, Reference!Plus4, Plus4

(* and a store.                                                              *)
LEMMA StoreEvent ==
  ASSUME NEW s, NEW npc, NEW a, NEW v, NEW x,
         x = [Reference!base_event(s, npc) EXCEPT !.mem = "store", !.addr = a, !.data = v]
  PROVE  x = [ pc |-> s.pc, next_pc |-> npc, trap |-> FALSE, cause |-> 0, rd |-> 0,
               rd_data |-> 0, mem |-> "store", addr |-> a, data |-> v ]
  BY DEF Reference!base_event, Reference!NoEvent

(* The reference model reports the event that EX computes. *)
LEMMA EventAgrees ==
  ASSUME CpuInv, ~verification_halt, idex_fire, NoMisalignedCsr
  PROVE  Reference!event = ExEvent
<1> DEFINE s == Reference!State
           i == ID_EX.instr
<1>1. /\ s.pc = ID_EX.pc /\ s.program = imem /\ s.gpr = ArchRegs /\ s.ram = dmem
      /\ s.epc = epc /\ s.cause = cause /\ s.retired = ArchRetired
      /\ imem[ID_EX.pc] = i /\ ID_EX.valid
  BY SameInstruction DEF idex_fire
<1>2. /\ usesRs(i) => fwdA = ArchRegs[i.rs]
      /\ usesRt(i) => fwdB = ArchRegs[i.rt]
  BY OperandsArch
<1>3. /\ i \in Instr /\ i.op \in Op /\ (ex_trap = TRUE \/ ex_trap = FALSE)
  BY BackTypes, ExWires DEF CpuInv, Instr
<1> HIDE DEF s
<1>4. /\ Reference!instruction(s) = i
      /\ usesRs(i) => Reference!rsVal(s) = fwdA
      /\ usesRt(i) => Reference!rtVal(s) = fwdB
  BY <1>1, <1>2 DEF Reference!instruction, Reference!rsVal, Reference!rtVal
<1>5. Reference!event = Reference!step_event(s)
  BY DEF Reference!event, s
<1>6. /\ \A n : Reference!Plus4(n) = Plus4(n)
      /\ \A x, y : Reference!Plus(x, y) = Plus(x, y)
      /\ Reference!Link = Link /\ Reference!CauseIllegal = CauseIllegal
  BY DEF Reference!Plus4, Reference!Plus, Reference!Link, Reference!CauseIllegal,
         Plus4, Plus, Link, CauseIllegal
<1>7. CASE i.op \in {"ALU", "SHIFT", "ADDI", "LUI"}
  <2>1. ex_trap = FALSE
    BY <1>1, <1>3, <1>7, TrapCases DEF ex_trap
  <2>2. /\ actual_next = Plus4(ID_EX.pc) /\ ExMem = "none" /\ ExValue = alu_result
        /\ (ExWrites <=> regDest(i) # 0)
    BY <1>7, <2>1 DEF actual_next, ExMem, ExValue, ExWrites, jump, taken, memRead, memWrite,
                      regWrite
  <2>3. Reference!event = Reference!write_event(s, Plus4(ID_EX.pc), regDest(i), alu_result)
    BY <1>1, <1>4, <1>5, <1>6, <1>7 DEF usesRs, usesRt, alu_result, alu, regDest,
                                        Reference!step_event
  <2>4. Reference!event = [ pc |-> s.pc, next_pc |-> Plus4(ID_EX.pc), trap |-> FALSE,
                            cause |-> 0, rd |-> regDest(i),
                            rd_data |-> IF regDest(i) = 0 THEN 0 ELSE alu_result,
                            mem |-> "none", addr |-> 0, data |-> 0 ]
    BY <2>3, WriteEvent
  <2> QED BY <1>1, <2>1, <2>2, <2>4 DEF ExEvent
<1>8. CASE i.op \in {"BEQ", "BNE", "J", "ERET"}
  <2>1. ex_trap = FALSE
    BY <1>1, <1>3, <1>8, TrapCases DEF ex_trap
  <2>2. ExMem = "none" /\ ~ExWrites
    BY <1>8, <2>1 DEF ExMem, ExWrites, memRead, memWrite, regWrite
  <2>3. Reference!event = Reference!base_event(s, actual_next)
    BY <1>1, <1>4, <1>5, <1>6, <1>8, <2>1 DEF usesRs, usesRt, actual_next, jump, taken,
                                              Reference!step_event
  <2>4. Reference!event = [ pc |-> ID_EX.pc, next_pc |-> actual_next, trap |-> FALSE,
                            cause |-> 0, rd |-> 0, rd_data |-> 0,
                            mem |-> "none", addr |-> 0, data |-> 0 ]
    BY <1>1, <2>3, BaseEvent
  <2> QED BY <2>1, <2>2, <2>4 DEF ExEvent
<1>9. CASE i.op = "JAL"
  <2>1. ex_trap = FALSE
    BY <1>1, <1>3, <1>9, TrapCases DEF ex_trap
  <2>2. /\ ExMem = "none" /\ ExValue = Plus4(ID_EX.pc) /\ regDest(i) = Link /\ Link # 0
        /\ ExWrites /\ actual_next = i.target
    BY <1>9, <2>1, ArchAssumption DEF ExMem, ExValue, ExWrites, memRead, memWrite, regWrite,
                                      regDest, Link, actual_next, jump
  <2>3. Reference!event = Reference!write_event(s, i.target, Link, Plus4(ID_EX.pc))
    BY <1>1, <1>4, <1>5, <1>6, <1>9 DEF Reference!step_event
  <2>4. Reference!event = [ pc |-> s.pc, next_pc |-> i.target, trap |-> FALSE,
                            cause |-> 0, rd |-> Link,
                            rd_data |-> IF Link = 0 THEN 0 ELSE Plus4(ID_EX.pc),
                            mem |-> "none", addr |-> 0, data |-> 0 ]
    BY <2>3, WriteEvent
  <2> QED BY <1>1, <2>1, <2>2, <2>4 DEF ExEvent
<1>10. ASSUME ex_trap, Reference!event = Reference!trap_event(s, ex_trap_cause)
       PROVE  Reference!event = ExEvent
  <2>1. Reference!event = [ pc |-> s.pc, next_pc |-> TRAP_VEC, trap |-> TRUE,
                            cause |-> ex_trap_cause, rd |-> 0, rd_data |-> 0,
                            mem |-> "none", addr |-> 0, data |-> 0 ]
    BY <1>10, TrapEvent
  <2>2. ExMem = "none" /\ ~ExWrites /\ actual_next = TRAP_VEC /\ ex_trap = TRUE
    BY <1>3, <1>10 DEF ExMem, ExWrites, actual_next
  <2> QED BY <1>1, <2>1, <2>2 DEF ExEvent
<1>11. CASE i.op = "ILLEGAL"
  <2>1. ex_trap /\ ex_trap_cause = CauseIllegal
    BY <1>1, <1>11, TrapCases DEF ex_trap, ex_trap_cause
  <2>2. Reference!event = Reference!trap_event(s, CauseIllegal)
    BY <1>4, <1>5, <1>6, <1>11 DEF Reference!step_event
  <2> QED BY <1>10, <2>1, <2>2
<1>12. CASE i.op \in {"LW", "SW"}
  <2> DEFINE a == alu_result
  <2>1. /\ Reference!event = Reference!memory_event(s) /\ ~ex_illegal /\ ex_mem_op
        /\ a = Plus(fwdA, i.imm) /\ Reference!rsVal(s) = fwdA
    BY <1>1, <1>4, <1>5, <1>12, TrapCases DEF usesRs, alu_result, alu, Reference!step_event
  <2>2. /\ memRead(i) <=> i.op = "LW"
        /\ memWrite(i) <=> i.op = "SW"
    BY DEF memRead, memWrite
  <2> HIDE DEF a
  <2>3. CASE a \in CsrPage /\ (i.op = "SW" \/ a \notin {CSR_INSTRET, CSR_EPC, CSR_CAUSE})
    <3>1. ex_csr_bad /\ ~ex_misaligned
      BY <2>1, <2>2, <2>3 DEF a, ex_csr_bad, NoMisalignedCsr
    <3>2. ex_trap /\ ex_trap_cause = CauseCsr
      BY <2>1, <3>1 DEF ex_trap, ex_trap_cause
    <3>3. Reference!event = Reference!trap_event(s, CauseCsr)
      BY <1>4, <1>6, <2>1, <2>3 DEF Reference!memory_event, Reference!CauseCsr, CauseCsr
    <3> QED BY <1>10, <3>2, <3>3
  <2>4. CASE a \notin CsrPage /\ a \in Misaligned
    <3>1. ~ex_csr_bad /\ ex_misaligned
      BY <2>1, <2>4 DEF a, ex_csr_bad, ex_misaligned
    <3>2. ex_trap /\ ex_trap_cause = IF i.op = "SW" THEN CauseMisalignedStore
                                                    ELSE CauseMisalignedLoad
      BY <1>12, <2>1, <2>2, <3>1 DEF ex_trap, ex_trap_cause
    <3>3. Reference!event = Reference!trap_event(s, IF i.op = "SW" THEN CauseMisalignedStore
                                                                   ELSE CauseMisalignedLoad)
      BY <1>4, <1>6, <2>1, <2>4 DEF Reference!memory_event, Reference!CauseMisalignedStore,
        CauseMisalignedStore, Reference!CauseMisalignedLoad, CauseMisalignedLoad
    <3> QED BY <1>10, <3>2, <3>3
  <2>5. CASE a \notin CsrPage /\ a \notin Misaligned /\ a \notin RamAddr
    <3>1. ~ex_csr_bad /\ ~ex_misaligned /\ ex_unmapped
      BY <2>1, <2>5 DEF a, ex_csr_bad, ex_misaligned, ex_unmapped
    <3>2. ex_trap /\ ex_trap_cause = IF i.op = "SW" THEN CauseUnmappedStore
                                                    ELSE CauseUnmappedLoad
      BY <1>12, <2>1, <2>2, <3>1 DEF ex_trap, ex_trap_cause
    <3>3. Reference!event = Reference!trap_event(s, IF i.op = "SW" THEN CauseUnmappedStore
                                                                   ELSE CauseUnmappedLoad)
      BY <1>4, <1>6, <2>1, <2>5 DEF Reference!memory_event, Reference!CauseUnmappedStore,
        CauseUnmappedStore, Reference!CauseUnmappedLoad, CauseUnmappedLoad
    <3> QED BY <1>10, <3>2, <3>3
  <2>6. CASE i.op = "SW" /\ a \notin CsrPage /\ a \notin Misaligned /\ a \in RamAddr
    <3>1. ex_trap = FALSE
      BY <1>3, <2>1, <2>6 DEF a, ex_csr_bad, ex_misaligned, ex_unmapped, ex_trap
    <3>2. ExMem = "store" /\ ~ExWrites /\ actual_next = Plus4(ID_EX.pc)
      BY <2>6, <3>1 DEF ExMem, ExWrites, memRead, memWrite, regWrite, actual_next, jump, taken
    <3>3. Reference!rtVal(s) = fwdB
      BY <1>4, <2>6 DEF usesRt
    <3>4. Reference!event = [Reference!base_event(s, Plus4(ID_EX.pc))
                               EXCEPT !.mem = "store", !.addr = a, !.data = fwdB]
      BY <1>1, <1>4, <1>6, <2>1, <2>6, <3>3 DEF Reference!memory_event
    <3>5. Reference!event = [ pc |-> s.pc, next_pc |-> Plus4(ID_EX.pc), trap |-> FALSE,
                              cause |-> 0, rd |-> 0, rd_data |-> 0, mem |-> "store",
                              addr |-> a, data |-> fwdB ]
      BY <3>4, StoreEvent
    <3> QED BY <1>1, <3>1, <3>2, <3>5 DEF ExEvent, a
  <2>7. CASE /\ i.op = "LW"
             /\ IF a \in CsrPage THEN a \in {CSR_INSTRET, CSR_EPC, CSR_CAUSE}
                                 ELSE a \notin Misaligned /\ a \in RamAddr
    <3>1. ex_trap = FALSE
      BY <1>3, <2>1, <2>2, <2>7 DEF a, ex_csr_bad, ex_misaligned, ex_unmapped, ex_trap,
                                    NoMisalignedCsr
    <3>2. ExMem = "load" /\ (ExWrites <=> i.rt # 0) /\ ExValue = ExLoaded
          /\ actual_next = Plus4(ID_EX.pc) /\ regDest(i) = i.rt
      BY <2>7, <3>1 DEF ExMem, ExWrites, ExValue, memRead, memWrite, regWrite, actual_next,
                        jump, taken, regDest
    <3>3. Reference!event = Reference!load_event(s, a, ExLoaded)
      <4>1. CASE a \in CsrPage
        <5>1. Reference!event = Reference!load_event(s, a, Reference!read_csr(s, a))
          BY <1>4, <1>6, <2>1, <2>7, <4>1 DEF Reference!memory_event
        <5>2. Reference!read_csr(s, a) = ExLoaded
          BY <1>1, <2>7, <4>1 DEF Reference!read_csr, ExLoaded, a
        <5> QED BY <5>1, <5>2
      <4>2. CASE a \notin CsrPage
        <5>1. Reference!event = Reference!load_event(s, a, dmem[a])
          BY <1>1, <1>4, <1>6, <2>1, <2>7, <4>2 DEF Reference!memory_event
        <5> QED BY <4>2, <5>1 DEF ExLoaded, a
      <4> QED BY <4>1, <4>2
    <3>4. Reference!event = [ pc |-> s.pc, next_pc |-> Plus4(s.pc), trap |-> FALSE,
                              cause |-> 0, rd |-> Reference!instruction(s).rt,
                              rd_data |-> IF Reference!instruction(s).rt = 0 THEN 0 ELSE ExLoaded,
                              mem |-> "load", addr |-> a, data |-> ExLoaded ]
      BY <3>3, LoadEvent
    <3> QED BY <1>1, <1>4, <3>1, <3>2, <3>4 DEF ExEvent, a
  <2> QED BY <1>12, <2>3, <2>4, <2>5, <2>6, <2>7
<1> QED BY <1>3, <1>7, <1>8, <1>9, <1>11, <1>12 DEF Op

(* The state it then goes to. *)
LEMMA StepAgrees ==
  ASSUME CpuInv, ~verification_halt, idex_fire, NoMisalignedCsr
  PROVE  LET next == Reference!step(Reference!State)
         IN  /\ next.pc = actual_next
             /\ next.gpr = IF ExWrites THEN [ArchRegs EXCEPT ![regDest(ID_EX.instr)] = ExValue]
                                       ELSE ArchRegs
             /\ next.epc = IF ex_trap THEN ID_EX.pc ELSE epc
             /\ next.cause = IF ex_trap THEN ex_trap_cause ELSE cause
             /\ next.retired = Advanced(ArchRetired, ~ex_trap)
<1> DEFINE s == Reference!State
           ev == Reference!step_event(s)
           next == Reference!step(s)
<1>1. ev = ExEvent
  BY EventAgrees DEF Reference!event
<1>2. /\ ev.next_pc = actual_next /\ (ev.trap <=> ex_trap)
      /\ ev.cause = IF ex_trap THEN ex_trap_cause ELSE 0
      /\ ev.rd = IF ExWrites THEN regDest(ID_EX.instr) ELSE 0
      /\ ev.rd_data = IF ExWrites THEN ExValue ELSE 0
  BY <1>1 DEF ExEvent
<1>3. s = [ program |-> imem, pc |-> ExecutePc, gpr |-> ArchRegs, epc |-> epc, cause |-> cause,
            retired |-> ArchRetired, ram |-> dmem ]
  BY DEF Reference!State
<1>4. ExecutePc = ID_EX.pc /\ (ExWrites => regDest(ID_EX.instr) # 0)
  BY DEF ExecutePc, idex_fire, ExWrites
<1>5. next = [ s EXCEPT !.pc = ev.next_pc,
                        !.gpr = IF ev.rd = 0 THEN @ ELSE [@ EXCEPT ![ev.rd] = ev.rd_data],
                        !.epc = IF ev.trap THEN s.pc ELSE @,
                        !.cause = IF ev.trap THEN ev.cause ELSE @,
                        !.retired = IF ev.trap THEN @ ELSE Plus(@, 1),
                        !.ram = IF ev.mem = "store" THEN [@ EXCEPT ![ev.addr] = ev.data] ELSE @ ]
  BY DEF Reference!step, Reference!Plus, Plus
<1> HIDE DEF s, ev, next
<1>6. /\ next.pc = ev.next_pc
      /\ next.gpr = IF ev.rd = 0 THEN ArchRegs ELSE [ArchRegs EXCEPT ![ev.rd] = ev.rd_data]
      /\ next.epc = IF ev.trap THEN ExecutePc ELSE epc
      /\ next.cause = IF ev.trap THEN ev.cause ELSE cause
      /\ next.retired = IF ev.trap THEN ArchRetired ELSE Plus(ArchRetired, 1)
  BY <1>3, <1>5
<1>7. /\ next.pc = actual_next
      /\ next.gpr = IF ExWrites THEN [ArchRegs EXCEPT ![regDest(ID_EX.instr)] = ExValue]
                                ELSE ArchRegs
      /\ next.epc = IF ex_trap THEN ID_EX.pc ELSE epc
      /\ next.cause = IF ex_trap THEN ex_trap_cause ELSE cause
      /\ next.retired = Advanced(ArchRetired, ~ex_trap)
  BY <1>2, <1>4, <1>6 DEF Advanced
<1> QED BY <1>7 DEF next, s

-----------------------------------------------------------------------------
(* One edge, one step of the reference model.                                *)

(* The instruction to execute next changes only when one leaves EX, to its   *)
(* successor, whatever was predicted and fetched meanwhile.                  *)
LEMMA PathStep ==
  ASSUME CpuInv, NEW e, NEW irdy, NEW open \in BOOLEAN, NEW halt, CoreEdge(e, irdy, open, halt),
         ~verification_halt
  PROVE  ExecutePc' = IF idex_fire THEN actual_next ELSE ExecutePc
<1>1. /\ FrontInv(Instr) /\ SoundWires(e, Instr) /\ irdy \in BOOLEAN /\ FrontEdge(e, irdy)
      /\ (e.redirect <=> resolve_redirect) /\ e.target = actual_next /\ ~e.halt
      /\ e.issue => idex_slot_available
      /\ ID_EX' = NextIdEx(e) /\ ID_EX \in Decoded
  BY FrontPart DEF CoreEdge, CpuInv, TypeOK
<1>2. CASE e.redirect
  <2>1. /\ ~LiveRequest' /\ ~LiveOutstanding' /\ ~if_buf'.valid /\ ~IF_ID'.valid
        /\ fetch_pc' = actual_next
    BY <1>1, <1>2, RedirectKills
  <2>2. NextIssue' = actual_next
    BY <2>1 DEF NextIssue, FromBuffer, FromOutstanding, FromRequest
  <2>3. ~ID_EX'.valid /\ idex_fire
    BY <1>1, <1>2 DEF NextIdEx, Decoded, resolve_redirect
  <2> QED BY <2>2, <2>3 DEF ExecutePc
<1>3. CASE ~e.redirect
  <2>1. /\ ifid_to_idex(e) => IF_ID.valid /\ NextIssue = IF_ID.pc
        /\ ~ifid_to_idex(e) => NextIssue' = NextIssue
    BY <1>1, <1>3, IssueSide DEF NextIssue
  <2>2. idex_fire => NextIssue = actual_next
    BY <1>1, <1>3 DEF resolve_redirect, CpuInv, PathInOrder, idex_fire
  <2>3. ID_EX.valid /\ ~idex_fire => ~idex_slot_available
    BY DEF idex_slot_available
  <2>4. CASE ifid_to_idex(e)
    <3>1. ID_EX'.valid /\ ID_EX'.pc = NextIssue /\ e.issue
      BY <1>1, <1>3, <2>1, <2>4 DEF NextIdEx, ifid_to_idex
    <3> QED BY <1>1, <2>2, <2>3, <3>1 DEF ExecutePc
  <2>5. CASE ~ifid_to_idex(e) /\ idex_slot_available
    <3>1. ~ID_EX'.valid
      BY <1>1, <1>3, <2>5 DEF NextIdEx, Decoded
    <3> QED BY <2>1, <2>2, <2>3, <2>5, <3>1 DEF ExecutePc
  <2>6. CASE ~ifid_to_idex(e) /\ ~idex_slot_available
    <3>1. ID_EX' = HeldIdEx /\ ID_EX.valid /\ ~idex_fire
      BY <1>1, <1>3, <2>6 DEF NextIdEx, idex_slot_available
    <3>2. ID_EX'.valid /\ ID_EX'.pc = ID_EX.pc
      BY <1>1, <3>1 DEF HeldIdEx, Decoded
    <3> QED BY <3>1, <3>2 DEF ExecutePc
  <2> QED BY <2>4, <2>5, <2>6
<1> QED BY <1>2, <1>3

(* A log of at most two events, split after the first. *)
LEMMA ShortLog ==
  ASSUME NEW x, NEW y
  PROVE  /\ <<>> \o <<y>> = <<y>> /\ <<x>> \o <<>> = <<x>> /\ <<>> \o <<>> = <<>>
         /\ <<x>> \o <<y>> = Append(<<x>>, y) /\ Append(<<>>, y) = <<y>>
         /\ Head(<<x>>) = x /\ Tail(<<x>>) = <<>> /\ <<x>> # <<>>
         /\ Head(Append(<<x>>, y)) = x /\ Tail(Append(<<x>>, y)) = <<y>>
         /\ Append(<<x>>, y) # <<>>
<1>1. /\ <<>> \o <<y>> = <<y>> /\ <<x>> \o <<>> = <<x>> /\ <<>> \o <<>> = <<>>
      /\ Append(<<>>, y) = <<y>>
      /\ Head(<<x>>) = x /\ Tail(<<x>>) = <<>> /\ <<x>> # <<>>
  OBVIOUS
<1>2. <<x>> \in Seq({x, y}) /\ x \in {x, y} /\ y \in {x, y}
  OBVIOUS
<1>3. <<x>> \o <<y>> = Append(<<x>>, y)
  BY <1>2, AppendIsConcat
<1>4. Head(Append(<<x>>, y)) = x /\ Tail(Append(<<x>>, y)) = Append(<<>>, y)
  <2>1. /\ Head(Append(<<x>>, y)) = IF <<x>> = <<>> THEN y ELSE Head(<<x>>)
        /\ Tail(Append(<<x>>, y)) = IF <<x>> = <<>> THEN <<>> ELSE Append(Tail(<<x>>), y)
    BY <1>2, HeadTailAppend
  <2> QED BY <1>1, <2>1
<1>5. Append(<<x>>, y) # <<>>
  BY <1>2, AppendProperties
<1>6. Tail(Append(<<x>>, y)) = <<y>>
  BY <1>1, <1>4
<1> QED BY <1>1, <1>3, <1>4, <1>5, <1>6

(* Events leave the log at one end and enter it at the other. *)
InMem == IF EX_MEM.valid THEN <<ExMemEvent>> ELSE <<>>

(* The oldest event in flight is the one that is shown next.                 *)
LEMMA LogHead ==
  ASSUME CpuInv
  PROVE  /\ Reference!Rest(MEM_WB.valid) = InMem
         /\ MEM_WB.valid => EventsInFlight # <<>> /\ Head(EventsInFlight) = RetiringEvent
<1> DEFINE R == RetiringEvent
           X == ExMemEvent
           M == IF MEM_WB.valid THEN <<R>> ELSE <<>>
<1>1. /\ Reference!Rest(MEM_WB.valid) = IF MEM_WB.valid THEN Tail(EventsInFlight)
                                         ELSE EventsInFlight
      /\ MEM_WB.valid \in BOOLEAN /\ EX_MEM.valid \in BOOLEAN
      /\ EventsInFlight = M \o InMem
  BY BackTypes DEF Reference!Rest, CpuInv, EventsInFlight, InMem
<1>2. /\ MEM_WB.valid => M = <<R>>
      /\ ~MEM_WB.valid => M = <<>>
      /\ EX_MEM.valid => InMem = <<X>>
      /\ ~EX_MEM.valid => InMem = <<>>
  BY DEF InMem
<1> HIDE DEF M, R, X
<1>3. /\ <<>> \o <<X>> = <<X>> /\ <<R>> \o <<>> = <<R>> /\ <<>> \o <<>> = <<>>
      /\ <<R>> \o <<X>> = Append(<<R>>, X)
      /\ Head(<<R>>) = R /\ Tail(<<R>>) = <<>> /\ <<R>> # <<>>
      /\ Head(Append(<<R>>, X)) = R /\ Tail(Append(<<R>>, X)) = <<X>>
      /\ Append(<<R>>, X) # <<>>
  BY ShortLog
<1>4. /\ Reference!Rest(MEM_WB.valid) = InMem
      /\ MEM_WB.valid => EventsInFlight # <<>> /\ Head(EventsInFlight) = R
  BY <1>1, <1>2, <1>3
<1> QED BY <1>4 DEF R

(* An edge appends the event of EX to the log and shows its head.            *)
LEMMA LogStep ==
  ASSUME CpuInv, NEW e, NEW irdy, NEW open \in BOOLEAN, NEW halt, CoreEdge(e, irdy, open, halt),
         ~verification_halt, ~verification_halt', TypeOK'
  PROVE  EventsInFlight' = IF idex_fire THEN Append(InMem, ExEvent) ELSE InMem
<1> DEFINE M == IF MEM_WB.valid THEN <<RetiringEvent>> ELSE <<>>
<1> HIDE DEF RetiringEvent, ExMemEvent, ExEvent
<1>1. EventsInFlight' = M' \o InMem'
  BY DEF EventsInFlight, InMem
<1>2. /\ EX_MEM' = NextExMem(open) /\ MEM_WB' = NextMemWb
      /\ EX_MEM \in Memory /\ MEM_WB \in Written
  BY DEF CoreEdge, CpuInv, TypeOK
<1>3. exmem_can_accept => M' = InMem
  <2>1. CASE exmem_complete
    <3>1. EX_MEM.valid /\ MEM_WB'.valid /\ RetiringEvent' = ExMemEvent
      BY <2>1, MemDone
    <3> QED BY <3>1 DEF InMem
  <2>2. CASE ~exmem_complete
    <3>1. ~MEM_WB'.valid
      BY <1>2, <2>2 DEF NextMemWb, Written
    <3> QED BY <2>2, <3>1 DEF InMem, exmem_can_accept
  <2> QED BY <2>1, <2>2
<1> HIDE DEF M
<1>4. CASE idex_fire
  <2>1. EX_MEM'.valid /\ ExMemEvent' = ExEvent
    BY <1>4, EventLeaves
  <2>2. InMem' = <<ExEvent>> /\ M' = InMem
    BY <1>3, <1>4, <2>1 DEF InMem, idex_fire
  <2>3. <<>> \o <<ExEvent>> = <<ExEvent>> /\ Append(<<>>, ExEvent) = <<ExEvent>>
        /\ <<ExMemEvent>> \o <<ExEvent>> = Append(<<ExMemEvent>>, ExEvent)
    BY ShortLog
  <2>4. InMem \o <<ExEvent>> = Append(InMem, ExEvent)
    BY <2>3 DEF InMem
  <2> QED BY <1>1, <1>4, <2>2, <2>4
<1>5. CASE ~idex_fire /\ exmem_can_accept
  <2>1. ~EX_MEM'.valid
    BY <1>2, <1>5 DEF NextExMem, Memory
  <2>2. InMem' = <<>> /\ M' = InMem
    BY <1>3, <1>5, <2>1 DEF InMem
  <2>3. InMem \o <<>> = InMem
    BY ShortLog DEF InMem
  <2> QED BY <1>1, <1>5, <2>2, <2>3
<1>6. CASE ~idex_fire /\ ~exmem_can_accept
  <2>1. /\ ~MEM_WB'.valid /\ EX_MEM'.valid /\ EX_MEM.valid /\ ExMemEvent' = ExMemEvent
    BY <1>6, MemKept
  <2>2. InMem' = InMem /\ M' = <<>>
    BY <2>1 DEF InMem, M
  <2>3. <<>> \o InMem = InMem
    BY ShortLog DEF InMem
  <2> QED BY <1>1, <1>6, <2>2, <2>3
<1> QED BY <1>4, <1>5, <1>6

(* What the trace shows is the oldest event of the log. *)
LEMMA ShowStep ==
  ASSUME CpuInv, NEW e, NEW irdy, NEW open \in BOOLEAN, NEW halt, CoreEdge(e, irdy, open, halt)
  PROVE  Reference!Shown(MEM_WB.valid /\ ~verification_halt)
<1>1. /\ trace_valid' = (MEM_WB.valid /\ ~verification_halt)
      /\ IF trace_valid' THEN trace' = RetiringEvent /\ event_order_count' = 1 - event_order_count
                         ELSE UNCHANGED <<trace, event_order_count>>
  BY DEF CoreEdge, TraceEdge
<1>2. MEM_WB.valid => EventsInFlight # <<>> /\ Head(EventsInFlight) = RetiringEvent
  BY LogHead
<1> QED BY <1>1, <1>2 DEF Reference!Shown, Reference!Show

(* An edge on which no instruction leaves EX at most makes a store visible.  *)
LEMMA WaitDrains ==
  ASSUME CpuInv, NEW e, NEW irdy, NEW open \in BOOLEAN, NEW halt, CoreEdge(e, irdy, open, halt),
         ~verification_halt, ~verification_halt', TypeOK', ~idex_fire
  PROVE  /\ UNCHANGED <<imem, Reference!archVars>>
         /\ Reference!Drain \/ UNCHANGED <<dmem, PendingStore>>
<1>1. /\ ExecutePc' = ExecutePc /\ ArchRegs' = ArchRegs /\ ArchRetired' = ArchRetired
      /\ epc' = epc /\ cause' = cause /\ imem' = imem
  BY PathStep, RegsKept, RetiredStep DEF CoreEdge, CsrEdge
<1>2. Reference!Drain \/ UNCHANGED <<dmem, PendingStore>>
  <2>1. CASE dmem' = dmem /\ PendingStore' = PendingStore
    BY <2>1
  <2>2. CASE /\ StorePending /\ dmem' = [dmem EXCEPT ![EX_MEM.alu] = EX_MEM.sdata]
             /\ ~StorePending'
    <3>1. /\ PendingStore = [valid |-> TRUE, addr |-> EX_MEM.alu, data |-> EX_MEM.sdata]
          /\ PendingStore' = [valid |-> FALSE, addr |-> 0, data |-> 0]
      BY <2>2 DEF PendingStore
    <3>2. /\ PendingStore.valid /\ PendingStore' = Reference!NoStore
          /\ dmem' = [dmem EXCEPT ![PendingStore.addr] = PendingStore.data]
      BY <2>2, <3>1 DEF Reference!NoStore
    <3> QED BY <1>1, <3>2 DEF Reference!Drain, Reference!archVars
  <2> QED BY <2>1, <2>2, DataStep
<1> QED BY <1>1, <1>2 DEF Reference!archVars

(* An edge on which nothing executes is a step of Isa, or none, *)
LEMMA WaitRefines ==
  ASSUME CpuInv, NEW e, NEW irdy, NEW open \in BOOLEAN, NEW halt, CoreEdge(e, irdy, open, halt),
         ~verification_halt, ~verification_halt', TypeOK', ~idex_fire
  PROVE  Reference!IsaStep(MEM_WB.valid)
<1>1. Reference!Shown(MEM_WB.valid)
  <2>1. Reference!Shown(MEM_WB.valid /\ ~verification_halt)
    BY ShowStep
  <2> QED BY <2>1 DEF Reference!Shown
<1>2. EventsInFlight' = Reference!Rest(MEM_WB.valid)
  BY LogStep, LogHead
<1>3. /\ UNCHANGED <<imem, Reference!archVars>>
      /\ Reference!Drain \/ UNCHANGED <<dmem, PendingStore>>
  BY WaitDrains
<1> QED BY <1>1, <1>2, <1>3 DEF Reference!IsaStep

(* One on which it does executes that instruction. *)
LEMMA FireExecutes ==
  ASSUME CpuInv, NEW e, NEW irdy, NEW open \in BOOLEAN, NEW halt, CoreEdge(e, irdy, open, halt),
         ~verification_halt, ~verification_halt', TypeOK', idex_fire, NoMisalignedCsr
  PROVE  /\ Reference!Execute /\ imem' = imem /\ dmem' = dmem /\ ~StorePending
         /\ EX_MEM'.valid /\ ExMemEvent' = Reference!event
<1>1. Reference!event = ExEvent
  BY EventAgrees
<1>2. EX_MEM'.valid /\ ExMemEvent' = ExEvent
  BY EventLeaves
<1>3. /\ dmem' = dmem /\ ~StorePending /\ imem' = imem
  BY DataStep DEF idex_fire, CoreEdge
<1>4. /\ EX_MEM'.alu = alu_result /\ EX_MEM'.sdata = fwdB /\ EX_MEM'.instr = ID_EX.instr
      /\ (ExMemWrites' <=> ExWrites) /\ (ExWrites => ExMemValue' = ExValue)
      /\ StorePending' <=> ExMem = "store"
  <2>1. /\ EX_MEM'.alu = alu_result /\ EX_MEM'.sdata = fwdB /\ EX_MEM'.instr = ID_EX.instr
        /\ (ExMemWrites' <=> ExWrites) /\ (ExWrites => ExMemValue' = ExValue)
        /\ exmem_external_mem' /\ memWrite(EX_MEM'.instr) <=> ExMem = "store"
        /\ ~EX_MEM'.accepted
    BY EventLeaves
  <2> QED BY <2>1 DEF StorePending
<1>5. ArchRegs' = IF ExWrites THEN [ArchRegs EXCEPT ![regDest(ID_EX.instr)] = ExValue]
                              ELSE ArchRegs
  <2>1. /\ ArchRegs \in [Reg -> {ArchRegs[r] : r \in Reg}] /\ DOMAIN ArchRegs = Reg
        /\ DOMAIN ArchRegs' = Reg /\ ArchRegs' = [r \in Reg |-> ArchRegs'[r]]
        /\ ArchRegs = [r \in Reg |-> ArchRegs[r]]
    BY DEF ArchRegs
  <2>2. ASSUME NEW r \in Reg
        PROVE  ArchRegs'[r] = IF ExWrites /\ regDest(ID_EX.instr) = r THEN ExValue
                              ELSE ArchRegs[r]
    <3>1. /\ ArchRegs'[r] = IF ExMemWrites' /\ regDest(EX_MEM'.instr) = r THEN ExMemValue'
                            ELSE IF wb_commit_we' /\ regDest(MEM_WB'.instr) = r
                              THEN MEM_WB'.result ELSE rf'[r]
          /\ ArchRegs[r] = IF ExMemWrites /\ regDest(EX_MEM.instr) = r THEN ExMemValue
                           ELSE IF wb_commit_we /\ regDest(MEM_WB.instr) = r
                             THEN MEM_WB.result ELSE rf[r]
      BY DEF ArchRegs
    <3>2. ExMemWrites => exmem_complete
      BY DEF idex_fire, exmem_can_accept, ExMemWrites
    <3>3. (IF wb_commit_we' /\ regDest(MEM_WB'.instr) = r THEN MEM_WB'.result ELSE rf'[r])
            = IF exmem_complete /\ ExMemWrites /\ regDest(EX_MEM.instr) = r THEN ExMemValue
              ELSE IF wb_commit_we /\ regDest(MEM_WB.instr) = r THEN MEM_WB.result
              ELSE rf[r]
      BY Behind
    <3> HIDE DEF ExWrites, ExMemWrites
    <3> QED BY <1>4, <3>1, <3>2, <3>3
  <2>3. regDest(ID_EX.instr) \in Reg
    BY BackTypes, InstrFacts DEF CpuInv
  <2> HIDE DEF ArchRegs, ExWrites
  <2>4. CASE ExWrites
    BY <2>1, <2>2, <2>3, <2>4
  <2>5. CASE ~ExWrites
    BY <2>1, <2>2, <2>5
  <2> QED BY <2>4, <2>5
<1>6. /\ ExecutePc' = actual_next
      /\ ArchRetired' = Advanced(ArchRetired, ~ex_trap)
      /\ epc' = IF ex_trap THEN ID_EX.pc ELSE epc
      /\ cause' = IF ex_trap THEN ex_trap_cause ELSE cause
  BY PathStep, RetiredStep DEF CoreEdge, CsrEdge
<1>7. LET next == Reference!step(Reference!State)
      IN  /\ ExecutePc' = next.pc /\ ArchRegs' = next.gpr
          /\ epc' = next.epc /\ cause' = next.cause /\ ArchRetired' = next.retired
  BY <1>5, <1>6, StepAgrees
<1>8. /\ PendingStore' = IF Reference!event.mem = "store"
                         THEN [valid |-> TRUE, addr |-> Reference!event.addr,
                               data |-> Reference!event.data]
                         ELSE PendingStore
      /\ ~PendingStore.valid
  <2>1. PendingStore = [valid |-> FALSE, addr |-> 0, data |-> 0]
    BY <1>3 DEF PendingStore
  <2>2. CASE ExMem = "store"
    <3>1. /\ ExEvent.mem = "store" /\ ExEvent.addr = alu_result /\ ExEvent.data = fwdB
      BY <2>2 DEF ExEvent
    <3> QED BY <1>1, <1>4, <2>1, <2>2, <3>1 DEF PendingStore
  <2>3. CASE ExMem # "store"
    <3>1. ExEvent.mem # "store"
      BY <2>3 DEF ExEvent
    <3> QED BY <1>1, <1>4, <2>1, <2>3, <3>1 DEF PendingStore
  <2> QED BY <2>2, <2>3
<1>9. Reference!Execute
  BY <1>3, <1>7, <1>8 DEF Reference!Execute
<1> QED BY <1>1, <1>2, <1>3, <1>9

(* and one on which EX executes is Isa's step of that instruction.           *)
LEMMA FireRefines ==
  ASSUME CpuInv, NEW e, NEW irdy, NEW open \in BOOLEAN, NEW halt, CoreEdge(e, irdy, open, halt),
         ~verification_halt, ~verification_halt', TypeOK', idex_fire, NoMisalignedCsr
  PROVE  Reference!IsaStep(MEM_WB.valid)
<1>1. Reference!Shown(MEM_WB.valid)
  <2>1. Reference!Shown(MEM_WB.valid /\ ~verification_halt)
    BY ShowStep
  <2> QED BY <2>1 DEF Reference!Shown
<1>2. Reference!event = ExEvent
  BY EventAgrees
<1>3. EventsInFlight' = Append(Reference!Rest(MEM_WB.valid), Reference!event)
  BY <1>2, LogStep, LogHead
<1>4. Reference!Execute /\ imem' = imem
  BY FireExecutes
<1> QED BY <1>1, <1>3, <1>4 DEF Reference!IsaStep

(* The state the reference model is in, once the pending store is in memory. *)
Settled ==
  [ Reference!State EXCEPT !.ram = IF PendingStore.valid
                                   THEN [dmem EXCEPT ![PendingStore.addr] = PendingStore.data]
                                   ELSE dmem ]

(* It changes only when an instruction leaves EX, and by all that does.      *)
LEMMA SettledStep ==
  ASSUME CpuInv, NEW e, NEW irdy, NEW open \in BOOLEAN, NEW halt, CoreEdge(e, irdy, open, halt),
         ~verification_halt, ~verification_halt', TypeOK', NoMisalignedCsr
  PROVE  Settled' = IF idex_fire THEN Reference!step(Settled) ELSE Settled
<1> DEFINE drained == IF PendingStore.valid
                      THEN [dmem EXCEPT ![PendingStore.addr] = PendingStore.data] ELSE dmem
<1>1. Settled = [ program |-> imem, pc |-> ExecutePc, gpr |-> ArchRegs, epc |-> epc,
                  cause |-> cause, retired |-> ArchRetired, ram |-> drained ]
  BY DEF Settled, Reference!State
<1>2. Settled' = [ program |-> imem', pc |-> ExecutePc', gpr |-> ArchRegs', epc |-> epc',
                   cause |-> cause', retired |-> ArchRetired', ram |-> drained' ]
  BY DEF Settled, Reference!State
<1>3. CASE idex_fire
  <2> DEFINE s    == Reference!State
             ev   == Reference!step_event(s)
             next == Reference!step(s)
  <2>1. Reference!Execute /\ imem' = imem
    BY <1>3, FireExecutes
  <2>2. /\ ~PendingStore.valid /\ dmem' = dmem
        /\ ExecutePc' = next.pc /\ ArchRegs' = next.gpr /\ epc' = next.epc
        /\ cause' = next.cause /\ ArchRetired' = next.retired
        /\ PendingStore' = IF ev.mem = "store"
                             THEN [valid |-> TRUE, addr |-> ev.addr, data |-> ev.data]
                             ELSE PendingStore
    BY <2>1 DEF Reference!Execute, Reference!event
  <2>3. Settled = s
    BY <1>1, <2>2 DEF Reference!State
  <2>4. drained' = IF ev.mem = "store" THEN [dmem EXCEPT ![ev.addr] = ev.data] ELSE dmem
    <3>1. CASE ev.mem = "store"
      BY <2>2, <3>1
    <3>2. CASE ev.mem # "store"
      BY <2>2, <3>2
    <3> QED BY <3>1, <3>2
  <2>5. next = [ program |-> imem, pc |-> next.pc, gpr |-> next.gpr, epc |-> next.epc,
                 cause |-> next.cause, retired |-> next.retired,
                 ram |-> IF ev.mem = "store" THEN [dmem EXCEPT ![ev.addr] = ev.data] ELSE dmem ]
    <3>1. next = [ s EXCEPT !.pc = ev.next_pc,
                            !.gpr = IF ev.rd = 0 THEN @ ELSE [@ EXCEPT ![ev.rd] = ev.rd_data],
                            !.epc = IF ev.trap THEN s.pc ELSE @,
                            !.cause = IF ev.trap THEN ev.cause ELSE @,
                            !.retired = IF ev.trap THEN @ ELSE Plus(@, 1),
                            !.ram = IF ev.mem = "store" THEN [@ EXCEPT ![ev.addr] = ev.data] ELSE @ ]
      BY DEF Reference!step, Reference!Plus, Plus
    <3>2. s = [ program |-> imem, pc |-> ExecutePc, gpr |-> ArchRegs, epc |-> epc,
                cause |-> cause, retired |-> ArchRetired, ram |-> dmem ]
      BY DEF Reference!State
    <3> HIDE DEF s, ev, next
    <3> QED BY <3>1, <3>2
  <2> HIDE DEF drained, s, ev, next
  <2>6. Settled' = next
    BY <1>2, <2>1, <2>2, <2>4, <2>5
  <2> QED BY <1>3, <2>3, <2>6 DEF next
<1>4. CASE ~idex_fire
  <2>1. /\ imem' = imem /\ ExecutePc' = ExecutePc /\ ArchRegs' = ArchRegs
        /\ epc' = epc /\ cause' = cause /\ ArchRetired' = ArchRetired
        /\ Reference!Drain \/ UNCHANGED <<dmem, PendingStore>>
    BY <1>4, WaitDrains DEF Reference!archVars
  <2>2. drained' = drained
    <3>1. CASE UNCHANGED <<dmem, PendingStore>>
      BY <3>1
    <3>2. CASE Reference!Drain
      <4>1. /\ PendingStore.valid /\ dmem' = [dmem EXCEPT ![PendingStore.addr] = PendingStore.data]
            /\ ~PendingStore'.valid
        BY <3>2 DEF Reference!Drain, Reference!NoStore
      <4> QED BY <4>1
    <3> QED BY <2>1, <3>1, <3>2
  <2> HIDE DEF drained
  <2> QED BY <1>1, <1>2, <1>4, <2>1, <2>2
<1> QED BY <1>3, <1>4

(* An edge that stops the core, or that a stopped one sees, stops the model. *)
LEMMA StopRefines ==
  ASSUME CpuInv, NEW e, NEW irdy, NEW open \in BOOLEAN, NEW halt, CoreEdge(e, irdy, open, halt),
         verification_halt'
  PROVE  Reference!Stop(MEM_WB.valid)
  BY ShowStep DEF Reference!Stop, CoreEdge

(* What Init and Reset leave is the reset state of the model. *)
Empty ==
  /\ fetch_pc = RESET_PC
  /\ ~if_req.present /\ ~if_out.valid /\ ~if_buf.valid /\ ~IF_ID.valid

(* What a reset leaves is Isa's reset state.                                 *)
LEMMA ClearedRefines == TypeOK /\ Cleared /\ Empty => Reference!ResetState
<1> SUFFICES ASSUME TypeOK, Cleared, Empty PROVE Reference!ResetState
  OBVIOUS
<1>1. ~EX_MEM.valid /\ ~MEM_WB.valid /\ ~ID_EX.valid
  BY DEF Cleared, NoDecoded, NoMemory, NoWritten
<1>2. ExecutePc = RESET_PC
  BY <1>1 DEF ExecutePc, Empty, NextIssue, FromBuffer, FromOutstanding, FromRequest,
              LiveRequest, LiveOutstanding
<1>3. ArchRegs = [r \in Reg |-> 0]
  BY <1>1 DEF ArchRegs, ExMemWrites, wb_commit_we, Cleared
<1>4. ArchRetired = 0
  <2>1. CountAgrees
    BY Retired
  <2> QED BY <1>1, <2>1 DEF CountAgrees, Advanced, Counted, Cleared
<1>5. PendingStore = Reference!NoStore
  BY <1>1 DEF PendingStore, StorePending, exmem_external_mem, Reference!NoStore
<1>6. EventsInFlight = <<>>
  <2>1. EventsInFlight = <<>> \o <<>>
    BY <1>1 DEF EventsInFlight
  <2> QED BY <2>1, ShortLog
<1>7. /\ epc = 0 /\ cause = 0 /\ trace = Reference!NoEvent /\ event_order_count = 0
      /\ verification_halt = FALSE
  BY DEF Cleared, NoEvent, Reference!NoEvent
<1>8. Reference!RESET_PC = RESET_PC /\ Reference!Reg = Reg
  BY DEF Reference!RESET_PC, RESET_PC, Reference!Reg, Reg
<1> HIDE DEF ArchRegs, ArchRetired, PendingStore, EventsInFlight, ExecutePc
<1> QED BY <1>2, <1>3, <1>4, <1>5, <1>6, <1>7, <1>8 DEF Reference!ResetState

(* Every step of the core is a step of the model, or none. *)
LEMMA StepRefines ==
  CpuInv /\ CpuInv' /\ NoMisalignedCsr /\ [Next]_vars => [Reference!IsaNext]_Reference!isaVars
<1> SUFFICES ASSUME CpuInv, CpuInv', NoMisalignedCsr, [Next]_vars
             PROVE  [Reference!IsaNext]_Reference!isaVars
  OBVIOUS
<1>1. ASSUME NEW en \in Enables, NEW iopen \in IGates, NEW dopen \in DGates,
             NEW halt \in {verification_halt, verification_halt \/ MayHalt},
             Tick(en, iopen, dopen, halt)
      PROVE  Reference!IsaNext
  <2>1. /\ en \in BOOLEAN /\ iopen \in BOOLEAN /\ dopen \in BOOLEAN /\ halt \in BOOLEAN
        /\ verification_halt => halt
        /\ MEM_WB.valid \in BOOLEAN /\ TypeOK'
    BY CpuAssumption, BackTypes DEF CpuInv, TypeOK
  <2>2. PICK e, irdy : CoreEdge(e, irdy, dopen, halt)
    BY <1>1, <2>1, TickIsEdge DEF CpuInv
  <2>3. verification_halt => verification_halt'
    BY <2>1, <2>2 DEF CoreEdge
  <2>4. CASE verification_halt'
    <3>1. Reference!Stop(MEM_WB.valid)
      BY <2>1, <2>2, <2>4, StopRefines
    <3> QED BY <2>1, <3>1 DEF Reference!IsaNext
  <2>5. CASE ~verification_halt'
    <3>1. Reference!IsaStep(MEM_WB.valid)
      BY <2>1, <2>2, <2>3, <2>5, FireRefines, WaitRefines
    <3> QED BY <2>1, <3>1 DEF Reference!IsaNext
  <2> QED BY <2>4, <2>5
<1>2. CASE Reset
  <2>1. Cleared' /\ Empty' /\ UNCHANGED <<imem, dmem>>
    BY <1>2 DEF Reset, ResetSlaves, Cleared, Empty, FrontReset, NoRequest, NoOutstanding,
                NoFetched, Rom!ResetSlot, Ram!ResetSlot
  <2>2. TypeOK'
    BY DEF CpuInv
  <2>3. Reference!ResetState'
    BY <2>1, <2>2, ClearedRefines, PTL
  <2> QED BY <2>1, <2>3 DEF Reference!IsaNext, Reference!IsaReset
<1>3. CASE UNCHANGED vars
  <2> USE <1>3 DEF vars, frontVars, backVars, csrVars, outVars, busVars
  <2>1. ExecutePc' = ExecutePc
    BY DEF ExecutePc, NextIssue, FromBuffer, FromOutstanding, FromRequest, LiveRequest,
           LiveOutstanding
  <2>2. /\ (ExMemWrites' <=> ExMemWrites) /\ ExMemValue' = ExMemValue
        /\ (exmem_external_mem' <=> exmem_external_mem) /\ (wb_commit_we' <=> wb_commit_we)
        /\ RetiringEvent' = RetiringEvent
    BY DEF ExMemWrites, ExMemValue, exmem_external_mem, exmem_result_value, exmem_csr_read,
           csr_rdata, retire_event, wb_commit_we, RetiringEvent
  <2>3. ArchRegs' = ArchRegs
    BY <2>2 DEF ArchRegs
  <2>4. ArchRetired' = ArchRetired
    BY DEF ArchRetired
  <2>5. PendingStore' = PendingStore
    BY <2>2 DEF PendingStore, StorePending
  <2>6. ExMemEvent' = ExMemEvent
    BY <2>2 DEF ExMemEvent
  <2>7. EventsInFlight' = EventsInFlight
    BY <2>2, <2>6 DEF EventsInFlight
  <2> QED BY <2>1, <2>3, <2>4, <2>5, <2>7 DEF Reference!isaVars, Reference!archVars
<1> QED BY <1>1, <1>2, <1>3 DEF Next

-----------------------------------------------------------------------------
(* ImplementsIsa: whatever the waits, hazards, forwards, predictions, kills, *)
(* traps, halts and resets, the core executes the instructions of the        *)
(* reference model one after another, shows their events in order, each      *)
(* once, and makes each store visible once.                                  *)
THEOREM Refinement == Spec /\ []NoMisalignedCsr => ImplementsIsa
<1>1. Init => Reference!IsaInit
  <2> SUFFICES ASSUME Init PROVE Reference!IsaInit
    OBVIOUS
  <2>1. imem \in [Pc -> Instr] /\ dmem \in [RamAddr -> Val]
    BY CpuAssumption DEF Init
  <2>2. FrontInv(Instr) /\ WordsOf(imem)
    BY ValFacts, FrontAtReset DEF Init
  <2>3. Cleared /\ Empty
    BY DEF Init, Cleared, Empty, FrontInit, NoRequest, NoOutstanding, NoFetched
  <2>4. CpuInv
    BY <2>1, <2>2, <2>3, ClearedInv DEF AtReset, Empty
  <2>5. Reference!ResetState
    BY <2>3, <2>4, ClearedRefines DEF CpuInv
  <2>6. /\ Reference!Pc = Pc /\ Reference!Instr = Instr /\ Reference!Val = Val
    BY DEF Reference!Pc, Pc, Reference!Instr, Instr, Reference!Op, Op, Reference!Reg, Reg,
           Reference!Val, Val
  <2> QED BY <2>1, <2>5, <2>6 DEF Reference!IsaInit
<1> QED
  BY <1>1, CpuInvariance, StepRefines, PTL DEF Spec, ImplementsIsa, Reference!IsaSpec

(* So it does without that proviso on an address map that keeps the CSR page *)
(* free of misaligned addresses.                                             *)
THEOREM AlignedRefinement ==
  ASSUME Misaligned \intersect CsrPage = {}
  PROVE  Spec => ImplementsIsa
<1>1. NoMisalignedCsr
  BY DEF NoMisalignedCsr, ex_misaligned
<1> QED BY <1>1, Refinement, PTL

(* CausesAgree: it is that access alone the two report different causes for. *)
THEOREM CausesReported ==
  Spec => [](NoMisalignedCsr /\ ~verification_halt => CausesAgree)
<1>1. CpuInv => (NoMisalignedCsr /\ ~verification_halt => CausesAgree)
  <2> SUFFICES ASSUME CpuInv, NoMisalignedCsr, ~verification_halt, idex_fire, ex_trap
               PROVE  ex_trap_cause = Reference!event.cause
    BY DEF CausesAgree
  <2>1. Reference!event = ExEvent
    BY EventAgrees
  <2> QED BY <2>1 DEF ExEvent
<1> QED BY <1>1, CpuInvariance, PTL
==============================================================================
