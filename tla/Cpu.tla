--------------------------------- MODULE Cpu ---------------------------------
(* The whole core of cpu_core.v with its register file, forwarding, hazard   *)
(* and CSR units, predictor, instruction ROM and data RAM.  One rising edge  *)
(* of the clock is one Clock step; a wire is an operator of the state.       *)
(*                                                                           *)
(* The decoded control bits a pipeline register carries are functions of the *)
(* instruction it carries, so only the instruction is kept.  Loads and       *)
(* stores are of whole words; the performance counters that time the         *)
(* pipeline (cycle, stall, flush) are left out.                              *)
EXTENDS FrontEnd, Arch, Bpu, Sequences

CONSTANTS Programs, InitialRam, \* what ROM and RAM may hold at the start
          NoWrite,              \* "store data" of a read
          IWaitMax, DWaitMax,   \* largest number of waits of ROM and RAM
          IGates, DGates,       \* whether a bus link is open: {TRUE} or BOOLEAN
          Enables,              \* values fetch_enable takes
          MayHalt, MayReset     \* whether the bench halts and resets the core

ASSUME CpuAssumption ==
  /\ Programs \subseteq [Pc -> Instr] /\ InitialRam \subseteq [RamAddr -> Val]
  /\ NoWrite \notin Val /\ NoWrite \notin Instr
  /\ IWaitMax \in Nat /\ DWaitMax \in Nat
  /\ IGates \subseteq BOOLEAN /\ DGates \subseteq BOOLEAN /\ Enables \subseteq BOOLEAN
  /\ MayHalt \in BOOLEAN /\ MayReset \in BOOLEAN

VARIABLES ID_EX, EX_MEM, MEM_WB, rf,
          instret, epc, cause,      \* csr_perf.v
          trace_valid, trace, event_order_count,
          islot, imem,              \* the ROM
          dslot, dmem,              \* the RAM
          verification_halt,
          dheld                     \* monitor: the data request the last edge left unaccepted

backVars == <<ID_EX, EX_MEM, MEM_WB, rf>>
csrVars  == <<instret, epc, cause>>
outVars  == <<trace_valid, trace, event_order_count>>
busVars  == <<islot, imem, dslot, dmem>>
vars == <<frontVars, bpuVars, backVars, csrVars, outVars, busVars, verification_halt, dheld>>

Rom == INSTANCE BusSlave WITH slot <- islot, mem <- imem, WaitMax <- IWaitMax,
                              Addr <- Pc, Data <- Instr, Zero <- Nop
Ram == INSTANCE BusSlave WITH slot <- dslot, mem <- dmem, WaitMax <- DWaitMax,
                              Addr <- RamAddr, Data <- Val, Zero <- 0

Decoded == [ valid: BOOLEAN, pc: Pc, pnext: Pc, instr: Instr, a: Val, b: Val ]
Memory  == [ valid: BOOLEAN, pc: Pc, next_pc: Pc, instr: Instr, trap: BOOLEAN, cause: Val,
             alu: Val, sdata: Val, accepted: BOOLEAN ]
Written == [ valid: BOOLEAN, pc: Pc, next_pc: Pc, instr: Instr, trap: BOOLEAN, cause: Val,
             result: Val, addr: Val, sdata: Val ]

NoDecoded == [ valid |-> FALSE, pc |-> 0, pnext |-> 0, instr |-> Nop, a |-> 0, b |-> 0 ]
NoMemory  == [ valid |-> FALSE, pc |-> 0, next_pc |-> 0, instr |-> Nop, trap |-> FALSE,
               cause |-> 0, alu |-> 0, sdata |-> 0, accepted |-> FALSE ]
NoWritten == [ valid |-> FALSE, pc |-> 0, next_pc |-> 0, instr |-> Nop, trap |-> FALSE,
               cause |-> 0, result |-> 0, addr |-> 0, sdata |-> 0 ]
NoneHeld  == [ valid |-> FALSE, addr |-> 0, data |-> NoWrite ]

Init ==
  /\ FrontInit(Nop)
  /\ bht = ColdBht /\ btb = ColdBtb
  /\ ID_EX = NoDecoded /\ EX_MEM = NoMemory /\ MEM_WB = NoWritten
  /\ rf = [r \in Reg |-> 0]
  /\ instret = 0 /\ epc = 0 /\ cause = 0
  /\ trace_valid = FALSE /\ trace = NoEvent /\ event_order_count = 0
  /\ islot = Rom!ResetSlot /\ dslot = Ram!ResetSlot
  /\ verification_halt = FALSE
  /\ dheld = NoneHeld
  /\ imem \in Programs /\ dmem \in InitialRam

-----------------------------------------------------------------------------
(* MEM: what the instruction in EX/MEM does, and when it is done.            *)

exmem_csr_read ==
  EX_MEM.valid /\ ~EX_MEM.trap /\ memRead(EX_MEM.instr) /\ EX_MEM.alu \in CsrPage

exmem_external_mem ==
  /\ EX_MEM.valid /\ ~EX_MEM.trap
  /\ memRead(EX_MEM.instr) \/ memWrite(EX_MEM.instr)
  /\ EX_MEM.alu \notin CsrPage

dbus_req_valid == ~verification_halt /\ exmem_external_mem /\ ~EX_MEM.accepted

dbus_req_wdata == IF memWrite(EX_MEM.instr) THEN EX_MEM.sdata ELSE NoWrite

dbus_resp_ready == exmem_external_mem /\ EX_MEM.accepted

dbus_req_fire(open) == dbus_req_valid /\ open /\ Ram!req_ready(dbus_resp_ready)

dbus_resp_fire == dslot.resp_valid /\ dbus_resp_ready

wb_commit_we ==
  /\ ~verification_halt /\ MEM_WB.valid /\ ~MEM_WB.trap
  /\ regWrite(MEM_WB.instr) /\ regDest(MEM_WB.instr) # 0

retire_event == ~verification_halt /\ MEM_WB.valid /\ ~MEM_WB.trap

(* Mutant: the count read misses the instruction that retires on this edge. *)
csr_rdata_late ==
  CASE EX_MEM.alu = CSR_INSTRET -> instret
    [] EX_MEM.alu = CSR_EPC     -> epc
    [] EX_MEM.alu = CSR_CAUSE   -> cause
    [] OTHER                    -> 0

(* The read is younger than the instruction that retires on this edge. *)
csr_rdata ==
  CASE EX_MEM.alu = CSR_INSTRET -> IF retire_event THEN Plus(instret, 1) ELSE instret
    [] EX_MEM.alu = CSR_EPC     -> epc
    [] EX_MEM.alu = CSR_CAUSE   -> cause
    [] OTHER                    -> 0

exmem_result_value ==
  IF EX_MEM.instr.op = "JAL" THEN Plus4(EX_MEM.pc)
  ELSE IF exmem_csr_read THEN csr_rdata
  ELSE IF memRead(EX_MEM.instr) /\ ~EX_MEM.trap THEN dslot.resp_data
  ELSE EX_MEM.alu

exmem_result_ready ==
  /\ EX_MEM.valid /\ ~EX_MEM.trap /\ regWrite(EX_MEM.instr)
  /\ ~memRead(EX_MEM.instr) \/ exmem_csr_read \/ dbus_resp_fire

(* Mutant: a CSR read waits for a bus response like any load. *)
exmem_complete_bus ==
  /\ EX_MEM.valid
  /\ \/ EX_MEM.trap
     \/ ~memRead(EX_MEM.instr) /\ ~memWrite(EX_MEM.instr)
     \/ dbus_resp_fire

exmem_complete ==
  /\ EX_MEM.valid
  /\ \/ EX_MEM.trap \/ exmem_csr_read
     \/ ~memRead(EX_MEM.instr) /\ ~memWrite(EX_MEM.instr)
     \/ exmem_external_mem /\ dbus_resp_fire

(* Mutant: a store is left behind as soon as it is presented. *)
exmem_can_accept_posted == ~EX_MEM.valid \/ exmem_complete \/ memWrite(EX_MEM.instr)

exmem_can_accept == ~EX_MEM.valid \/ exmem_complete

-----------------------------------------------------------------------------
(* EX: operands, result, successor.  A source register r is forwarded from   *)
(* the youngest producer in front of it, and waits for it if need be.        *)

ex_match(uses, r) ==
  /\ ID_EX.valid /\ uses
  /\ EX_MEM.valid /\ ~EX_MEM.trap /\ regWrite(EX_MEM.instr)
  /\ regDest(EX_MEM.instr) # 0 /\ regDest(EX_MEM.instr) = r

wb_match(uses, r) ==
  /\ ID_EX.valid /\ uses
  /\ MEM_WB.valid /\ ~MEM_WB.trap /\ regWrite(MEM_WB.instr)
  /\ regDest(MEM_WB.instr) # 0 /\ regDest(MEM_WB.instr) = r

blocked(uses, r) == ex_match(uses, r) /\ ~exmem_result_ready

(* Mutant: the older producer wins. *)
forward_oldest(uses, r, data) ==
  IF wb_match(uses, r) THEN MEM_WB.result
  ELSE IF ex_match(uses, r) /\ exmem_result_ready THEN exmem_result_value ELSE data

forward(uses, r, data) ==
  IF ex_match(uses, r) THEN IF exmem_result_ready THEN exmem_result_value ELSE data
  ELSE IF wb_match(uses, r) THEN MEM_WB.result
  ELSE data

fwdA == forward(usesRs(ID_EX.instr), ID_EX.instr.rs, ID_EX.a)
fwdB == forward(usesRt(ID_EX.instr), ID_EX.instr.rt, ID_EX.b)

forward_blocked ==
  \/ blocked(usesRs(ID_EX.instr), ID_EX.instr.rs)
  \/ blocked(usesRt(ID_EX.instr), ID_EX.instr.rt)

alu_result == alu(ID_EX.instr, fwdA, fwdB)

ex_mem_op     == memRead(ID_EX.instr) \/ memWrite(ID_EX.instr)
ex_illegal    == ID_EX.instr.op = "ILLEGAL"
ex_misaligned == ex_mem_op /\ alu_result \in Misaligned
ex_csr_bad    == /\ ex_mem_op /\ alu_result \in CsrPage
                 /\ \/ memWrite(ID_EX.instr)
                    \/ alu_result \notin {CSR_INSTRET, CSR_EPC, CSR_CAUSE}
ex_unmapped   == ex_mem_op /\ alu_result \notin CsrPage /\ alu_result \notin RamAddr
ex_trap       == ex_illegal \/ ex_misaligned \/ ex_csr_bad \/ ex_unmapped

ex_trap_cause ==
  CASE ex_illegal                               -> CauseIllegal
    [] ~ex_illegal /\ ex_misaligned             ->
         IF memRead(ID_EX.instr) THEN CauseMisalignedLoad ELSE CauseMisalignedStore
    [] ~ex_illegal /\ ~ex_misaligned /\ ex_csr_bad -> CauseCsr
    [] OTHER ->
         IF memRead(ID_EX.instr) THEN CauseUnmappedLoad ELSE CauseUnmappedStore

actual_next ==
  IF ex_trap THEN TRAP_VEC
  ELSE IF ID_EX.instr.op = "ERET" THEN epc
  ELSE IF jump(ID_EX.instr) \/ taken(ID_EX.instr, fwdA, fwdB) THEN ID_EX.instr.target
  ELSE Plus4(ID_EX.pc)

idex_fire == ID_EX.valid /\ exmem_can_accept /\ ~forward_blocked

resolve_redirect == idex_fire /\ (ex_trap \/ actual_next # ID_EX.pnext)

(* ID: the load in front is one stage too close. *)
load_hazard ==
  /\ ID_EX.valid /\ memRead(ID_EX.instr) /\ ID_EX.instr.rt # 0 /\ IF_ID.valid
  /\ \/ usesRs(IF_ID.instr) /\ IF_ID.instr.rs = ID_EX.instr.rt
     \/ usesRt(IF_ID.instr) /\ IF_ID.instr.rt = ID_EX.instr.rt

idex_slot_available == ~ID_EX.valid \/ idex_fire

(* Read ports of the register file, bypassed from the write of this edge. *)
dec_regData(r, uses) ==
  IF uses /\ wb_commit_we /\ regDest(MEM_WB.instr) = r THEN MEM_WB.result
  ELSE IF r = 0 THEN 0 ELSE rf[r]

Wires(en) ==
  [ redirect |-> resolve_redirect, target |-> actual_next,
    issue |-> idex_slot_available /\ ~load_hazard,
    en |-> en, halt |-> verification_halt,
    resp_valid |-> islot.resp_valid, resp_data |-> islot.resp_data,
    pnext |-> launch_pred(fetch_pc) ]

-----------------------------------------------------------------------------
(* One rising edge of each register.                                         *)

(* Held, ID/EX keeps what is forwarded to it: the producer may be gone next. *)
(* Mutant: it does not.                                                      *)
HeldIdEx_uncaptured == ID_EX
HeldIdEx == [ID_EX EXCEPT !.a = fwdA, !.b = fwdB]

NextIdEx(e) ==
  IF e.halt \/ e.redirect THEN [ID_EX EXCEPT !.valid = FALSE]
  ELSE IF ifid_to_idex(e) THEN
    [ valid |-> TRUE, pc |-> IF_ID.pc, pnext |-> IF_ID.pnext, instr |-> IF_ID.instr,
      a |-> dec_regData(IF_ID.instr.rs, usesRs(IF_ID.instr)),
      b |-> dec_regData(IF_ID.instr.rt, usesRt(IF_ID.instr)) ]
  ELSE IF idex_slot_available THEN [ID_EX EXCEPT !.valid = FALSE]
  ELSE HeldIdEx

NextExMem(open) ==
  IF verification_halt THEN [EX_MEM EXCEPT !.valid = FALSE, !.accepted = FALSE]
  ELSE IF idex_fire THEN
    [ valid |-> TRUE, pc |-> ID_EX.pc, next_pc |-> actual_next, instr |-> ID_EX.instr,
      trap |-> ex_trap, cause |-> IF ex_trap THEN ex_trap_cause ELSE 0,
      alu |-> alu_result, sdata |-> fwdB, accepted |-> FALSE ]
  ELSE IF exmem_can_accept THEN [EX_MEM EXCEPT !.valid = FALSE, !.accepted = FALSE]
  ELSE [EX_MEM EXCEPT !.accepted = @ \/ dbus_req_fire(open)]

NextMemWb ==
  IF exmem_complete /\ ~verification_halt THEN
    [ valid |-> TRUE, pc |-> EX_MEM.pc, next_pc |-> EX_MEM.next_pc, instr |-> EX_MEM.instr,
      trap |-> EX_MEM.trap, cause |-> EX_MEM.cause, result |-> exmem_result_value,
      addr |-> EX_MEM.alu, sdata |-> EX_MEM.sdata ]
  ELSE [MEM_WB EXCEPT !.valid = FALSE]

(* The event of the instruction in MEM/WB, as the trace registers take it. *)
RetiringEvent ==
  LET writes == ~MEM_WB.trap /\ regWrite(MEM_WB.instr) /\ regDest(MEM_WB.instr) # 0
      reads  == ~MEM_WB.trap /\ memRead(MEM_WB.instr)
      stores == ~MEM_WB.trap /\ memWrite(MEM_WB.instr)
  IN  [ pc |-> MEM_WB.pc, next_pc |-> MEM_WB.next_pc,
        trap |-> MEM_WB.trap, cause |-> MEM_WB.cause,
        rd |-> IF writes THEN regDest(MEM_WB.instr) ELSE 0,
        rd_data |-> IF writes THEN MEM_WB.result ELSE 0,
        mem |-> IF reads THEN "load" ELSE IF stores THEN "store" ELSE "none",
        addr |-> IF reads \/ stores THEN MEM_WB.addr ELSE 0,
        data |-> IF reads THEN MEM_WB.result ELSE IF stores THEN MEM_WB.sdata ELSE 0 ]

(* The trace registers; the number of events is kept modulo 2. *)
TraceEdge ==
  /\ trace_valid' = (MEM_WB.valid /\ ~verification_halt)
  /\ IF trace_valid' THEN trace' = RetiringEvent /\ event_order_count' = 1 - event_order_count
                     ELSE UNCHANGED <<trace, event_order_count>>

CsrEdge ==
  /\ instret' = IF retire_event THEN Plus(instret, 1) ELSE instret
  /\ IF idex_fire /\ ex_trap THEN epc' = ID_EX.pc /\ cause' = ex_trap_cause
                             ELSE UNCHANGED <<epc, cause>>

RegFileEdge ==
  rf' = IF wb_commit_we THEN [rf EXCEPT ![regDest(MEM_WB.instr)] = MEM_WB.result] ELSE rf

(* One edge of everything; halt is the value verification_halt takes after   *)
(* it.  A memory draws one of its waits when it accepts, and only then. *)
Clock(en, iopen, dopen, iwaits, dwaits, halt) ==
  LET e    == Wires(en /\ ~verification_halt)
      irdy == iopen /\ Rom!req_ready(ibus_resp_ready(e))
  IN  /\ FrontEdge(e, irdy)
      /\ BpuEdge(idex_fire /\ branch(ID_EX.instr) /\ ~ex_trap, ID_EX.pc,
                 taken(ID_EX.instr, fwdA, fwdB), ID_EX.instr.target)
      /\ ID_EX' = NextIdEx(e)
      /\ EX_MEM' = NextExMem(dopen)
      /\ MEM_WB' = NextMemWb
      /\ RegFileEdge /\ CsrEdge /\ TraceEdge
      /\ dheld' = IF dbus_req_valid /\ ~dbus_req_fire(dopen)
                    THEN [valid |-> TRUE, addr |-> EX_MEM.alu, data |-> dbus_req_wdata]
                    ELSE NoneHeld
      /\ verification_halt' = halt
      /\ \E wait \in iwaits : Rom!SlaveEdge(ibus_req_fire(e, irdy), active_req(e).addr,
                                            NoWrite, ibus_resp_ready(e), wait)
      /\ \E wait \in dwaits : Ram!SlaveEdge(dbus_req_fire(dopen), EX_MEM.alu, dbus_req_wdata,
                                            dbus_resp_ready, wait)

Tick(en, iopen, dopen, halt) == Clock(en, iopen, dopen, 0 .. IWaitMax, 0 .. DWaitMax, halt)

(* Both memories take part in a reset: responses carry no tag to refuse them *)
(* by.  Mutant: they do not.                                                 *)
ResetSlaves_not == UNCHANGED <<islot, dslot>>
ResetSlaves == islot' = Rom!ResetSlot /\ dslot' = Ram!ResetSlot

(* Asynchronous reset of core, ROM and RAM. *)
Reset ==
  /\ MayReset
  /\ FrontReset(Nop)
  /\ bht' = ColdBht /\ btb' = ColdBtb
  /\ ID_EX' = NoDecoded /\ EX_MEM' = NoMemory /\ MEM_WB' = NoWritten
  /\ rf' = [r \in Reg |-> 0]
  /\ instret' = 0 /\ epc' = 0 /\ cause' = 0
  /\ trace_valid' = FALSE /\ trace' = NoEvent /\ event_order_count' = 0
  /\ ResetSlaves
  /\ verification_halt' = FALSE
  /\ dheld' = NoneHeld
  /\ UNCHANGED <<imem, dmem>>

Next ==
  \/ \E en \in Enables, iopen \in IGates, dopen \in DGates,
        halt \in {verification_halt, verification_halt \/ MayHalt} :
       Tick(en, iopen, dopen, halt)
  \/ Reset

Spec == Init /\ [][Next]_vars

(* The clock never stops, and the bench neither withholds fetch_enable nor   *)
(* closes a link for ever.  It need never halt the core.                     *)
FairSpec == Spec /\ WF_vars(Tick(TRUE, TRUE, TRUE, verification_halt))

-----------------------------------------------------------------------------
(* Every register holds a value of its kind. *)
TypeOK ==
  /\ FrontTypeOK(Instr) /\ BpuTypeOK
  /\ ID_EX \in Decoded /\ EX_MEM \in Memory /\ MEM_WB \in Written
  /\ rf \in [Reg -> Val]
  /\ instret \in Val /\ epc \in Pc /\ cause \in Val
  /\ trace_valid \in BOOLEAN /\ trace \in Event /\ event_order_count \in {0, 1}
  /\ islot \in Rom!Slot /\ imem \in [Pc -> Instr]
  /\ dslot \in Ram!Slot /\ dmem \in [RamAddr -> Val]
  /\ verification_halt \in BOOLEAN
  /\ dheld \in [valid: BOOLEAN, addr: RamAddr, data: Val \union {NoWrite}]

(* The load or store in EX/MEM and the RAM agree about the one transaction   *)
(* of the data bus: it is accepted exactly while it occupies the RAM's slot, *)
(* with its own address and data, so that none is presented twice and no     *)
(* response is taken by another instruction.  A request that was not taken   *)
(* is presented again, unchanged (assertions.sv:104-112).  (verification_halt*)
(* drops the instruction and leaves the slot behind.)                        *)
DataOwnership ==
  ~verification_halt =>
    /\ (exmem_external_mem /\ EX_MEM.accepted) = Ram!Occupied
    /\ ~(dslot.busy /\ dslot.resp_valid)
    /\ Ram!Occupied => dslot.addr = EX_MEM.alu /\ dslot.wdata = dbus_req_wdata
    /\ dheld.valid => dbus_req_valid /\ EX_MEM.alu = dheld.addr /\ dbus_req_wdata = dheld.data

(* design_decisions.md, dependency contract.  An operand of the instruction  *)
(* in ID/EX that no instruction in front of it will still write is the       *)
(* register's value: nothing that was forwarded while ID/EX was held, or     *)
(* bypassed into decode, is lost when its producer leaves (cpu_core.v:782).  *)
Fresh(uses, r, data) ==
  ID_EX.valid /\ uses /\ ~ex_match(uses, r) /\ ~wb_match(uses, r) =>
    data = IF r = 0 THEN 0 ELSE rf[r]

OperandsFresh ==
  /\ Fresh(usesRs(ID_EX.instr), ID_EX.instr.rs, ID_EX.a)
  /\ Fresh(usesRt(ID_EX.instr), ID_EX.instr.rt, ID_EX.b)

(* What is in flight is one walk along the predictions, up to and including  *)
(* the instruction in ID/EX, and each is the program's word at its PC.       *)
PathInOrder ==
  /\ LiveRequest => if_req.addr = fetch_pc
  /\ LiveOutstanding => if_out.pnext = FromRequest
  /\ if_buf.valid => if_buf.pnext = FromOutstanding /\ if_buf.instr = imem[if_buf.pc]
  /\ IF_ID.valid => IF_ID.pnext = FromBuffer /\ IF_ID.instr = imem[IF_ID.pc]
  /\ ID_EX.valid => ID_EX.pnext = NextIssue /\ ID_EX.instr = imem[ID_EX.pc]

(* design_decisions.md, fetch and prediction contract.  Only a branch is     *)
(* ever predicted to go elsewhere, and only to where it does go: entries are *)
(* told apart by the whole PC and written for the branch that resolves.      *)
PredictsBranchesOnly ==
  \A pc \in Pc : launch_pred(pc) # Plus4(pc) =>
                   branch(imem[pc]) /\ launch_pred(pc) = imem[pc].target

-----------------------------------------------------------------------------
(* The core implements Isa: an instruction counts as executed when it leaves *)
(* ID/EX.  What it will write is read off the registers behind ID/EX.        *)

(* The instruction to execute next. *)
ExecutePc == IF ID_EX.valid THEN ID_EX.pc ELSE NextIssue

ExMemWrites == EX_MEM.valid /\ ~EX_MEM.trap /\ regWrite(EX_MEM.instr)
                 /\ regDest(EX_MEM.instr) # 0

(* Also of a load whose response is still to come. *)
ExMemValue ==
  IF exmem_external_mem /\ memRead(EX_MEM.instr) THEN dmem[EX_MEM.alu] ELSE exmem_result_value

ArchRegs ==
  [ r \in Reg |->
      IF ExMemWrites /\ regDest(EX_MEM.instr) = r THEN ExMemValue
      ELSE IF wb_commit_we /\ regDest(MEM_WB.instr) = r THEN MEM_WB.result
      ELSE rf[r] ]

ArchRetired ==
  (instret + Cardinality({r \in {EX_MEM, MEM_WB} : r.valid /\ ~r.trap})) % ValCount

StorePending ==
  /\ exmem_external_mem /\ memWrite(EX_MEM.instr)
  /\ ~(EX_MEM.accepted /\ dslot.resp_valid)

PendingStore ==
  IF StorePending THEN [valid |-> TRUE, addr |-> EX_MEM.alu, data |-> EX_MEM.sdata]
                  ELSE [valid |-> FALSE, addr |-> 0, data |-> 0]

ExMemEvent ==
  LET mem == IF EX_MEM.trap THEN "none" ELSE IF memRead(EX_MEM.instr) THEN "load"
             ELSE IF memWrite(EX_MEM.instr) THEN "store" ELSE "none"
  IN  [ pc |-> EX_MEM.pc, next_pc |-> EX_MEM.next_pc,
        trap |-> EX_MEM.trap, cause |-> EX_MEM.cause,
        rd |-> IF ExMemWrites THEN regDest(EX_MEM.instr) ELSE 0,
        rd_data |-> IF ExMemWrites THEN ExMemValue ELSE 0,
        mem |-> mem,
        addr |-> IF mem # "none" THEN EX_MEM.alu ELSE 0,
        data |-> CASE mem = "load" -> ExMemValue [] mem = "store" -> EX_MEM.sdata
                   [] OTHER -> 0 ]

EventsInFlight ==
  (IF MEM_WB.valid THEN <<RetiringEvent>> ELSE <<>>) \o
  (IF EX_MEM.valid THEN <<ExMemEvent>> ELSE <<>>)

Reference == INSTANCE Isa WITH
  pc <- ExecutePc, gpr <- ArchRegs, retired <- ArchRetired, ram <- dmem,
  sb <- PendingStore, log <- EventsInFlight, shown <- event_order_count,
  stopped <- verification_halt

(* Whatever the waits, hazards, forwards, predictions, kills and traps, the  *)
(* core executes the reference model's instructions one after another, shows *)
(* their events in order, each once, and makes each store visible once.      *)
ImplementsIsa == Reference!IsaSpec

(* isa_subset.md:52, that RTL and ISS use the same trap causes: the cause of *)
(* the instruction about to trap is the one the reference model reports.     *)
CausesAgree == idex_fire /\ ex_trap => ex_trap_cause = Reference!event.cause

(* Instructions go on retiring unless the core is halted or reset again and  *)
(* again: nothing in the core waits for ever.                                *)
Retires == []<>trace_valid \/ <>[]verification_halt \/ []<><<Reset>>_vars
=============================================================================
