------------------------------ MODULE BenchProofs ------------------------------
(* What the checkers on the core see on the main bench, for every program,   *)
(* memory, latency, gate and job: the scoreboard never fails, no run ends on *)
(* an extra event, one that finishes passes, and a monitor fails only if     *)
(* halting the core withdraws an access that follows the completion          *)
(* instruction.                                                              *)
EXTENDS TbCore, CpuProofs

-----------------------------------------------------------------------------
(* The scoreboard knows of the accesses that are under way what the core and *)
(* the RAM know of them.                                                     *)

(* The instruction in MEM/WB made an access of the data bus. *)
wb_memory ==
  /\ MEM_WB.valid /\ ~MEM_WB.trap
  /\ memRead(MEM_WB.instr) \/ memWrite(MEM_WB.instr)
  /\ MEM_WB.addr \notin CsrPage

wb_access == [ addr  |-> MEM_WB.addr,
               wdata |-> IF memWrite(MEM_WB.instr) THEN MEM_WB.sdata ELSE NoWrite ]

shown_access == [ addr  |-> trace.addr,
                  wdata |-> IF trace.mem = "store" THEN trace.data ELSE NoWrite ]

slot_access == [addr |-> dslot.addr, wdata |-> dslot.wdata]

(* A halt has emptied the pipeline: what was answered may never be shown.    *)
Dropped == verification_halt /\ ~EX_MEM.valid /\ ~MEM_WB.valid /\ ~trace_valid

TrapAlone == trace_valid /\ trace.trap => trace.mem = "none" /\ trace.rd = 0

Completion ==
  ~Dropped => sb.completion = IF wb_memory THEN wb_access
                              ELSE IF trace_mem_fire THEN shown_access ELSE None

(* An access has left MEM before the next one is accepted there, and MEM/WB  *)
(* before the next one leaves MEM.                                           *)
OneAnswered == wb_memory => ~EX_MEM.accepted /\ ~trace_mem_fire

ScoreInv ==
  /\ AcceptedOccupies
  /\ sb.request = IF Ram!Occupied THEN slot_access ELSE None
  /\ OneAnswered /\ Completion /\ TrapAlone

(* What an edge takes from MEM/WB into the trace. *)
LEMMA TraceShows ==
  ASSUME TypeOK, TraceEdge
  PROVE  /\ trace_valid' <=> (MEM_WB.valid /\ ~verification_halt)
         /\ trace_mem_fire' <=> (wb_memory /\ ~verification_halt)
         /\ trace_mem_fire' => shown_access' = wb_access
         /\ TrapAlone'
<1> USE BackTypes, InstrFacts
<1>1. trace_valid' <=> (MEM_WB.valid /\ ~verification_halt)
  BY DEF TraceEdge
<1>2. CASE ~trace_valid'
  BY <1>1, <1>2 DEF trace_mem_fire, wb_memory, TrapAlone
<1>3. CASE trace_valid'
  <2> DEFINE reads  == ~MEM_WB.trap /\ memRead(MEM_WB.instr)
             stores == ~MEM_WB.trap /\ memWrite(MEM_WB.instr)
  <2>1. trace' = RetiringEvent
    BY <1>3 DEF TraceEdge
  <2>2. /\ trace'.mem = IF reads THEN "load" ELSE IF stores THEN "store" ELSE "none"
        /\ trace'.addr = IF reads \/ stores THEN MEM_WB.addr ELSE 0
        /\ trace'.data = IF reads THEN MEM_WB.result ELSE IF stores THEN MEM_WB.sdata ELSE 0
        /\ trace'.trap = MEM_WB.trap
        /\ MEM_WB.trap => trace'.rd = 0
    BY <2>1 DEF RetiringEvent
  <2>3. ~(memRead(MEM_WB.instr) /\ memWrite(MEM_WB.instr))
    BY DEF memRead, memWrite
  <2>4. TrapAlone'
    BY <2>2 DEF TrapAlone
  <2>5. trace_mem_fire' <=> (reads \/ stores) /\ MEM_WB.addr \notin CsrPage
    BY <1>3, <2>2 DEF trace_mem_fire
  <2>6. trace_mem_fire' => shown_access' = wb_access
    BY <2>2, <2>3, <2>5 DEF shown_access, wb_access
  <2> QED BY <1>1, <1>3, <2>4, <2>5, <2>6 DEF wb_memory
<1> QED BY <1>2, <1>3

(* What it takes from EX/MEM into MEM/WB. *)
LEMMA WritesBack ==
  ASSUME TypeOK, MEM_WB' = NextMemWb
  PROVE  /\ wb_memory' <=> (dbus_resp_fire /\ ~verification_halt)
         /\ wb_memory' => wb_access' = dbus_access
         /\ verification_halt => ~MEM_WB'.valid
<1> USE BackTypes, InstrFacts
<1>1. CASE exmem_complete /\ ~verification_halt
  <2>1. /\ MEM_WB'.valid = TRUE /\ MEM_WB'.trap = EX_MEM.trap /\ MEM_WB'.instr = EX_MEM.instr
        /\ MEM_WB'.addr = EX_MEM.alu /\ MEM_WB'.sdata = EX_MEM.sdata
    BY <1>1 DEF NextMemWb
  <2>2. wb_access' = dbus_access
    BY <2>1 DEF wb_access, dbus_access, dbus_req_wdata
  <2>3. wb_memory' <=> exmem_external_mem
    BY <1>1, <2>1 DEF wb_memory, exmem_external_mem, exmem_complete
  <2>4. exmem_external_mem <=> dbus_resp_fire
    BY <1>1 DEF exmem_complete, exmem_external_mem, exmem_csr_read, dbus_resp_fire,
                dbus_resp_ready
  <2> QED BY <1>1, <2>2, <2>3, <2>4
<1>2. CASE ~(exmem_complete /\ ~verification_halt)
  <2>1. ~MEM_WB'.valid
    BY <1>2 DEF NextMemWb, TypeOK, Written
  <2>2. dbus_resp_fire => exmem_complete
    BY DEF dbus_resp_fire, dbus_resp_ready, exmem_external_mem, exmem_complete
  <2> QED BY <1>2, <2>1, <2>2 DEF wb_memory
<1> QED BY <1>1, <1>2
(* An access on the bus is one the scoreboard can hold. *)
LEMMA AccessIsOne ==
  ASSUME TypeOK
  PROVE  /\ dbus_access # None /\ slot_access # None
         /\ dslot.busy \in BOOLEAN /\ dslot.resp_valid \in BOOLEAN
<1>1. dslot.addr \in Val /\ dslot.wdata \in Val \union {NoWrite}
  BY ValFacts DEF TypeOK, Ram!Slot
<1>2. dbus_access \in [addr: Val, wdata: Val \union {NoWrite}]
  BY BackTypes, MemWires DEF dbus_access
<1>3. slot_access \in [addr: Val, wdata: Val \union {NoWrite}]
  BY <1>1 DEF slot_access
<1>4. dslot.busy \in BOOLEAN /\ dslot.resp_valid \in BOOLEAN
  BY DEF TypeOK, Ram!Slot
<1> QED BY <1>2, <1>3, <1>4, MonitoredAssumption

(* What happens on the data bus in a cycle, in terms of the RAM's slot.      *)
LEMMA BusEvents ==
  ASSUME CpuInv, AcceptedOccupies, NEW open \in BOOLEAN
  PROVE  /\ dbus_req_fire(open) => ~EX_MEM.accepted /\ ~Ram!Occupied
         /\ dbus_resp_fire <=> dslot.resp_valid /\ dbus_resp_ready
         /\ dbus_resp_fire => /\ EX_MEM.valid /\ EX_MEM.accepted /\ Ram!Occupied
                              /\ dbus_access = slot_access
<1>1. dbus_req_fire(open) => ~EX_MEM.accepted /\ ~Ram!Occupied
  BY DEF dbus_req_fire, dbus_req_valid, dbus_resp_ready, Ram!req_ready, Ram!Occupied
<1>2. dbus_resp_fire => EX_MEM.valid /\ EX_MEM.accepted /\ exmem_external_mem
  BY DEF dbus_resp_fire, dbus_resp_ready, exmem_external_mem
<1> QED BY <1>1, <1>2 DEF dbus_resp_fire, AcceptedOccupies, dbus_access, slot_access

(* One edge of the scoreboard beside one of the core. *)
LEMMA ScoreEdge ==
  ASSUME CpuInv, ScoreInv, NEW e, NEW irdy, NEW open \in BOOLEAN, NEW halt \in BOOLEAN,
         verification_halt => halt, CoreEdge(e, irdy, open, halt),
         Score!ScoreboardEdge(ScoreboardPins(open))
  PROVE  ScoreInv'
<1> DEFINE fire == dbus_req_fire(open)
<1>1. TypeOK /\ AcceptedOccupies /\ OneAnswered /\ Completion
  BY DEF CpuInv, ScoreInv
<1>2. /\ EX_MEM' = NextExMem(open) /\ EX_MEM \in Memory /\ MEM_WB' = NextMemWb /\ TraceEdge
      /\ verification_halt' = halt
      /\ RamFacts!Outcome(fire, EX_MEM.alu, dbus_req_wdata, dbus_resp_ready)
      /\ ~(dslot.busy /\ dslot.resp_valid)
  BY <1>1 DEF CoreEdge, TypeOK, CpuInv, RamAnswers
<1>3. /\ sb'.request = IF fire THEN dbus_access
                       ELSE IF dbus_resp_fire THEN None ELSE sb.request
      /\ sb'.completion = IF dbus_resp_fire THEN sb.request
                          ELSE IF trace_mem_fire THEN
                            IF shown_access # None THEN None ELSE sb.completion
                          ELSE sb.completion
  BY <1>1, AccessIsOne
     DEF Score!ScoreboardEdge, Score!NextCompletion, ScoreboardPins, shown_access
<1>4. /\ dslot'.busy \in BOOLEAN /\ dslot'.resp_valid \in BOOLEAN
      /\ dslot.busy \in BOOLEAN /\ dslot.resp_valid \in BOOLEAN
  BY <1>1, AccessIsOne DEF CoreEdge, Ram!Slot
<1>5. /\ fire => ~EX_MEM.accepted /\ ~Ram!Occupied
      /\ dbus_resp_fire <=> dslot.resp_valid /\ dbus_resp_ready
      /\ dbus_resp_fire => /\ EX_MEM.valid /\ EX_MEM.accepted /\ Ram!Occupied
                           /\ dbus_access = slot_access
  BY <1>1, BusEvents
<1>6. AcceptedOccupies'
  <2>1. CASE verification_halt
    <3>1. ~EX_MEM'.valid
      BY <1>2, <2>1 DEF NextExMem, Memory
    <3> QED BY <3>1 DEF AcceptedOccupies, exmem_external_mem
  <2> QED BY <2>1, EdgeData
<1>7. sb'.request = IF Ram!Occupied' THEN slot_access' ELSE None
  <2> HIDE DEF fire
  <2>1. sb.request = IF dslot.busy \/ dslot.resp_valid THEN slot_access ELSE None
    BY DEF ScoreInv, Ram!Occupied
  <2>2. slot_access' = [addr |-> dslot'.addr, wdata |-> dslot'.wdata]
    BY DEF slot_access
  <2>3. CASE fire
    <3>1. dslot'.addr = EX_MEM.alu /\ dslot'.wdata = dbus_req_wdata /\ Ram!Occupied'
      BY <1>2, <1>4, <2>3 DEF RamFacts!Outcome, Ram!Occupied
    <3> QED BY <1>3, <2>2, <2>3, <3>1 DEF dbus_access
  <2>4. CASE ~fire
    <3>1. dslot'.addr = dslot.addr /\ dslot'.wdata = dslot.wdata
      BY <1>2, <2>4 DEF RamFacts!Outcome
    <3>2. Ram!Occupied' <=> Ram!Occupied /\ ~dbus_resp_fire
      BY <1>2, <1>4, <1>5, <2>4 DEF RamFacts!Outcome, Ram!Occupied
    <3> QED BY <1>3, <1>4, <2>1, <2>2, <2>4, <3>1, <3>2 DEF Ram!Occupied, slot_access
  <2> QED BY <2>3, <2>4
<1>8. /\ trace_valid' <=> (MEM_WB.valid /\ ~verification_halt)
      /\ trace_mem_fire' <=> (wb_memory /\ ~verification_halt)
      /\ trace_mem_fire' => shown_access' = wb_access
      /\ TrapAlone'
  BY <1>1, <1>2, TraceShows
<1>9. /\ wb_memory' <=> (dbus_resp_fire /\ ~verification_halt)
      /\ wb_memory' => wb_access' = dbus_access
      /\ verification_halt => ~MEM_WB'.valid
  BY <1>1, <1>2, WritesBack
<1>10. OneAnswered'
  <2> SUFFICES ASSUME wb_memory' PROVE ~EX_MEM'.accepted /\ ~trace_mem_fire'
    BY DEF OneAnswered
  <2>1. dbus_resp_fire /\ ~verification_halt
    BY <1>9
  <2>2. EX_MEM'.accepted = FALSE
    BY <1>1, <1>2, <2>1, MemCases DEF CpuInv
  <2>3. ~wb_memory
    BY <1>1, <1>5, <2>1 DEF OneAnswered
  <2> QED BY <1>8, <2>2, <2>3
<1>11. Completion'
  <2>1. CASE verification_halt
    <3>1. ~EX_MEM'.valid /\ ~MEM_WB'.valid /\ ~trace_valid' /\ verification_halt'
      BY <1>2, <1>8, <1>9, <2>1 DEF NextExMem, Memory
    <3> QED BY <3>1 DEF Completion, Dropped
  <2>2. CASE ~verification_halt /\ dbus_resp_fire
    <3>1. wb_memory' /\ wb_access' = slot_access
      BY <1>5, <1>9, <2>2
    <3>2. sb'.completion = slot_access
      BY <1>3, <1>5, <2>2 DEF ScoreInv
    <3> QED BY <3>1, <3>2 DEF Completion
  <2>3. CASE ~verification_halt /\ ~dbus_resp_fire
    <3>1. ~Dropped /\ ~wb_memory'
      BY <1>9, <2>3 DEF Dropped
    <3>2. CASE wb_memory
      <4>1. sb'.completion = wb_access
        BY <1>1, <1>3, <2>3, <3>1, <3>2 DEF Completion, OneAnswered
      <4> QED BY <1>8, <2>3, <3>1, <3>2, <4>1 DEF Completion
    <3>3. CASE ~wb_memory
      <4>1. sb'.completion = None
        BY <1>1, <1>3, <2>3, <3>1, <3>3 DEF Completion
      <4> QED BY <1>8, <3>1, <3>3, <4>1 DEF Completion
    <3> QED BY <3>2, <3>3
  <2> QED BY <2>1, <2>2, <2>3
<1> QED BY <1>6, <1>7, <1>8, <1>10, <1>11 DEF ScoreInv

(* So no check of it fails. *)
LEMMA ScoreSilent ==
  ASSUME CpuInv, ScoreInv, NEW open \in BOOLEAN
  PROVE  ~Score!ScoreboardFails(ScoreboardPins(open))
<1> DEFINE s == ScoreboardPins(open)
<1>1. TypeOK /\ OneAnswered /\ Completion /\ TrapAlone /\ AcceptedOccupies
  BY DEF CpuInv, ScoreInv
<1>2. /\ dbus_req_fire(open) => ~EX_MEM.accepted /\ ~Ram!Occupied
      /\ dbus_resp_fire => EX_MEM.valid /\ EX_MEM.accepted /\ Ram!Occupied
  BY <1>1, BusEvents
<1>3. /\ s.accepted # None => dbus_req_fire(open)
      /\ s.answered <=> dbus_resp_fire
      /\ s.shown = IF trace_mem_fire THEN shown_access ELSE None
      /\ s.trap = trace.trap
  BY DEF ScoreboardPins, shown_access
<1> HIDE DEF s
<1>4. ~(s.accepted # None /\ sb.request # None)
  BY <1>2, <1>3 DEF ScoreInv
<1>5. ~(s.answered /\ sb.request = None)
  BY <1>1, <1>2, <1>3, AccessIsOne DEF ScoreInv
<1>6. ~(s.answered /\ sb.completion # None /\ s.shown = None)
  <2> SUFFICES ASSUME dbus_resp_fire, sb.completion # None PROVE s.shown # None
    BY <1>3
  <2>1. ~Dropped /\ ~wb_memory
    BY <1>1, <1>2 DEF Dropped, OneAnswered
  <2> QED BY <1>1, <1>3, <2>1 DEF Completion
<1>7. ~(s.shown # None /\ (sb.completion # s.shown \/ s.trap))
  <2> SUFFICES ASSUME trace_mem_fire PROVE sb.completion = shown_access /\ ~trace.trap
    BY <1>3
  <2>1. ~Dropped /\ ~wb_memory
    BY <1>1 DEF Dropped, OneAnswered, trace_mem_fire
  <2> QED BY <1>1, <2>1 DEF Completion, TrapAlone, trace_mem_fire
<1> QED BY <1>4, <1>5, <1>6, <1>7 DEF Score!ScoreboardFails, s

-----------------------------------------------------------------------------
(* The monitors remember what the core and the memories are still holding.   *)
MonitorInv ==
  /\ mon.ireq # None => IF if_req.present THEN if_req.addr = mon.ireq ELSE verification_halt
  /\ mon.iresp # None => islot.resp_valid /\ islot.resp_data = mon.iresp
  /\ mon.dreq # None => dheld.valid /\ mon.dreq = [addr |-> dheld.addr, wdata |-> dheld.data]
  /\ mon.dresp # None => dslot.resp_valid /\ dslot.resp_data = mon.dresp
  /\ mon.expected_event_order = IF trace_valid THEN 1 - event_order_count ELSE event_order_count

(* A request not taken is presented again, unless the core is being halted.  *)
LEMMA RequestKept ==
  ASSUME AtMostOneFetch, FrontTypeOK(Instr), NEW e, NEW irdy, SoundWires(e, Instr),
         FrontEdge(e, irdy), ibus_req_valid(e), ~ibus_req_fire(e, irdy)
  PROVE  IF if_req'.present THEN if_req'.addr = active_req(e).addr ELSE e.halt
<1> USE DEF FrontTypeOK, Presented, Outstanding, SoundWires
<1>1. if_req' = NextRequest(e, irdy)
  BY DEF FrontEdge
<1>2. CASE if_req.present
  <2>1. ~latch_request(e, irdy)
    BY <1>2 DEF AtMostOneFetch, latch_request, fetch_can_launch, turnover_offer,
                ibus_resp_fire, ibus_resp_ready
  <2> QED BY <1>1, <1>2, <2>1 DEF NextRequest, active_req
<1>3. CASE ~if_req.present
  <2>1. latch_request(e, irdy)
    BY <1>3 DEF latch_request, ibus_req_valid
  <2> QED BY <1>1, <1>3, <2>1 DEF NextRequest, active_req
<1> QED BY <1>2, <1>3

(* One edge of the monitors beside one of the core. *)
LEMMA MonitorEdge ==
  ASSUME CpuInv, MonitorInv, NEW en \in BOOLEAN, NEW iopen \in BOOLEAN, NEW open \in BOOLEAN,
         NEW halt \in BOOLEAN, verification_halt => halt,
         CoreEdge(Driven(en), RomReady(en, iopen), open, halt),
         Watch!MonitorsEdge(MonitorPins(en, iopen, open))
  PROVE  MonitorInv'
<1> DEFINE e == Driven(en)
           irdy == RomReady(en, iopen)
<1>1. /\ TypeOK /\ AtMostOneFetch /\ FetchOwnership /\ RamAnswers
      /\ FrontTypeOK(Instr) /\ SoundWires(e, Instr) /\ FrontEdge(e, irdy)
      /\ irdy => Rom!req_ready(ibus_resp_ready(e))
  BY DEF CoreEdge, CpuInv, TypeOK
<1>2. /\ mon'.ireq = IF ibus_req_fire(e, irdy) THEN None
                     ELSE IF ibus_req_valid(e) THEN active_req(e).addr ELSE None
      /\ mon'.iresp = IF ibus_resp_fire(e) THEN None
                      ELSE IF islot.resp_valid THEN islot.resp_data ELSE None
      /\ mon'.dreq = IF dbus_req_fire(open) THEN None
                     ELSE IF dbus_req_valid THEN dbus_access ELSE None
      /\ mon'.dresp = IF dbus_resp_fire THEN None
                      ELSE IF dslot.resp_valid THEN dslot.resp_data ELSE None
      /\ mon'.expected_event_order = IF trace_valid THEN 1 - mon.expected_event_order
                                                    ELSE mon.expected_event_order
  BY DEF Watch!MonitorsEdge, Watch!Held, MonitorPins, Driven, RomReady
<1> HIDE DEF e, irdy
<1>3. mon'.ireq # None => IF if_req'.present THEN if_req'.addr = mon'.ireq ELSE verification_halt'
  <2> SUFFICES ASSUME mon'.ireq # None
               PROVE  IF if_req'.present THEN if_req'.addr = mon'.ireq ELSE verification_halt'
    OBVIOUS
  <2>1. ibus_req_valid(e) /\ ~ibus_req_fire(e, irdy) /\ mon'.ireq = active_req(e).addr
    BY <1>2
  <2>2. IF if_req'.present THEN if_req'.addr = active_req(e).addr ELSE e.halt
    BY <1>1, <2>1, RequestKept
  <2>3. e.halt => verification_halt'
    BY DEF CoreEdge, e
  <2> QED BY <2>1, <2>2, <2>3
<1>4. mon'.iresp # None => islot'.resp_valid /\ islot'.resp_data = mon'.iresp
  <2> SUFFICES ASSUME mon'.iresp # None PROVE islot'.resp_valid /\ islot'.resp_data = mon'.iresp
    OBVIOUS
  <2>1. islot.resp_valid /\ ~ibus_resp_fire(e) /\ mon'.iresp = islot.resp_data
    BY <1>2
  <2>2. ~ibus_resp_ready(e) /\ ~islot.busy
    BY <1>1, <2>1 DEF ibus_resp_fire, CoreEdge, e, FetchOwnership
  <2>3. ~ibus_req_fire(e, irdy)
    BY <1>1, <2>1, <2>2 DEF ibus_req_fire, Rom!req_ready
  <2>4. RomFacts!Outcome(ibus_req_fire(e, irdy), active_req(e).addr, NoWrite, ibus_resp_ready(e))
    BY DEF CoreEdge, e, irdy
  <2> QED BY <2>1, <2>2, <2>3, <2>4 DEF RomFacts!Outcome
<1>5. mon'.dreq # None => dheld'.valid /\ mon'.dreq = [addr |-> dheld'.addr, wdata |-> dheld'.data]
  <2> SUFFICES ASSUME mon'.dreq # None
               PROVE  dheld'.valid /\ mon'.dreq = [addr |-> dheld'.addr, wdata |-> dheld'.data]
    OBVIOUS
  <2>1. dheld' = [valid |-> TRUE, addr |-> EX_MEM.alu, data |-> dbus_req_wdata]
    BY <1>2 DEF CoreEdge
  <2> QED BY <1>2, <2>1 DEF dbus_access
<1>6. mon'.dresp # None => dslot'.resp_valid /\ dslot'.resp_data = mon'.dresp
  <2> SUFFICES ASSUME mon'.dresp # None PROVE dslot'.resp_valid /\ dslot'.resp_data = mon'.dresp
    OBVIOUS
  <2>1. dslot.resp_valid /\ ~dbus_resp_fire /\ mon'.dresp = dslot.resp_data
    BY <1>2
  <2>2. ~dbus_resp_ready /\ ~dslot.busy
    BY <1>1, <2>1 DEF dbus_resp_fire, RamAnswers
  <2>3. ~dbus_req_fire(open)
    BY <2>1, <2>2 DEF dbus_req_fire, Ram!req_ready
  <2>4. RamFacts!Outcome(dbus_req_fire(open), EX_MEM.alu, dbus_req_wdata, dbus_resp_ready)
    BY DEF CoreEdge
  <2> QED BY <2>1, <2>2, <2>3, <2>4 DEF RamFacts!Outcome
<1>7. mon'.expected_event_order = IF trace_valid' THEN 1 - event_order_count' ELSE event_order_count'
  <2>1. event_order_count' = IF trace_valid' THEN 1 - event_order_count ELSE event_order_count
    BY DEF CoreEdge, TraceEdge
  <2>2. event_order_count \in {0, 1}
    BY <1>1 DEF TypeOK
  <2> QED BY <1>2, <2>1, <2>2 DEF MonitorInv
<1> QED BY <1>3, <1>4, <1>5, <1>6, <1>7 DEF MonitorInv

(* A request that is gone, though the bus has not taken it. *)
Withdrawn(w) ==
  \/ mon.ireq # None /\ w.ireq = None
  \/ mon.dreq # None /\ w.dreq = None

(* A monitor can fail only in this way, and only because the core is halted. *)
LEMMA MonitorSilent ==
  ASSUME CpuInv, MonitorInv, TrapAlone, NEW en \in BOOLEAN, NEW iopen, NEW open,
         Watch!MonitorsFail(MonitorPins(en, iopen, open))
  PROVE  verification_halt /\ Withdrawn(MonitorPins(en, iopen, open))
<1> DEFINE e == Driven(en)
           w == MonitorPins(en, iopen, open)
<1>1. /\ w.r0 = rf[0] /\ w.trace_valid = trace_valid /\ w.trace = trace
      /\ w.trace_event_order = 1 - event_order_count
      /\ w.ireq = IF ibus_req_valid(e) THEN active_req(e).addr ELSE None
      /\ w.iresp = IF islot.resp_valid THEN islot.resp_data ELSE None
      /\ w.dreq = IF dbus_req_valid THEN dbus_access ELSE None
      /\ w.dresp = IF dslot.resp_valid THEN dslot.resp_data ELSE None
  BY DEF MonitorPins, Driven
<1>2. e.en => ~verification_halt
  BY DEF Driven, Wires
<1>3. \/ w.r0 # 0
      \/ mon.ireq # None /\ w.ireq # mon.ireq
      \/ mon.iresp # None /\ w.iresp # mon.iresp
      \/ mon.dreq # None /\ w.dreq # mon.dreq
      \/ mon.dresp # None /\ w.dresp # mon.dresp
      \/ w.trace_valid /\ w.trace_event_order # mon.expected_event_order
      \/ w.trace_valid /\ w.trace.trap /\ (w.trace.rd # 0 \/ w.trace.mem # "none")
  BY DEF Watch!MonitorsFail, Watch!Changed
<1> HIDE DEF e, w
<1>4. /\ w.r0 = 0
      /\ mon.iresp # None => w.iresp = mon.iresp
      /\ mon.dresp # None => w.dresp = mon.dresp
      /\ w.trace_valid => w.trace_event_order = mon.expected_event_order
      /\ w.trace_valid /\ w.trace.trap => w.trace.rd = 0 /\ w.trace.mem = "none"
  BY <1>1 DEF CpuInv, ZeroRegister, MonitorInv, TrapAlone
<1>5. ASSUME mon.ireq # None, w.ireq # mon.ireq
      PROVE  verification_halt /\ w.ireq = None
  <2>1. ~if_req.present
    BY <1>1, <1>5 DEF MonitorInv, ibus_req_valid, active_req
  <2>2. verification_halt
    BY <1>5, <2>1 DEF MonitorInv
  <2>3. ~ibus_req_valid(e)
    BY <1>2, <2>1, <2>2 DEF ibus_req_valid, turnover_offer
  <2> QED BY <1>1, <2>2, <2>3
<1>6. ASSUME mon.dreq # None, w.dreq # mon.dreq
      PROVE  verification_halt /\ w.dreq = None
  <2>1. verification_halt
    BY <1>1, <1>6 DEF MonitorInv, CpuInv, DataOwnership, dbus_access
  <2> QED BY <1>1, <2>1 DEF dbus_req_valid
<1> QED BY <1>3, <1>4, <1>5, <1>6 DEF Withdrawn, w

-----------------------------------------------------------------------------
(* Both together, from either reset on.                                      *)
CheckersInv == CpuInv /\ ScoreInv /\ MonitorInv

(* With nothing accepted, answered or held there is nothing to remember.     *)
LEMMA CheckersClear == AtReset /\ CheckersInit => CheckersInv
<1> SUFFICES ASSUME AtReset, CheckersInit PROVE CheckersInv
  OBVIOUS
<1>1. CpuInv
  BY ClearedInv
<1>2. /\ EX_MEM = NoMemory /\ MEM_WB = NoWritten /\ ~trace_valid /\ event_order_count = 0
      /\ ~dslot.busy /\ ~dslot.resp_valid
  BY DEF AtReset, Cleared, Ram!ResetSlot
<1>3. /\ sb.request = None /\ sb.completion = None
      /\ mon.ireq = None /\ mon.iresp = None /\ mon.dreq = None /\ mon.dresp = None
      /\ mon.expected_event_order = 0
  BY DEF CheckersInit, Score!ResetScoreboard, Watch!ResetMonitors
<1>4. AcceptedOccupies /\ ~wb_memory /\ ~trace_mem_fire /\ ~Ram!Occupied
  BY <1>2 DEF NoMemory, NoWritten, AcceptedOccupies, exmem_external_mem, wb_memory,
              trace_mem_fire, Ram!Occupied
<1>5. ScoreInv
  BY <1>2, <1>3, <1>4 DEF ScoreInv, OneAnswered, Completion, TrapAlone
<1>6. MonitorInv
  BY <1>2, <1>3 DEF MonitorInv
<1> QED BY <1>1, <1>5, <1>6 DEF CheckersInv

(* Every edge of core and checkers keeps it. *)
LEMMA CheckersStep ==
  ASSUME CheckersInv, NEW en \in BOOLEAN, NEW iopen \in BOOLEAN, NEW open \in BOOLEAN,
         NEW halt \in BOOLEAN, verification_halt => halt, Tick(en, iopen, open, halt),
         CheckersEdge(en, iopen, open)
  PROVE  CheckersInv'
<1>1. CoreEdge(Driven(en), RomReady(en, iopen), open, halt)
  BY TickIsEdge DEF CheckersInv, CpuInv
<1>2. CpuInv'
  BY TickInv DEF CheckersInv
<1>3. ScoreInv'
  BY <1>1, ScoreEdge DEF CheckersInv, CheckersEdge
<1>4. MonitorInv'
  BY <1>1, MonitorEdge DEF CheckersInv, CheckersEdge
<1> QED BY <1>2, <1>3, <1>4 DEF CheckersInv

(* It is about the registers of core, memories and checkers alone. *)
LEMMA CheckersStutter ==
  ASSUME CheckersInv, UNCHANGED monitoredVars
  PROVE  CheckersInv'
<1>1. UNCHANGED vars /\ sb' = sb /\ mon' = mon
  BY DEF monitoredVars
<1>2. CpuInv'
  BY <1>1, StutterInv DEF CheckersInv
<1>3. /\ EX_MEM' = EX_MEM /\ MEM_WB' = MEM_WB /\ if_req' = if_req
      /\ trace_valid' = trace_valid /\ trace' = trace /\ event_order_count' = event_order_count
      /\ islot' = islot /\ dslot' = dslot /\ dheld' = dheld
      /\ verification_halt' = verification_halt
  BY <1>1 DEF vars, frontVars, backVars, outVars, busVars
<1>4. ScoreInv'
  BY <1>1, <1>3 DEF CheckersInv, ScoreInv, AcceptedOccupies, exmem_external_mem, dbus_req_wdata,
       Ram!Occupied, slot_access, OneAnswered, wb_memory, trace_mem_fire, Completion, Dropped,
       wb_access, shown_access, TrapAlone
<1>5. MonitorInv'
  BY <1>1, <1>3 DEF CheckersInv, MonitorInv
<1> QED BY <1>2, <1>4, <1>5 DEF CheckersInv

-----------------------------------------------------------------------------
(* The main bench.                                                           *)

(* No monitor fails until the bench halts the core, and from then on none    *)
(* but the two that see a request withdrawn.  MonitorsQuiet, below, is       *)
(* stronger, and true of a job whose completion instruction no access        *)
(* follows.                                                                  *)
HaltWithdraws ==
  \A iopen \in IGates, dopen \in DGates :
    LET w == MonitorPins(core_fetch_enable, iopen, dopen)
    IN  Watch!MonitorsFail(w) => verification_halt /\ Withdrawn(w)

(* The invariant holds on the main bench. *)
LEMMA TbInvariance == TbSpec => []CheckersInv
<1>1. TbInit => CheckersInv
  <2> SUFFICES ASSUME TbInit PROVE CheckersInv
    OBVIOUS
  <2>1. AtReset
    BY InitClear DEF TbInit
  <2> QED BY <2>1, CheckersClear DEF TbInit
<1>2. CheckersInv /\ [TbNext]_tbVars => CheckersInv'
  <2> SUFFICES ASSUME CheckersInv, [TbNext]_tbVars PROVE CheckersInv'
    OBVIOUS
  <2>1. ASSUME NEW iopen \in IGates, NEW dopen \in DGates, Cycle(iopen, dopen)
        PROVE  CheckersInv'
    <3>1. iopen \in BOOLEAN /\ dopen \in BOOLEAN
      BY CpuAssumption
    <3>2. /\ Tick(core_fetch_enable, iopen, dopen, verification_halt \/ completion_retires)
          /\ CheckersEdge(core_fetch_enable, iopen, dopen)
      BY <2>1 DEF Cycle
    <3>3. core_fetch_enable \in BOOLEAN /\ (verification_halt \/ completion_retires) \in BOOLEAN
      BY DEF core_fetch_enable
    <3> DEFINE halt == verification_halt \/ completion_retires
    <3>4. /\ halt \in BOOLEAN /\ (verification_halt => halt)
          /\ Tick(core_fetch_enable, iopen, dopen, halt)
      BY <3>2, <3>3
    <3> HIDE DEF halt
    <3> QED BY <3>1, <3>2, <3>3, <3>4, CheckersStep
  <2>2. CASE UNCHANGED tbVars
    BY <2>2, CheckersStutter DEF tbVars
  <2> QED BY <2>1, <2>2 DEF TbNext
<1> QED BY <1>1, <1>2, PTL DEF TbSpec

(* ScoreboardQuiet: every access on the data bus is answered and shown in    *)
(* the trace in its turn, for every program, wait, stall and halt.           *)
THEOREM ScoreboardPasses == TbSpec => []ScoreboardQuiet
<1>1. CheckersInv => ScoreboardQuiet
  BY ScoreSilent, CpuAssumption DEF CheckersInv, ScoreboardQuiet
<1> QED BY <1>1, TbInvariance, PTL

(* HaltWithdraws: requests and responses under backpressure stay, events are *)
(* numbered without gaps, a trap has no other effect and r0 stays zero, but  *)
(* for a request that the bench's own halt withdraws.                        *)
THEOREM MonitorsPass == TbSpec => []HaltWithdraws
<1>1. CheckersInv => HaltWithdraws
  <2> SUFFICES ASSUME CheckersInv, NEW iopen \in IGates, NEW dopen \in DGates,
                      Watch!MonitorsFail(MonitorPins(core_fetch_enable, iopen, dopen))
               PROVE  verification_halt /\ Withdrawn(MonitorPins(core_fetch_enable, iopen, dopen))
    BY DEF HaltWithdraws
  <2>1. core_fetch_enable \in BOOLEAN
    BY DEF core_fetch_enable
  <2> QED BY <2>1, MonitorSilent DEF CheckersInv, ScoreInv
<1> QED BY <1>1, TbInvariance, PTL

(* Isa and the checker take the same step of the same model. *)
LEMMA SameModel ==
  ASSUME NEW s
  PROVE  Reference!step(s) = step(s) /\ Reference!step_event(s) = step_event(s)
<1>1. Reference!instruction(s) = instruction(s)
  BY DEF Reference!instruction, instruction
<1>2. Reference!rsVal(s) = rsVal(s) /\ Reference!rtVal(s) = rtVal(s)
  BY <1>1 DEF Reference!rsVal, rsVal, Reference!rtVal, rtVal
<1>3. /\ \A n : Reference!Plus4(n) = Plus4(n)
      /\ \A x, y : Reference!Plus(x, y) = Plus(x, y)
      /\ Reference!Link = Link
  BY DEF Reference!Plus4, Reference!Plus, Reference!Link, Plus4, Plus, Link
<1>4. /\ Reference!CauseIllegal = CauseIllegal /\ Reference!CauseCsr = CauseCsr
      /\ Reference!CauseMisalignedLoad = CauseMisalignedLoad
      /\ Reference!CauseMisalignedStore = CauseMisalignedStore
      /\ Reference!CauseUnmappedLoad = CauseUnmappedLoad
      /\ Reference!CauseUnmappedStore = CauseUnmappedStore
  BY DEF Reference!CauseIllegal, Reference!CauseCsr, Reference!CauseMisalignedLoad,
         Reference!CauseMisalignedStore, Reference!CauseUnmappedLoad, Reference!CauseUnmappedStore,
         CauseIllegal, CauseCsr, CauseMisalignedLoad, CauseMisalignedStore, CauseUnmappedLoad,
         CauseUnmappedStore
<1>5. Reference!NoEvent = NoEvent
  BY DEF Reference!NoEvent, NoEvent
<1>6. \A npc : Reference!base_event(s, npc) = base_event(s, npc)
  BY <1>5 DEF Reference!base_event, base_event
<1>7. /\ \A c : Reference!trap_event(s, c) = trap_event(s, c)
      /\ \A npc, rd, v : Reference!write_event(s, npc, rd, v) = write_event(s, npc, rd, v)
  BY <1>6 DEF Reference!trap_event, trap_event, Reference!write_event, write_event
<1>8. \A a, v : Reference!load_event(s, a, v) = load_event(s, a, v)
  BY <1>1, <1>3, <1>7 DEF Reference!load_event, load_event
<1>9. \A a : Reference!read_csr(s, a) = read_csr(s, a)
  BY DEF Reference!read_csr, read_csr
<1>10. Reference!memory_event(s) = memory_event(s)
  <2> DEFINE a == Plus(rsVal(s), instruction(s).imm)
  <2>1. Reference!Plus(Reference!rsVal(s), Reference!instruction(s).imm) = a
    BY <1>1, <1>2, <1>3
  <2>2. Reference!load_event(s, a, Reference!read_csr(s, a)) = load_event(s, a, read_csr(s, a))
    BY <1>8, <1>9
  <2>3. Reference!load_event(s, a, s.ram[a]) = load_event(s, a, s.ram[a])
    BY <1>8
  <2>4. [Reference!base_event(s, Reference!Plus4(s.pc))
           EXCEPT !.mem = "store", !.addr = a, !.data = Reference!rtVal(s)]
          = [base_event(s, Plus4(s.pc)) EXCEPT !.mem = "store", !.addr = a, !.data = rtVal(s)]
    BY <1>2, <1>3, <1>6
  <2>5. \A c : Reference!trap_event(s, c) = trap_event(s, c)
    BY <1>7
  <2> HIDE DEF a
  <2> QED BY <1>1, <1>4, <2>1, <2>2, <2>3, <2>4, <2>5 DEF Reference!memory_event, memory_event, a
<1>11. Reference!step_event(s) = step_event(s)
  BY <1>1, <1>2, <1>3, <1>4, <1>6, <1>7, <1>10 DEF Reference!step_event, step_event
<1>12. Reference!step(s) = step(s)
  BY <1>3, <1>11 DEF Reference!step, step
<1> QED BY <1>11, <1>12

(* A set of natural numbers that is not empty has a least element; hence     *)
(* induction.                                                                *)
LEMMA Least ==
  ASSUME NEW T, T \subseteq Nat, T # {}
  PROVE  \E x \in T : \A y \in T : x <= y
<1> DEFINE less == OpToRel(<, Nat)
<1>1. IsWellFoundedOn(less, Nat)
  BY NatLessThanWellFounded
<1>2. \A x, y \in Nat : <<y, x>> \in less <=> y < x
  BY DEF OpToRel
<1> HIDE DEF less
<1>3. PICK x \in T : \A y \in T : ~(<<y, x>> \in less)
  BY <1>1, WFMin
<1>4. ASSUME NEW y \in T PROVE x <= y
  <2>1. x \in Nat /\ y \in Nat /\ ~(y < x)
    BY <1>2, <1>3
  <2> QED BY <2>1
<1> QED BY <1>4

(* What holds of 0, and of n + 1 with n, holds of every number up to m.     *)
LEMMA Induct ==
  ASSUME NEW S, 0 \in S, \A n \in Nat : n \in S => n + 1 \in S
  PROVE  Nat \subseteq S
<1> SUFFICES ASSUME Nat \ S # {} PROVE FALSE
  OBVIOUS
<1>1. PICK x \in Nat \ S : \A y \in Nat \ S : x <= y
  BY Least
<1>2. x \in Nat /\ x # 0 /\ x - 1 \in Nat /\ ~(x <= x - 1)
  BY <1>1
<1>3. x - 1 \in S
  BY <1>1, <1>2
<1>4. (x - 1) + 1 \in S
  BY <1>2, <1>3
<1> QED BY <1>1, <1>2, <1>4

(* The reference run after n steps, given the run up to there. *)
RunAt(h, j, n) ==
  IF n = 0 THEN [state |-> reset(j.program, j.ram), events |-> <<>>]
  ELSE LET r == h[n - 1]
       IN  IF completed(r, j.completion_pc) THEN r
           ELSE [ state |-> step(r.state), events |-> Append(r.events, step_event(r.state)) ]

(* There is such a run of every length, *)
LEMMA RunExists ==
  ASSUME NEW j, NEW m \in Nat
  PROVE  \E h : h = [n \in 0 .. m |-> RunAt(h, j, n)]
<1> DEFINE S == {k \in Nat : \E h : h = [n \in 0 .. k |-> RunAt(h, j, n)]}
<1>1. \A g, h, n : g[n - 1] = h[n - 1] => RunAt(g, j, n) = RunAt(h, j, n)
  BY DEF RunAt
<1>2. \A g, h : RunAt(g, j, 0) = RunAt(h, j, 0)
  BY DEF RunAt
<1>3. 0 \in S
  <2> DEFINE h == [n \in 0 .. 0 |-> RunAt(<<>>, j, n)]
  <2>1. \A n \in 0 .. 0 : RunAt(<<>>, j, n) = RunAt(h, j, n)
    BY <1>2
  <2>2. h = [n \in 0 .. 0 |-> RunAt(h, j, n)]
    BY <2>1
  <2> HIDE DEF h
  <2> QED BY <2>2
<1>4. \A k \in Nat : k \in S => k + 1 \in S
  <2> SUFFICES ASSUME NEW k \in Nat, k \in S PROVE k + 1 \in S
    OBVIOUS
  <2>1. PICK h : h = [n \in 0 .. k |-> RunAt(h, j, n)]
    OBVIOUS
  <2>2. \A n \in 0 .. k : h[n] = RunAt(h, j, n)
    BY <2>1, Zenon
  <2> DEFINE g == [n \in 0 .. k + 1 |-> RunAt(h, j, n)]
  <2>3. \A n \in 0 .. k : g[n] = h[n]
    BY <2>2
  <2>4. \A n \in 0 .. k + 1 : RunAt(g, j, n) = RunAt(h, j, n)
    <3> SUFFICES ASSUME NEW n \in 0 .. k + 1 PROVE RunAt(g, j, n) = RunAt(h, j, n)
      OBVIOUS
    <3> HIDE DEF g
    <3>1. CASE n = 0
      BY <3>1, <1>2
    <3>2. CASE n - 1 \in 0 .. k
      <4>1. g[n - 1] = h[n - 1]
        BY <3>2, <2>3
      <4> QED BY <4>1, <1>1
    <3> QED BY <3>1, <3>2
  <2>5. g = [n \in 0 .. k + 1 |-> RunAt(g, j, n)]
    BY <2>4
  <2> HIDE DEF g
  <2> QED BY <2>5
<1> HIDE DEF S
<1>5. m \in S
  BY <1>3, <1>4, Induct
<1> QED BY <1>5 DEF S

(* and the checker's is the one of MaxEvents. *)
LEMMA RunUnfolds ==
  ASSUME NEW j
  PROVE  /\ DOMAIN reference_run(j) = 0 .. MaxEvents
         /\ \A n \in 0 .. MaxEvents : reference_run(j)[n] = RunAt(reference_run(j), j, n)
<1> DEFINE D(h) == h = [n \in 0 .. MaxEvents |-> RunAt(h, j, n)]
<1>1. \E h : D(h)
  BY RunExists, CheckerAssumption
<1>2. reference_run(j) = CHOOSE h : D(h)
  BY DEF reference_run, RunAt
<1>3. D(reference_run(j))
  <2> HIDE DEF D
  <2> QED BY <1>1, <1>2
<1> QED BY <1>3, Zenon

(* The run of a job that completes: K steps, each adding an event, the last  *)
(* one the first of the completion PC.                                       *)
Runs(h, j, K) ==
  /\ K \in 1 .. MaxEvents /\ h[MaxEvents] = h[K]
  /\ h[0] = [state |-> reset(j.program, j.ram), events |-> <<>>]
  /\ \A n \in 0 .. K - 1 :
       /\ ~completed(h[n], j.completion_pc)
       /\ h[n + 1] = [ state  |-> step(h[n].state),
                       events |-> Append(h[n].events, step_event(h[n].state)) ]
       /\ completed(h[n + 1], j.completion_pc) <=> step_event(h[n].state).pc = j.completion_pc
  /\ completed(h[K], j.completion_pc)
  /\ \A n \in 0 .. K : Len(h[n].events) = n

(* Such a run is what the checker computes for a job it accepts.             *)
LEMMA RunCompletes ==
  ASSUME NEW j, completed(expected_until_completion(j), j.completion_pc)
  PROVE  \E K : Runs(reference_run(j), j, K)
<1> DEFINE h    == reference_run(j)
           C(n) == completed(h[n], j.completion_pc)
           T    == {n \in 0 .. MaxEvents : C(n)}
<1>1. MaxEvents \in Nat
  BY CheckerAssumption
<1>2. \A n \in 0 .. MaxEvents : h[n] = RunAt(h, j, n)
  BY RunUnfolds
<1>3. C(MaxEvents)
  BY DEF expected_until_completion
<1>4. h[0] = [state |-> reset(j.program, j.ram), events |-> <<>>] /\ ~C(0)
  <2>1. h[0] = RunAt(h, j, 0)
    BY <1>1, <1>2
  <2> HIDE DEF h
  <2>2. h[0] = [state |-> reset(j.program, j.ram), events |-> <<>>]
    BY <2>1 DEF RunAt
  <2> QED BY <2>2 DEF completed
<1>5. ASSUME NEW n \in 0 .. MaxEvents - 1
      PROVE  h[n + 1] = IF C(n) THEN h[n]
                        ELSE [ state  |-> step(h[n].state),
                               events |-> Append(h[n].events, step_event(h[n].state)) ]
  <2>1. n + 1 \in 0 .. MaxEvents /\ n + 1 # 0 /\ (n + 1) - 1 = n
    BY <1>1
  <2>2. h[n + 1] = RunAt(h, j, n + 1)
    BY <1>2, <2>1
  <2> HIDE DEF h
  <2> QED BY <2>1, <2>2 DEF RunAt
<1> HIDE DEF h, C
<1>6. PICK K \in T : \A n \in T : K <= n
  <2>1. MaxEvents \in T /\ T \subseteq Nat
    BY <1>1, <1>3
  <2> HIDE DEF T
  <2> QED BY <2>1, Least
<1>7. K \in 1 .. MaxEvents /\ C(K) /\ \A n \in 0 .. K - 1 : ~C(n)
  BY <1>1, <1>4, <1>6
<1>8. \A n \in 0 .. K - 1 :
        h[n + 1] = [ state  |-> step(h[n].state),
                     events |-> Append(h[n].events, step_event(h[n].state)) ]
  BY <1>1, <1>5, <1>7
<1>9. /\ \A n \in 0 .. K : Len(h[n].events) = n
      /\ \A n \in 0 .. K - 1 : C(n + 1) <=> step_event(h[n].state).pc = j.completion_pc
  <2> DEFINE E == {step_event(h[n].state) : n \in 0 .. K - 1}
             S == {n \in Nat : n <= K => h[n].events \in Seq(E) /\ Len(h[n].events) = n}
  <2>1. 0 \in S
    <3>1. h[0].events = <<>>
      BY <1>4
    <3> HIDE DEF E
    <3>2. <<>> \in Seq(E) /\ Len(<<>>) = 0
      OBVIOUS
    <3> QED BY <3>1, <3>2
  <2>2. ASSUME NEW n \in Nat, n \in S PROVE n + 1 \in S
    <3> SUFFICES ASSUME n + 1 <= K
                 PROVE  h[n + 1].events \in Seq(E) /\ Len(h[n + 1].events) = n + 1
      OBVIOUS
    <3>1. n \in 0 .. K - 1 /\ n <= K
      BY <1>7
    <3>2. step_event(h[n].state) \in E
      BY <3>1
    <3>3. h[n].events \in Seq(E) /\ Len(h[n].events) = n
      BY <2>2, <3>1
    <3>4. h[n + 1].events = Append(h[n].events, step_event(h[n].state))
      <4>1. h[n + 1] = [ state  |-> step(h[n].state),
                         events |-> Append(h[n].events, step_event(h[n].state)) ]
        BY <1>8, <3>1, Zenon
      <4> QED BY <4>1
    <3> HIDE DEF E
    <3> QED BY <3>2, <3>3, <3>4
  <2> HIDE DEF S
  <2>3. Nat \subseteq S
    BY <2>1, <2>2, Induct
  <2>4. \A n \in 0 .. K : n \in Nat /\ n <= K
    BY <1>7
  <2>5. \A n \in 0 .. K : h[n].events \in Seq(E) /\ Len(h[n].events) = n
    BY <2>3, <2>4 DEF S
  <2>6. ASSUME NEW n \in 0 .. K - 1
        PROVE  C(n + 1) <=> step_event(h[n].state).pc = j.completion_pc
    <3> DEFINE s == h[n].events
               v == step_event(h[n].state)
    <3>1. n \in 0 .. K /\ v \in E
      BY <1>7
    <3>2. s \in Seq(E) /\ Len(s) = n
      BY <2>5, <3>1
    <3>3. h[n + 1].events = Append(s, v)
      <4>1. h[n + 1] = [state |-> step(h[n].state), events |-> Append(s, v)]
        BY <1>8, Zenon
      <4> QED BY <4>1
    <3> HIDE DEF E, s, v
    <3>4. /\ Append(s, v) # <<>> /\ Len(Append(s, v)) = n + 1
          /\ Append(s, v)[n + 1] = v
      BY <3>1, <3>2, AppendProperties
    <3>5. completed(h[n + 1], j.completion_pc) <=> v.pc = j.completion_pc
      BY <3>3, <3>4 DEF completed
    <3> QED BY <3>5 DEF C, v
  <2> QED BY <2>5, <2>6
<1>10. h[MaxEvents] = h[K]
  <2> DEFINE S == {n \in Nat : K + n <= MaxEvents => h[K + n] = h[K]}
  <2>1. 0 \in S
    BY <1>7
  <2>2. ASSUME NEW n \in Nat, n \in S PROVE n + 1 \in S
    <3> SUFFICES ASSUME K + (n + 1) <= MaxEvents PROVE h[K + (n + 1)] = h[K]
      OBVIOUS
    <3>1. /\ K + n \in 0 .. MaxEvents - 1 /\ K + (n + 1) = (K + n) + 1
          /\ h[K + n] = h[K]
      BY <1>1, <1>7, <2>2
    <3>2. C(K + n)
      BY <1>7, <3>1 DEF C
    <3> QED BY <1>5, <3>1, <3>2
  <2> HIDE DEF S
  <2>3. Nat \subseteq S
    BY <2>1, <2>2, Induct
  <2>4. MaxEvents - K \in Nat /\ K + (MaxEvents - K) = MaxEvents
    BY <1>1, <1>7
  <2>5. MaxEvents - K \in S
    BY <2>3, <2>4
  <2> QED BY <1>1, <2>4, <2>5 DEF S
<1>11. Runs(h, j, K)
  BY <1>4, <1>7, <1>8, <1>9, <1>10 DEF Runs, C
<1> QED BY <1>11 DEF h

(* The trace shows the events of the reference model.  From the state s that *)
(* model is in after the events shown, the instruction in MEM/WB takes it to *)
(* AfterWb, and the one in EX/MEM on to AfterMem.                            *)
AfterWb(s)  == IF MEM_WB.valid THEN step(s) ELSE s
AfterMem(s) == IF EX_MEM.valid THEN step(AfterWb(s)) ELSE AfterWb(s)

Follows(s) ==
  /\ rf = s.gpr
  /\ MEM_WB.valid => RetiringEvent = step_event(s) /\ ~EX_MEM.accepted
  /\ EX_MEM.valid => ExMemEvent = step_event(AfterWb(s))
  /\ Settled = AfterMem(s)
  /\ StorePending => dmem = AfterWb(s).ram

(* What the registers of the model are once the instruction in MEM/WB is.    *)
LEMMA RegsShown ==
  ASSUME CpuInv, NEW s, Follows(s), NEW e, NEW irdy, NEW open \in BOOLEAN, NEW halt,
         CoreEdge(e, irdy, open, halt), ~verification_halt
  PROVE  rf' = AfterWb(s).gpr
<1>1. rf' = IF wb_commit_we THEN [rf EXCEPT ![regDest(MEM_WB.instr)] = MEM_WB.result] ELSE rf
  BY DEF CoreEdge, RegFileEdge
<1>2. CASE MEM_WB.valid
  <2> DEFINE ev == step_event(s)
  <2>1. /\ ev.rd = IF wb_commit_we THEN regDest(MEM_WB.instr) ELSE 0
        /\ ev.rd_data = IF wb_commit_we THEN MEM_WB.result ELSE 0
        /\ wb_commit_we => regDest(MEM_WB.instr) # 0
    <3>1. ev = RetiringEvent
      BY <1>2 DEF Follows
    <3> HIDE DEF ev
    <3> QED BY <1>2, <3>1 DEF RetiringEvent, wb_commit_we
  <2>2. step(s).gpr = IF ev.rd = 0 THEN s.gpr ELSE [s.gpr EXCEPT ![ev.rd] = ev.rd_data]
    <3>1. "gpr" \in DOMAIN s
      <4>1. \A x : DOMAIN step(x) = DOMAIN x
        BY DEF step
      <4>2. DOMAIN s = DOMAIN Settled
        BY <4>1 DEF Follows, AfterMem, AfterWb
      <4>3. "gpr" \in DOMAIN Settled
        BY DEF Settled, Reference!State
      <4> QED BY <4>2, <4>3
    <3> HIDE DEF ev
    <3> QED BY <3>1 DEF step, ev
  <2> HIDE DEF ev
  <2>3. step(s).gpr = rf'
    BY <1>1, <2>1, <2>2 DEF Follows
  <2> QED BY <1>2, <2>3 DEF AfterWb
<1>3. CASE ~MEM_WB.valid
  BY <1>1, <1>3 DEF wb_commit_we, Follows, AfterWb
<1> QED BY <1>2, <1>3

(* An edge shows the event of MEM/WB, and keeps the pipeline in front of it. *)
LEMMA FollowsStep ==
  ASSUME CpuInv, NEW s, Follows(s), NEW e, NEW irdy, NEW open \in BOOLEAN, NEW halt,
         CoreEdge(e, irdy, open, halt), ~verification_halt, ~verification_halt', TypeOK',
         NoMisalignedCsr, NEW m, m = AfterWb(s)
  PROVE  Follows(m)'
<1> DEFINE f == AfterMem(s)
<1>1. rf' = m.gpr
  BY RegsShown
<1>2. /\ RetiringEvent = RetiringEvent
      /\ EX_MEM.valid => ExMemEvent = step_event(m)
      /\ Settled = f /\ f = (IF EX_MEM.valid THEN step(m) ELSE m)
      /\ StorePending => dmem = m.ram
  BY DEF Follows, AfterMem
<1>3. /\ EX_MEM' = NextExMem(open) /\ MEM_WB' = NextMemWb
      /\ EX_MEM \in Memory /\ MEM_WB \in Written
  BY DEF CoreEdge, CpuInv, TypeOK
<1>4. Settled' = IF idex_fire THEN step(Settled) ELSE Settled
  BY SettledStep, SameModel
<1>5. exmem_complete => EX_MEM.valid /\ MEM_WB'.valid /\ RetiringEvent' = ExMemEvent
  BY MemDone
<1>6. ~exmem_complete => ~MEM_WB'.valid
  BY <1>3 DEF NextMemWb, Written
<1>7. idex_fire => exmem_can_accept
  BY DEF idex_fire
<1>8. exmem_can_accept <=> ~EX_MEM.valid \/ exmem_complete
  BY DEF exmem_can_accept
<1> HIDE DEF f
<1>9. MEM_WB'.valid => RetiringEvent' = step_event(m) /\ ~EX_MEM'.accepted
  <2>1. exmem_can_accept => ~EX_MEM'.accepted
    BY <1>3, <1>7 DEF NextExMem, Memory
  <2> QED BY <1>2, <1>5, <1>6, <1>8, <2>1
<1>10. AfterWb(m)' = IF MEM_WB'.valid THEN step(m) ELSE m
  BY DEF AfterWb
<1>11. AfterMem(m)' = IF EX_MEM'.valid THEN step(AfterWb(m)') ELSE AfterWb(m)'
  BY DEF AfterMem
<1>12. exmem_can_accept => AfterWb(m)' = f
  BY <1>2, <1>5, <1>6, <1>8, <1>10
<1>13. CASE idex_fire
  <2>1. /\ dmem' = dmem /\ ~StorePending /\ EX_MEM'.valid /\ ExMemEvent' = Reference!event
    BY <1>13, FireExecutes
  <2>2. Settled = Reference!State
    BY <2>1 DEF Settled, PendingStore, Reference!State
  <2>3. ExMemEvent' = step_event(f)
    BY <1>2, <2>1, <2>2, SameModel DEF Reference!event
  <2>4. f.ram = dmem
    BY <1>2, <2>2 DEF Reference!State
  <2>5. AfterWb(m)' = f
    BY <1>7, <1>12, <1>13
  <2> QED BY <1>1, <1>2, <1>4, <1>9, <1>11, <1>13, <2>1, <2>3, <2>4, <2>5 DEF Follows
<1>14. CASE ~idex_fire /\ exmem_can_accept
  <2>1. ~EX_MEM'.valid
    BY <1>3, <1>14 DEF NextExMem, Memory
  <2>2. ~StorePending'
    BY <2>1 DEF StorePending, exmem_external_mem
  <2> QED BY <1>1, <1>2, <1>4, <1>9, <1>11, <1>12, <1>14, <2>1, <2>2 DEF Follows
<1>15. CASE ~idex_fire /\ ~exmem_can_accept
  <2>1. /\ EX_MEM.valid /\ EX_MEM'.valid /\ ~MEM_WB'.valid /\ ExMemEvent' = ExMemEvent
    BY <1>15, MemKept
  <2>2. StorePending' => StorePending /\ dmem' = dmem
    <3>1. CASE dmem' = dmem /\ PendingStore' = PendingStore
      <4>1. (StorePending' <=> PendingStore'.valid) /\ (StorePending <=> PendingStore.valid)
        BY DEF PendingStore
      <4> QED BY <3>1, <4>1
    <3> QED BY <1>15, <3>1, DataStep
  <2>3. AfterWb(m)' = m
    BY <1>10, <2>1
  <2> QED BY <1>1, <1>2, <1>4, <1>9, <1>11, <1>15, <2>1, <2>2, <2>3 DEF Follows
<1> QED BY <1>13, <1>14, <1>15

(* The memory is the model's but for stores that it has not taken yet.       *)
LEMMA MemoryBehind ==
  ASSUME CpuInv, NEW s, Follows(s), ~EX_MEM.accepted
  PROVE  dmem = AfterWb(s).ram
<1> DEFINE m == AfterWb(s)
<1>1. /\ StorePending => dmem = m.ram
      /\ Settled = IF EX_MEM.valid THEN step(m) ELSE m
      /\ EX_MEM.valid => ExMemEvent = step_event(m)
  BY DEF Follows, AfterMem
<1>2. ~StorePending => Settled.ram = dmem
  BY DEF Settled, Reference!State, PendingStore
<1> HIDE DEF m
<1>3. ASSUME ~StorePending, EX_MEM.valid PROVE dmem = m.ram
  <2>1. ExMemEvent.mem # "store"
    <3>1. memWrite(EX_MEM.instr) /\ ~EX_MEM.trap => exmem_external_mem
      BY <1>3 DEF CpuInv, LegalAccess, exmem_external_mem, memWrite, memRead
    <3>2. ~(memWrite(EX_MEM.instr) /\ ~EX_MEM.trap)
      BY <1>3, <3>1 DEF StorePending
    <3> QED BY <3>2 DEF ExMemEvent
  <2>2. "ram" \in DOMAIN m
    <3>1. DOMAIN step(m) = DOMAIN m
      BY DEF step
    <3>2. DOMAIN m = DOMAIN Settled
      BY <1>1, <3>1
    <3>3. "ram" \in DOMAIN Settled
      BY DEF Settled, Reference!State
    <3> QED BY <3>2, <3>3
  <2>3. step(m).ram = IF step_event(m).mem = "store"
                        THEN [m.ram EXCEPT ![step_event(m).addr] = step_event(m).data] ELSE m.ram
    BY <2>2 DEF step
  <2> QED BY <1>1, <1>2, <1>3, <2>1, <2>3
<1> QED BY <1>1, <1>2, <1>3 DEF m

(* A job that has been halted leaves the model's memory, unless an access    *)
(* was still under way, which no trace will ever show.                       *)
MemoryLeft(ram) ==
  \/ dmem = ram
  \/ sb.request # None
  \/ sb.completion # None /\ ~trace_valid

(* The bench's trace is the run of the reference model, so far. *)
Exact(h, K) ==
  LET n == Len(tb.rows)
  IN  /\ {"fetch_enable", "completion_seen", "finished", "rows", "expected_events"} \subseteq DOMAIN tb
      /\ n \in 0 .. K /\ tb.rows = h[n].events
      /\ tb.expected_events = K
      /\ ~verification_halt => n < K /\ Follows(h[n].state)
      /\ verification_halt => /\ n = K /\ tb.completion_seen
                              /\ rf = h[K].state.gpr /\ MemoryLeft(h[K].state.ram)
      /\ tb.finished => verification_halt /\ Score!idle

(* What an edge does to the scoreboard. *)
LEMMA ScoreMoves ==
  ASSUME CpuInv, ScoreInv, NEW open \in BOOLEAN, Score!ScoreboardEdge(ScoreboardPins(open))
  PROVE  /\ sb'.request = IF dbus_req_fire(open) THEN dbus_access
                          ELSE IF dbus_resp_fire THEN None ELSE sb.request
         /\ sb'.completion = IF dbus_resp_fire THEN sb.request
                             ELSE IF trace_mem_fire THEN
                               IF shown_access # None THEN None ELSE sb.completion
                             ELSE sb.completion
         /\ dbus_access # None
         /\ dbus_resp_fire => sb.request # None
<1>1. TypeOK /\ AcceptedOccupies
  BY DEF CpuInv, ScoreInv
<1>2. dbus_access # None /\ slot_access # None
  BY <1>1, AccessIsOne
<1>3. dbus_resp_fire => Ram!Occupied
  BY <1>1, BusEvents
<1>4. dbus_resp_fire => sb.request # None
  BY <1>2, <1>3 DEF ScoreInv
<1> QED BY <1>1, <1>2, <1>4
     DEF Score!ScoreboardEdge, Score!NextCompletion, ScoreboardPins, shown_access

(* A halted core does not lose that again. *)
LEMMA HaltedMemory ==
  ASSUME CpuInv, ScoreInv, verification_halt, NEW ram, MemoryLeft(ram), NEW e, NEW irdy,
         NEW open \in BOOLEAN, NEW halt, CoreEdge(e, irdy, open, halt),
         Score!ScoreboardEdge(ScoreboardPins(open))
  PROVE  MemoryLeft(ram)'
<1>1. /\ sb'.request = IF dbus_req_fire(open) THEN dbus_access
                       ELSE IF dbus_resp_fire THEN None ELSE sb.request
      /\ sb'.completion = IF dbus_resp_fire THEN sb.request
                          ELSE IF trace_mem_fire THEN
                            IF shown_access # None THEN None ELSE sb.completion
                          ELSE sb.completion
      /\ dbus_resp_fire => sb.request # None
  BY ScoreMoves
<1>2. ~dbus_req_fire(open) /\ ~trace_valid'
  BY DEF dbus_req_fire, dbus_req_valid, CoreEdge, TraceEdge
<1>3. CASE sb.request # None
  <2>1. CASE dbus_resp_fire
    <3>1. sb'.completion # None /\ ~trace_valid'
      BY <1>1, <1>2, <1>3, <2>1
    <3> QED BY <3>1 DEF MemoryLeft
  <2>2. CASE ~dbus_resp_fire
    <3>1. sb'.request # None
      BY <1>1, <1>2, <1>3, <2>2
    <3> QED BY <3>1 DEF MemoryLeft
  <2> QED BY <2>1, <2>2
<1>4. CASE sb.request = None
  <2>1. ~dbus_resp_fire /\ ~Ram!Occupied
    BY <1>1, <1>4, AccessIsOne DEF ScoreInv, CpuInv
  <2>2. dmem' = dmem
    <3>1. /\ dslot.busy \in BOOLEAN /\ dslot.resp_valid \in BOOLEAN
          /\ RamFacts!Outcome(dbus_req_fire(open), EX_MEM.alu, dbus_req_wdata, dbus_resp_ready)
          /\ dslot' \in Ram!Slot
      BY AccessIsOne DEF CpuInv, CoreEdge
    <3>2. dslot'.busy \in BOOLEAN /\ dslot'.resp_valid \in BOOLEAN
      BY <3>1 DEF Ram!Slot
    <3> QED BY <1>2, <2>1, <3>1, <3>2 DEF RamFacts!Outcome, Ram!Occupied
  <2>3. CASE dmem = ram
    BY <2>2, <2>3 DEF MemoryLeft
  <2>4. CASE sb.completion # None /\ ~trace_valid
    <3>1. sb'.completion = sb.completion
      BY <1>1, <2>1, <2>4 DEF trace_mem_fire
    <3> QED BY <1>2, <2>4, <3>1 DEF MemoryLeft
  <2> QED BY <1>4, <2>3, <2>4 DEF MemoryLeft
<1> QED BY <1>3, <1>4

(* Nor does the halting edge, on which an access of a younger instruction    *)
(* may still be accepted.                                                    *)
LEMMA HaltingMemory ==
  ASSUME CpuInv, ScoreInv, ~verification_halt, NEW s, Follows(s), MEM_WB.valid, NEW e, NEW irdy,
         NEW open \in BOOLEAN, NEW halt, CoreEdge(e, irdy, open, halt),
         Score!ScoreboardEdge(ScoreboardPins(open))
  PROVE  LET m == AfterWb(s) IN dmem' = m.ram \/ sb'.request # None
<1>1. ~EX_MEM.accepted /\ dmem = AfterWb(s).ram
  BY MemoryBehind DEF Follows
<1>2. CASE dbus_req_fire(open)
  BY <1>2, ScoreMoves
<1>3. CASE ~dbus_req_fire(open)
  <2>1. /\ dslot.busy \in BOOLEAN /\ dslot.resp_valid \in BOOLEAN
        /\ RamFacts!Outcome(dbus_req_fire(open), EX_MEM.alu, dbus_req_wdata, dbus_resp_ready)
        /\ dslot' \in Ram!Slot
    BY AccessIsOne DEF CpuInv, CoreEdge
  <2>2. dslot'.busy \in BOOLEAN /\ dslot'.resp_valid \in BOOLEAN
    BY <2>1 DEF Ram!Slot
  <2>3. ~Ram!Occupied
    <3>1. (exmem_external_mem /\ EX_MEM.accepted) = Ram!Occupied
      BY DEF CpuInv, DataOwnership
    <3> QED BY <1>1, <3>1
  <2>4. dmem' = dmem
    BY <1>3, <2>1, <2>2, <2>3 DEF RamFacts!Outcome, Ram!Occupied
  <2> QED BY <1>1, <2>4
<1> QED BY <1>2, <1>3

(* Every cycle of the bench adds the model's next event to the trace, or     *)
(* none; on the last one the core is halted.                                 *)
LEMMA CycleShows ==
  ASSUME CheckersInv, CheckersInv', NoMisalignedCsr, NEW h, NEW K, Runs(h, job, K), Exact(h, K),
         NEW iopen \in BOOLEAN, NEW dopen \in BOOLEAN, Cycle(iopen, dopen)
  PROVE  Exact(h, K)'
<1> DEFINE rows == IF retiring THEN Append(tb.rows, RetiringEvent) ELSE tb.rows
           seen == tb.completion_seen \/ completion_response_now \/ completion_retires
           halt == verification_halt \/ completion_retires
<1>1. PICK e, irdy : CoreEdge(e, irdy, dopen, halt)
  <2>1. Tick(core_fetch_enable, iopen, dopen, halt)
    BY DEF Cycle
  <2>2. core_fetch_enable \in BOOLEAN
    BY DEF core_fetch_enable
  <2> HIDE DEF halt
  <2> QED BY <2>1, <2>2, TickIsEdge DEF CheckersInv, CpuInv
<1>2. CpuInv /\ ScoreInv /\ TypeOK' /\ Score!ScoreboardEdge(ScoreboardPins(dopen))
  BY DEF CheckersInv, CpuInv, Cycle, CheckersEdge
<1>3. verification_halt' <=> verification_halt \/ completion_retires
  BY <1>1 DEF CoreEdge
<1>4. /\ {"fetch_enable", "completion_seen", "finished", "rows", "expected_events"} \subseteq DOMAIN tb'
      /\ tb'.rows = rows /\ tb'.expected_events = tb.expected_events
      /\ tb'.completion_seen = seen
      /\ tb'.finished => Len(rows) = tb.expected_events /\ drained'
  <2>1. {"fetch_enable", "completion_seen", "finished", "rows", "expected_events"} \subseteq DOMAIN tb
    BY DEF Exact
  <2>2. tb' = [ tb EXCEPT
                !.fetch_enable = @ /\ ~completion_response_now /\ ~completion_retires,
                !.completion_seen = seen,
                !.rows = rows,
                !.finished = seen /\ Len(rows) = tb.expected_events /\ drained' ]
    BY DEF Cycle, Bench
  <2> HIDE DEF rows, seen
  <2> QED BY <2>1, <2>2
<1>5. tb'.finished => Score!idle'
  BY <1>4 DEF drained
<1>6. PICK n \in 0 .. K : n = Len(tb.rows) /\ tb.rows = h[n].events
  BY DEF Exact
<1>7. /\ tb.expected_events = K
      /\ ~verification_halt => n < K /\ Follows(h[n].state)
      /\ verification_halt => /\ n = K /\ tb.completion_seen
                              /\ rf = h[K].state.gpr /\ MemoryLeft(h[K].state.ram)
  BY <1>6 DEF Exact
<1>8. K \in Nat /\ K \in 0 .. K
  BY DEF Runs
<1>9. \A k \in 0 .. K : Len(h[k].events) = k
  BY DEF Runs
<1> HIDE DEF halt
<1>10. CASE verification_halt
  <2>1. rows = tb.rows
    BY <1>10 DEF retiring
  <2>2. rf' = rf
    BY <1>1, <1>10 DEF CoreEdge, RegFileEdge, wb_commit_we
  <2>3. MemoryLeft(h[K].state.ram)'
    BY <1>1, <1>2, <1>7, <1>10, HaltedMemory
  <2>4. verification_halt' /\ tb'.completion_seen /\ tb'.rows = tb.rows /\ tb'.expected_events = K
    BY <1>3, <1>4, <1>7, <1>10, <2>1
  <2> QED BY <1>4, <1>5, <1>6, <1>7, <1>10, <2>2, <2>3, <2>4 DEF Exact
<1>11. CASE ~verification_halt /\ ~MEM_WB.valid
  <2>1. rows = tb.rows /\ ~completion_retires
    BY <1>11 DEF retiring, completion_retires
  <2>2. h[n].state = AfterWb(h[n].state)
    BY <1>11 DEF AfterWb
  <2>3. ~verification_halt'
    BY <1>3, <1>11, <2>1
  <2>4. Follows(h[n].state)'
    BY <1>1, <1>2, <1>7, <1>11, <2>2, <2>3, FollowsStep
  <2>5. tb'.rows = tb.rows /\ tb'.expected_events = K
    BY <1>4, <1>7, <2>1
  <2>6. ~tb'.finished
    <3>1. tb'.finished => n = K
      BY <1>4, <1>6, <1>7, <2>1
    <3> QED BY <1>7, <1>8, <1>11, <3>1
  <2> QED BY <1>4, <1>6, <1>7, <1>11, <2>3, <2>4, <2>5, <2>6 DEF Exact
<1>12. CASE ~verification_halt /\ MEM_WB.valid
  <2> DEFINE s == h[n].state
             t == h[n + 1].state
  <2>1. n < K /\ Follows(s) /\ RetiringEvent = step_event(s)
    BY <1>7, <1>12 DEF Follows
  <2>2. n \in 0 .. K - 1 /\ n + 1 \in 0 .. K
    BY <1>6, <1>8, <2>1
  <2>3. /\ t = step(s) /\ h[n + 1].events = Append(h[n].events, step_event(s))
        /\ completed(h[n + 1], job.completion_pc) <=> step_event(s).pc = job.completion_pc
    <3>1. /\ h[n + 1] = [ state  |-> step(h[n].state),
                          events |-> Append(h[n].events, step_event(h[n].state)) ]
          /\ completed(h[n + 1], job.completion_pc) <=> step_event(h[n].state).pc = job.completion_pc
      BY <2>2, Zenon DEF Runs
    <3> QED BY <3>1
  <2>4. RetiringEvent.pc = MEM_WB.pc
    BY DEF RetiringEvent
  <2>5. completion_retires <=> n + 1 = K
    <3>1. completion_retires <=> completed(h[n + 1], job.completion_pc)
      BY <1>12, <2>1, <2>3, <2>4 DEF completion_retires, retiring
    <3>2. n + 1 # K => ~completed(h[n + 1], job.completion_pc)
      <4>1. n + 1 # K => n + 1 \in 0 .. K - 1
        BY <1>8, <2>2
      <4>2. \A k \in 0 .. K - 1 : ~completed(h[k], job.completion_pc)
        BY DEF Runs
      <4> QED BY <4>1, <4>2
    <3>3. n + 1 = K => completed(h[n + 1], job.completion_pc)
      BY DEF Runs
    <3> QED BY <3>1, <3>2, <3>3
  <2>6. t = AfterWb(s)
    BY <1>12, <2>3 DEF AfterWb
  <2>7. rows = h[n + 1].events /\ Len(rows) = n + 1
    BY <1>6, <1>9, <1>12, <2>1, <2>2, <2>3 DEF retiring
  <2> HIDE DEF rows, seen, s, t
  <2>8. CASE n + 1 # K
    <3>1. ~verification_halt'
      BY <1>3, <1>12, <2>5, <2>8
    <3>2. Follows(t)'
      BY <1>1, <1>2, <1>12, <2>1, <2>6, <3>1, FollowsStep
    <3>3. n + 1 < K /\ ~tb'.finished
      BY <1>4, <1>7, <1>8, <2>2, <2>7, <2>8
    <3> QED BY <1>4, <1>7, <2>2, <2>7, <3>1, <3>2, <3>3 DEF Exact, t
  <2>9. CASE n + 1 = K
    <3>1. verification_halt' /\ tb'.completion_seen
      BY <1>3, <1>4, <2>5, <2>9 DEF seen
    <3>2. rf' = t.gpr
      BY <1>1, <1>2, <1>12, <2>1, <2>6, RegsShown
    <3>3. dmem' = t.ram \/ sb'.request # None
      BY <1>1, <1>2, <1>12, <2>1, <2>6, HaltingMemory
    <3>4. MemoryLeft(t.ram)'
      BY <3>3 DEF MemoryLeft
    <3> QED BY <1>4, <1>5, <1>7, <1>8, <2>2, <2>7, <2>9, <3>1, <3>2, <3>4 DEF Exact, t
  <2> QED BY <2>8, <2>9
<1> QED BY <1>10, <1>11, <1>12

(* What a reset leaves follows the model from its own reset on. *)
FollowsReset == Follows(reset(imem, dmem))

(* It does: the reset state is the model's. *)
LEMMA FollowsClear == CpuInv /\ Cleared /\ Empty => FollowsReset
<1> SUFFICES ASSUME CpuInv, Cleared, Empty PROVE Follows(reset(imem, dmem))
  BY DEF FollowsReset
<1> DEFINE s == reset(imem, dmem)
<1>1. /\ ~EX_MEM.valid /\ ~MEM_WB.valid /\ rf = [r \in Reg |-> 0]
  BY DEF Cleared, NoMemory, NoWritten
<1>2. Reference!ResetState
  BY ClearedRefines DEF CpuInv
<1>3. ~PendingStore.valid /\ ~StorePending
  BY <1>1 DEF PendingStore, StorePending, exmem_external_mem
<1>4. Reference!State = s
  BY <1>2 DEF Reference!State, Reference!ResetState, reset, Reference!RESET_PC, RESET_PC,
              Reference!Reg, Reg
<1>5. Settled = s
  BY <1>3, <1>4 DEF Settled, reset
<1>6. AfterMem(s) = s /\ s.gpr = rf
  BY <1>1 DEF AfterMem, AfterWb, reset
<1> HIDE DEF s
<1>7. Follows(s)
  BY <1>1, <1>3, <1>5, <1>6 DEF Follows
<1> QED BY <1>7 DEF s

(* It is about the registers of the core and the memories alone. *)
LEMMA FollowsStutter ==
  ASSUME NEW s, Follows(s), UNCHANGED vars
  PROVE  Follows(s)'
<1> USE DEF vars, frontVars, backVars, csrVars, outVars, busVars
<1>1. ExecutePc' = ExecutePc
  BY DEF ExecutePc, NextIssue, FromBuffer, FromOutstanding, FromRequest, LiveRequest,
         LiveOutstanding
<1>2. /\ (ExMemWrites' <=> ExMemWrites) /\ ExMemValue' = ExMemValue
      /\ (exmem_external_mem' <=> exmem_external_mem) /\ (wb_commit_we' <=> wb_commit_we)
      /\ RetiringEvent' = RetiringEvent
  BY DEF ExMemWrites, ExMemValue, exmem_external_mem, exmem_result_value, exmem_csr_read,
         csr_rdata, retire_event, wb_commit_we, RetiringEvent
<1>3. ArchRegs' = ArchRegs
  BY <1>2 DEF ArchRegs
<1>4. ArchRetired' = ArchRetired
  BY DEF ArchRetired
<1>5. PendingStore' = PendingStore /\ (StorePending' <=> StorePending)
  BY <1>2 DEF PendingStore, StorePending
<1>6. ExMemEvent' = ExMemEvent
  BY <1>2 DEF ExMemEvent
<1>7. Settled' = Settled
  BY <1>1, <1>3, <1>4, <1>5 DEF Settled, Reference!State
<1>8. AfterWb(s)' = AfterWb(s) /\ AfterMem(s)' = AfterMem(s)
  BY DEF AfterWb, AfterMem
<1> HIDE DEF Settled
<1> QED BY <1>2, <1>5, <1>6, <1>7, <1>8 DEF Follows

(* The run that the bench's job is compared with. *)
RunInv ==
  /\ CheckersInv
  /\ \E j \in Jobs : \E K \in 1 .. MaxEvents :
       job = j /\ Runs(reference_run(j), j, K) /\ Exact(reference_run(j), K)

(* It begins as the model's run does, *)
LEMMA RunStarts == TbInit => RunInv
<1> SUFFICES ASSUME TbInit PROVE RunInv
  OBVIOUS
<1>1. AtReset /\ Cleared /\ Empty
  BY InitClear DEF TbInit, AtReset, Empty, Init, FrontInit, NoRequest, NoOutstanding, NoFetched
<1>2. CheckersInv
  BY <1>1, CheckersClear DEF TbInit
<1>3. PICK j \in Jobs : job = j
  BY DEF TbInit
<1>4. imem = j.program /\ dmem = j.ram
  BY <1>3 DEF TbInit
<1> DEFINE h == reference_run(j)
<1>5. PICK K : Runs(h, j, K)
  BY TbAssumption, RunCompletes
<1>6. K \in 1 .. MaxEvents /\ Len(h[K].events) = K /\ h[MaxEvents] = h[K] /\ h[0].events = <<>>
      /\ h[0].state = reset(imem, dmem) /\ MaxEvents \in Nat
  BY <1>4, <1>5, CheckerAssumption DEF Runs
<1>7. tb.expected_events = K /\ tb.rows = <<>> /\ tb.finished = FALSE
      /\ {"fetch_enable", "completion_seen", "finished", "rows", "expected_events"} \subseteq DOMAIN tb
  BY <1>3, <1>6 DEF TbInit, expected_until_completion
<1>8. Follows(h[0].state)
  BY <1>1, <1>2, <1>6, FollowsClear DEF CheckersInv, FollowsReset
<1>9. ~verification_halt /\ Len(<<>>) = 0
  BY <1>1 DEF Cleared
<1>10. Exact(h, K)
  BY <1>6, <1>7, <1>8, <1>9 DEF Exact
<1> QED BY <1>2, <1>3, <1>5, <1>6, <1>10 DEF RunInv

(* and goes on so.                                                           *)
LEMMA RunStep ==
  RunInv /\ NoMisalignedCsr /\ CheckersInv' /\ [TbNext]_tbVars => RunInv'
<1> SUFFICES ASSUME RunInv, NoMisalignedCsr, CheckersInv', [TbNext]_tbVars PROVE RunInv'
  OBVIOUS
<1>1. PICK j \in Jobs, K \in 1 .. MaxEvents :
        job = j /\ Runs(reference_run(j), j, K) /\ Exact(reference_run(j), K)
  BY DEF RunInv
<1> DEFINE h == reference_run(j)
<1>2. PICK g : g = h
  OBVIOUS
<1>3. job' = j
  BY <1>1 DEF TbNext, Cycle, tbVars
<1>4. Exact(g, K)'
  <2>1. CheckersInv /\ Runs(g, job, K) /\ Exact(g, K)
    BY <1>1, <1>2 DEF RunInv
  <2>2. ASSUME NEW iopen \in IGates, NEW dopen \in DGates, Cycle(iopen, dopen)
        PROVE  Exact(g, K)'
    <3>1. iopen \in BOOLEAN /\ dopen \in BOOLEAN
      BY CpuAssumption
    <3> QED BY <2>1, <2>2, <3>1, CycleShows
  <2>3. CASE UNCHANGED tbVars
    <3>1. tb' = tb /\ UNCHANGED vars /\ sb' = sb
      BY <2>3 DEF tbVars, monitoredVars
    <3>2. /\ verification_halt' = verification_halt /\ rf' = rf /\ dmem' = dmem
          /\ trace_valid' = trace_valid
      BY <3>1 DEF vars, backVars, busVars, outVars
    <3>3. \A s : Follows(s) => Follows(s)'
      BY <3>1, FollowsStutter
    <3> QED BY <2>1, <3>1, <3>2, <3>3 DEF Exact, MemoryLeft, Score!idle
  <2> QED BY <2>2, <2>3 DEF TbNext
<1>5. Exact(h, K)'
  BY <1>2, <1>4
<1> QED BY <1>1, <1>3, <1>5 DEF RunInv

(* RunPasses: whatever the waits, gates, predictions and the moment of the   *)
(* halt, no run ends on an extra event, and one that finishes has shown just *)
(* the reference model's events and left its registers and its memory, for   *)
(* every job and address map.  (An access that is both misaligned and inside *)
(* the CSR page would be shown with another cause than the model's.)         *)
THEOREM RunsPass == TbSpec /\ []NoMisalignedCsr => []RunPasses
<1>1. RunInv => RunPasses
  <2> SUFFICES ASSUME RunInv PROVE RunPasses
    OBVIOUS
  <2>1. PICK j \in Jobs, K \in 1 .. MaxEvents :
          job = j /\ Runs(reference_run(j), j, K) /\ Exact(reference_run(j), K)
    BY DEF RunInv
  <2> DEFINE h == reference_run(j)
             x == expected_until_completion(job)
  <2>2. /\ MaxEvents \in Nat /\ K \in Nat /\ K >= 1
        /\ x = h[K] /\ Len(h[K].events) = K
        /\ h[K].events # <<>> /\ h[K].events[K].pc = job.completion_pc
    <3>1. MaxEvents \in Nat /\ K \in Nat /\ K >= 1
      BY CheckerAssumption
    <3>2. completed(h[K], job.completion_pc) /\ x = h[K] /\ Len(h[K].events) = K
      BY <2>1, <3>1 DEF Runs, expected_until_completion
    <3> QED BY <3>1, <3>2 DEF completed
  <2> HIDE DEF h, x
  <2>3. ~extra_event
    BY <2>1, <2>2 DEF Exact, extra_event, retiring, h
  <2>4. ASSUME tb.finished
        PROVE  verify_run(x, tb.rows, FinalState, job.completion_pc) = "PASS"
    <3>1. /\ tb.rows = h[K].events /\ tb.completion_seen
          /\ rf = h[K].state.gpr /\ MemoryLeft(h[K].state.ram) /\ Score!idle
      BY <2>1, <2>4 DEF Exact, h
    <3>2. dmem = h[K].state.ram
      BY <3>1 DEF MemoryLeft, Score!idle
    <3>3. compare_trace(x, tb.rows, job.completion_pc) = "PASS"
      BY <2>2, <3>1 DEF compare_trace
    <3>4. compare_state(x, FinalState) = "PASS"
      BY <2>2, <3>1, <3>2 DEF compare_state, FinalState
    <3>5. FinalState.event_count = Len(tb.rows) /\ FinalState.completion_seen
      BY <3>1 DEF FinalState
    <3> QED BY <3>3, <3>4, <3>5 DEF verify_run
  <2> QED BY <2>3, <2>4 DEF RunPasses, x
<1> QED BY <1>1, RunStarts, RunStep, TbInvariance, PTL DEF TbSpec

(* With no such address there is no such access. *)
THEOREM AlignedRunsPass ==
  ASSUME Misaligned \intersect CsrPage = {}
  PROVE  TbSpec => []RunPasses
<1>1. NoMisalignedCsr
  BY DEF NoMisalignedCsr, ex_misaligned
<1> QED BY <1>1, RunsPass, PTL

-----------------------------------------------------------------------------
(* The end of a run.                                                         *)

(* When the core is halted, nothing is pending on the data bus, and of the   *)
(* old accesses only the one that is being shown is not forgotten.  A fetch  *)
(* the bus has not taken is there for one more cycle; when it is gone, so is *)
(* everything else.                                                          *)
HaltQuiet ==
  verification_halt =>
    /\ mon.dreq = None /\ ~Ram!Occupied
    /\ ~wb_memory /\ (~trace_mem_fire => sb.completion = None)
    /\ mon.ireq # None => if_req.present \/ tb.finished

(* With no access in MEM, the halting edge leaves it so.                     *)
LEMMA HaltingQuiet ==
  ASSUME CheckersInv, CheckersInv', NEW en \in BOOLEAN, NEW iopen \in BOOLEAN,
         NEW open \in BOOLEAN, NEW halt,
         CoreEdge(Driven(en), RomReady(en, iopen), open, halt),
         CheckersEdge(en, iopen, open),
         ~verification_halt, MEM_WB.valid, ~exmem_external_mem
  PROVE  /\ mon'.dreq = None /\ ~Ram!Occupied'
         /\ ~wb_memory' /\ (~trace_mem_fire' => sb'.completion = None)
         /\ mon'.ireq # None => if_req'.present
<1> DEFINE e == Driven(en)
           irdy == RomReady(en, iopen)
<1>1. /\ TypeOK /\ AtMostOneFetch /\ FrontTypeOK(Instr) /\ SoundWires(e, Instr)
      /\ FrontEdge(e, irdy) /\ MEM_WB' = NextMemWb /\ TraceEdge
      /\ e.halt <=> verification_halt
  BY DEF CoreEdge, CheckersInv, CpuInv, TypeOK
<1>2. /\ mon'.ireq = IF ibus_req_fire(e, irdy) THEN None
                     ELSE IF ibus_req_valid(e) THEN active_req(e).addr ELSE None
      /\ mon'.dreq = IF dbus_req_fire(open) THEN None
                     ELSE IF dbus_req_valid THEN dbus_access ELSE None
  BY DEF CheckersEdge, Watch!MonitorsEdge, Watch!Held, MonitorPins, Driven, RomReady
<1> HIDE DEF e, irdy
<1>3. ~dbus_req_valid /\ ~dbus_req_fire(open) /\ ~dbus_resp_fire
  BY DEF dbus_req_valid, dbus_req_fire, dbus_resp_fire, dbus_resp_ready
<1>4. ~Ram!Occupied'
  <2>1. ~Ram!Occupied
    BY DEF CheckersInv, CpuInv, DataOwnership
  <2>2. RamFacts!Outcome(dbus_req_fire(open), EX_MEM.alu, dbus_req_wdata, dbus_resp_ready)
    BY DEF CoreEdge
  <2>3. dslot.busy \in BOOLEAN /\ dslot.resp_valid \in BOOLEAN
    BY <1>1, AccessIsOne
  <2>4. dslot'.busy \in BOOLEAN /\ dslot'.resp_valid \in BOOLEAN
    BY DEF CoreEdge, Ram!Slot
  <2> QED BY <1>3, <2>1, <2>2, <2>3, <2>4 DEF RamFacts!Outcome, Ram!Occupied
<1>5. ~wb_memory'
  BY <1>1, <1>3, WritesBack
<1>6. trace_valid'
  BY <1>1, TraceShows
<1>7. ~trace_mem_fire' => sb'.completion = None
  BY <1>5, <1>6 DEF CheckersInv, ScoreInv, Completion, Dropped
<1>8. mon'.ireq # None => if_req'.present
  BY <1>1, <1>2, RequestKept
<1> QED BY <1>2, <1>3, <1>4, <1>5, <1>7, <1>8

(* The next edge empties the core, and a fetch that the bus still does not   *)
(* take is the only one.                                                     *)
LEMMA HaltedQuiet ==
  ASSUME CheckersInv, CheckersInv', NEW en \in BOOLEAN, NEW iopen \in BOOLEAN,
         NEW open \in BOOLEAN, NEW halt,
         CoreEdge(Driven(en), RomReady(en, iopen), open, halt),
         CheckersEdge(en, iopen, open), verification_halt, halt, HaltQuiet
  PROVE  /\ mon'.dreq = None /\ ~Ram!Occupied'
         /\ ~wb_memory' /\ sb'.completion = None
         /\ mon'.ireq # None => drained'
<1> DEFINE e == Driven(en)
           irdy == RomReady(en, iopen)
<1>1. /\ TypeOK /\ AtMostOneFetch /\ FrontTypeOK(Instr) /\ SoundWires(e, Instr)
      /\ FrontEdge(e, irdy) /\ MEM_WB' = NextMemWb /\ TraceEdge
      /\ e.halt /\ ~e.en /\ verification_halt'
  BY DEF CoreEdge, CheckersInv, CpuInv, TypeOK, SoundWires
<1>2. /\ mon'.ireq = IF ibus_req_fire(e, irdy) THEN None
                     ELSE IF ibus_req_valid(e) THEN active_req(e).addr ELSE None
      /\ mon'.dreq = IF dbus_req_fire(open) THEN None
                     ELSE IF dbus_req_valid THEN dbus_access ELSE None
      /\ Score!ScoreboardEdge(ScoreboardPins(open))
  BY DEF CheckersEdge, Watch!MonitorsEdge, Watch!Held, MonitorPins, Driven, RomReady
<1> HIDE DEF e, irdy
<1>3. ~dbus_req_valid /\ ~dbus_req_fire(open) /\ ~dbus_resp_fire
  BY DEF HaltQuiet, dbus_req_valid, dbus_req_fire, dbus_resp_fire, Ram!Occupied
<1>4. ~Ram!Occupied'
  <2>1. RamFacts!Outcome(dbus_req_fire(open), EX_MEM.alu, dbus_req_wdata, dbus_resp_ready)
    BY DEF CoreEdge
  <2>2. dslot.busy \in BOOLEAN /\ dslot.resp_valid \in BOOLEAN
    BY <1>1, AccessIsOne
  <2>3. dslot'.busy \in BOOLEAN /\ dslot'.resp_valid \in BOOLEAN
    BY DEF CoreEdge, Ram!Slot
  <2> QED BY <1>3, <2>1, <2>2, <2>3 DEF HaltQuiet, RamFacts!Outcome, Ram!Occupied
<1>5. ~wb_memory' /\ ~MEM_WB'.valid
  BY <1>1, <1>3, WritesBack
<1>6. sb'.completion = None
  <2>1. sb'.completion = IF trace_mem_fire THEN IF shown_access # None THEN None ELSE sb.completion
                         ELSE sb.completion
    BY <1>2, <1>3, ScoreMoves DEF CheckersInv
  <2>2. trace_mem_fire => sb.completion = shown_access
    BY DEF CheckersInv, ScoreInv, Completion, Dropped, HaltQuiet, trace_mem_fire
  <2> QED BY <2>1, <2>2 DEF HaltQuiet
<1>7. ASSUME mon'.ireq # None PROVE drained'
  <2>1. if_req.present /\ ~ibus_req_fire(e, irdy) /\ ~if_out.valid
    BY <1>1, <1>2, <1>7 DEF ibus_req_valid, turnover_offer, AtMostOneFetch
  <2>2. ~if_req'.present /\ ~if_out'.valid
    <3>1. if_req' = NextRequest(e, irdy) /\ if_out' = NextOutstanding(e, irdy)
      BY <1>1 DEF FrontEdge
    <3> QED BY <1>1, <2>1, <3>1 DEF NextRequest, NextOutstanding
  <2>3. ~if_buf'.valid /\ ~IF_ID'.valid
    <3>1. if_buf' = NextBuffer(e) /\ IF_ID' = NextIfId(e)
      BY <1>1 DEF FrontEdge
    <3> QED BY <1>1, <3>1 DEF NextBuffer, NextIfId, FrontTypeOK, Fetched
  <2>4. ~ID_EX'.valid /\ ~EX_MEM'.valid
    <3>1. ID_EX' = NextIdEx(e) /\ EX_MEM' = NextExMem(open)
      BY DEF CoreEdge, e
    <3> QED BY <1>1, <3>1 DEF NextIdEx, NextExMem, TypeOK, Decoded, Memory
  <2>5. core_idle'
    BY <1>5, <2>2, <2>3, <2>4 DEF core_idle
  <2>6. ~islot'.resp_valid
    BY <2>2 DEF CheckersInv, CpuInv, FetchOwnership, Rom!Occupied
  <2>7. buses_idle'
    BY <1>1, <1>4, <2>2, <2>6 DEF buses_idle, dbus_req_valid, Ram!Occupied
  <2>8. Score!idle'
    BY <1>4, <1>6 DEF CheckersInv, ScoreInv, Score!idle
  <2> QED BY <2>5, <2>7, <2>8 DEF drained
<1> QED BY <1>2, <1>3, <1>4, <1>5, <1>6, <1>7

(* The run of the bench, and its quiet end. *)
QuietInv == RunInv /\ HaltQuiet

(* The instruction behind the completion instruction accesses no memory. *)
LEMMA NothingBehind ==
  ASSUME NoAccessFollows, job \in Jobs, NEW K \in 1 .. MaxEvents, Runs(reference_run(job), job, K),
         Exact(reference_run(job), K), ~verification_halt, completion_retires
  PROVE  MEM_WB.valid /\ ~exmem_external_mem
<1> DEFINE h == reference_run(job)
<1>1. PICK n \in 0 .. K : n = Len(tb.rows) /\ n < K /\ Follows(h[n].state)
  BY DEF Exact
<1>2. n \in 0 .. K - 1 /\ MaxEvents \in Nat /\ K \in Nat
  BY <1>1, CheckerAssumption
<1>3. /\ h[n + 1] = [ state  |-> step(h[n].state),
                      events |-> Append(h[n].events, step_event(h[n].state)) ]
      /\ completed(h[n + 1], job.completion_pc) <=> step_event(h[n].state).pc = job.completion_pc
      /\ h[MaxEvents] = h[K]
  BY <1>2, Zenon DEF Runs
<1>4. \A k \in 0 .. K - 1 : ~completed(h[k], job.completion_pc)
  BY DEF Runs
<1> HIDE DEF h
<1>5. MEM_WB.valid /\ RetiringEvent.pc = MEM_WB.pc /\ MEM_WB.pc = job.completion_pc
  BY DEF completion_retires, retiring, RetiringEvent
<1>6. completed(h[n + 1], job.completion_pc)
  BY <1>1, <1>3, <1>5 DEF Follows
<1>7. n + 1 = K
  <2>1. n + 1 # K => n + 1 \in 0 .. K - 1
    BY <1>2
  <2> QED BY <1>4, <1>6, <2>1
<1>8. expected_until_completion(job).state = AfterWb(h[n].state)
  <2>1. expected_until_completion(job) = h[n + 1]
    BY <1>3, <1>7 DEF expected_until_completion, h
  <2> QED BY <1>3, <1>5, <2>1 DEF AfterWb
<1>9. ASSUME exmem_external_mem PROVE FALSE
  <2>1. ExMemEvent = step_event(expected_until_completion(job).state)
    BY <1>1, <1>8, <1>9 DEF Follows, exmem_external_mem
  <2>2. ExMemEvent.mem # "none" /\ ExMemEvent.addr \notin CsrPage
    BY <1>9 DEF ExMemEvent, exmem_external_mem
  <2> QED BY <2>1, <2>2 DEF NoAccessFollows
<1> QED BY <1>5, <1>9

(* Every step of the bench ends quietly.                                     *)
LEMMA QuietStep ==
  ASSUME NoAccessFollows, QuietInv, CheckersInv', [TbNext]_tbVars
  PROVE  HaltQuiet'
<1>1. PICK j \in Jobs, K \in 1 .. MaxEvents :
        job = j /\ Runs(reference_run(j), j, K) /\ Exact(reference_run(j), K)
  BY DEF QuietInv, RunInv
<1>2. CheckersInv /\ HaltQuiet /\ K \in Nat
  BY <1>1, CheckerAssumption DEF QuietInv, RunInv
<1>3. ASSUME NEW iopen \in IGates, NEW dopen \in DGates, Cycle(iopen, dopen)
      PROVE  HaltQuiet'
  <2> DEFINE en == core_fetch_enable
             halt == verification_halt \/ completion_retires
  <2>1. /\ iopen \in BOOLEAN /\ dopen \in BOOLEAN /\ en \in BOOLEAN
        /\ Tick(en, iopen, dopen, halt) /\ CheckersEdge(en, iopen, dopen) /\ ~tb.finished
    BY <1>3, CpuAssumption DEF Cycle, core_fetch_enable
  <2> HIDE DEF en, halt
  <2>2. CoreEdge(Driven(en), RomReady(en, iopen), dopen, halt)
    BY <1>2, <2>1, TickIsEdge DEF CheckersInv, CpuInv
  <2>3. verification_halt' = halt
    BY <2>2 DEF CoreEdge
  <2>4. CASE verification_halt
    <3>1. halt
      BY <2>4 DEF halt
    <3>2. /\ mon'.dreq = None /\ ~Ram!Occupied'
          /\ ~wb_memory' /\ sb'.completion = None
          /\ mon'.ireq # None => drained'
      BY <1>2, <2>1, <2>2, <2>4, <3>1, HaltedQuiet
    <3>3. drained' => tb'.finished
      <4>1. /\ {"fetch_enable", "completion_seen", "finished", "rows", "expected_events"} \subseteq DOMAIN tb
            /\ tb.expected_events = K /\ tb.completion_seen /\ Len(tb.rows) = K /\ ~retiring
        BY <1>1, <2>4 DEF Exact, retiring
      <4> QED BY <1>3, <4>1 DEF Cycle, Bench
    <3> QED BY <3>2, <3>3 DEF HaltQuiet
  <2>5. CASE ~verification_halt /\ completion_retires
    <3>1. MEM_WB.valid /\ ~exmem_external_mem
      BY <1>1, <2>5, NothingBehind
    <3>2. /\ mon'.dreq = None /\ ~Ram!Occupied'
          /\ ~wb_memory' /\ (~trace_mem_fire' => sb'.completion = None)
          /\ mon'.ireq # None => if_req'.present
      BY <1>2, <2>1, <2>2, <2>5, <3>1, HaltingQuiet
    <3> QED BY <3>2 DEF HaltQuiet
  <2>6. CASE ~verification_halt /\ ~completion_retires
    BY <2>3, <2>6 DEF HaltQuiet, halt
  <2> QED BY <2>4, <2>5, <2>6
<1>4. CASE UNCHANGED tbVars
  <2>1. /\ sb' = sb /\ mon' = mon /\ tb' = tb /\ UNCHANGED vars
    BY <1>4 DEF tbVars, monitoredVars
  <2>2. /\ if_req' = if_req /\ MEM_WB' = MEM_WB /\ dslot' = dslot
        /\ trace_valid' = trace_valid /\ trace' = trace /\ verification_halt' = verification_halt
    BY <2>1 DEF vars, frontVars, backVars, outVars, busVars
  <2> QED BY <1>2, <2>1, <2>2 DEF HaltQuiet, wb_memory, trace_mem_fire, Ram!Occupied
<1> QED BY <1>3, <1>4 DEF TbNext

(* MonitorsQuiet: where no access follows the completion instruction, no     *)
(* monitor fails, whatever the waits, gates and predictions: the halt finds  *)
(* the data bus at rest, and the fetch it withdraws is gone on the very edge *)
(* on which everything has drained and the bench finishes.                   *)
THEOREM MonitorsSilent ==
  ASSUME NoAccessFollows
  PROVE  TbSpec /\ []NoMisalignedCsr => []MonitorsQuiet
<1>1. QuietInv => MonitorsQuiet
  <2> SUFFICES ASSUME QuietInv, NEW iopen \in IGates, NEW dopen \in DGates, ~tb.finished,
                      Watch!MonitorsFail(MonitorPins(core_fetch_enable, iopen, dopen))
               PROVE  FALSE
    BY DEF MonitorsQuiet
  <2> DEFINE w == MonitorPins(core_fetch_enable, iopen, dopen)
  <2>1. core_fetch_enable \in BOOLEAN /\ CheckersInv /\ HaltQuiet
    BY DEF core_fetch_enable, QuietInv, RunInv
  <2>2. verification_halt /\ Withdrawn(w)
    BY <2>1, MonitorSilent DEF CheckersInv, ScoreInv
  <2>3. mon.ireq # None => if_req.present /\ if_req.addr = mon.ireq
    BY <2>1, <2>2 DEF HaltQuiet, CheckersInv, MonitorInv
  <2>4. mon.ireq # None => w.ireq = mon.ireq
    BY <2>3 DEF MonitorPins, ibus_req_valid, active_req
  <2> QED BY <2>1, <2>2, <2>4 DEF HaltQuiet, Withdrawn
<1>2. TbInit => QuietInv
  <2>1. TbInit => RunInv
    BY RunStarts
  <2>2. TbInit => ~verification_halt
    BY DEF TbInit, Init
  <2> QED BY <2>1, <2>2 DEF QuietInv, HaltQuiet
<1>3. QuietInv /\ NoMisalignedCsr /\ CheckersInv' /\ [TbNext]_tbVars => QuietInv'
  <2>1. QuietInv /\ NoMisalignedCsr /\ CheckersInv' /\ [TbNext]_tbVars => RunInv'
    BY RunStep DEF QuietInv
  <2>2. QuietInv /\ CheckersInv' /\ [TbNext]_tbVars => HaltQuiet'
    BY QuietStep
  <2> QED BY <2>1, <2>2 DEF QuietInv
<1> QED BY <1>1, <1>2, <1>3, TbInvariance, PTL DEF TbSpec

(* With no misaligned address in the CSR page, of every run.                 *)
THEOREM AlignedMonitorsSilent ==
  ASSUME NoAccessFollows, Misaligned \intersect CsrPage = {}
  PROVE  TbSpec => []MonitorsQuiet
<1>1. NoMisalignedCsr
  BY DEF NoMisalignedCsr, ex_misaligned
<1> QED BY <1>1, MonitorsSilent, PTL
================================================================================
