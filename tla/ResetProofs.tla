------------------------------ MODULE ResetProofs ------------------------------
(* The warm-reset bench, for every work and restart program that runs        *)
(* straight on, every latency and every scenario: the reset meets the access *)
(* in the phase the scenario is named for and leaves nothing of the old work,*)
(* a store is in memory just if it was answered, no checker fails, and the   *)
(* restart program then runs exactly as it would alone.                      *)
EXTENDS TbCoreReset, BenchProofs

-----------------------------------------------------------------------------
(* The warm-reset bench.                                                     *)
RunFields == {"scenario", "memory_wait", "phase", "edges", "fetch_enable",
              "pre_events", "post_events", "post_ireqs"}

RunShape ==
  /\ DOMAIN run = RunFields
  /\ run.memory_wait \in MemoryWaits /\ run.fetch_enable \in BOOLEAN

(* Nothing is in flight, on either bus, in the pipeline or in the checkers,  *)
Idle ==
  /\ ~if_req.present /\ ~if_out.valid /\ ~if_buf.valid /\ ~IF_ID.valid
  /\ ~ID_EX.valid /\ ~EX_MEM.valid /\ ~EX_MEM.accepted /\ ~MEM_WB.valid
  /\ ~Rom!Occupied /\ ~Ram!Occupied /\ Score!idle

(* and nothing is left of what was.                                          *)
Cold == Idle /\ ~trace_valid /\ \A r \in Reg : rf[r] = 0

ResetBenchInv ==
  /\ CheckersInv /\ RunShape /\ ~verification_halt
  /\ run.phase \in {"reset", "quiet"} => Cold /\ ~run.fetch_enable
  /\ run.phase = "reset" => AtReset

(* With fetching off, an edge stirs nothing. *)
LEMMA IdleStays ==
  ASSUME CheckersInv, Idle, ~verification_halt, NEW iopen \in BOOLEAN, NEW open \in BOOLEAN,
         Tick(FALSE, iopen, open, FALSE), CheckersEdge(FALSE, iopen, open)
  PROVE  Idle' /\ ~trace_valid' /\ rf' = rf
<1> DEFINE e == Driven(FALSE)
           irdy == RomReady(FALSE, iopen)
<1>1. CpuInv /\ TypeOK
  BY DEF CheckersInv, CpuInv
<1>2. CoreEdge(e, irdy, open, FALSE)
  BY <1>1, TickIsEdge DEF CpuInv
<1>3. ~e.en /\ ~e.halt
  BY DEF Driven, Wires
<1> HIDE DEF e, irdy
<1>4. /\ ~ibus_resp_ready(e) /\ ~ibus_resp_fire(e) /\ ~ibus_req_valid(e)
      /\ ~ibus_req_fire(e, irdy) /\ ~latch_request(e, irdy) /\ ~fill_buffer(e)
      /\ ~ifbuf_to_ifid(e) /\ ~ifid_to_idex(e)
  BY <1>3 DEF Idle, ibus_resp_ready, ibus_resp_fire, ibus_req_valid, turnover_offer,
              ibus_req_fire, latch_request, fetch_can_launch, fill_buffer, ifbuf_to_ifid, ifid_to_idex
<1>5. ~if_req'.present /\ ~if_out'.valid /\ ~if_buf'.valid /\ ~IF_ID'.valid
  <2>1. /\ if_req' = NextRequest(e, irdy) /\ if_out' = NextOutstanding(e, irdy)
        /\ if_buf' = NextBuffer(e) /\ IF_ID' = NextIfId(e)
        /\ if_buf \in Fetched(Instr) /\ IF_ID \in Fetched(Instr)
    BY <1>1, <1>2 DEF CoreEdge, FrontEdge, TypeOK, FrontTypeOK
  <2>2. ~if_req'.present
    BY <1>4, <2>1 DEF NextRequest, Idle
  <2>3. ~if_out'.valid
    BY <1>4, <2>1 DEF NextOutstanding, Idle
  <2>4. ~if_buf'.valid
    BY <1>4, <2>1 DEF NextBuffer, Idle, Fetched
  <2>5. ~IF_ID'.valid
    BY <1>4, <2>1 DEF NextIfId, Idle, Fetched
  <2> QED BY <2>2, <2>3, <2>4, <2>5
<1>6. /\ ~exmem_external_mem /\ ~dbus_req_fire(open) /\ ~dbus_resp_fire /\ ~dbus_resp_ready
      /\ ~idex_fire /\ ~exmem_complete /\ ~wb_commit_we /\ exmem_can_accept
  BY DEF Idle, exmem_external_mem, dbus_req_fire, dbus_req_valid, dbus_resp_fire, dbus_resp_ready,
         idex_fire, exmem_complete, wb_commit_we, exmem_can_accept
<1>7. /\ ~ID_EX'.valid /\ ~EX_MEM'.valid /\ ~EX_MEM'.accepted /\ ~MEM_WB'.valid
      /\ ~trace_valid' /\ rf' = rf
  <2>1. /\ ID_EX' = NextIdEx(e) /\ EX_MEM' = NextExMem(open) /\ MEM_WB' = NextMemWb
        /\ TraceEdge /\ RegFileEdge
        /\ ID_EX \in Decoded /\ EX_MEM \in Memory /\ MEM_WB \in Written
    BY <1>1, <1>2 DEF CoreEdge, TypeOK
  <2>2. ~ID_EX'.valid
    <3>1. idex_slot_available
      BY DEF Idle, idex_slot_available
    <3> QED BY <1>4, <2>1, <3>1 DEF NextIdEx, Decoded
  <2>3. ~EX_MEM'.valid /\ ~EX_MEM'.accepted
    BY <1>6, <2>1 DEF NextExMem, Memory
  <2>4. ~MEM_WB'.valid
    BY <1>6, <2>1 DEF NextMemWb, Written
  <2>5. ~trace_valid'
    BY <2>1 DEF TraceEdge, Idle
  <2> QED BY <1>6, <2>1, <2>2, <2>3, <2>4, <2>5 DEF RegFileEdge
<1>8. ~Rom!Occupied' /\ ~Ram!Occupied'
  <2>1. /\ islot.busy \in BOOLEAN /\ islot.resp_valid \in BOOLEAN
        /\ islot'.busy \in BOOLEAN /\ islot'.resp_valid \in BOOLEAN
        /\ dslot.busy \in BOOLEAN /\ dslot.resp_valid \in BOOLEAN
        /\ dslot'.busy \in BOOLEAN /\ dslot'.resp_valid \in BOOLEAN
    BY <1>1, <1>2 DEF CoreEdge, TypeOK, Rom!Slot, Ram!Slot
  <2>2. ~islot.busy /\ ~islot.resp_valid /\ ~dslot.busy /\ ~dslot.resp_valid
    BY DEF Idle, Rom!Occupied, Ram!Occupied
  <2>3. /\ RomFacts!Outcome(ibus_req_fire(e, irdy), active_req(e).addr, NoWrite, ibus_resp_ready(e))
        /\ RamFacts!Outcome(dbus_req_fire(open), EX_MEM.alu, dbus_req_wdata, dbus_resp_ready)
    BY <1>2 DEF CoreEdge
  <2>4. ~islot'.busy /\ ~islot'.resp_valid
    BY <1>4, <2>1, <2>2, <2>3 DEF RomFacts!Outcome
  <2>5. ~dslot'.busy /\ ~dslot'.resp_valid
    BY <1>6, <2>1, <2>2, <2>3 DEF RamFacts!Outcome
  <2> QED BY <2>4, <2>5 DEF Rom!Occupied, Ram!Occupied
<1>9. Score!idle'
  BY <1>6 DEF CheckersEdge, Score!ScoreboardEdge, Score!NextCompletion, ScoreboardPins,
              Score!idle, Idle
<1> QED BY <1>5, <1>7, <1>8, <1>9 DEF Idle

(* A memory that always draws the same wait is one that may draw it. *)
LEMMA ClockWaits ==
  ASSUME NEW en, NEW iopen, NEW dopen, NEW halt, NEW iwait \in 0 .. IWaitMax,
         NEW dwait \in 0 .. DWaitMax, Clock(en, iopen, dopen, {iwait}, {dwait}, halt)
  PROVE  Tick(en, iopen, dopen, halt)
<1> DEFINE e    == Wires(en /\ ~verification_halt)
           irdy == iopen /\ Rom!req_ready(ibus_resp_ready(e))
           rom(wait) == Rom!SlaveEdge(ibus_req_fire(e, irdy), active_req(e).addr,
                                      NoWrite, ibus_resp_ready(e), wait)
           ram(wait) == Ram!SlaveEdge(dbus_req_fire(dopen), EX_MEM.alu, dbus_req_wdata,
                                      dbus_resp_ready, wait)
           others == /\ FrontEdge(e, irdy)
                     /\ BpuEdge(idex_fire /\ branch(ID_EX.instr) /\ ~ex_trap, ID_EX.pc,
                                taken(ID_EX.instr, fwdA, fwdB), ID_EX.instr.target)
                     /\ ID_EX' = NextIdEx(e)
                     /\ EX_MEM' = NextExMem(dopen)
                     /\ MEM_WB' = NextMemWb
                     /\ RegFileEdge /\ CsrEdge /\ TraceEdge
                     /\ dheld' = IF dbus_req_valid /\ ~dbus_req_fire(dopen)
                                   THEN [valid |-> TRUE, addr |-> EX_MEM.alu, data |-> dbus_req_wdata]
                                   ELSE NoneHeld
                     /\ verification_halt' = halt
<1>1. others /\ (\E wait \in {iwait} : rom(wait)) /\ (\E wait \in {dwait} : ram(wait))
  BY DEF Clock
<1>2. ASSUME others, \E wait \in 0 .. IWaitMax : rom(wait), \E wait \in 0 .. DWaitMax : ram(wait)
      PROVE  Tick(en, iopen, dopen, halt)
  BY <1>2 DEF Tick, Clock
<1> HIDE DEF others, rom, ram
<1> QED BY <1>1, <1>2

(* An edge of this bench is one of Cpu's and of the checkers'. *)
LEMMA BenchEdge ==
  ASSUME ResetBenchInv, Edge(run.fetch_enable)
  PROVE  /\ CheckersInv' /\ ~verification_halt'
         /\ Idle /\ ~run.fetch_enable => Idle' /\ ~trace_valid' /\ rf' = rf
<1> DEFINE en == run.fetch_enable
<1>1. /\ CheckersInv /\ ~verification_halt /\ run.fetch_enable \in BOOLEAN
      /\ run.memory_wait \in 0 .. IWaitMax /\ run.memory_wait \in 0 .. DWaitMax
  <2>1. MemoryWaits \subseteq Nat /\ \A w \in MemoryWaits : w <= IWaitMax /\ w <= DWaitMax
    BY ResetAssumption
  <2>2. IWaitMax \in Nat /\ DWaitMax \in Nat
    BY CpuAssumption
  <2>3. /\ CheckersInv /\ ~verification_halt /\ run.fetch_enable \in BOOLEAN
        /\ run.memory_wait \in MemoryWaits
    BY DEF ResetBenchInv, RunShape
  <2>4. \A w \in MemoryWaits : w \in 0 .. IWaitMax /\ w \in 0 .. DWaitMax
    BY <2>1, <2>2
  <2> QED BY <2>3, <2>4
<1>2. ib_allow \in BOOLEAN /\ db_allow \in BOOLEAN
  BY DEF ib_allow, db_allow
<1>3. Tick(en, ib_allow, db_allow, FALSE) /\ CheckersEdge(en, ib_allow, db_allow)
  BY <1>1, ClockWaits DEF Edge
<1>4. verification_halt' = FALSE
  BY <1>3 DEF Tick, Clock
<1>5. CheckersInv'
  BY <1>1, <1>2, <1>3, CheckersStep
<1>6. ASSUME Idle, ~en PROVE Idle' /\ ~trace_valid' /\ rf' = rf
  <2>1. en = FALSE
    BY <1>1, <1>6
  <2> QED BY <1>1, <1>2, <1>3, <1>6, <2>1, IdleStays
<1> QED BY <1>4, <1>5, <1>6

(* The bench starts clear, *)
LEMMA BenchStarts == BenchInit => ResetBenchInv
<1> SUFFICES ASSUME BenchInit PROVE ResetBenchInv
  OBVIOUS
<1>1. AtReset
  BY InitClear DEF BenchInit
<1>2. CheckersInv /\ ~verification_halt
  BY <1>1, CheckersClear DEF BenchInit, AtReset, Cleared
<1>3. RunShape /\ run.phase = "work"
  BY DEF BenchInit, RunShape, RunFields
<1> QED BY <1>2, <1>3 DEF ResetBenchInv

(* and a reset of core, memories and checkers clears all that was under way. *)
LEMMA ResetCold ==
  ASSUME CpuInv, Reset, CheckersReset
  PROVE  CheckersInv' /\ Cold' /\ AtReset' /\ ~verification_halt'
<1>1. AtReset'
  BY ResetClears
<1>2. CheckersInit'
  BY DEF CheckersReset, CheckersInit, Score!ResetScoreboard, Watch!ResetMonitors
<1>3. CheckersInv'
  BY <1>1, <1>2, CheckersClear, PTL
<1>4. /\ if_req' = NoRequest /\ if_out' = NoOutstanding
      /\ if_buf' = NoFetched(Nop) /\ IF_ID' = NoFetched(Nop)
      /\ ID_EX' = NoDecoded /\ EX_MEM' = NoMemory /\ MEM_WB' = NoWritten
      /\ trace_valid' = FALSE /\ rf' = [r \in Reg |-> 0] /\ verification_halt' = FALSE
      /\ islot' = Rom!ResetSlot /\ dslot' = Ram!ResetSlot
  BY DEF Reset, FrontReset, ResetSlaves
<1>5. ~if_req'.present /\ ~if_out'.valid /\ ~if_buf'.valid /\ ~IF_ID'.valid
  BY <1>4 DEF NoRequest, NoOutstanding, NoFetched
<1>6. ~ID_EX'.valid /\ ~EX_MEM'.valid /\ ~EX_MEM'.accepted /\ ~MEM_WB'.valid
  BY <1>4 DEF NoDecoded, NoMemory, NoWritten
<1>7. ~Rom!Occupied' /\ ~Ram!Occupied'
  BY <1>4 DEF Rom!Occupied, Ram!Occupied, Rom!ResetSlot, Ram!ResetSlot
<1>8. Score!idle'
  BY DEF CheckersReset, Score!ResetScoreboard, Score!idle
<1> QED BY <1>1, <1>3, <1>4, <1>5, <1>6, <1>7, <1>8 DEF Cold, Idle

(* Loading the next program into a ROM nobody has fetched from is harmless.  *)
LEMMA LoadHarmless ==
  ASSUME ResetBenchInv, LoadRestart
  PROVE  CheckersInv' /\ Cold' /\ ~verification_halt'
<1>1. CheckersInv /\ Cold /\ AtReset /\ ~verification_halt
  BY DEF ResetBenchInv, LoadRestart
<1>2. imem' = RestartWork /\ RestartWork \in [Pc -> Instr]
  BY ResetAssumption, CpuAssumption DEF LoadRestart
<1>3. /\ fetch_pc' = fetch_pc /\ if_req' = if_req /\ if_out' = if_out /\ if_buf' = if_buf
      /\ IF_ID' = IF_ID /\ bht' = bht /\ btb' = btb
      /\ ID_EX' = ID_EX /\ EX_MEM' = EX_MEM /\ MEM_WB' = MEM_WB /\ rf' = rf
      /\ instret' = instret /\ epc' = epc /\ cause' = cause
      /\ trace_valid' = trace_valid /\ trace' = trace /\ event_order_count' = event_order_count
      /\ islot' = islot /\ dslot' = dslot /\ dmem' = dmem
      /\ verification_halt' = verification_halt /\ dheld' = dheld /\ sb' = sb /\ mon' = mon
  BY DEF LoadRestart, frontVars, bpuVars, backVars, csrVars, outVars
<1>4. Cold'
  BY <1>1, <1>3 DEF Cold, Idle, Rom!Occupied, Ram!Occupied, Score!idle
<1>5. AtReset'
  <2>1. FrontInv(Instr)'
    BY <1>1, <1>3 DEF AtReset, FrontInv, FrontTypeOK, AtMostOneFetch, Walk, LiveRequest,
         LiveOutstanding, FromRequest, FromOutstanding, FromBuffer
  <2>2. WordsOf(imem)'
    BY <1>1, <1>3 DEF Cold, Idle, WordsOf
  <2>3. Cleared'
    BY <1>1, <1>3 DEF AtReset, Cleared, Rom!ResetSlot, Ram!ResetSlot
  <2> QED BY <1>1, <1>2, <1>3, <2>1, <2>2, <2>3 DEF AtReset
<1>6. CpuInv'
  BY <1>5, ClearedInv, PTL
<1>7. ScoreInv'
  BY <1>1, <1>3 DEF CheckersInv, ScoreInv, AcceptedOccupies, exmem_external_mem, dbus_req_wdata,
       Ram!Occupied, slot_access, OneAnswered, wb_memory, trace_mem_fire, Completion, Dropped,
       wb_access, shown_access, TrapAlone
<1>8. MonitorInv'
  BY <1>1, <1>3 DEF CheckersInv, MonitorInv
<1> QED BY <1>1, <1>3, <1>4, <1>6, <1>7, <1>8 DEF CheckersInv

(* The invariant holds on the warm-reset bench. *)
LEMMA ResetBenchInvariance == ResetBenchSpec => []ResetBenchInv
<1>1. ResetBenchInv /\ [BenchNext]_resetBenchVars => ResetBenchInv'
  <2> SUFFICES ASSUME ResetBenchInv, [BenchNext]_resetBenchVars PROVE ResetBenchInv'
    OBVIOUS
  <2>1. /\ CheckersInv /\ RunShape /\ ~verification_halt
        /\ run.phase \in {"reset", "quiet"} => Cold /\ ~run.fetch_enable
    BY DEF ResetBenchInv
  <2>2. CASE Work
    <3>1. RunShape' /\ run'.phase = "work"
      BY <2>1, <2>2 DEF Work, RunShape, RunFields, pre_reset
    <3> QED BY <2>2, <3>1, BenchEdge DEF Work, ResetBenchInv
  <2>3. CASE WarmReset
    <3>1. RunShape' /\ run'.phase = "reset" /\ ~run'.fetch_enable
      BY <2>1, <2>3 DEF WarmReset, RunShape, RunFields
    <3>2. CheckersInv' /\ Cold' /\ AtReset' /\ ~verification_halt'
      BY <2>1, <2>3, ResetCold DEF WarmReset, CheckersInv
    <3> QED BY <3>1, <3>2 DEF ResetBenchInv
  <2>4. CASE LoadRestart
    <3>1. RunShape' /\ run'.phase = "quiet" /\ ~run'.fetch_enable
      BY <2>1, <2>4 DEF LoadRestart, RunShape, RunFields
    <3> QED BY <2>4, <3>1, LoadHarmless DEF ResetBenchInv
  <2>5. CASE Quiet
    <3>1. /\ RunShape' /\ run'.phase = run.phase /\ run'.fetch_enable = run.fetch_enable
          /\ run.phase \in {"quiet", "drained"}
      BY <2>1, <2>5 DEF Quiet, RunShape, RunFields
    <3>2. CheckersInv' /\ ~verification_halt' /\ (Cold /\ ~run.fetch_enable => Cold')
      BY <2>5, BenchEdge DEF Quiet, Cold
    <3> QED BY <2>1, <3>1, <3>2 DEF ResetBenchInv
  <2>6. CASE Restart
    <3>1. RunShape' /\ run'.phase = "restart"
      BY <2>1, <2>6 DEF Restart, RunShape, RunFields
    <3> QED BY <2>6, <3>1, BenchEdge DEF Restart, ResetBenchInv
  <2>7. CASE Recover \/ Drained \/ Done
    <3>1. RunShape' /\ run'.phase \in {"restart", "drained", "done"} /\ UNCHANGED monitoredVars
      BY <2>1, <2>7 DEF Recover, Drained, Done, RunShape, RunFields
    <3>2. CheckersInv' /\ ~verification_halt'
      BY <2>1, <3>1, CheckersStutter DEF monitoredVars, vars
    <3> QED BY <3>1, <3>2 DEF ResetBenchInv
  <2>8. CASE UNCHANGED resetBenchVars
    <3>1. run' = run /\ UNCHANGED monitoredVars
      BY <2>8 DEF resetBenchVars
    <3>2. CheckersInv'
      BY <2>1, <3>1, CheckersStutter
    <3>3. /\ UNCHANGED <<frontVars, bpuVars, backVars, csrVars, outVars, busVars>>
          /\ verification_halt' = verification_halt /\ dheld' = dheld /\ sb' = sb
      BY <3>1 DEF monitoredVars, vars
    <3>4. Cold => Cold'
      BY <3>3 DEF Cold, Idle, Rom!Occupied, Ram!Occupied, Score!idle, frontVars, backVars, outVars, busVars
    <3>5. AtReset => AtReset'
      BY <3>3 DEF AtReset, Cleared, FrontInv, FrontTypeOK, AtMostOneFetch, Walk, WordsOf,
           LiveRequest, LiveOutstanding, FromRequest, FromOutstanding, FromBuffer, Rom!ResetSlot,
           Ram!ResetSlot, frontVars, bpuVars, backVars, csrVars, outVars, busVars
    <3> QED BY <2>1, <3>1, <3>2, <3>3, <3>4, <3>5 DEF ResetBenchInv, RunShape
  <2> QED BY <2>2, <2>3, <2>4, <2>5, <2>6, <2>7, <2>8 DEF BenchNext
<1> QED BY <1>1, BenchStarts, PTL DEF ResetBenchSpec

(* OwnershipClear: from the reset until fetching starts again, no request,   *)
(* response, instruction, event or register value of the old work is left or *)
(* turns up, for every program, wait, scenario and moment of the reset.      *)
THEOREM OwnershipCleared == ResetBenchSpec => []OwnershipClear
<1>1. ResetBenchInv => OwnershipClear
  <2> SUFFICES ASSUME ResetBenchInv, run.phase \in {"reset", "quiet"}
               PROVE  /\ ~Watch!ResetFails(MonitorPins(run.fetch_enable, ib_allow, db_allow))
                      /\ NothingOwned /\ \A r \in Reg : rf[r] = 0
    BY DEF OwnershipClear
  <2>1. Cold
    BY DEF ResetBenchInv
  <2>2. /\ ~dbus_req_valid /\ ~dbus_resp_ready /\ core_idle
        /\ \A e : ~ibus_resp_ready(e) /\ ~ibus_req_valid(e)
    BY <2>1 DEF Cold, Idle, dbus_req_valid, dbus_resp_ready, exmem_external_mem, core_idle,
                ibus_resp_ready, ibus_req_valid, turnover_offer, ibus_resp_fire
  <2>3. NothingOwned /\ \A r \in Reg : rf[r] = 0
    BY <2>1, <2>2 DEF Cold, Idle, NothingOwned
  <2>4. ~Watch!ResetFails(MonitorPins(run.fetch_enable, ib_allow, db_allow))
    BY <2>1, <2>2 DEF Cold, Idle, Watch!ResetFails, MonitorPins
  <2> QED BY <2>3, <2>4
<1> QED BY <1>1, ResetBenchInvariance, PTL

(* No checker ends a simulation on this bench: its edges are never stopped.  *)
CheckersPass ==
  /\ ~Score!ScoreboardFails(ScoreboardPins(db_allow))
  /\ ~Watch!MonitorsFail(MonitorPins(run.fetch_enable, ib_allow, db_allow))

(* CheckersPass: neither the scoreboard nor a monitor fails before, after or *)
(* because of the reset.                                                     *)
THEOREM ResetCheckersPass == ResetBenchSpec => []CheckersPass
<1>1. ResetBenchInv => CheckersPass
  <2> SUFFICES ASSUME ResetBenchInv PROVE CheckersPass
    OBVIOUS
  <2>1. /\ CpuInv /\ ScoreInv /\ MonitorInv /\ TrapAlone /\ ~verification_halt
        /\ run.fetch_enable \in BOOLEAN
    BY DEF ResetBenchInv, CheckersInv, ScoreInv, RunShape
  <2>2. db_allow \in BOOLEAN
    BY DEF db_allow
  <2> QED BY <2>1, <2>2, ScoreSilent, MonitorSilent DEF CheckersPass
<1> QED BY <1>1, ResetBenchInvariance, PTL

-----------------------------------------------------------------------------
(* The programs of the warm-reset bench run straight through.                *)

(* The events of a run of the reference model are those of its steps, *)
LEMMA RunEvents ==
  ASSUME NEW h, NEW j, NEW K, Runs(h, j, K)
  PROVE  \A n \in 0 .. K : /\ DOMAIN h[n].events = 1 .. n
                           /\ \A i \in 1 .. n : h[n].events[i] = step_event(h[i - 1].state)
<1> DEFINE E == {step_event(h[n].state) : n \in 0 .. K - 1}
           P(n) == /\ h[n].events \in Seq(E) /\ Len(h[n].events) = n
                   /\ \A i \in 1 .. n : h[n].events[i] = step_event(h[i - 1].state)
           S == {n \in Nat : n <= K => P(n)}
<1>1. K \in Nat /\ h[0].events = <<>>
  BY DEF Runs
<1>2. P(0)
  <2> HIDE DEF E
  <2>1. h[0].events \in Seq(E) /\ Len(h[0].events) = 0
    BY <1>1
  <2> QED BY <2>1
<1>3. ASSUME NEW n \in Nat, n \in S PROVE n + 1 \in S
  <2> SUFFICES ASSUME n + 1 <= K PROVE P(n + 1)
    OBVIOUS
  <2>1. n \in 0 .. K - 1 /\ n <= K
    BY <1>1
  <2>2. step_event(h[n].state) \in E /\ P(n)
    BY <1>3, <2>1
  <2>3. h[n + 1].events = Append(h[n].events, step_event(h[n].state))
    <3>1. h[n + 1] = [ state  |-> step(h[n].state),
                       events |-> Append(h[n].events, step_event(h[n].state)) ]
      BY <2>1, Zenon DEF Runs
    <3> QED BY <3>1
  <2> HIDE DEF E
  <2>4. PICK q, v : q = h[n].events /\ v = step_event(h[n].state)
    OBVIOUS
  <2>5. q \in Seq(E) /\ Len(q) = n /\ v \in E
    BY <2>2, <2>4
  <2>6. /\ Append(q, v) \in Seq(E) /\ Len(Append(q, v)) = n + 1
        /\ Append(q, v)[n + 1] = v /\ \A i \in 1 .. n : Append(q, v)[i] = q[i]
    BY <2>5
  <2>7. ASSUME NEW i \in 1 .. n + 1
        PROVE  Append(q, v)[i] = step_event(h[i - 1].state)
    <3>1. CASE i = n + 1
      <4>1. i - 1 = n
        BY <3>1
      <4> QED BY <2>4, <2>6, <3>1, <4>1
    <3>2. CASE i \in 1 .. n
      <4>1. \A k \in 1 .. n : h[n].events[k] = step_event(h[k - 1].state)
        BY <2>2
      <4>2. q[i] = step_event(h[i - 1].state)
        BY <2>4, <3>2, <4>1
      <4> QED BY <2>6, <3>2, <4>2
    <3>3. i = n + 1 \/ i \in 1 .. n
      OBVIOUS
    <3> QED BY <3>1, <3>2, <3>3
  <2> QED BY <2>3, <2>4, <2>6, <2>7
<1> HIDE DEF S
<1>4. 0 \in S
  BY <1>2 DEF S
<1>5. Nat \subseteq S
  BY <1>3, <1>4, Induct
<1>6. \A n \in 0 .. K : n \in Nat /\ n <= K
  BY <1>1
<1>7. \A n \in 0 .. K : P(n)
  BY <1>5, <1>6 DEF S
<1> HIDE DEF E
<1>8. ASSUME NEW n \in 0 .. K
      PROVE  /\ DOMAIN h[n].events = 1 .. n
             /\ \A i \in 1 .. n : h[n].events[i] = step_event(h[i - 1].state)
  <2>1. PICK q : q = h[n].events
    OBVIOUS
  <2>2. /\ q \in Seq(E) /\ Len(q) = n
        /\ \A i \in 1 .. n : h[n].events[i] = step_event(h[i - 1].state)
    BY <1>7, <2>1
  <2>3. DOMAIN q = 1 .. n
    BY <2>2
  <2> QED BY <2>1, <2>2, <2>3
<1> QED BY <1>8

(* and its states are those the steps lead to. *)
LEMMA RunStates ==
  ASSUME NEW h, NEW j, NEW K, Runs(h, j, K)
  PROVE  /\ h[0].state = reset(j.program, j.ram)
         /\ \A n \in 0 .. K : h[n].state.program = j.program
         /\ \A n \in 0 .. K - 1 :
              /\ h[n + 1].state = step(h[n].state)
              /\ h[n + 1].state.pc = step_event(h[n].state).next_pc
              /\ step_event(h[n].state).mem # "store" => h[n + 1].state.ram = h[n].state.ram
<1> DEFINE F == {"program", "pc", "ram"}
           P(n) == F \subseteq DOMAIN h[n].state /\ h[n].state.program = j.program
           S == {n \in Nat : n <= K => P(n)}
<1>1. K \in Nat /\ h[0].state = reset(j.program, j.ram)
  BY DEF Runs
<1>2. \A n \in 0 .. K - 1 : h[n + 1].state = step(h[n].state)
  <2> SUFFICES ASSUME NEW n \in 0 .. K - 1 PROVE h[n + 1].state = step(h[n].state)
    OBVIOUS
  <2>1. h[n + 1] = [ state  |-> step(h[n].state),
                     events |-> Append(h[n].events, step_event(h[n].state)) ]
    BY Zenon DEF Runs
  <2> QED BY <2>1
<1>3. ASSUME NEW s, F \subseteq DOMAIN s
      PROVE  /\ F \subseteq DOMAIN step(s) /\ step(s).program = s.program
             /\ step(s).pc = step_event(s).next_pc
             /\ step_event(s).mem # "store" => step(s).ram = s.ram
  <2> DEFINE v == step_event(s)
  <2>1. PICK x : x = v
    OBVIOUS
  <2>2. step(s) = [ s EXCEPT !.pc = x.next_pc,
                     !.gpr = IF x.rd = 0 THEN @ ELSE [@ EXCEPT ![x.rd] = x.rd_data],
                     !.epc = IF x.trap THEN s.pc ELSE @,
                     !.cause = IF x.trap THEN x.cause ELSE @,
                     !.retired = IF x.trap THEN @ ELSE Plus(@, 1),
                     !.ram = IF x.mem = "store" THEN [@ EXCEPT ![x.addr] = x.data] ELSE @ ]
    BY <2>1 DEF step
  <2> HIDE DEF v
  <2>3. "program" \in DOMAIN s /\ "pc" \in DOMAIN s /\ "ram" \in DOMAIN s
    BY <1>3
  <2>4. DOMAIN step(s) = DOMAIN s
    BY <2>2
  <2>5. step(s).program = s.program /\ step(s).pc = x.next_pc
    BY <2>2, <2>3
  <2>6. x.mem # "store" => step(s).ram = s.ram
    BY <2>2, <2>3
  <2> QED BY <2>1, <2>3, <2>4, <2>5, <2>6 DEF v
<1>4. P(0)
  BY <1>1 DEF reset
<1>5. ASSUME NEW n \in Nat, n \in S PROVE n + 1 \in S
  <2> SUFFICES ASSUME n + 1 <= K PROVE P(n + 1)
    OBVIOUS
  <2>1. n \in 0 .. K - 1 /\ n <= K
    BY <1>1
  <2>2. P(n) /\ h[n + 1].state = step(h[n].state)
    BY <1>2, <1>5, <2>1
  <2> HIDE DEF F
  <2> QED BY <1>3, <2>2
<1> HIDE DEF S, F
<1>6. 0 \in S
  BY <1>4 DEF S
<1>7. Nat \subseteq S
  BY <1>5, <1>6, Induct
<1>8. \A n \in 0 .. K : n \in Nat /\ n <= K
  BY <1>1
<1>9. \A n \in 0 .. K : P(n)
  BY <1>7, <1>8 DEF S
<1>10. \A n \in 0 .. K - 1 : n \in 0 .. K
  BY <1>1
<1> QED BY <1>1, <1>2, <1>3, <1>9, <1>10

JobOf(program, ram, last) == [program |-> program, ram |-> ram, completion_pc |-> last]

(* The run h of straight code of K instructions. *)
InLine(h, program, K) ==
  /\ K \in Pc
  /\ \A n \in 0 .. K : h[n].state.pc = n /\ h[n].state.program = program
  /\ \A n \in 0 .. K - 1 :
       /\ ~branch(program[n]) /\ h[n + 1].state = step(h[n].state)
       /\ ~step_event(h[n].state).trap /\ step_event(h[n].state).pc = n
       /\ step_event(h[n].state).next_pc = n + 1
       /\ step_event(h[n].state).mem # "store" => h[n + 1].state.ram = h[n].state.ram

(* It is the run of the reference model on such code.                        *)
LEMMA StraightRun ==
  ASSUME NEW program, NEW ram, NEW last \in Nat, StraightLine(program, ram, last),
         NEW h, h = reference_run(JobOf(program, ram, last))
  PROVE  /\ InLine(h, program, last + 1)
         /\ h[0].state = reset(program, ram)
         /\ RunOf(program, ram, last).state = h[last + 1].state
         /\ DOMAIN RunOf(program, ram, last).events = 1 .. last + 1
         /\ \A n \in 1 .. last + 1 :
              RunOf(program, ram, last).events[n] = step_event(h[n - 1].state)
<1> DEFINE j == JobOf(program, ram, last)
           R == RunOf(program, ram, last)
<1>1. /\ Len(R.events) = last + 1 /\ last + 1 \in Pc
      /\ \A pc \in 0 .. last : /\ ~branch(program[pc]) /\ ~R.events[pc + 1].trap
                              /\ R.events[pc + 1].pc = pc /\ R.events[pc + 1].next_pc = pc + 1
  BY DEF StraightLine
<1>2. R = h[MaxEvents] /\ R = expected_until_completion(j)
  BY DEF RunOf, JobOf, expected_until_completion
<1>3. j.completion_pc = last /\ j.program = program /\ j.ram = ram
  BY DEF JobOf
<1>4. h = reference_run(j)
  OBVIOUS
<1> HIDE DEF R, j
<1>5. completed(R, last)
  <2>1. R.events # <<>>
    BY <1>1
  <2>2. R.events[last + 1].pc = last
    BY <1>1
  <2> QED BY <1>1, <2>1, <2>2 DEF completed
<1>6. PICK K : Runs(h, j, K)
  <2>1. completed(expected_until_completion(j), j.completion_pc)
    BY <1>2, <1>3, <1>5
  <2> QED BY <1>4, <2>1, RunCompletes
<1>7. K = last + 1 /\ R = h[K] /\ K \in 0 .. K /\ last = K - 1 /\ K \in Nat
  <2>1. R = h[K] /\ K \in Nat /\ K \in 0 .. K
    <3>1. K \in 1 .. MaxEvents /\ h[MaxEvents] = h[K]
      BY <1>6 DEF Runs
    <3>2. K \in Nat /\ K \in 0 .. K
      BY <3>1, CheckerAssumption
    <3> QED BY <1>2, <3>1, <3>2
  <2>2. Len(h[K].events) = K
    BY <1>6, <2>1 DEF Runs
  <2> QED BY <1>1, <2>1, <2>2
<1>8. DOMAIN R.events = 1 .. K /\ \A n \in 1 .. K : R.events[n] = step_event(h[n - 1].state)
  BY <1>6, <1>7, RunEvents
<1>9. /\ h[0].state = reset(program, ram)
      /\ \A n \in 0 .. K : h[n].state.program = program
      /\ \A n \in 0 .. K - 1 :
           /\ h[n + 1].state = step(h[n].state)
           /\ h[n + 1].state.pc = step_event(h[n].state).next_pc
           /\ step_event(h[n].state).mem # "store" => h[n + 1].state.ram = h[n].state.ram
  BY <1>3, <1>6, RunStates
<1>10. \A n \in 0 .. K - 1 : /\ ~step_event(h[n].state).trap /\ step_event(h[n].state).pc = n
                             /\ step_event(h[n].state).next_pc = n + 1
  <2> SUFFICES ASSUME NEW n \in 0 .. K - 1
               PROVE  /\ ~step_event(h[n].state).trap /\ step_event(h[n].state).pc = n
                      /\ step_event(h[n].state).next_pc = n + 1
    OBVIOUS
  <2>1. n + 1 \in 1 .. K /\ (n + 1) - 1 = n /\ n \in 0 .. last
    BY <1>7
  <2>2. R.events[n + 1] = step_event(h[n].state)
    BY <1>8, <2>1
  <2> QED BY <1>1, <2>1, <2>2
<1>11. ASSUME NEW n \in 0 .. K PROVE h[n].state.pc = n
  <2>1. CASE n = 0
    BY <1>9, <2>1 DEF reset, RESET_PC
  <2>2. CASE n # 0
    <3>1. n - 1 \in 0 .. K - 1 /\ (n - 1) + 1 = n
      BY <1>7, <2>2
    <3> QED BY <1>9, <1>10, <3>1
  <2> QED BY <2>1, <2>2
<1>12. \A n \in 0 .. K - 1 : ~branch(program[n])
  BY <1>1, <1>7
<1>13. InLine(h, program, K)
  BY <1>1, <1>7, <1>9, <1>10, <1>11, <1>12 DEF InLine
<1>14. R.state = h[K].state
  BY <1>7
<1>15. /\ InLine(h, program, last + 1) /\ h[0].state = reset(program, ram)
       /\ R.state = h[last + 1].state /\ DOMAIN R.events = 1 .. last + 1
  BY <1>7, <1>8, <1>9, <1>13, <1>14
<1>16. \A n \in 1 .. last + 1 : R.events[n] = step_event(h[n - 1].state)
  BY <1>7, <1>8
<1> QED BY <1>15, <1>16 DEF R

(* How many instructions have executed and are not shown yet, and how many   *)
(* the next edge shows.                                                      *)
Shows == IF MEM_WB.valid THEN 1 ELSE 0
Depth == Shows + (IF EX_MEM.valid THEN 1 ELSE 0)

(* The core has shown the first n of the K events of the run h.              *)
Tracks(h, K, n) ==
  /\ n \in 0 .. K /\ n + Depth \in 0 .. K
  /\ Follows(h[n].state)
  /\ trace_valid => n # 0 /\ trace = step_event(h[n - 1].state)

(* So the instructions in MEM and WB are those of the run that are next. *)
LEMMA TracksAt ==
  ASSUME NEW h, NEW program, NEW K, InLine(h, program, K), NEW n, Tracks(h, K, n)
  PROVE  /\ K \in Nat /\ n \in Nat /\ Depth \in 0 .. 2 /\ n + Depth \in 0 .. K
         /\ n + Shows \in 0 .. K /\ Shows \in 0 .. 1
         /\ AfterWb(h[n].state) = h[n + Shows].state
         /\ AfterMem(h[n].state) = h[n + Depth].state
         /\ EX_MEM.valid => /\ n + Depth - 1 = n + Shows /\ n + Shows \in 0 .. K - 1
                            /\ ExMemEvent = step_event(h[n + Shows].state)
         /\ ExecutePc = n + Depth /\ imem = program
         /\ rf = h[n].state.gpr
         /\ StorePending => dmem = h[n + Shows].state.ram
         /\ ~StorePending => dmem = h[n + Depth].state.ram
<1>1. K \in Nat /\ n \in 0 .. K /\ n + Depth \in 0 .. K
  BY DEF InLine, Pc, Tracks
<1>2. Shows \in 0 .. 1 /\ n + Shows \in 0 .. K /\ Depth \in 0 .. 2
  BY <1>1 DEF Shows, Depth
<1>3. \A k \in 0 .. K - 1 : h[k + 1].state = step(h[k].state)
  BY DEF InLine
<1>4. AfterWb(h[n].state) = h[n + Shows].state
  <2>1. CASE MEM_WB.valid
    <3>1. n \in 0 .. K - 1 /\ Shows = 1
      BY <1>1, <1>2, <2>1 DEF Shows
    <3> QED BY <1>3, <2>1, <3>1 DEF AfterWb
  <2>2. CASE ~MEM_WB.valid
    <3>1. n + Shows = n
      BY <1>1, <2>2 DEF Shows
    <3> QED BY <2>2, <3>1 DEF AfterWb
  <2> QED BY <2>1, <2>2
<1>5. EX_MEM.valid => /\ n + Depth - 1 = n + Shows /\ n + Depth = (n + Shows) + 1
                      /\ n + Shows \in 0 .. K - 1
  BY <1>1, <1>2 DEF Depth
<1>6. ~EX_MEM.valid => n + Depth = n + Shows
  BY <1>1, <1>2 DEF Depth
<1>7. AfterMem(h[n].state) = h[n + Depth].state
  <2>1. CASE EX_MEM.valid
    <3>1. h[(n + Shows) + 1].state = step(h[n + Shows].state)
      BY <1>3, <1>5, <2>1
    <3> QED BY <1>4, <1>5, <2>1, <3>1 DEF AfterMem
  <2>2. CASE ~EX_MEM.valid
    BY <1>4, <1>6, <2>2 DEF AfterMem
  <2> QED BY <2>1, <2>2
<1>8. /\ rf = h[n].state.gpr /\ Settled = AfterMem(h[n].state)
      /\ EX_MEM.valid => ExMemEvent = step_event(AfterWb(h[n].state))
      /\ StorePending => dmem = AfterWb(h[n].state).ram
  BY DEF Tracks, Follows
<1>9. Settled.pc = ExecutePc /\ Settled.program = imem /\ (~StorePending => Settled.ram = dmem)
  BY DEF Settled, Reference!State, PendingStore
<1>10. h[n + Depth].state.pc = n + Depth /\ h[n + Depth].state.program = program
  BY <1>1 DEF InLine
<1>11. ExecutePc = n + Depth /\ imem = program
  BY <1>7, <1>8, <1>9, <1>10
<1> QED BY <1>1, <1>2, <1>4, <1>5, <1>7, <1>8, <1>9, <1>11

(* An instruction that does not trap in the model does not trap in the core, *)
(* and goes on to the same successor.                                        *)
LEMMA StraightFire ==
  ASSUME CpuInv, ~verification_halt, idex_fire, NEW s, Follows(s),
         ~step_event(AfterMem(s)).trap
  PROVE  /\ NoMisalignedCsr /\ ~ex_trap
         /\ actual_next = step_event(AfterMem(s)).next_pc
<1>1. Settled = Reference!State
  <2>1. ~StorePending
    <3>1. exmem_can_accept
      BY DEF idex_fire
    <3> QED BY <3>1, MemHeld DEF StorePending, dbus_resp_fire, dbus_resp_ready
  <2> QED BY <2>1 DEF Settled, PendingStore, Reference!State
<1>2. PICK S : S = Reference!State
  OBVIOUS
<1>3. AfterMem(s) = S
  BY <1>1, <1>2 DEF Follows
<1>4. /\ S.pc = ID_EX.pc /\ S.program = imem /\ S.gpr = ArchRegs
      /\ imem[ID_EX.pc] = ID_EX.instr
  BY <1>2, SameInstruction DEF idex_fire
<1>5. NoMisalignedCsr
  <2> SUFFICES ASSUME ex_misaligned, alu_result \in CsrPage PROVE FALSE
    BY DEF NoMisalignedCsr
  <2>1. ID_EX.instr.op \in {"LW", "SW"}
    BY DEF ex_misaligned, ex_mem_op, memRead, memWrite
  <2>2. instruction(S) = ID_EX.instr
    BY <1>4 DEF instruction
  <2>3. fwdA = ArchRegs[ID_EX.instr.rs]
    BY <2>1, OperandsArch DEF usesRs
  <2>4. alu_result = Plus(rsVal(S), instruction(S).imm)
    BY <1>4, <2>1, <2>2, <2>3 DEF alu_result, alu, rsVal
  <2>5. alu_result \notin {CSR_INSTRET, CSR_EPC, CSR_CAUSE}
    BY ArchAssumption DEF ex_misaligned
  <2>6. step_event(S) = memory_event(S)
    BY <2>1, <2>2 DEF step_event
  <2>7. memory_event(S) = trap_event(S, CauseCsr)
    BY <2>4, <2>5 DEF memory_event
  <2>8. trap_event(S, CauseCsr).trap = TRUE
    BY DEF trap_event, base_event, NoEvent
  <2> QED BY <1>3, <2>6, <2>7, <2>8
<1>6. step_event(S) = ExEvent
  <2>1. Reference!event = ExEvent
    BY <1>5, EventAgrees
  <2> QED BY <1>2, <2>1, SameModel DEF Reference!event
<1>7. ExEvent.trap = ex_trap /\ ExEvent.next_pc = actual_next
  BY DEF ExEvent
<1> QED BY <1>3, <1>5, <1>6, <1>7

(* What leaves EX enters MEM, what leaves MEM enters WB. *)
LEMMA DepthStep ==
  ASSUME CpuInv, NEW e, NEW irdy, NEW open \in BOOLEAN, NEW halt, CoreEdge(e, irdy, open, halt),
         ~verification_halt
  PROVE  /\ Shows + Depth' = Depth + (IF idex_fire THEN 1 ELSE 0)
         /\ MEM_WB'.valid <=> exmem_complete
         /\ EX_MEM'.valid <=> idex_fire \/ ~exmem_can_accept
         /\ trace_valid' <=> MEM_WB.valid
         /\ trace_valid' => trace' = RetiringEvent
<1>1. /\ EX_MEM' = NextExMem(open) /\ MEM_WB' = NextMemWb /\ TraceEdge
      /\ EX_MEM \in Memory /\ MEM_WB \in Written
  BY DEF CoreEdge, CpuInv, TypeOK
<1>2. MEM_WB'.valid <=> exmem_complete
  BY <1>1 DEF NextMemWb, Written
<1>3. exmem_can_accept <=> ~EX_MEM.valid \/ exmem_complete
  BY DEF exmem_can_accept
<1>4. EX_MEM'.valid <=> idex_fire \/ ~exmem_can_accept
  BY <1>1, <1>3 DEF NextExMem, Memory
<1>5. (trace_valid' <=> MEM_WB.valid) /\ (trace_valid' => trace' = RetiringEvent)
  BY <1>1 DEF TraceEdge
<1>6. (exmem_complete => EX_MEM.valid) /\ (idex_fire => exmem_can_accept)
  BY DEF exmem_complete, idex_fire
<1>7. Depth' = (IF MEM_WB'.valid THEN 1 ELSE 0) + (IF EX_MEM'.valid THEN 1 ELSE 0)
  BY DEF Depth, Shows
<1>8. Shows + Depth' = Depth + (IF idex_fire THEN 1 ELSE 0)
  BY <1>2, <1>3, <1>4, <1>6, <1>7 DEF Depth, Shows
<1> QED BY <1>2, <1>4, <1>5, <1>8

(* They are at most the two in MEM and WB.                                    *)
LEMMA DepthNat == Depth \in 0 .. 2 /\ Depth \in Nat
BY DEF Depth, Shows

(* The core goes on tracking the run until that ends. *)
LEMMA TracksStep ==
  ASSUME CpuInv, TypeOK', NEW e, NEW irdy, NEW open \in BOOLEAN, NEW halt,
         CoreEdge(e, irdy, open, halt), ~verification_halt, ~verification_halt',
         NEW h, NEW program, NEW K, InLine(h, program, K), NEW n, Tracks(h, K, n),
         idex_fire => n + Depth # K, NEW k, k = n + Shows
  PROVE  /\ Tracks(h, K, k)'
         /\ idex_fire => ~ex_trap /\ actual_next = n + Depth + 1
         /\ n + Depth + (IF idex_fire THEN 1 ELSE 0) = k + Depth'
<1>1. /\ K \in Nat /\ n \in Nat /\ Depth \in 0 .. 2 /\ n + Depth \in 0 .. K
      /\ k \in 0 .. K /\ Shows \in 0 .. 1
      /\ AfterWb(h[n].state) = h[k].state /\ AfterMem(h[n].state) = h[n + Depth].state
  BY TracksAt
<1>2. Follows(h[n].state)
  BY DEF Tracks
<1>3. ASSUME idex_fire
      PROVE  NoMisalignedCsr /\ ~ex_trap /\ actual_next = n + Depth + 1 /\ n + Depth < K
  <2>1. n + Depth \in 0 .. K - 1 /\ n + Depth < K
    BY <1>1, <1>3
  <2>2. ~step_event(h[n + Depth].state).trap
        /\ step_event(h[n + Depth].state).next_pc = n + Depth + 1
    BY <2>1 DEF InLine
  <2> QED BY <1>1, <1>2, <1>3, <2>1, <2>2, StraightFire
<1>4. NoMisalignedCsr
  BY <1>3 DEF NoMisalignedCsr
<1>5. PICK s, m : s = h[n].state /\ m = h[k].state
  OBVIOUS
<1>6. Follows(m)'
  BY <1>1, <1>2, <1>4, <1>5, FollowsStep
<1>7. /\ Shows + Depth' = Depth + (IF idex_fire THEN 1 ELSE 0)
      /\ trace_valid' <=> MEM_WB.valid
      /\ trace_valid' => trace' = RetiringEvent
  BY DepthStep
<1>8. (Depth \in Nat)'
  BY DepthNat, PTL
<1>9. k + Depth' = n + Depth + (IF idex_fire THEN 1 ELSE 0)
  <2>1. PICK d, f : d = Depth' /\ f = (IF idex_fire THEN 1 ELSE 0)
    OBVIOUS
  <2>2. d \in Nat /\ f \in 0 .. 1
    BY <1>8, <2>1
  <2>3. Shows + d = Depth + f
    BY <1>7, <2>1
  <2>4. n + Shows + d = n + Depth + f
    BY <1>1, <2>2, <2>3
  <2> QED BY <2>1, <2>4
<1>10. k + Depth' \in 0 .. K
  BY <1>1, <1>3, <1>9
<1>11. trace_valid' => k # 0 /\ trace' = step_event(h[k - 1].state)
  <2> SUFFICES ASSUME trace_valid' PROVE k # 0 /\ trace' = step_event(h[k - 1].state)
    OBVIOUS
  <2>1. MEM_WB.valid /\ trace' = step_event(h[n].state)
    BY <1>2, <1>7 DEF Follows
  <2>2. k = n + 1 /\ k - 1 = n
    BY <1>1, <2>1 DEF Shows
  <2> QED BY <1>1, <2>1, <2>2
<1>12. Tracks(h, K, k)'
  BY <1>1, <1>5, <1>6, <1>10, <1>11 DEF Tracks
<1> QED BY <1>3, <1>9, <1>12

(* Nothing of it changes while nothing moves. *)
LEMMA TracksStutter ==
  ASSUME NEW h, NEW K, NEW n, Tracks(h, K, n), UNCHANGED vars
  PROVE  Tracks(h, K, n)'
<1>1. PICK s : s = h[n].state
  OBVIOUS
<1>2. Follows(s)'
  BY <1>1, FollowsStutter DEF Tracks
<1>3. /\ MEM_WB' = MEM_WB /\ EX_MEM' = EX_MEM
      /\ trace_valid' = trace_valid /\ trace' = trace
  BY DEF vars, backVars, outVars
<1> QED BY <1>1, <1>2, <1>3 DEF Tracks, Depth, Shows

(* The instructions up to last are fetched in turn. *)
InTurn(last) ==
  /\ fetch_pc <= last + 1
  /\ ~if_req.stale /\ ~if_out.stale
  /\ if_req.present => if_req.addr <= last /\ if_req.pnext = if_req.addr + 1
  /\ if_out.valid   => if_out.pc <= last /\ if_out.pnext = if_out.pc + 1
  /\ if_buf.valid   => if_buf.pc <= last /\ if_buf.pnext = if_buf.pc + 1
  /\ IF_ID.valid    => IF_ID.pc <= last /\ IF_ID.pnext = IF_ID.pc + 1
  /\ ID_EX.valid    => ID_EX.pc <= last /\ ID_EX.pnext = ID_EX.pc + 1

(* Where no branch is, the predictor predicts the next instruction.          *)
LEMMA PredictsNext ==
  ASSUME CpuInv, NEW pc \in Pc, ~branch(imem[pc])
  PROVE  launch_pred(pc) = Plus4(pc)
<1> SUFFICES ASSUME launch_pred(pc) # Plus4(pc) PROVE FALSE
  OBVIOUS
<1>1. pc % BtbEntries \in 0 .. BtbEntries - 1
  BY BpuAssumption DEF Pc
<1>2. pred_hit(pc) /\ launch_pred(pc) = btb[pc % BtbEntries].target
  BY DEF launch_pred, pred_target
<1> QED BY <1>1, <1>2 DEF pred_hit, CpuInv, TargetsSound

(* The oldest fetch that is not answered is the one before fetch_pc. *)
LEMMA InTurnAt ==
  ASSUME CpuInv, NEW last \in Nat, InTurn(last)
  PROVE  /\ if_req.present => if_req.addr = fetch_pc /\ fetch_pc <= last
                              /\ if_req.pnext = fetch_pc + 1
         /\ if_out.valid => fetch_pc = if_out.pc + 1 /\ if_out.pc <= last
         /\ fetch_pc \in Nat /\ if_out.pc \in Nat
<1>1. /\ fetch_pc \in Nat /\ if_out.pc \in Nat /\ if_out.pnext \in Nat
      /\ if_req.stale \in BOOLEAN /\ if_req.present \in BOOLEAN
      /\ if_out.stale \in BOOLEAN /\ if_out.valid \in BOOLEAN
  BY DEF CpuInv, TypeOK, FrontTypeOK, Presented, Outstanding, Pc
<1>2. if_req.present => if_req.addr = fetch_pc
  BY <1>1 DEF InTurn, CpuInv, PathInOrder, LiveRequest
<1>3. if_out.valid => if_out.pnext = FromRequest
  BY <1>1 DEF InTurn, CpuInv, PathInOrder, LiveOutstanding
<1>4. FromRequest = fetch_pc
  BY <1>2 DEF FromRequest, LiveRequest
<1> QED BY <1>1, <1>2, <1>3, <1>4 DEF InTurn

(* Nothing turns the core from the straight line. *)
LEMMA StraightOn ==
  ASSUME CpuInv, TypeOK', NEW e, NEW irdy, NEW open \in BOOLEAN, NEW halt,
         CoreEdge(e, irdy, open, halt), ~verification_halt, ~verification_halt',
         NEW h, NEW program, NEW last \in Nat, InLine(h, program, last + 1),
         NEW n, Tracks(h, last + 1, n),
         ID_EX.valid => ID_EX.pc <= last /\ ID_EX.pnext = ID_EX.pc + 1
  PROVE  /\ idex_fire => n + Depth # last + 1
         /\ ~resolve_redirect
<1>1. /\ last + 1 \in Nat /\ n \in Nat /\ Depth \in 0 .. 2
      /\ ExecutePc = n + Depth
  BY TracksAt
<1>2. ASSUME idex_fire PROVE n + Depth # last + 1 /\ actual_next = ID_EX.pnext /\ ~ex_trap
  <2>1. ID_EX.valid /\ ID_EX.pc = n + Depth
    BY <1>1, <1>2 DEF idex_fire, ExecutePc
  <2>2. n + Depth <= last /\ ID_EX.pnext = n + Depth + 1
    BY <2>1
  <2>3. n + Depth # last + 1
    BY <1>1, <2>2
  <2>4. PICK k : k = n + Shows
    OBVIOUS
  <2>5. ~ex_trap /\ actual_next = n + Depth + 1
    BY <1>2, <2>3, <2>4, TracksStep
  <2> QED BY <2>2, <2>3, <2>5
<1> QED BY <1>2 DEF resolve_redirect

(* Before the last of them is fetched, one follows the other; from then on   *)
(* no more is.                                                               *)
LEMMA InTurnStep ==
  ASSUME CpuInv, TypeOK', NEW e, NEW irdy, NEW open \in BOOLEAN, NEW halt,
         CoreEdge(e, irdy, open, halt), ~verification_halt, ~verification_halt',
         NEW h, NEW program, NEW last \in Nat, InLine(h, program, last + 1),
         NEW n, Tracks(h, last + 1, n), InTurn(last),
         fetch_pc = last + 1 => ~fetch_can_launch(e) /\ ~turnover_offer(e)
  PROVE  /\ InTurn(last)' /\ ~e.redirect /\ ~e.halt
         /\ idex_fire => n + Depth # last + 1
         /\ ~ibus_req_fire(e, irdy) => /\ fetch_pc' = fetch_pc /\ if_out'.pc = if_out.pc
                                       /\ if_out'.valid => if_out.valid
         /\ ibus_req_fire(e, irdy) =>
              /\ fetch_pc' = fetch_pc + 1 /\ fetch_pc <= last
              /\ active_req(e).addr = fetch_pc
              /\ if_out'.valid /\ if_out'.pc = fetch_pc /\ ~if_req'.present
<1> DEFINE fire == ibus_req_fire(e, irdy)
           latch == latch_request(e, irdy)
<1>1. /\ idex_fire => n + Depth # last + 1
      /\ ~resolve_redirect
  BY StraightOn DEF InTurn
<1>2. /\ e.redirect = FALSE /\ e.halt = FALSE /\ e.pnext = launch_pred(fetch_pc)
      /\ SoundWires(e, Instr) /\ irdy \in BOOLEAN /\ FrontEdge(e, irdy) /\ ID_EX' = NextIdEx(e)
  BY <1>1 DEF CoreEdge, SoundWires
<1>3. /\ if_req \in Presented /\ if_out \in Outstanding /\ if_buf \in Fetched(Instr)
      /\ IF_ID \in Fetched(Instr) /\ ID_EX \in Decoded /\ fetch_pc \in Pc /\ fetch_pc \in Nat
  BY DEF CpuInv, TypeOK, FrontTypeOK, Pc
<1>4. fetch_pc <= last => launch_pred(fetch_pc) = fetch_pc + 1
  <2> SUFFICES ASSUME fetch_pc <= last PROVE launch_pred(fetch_pc) = fetch_pc + 1
    OBVIOUS
  <2>1. last + 1 \in Pc /\ imem = program /\ fetch_pc \in 0 .. (last + 1) - 1
    BY <1>3, TracksAt DEF InLine
  <2>2. ~branch(imem[fetch_pc])
    BY <2>1 DEF InLine
  <2>3. launch_pred(fetch_pc) = Plus4(fetch_pc)
    BY <1>3, <2>2, PredictsNext
  <2>4. fetch_pc # PcCount - 1
    BY <1>3, <2>1, PcCountAssumption DEF Pc
  <2> QED BY <2>3, <2>4 DEF Plus4
<1>5. /\ if_req.present => if_req.addr = fetch_pc /\ fetch_pc <= last
                           /\ if_req.pnext = fetch_pc + 1
      /\ if_out.valid => fetch_pc = if_out.pc + 1 /\ if_out.pc <= last
      /\ fetch_pc <= last + 1
  BY InTurnAt DEF InTurn
<1>6. latch \/ fire => fetch_pc <= last
  <2>1. latch \/ fire => if_req.present \/ fetch_can_launch(e) \/ turnover_offer(e)
    BY DEF latch_request, ibus_req_fire, ibus_req_valid
  <2> QED BY <1>3, <1>5, <2>1
<1>7. latch => e.pnext = fetch_pc + 1
  BY <1>2, <1>4, <1>6
<1>8. fire => active_req(e) = [addr |-> fetch_pc, stale |-> FALSE, pnext |-> fetch_pc + 1]
  <2>1. if_req.present => if_req.stale = FALSE
    BY <1>3 DEF InTurn, Presented
  <2> QED BY <1>2, <1>4, <1>5, <1>6, <2>1 DEF active_req
<1>9. latch => ~fire
  BY <1>2, <1>3 DEF latch_request, fetch_can_launch, turnover_offer, ibus_req_fire, ibus_req_valid,
         ibus_resp_fire, ibus_resp_ready, Presented, Outstanding
<1>10. fetch_pc' = IF fire THEN fetch_pc + 1 ELSE fetch_pc
  BY <1>2, <1>8 DEF FrontEdge, NextFetchPc
<1>11. /\ ~if_req'.stale
       /\ if_req'.present <=> latch \/ (if_req.present /\ ~fire)
       /\ if_req'.present => if_req'.addr = fetch_pc /\ if_req'.pnext = fetch_pc + 1
  <2>1. if_req' = NextRequest(e, irdy)
    BY <1>2 DEF FrontEdge
  <2>2. ~if_req'.stale
    BY <1>2, <2>1 DEF NextRequest, InTurn
  <2>3. if_req'.present <=> latch \/ (if_req.present /\ ~fire)
    BY <1>2, <2>1 DEF NextRequest
  <2>4. /\ latch => if_req'.addr = fetch_pc /\ if_req'.pnext = e.pnext
        /\ ~latch => if_req'.addr = if_req.addr /\ if_req'.pnext = if_req.pnext
    BY <2>1 DEF NextRequest
  <2> QED BY <1>5, <1>7, <2>2, <2>3, <2>4
<1>12. /\ ~if_out'.stale
       /\ fire => if_out'.valid /\ if_out'.pc = fetch_pc /\ if_out'.pnext = fetch_pc + 1
       /\ ~fire => /\ if_out'.valid => if_out.valid
                   /\ if_out'.pc = if_out.pc /\ if_out'.pnext = if_out.pnext
  <2>1. if_out' = NextOutstanding(e, irdy)
    BY <1>2 DEF FrontEdge
  <2>2. fire => active_req(e).stale = FALSE /\ active_req(e).addr = fetch_pc
                /\ active_req(e).pnext = fetch_pc + 1
    BY <1>8
  <2> HIDE DEF fire
  <2>3. ~if_out'.stale
    BY <1>2, <2>1, <2>2 DEF NextOutstanding, InTurn, fire
  <2>4. /\ fire => if_out'.valid /\ if_out'.pc = fetch_pc /\ if_out'.pnext = fetch_pc + 1
        /\ ~fire => /\ if_out'.valid => if_out.valid
                    /\ if_out'.pc = if_out.pc /\ if_out'.pnext = if_out.pnext
    BY <1>2, <2>1, <2>2 DEF NextOutstanding, fire
  <2> QED BY <2>3, <2>4
<1>13. if_buf'.valid => if_buf'.pc <= last /\ if_buf'.pnext = if_buf'.pc + 1
  <2>1. if_buf' = NextBuffer(e)
    BY <1>2 DEF FrontEdge
  <2>2. CASE fill_buffer(e)
    <3>1. if_out.valid
      BY <2>2 DEF fill_buffer, ibus_resp_fire, ibus_resp_ready
    <3>2. if_buf'.pc = if_out.pc /\ if_buf'.pnext = if_out.pnext
      BY <2>1, <2>2 DEF NextBuffer
    <3> QED BY <3>1, <3>2 DEF InTurn
  <2>3. CASE ~fill_buffer(e)
    <3>1. if_buf'.pc = if_buf.pc /\ if_buf'.pnext = if_buf.pnext
          /\ (if_buf'.valid => if_buf.valid)
      BY <1>3, <2>1, <2>3 DEF NextBuffer, Fetched
    <3> QED BY <3>1 DEF InTurn
  <2> QED BY <2>2, <2>3
<1>14. IF_ID'.valid => IF_ID'.pc <= last /\ IF_ID'.pnext = IF_ID'.pc + 1
  <2>1. IF_ID' = NextIfId(e)
    BY <1>2 DEF FrontEdge
  <2>2. CASE ifbuf_to_ifid(e)
    <3>1. IF_ID' = if_buf /\ if_buf.valid
      BY <1>2, <2>1, <2>2 DEF NextIfId, ifbuf_to_ifid
    <3> QED BY <3>1 DEF InTurn
  <2>3. CASE ~ifbuf_to_ifid(e)
    <3>1. IF_ID'.pc = IF_ID.pc /\ IF_ID'.pnext = IF_ID.pnext /\ (IF_ID'.valid => IF_ID.valid)
      BY <1>2, <1>3, <2>1, <2>3 DEF NextIfId, Fetched
    <3> QED BY <3>1 DEF InTurn
  <2> QED BY <2>2, <2>3
<1>15. ID_EX'.valid => ID_EX'.pc <= last /\ ID_EX'.pnext = ID_EX'.pc + 1
  <2>1. CASE ifid_to_idex(e)
    <3>1. ID_EX'.pc = IF_ID.pc /\ ID_EX'.pnext = IF_ID.pnext /\ IF_ID.valid
      BY <1>2, <2>1 DEF NextIdEx, ifid_to_idex
    <3> QED BY <3>1 DEF InTurn
  <2>2. CASE ~ifid_to_idex(e)
    <3>1. ID_EX'.pc = ID_EX.pc /\ ID_EX'.pnext = ID_EX.pnext /\ (ID_EX'.valid => ID_EX.valid)
      BY <1>2, <1>3, <2>2 DEF NextIdEx, HeldIdEx, Decoded
    <3> QED BY <3>1 DEF InTurn
  <2> QED BY <2>1, <2>2
<1> HIDE DEF fire, latch
<1>16. fetch_pc' <= last + 1
  BY <1>3, <1>5, <1>6, <1>10
<1>17. if_req'.present => if_req'.addr <= last /\ if_req'.pnext = if_req'.addr + 1
  BY <1>5, <1>6, <1>11
<1>18. if_out'.valid => if_out'.pc <= last /\ if_out'.pnext = if_out'.pc + 1
  BY <1>6, <1>12 DEF InTurn
<1>19. InTurn(last)'
  BY <1>11, <1>12, <1>13, <1>14, <1>15, <1>16, <1>17, <1>18 DEF InTurn
<1>20. fire => /\ fetch_pc' = fetch_pc + 1 /\ fetch_pc <= last /\ active_req(e).addr = fetch_pc
               /\ if_out'.valid /\ if_out'.pc = fetch_pc /\ ~if_req'.present
  BY <1>6, <1>8, <1>9, <1>10, <1>11, <1>12
<1> QED BY <1>1, <1>2, <1>10, <1>12, <1>19, <1>20 DEF fire

(* An edge of this bench, by the wires that it drives.                       *)
BenchWires == Wires(run.fetch_enable)

(* What such an edge is to the core.                                         *)
LEMMA BenchCore ==
  ASSUME ResetBenchInv, Edge(run.fetch_enable)
  PROVE  /\ CpuInv /\ TypeOK' /\ ~verification_halt /\ ~verification_halt'
         /\ CheckersInv /\ run.fetch_enable \in BOOLEAN
         /\ ib_allow \in BOOLEAN /\ db_allow \in BOOLEAN
         /\ run.memory_wait \in MemoryWaits /\ run.memory_wait \in Nat
         /\ CoreEdge(BenchWires, ireq_ready, db_allow, FALSE)
         /\ Rom!SlaveEdge(ibus_req_fire(BenchWires, ireq_ready), active_req(BenchWires).addr,
                          NoWrite, ibus_resp_ready(BenchWires), run.memory_wait)
         /\ Ram!SlaveEdge(dbus_req_fire(db_allow), EX_MEM.alu, dbus_req_wdata,
                          dbus_resp_ready, run.memory_wait)
         /\ BenchWires.en = run.fetch_enable
<1>1. /\ CheckersInv /\ CpuInv /\ ~verification_halt /\ run.fetch_enable \in BOOLEAN
      /\ run.memory_wait \in MemoryWaits
  BY DEF ResetBenchInv, RunShape, CheckersInv
<1>2. run.memory_wait \in 0 .. IWaitMax /\ run.memory_wait \in 0 .. DWaitMax /\ run.memory_wait \in Nat
  <2>1. MemoryWaits \subseteq Nat /\ \A w \in MemoryWaits : w <= IWaitMax /\ w <= DWaitMax
    BY ResetAssumption
  <2>2. IWaitMax \in Nat /\ DWaitMax \in Nat
    BY CpuAssumption
  <2>3. \A w \in MemoryWaits : w \in 0 .. IWaitMax /\ w \in 0 .. DWaitMax /\ w \in Nat
    BY <2>1, <2>2
  <2> QED BY <1>1, <2>3
<1>3. ib_allow \in BOOLEAN /\ db_allow \in BOOLEAN
  BY DEF ib_allow, db_allow
<1>4. Clock(run.fetch_enable, ib_allow, db_allow, {run.memory_wait}, {run.memory_wait}, FALSE)
  BY DEF Edge
<1>5. Tick(run.fetch_enable, ib_allow, db_allow, FALSE)
  BY <1>2, <1>4, ClockWaits
<1>6. /\ Driven(run.fetch_enable) = BenchWires /\ RomReady(run.fetch_enable, ib_allow) = ireq_ready
      /\ BenchWires.en = run.fetch_enable
  <2>1. (run.fetch_enable /\ ~verification_halt) = run.fetch_enable
    <3>1. run.fetch_enable = TRUE \/ run.fetch_enable = FALSE
      BY <1>1
    <3>2. CASE run.fetch_enable = TRUE
      BY <1>1, <3>2
    <3>3. CASE run.fetch_enable = FALSE
      BY <3>3
    <3> QED BY <3>1, <3>2, <3>3
  <2>2. Driven(run.fetch_enable) = BenchWires
    BY <2>1 DEF Driven, BenchWires
  <2> QED BY <2>2 DEF RomReady, ireq_ready, BenchWires, Wires
<1>7. CoreEdge(BenchWires, ireq_ready, db_allow, FALSE)
  <2>1. CoreEdge(Driven(run.fetch_enable), RomReady(run.fetch_enable, ib_allow), db_allow, FALSE)
    BY <1>1, <1>3, <1>5, TickIsEdge DEF CpuInv
  <2> QED BY <1>6, <2>1
<1>8. CheckersInv' /\ ~verification_halt'
  BY BenchEdge
<1>9. /\ \E wait \in {run.memory_wait} :
            Rom!SlaveEdge(ibus_req_fire(BenchWires, ireq_ready), active_req(BenchWires).addr,
                          NoWrite, ibus_resp_ready(BenchWires), wait)
      /\ \E wait \in {run.memory_wait} :
            Ram!SlaveEdge(dbus_req_fire(db_allow), EX_MEM.alu, dbus_req_wdata,
                          dbus_resp_ready, wait)
  <2>1. Wires(run.fetch_enable /\ ~verification_halt) = BenchWires
    BY <1>6 DEF Driven
  <2>2. (ib_allow /\ Rom!req_ready(ibus_resp_ready(BenchWires))) = ireq_ready
    BY DEF ireq_ready, BenchWires
  <2> QED BY <1>4, <2>1, <2>2 DEF Clock
<1> QED BY <1>1, <1>2, <1>3, <1>6, <1>7, <1>8, <1>9 DEF CheckersInv, CpuInv

(* Over such an edge the run is tracked, one event further if it shows one.  *)
LEMMA BenchTracks ==
  ASSUME ResetBenchInv, Edge(run.fetch_enable), NEW h, NEW program, NEW K, InLine(h, program, K),
         NEW n, Tracks(h, K, n), idex_fire => n + Depth # K,
         NEW k, k = IF trace_valid' THEN n + 1 ELSE n
  PROVE  /\ Tracks(h, K, k)' /\ (trace_valid' <=> MEM_WB.valid)
         /\ n + Depth + (IF idex_fire THEN 1 ELSE 0) = k + Depth'
<1>1. /\ CpuInv /\ TypeOK' /\ ~verification_halt /\ ~verification_halt' /\ db_allow \in BOOLEAN
      /\ CoreEdge(BenchWires, ireq_ready, db_allow, FALSE)
  BY BenchCore
<1>2. trace_valid' <=> MEM_WB.valid
  BY <1>1, DepthStep
<1>3. n \in Nat
  BY TracksAt
<1>4. k = n + Shows
  BY <1>2, <1>3 DEF Shows
<1>5. Tracks(h, K, k)'
  BY <1>1, <1>4, TracksStep
<1>6. n + Depth + (IF idex_fire THEN 1 ELSE 0) = k + Depth'
  <2>1. Shows + Depth' = Depth + (IF idex_fire THEN 1 ELSE 0)
    BY <1>1, DepthStep
  <2>2. (Depth \in Nat)'
    BY DepthNat, PTL
  <2>3. PICK d, f : d = Depth' /\ f = (IF idex_fire THEN 1 ELSE 0)
    OBVIOUS
  <2>4. /\ d \in Nat /\ f \in 0 .. 1 /\ Shows + d = Depth + f
        /\ Shows \in 0 .. 1 /\ Depth \in 0 .. 2
    BY <2>1, <2>2, <2>3, TracksAt
  <2>5. n + Depth + f = n + Shows + d
    BY <1>3, <2>4
  <2> QED BY <1>4, <2>3, <2>5
<1> QED BY <1>2, <1>5, <1>6

(* From when the restart program is loaded, the core fetches it in turn and  *)
(* only while fetching is on, and shows the events of its run h.             *)
RestartInv(h) ==
  /\ Tracks(h, LastPc + 1, run.post_events)
  /\ InTurn(LastPc) /\ fetch_pc = run.post_ireqs
  /\ EX_MEM.accepted => EX_MEM.valid
  /\ run.phase = "quiet" => run.post_ireqs = 0 /\ run.post_events = 0
  /\ run.phase = "restart" => /\ run.edges = 0
                              /\ run.fetch_enable <=> fetch_pc <= LastPc
  /\ run.phase \in {"drained", "done"} =>
       /\ ~run.fetch_enable /\ Idle /\ (run.edges # 0 => ~trace_valid)
       /\ run.post_events = LastPc + 1 /\ run.post_ireqs = LastPc + 1

(* With nothing in flight and fetching off, nothing is fetched. *)
LEMMA IdleFetchesNot ==
  ASSUME Idle, NEW e, ~e.en, NEW irdy
  PROVE  ~ibus_req_fire(e, irdy) /\ ~fetch_can_launch(e) /\ ~turnover_offer(e)
BY DEF Idle, ibus_req_fire, ibus_req_valid, fetch_can_launch, turnover_offer

(* Every such edge keeps it.                                                 *)
LEMMA RestartEdge ==
  ASSUME ResetBenchInv, Quiet \/ Restart, NEW h, InLine(h, RestartWork, LastPc + 1), RestartInv(h)
  PROVE  RestartInv(h)'
<1> DEFINE fe == run.fetch_enable
           fire == ibus_req_fire(BenchWires, ireq_ready)
<1>1. /\ CpuInv /\ TypeOK' /\ ~verification_halt /\ ~verification_halt' /\ db_allow \in BOOLEAN
      /\ CoreEdge(BenchWires, ireq_ready, db_allow, FALSE)
      /\ BenchWires.en = run.fetch_enable /\ run.fetch_enable \in BOOLEAN
      /\ Edge(run.fetch_enable) /\ DOMAIN run = RunFields
  BY BenchCore DEF Quiet, Restart, ResetBenchInv, RunShape
<1>2. LastPc \in Nat
  BY DEF LastPc
<1>3. /\ Quiet => Idle /\ ~run.fetch_enable /\ run.phase \in {"quiet", "drained"}
      /\ Restart => /\ run.phase = "restart"
                    /\ run.fetch_enable <=> fetch_pc <= LastPc
  BY DEF Quiet, Restart, RestartInv, ResetBenchInv, Cold
<1>4. fetch_pc \in Nat
  BY <1>1 DEF CpuInv, TypeOK, FrontTypeOK, Pc
<1>5. fetch_pc = LastPc + 1 => ~fetch_can_launch(BenchWires) /\ ~turnover_offer(BenchWires)
  <2>1. CASE Quiet
    BY <1>1, <1>3, <2>1, IdleFetchesNot
  <2>2. CASE Restart
    <3>1. fetch_pc = LastPc + 1 => ~BenchWires.en
      BY <1>1, <1>2, <1>3, <2>2
    <3> QED BY <3>1 DEF fetch_can_launch, turnover_offer
  <2> QED BY <2>1, <2>2
<1>6. PICK n, k : n = run.post_events /\ k = IF trace_valid' THEN n + 1 ELSE n
  OBVIOUS
<1>7. Tracks(h, LastPc + 1, n) /\ InTurn(LastPc)
  BY <1>6 DEF RestartInv
<1>8. /\ InTurn(LastPc)' /\ (idex_fire => n + Depth # LastPc + 1)
      /\ ~fire => fetch_pc' = fetch_pc /\ if_out'.pc = if_out.pc /\ (if_out'.valid => if_out.valid)
      /\ fire => fetch_pc' = fetch_pc + 1 /\ if_out'.valid /\ if_out'.pc = fetch_pc
  BY <1>1, <1>2, <1>5, <1>7, InTurnStep
<1>9. Tracks(h, LastPc + 1, k)'
  BY <1>1, <1>6, <1>7, <1>8, BenchTracks
<1>10. EX_MEM'.accepted => EX_MEM'.valid
  <2>1. EX_MEM' = NextExMem(db_allow) /\ EX_MEM \in Memory
    BY <1>1 DEF CoreEdge, CpuInv, TypeOK
  <2>2. ~exmem_can_accept => EX_MEM.valid
    BY DEF exmem_can_accept
  <2> QED BY <1>1, <2>1, <2>2 DEF NextExMem, Memory
<1>11. CASE Quiet
  <2>1. Idle' /\ ~trace_valid' /\ k = n
    BY <1>1, <1>3, <1>6, <1>11, BenchEdge
  <2>2. ~fire
    BY <1>1, <1>3, <1>11, IdleFetchesNot
  <2>3. /\ run'.post_events = run.post_events /\ run'.post_ireqs = run.post_ireqs
        /\ run'.phase = run.phase /\ run'.fetch_enable = run.fetch_enable
    BY <1>1, <1>11 DEF Quiet, RunFields
  <2>4. k = run'.post_events /\ fetch_pc' = run'.post_ireqs
    BY <1>6, <1>8, <2>1, <2>2, <2>3 DEF RestartInv
  <2>5. run'.phase # "restart"
    BY <1>3, <1>11, <2>3
  <2> QED BY <1>8, <1>9, <1>10, <2>1, <2>3, <2>4, <2>5 DEF RestartInv
<1>12. CASE Restart
  <2>1. /\ run'.post_events = (IF trace_valid' THEN run.post_events + 1 ELSE run.post_events)
        /\ run'.post_ireqs = (IF ireq_fire THEN run.post_ireqs + 1 ELSE run.post_ireqs)
        /\ run'.phase = "restart" /\ run'.edges = run.edges
        /\ run'.fetch_enable <=> run.fetch_enable /\ ~last_fetch'
    BY <1>1, <1>3, <1>12 DEF Restart, RunFields
  <2>2. ireq_fire <=> fire
    BY DEF ireq_fire, BenchWires
  <2>3. k = run'.post_events /\ fetch_pc' = run'.post_ireqs
    BY <1>6, <1>8, <2>1, <2>2 DEF RestartInv
  <2>4. last_fetch' <=> if_out'.valid /\ if_out'.pc = LastPc
    BY DEF last_fetch, LastPc
  <2>5. if_out.valid => fetch_pc = if_out.pc + 1
    BY <1>1, <1>2, <1>7, InTurnAt
  <2>6. if_out.pc \in Nat /\ fetch_pc <= LastPc + 1
    BY <1>1, <1>2, <1>7, InTurnAt DEF InTurn
  <2>7. run'.fetch_enable <=> fetch_pc' <= LastPc
    <3>1. CASE fire
      BY <1>2, <1>3, <1>4, <1>8, <1>12, <2>1, <2>4, <2>6, <3>1
    <3>2. CASE ~fire
      BY <1>2, <1>3, <1>4, <1>8, <1>12, <2>1, <2>4, <2>5, <2>6, <3>2
    <3> QED BY <3>1, <3>2
  <2>8. run'.edges = 0
    BY <1>3, <1>12, <2>1 DEF RestartInv
  <2> QED BY <1>8, <1>9, <1>10, <2>1, <2>3, <2>7, <2>8 DEF RestartInv
<1> QED BY <1>11, <1>12

(* Nothing of it changes while only the bench moves on. *)
LEMMA RestartStutter ==
  ASSUME ResetBenchInv, Recover \/ Drained \/ Done \/ UNCHANGED resetBenchVars,
         NEW h, InLine(h, RestartWork, LastPc + 1), RestartInv(h)
  PROVE  RestartInv(h)'
<1>1. /\ UNCHANGED monitoredVars /\ UNCHANGED vars /\ sb' = sb
      /\ DOMAIN run = RunFields
  BY DEF Recover, Drained, Done, resetBenchVars, monitoredVars, ResetBenchInv, RunShape
<1>2. PICK n : n = run.post_events
  OBVIOUS
<1>3. Tracks(h, LastPc + 1, n) /\ Tracks(h, LastPc + 1, n)'
  BY <1>1, <1>2, TracksStutter DEF RestartInv
<1>4. run'.post_events = n /\ run'.post_ireqs = run.post_ireqs
  BY <1>1, <1>2 DEF Recover, Drained, Done, resetBenchVars, RunFields
<1>5. /\ UNCHANGED <<frontVars, backVars, outVars, busVars>> /\ trace_valid' = trace_valid
      /\ fetch_pc' = fetch_pc /\ EX_MEM' = EX_MEM
  BY <1>1 DEF vars, frontVars, backVars, outVars
<1>6. InTurn(LastPc)' /\ fetch_pc' = run'.post_ireqs /\ (EX_MEM'.accepted => EX_MEM'.valid)
  BY <1>4, <1>5 DEF InTurn, RestartInv, frontVars, backVars
<1>7. Idle => Idle'
  BY <1>1, <1>5 DEF Idle, Rom!Occupied, Ram!Occupied, Score!idle, frontVars, backVars, busVars
<1>8. CASE Recover
  <2>1. run'.phase = "restart" /\ run'.edges = 0 /\ run'.fetch_enable = TRUE
    BY <1>1, <1>8 DEF Recover, RunFields
  <2>2. fetch_pc' = 0
    BY <1>4, <1>6, <1>8 DEF Recover, RestartInv
  <2>3. fetch_pc' <= LastPc
    BY <2>2 DEF LastPc
  <2> QED BY <1>3, <1>4, <1>6, <2>1, <2>3 DEF RestartInv
<1>9. CASE Drained
  <2>1. /\ run'.phase = "drained" /\ run'.edges = run.edges /\ run'.fetch_enable = run.fetch_enable
        /\ n = LastPc + 1 /\ core_idle /\ Score!idle
        /\ run.edges = 0 /\ (run.fetch_enable <=> fetch_pc <= LastPc)
    BY <1>1, <1>2, <1>9 DEF Drained, restarted, RunFields, RestartInv
  <2>2. ExecutePc = fetch_pc /\ Depth = 0
    BY <2>1 DEF core_idle, ExecutePc, NextIssue, FromBuffer, FromOutstanding, FromRequest,
                LiveRequest, LiveOutstanding, Depth, Shows
  <2>3. fetch_pc = LastPc + 1
    BY <1>3, <2>1, <2>2, TracksAt DEF LastPc
  <2>4. ~run.fetch_enable
    BY <2>1, <2>3 DEF LastPc
  <2>5. ~Rom!Occupied /\ ~Ram!Occupied
    <3>1. FetchOwnership /\ DataOwnership /\ ~verification_halt
      BY DEF ResetBenchInv, CheckersInv, CpuInv
    <3>2. ~exmem_external_mem
      BY <2>1 DEF core_idle, exmem_external_mem
    <3>3. ~Rom!Occupied
      BY <2>1, <3>1 DEF core_idle, FetchOwnership
    <3>4. ~Ram!Occupied
      BY <3>1, <3>2 DEF DataOwnership
    <3> QED BY <3>3, <3>4
  <2>6. Idle
    BY <2>1, <2>5 DEF Idle, core_idle, RestartInv
  <2> QED BY <1>3, <1>4, <1>6, <1>7, <2>1, <2>3, <2>4, <2>6 DEF RestartInv
<1>10. CASE Done
  <2>1. /\ run.phase = "drained" /\ run'.phase = "done" /\ run'.edges = run.edges
        /\ run'.fetch_enable = run.fetch_enable
    BY <1>1, <1>10 DEF Done, RunFields
  <2> QED BY <1>2, <1>3, <1>4, <1>5, <1>6, <1>7, <2>1 DEF RestartInv
<1>11. CASE UNCHANGED resetBenchVars
  <2>1. run' = run
    BY <1>11 DEF resetBenchVars
  <2> QED BY <1>2, <1>3, <1>4, <1>5, <1>6, <1>7, <2>1 DEF RestartInv
<1> QED BY <1>8, <1>9, <1>10, <1>11

(* The reference model's run of the restart program, one state by one. *)
RestartRun == reference_run(JobOf(RestartWork, MemoryAfterWork, LastPc))

(* It runs straight on. *)
LEMMA RestartStraight ==
  /\ LastPc \in Nat /\ MemoryAfterWork \in {OldRam, StoredRam}
  /\ InLine(RestartRun, RestartWork, LastPc + 1)
  /\ RestartRun[0].state = reset(RestartWork, MemoryAfterWork)
  /\ Restarted.state = RestartRun[LastPc + 1].state
  /\ DOMAIN Restarted.events = 1 .. LastPc + 1
  /\ \A n \in 1 .. LastPc + 1 : Restarted.events[n] = step_event(RestartRun[n - 1].state)
<1>1. LastPc \in Nat /\ MemoryAfterWork \in {OldRam, StoredRam}
  BY DEF LastPc, MemoryAfterWork
<1>2. PICK ram \in {OldRam, StoredRam} : ram = MemoryAfterWork
  BY <1>1
<1>3. PICK h : h = reference_run(JobOf(RestartWork, ram, LastPc))
  OBVIOUS
<1>4. StraightLine(RestartWork, ram, LastPc)
  BY <1>2, StraightAssumption
<1>5. /\ InLine(h, RestartWork, LastPc + 1) /\ h[0].state = reset(RestartWork, ram)
      /\ RunOf(RestartWork, ram, LastPc).state = h[LastPc + 1].state
      /\ DOMAIN RunOf(RestartWork, ram, LastPc).events = 1 .. LastPc + 1
      /\ \A n \in 1 .. LastPc + 1 :
           RunOf(RestartWork, ram, LastPc).events[n] = step_event(h[n - 1].state)
  BY <1>1, <1>3, <1>4, StraightRun
<1>6. h = RestartRun /\ RunOf(RestartWork, ram, LastPc) = Restarted
  BY <1>2, <1>3 DEF RestartRun, Restarted
<1> QED BY <1>1, <1>2, <1>5, <1>6

(* What is tracked is what the bench compares. *)
LEMMA RestartShown ==
  ASSUME ResetBenchInv, RestartInv(RestartRun),
         run.phase \in {"quiet", "restart", "drained", "done"}
  PROVE  /\ RestartExact
         /\ run.phase = "quiet" => dmem = MemoryAfterWork
         /\ run.phase \in {"drained", "done"} => dmem = Restarted.state.ram
<1> DEFINE h == RestartRun
<1>1. /\ CpuInv /\ InTurn(LastPc) /\ fetch_pc = run.post_ireqs /\ run.fetch_enable \in BOOLEAN
      /\ Tracks(h, LastPc + 1, run.post_events)
  BY DEF ResetBenchInv, CheckersInv, RestartInv, RunShape
<1>2. PICK n : n = run.post_events
  OBVIOUS
<1>3. /\ LastPc \in Nat /\ InLine(h, RestartWork, LastPc + 1)
      /\ Restarted.state = h[LastPc + 1].state /\ DOMAIN Restarted.events = 1 .. LastPc + 1
      /\ \A i \in 1 .. LastPc + 1 : Restarted.events[i] = step_event(h[i - 1].state)
      /\ h[0].state = reset(RestartWork, MemoryAfterWork)
  BY RestartStraight
<1> HIDE DEF h
<1>4. /\ n \in 0 .. LastPc + 1 /\ n + Depth \in 0 .. LastPc + 1
      /\ rf = h[n].state.gpr
      /\ ~StorePending => dmem = h[n + Depth].state.ram
      /\ trace_valid => n # 0 /\ trace = step_event(h[n - 1].state)
  BY <1>1, <1>2, <1>3, TracksAt DEF Tracks
<1>5. ASSUME recovery, ireq_fire PROVE ireq_addr = run.post_ireqs /\ run.post_ireqs <= LastPc
  <2>1. /\ if_req.present => if_req.addr = fetch_pc /\ fetch_pc <= LastPc
        /\ fetch_pc \in Nat /\ fetch_pc <= LastPc + 1
    BY <1>1, <1>3, InTurnAt DEF InTurn
  <2>2. BenchWires.en <=> run.fetch_enable
    BY DEF BenchWires, Wires
  <2>3. if_req.present \/ turnover_offer(BenchWires)
    BY <1>5 DEF ireq_fire, ibus_req_fire, ibus_req_valid, BenchWires
  <2>4. ~if_req.present => run.fetch_enable
    BY <2>2, <2>3 DEF turnover_offer
  <2>5. fetch_pc <= LastPc
    BY <1>5, <2>1, <2>4 DEF recovery, RestartInv
  <2>6. ireq_addr = fetch_pc
    BY <2>1 DEF ireq_addr, active_req
  <2> QED BY <1>1, <2>5, <2>6
<1>6. trace_valid => n \in DOMAIN Restarted.events /\ trace = Restarted.events[n]
  <2>1. trace_valid => n \in 1 .. LastPc + 1
    BY <1>3, <1>4
  <2> QED BY <1>3, <1>4, <2>1
<1>7. ASSUME run.phase \in {"drained", "done"}
      PROVE  /\ run.post_ireqs = LastPc + 1 /\ rf = Restarted.state.gpr
             /\ dmem = Restarted.state.ram
             /\ run.edges # 0 => NothingOwned
  <2>1. /\ ~run.fetch_enable /\ Idle /\ (run.edges # 0 => ~trace_valid)
        /\ n = LastPc + 1 /\ run.post_ireqs = LastPc + 1
    BY <1>2, <1>7 DEF RestartInv
  <2>2. Depth = 0 /\ ~StorePending
    BY <2>1 DEF Idle, Depth, Shows, StorePending, exmem_external_mem
  <2>3. n + Depth = LastPc + 1
    BY <1>3, <2>1, <2>2
  <2>4. rf = Restarted.state.gpr /\ dmem = Restarted.state.ram
    BY <1>3, <1>4, <2>1, <2>2, <2>3
  <2>5. run.edges # 0 => NothingOwned
    BY <2>1 DEF Idle, NothingOwned, dbus_req_valid, dbus_resp_ready, exmem_external_mem, core_idle,
                ibus_resp_ready, ibus_req_valid, turnover_offer, ibus_resp_fire
  <2> QED BY <2>1, <2>4, <2>5
<1>8. RestartExact
  BY <1>2, <1>5, <1>6, <1>7 DEF RestartExact, recovery
<1>9. run.phase = "quiet" => dmem = MemoryAfterWork
  <2> SUFFICES ASSUME run.phase = "quiet" PROVE dmem = MemoryAfterWork
    OBVIOUS
  <2>1. n = 0 /\ Idle
    BY <1>2 DEF RestartInv, ResetBenchInv, Cold
  <2>2. Depth = 0 /\ ~StorePending
    BY <2>1 DEF Idle, Depth, Shows, StorePending, exmem_external_mem
  <2>3. dmem = h[0].state.ram
    BY <1>4, <2>1, <2>2
  <2> QED BY <1>3, <2>3 DEF reset
<1> QED BY <1>7, <1>8, <1>9

(* The restart program's run begins where the reset has left the core.       *)
LEMMA RestartLoaded ==
  ASSUME ResetBenchInv, LoadRestart, Empty, InTurn(LastPc),
         dmem = MemoryAfterWork, run.post_events = 0, run.post_ireqs = 0
  PROVE  RestartInv(RestartRun)'
<1>1. CheckersInv' /\ Cold' /\ CpuInv'
  BY LoadHarmless DEF CheckersInv
<1>2. AtReset /\ DOMAIN run = RunFields /\ run.phase = "reset"
  BY DEF ResetBenchInv, LoadRestart, RunShape
<1>3. /\ run'.phase = "quiet" /\ run'.post_events = 0 /\ run'.post_ireqs = 0
      /\ run'.scenario = run.scenario
  BY <1>2 DEF LoadRestart, RunFields
<1>4. /\ UNCHANGED <<frontVars, bpuVars, backVars, csrVars, outVars, islot, dslot, dmem,
                     verification_halt, dheld>>
      /\ imem' = RestartWork
  BY DEF LoadRestart
<1>5. Cleared' /\ Empty'
  BY <1>2, <1>4 DEF AtReset, Cleared, Empty, Rom!ResetSlot, Ram!ResetSlot, frontVars, bpuVars,
                    backVars, csrVars, outVars
<1>6. FollowsReset'
  BY <1>1, <1>5, FollowsClear, PTL
<1>7. PICK h, s : h = RestartRun /\ s = reset(imem', dmem')
  OBVIOUS
<1>8. Follows(s)'
  BY <1>6, <1>7 DEF FollowsReset, Follows
<1>9. InLine(h, RestartWork, LastPc + 1) /\ h[0].state = s /\ LastPc \in Nat
  BY <1>4, <1>7, RestartStraight
<1>10. Depth' = 0 /\ ~trace_valid'
  BY <1>1 DEF Cold, Idle, Depth, Shows
<1>11. Tracks(h, LastPc + 1, 0)'
  BY <1>8, <1>9, <1>10 DEF Tracks
<1>12. /\ fetch_pc' = 0 /\ ~if_req'.present /\ ~if_out'.valid /\ ~if_buf'.valid
       /\ ~IF_ID'.valid /\ ~ID_EX'.valid /\ ~EX_MEM'.accepted
  BY <1>1, <1>5 DEF Empty, RESET_PC, Cold, Idle
<1>13. InTurn(LastPc)'
  BY <1>4 DEF InTurn, frontVars, backVars
<1>14. RestartRun' = h
  BY <1>3, <1>7 DEF RestartRun, MemoryAfterWork
<1>15. RestartInv(h)'
  BY <1>3, <1>11, <1>12, <1>13 DEF RestartInv
<1> QED BY <1>14, <1>15 DEF RestartInv

(* The reference model's run of the work before the reset, *)
WorkProgram == IF access = "store" THEN StoreWork ELSE LoadWork
WorkRun     == reference_run(JobOf(WorkProgram, OldRam, TargetPc))

(* whose last instruction is the only one that accesses memory.              *)
AccessesLast(h) ==
  /\ InLine(h, WorkProgram, TargetPc + 1)
  /\ \A n \in 0 .. TargetPc - 1 : step_event(h[n].state).mem = "none"
  /\ step_event(h[TargetPc].state).mem = (IF access = "store" THEN "store" ELSE "load")
  /\ step_event(h[TargetPc].state).addr \in RamAddr
  /\ \A n \in 0 .. TargetPc : h[n].state.ram = OldRam
  /\ h[TargetPc + 1].state.ram = IF access = "store" THEN StoredRam ELSE OldRam

(* So it does.                                                               *)
LEMMA WorkStraight ==
  AccessesLast(WorkRun) /\ WorkRun[0].state = reset(WorkProgram, OldRam)
<1> DEFINE R == RunOf(WorkProgram, OldRam, TargetPc)
           mem == IF access = "store" THEN "store" ELSE "load"
<1>1. TargetPc = 3 /\ TargetPc \in Nat
  BY DEF TargetPc
<1>2. StraightLine(WorkProgram, OldRam, TargetPc) /\ LastAccesses(WorkProgram, TargetPc, mem)
  BY StraightAssumption DEF WorkProgram
<1>3. PICK h, p : h = WorkRun /\ p = WorkProgram
  OBVIOUS
<1>4. StraightLine(p, OldRam, TargetPc) /\ h = reference_run(JobOf(p, OldRam, TargetPc))
  BY <1>2, <1>3 DEF WorkRun
<1>5. /\ InLine(h, p, TargetPc + 1) /\ h[0].state = reset(p, OldRam)
      /\ RunOf(p, OldRam, TargetPc).state = h[TargetPc + 1].state
      /\ \A n \in 1 .. TargetPc + 1 :
           RunOf(p, OldRam, TargetPc).events[n] = step_event(h[n - 1].state)
  BY <1>1, <1>4, StraightRun
<1>6. R = RunOf(p, OldRam, TargetPc)
  BY <1>3
<1>7. \A n \in 0 .. 3 : R.events[n + 1] = step_event(h[n].state)
  <2>1. \A n \in 0 .. 3 : n + 1 \in 1 .. 4 /\ (n + 1) - 1 = n
    OBVIOUS
  <2>2. \A n \in 1 .. 4 : R.events[n] = step_event(h[n - 1].state)
    BY <1>1, <1>5, <1>6
  <2> QED BY <2>1, <2>2
<1>8. /\ R.events[4].addr \in RamAddr /\ R.events[4].mem = mem
      /\ \A n \in 0 .. 2 : R.events[n + 1].mem = "none"
  <2>1. /\ R.events[TargetPc + 1].addr \in RamAddr
        /\ \A n \in 0 .. TargetPc :
             R.events[n + 1].mem = IF n = TargetPc THEN mem ELSE "none"
    BY <1>2 DEF LastAccesses
  <2> HIDE DEF R, mem
  <2> QED BY <1>1, <2>1
<1> HIDE DEF R, mem
<1>9. /\ \A n \in 0 .. 2 : step_event(h[n].state).mem = "none"
      /\ step_event(h[3].state).mem = mem /\ step_event(h[3].state).addr \in RamAddr
  BY <1>7, <1>8
<1>10. \A n \in 0 .. 3 : step_event(h[n].state).mem # "store" => h[n + 1].state.ram = h[n].state.ram
  BY <1>1, <1>5 DEF InLine
<1>11. h[0].state.ram = OldRam
  BY <1>5 DEF reset
<1>12. h[1].state.ram = OldRam /\ h[2].state.ram = OldRam /\ h[3].state.ram = OldRam
  BY <1>9, <1>10, <1>11
<1>13. \A n \in 0 .. 3 : h[n].state.ram = OldRam
  BY <1>11, <1>12
<1>14. h[4].state.ram = IF access = "store" THEN StoredRam ELSE OldRam
  <2>1. CASE access = "store"
    BY <1>1, <1>3, <1>5, <2>1 DEF StoredRam, WorkProgram
  <2>2. CASE access # "store"
    BY <1>9, <1>10, <1>12, <2>2 DEF mem
  <2> QED BY <2>1, <2>2
<1> QED BY <1>1, <1>3, <1>5, <1>9, <1>13, <1>14 DEF AccessesLast, mem

(* What the instruction in MEM is. *)
LEMMA MemAt ==
  ASSUME CpuInv, NEW h, AccessesLast(h), NEW n, Tracks(h, TargetPc + 1, n)
  PROVE  /\ n \in 0 .. 4 /\ n + Depth \in 0 .. 4 /\ Depth \in 0 .. 2
         /\ EX_MEM.valid =>
              /\ EX_MEM.pc = n + Depth - 1 /\ ~EX_MEM.trap
              /\ n + Depth # 4 => /\ ~memRead(EX_MEM.instr) /\ ~memWrite(EX_MEM.instr)
                                  /\ exmem_complete
              /\ n + Depth = 4 => /\ exmem_external_mem /\ OfTarget
                                  /\ memWrite(EX_MEM.instr) <=> access = "store"
<1>1. TargetPc = 3 /\ TargetPc + 1 = 4
  BY DEF TargetPc
<1>2. InLine(h, WorkProgram, 4) /\ Tracks(h, 4, n)
  BY <1>1 DEF AccessesLast
<1>3. /\ n \in Nat /\ Depth \in 0 .. 2 /\ n + Depth \in 0 .. 4
      /\ EX_MEM.valid => /\ n + Depth - 1 = n + Shows /\ n + Shows \in 0 .. 3
                         /\ ExMemEvent = step_event(h[n + Shows].state)
  BY <1>2, TracksAt
<1>4. n \in 0 .. 4
  BY <1>2 DEF Tracks
<1>5. ASSUME EX_MEM.valid
      PROVE  /\ EX_MEM.pc = n + Depth - 1 /\ ~EX_MEM.trap
             /\ n + Depth # 4 => /\ ~memRead(EX_MEM.instr) /\ ~memWrite(EX_MEM.instr)
                                 /\ exmem_complete
             /\ n + Depth = 4 => /\ exmem_external_mem /\ OfTarget
                                 /\ memWrite(EX_MEM.instr) <=> access = "store"
  <2>1. PICK i, x : i = n + Shows /\ x = step_event(h[i].state)
    OBVIOUS
  <2>2. i \in 0 .. 3 /\ i = n + Depth - 1 /\ ExMemEvent = x
    BY <1>3, <1>5, <2>1
  <2>3. x.pc = i /\ ~x.trap
    BY <1>2, <2>1, <2>2 DEF InLine
  <2>4. /\ ExMemEvent.pc = EX_MEM.pc /\ ExMemEvent.trap = EX_MEM.trap
        /\ ExMemEvent.mem = IF EX_MEM.trap THEN "none" ELSE IF memRead(EX_MEM.instr) THEN "load"
                            ELSE IF memWrite(EX_MEM.instr) THEN "store" ELSE "none"
        /\ ExMemEvent.addr = IF ExMemEvent.mem # "none" THEN EX_MEM.alu ELSE 0
    BY DEF ExMemEvent
  <2>5. EX_MEM.pc = n + Depth - 1 /\ ~EX_MEM.trap
    BY <2>2, <2>3, <2>4
  <2>6. ASSUME n + Depth # 4
        PROVE  ~memRead(EX_MEM.instr) /\ ~memWrite(EX_MEM.instr) /\ exmem_complete
    <3>1. i \in 0 .. 2
      BY <1>3, <2>2, <2>6
    <3>2. x.mem = "none"
      BY <1>1, <2>1, <3>1 DEF AccessesLast
    <3>3. ~memRead(EX_MEM.instr) /\ ~memWrite(EX_MEM.instr)
      BY <2>2, <2>4, <2>5, <3>2
    <3> QED BY <1>5, <3>3 DEF exmem_complete
  <2>7. ASSUME n + Depth = 4
        PROVE  exmem_external_mem /\ OfTarget /\ (memWrite(EX_MEM.instr) <=> access = "store")
    <3>1. i = 3
      BY <1>3, <2>2, <2>7
    <3>2. x.mem = (IF access = "store" THEN "store" ELSE "load") /\ x.addr \in RamAddr
      BY <1>1, <2>1, <3>1 DEF AccessesLast
    <3>3. /\ memRead(EX_MEM.instr) \/ memWrite(EX_MEM.instr)
          /\ memWrite(EX_MEM.instr) <=> access = "store"
      <4>1. ~(memRead(EX_MEM.instr) /\ memWrite(EX_MEM.instr))
        BY DEF memRead, memWrite
      <4> QED BY <2>2, <2>4, <2>5, <3>2, <4>1
    <3>4. EX_MEM.alu \in RamAddr
      BY <2>2, <2>4, <3>2
    <3>5. EX_MEM.alu \notin CsrPage
      BY <3>4, ArchAssumption
    <3>6. OfTarget
      <4>1. memWrite(EX_MEM.instr) \in BOOLEAN
        BY DEF memWrite
      <4>2. CASE access = "store"
        BY <3>3, <4>1, <4>2 DEF OfTarget
      <4>3. CASE access # "store"
        BY <3>3, <4>1, <4>3 DEF OfTarget
      <4> QED BY <4>2, <4>3
    <3> QED BY <1>5, <2>5, <3>3, <3>5, <3>6 DEF exmem_external_mem
  <2> QED BY <2>5, <2>6, <2>7
<1> QED BY <1>3, <1>4, <1>5

(* What it is for the target to be reached, scenario by scenario. *)
TargetIs ==
  /\ access = "fetch" /\ stage = "request_pending" =>
       (target_reached <=> ibus_req_valid(BenchWires) /\ ~ireq_ready /\ ireq_addr = TargetPc)
  /\ access = "fetch" /\ stage = "response_wait" =>
       (target_reached <=> if_out.valid /\ islot.busy /\ ~islot.resp_valid /\ if_out.pc = TargetPc)
  /\ access = "fetch" /\ stage = "response_offered" =>
       (target_reached <=> if_out.valid /\ islot.resp_valid /\ if_out.pc = TargetPc)
  /\ access # "fetch" /\ stage = "request_pending" =>
       (target_reached <=> dbus_req_valid /\ ~dbus_req_fire(db_allow) /\ OfTarget)
  /\ access # "fetch" /\ stage = "response_wait" =>
       (target_reached <=> EX_MEM.accepted /\ dslot.busy /\ ~dslot.resp_valid /\ OfTarget)
  /\ access # "fetch" /\ stage = "response_offered" =>
       (target_reached <=> EX_MEM.accepted /\ dslot.resp_valid /\ OfTarget)

(* That is what the bench's definition says, written out by scenario.        *)
LEMMA TargetCases == TargetIs
BY DEF TargetIs, target_reached, BenchWires

(* Each memory counts down the waits of the run. *)
LEMMA BenchCounts ==
  ASSUME ResetBenchInv, Edge(run.fetch_enable)
  PROVE  /\ run.memory_wait \in Nat /\ run.memory_wait >= 3 /\ HoldEdges = 3
         /\ islot.busy \in BOOLEAN /\ islot.cnt \in Nat
         /\ dslot.busy \in BOOLEAN /\ dslot.cnt \in Nat
         /\ ibus_req_fire(BenchWires, ireq_ready) =>
              islot'.busy /\ ~islot'.resp_valid /\ islot'.cnt = run.memory_wait
         /\ ~ibus_req_fire(BenchWires, ireq_ready) =>
              /\ ~islot.busy => ~islot'.busy
              /\ islot.busy /\ islot.cnt = 0 => ~islot'.busy
              /\ islot.busy /\ islot.cnt # 0 => /\ islot'.busy /\ islot'.cnt = islot.cnt - 1
                                                /\ islot'.resp_valid => islot.resp_valid
         /\ dbus_req_fire(db_allow) =>
              dslot'.busy /\ ~dslot'.resp_valid /\ dslot'.cnt = run.memory_wait
         /\ ~dbus_req_fire(db_allow) =>
              (dslot.busy /\ dslot.cnt # 0 => /\ dslot'.busy /\ dslot'.cnt = dslot.cnt - 1
                                              /\ dslot'.resp_valid => dslot.resp_valid)
<1> DEFINE fire == ibus_req_fire(BenchWires, ireq_ready)
           w == run.memory_wait
<1>1. /\ CpuInv /\ w \in MemoryWaits /\ w \in Nat
      /\ CoreEdge(BenchWires, ireq_ready, db_allow, FALSE)
      /\ Rom!SlaveEdge(fire, active_req(BenchWires).addr, NoWrite, ibus_resp_ready(BenchWires), w)
      /\ Ram!SlaveEdge(dbus_req_fire(db_allow), EX_MEM.alu, dbus_req_wdata, dbus_resp_ready, w)
  BY BenchCore
<1>2. w >= 3 /\ w # 0 /\ HoldEdges = 3
  <2>1. w >= HoldEdges
    BY <1>1, StraightAssumption
  <2> QED BY <1>1, <2>1 DEF HoldEdges
<1>3. TypeOK /\ FrontTypeOK(Instr) /\ SoundWires(BenchWires, Instr) /\ ireq_ready \in BOOLEAN
  BY <1>1 DEF CpuInv, TypeOK, CoreEdge
<1>4. fire \in BOOLEAN /\ ibus_resp_ready(BenchWires) \in BOOLEAN
  BY <1>3, FrontWires
<1>5. dbus_req_fire(db_allow) \in BOOLEAN /\ dbus_resp_ready \in BOOLEAN
  BY <1>3, MemWires DEF db_allow, dbus_req_fire, dbus_req_valid, dbus_resp_ready, exmem_external_mem,
       TypeOK, Memory
<1>6. /\ islot \in RomFacts!Slot /\ dslot \in RamFacts!Slot /\ IWaitMax \in Nat /\ DWaitMax \in Nat
      /\ RomFacts!SlaveEdge(fire, active_req(BenchWires).addr, NoWrite,
                            ibus_resp_ready(BenchWires), w)
      /\ RamFacts!SlaveEdge(dbus_req_fire(db_allow), EX_MEM.alu, dbus_req_wdata, dbus_resp_ready, w)
  BY <1>1, <1>3, SlaveFacts DEF RomFacts!SlaveTypes, RamFacts!SlaveTypes
<1> HIDE DEF fire, w
<1>7. /\ islot.busy \in BOOLEAN /\ islot.cnt \in Nat
      /\ fire => islot'.busy /\ ~islot'.resp_valid /\ islot'.cnt = w
      /\ ~fire => /\ ~islot.busy => ~islot'.busy
                  /\ islot.busy /\ islot.cnt = 0 => ~islot'.busy
                  /\ islot.busy /\ islot.cnt # 0 => /\ islot'.busy /\ islot'.cnt = islot.cnt - 1
                                                    /\ islot'.resp_valid => islot.resp_valid
  BY <1>1, <1>2, <1>4, <1>6, RomFacts!CountsDown
<1>8. /\ dslot.busy \in BOOLEAN /\ dslot.cnt \in Nat
      /\ dbus_req_fire(db_allow) => dslot'.busy /\ ~dslot'.resp_valid /\ dslot'.cnt = w
      /\ ~dbus_req_fire(db_allow) =>
           (dslot.busy /\ dslot.cnt # 0 => /\ dslot'.busy /\ dslot'.cnt = dslot.cnt - 1
                                           /\ dslot'.resp_valid => dslot.resp_valid)
  BY <1>1, <1>2, <1>5, <1>6, RamFacts!CountsDown
<1> QED BY <1>1, <1>2, <1>7, <1>8 DEF fire, w

(* The target is the last data access, and stays in MEM in its phase.        *)
DataWork ==
  /\ run.pre_events + Depth = TargetPc + 1 => EX_MEM.valid
  /\ stage = "request_pending" => ~EX_MEM.accepted
  /\ stage = "response_wait" /\ EX_MEM.valid /\ EX_MEM.accepted =>
       dslot.busy /\ dslot.cnt + run.edges = run.memory_wait

(* Edges until the ROM offers its answer. *)
Left == IF islot.busy THEN islot.cnt + 1 ELSE 0

(* The ROM is so slow that an instruction is in MEM/WB before the next comes.*)
OneInPipe(w) ==
  /\ if_buf.valid => /\ ~IF_ID.valid /\ ~ID_EX.valid /\ ~EX_MEM.valid /\ ~MEM_WB.valid
                     /\ if_out.valid => Left >= w + 1
  /\ IF_ID.valid  => /\ ~ID_EX.valid /\ ~EX_MEM.valid /\ ~MEM_WB.valid
                     /\ if_out.valid => Left >= w
  /\ ID_EX.valid  => /\ ~EX_MEM.valid /\ ~MEM_WB.valid
                     /\ if_out.valid => Left >= w - 1
  /\ EX_MEM.valid => /\ ~MEM_WB.valid
                     /\ if_out.valid => Left >= w - 2

(* The target is the last fetch, and stays on the bus in its phase. *)
FetchWork ==
  /\ InTurn(TargetPc) /\ OneInPipe(run.memory_wait)
  /\ fetch_pc = TargetPc + 1 =>
       /\ stage # "request_pending" /\ if_out.valid
       /\ stage = "response_wait" => islot.busy /\ islot.cnt + run.edges = run.memory_wait
  /\ stage = "request_pending" /\ run.edges # 0 => if_req.present

(* Until the reset. *)
WorkInv(h) ==
  /\ Tracks(h, TargetPc + 1, run.pre_events)
  /\ run.fetch_enable /\ run.scenario \in Scenarios /\ run.edges \in 0 .. HoldEdges
  /\ run.edges # 0 => target_reached /\ stage # "response_offered"
  /\ IF access = "fetch" THEN FetchWork ELSE DataWork

(* The scenarios are of the one kind or the other.                           *)
LEMMA ScenarioCases ==
  ASSUME run.scenario \in Scenarios
  PROVE  /\ access \in {"fetch", "load", "store"}
         /\ stage \in {"request_pending", "response_wait", "response_offered"}
         /\ run.scenario = <<access, stage>>
BY DEF Scenarios, access, stage

(* What an edge of the work does to the run in any scenario. *)
LEMMA WorkEdge ==
  ASSUME ResetBenchInv, Work, NEW h, AccessesLast(h), WorkInv(h),
         idex_fire => run.pre_events + Depth # TargetPc + 1
  PROVE  /\ run'.scenario = run.scenario /\ run'.memory_wait = run.memory_wait
         /\ run'.phase = "work" /\ run.phase = "work" /\ run'.fetch_enable
         /\ access' = access /\ stage' = stage
         /\ run.edges \in 0 .. 3 /\ run'.edges \in 0 .. HoldEdges
         /\ run'.edges = IF target_reached THEN run.edges + 1 ELSE 0
         /\ target_reached => stage # "response_offered" /\ run.edges < 3
         /\ run'.pre_events = (IF trace_valid' THEN run.pre_events + 1 ELSE run.pre_events)
         /\ Tracks(h, TargetPc + 1, run.pre_events)'
         /\ run'.pre_events + Depth' = run.pre_events + Depth + (IF idex_fire THEN 1 ELSE 0)
<1>1. DOMAIN run = RunFields /\ Edge(run.fetch_enable) /\ run.phase = "work"
  BY DEF ResetBenchInv, RunShape, Work, pre_reset
<1>2. /\ run'.scenario = run.scenario /\ run'.memory_wait = run.memory_wait
      /\ run'.phase = "work" /\ run'.fetch_enable = run.fetch_enable
      /\ run'.edges = (IF run.edges # 0 \/ target_reached THEN run.edges + 1 ELSE run.edges)
      /\ run'.pre_events = (IF trace_valid' THEN run.pre_events + 1 ELSE run.pre_events)
  BY <1>1 DEF Work, RunFields
<1>3. /\ run.edges # 0 => target_reached
      /\ target_reached => stage # "response_offered" /\ run.edges < HoldEdges
      /\ run.edges \in 0 .. HoldEdges /\ HoldEdges = 3 /\ run.fetch_enable
  BY DEF Work, WorkInv, HoldEdges
<1>4. PICK n, k, K : n = run.pre_events /\ k = run'.pre_events /\ K = TargetPc + 1
  OBVIOUS
<1>5. InLine(h, WorkProgram, K) /\ Tracks(h, K, n)
  BY <1>4 DEF AccessesLast, WorkInv
<1>6. PICK p : p = WorkProgram
  OBVIOUS
<1>7. InLine(h, p, K)
  BY <1>5, <1>6
<1>8. k = IF trace_valid' THEN n + 1 ELSE n
  BY <1>2, <1>4
<1>9. /\ Tracks(h, K, k)'
      /\ n + Depth + (IF idex_fire THEN 1 ELSE 0) = k + Depth'
  BY <1>1, <1>4, <1>5, <1>7, <1>8, BenchTracks
<1>10. K = (TargetPc + 1)'
  BY <1>4 DEF TargetPc
<1>11. Tracks(h, TargetPc + 1, run.pre_events)'
  BY <1>4, <1>9, <1>10 DEF Tracks
<1>12. run'.edges \in 0 .. HoldEdges
  BY <1>2, <1>3
<1>13. run'.edges = IF target_reached THEN run.edges + 1 ELSE 0
  BY <1>2, <1>3
<1>14. access' = access /\ stage' = stage
  BY <1>2 DEF access, stage
<1> QED BY <1>1, <1>2, <1>3, <1>4, <1>9, <1>11, <1>12, <1>13, <1>14

(* In the scenarios of a data access, it is in MEM when its phase is reached.*)
LEMMA DataTarget ==
  ASSUME ResetBenchInv, NEW h, AccessesLast(h), WorkInv(h), access # "fetch", target_reached
  PROVE  /\ run.pre_events + Depth = 4 /\ run.pre_events \in 0 .. 4 /\ Depth \in 0 .. 2
         /\ exmem_external_mem /\ EX_MEM.valid /\ OfTarget
         /\ stage # "request_pending" => EX_MEM.accepted
<1>1. /\ CpuInv /\ DataOwnership /\ ~verification_halt /\ run.scenario \in Scenarios
      /\ Tracks(h, TargetPc + 1, run.pre_events)
  BY DEF ResetBenchInv, CheckersInv, CpuInv, WorkInv
<1>2. stage \in {"request_pending", "response_wait", "response_offered"}
  BY <1>1, ScenarioCases
<1>3. exmem_external_mem /\ OfTarget /\ (stage # "request_pending" => EX_MEM.accepted)
  <2>1. CASE stage = "request_pending"
    BY <2>1, TargetCases DEF TargetIs, dbus_req_valid
  <2>2. CASE stage # "request_pending"
    <3>1. (dslot.busy \/ dslot.resp_valid) /\ OfTarget /\ EX_MEM.accepted
      BY <1>2, <2>2, TargetCases DEF TargetIs
    <3>2. exmem_external_mem
      BY <1>1, <3>1 DEF DataOwnership, Ram!Occupied
    <3> QED BY <3>1, <3>2
  <2> QED BY <2>1, <2>2
<1>4. EX_MEM.valid /\ (memRead(EX_MEM.instr) \/ memWrite(EX_MEM.instr))
  BY <1>3 DEF exmem_external_mem
<1>5. PICK n : n = run.pre_events
  OBVIOUS
<1>6. n \in 0 .. 4 /\ Depth \in 0 .. 2 /\ n + Depth = 4
  BY <1>1, <1>4, <1>5, MemAt
<1> QED BY <1>3, <1>4, <1>5, <1>6

(* The target is not done before the reset. *)
LEMMA TargetHeld ==
  ASSUME ResetBenchInv, Work, NEW h, AccessesLast(h), WorkInv(h), access # "fetch"
  PROVE  /\ run.pre_events + Depth = 4 => EX_MEM.valid /\ ~exmem_complete
         /\ idex_fire => run.pre_events + Depth # TargetPc + 1
         /\ ~exmem_can_accept => run.pre_events + Depth = 4
<1>1. /\ CpuInv /\ DataOwnership /\ ~verification_halt /\ run.scenario \in Scenarios
      /\ Tracks(h, TargetPc + 1, run.pre_events) /\ DataWork /\ TargetPc + 1 = 4
  BY DEF ResetBenchInv, CheckersInv, CpuInv, WorkInv, TargetPc
<1>2. PICK n : n = run.pre_events
  OBVIOUS
<1>3. /\ EX_MEM.valid => /\ ~EX_MEM.trap
                         /\ n + Depth # 4 => exmem_complete
                         /\ n + Depth = 4 => exmem_external_mem /\ OfTarget
  BY <1>1, <1>2, MemAt
<1>4. ASSUME n + Depth = 4 PROVE EX_MEM.valid /\ ~exmem_complete
  <2>1. EX_MEM.valid /\ ~EX_MEM.trap /\ exmem_external_mem /\ OfTarget
    BY <1>1, <1>2, <1>3, <1>4 DEF DataWork
  <2> SUFFICES ASSUME exmem_complete PROVE FALSE
    BY <2>1
  <2>2. EX_MEM.accepted /\ dslot.resp_valid
    BY <2>1 DEF exmem_complete, exmem_external_mem, exmem_csr_read, dbus_resp_fire, dbus_resp_ready
  <2>3. CASE stage = "request_pending"
    BY <1>1, <2>2, <2>3 DEF DataWork
  <2>4. CASE stage = "response_wait"
    BY <1>1, <2>1, <2>2, <2>4 DEF DataWork, DataOwnership
  <2>5. CASE stage = "response_offered"
    BY <2>1, <2>2, <2>5, TargetCases DEF TargetIs, Work
  <2> QED BY <1>1, <2>3, <2>4, <2>5, ScenarioCases
<1>5. idex_fire => n + Depth # 4
  BY <1>4 DEF idex_fire, exmem_can_accept
<1>6. ~exmem_can_accept => n + Depth = 4
  BY <1>3 DEF exmem_can_accept
<1> QED BY <1>1, <1>2, <1>4, <1>5, <1>6

(* An edge of the work keeps it, where the target is a data access, *)
LEMMA WorkDataEdge ==
  ASSUME ResetBenchInv, Work, NEW h, AccessesLast(h), WorkInv(h), access # "fetch"
  PROVE  WorkInv(h)'
<1>1. /\ CpuInv /\ ~verification_halt /\ ~verification_halt' /\ EX_MEM \in Memory
      /\ TypeOK' /\ Edge(run.fetch_enable) /\ db_allow \in BOOLEAN
      /\ CoreEdge(BenchWires, ireq_ready, db_allow, FALSE) /\ DataOwnership
  BY BenchCore DEF Work, CpuInv, TypeOK
<1>15. TargetIs'
  BY TargetCases, PTL
<1>2. /\ run.scenario \in Scenarios /\ DataWork /\ TargetPc + 1 = 4
      /\ stage \in {"request_pending", "response_wait", "response_offered"}
      /\ pre_reset
  BY ScenarioCases DEF WorkInv, TargetPc, Work
<1>3. /\ run.pre_events + Depth = 4 => EX_MEM.valid /\ ~exmem_complete
      /\ idex_fire => run.pre_events + Depth # TargetPc + 1
      /\ ~exmem_can_accept => run.pre_events + Depth = 4
  BY TargetHeld
<1>4. /\ run'.scenario = run.scenario /\ run'.memory_wait = run.memory_wait
      /\ run'.phase = "work" /\ run'.fetch_enable
      /\ access' = access /\ stage' = stage
      /\ run.edges \in 0 .. 3 /\ run'.edges \in 0 .. HoldEdges
      /\ run'.edges = (IF target_reached THEN run.edges + 1 ELSE 0)
      /\ target_reached => stage # "response_offered" /\ run.edges < 3
      /\ Tracks(h, TargetPc + 1, run.pre_events)'
      /\ run'.pre_events + Depth' = run.pre_events + Depth + (IF idex_fire THEN 1 ELSE 0)
  BY <1>3, WorkEdge
<1>5. /\ EX_MEM'.valid <=> idex_fire \/ ~exmem_can_accept
      /\ EX_MEM'.accepted => ~exmem_can_accept
      /\ ~exmem_can_accept =>
           /\ EX_MEM'.instr = EX_MEM.instr /\ EX_MEM'.alu = EX_MEM.alu /\ EX_MEM'.trap = EX_MEM.trap
           /\ EX_MEM'.accepted <=> EX_MEM.accepted \/ dbus_req_fire(db_allow)
  <2>1. EX_MEM' = NextExMem(db_allow)
    BY <1>1 DEF CoreEdge
  <2>2. idex_fire => exmem_can_accept
    BY DEF idex_fire
  <2>3. EX_MEM'.valid <=> idex_fire \/ ~exmem_can_accept
    BY <1>1, DepthStep
  <2>4. EX_MEM'.accepted => ~exmem_can_accept
    BY <1>1, <2>1 DEF NextExMem, Memory
  <2>5. ASSUME ~exmem_can_accept
        PROVE  /\ EX_MEM'.instr = EX_MEM.instr /\ EX_MEM'.alu = EX_MEM.alu
               /\ EX_MEM'.trap = EX_MEM.trap
               /\ EX_MEM'.accepted <=> EX_MEM.accepted \/ dbus_req_fire(db_allow)
    BY <1>1, <2>1, <2>2, <2>5 DEF NextExMem, Memory
  <2> QED BY <2>3, <2>4, <2>5
<1>6. (run.pre_events + Depth = TargetPc + 1 => EX_MEM.valid)'
  <2>1. CASE idex_fire
    BY <1>5, <2>1
  <2>2. CASE ~idex_fire
    <3>1. PICK a, b : a = run.pre_events + Depth /\ b = run'.pre_events + Depth'
      OBVIOUS
    <3>2. a \in Nat /\ b = a + 0
      <4>1. a \in Nat
        BY <3>1, DepthNat DEF WorkInv, Tracks
      <4> QED BY <1>4, <2>2, <3>1, <4>1
    <3>3. b = 4 => ~exmem_can_accept
      BY <1>3, <3>1, <3>2 DEF exmem_can_accept
    <3> QED BY <1>2, <1>5, <3>1, <3>3 DEF TargetPc
  <2> QED BY <2>1, <2>2
<1>7. stage = "request_pending" => ~EX_MEM'.accepted
  <2> SUFFICES ASSUME stage = "request_pending" PROVE ~EX_MEM'.accepted
    OBVIOUS
  <2>1. ~db_allow /\ ~EX_MEM.accepted
    BY <1>2 DEF db_allow, DataWork
  <2> QED BY <1>5, <2>1 DEF dbus_req_fire
<1>8. ASSUME stage = "response_wait", EX_MEM'.accepted
      PROVE  /\ dslot'.busy /\ dslot'.cnt + run'.edges = run.memory_wait
             /\ target_reached => ~dslot'.resp_valid
  <2>1. ~exmem_can_accept /\ (EX_MEM.accepted \/ dbus_req_fire(db_allow))
    BY <1>5, <1>8
  <2>2. EX_MEM.valid /\ exmem_external_mem /\ OfTarget
    <3>1. PICK n : n = run.pre_events
      OBVIOUS
    <3>2. n + Depth = 4 /\ EX_MEM.valid
      BY <1>3, <2>1, <3>1
    <3> QED BY <1>1, <3>1, <3>2, MemAt DEF WorkInv
  <2>3. CASE EX_MEM.accepted
    <3>1. dslot.busy /\ dslot.cnt + run.edges = run.memory_wait /\ ~dslot.resp_valid
      BY <1>1, <1>2, <1>8, <2>2, <2>3 DEF DataWork, DataOwnership
    <3>2. target_reached
      BY <1>8, <2>2, <2>3, <3>1, TargetCases DEF TargetIs
    <3>3. ~dbus_req_fire(db_allow)
      BY <2>3 DEF dbus_req_fire, dbus_req_valid
    <3>4. run'.edges = run.edges + 1 /\ run.edges < 3
      BY <1>4, <3>2
    <3>5. dslot.cnt \in Nat /\ run.memory_wait \in Nat /\ run.memory_wait >= 3
      BY <1>1, BenchCounts
    <3>6. dslot.cnt # 0
      BY <1>4, <3>1, <3>4, <3>5
    <3>7. dslot'.busy /\ dslot'.cnt = dslot.cnt - 1 /\ (dslot'.resp_valid => dslot.resp_valid)
      BY <1>1, <3>1, <3>3, <3>6, BenchCounts
    <3> QED BY <1>4, <3>1, <3>4, <3>5, <3>7
  <2>4. CASE dbus_req_fire(db_allow)
    <3>1. ~EX_MEM.accepted
      BY <2>4 DEF dbus_req_fire, dbus_req_valid
    <3>2. ~target_reached
      BY <1>8, <3>1, TargetCases DEF TargetIs
    <3>3. dslot'.busy /\ dslot'.cnt = run.memory_wait /\ run.memory_wait \in Nat
      BY <1>1, <2>4, BenchCounts
    <3> QED BY <1>4, <3>2, <3>3
  <2> QED BY <2>1, <2>3, <2>4
<1>9. ASSUME run'.edges # 0 PROVE target_reached' /\ stage' # "response_offered"
  <2>1. target_reached /\ stage # "response_offered"
    BY <1>4, <1>9
  <2>2. /\ exmem_external_mem /\ EX_MEM.valid /\ OfTarget
        /\ run.pre_events + Depth = 4
        /\ stage # "request_pending" => EX_MEM.accepted
    BY <2>1, DataTarget
  <2>3. ~exmem_can_accept
    BY <1>3, <2>2 DEF exmem_can_accept
  <2>4. exmem_external_mem' /\ OfTarget'
    BY <1>4, <1>5, <2>2, <2>3 DEF exmem_external_mem, OfTarget
  <2>5. TargetIs'
    BY <1>15
  <2>6. CASE stage = "request_pending"
    <3>1. dbus_req_valid'
      BY <1>1, <1>7, <2>4, <2>6 DEF dbus_req_valid
    <3>2. ~db_allow'
      BY <1>4, <2>6 DEF db_allow, pre_reset
    <3>3. ~(dbus_req_fire(db_allow))'
      BY <3>2 DEF dbus_req_fire
    <3> QED BY <1>4, <2>4, <2>5, <2>6, <3>1, <3>3 DEF TargetIs
  <2>7. CASE stage = "response_wait"
    <3>1. EX_MEM'.accepted
      BY <1>5, <2>2, <2>3, <2>7
    <3>2. dslot'.busy /\ ~dslot'.resp_valid
      BY <1>8, <2>1, <2>7, <3>1
    <3> QED BY <1>4, <2>4, <2>5, <2>7, <3>1, <3>2 DEF TargetIs
  <2> QED BY <1>2, <1>4, <2>1, <2>6, <2>7
<1>10. DataWork'
  BY <1>4, <1>6, <1>7, <1>8 DEF DataWork
<1>11. (run.fetch_enable /\ run.scenario \in Scenarios /\ run.edges \in 0 .. HoldEdges)'
  <2>1. run'.fetch_enable /\ run'.scenario \in Scenarios /\ run'.edges \in 0 .. HoldEdges
    BY <1>2, <1>4
  <2> QED BY <2>1 DEF HoldEdges, Scenarios
<1>12. (run.edges # 0 => target_reached /\ stage # "response_offered")'
  BY <1>9
<1>13. (IF access = "fetch" THEN FetchWork ELSE DataWork)'
  BY <1>4, <1>10
<1>14. Tracks(h, TargetPc + 1, run.pre_events)' 
  BY <1>4
<1>20. WorkInv(h)'
  BY <1>11, <1>12, <1>13, <1>14 DEF WorkInv
<1> QED BY <1>20

(* With one instruction in the pipeline and none held, every edge moves it on.*)
LEMMA ShiftsOn ==
  ASSUME CpuInv, NEW e, NEW irdy, NEW open \in BOOLEAN, NEW halt, CoreEdge(e, irdy, open, halt),
         ~verification_halt, ~e.redirect, ~e.halt, EX_MEM.valid => exmem_complete,
         NEW w, OneInPipe(w)
  PROVE  /\ if_buf'.valid <=> fill_buffer(e)
         /\ IF_ID'.valid  <=> if_buf.valid
         /\ ID_EX'.valid  <=> IF_ID.valid
         /\ EX_MEM'.valid <=> ID_EX.valid
         /\ MEM_WB'.valid <=> EX_MEM.valid
<1>1. /\ TypeOK /\ FrontEdge(e, irdy) /\ ID_EX' = NextIdEx(e)
      /\ e.issue <=> idex_slot_available /\ ~load_hazard
      /\ if_buf \in Fetched(Instr) /\ IF_ID \in Fetched(Instr) /\ ID_EX \in Decoded
      /\ EX_MEM.valid \in BOOLEAN
  BY DEF CpuInv, TypeOK, FrontTypeOK, CoreEdge, Memory
<1>2. /\ if_buf.valid => ~IF_ID.valid /\ ~ID_EX.valid
      /\ IF_ID.valid => ~ID_EX.valid
      /\ ID_EX.valid => ~EX_MEM.valid
  BY DEF OneInPipe
<1>3. exmem_can_accept /\ (exmem_complete => EX_MEM.valid)
  BY DEF exmem_can_accept, exmem_complete
<1>4. idex_fire <=> ID_EX.valid
  BY <1>1, <1>2, <1>3 DEF idex_fire, forward_blocked, blocked, ex_match, Decoded
<1>5. idex_slot_available /\ ~load_hazard /\ e.issue
  BY <1>1, <1>2, <1>4 DEF idex_slot_available, load_hazard
<1>6. ifid_to_idex(e) <=> IF_ID.valid
  BY <1>1, <1>5 DEF ifid_to_idex, Fetched
<1>7. ifbuf_to_ifid(e) <=> if_buf.valid
  BY <1>1, <1>6 DEF ifbuf_to_ifid, ifid_slot_available, Fetched
<1>8. if_buf'.valid <=> fill_buffer(e)
  <2>1. if_buf' = NextBuffer(e)
    BY <1>1 DEF FrontEdge
  <2>2. CASE fill_buffer(e)
    BY <2>1, <2>2 DEF NextBuffer
  <2>3. CASE ~fill_buffer(e)
    BY <1>1, <1>7, <2>1, <2>3 DEF NextBuffer, Fetched
  <2> QED BY <2>2, <2>3
<1>9. IF_ID'.valid <=> if_buf.valid
  <2>1. IF_ID' = NextIfId(e)
    BY <1>1 DEF FrontEdge
  <2>2. CASE if_buf.valid
    BY <1>7, <2>1, <2>2 DEF NextIfId
  <2>3. CASE ~if_buf.valid
    BY <1>1, <1>6, <1>7, <2>1, <2>3 DEF NextIfId, ifid_slot_available, Fetched
  <2> QED BY <2>2, <2>3
<1>10. ID_EX'.valid <=> IF_ID.valid
  <2>1. CASE IF_ID.valid
    BY <1>1, <1>6, <2>1 DEF NextIdEx
  <2>2. CASE ~IF_ID.valid
    BY <1>1, <1>5, <1>6, <2>2 DEF NextIdEx, Decoded
  <2> QED BY <2>1, <2>2
<1>11. /\ EX_MEM'.valid <=> ID_EX.valid
       /\ MEM_WB'.valid <=> EX_MEM.valid
  BY <1>3, <1>4, DepthStep
<1> QED BY <1>8, <1>9, <1>10, <1>11

(* A slow ROM keeps it so until the last fetch.                              *)
LEMMA OneInPipeStep ==
  ASSUME ResetBenchInv, Edge(run.fetch_enable), OneInPipe(run.memory_wait),
         run'.memory_wait = run.memory_wait,
         ~BenchWires.redirect, ~BenchWires.halt, EX_MEM.valid => exmem_complete,
         ~ibus_req_fire(BenchWires, ireq_ready) =>
           (if_out'.valid => if_out.valid /\ ~ibus_resp_fire(BenchWires))
  PROVE  OneInPipe(run.memory_wait)'
<1> DEFINE fire == ibus_req_fire(BenchWires, ireq_ready)
<1>1. /\ CpuInv /\ ~verification_halt /\ db_allow \in BOOLEAN
      /\ CoreEdge(BenchWires, ireq_ready, db_allow, FALSE) /\ FetchOwnership
  BY BenchCore DEF CpuInv
<1>2. PICK w : w = run.memory_wait
  OBVIOUS
<1>3. OneInPipe(w) /\ w \in Nat /\ w >= 3
  BY <1>2, BenchCounts
<1>4. /\ if_buf'.valid <=> fill_buffer(BenchWires)
      /\ IF_ID'.valid  <=> if_buf.valid
      /\ ID_EX'.valid  <=> IF_ID.valid
      /\ EX_MEM'.valid <=> ID_EX.valid
      /\ MEM_WB'.valid <=> EX_MEM.valid
  BY <1>1, <1>3, ShiftsOn
<1>5. PICK m : m = Left'
  OBVIOUS
<1>6. /\ Left \in Nat
      /\ fire => m = w + 1
      /\ ~fire => m >= Left - 1
      /\ m \in Int
  <2>1. /\ islot.busy \in BOOLEAN /\ islot.cnt \in Nat /\ w \in Nat
        /\ fire => islot'.busy /\ islot'.cnt = w
        /\ ~fire => /\ ~islot.busy => ~islot'.busy
                    /\ islot.busy /\ islot.cnt = 0 => ~islot'.busy
                    /\ islot.busy /\ islot.cnt # 0 => islot'.busy /\ islot'.cnt = islot.cnt - 1
    BY <1>2, BenchCounts
  <2>2. m = IF islot'.busy THEN islot'.cnt + 1 ELSE 0
    BY <1>5 DEF Left
  <2> HIDE DEF fire
  <2>3. Left \in Nat
    BY <2>1 DEF Left
  <2>4. CASE fire
    BY <2>1, <2>2, <2>3, <2>4
  <2>5. CASE ~fire
    BY <2>1, <2>2, <2>5 DEF Left
  <2> QED BY <2>3, <2>4, <2>5
<1>7. fill_buffer(BenchWires) => /\ ~if_buf.valid /\ ~IF_ID.valid /\ ~ID_EX.valid /\ ~EX_MEM.valid
                                 /\ ibus_resp_fire(BenchWires)
  <2> SUFFICES ASSUME fill_buffer(BenchWires)
               PROVE  /\ ~if_buf.valid /\ ~IF_ID.valid /\ ~ID_EX.valid /\ ~EX_MEM.valid
                      /\ ibus_resp_fire(BenchWires)
    OBVIOUS
  <2>1. if_out.valid /\ islot.resp_valid /\ ibus_resp_fire(BenchWires)
    BY DEF fill_buffer, ibus_resp_fire, ibus_resp_ready, BenchWires, Wires
  <2>2. Left = 0
    BY <1>1, <2>1 DEF FetchOwnership, Left
  <2> QED BY <1>3, <2>1, <2>2 DEF OneInPipe
<1>8. ~fire => (if_out'.valid => if_out.valid /\ ~fill_buffer(BenchWires))
  BY DEF fill_buffer
<1> HIDE DEF fire
<1>9. if_buf'.valid => /\ ~IF_ID'.valid /\ ~ID_EX'.valid /\ ~EX_MEM'.valid /\ ~MEM_WB'.valid
                       /\ if_out'.valid => m >= w + 1
  BY <1>3, <1>4, <1>6, <1>7, <1>8
<1>10. IF_ID'.valid => /\ ~ID_EX'.valid /\ ~EX_MEM'.valid /\ ~MEM_WB'.valid
                       /\ if_out'.valid => m >= w
  BY <1>3, <1>4, <1>6, <1>8 DEF OneInPipe
<1>11. ID_EX'.valid => /\ ~EX_MEM'.valid /\ ~MEM_WB'.valid
                       /\ if_out'.valid => m >= w - 1
  BY <1>3, <1>4, <1>6, <1>8 DEF OneInPipe
<1>12. EX_MEM'.valid => /\ ~MEM_WB'.valid
                        /\ if_out'.valid => m >= w - 2
  BY <1>3, <1>4, <1>6, <1>8 DEF OneInPipe
<1>13. OneInPipe(w)'
  BY <1>5, <1>9, <1>10, <1>11, <1>12 DEF OneInPipe
<1> QED BY <1>2, <1>13 DEF OneInPipe

(* In the scenarios of a fetch, the target does not execute: nothing is held.*)
LEMMA FetchFree ==
  ASSUME ResetBenchInv, NEW h, AccessesLast(h), WorkInv(h), access = "fetch"
  PROVE  /\ EX_MEM.valid => exmem_complete
         /\ run.pre_events + Depth # 4
         /\ if_out.valid /\ fetch_pc = 4 => if_out.pc = 3
         /\ if_out.valid /\ if_out.pc = 3 => fetch_pc = 4
<1>1. /\ CpuInv /\ Tracks(h, TargetPc + 1, run.pre_events) /\ FetchWork /\ TargetPc = 3
      /\ InTurn(3) /\ (fetch_pc = 4 => if_out.valid)
  BY DEF ResetBenchInv, CheckersInv, CpuInv, WorkInv, FetchWork, TargetPc
<1>2. PICK n : n = run.pre_events
  OBVIOUS
<1>3. /\ if_req.present => if_req.addr = fetch_pc /\ fetch_pc <= 3
      /\ if_out.valid => fetch_pc = if_out.pc + 1 /\ if_out.pc <= 3
      /\ fetch_pc \in Nat /\ if_out.pc \in Nat
  BY <1>1, InTurnAt
<1>4. ExecutePc # 4
  BY <1>1, <1>3 DEF ExecutePc, NextIssue, FromBuffer, FromOutstanding, FromRequest, LiveRequest,
         LiveOutstanding, InTurn
<1>5. n + Depth = ExecutePc
  <2>1. InLine(h, WorkProgram, TargetPc + 1) /\ Tracks(h, TargetPc + 1, n)
    BY <1>1, <1>2 DEF AccessesLast
  <2>2. PICK p, K : p = WorkProgram /\ K = TargetPc + 1
    OBVIOUS
  <2>3. InLine(h, p, K) /\ Tracks(h, K, n)
    BY <2>1, <2>2
  <2> QED BY <2>3, TracksAt
<1>6. EX_MEM.valid => exmem_complete
  BY <1>1, <1>2, <1>4, <1>5, MemAt
<1>7. if_out.valid => (fetch_pc = 4 <=> if_out.pc = 3)
  BY <1>3
<1> QED BY <1>2, <1>4, <1>5, <1>6, <1>7

(* Once the target is fetched no more is asked for before the reset. *)
LEMMA FetchHeld ==
  ASSUME ResetBenchInv, Work, NEW h, AccessesLast(h), WorkInv(h), access = "fetch"
  PROVE  /\ fetch_pc = 4 => /\ stage # "request_pending" /\ if_out.valid /\ if_out.pc = 3
                            /\ ~islot.resp_valid /\ (stage = "response_wait" => target_reached)
                            /\ ~fetch_can_launch(BenchWires) /\ ~turnover_offer(BenchWires)
                            /\ ~ibus_resp_fire(BenchWires)
         /\ stage = "request_pending" /\ target_reached =>
              /\ ~ibus_req_fire(BenchWires, ireq_ready) /\ ibus_req_valid(BenchWires)
              /\ ireq_addr = 3
<1>1. /\ FetchOwnership /\ ~verification_halt /\ run.scenario \in Scenarios
      /\ FetchWork /\ TargetPc = 3
      /\ stage \in {"request_pending", "response_wait", "response_offered"}
  BY ScenarioCases DEF ResetBenchInv, CheckersInv, CpuInv, WorkInv, TargetPc
<1>2. ASSUME fetch_pc = 4
      PROVE  /\ stage # "request_pending" /\ if_out.valid /\ if_out.pc = 3
             /\ ~islot.resp_valid /\ (stage = "response_wait" => target_reached)
             /\ ~fetch_can_launch(BenchWires) /\ ~turnover_offer(BenchWires)
             /\ ~ibus_resp_fire(BenchWires)
  <2>1. stage # "request_pending" /\ if_out.valid /\ if_out.pc = 3
        /\ (stage = "response_wait" => islot.busy)
    BY <1>1, <1>2, FetchFree DEF FetchWork
  <2>2. ASSUME stage = "response_wait" PROVE ~islot.resp_valid /\ target_reached
    <3>1. ~islot.resp_valid
      BY <1>1, <2>1, <2>2 DEF FetchOwnership
    <3>2. target_reached
      BY <1>1, <2>1, <2>2, <3>1, TargetCases DEF TargetIs
    <3> QED BY <3>1, <3>2
  <2>3. ASSUME stage = "response_offered" PROVE ~islot.resp_valid
    <3>1. target_reached <=> if_out.valid /\ islot.resp_valid /\ if_out.pc = 3
      BY <1>1, <2>3, TargetCases DEF TargetIs
    <3>2. ~target_reached
      BY <2>3 DEF Work
    <3> QED BY <2>1, <2>3, <3>1, <3>2
  <2>4. ~islot.resp_valid /\ (stage = "response_wait" => target_reached)
    BY <1>1, <2>1, <2>2, <2>3
  <2>5. ~fetch_can_launch(BenchWires)
    BY <2>1 DEF fetch_can_launch
  <2>6. ~ibus_resp_fire(BenchWires)
    BY <2>4 DEF ibus_resp_fire, BenchWires, Wires
  <2> QED BY <2>1, <2>4, <2>5, <2>6 DEF turnover_offer
<1>3. stage = "request_pending" /\ target_reached =>
        /\ ~ibus_req_fire(BenchWires, ireq_ready) /\ ibus_req_valid(BenchWires) /\ ireq_addr = 3
  BY <1>1, TargetCases DEF TargetIs, ibus_req_fire
<1> QED BY <1>2, <1>3

(* A presented request is for the next instruction.                          *)
LEMMA InTurnAddr == CpuInv /\ InTurn(3) => (if_req.present => if_req.addr = fetch_pc)
BY InTurnAt

(* An edge of the work keeps it, where the target is a fetch.                *)
LEMMA WorkFetchEdge ==
  ASSUME ResetBenchInv, Work, NEW h, AccessesLast(h), WorkInv(h), access = "fetch"
  PROVE  WorkInv(h)'
<1>1. /\ CpuInv /\ CpuInv' /\ TypeOK' /\ ~verification_halt /\ ~verification_halt'
      /\ Edge(run.fetch_enable) /\ db_allow \in BOOLEAN /\ ireq_ready \in BOOLEAN
      /\ CoreEdge(BenchWires, ireq_ready, db_allow, FALSE) /\ FetchOwnership
      /\ run.phase = "work" /\ FrontEdge(BenchWires, ireq_ready)
  <2>1. Edge(run.fetch_enable) /\ run.phase = "work"
    BY DEF Work, pre_reset
  <2>2. CheckersInv'
    BY <2>1, BenchEdge
  <2>3. CpuInv'
    BY <2>2 DEF CheckersInv
  <2> QED BY <2>1, <2>3, BenchCore DEF CpuInv, CoreEdge
<1>2. /\ run.scenario \in Scenarios /\ FetchWork /\ InTurn(3) /\ TargetPc = 3 /\ TargetPc + 1 = 4
      /\ OneInPipe(run.memory_wait)
      /\ stage \in {"request_pending", "response_wait", "response_offered"}
      /\ run.scenario = <<access, stage>>
  BY ScenarioCases DEF WorkInv, TargetPc, FetchWork
<1>3. /\ EX_MEM.valid => exmem_complete
      /\ run.pre_events + Depth # 4
      /\ if_out.valid /\ fetch_pc = 4 => if_out.pc = 3
      /\ if_out.valid /\ if_out.pc = 3 => fetch_pc = 4
  BY FetchFree
<1>4. /\ fetch_pc = 4 => /\ stage # "request_pending" /\ if_out.valid /\ if_out.pc = 3
                         /\ ~islot.resp_valid /\ (stage = "response_wait" => target_reached)
                         /\ ~fetch_can_launch(BenchWires) /\ ~turnover_offer(BenchWires)
                         /\ ~ibus_resp_fire(BenchWires)
      /\ stage = "request_pending" /\ target_reached =>
           /\ ~ibus_req_fire(BenchWires, ireq_ready) /\ ibus_req_valid(BenchWires)
           /\ ireq_addr = 3
  BY FetchHeld
<1>5. /\ run'.scenario = run.scenario /\ run'.memory_wait = run.memory_wait
      /\ run'.phase = "work" /\ run'.fetch_enable
      /\ access' = access /\ stage' = stage
      /\ run.edges \in 0 .. 3 /\ run'.edges \in 0 .. HoldEdges
      /\ run'.edges = (IF target_reached THEN run.edges + 1 ELSE 0)
      /\ target_reached => stage # "response_offered" /\ run.edges < 3
      /\ Tracks(h, TargetPc + 1, run.pre_events)'
  BY <1>2, <1>3, WorkEdge
<1> DEFINE fire == ibus_req_fire(BenchWires, ireq_ready)
<1>6. /\ InTurn(3)' /\ ~BenchWires.redirect /\ ~BenchWires.halt
      /\ ~fire => /\ fetch_pc' = fetch_pc /\ if_out'.pc = if_out.pc
                  /\ if_out'.valid => if_out.valid
      /\ fire => /\ fetch_pc' = fetch_pc + 1 /\ fetch_pc <= 3
                 /\ active_req(BenchWires).addr = fetch_pc
                 /\ if_out'.valid /\ if_out'.pc = fetch_pc /\ ~if_req'.present
  <2>1. PICK n, p, e : n = run.pre_events /\ p = WorkProgram /\ e = BenchWires
    OBVIOUS
  <2>2. InLine(h, p, 3 + 1) /\ Tracks(h, 3 + 1, n)
    BY <1>2, <2>1 DEF AccessesLast, WorkInv
  <2>3. fetch_pc = 3 + 1 => ~fetch_can_launch(e) /\ ~turnover_offer(e)
    BY <1>4, <2>1
  <2>4. CoreEdge(e, ireq_ready, db_allow, FALSE)
    BY <1>1, <2>1
  <2>5. /\ InTurn(3)' /\ ~e.redirect /\ ~e.halt
        /\ ~ibus_req_fire(e, ireq_ready) => /\ fetch_pc' = fetch_pc /\ if_out'.pc = if_out.pc
                                            /\ if_out'.valid => if_out.valid
        /\ ibus_req_fire(e, ireq_ready) =>
              /\ fetch_pc' = fetch_pc + 1 /\ fetch_pc <= 3
              /\ active_req(e).addr = fetch_pc
              /\ if_out'.valid /\ if_out'.pc = fetch_pc /\ ~if_req'.present
    BY <1>1, <1>2, <2>2, <2>3, <2>4, InTurnStep
  <2> QED BY <2>1, <2>5
<1>7. ~fire => (if_out'.valid <=> if_out.valid /\ ~ibus_resp_fire(BenchWires))
  BY <1>1, <1>6 DEF FrontEdge, NextOutstanding, CpuInv, TypeOK, FrontTypeOK, Outstanding
<1>8. OneInPipe(run.memory_wait)'
  BY <1>1, <1>2, <1>3, <1>5, <1>6, <1>7, OneInPipeStep
<1>9. TargetIs'
  BY TargetCases, PTL
<1>10. if_req'.present => if_req'.addr = fetch_pc'
  <2>1. CpuInv' /\ InTurn(3)'
    BY <1>1, <1>6
  <2>2. (if_req.present => if_req.addr = fetch_pc)'
    BY <2>1, InTurnAddr, PTL
  <2> QED BY <2>2
<1>11. ireq_addr = 3 <=> fetch_pc = 3
  <2>1. if_req.present => if_req.addr = fetch_pc
    BY <1>1, <1>2, InTurnAddr
  <2> QED BY <2>1 DEF ireq_addr, active_req
<1>12. fire => stage # "request_pending" \/ fetch_pc # 3
  <2> SUFFICES ASSUME stage = "request_pending", fetch_pc = 3 PROVE ~fire
    OBVIOUS
  <2>1. ireq_addr = TargetPc /\ run.scenario = <<"fetch", "request_pending">> /\ pre_reset
    BY <1>1, <1>2, <1>11 DEF pre_reset
  <2>2. ~ireq_ready
    BY <2>1 DEF ireq_ready, ib_allow
  <2> QED BY <2>2 DEF ibus_req_fire
<1>13. ASSUME fetch_pc' = 4
       PROVE  /\ stage # "request_pending" /\ if_out'.valid /\ if_out'.pc = 3
              /\ stage = "response_wait" =>
                   /\ islot'.busy /\ islot'.cnt + run'.edges = run.memory_wait
                   /\ target_reached => ~islot'.resp_valid
  <2>1. run.memory_wait \in Nat /\ run.memory_wait >= 3 /\ islot.cnt \in Nat /\ fetch_pc \in Nat
    BY <1>1, <1>2, BenchCounts, InTurnAt
  <2>2. CASE fire
    <3>1. fetch_pc = 3 /\ stage # "request_pending" /\ if_out'.valid /\ if_out'.pc = 3
      BY <1>6, <1>12, <1>13, <2>1, <2>2
    <3>2. islot'.busy /\ islot'.cnt = run.memory_wait
      BY <1>1, <2>2, BenchCounts
    <3>3. stage = "response_wait" => ~target_reached
      BY <1>2, <1>3, <1>5, <3>1, TargetCases DEF TargetIs
    <3> QED BY <1>5, <2>1, <3>1, <3>2, <3>3
  <2>3. CASE ~fire
    <3>1. fetch_pc = 4
      BY <1>6, <1>13, <2>3
    <3>2. /\ stage # "request_pending" /\ if_out'.valid /\ if_out'.pc = 3 /\ ~islot.resp_valid
          /\ stage = "response_wait" => target_reached
      BY <1>4, <1>6, <1>7, <2>3, <3>1
    <3>3. ASSUME stage = "response_wait"
          PROVE  islot'.busy /\ islot'.cnt + run'.edges = run.memory_wait /\ ~islot'.resp_valid
      <4>1. islot.busy /\ islot.cnt + run.edges = run.memory_wait /\ run.edges < 3
            /\ run'.edges = run.edges + 1
        BY <1>2, <1>5, <3>1, <3>2, <3>3 DEF FetchWork
      <4>2. islot.cnt # 0
        BY <1>5, <2>1, <4>1
      <4>3. islot'.busy /\ islot'.cnt = islot.cnt - 1 /\ (islot'.resp_valid => islot.resp_valid)
        BY <1>1, <2>3, <4>1, <4>2, BenchCounts
      <4> QED BY <1>5, <2>1, <3>2, <4>1, <4>3
    <3> QED BY <3>2, <3>3
  <2> QED BY <2>2, <2>3
<1>14. stage = "request_pending" /\ run'.edges # 0 =>
         /\ target_reached /\ ~fire /\ if_req'.present /\ if_req'.addr = 3 /\ fetch_pc' = 3
  <2> SUFFICES ASSUME stage = "request_pending", run'.edges # 0
               PROVE  target_reached /\ ~fire /\ if_req'.present /\ if_req'.addr = 3 /\ fetch_pc' = 3
    OBVIOUS
  <2>1. target_reached
    BY <1>5
  <2>2. ~fire /\ ibus_req_valid(BenchWires) /\ fetch_pc = 3
    BY <1>4, <1>11, <2>1
  <2>3. if_req' = NextRequest(BenchWires, ireq_ready)
    BY <1>1 DEF FrontEdge
  <2>4. if_req'.present
    BY <1>6, <2>2, <2>3 DEF NextRequest, latch_request, ibus_req_valid
  <2> QED BY <1>6, <1>10, <2>1, <2>2, <2>4
<1>15. ASSUME run'.edges # 0 PROVE target_reached' /\ stage' # "response_offered"
  <2>1. target_reached /\ stage # "response_offered"
    BY <1>5, <1>15
  <2>2. CASE stage = "request_pending"
    <3>1. if_req'.present /\ if_req'.addr = 3
      BY <1>14, <1>15, <2>2
    <3>2. ibus_req_valid(BenchWires)'
      BY <3>1 DEF ibus_req_valid
    <3>3. (ireq_addr = 3)'
      BY <3>1 DEF ireq_addr, active_req
    <3>4. ~ireq_ready'
      BY <1>2, <1>5, <2>2, <3>3 DEF ireq_ready, ib_allow, pre_reset, TargetPc
    <3>5. access' = "fetch" /\ stage' = "request_pending" /\ (ireq_addr = TargetPc)'
      BY <1>5, <2>2, <3>3 DEF TargetPc
    <3> QED BY <1>9, <3>2, <3>4, <3>5 DEF TargetIs
  <2>3. CASE stage = "response_wait"
    <3>1. if_out.valid /\ islot.busy /\ ~islot.resp_valid /\ if_out.pc = 3
      BY <1>2, <2>1, <2>3, TargetCases DEF TargetIs
    <3>2. fetch_pc = 4
      BY <1>3, <3>1
    <3>3. ~fire
      BY <1>6, <3>2
    <3>4. fetch_pc' = 4
      BY <1>6, <3>2, <3>3
    <3>5. if_out'.valid /\ if_out'.pc = 3 /\ islot'.busy /\ ~islot'.resp_valid
      BY <1>13, <2>1, <2>3, <3>4
    <3>6. access' = "fetch" /\ stage' = "response_wait" /\ (if_out.pc = TargetPc)'
      BY <1>5, <2>3, <3>5 DEF TargetPc
    <3> QED BY <1>9, <3>5, <3>6 DEF TargetIs
  <2> QED BY <1>2, <1>5, <2>1, <2>2, <2>3
<1>16. FetchWork'
  <2>1. (InTurn(TargetPc))'
    BY <1>6 DEF TargetPc
  <2>2. /\ fetch_pc' = 4 =>
            /\ stage' # "request_pending" /\ if_out'.valid
            /\ stage' = "response_wait" => islot'.busy /\ islot'.cnt + run'.edges = run'.memory_wait
        /\ stage' = "request_pending" /\ run'.edges # 0 => if_req'.present
    BY <1>5, <1>13, <1>14
  <2>3. (fetch_pc = TargetPc + 1 =>
           /\ stage # "request_pending" /\ if_out.valid
           /\ stage = "response_wait" => islot.busy /\ islot.cnt + run.edges = run.memory_wait)'
    BY <2>2 DEF TargetPc
  <2> QED BY <1>8, <2>1, <2>2, <2>3 DEF FetchWork
<1>17. (run.fetch_enable /\ run.scenario \in Scenarios /\ run.edges \in 0 .. HoldEdges)'
  <2>1. run'.fetch_enable /\ run'.scenario \in Scenarios /\ run'.edges \in 0 .. HoldEdges
    BY <1>2, <1>5
  <2> QED BY <2>1 DEF HoldEdges, Scenarios
<1>18. (run.edges # 0 => target_reached /\ stage # "response_offered")'
  BY <1>15
<1>19. (IF access = "fetch" THEN FetchWork ELSE DataWork)'
  BY <1>5, <1>16
<1>20. Tracks(h, TargetPc + 1, run.pre_events)'
  BY <1>5
<1> QED BY <1>17, <1>18, <1>19, <1>20 DEF WorkInv

(* When the last fetch is under way, two instructions have been shown. *)
LEMMA TwoShown ==
  ASSUME ResetBenchInv, NEW h, AccessesLast(h), WorkInv(h), access = "fetch", reset_due
  PROVE  run.pre_events >= 2
<1>1. /\ CpuInv /\ AtMostOneFetch /\ FetchWork /\ InTurn(3) /\ TargetPc = 3 /\ HoldEdges = 3
      /\ OneInPipe(run.memory_wait) /\ target_reached
      /\ stage # "response_offered" => run.edges # 0
      /\ run.scenario \in Scenarios
  BY DEF ResetBenchInv, CheckersInv, CpuInv, WorkInv, FetchWork, TargetPc, HoldEdges, reset_due
<1>2. stage \in {"request_pending", "response_wait", "response_offered"}
  BY <1>1, ScenarioCases
<1>3. PICK n : n = run.pre_events
  OBVIOUS
<1>4. /\ if_req.present => if_req.addr = fetch_pc /\ fetch_pc <= 3
      /\ if_out.valid => fetch_pc = if_out.pc + 1 /\ if_out.pc <= 3
      /\ fetch_pc \in Nat /\ if_out.pc \in Nat
  BY <1>1, InTurnAt
<1>5. FromOutstanding = 3
  <2>1. CASE stage = "request_pending"
    <3>1. if_req.present /\ ireq_addr = 3
      BY <1>1, <2>1, TargetCases DEF TargetIs, FetchWork
    <3>2. if_req.addr = 3 /\ ~if_out.valid
      BY <1>1, <3>1 DEF ireq_addr, active_req, AtMostOneFetch
    <3> QED BY <1>1, <3>1, <3>2 DEF FromOutstanding, FromRequest, LiveRequest, LiveOutstanding, InTurn
  <2>2. CASE stage # "request_pending"
    <3>1. if_out.valid /\ if_out.pc = 3
      BY <1>1, <1>2, <2>2, TargetCases DEF TargetIs
    <3> QED BY <1>1, <3>1 DEF FromOutstanding, LiveOutstanding, InTurn
  <2> QED BY <2>1, <2>2
<1>6. n \in Nat /\ Depth \in 0 .. 2 /\ n + Depth = ExecutePc
  <2>1. PICK p, K : p = WorkProgram /\ K = TargetPc + 1
    OBVIOUS
  <2>2. InLine(h, p, K) /\ Tracks(h, K, n)
    BY <1>3, <2>1 DEF AccessesLast, WorkInv
  <2> QED BY <2>2, TracksAt
<1>7. /\ if_buf.valid => if_buf.pnext = 3 /\ if_buf.pnext = if_buf.pc + 1
      /\ IF_ID.valid => IF_ID.pnext = FromBuffer /\ IF_ID.pnext = IF_ID.pc + 1
      /\ ID_EX.valid => ID_EX.pnext = NextIssue /\ ID_EX.pnext = ID_EX.pc + 1
      /\ if_buf.pc \in Nat /\ IF_ID.pc \in Nat /\ ID_EX.pc \in Nat
  BY <1>1, <1>5 DEF CpuInv, PathInOrder, InTurn, TypeOK, FrontTypeOK, Fetched, Decoded, Pc
<1>8. /\ if_buf.valid => /\ ~IF_ID.valid /\ ~ID_EX.valid /\ ~EX_MEM.valid /\ ~MEM_WB.valid
      /\ IF_ID.valid  => /\ ~ID_EX.valid /\ ~EX_MEM.valid /\ ~MEM_WB.valid
      /\ ID_EX.valid  => /\ ~EX_MEM.valid /\ ~MEM_WB.valid
      /\ EX_MEM.valid => ~MEM_WB.valid
  BY <1>1 DEF OneInPipe
<1>9. Depth <= 1 /\ (~EX_MEM.valid /\ ~MEM_WB.valid => Depth = 0)
  BY <1>8 DEF Depth, Shows
<1>10. CASE if_buf.valid
  <2>1. if_buf.pc = 2
    BY <1>7, <1>10
  <2>2. ExecutePc = 2 /\ Depth = 0
    BY <1>8, <1>9, <1>10, <2>1 DEF ExecutePc, NextIssue, FromBuffer
  <2> QED BY <1>3, <1>6, <2>2
<1>11. CASE ~if_buf.valid /\ IF_ID.valid
  <2>1. IF_ID.pc = 2
    BY <1>5, <1>7, <1>11 DEF FromBuffer
  <2>2. ExecutePc = 2 /\ Depth = 0
    BY <1>8, <1>9, <1>11, <2>1 DEF ExecutePc, NextIssue
  <2> QED BY <1>3, <1>6, <2>2
<1>12. CASE ~if_buf.valid /\ ~IF_ID.valid
  <2>1. NextIssue = 3
    BY <1>5, <1>12 DEF NextIssue, FromBuffer
  <2>2. CASE ID_EX.valid
    <3>1. ID_EX.pc = 2
      BY <1>7, <2>1, <2>2
    <3>2. ExecutePc = 2 /\ Depth = 0
      BY <1>8, <1>9, <2>2, <3>1 DEF ExecutePc
    <3> QED BY <1>3, <1>6, <3>2
  <2>3. CASE ~ID_EX.valid
    <3>1. ExecutePc = 3
      BY <2>1, <2>3 DEF ExecutePc
    <3> QED BY <1>3, <1>6, <1>9, <3>1
  <2> QED BY <2>2, <2>3
<1> QED BY <1>10, <1>11, <1>12

(* The scenario is what it is named for. *)
LEMMA WorkWarm ==
  ASSUME ResetBenchInv, NEW h, AccessesLast(h), WorkInv(h), run.phase = "work"
  PROVE  TargetIsWarm
<1>1. /\ CpuInv /\ DataOwnership /\ ScoreInv /\ ~verification_halt /\ TypeOK /\ TargetPc = 3
      /\ Tracks(h, TargetPc + 1, run.pre_events) /\ run.scenario \in Scenarios
      /\ run.edges # 0 => target_reached
  BY DEF ResetBenchInv, CheckersInv, CpuInv, WorkInv, TargetPc
<1>2. PICK n : n = run.pre_events
  OBVIOUS
<1>3. PICK p, K : p = WorkProgram /\ K = TargetPc + 1
  OBVIOUS
<1>4. InLine(h, p, K) /\ Tracks(h, K, n) /\ K = 4
  BY <1>1, <1>2, <1>3 DEF AccessesLast
<1>5. n \in 0 .. 4 /\ n + Depth \in 0 .. 4 /\ Depth \in 0 .. 2
  BY <1>4, TracksAt
<1>6. n # 4
  <2> SUFFICES ASSUME n = 4 PROVE FALSE
    OBVIOUS
  <2>1. Depth = 0
    BY <1>5
  <2>2. ~EX_MEM.valid
    BY <2>1 DEF Depth, Shows
  <2>3. run.pre_events + Depth = 4
    BY <1>2, <2>1
  <2>4. CASE access = "fetch"
    BY <1>1, <2>3, <2>4, FetchFree
  <2>5. CASE access # "fetch"
    BY <1>1, <2>2, <2>3, <2>5 DEF WorkInv, DataWork
  <2> QED BY <2>4, <2>5
<1>7. trace_valid => trace.pc = n - 1 /\ ~trace.trap /\ trace.mem = "none"
  <2> SUFFICES ASSUME trace_valid PROVE trace.pc = n - 1 /\ ~trace.trap /\ trace.mem = "none"
    OBVIOUS
  <2>1. n # 0 /\ trace = step_event(h[n - 1].state)
    BY <1>4 DEF Tracks
  <2>2. n - 1 \in 0 .. 2
    BY <1>5, <1>6, <2>1
  <2>3. step_event(h[n - 1].state).mem = "none"
    BY <1>1, <2>2 DEF AccessesLast
  <2>4. step_event(h[n - 1].state).pc = n - 1 /\ ~step_event(h[n - 1].state).trap
    BY <1>4, <2>2 DEF InLine
  <2> QED BY <2>1, <2>3, <2>4
<1>8. ASSUME reset_due
      PROVE  /\ run.pre_events >= 2
             /\ access # "fetch" => /\ EX_MEM.pc = TargetPc /\ ~EX_MEM.trap
                                    /\ (sb.request # None) = (stage # "request_pending")
  <2>1. target_reached
    BY <1>8 DEF reset_due
  <2>2. CASE access = "fetch"
    BY <1>8, <2>2, TwoShown
  <2>3. CASE access # "fetch"
    <3>1. /\ n + Depth = 4 /\ exmem_external_mem /\ EX_MEM.valid
          /\ stage # "request_pending" => EX_MEM.accepted
      BY <1>2, <2>1, <2>3, DataTarget
    <3>2. EX_MEM.pc = 3 /\ ~EX_MEM.trap
      BY <1>1, <1>2, <3>1, MemAt
    <3>3. run.pre_events >= 2
      BY <1>2, <1>5, <3>1
    <3>4. stage = "request_pending" => ~EX_MEM.accepted
      BY <1>1, <2>1, <2>3, TargetCases DEF TargetIs, dbus_req_valid
    <3>5. (EX_MEM.accepted) = Ram!Occupied
      <4>1. EX_MEM.accepted \in BOOLEAN /\ exmem_external_mem
        BY <1>1, <3>1 DEF TypeOK, Memory
      <4>2. (exmem_external_mem /\ EX_MEM.accepted) = Ram!Occupied
        BY <1>1 DEF DataOwnership
      <4> QED BY <4>1, <4>2
    <3>6. sb.request # None <=> Ram!Occupied
      BY <1>1, AccessIsOne DEF ScoreInv
    <3>7. (sb.request # None) = (stage # "request_pending")
      BY <3>1, <3>4, <3>5, <3>6
    <3> QED BY <1>1, <3>2, <3>3, <3>7
  <2> QED BY <2>2, <2>3
<1> QED BY <1>1, <1>2, <1>7, <1>8 DEF TargetIsWarm

(* A store is in memory at the reset just if its response was offered. *)
LEMMA WorkMemory ==
  ASSUME ResetBenchInv, NEW h, AccessesLast(h), WorkInv(h), reset_due
  PROVE  dmem = MemoryAfterWork
<1>1. /\ CpuInv /\ run.scenario \in Scenarios /\ TargetPc = 3 /\ target_reached
  BY DEF ResetBenchInv, CheckersInv, WorkInv, TargetPc, reset_due
<1>2. PICK n, p, K : n = run.pre_events /\ p = WorkProgram /\ K = TargetPc + 1
  OBVIOUS
<1>3. InLine(h, p, K) /\ Tracks(h, K, n) /\ K = 4
  BY <1>1, <1>2 DEF AccessesLast, WorkInv
<1>4. /\ n + Depth \in 0 .. 4 /\ n + Shows \in 0 .. 4
      /\ EX_MEM.valid => n + Depth - 1 = n + Shows
      /\ StorePending => dmem = h[n + Shows].state.ram
      /\ ~StorePending => dmem = h[n + Depth].state.ram
  BY <1>3, TracksAt
<1>5. /\ \A i \in 0 .. 3 : h[i].state.ram = OldRam
      /\ h[4].state.ram = IF access = "store" THEN StoredRam ELSE OldRam
  BY <1>1 DEF AccessesLast
<1>6. access \in {"fetch", "load", "store"} /\ run.scenario = <<access, stage>>
      /\ stage \in {"request_pending", "response_wait", "response_offered"}
  BY <1>1, ScenarioCases
<1>7. CASE access # "store"
  <2>1. \A i \in 0 .. 4 : h[i].state.ram = OldRam
    BY <1>5, <1>7
  <2>2. MemoryAfterWork = OldRam
    BY <1>6, <1>7 DEF MemoryAfterWork
  <2> QED BY <1>4, <2>1, <2>2
<1>8. CASE access = "store"
  <2>1. /\ n + Depth = 4 /\ exmem_external_mem /\ EX_MEM.valid
        /\ stage # "request_pending" => EX_MEM.accepted
    BY <1>1, <1>2, <1>8, DataTarget
  <2>2. memWrite(EX_MEM.instr)
    BY <1>1, <1>2, <1>3, <1>8, <2>1, MemAt
  <2>3. n + Shows = 3
    <3>1. n \in Nat /\ Depth \in 0 .. 2
      BY <1>3, TracksAt
    <3> QED BY <1>4, <2>1, <3>1
  <2>4. StorePending <=> stage # "response_offered"
    <3>1. CASE stage = "response_offered"
      BY <1>1, <1>8, <3>1, TargetCases DEF TargetIs, StorePending
    <3>2. CASE stage = "response_wait"
      BY <1>1, <1>8, <2>1, <2>2, <3>2, TargetCases DEF TargetIs, StorePending
    <3>3. CASE stage = "request_pending"
      BY <1>1, <1>8, <2>1, <2>2, <3>3, TargetCases DEF TargetIs, StorePending, dbus_req_valid
    <3> QED BY <1>6, <3>1, <3>2, <3>3
  <2>5. dmem = IF stage = "response_offered" THEN StoredRam ELSE OldRam
    BY <1>4, <1>5, <1>8, <2>1, <2>3, <2>4
  <2>6. MemoryAfterWork = IF stage = "response_offered" THEN StoredRam ELSE OldRam
    <3>1. run.scenario = <<"store", stage>>
      BY <1>6, <1>8
    <3>2. run.scenario = <<"store", "response_offered">> <=> stage = "response_offered"
      BY <1>6, <3>1
    <3> QED BY <3>2 DEF MemoryAfterWork
  <2> QED BY <2>5, <2>6
<1> QED BY <1>7, <1>8

(* The invariant of the work holds at first, *)
LEMMA WorkStarts == BenchInit => WorkInv(WorkRun)
<1> SUFFICES ASSUME BenchInit PROVE WorkInv(WorkRun)
  OBVIOUS
<1>1. AtReset /\ Cleared /\ Empty
  BY InitClear DEF BenchInit, AtReset, Empty, Init, FrontInit, NoRequest, NoOutstanding, NoFetched
<1>2. CpuInv
  BY <1>1, ClearedInv
<1>3. imem = WorkProgram /\ dmem = OldRam
  BY DEF BenchInit, WorkProgram
<1>4. /\ run.scenario \in Scenarios /\ run.edges = 0 /\ run.fetch_enable /\ run.pre_events = 0
  BY DEF BenchInit
<1>5. PICK h : h = WorkRun
  OBVIOUS
<1>6. h[0].state = reset(imem, dmem)
  BY <1>3, <1>5, WorkStraight
<1>7. Follows(h[0].state)
  BY <1>1, <1>2, <1>6, FollowsClear DEF FollowsReset
<1>8. /\ ~EX_MEM.valid /\ ~EX_MEM.accepted /\ ~MEM_WB.valid /\ ~ID_EX.valid /\ ~trace_valid
  BY <1>1 DEF Cleared, NoMemory, NoWritten, NoDecoded
<1>9. Depth = 0
  BY <1>8 DEF Depth, Shows
<1>10. Tracks(h, TargetPc + 1, 0)
  BY <1>7, <1>8, <1>9 DEF Tracks, TargetPc
<1>11. InTurn(TargetPc) /\ OneInPipe(run.memory_wait) /\ fetch_pc # TargetPc + 1
  <2>1. /\ fetch_pc = 0 /\ ~if_req.stale /\ ~if_out.stale /\ ~if_req.present /\ ~if_out.valid
        /\ ~if_buf.valid /\ ~IF_ID.valid
    BY DEF BenchInit, Init, FrontInit, NoRequest, NoOutstanding, NoFetched, RESET_PC
  <2> QED BY <1>8, <2>1 DEF InTurn, OneInPipe, TargetPc
<1>12. FetchWork
  BY <1>4, <1>11 DEF FetchWork
<1>13. DataWork
  BY <1>4, <1>8, <1>9 DEF DataWork, TargetPc
<1>14. run.edges \in 0 .. HoldEdges
  BY <1>4 DEF HoldEdges
<1>15. WorkInv(h)
  BY <1>4, <1>10, <1>12, <1>13, <1>14 DEF WorkInv
<1> QED BY <1>5, <1>15

(* and while nothing moves.                                                  *)
LEMMA WorkStutter ==
  ASSUME ResetBenchInv, UNCHANGED resetBenchVars, run.phase = "work",
         NEW h, AccessesLast(h), WorkInv(h)
  PROVE  WorkInv(h)'
<1>1. /\ run' = run /\ UNCHANGED vars /\ fetch_pc' = fetch_pc /\ if_req' = if_req
      /\ if_out' = if_out /\ if_buf' = if_buf /\ IF_ID' = IF_ID /\ ID_EX' = ID_EX
      /\ EX_MEM' = EX_MEM /\ MEM_WB' = MEM_WB /\ islot' = islot /\ dslot' = dslot
      /\ verification_halt' = verification_halt
  BY DEF resetBenchVars, monitoredVars, vars, frontVars, backVars, busVars
<1>2. access' = access /\ stage' = stage /\ Depth' = Depth /\ Left' = Left
  BY <1>1 DEF access, stage, Depth, Shows, Left
<1>3. PICK n, w, K : n = run.pre_events /\ w = run.memory_wait /\ K = TargetPc + 1
  OBVIOUS
<1>4. Tracks(h, K, n)'
  BY <1>1, <1>3, TracksStutter DEF WorkInv
<1>5. Tracks(h, TargetPc + 1, run.pre_events)'
  BY <1>1, <1>3, <1>4 DEF Tracks, TargetPc
<1>6. DataWork => DataWork'
  <2> SUFFICES ASSUME DataWork PROVE DataWork'
    OBVIOUS
  <2>1. (run.pre_events + Depth = TargetPc + 1 => EX_MEM.valid)'
    BY <1>1, <1>2 DEF DataWork, TargetPc
  <2>2. (stage = "request_pending" => ~EX_MEM.accepted)'
    BY <1>1, <1>2 DEF DataWork
  <2>3. (stage = "response_wait" /\ EX_MEM.valid /\ EX_MEM.accepted =>
           dslot.busy /\ dslot.cnt + run.edges = run.memory_wait)'
    BY <1>1, <1>2 DEF DataWork
  <2> QED BY <2>1, <2>2, <2>3 DEF DataWork
<1>7. FetchWork => FetchWork'
  <2>1. InTurn(TargetPc) => InTurn(TargetPc)'
    BY <1>1 DEF InTurn, TargetPc
  <2>2. OneInPipe(run.memory_wait) => OneInPipe(run.memory_wait)'
    BY <1>1, <1>2 DEF OneInPipe
  <2> QED BY <1>1, <1>2, <2>1, <2>2 DEF FetchWork, TargetPc
<1>8. TargetIs'
  BY TargetCases, PTL
<1>9. (exmem_external_mem' <=> exmem_external_mem) /\ (OfTarget' <=> OfTarget)
      /\ (dbus_req_valid' <=> dbus_req_valid)
  <2>1. exmem_external_mem' <=> exmem_external_mem
    BY <1>1 DEF exmem_external_mem
  <2>2. OfTarget' <=> OfTarget
    <3>1. memWrite(EX_MEM'.instr) \in BOOLEAN /\ (access' = "store") \in BOOLEAN
      BY DEF memWrite
    <3> QED BY <1>1, <1>2, <3>1 DEF OfTarget
  <2>3. dbus_req_valid' <=> dbus_req_valid
    BY <1>1, <2>1 DEF dbus_req_valid
  <2> QED BY <2>1, <2>2, <2>3
<1>10. ASSUME run.edges # 0 PROVE target_reached'
  <2>1. /\ target_reached /\ stage # "response_offered" /\ run.scenario \in Scenarios
        /\ IF access = "fetch" THEN FetchWork ELSE DataWork
    BY <1>10 DEF WorkInv
  <2>2. /\ stage \in {"request_pending", "response_wait", "response_offered"}
        /\ run.scenario = <<access, stage>>
    BY <2>1, ScenarioCases
  <2>3. CASE access = "fetch" /\ stage = "request_pending"
    <3>1. if_req.present /\ ireq_addr = 3
      BY <1>10, <2>1, <2>3, TargetCases DEF TargetIs, FetchWork, TargetPc
    <3>2. ibus_req_valid(BenchWires)'
      BY <1>1, <3>1 DEF ibus_req_valid
    <3>3. (ireq_addr = 3)'
      BY <1>1, <3>1 DEF ireq_addr, active_req
    <3>4. run'.scenario = <<"fetch", "request_pending">> /\ run'.phase = "work"
      BY <1>1, <2>2, <2>3
    <3>5. ~ireq_ready'
      BY <3>3, <3>4 DEF ireq_ready, ib_allow, pre_reset, TargetPc
    <3>6. access' = "fetch" /\ stage' = "request_pending" /\ (ireq_addr = TargetPc)'
      BY <1>2, <2>3, <3>3 DEF TargetPc
    <3> QED BY <1>8, <3>2, <3>5, <3>6 DEF TargetIs
  <2>4. CASE access = "fetch" /\ stage = "response_wait"
    BY <1>1, <1>2, <1>8, <2>1, <2>4, TargetCases DEF TargetIs, TargetPc
  <2>5. CASE access # "fetch" /\ stage = "request_pending"
    <3>1. ~db_allow'
      BY <1>1, <1>2, <2>5 DEF db_allow, pre_reset
    <3>2. ~(dbus_req_fire(db_allow))'
      BY <3>1 DEF dbus_req_fire
    <3> QED BY <1>2, <1>8, <1>9, <2>1, <2>5, <3>2, TargetCases DEF TargetIs
  <2>6. CASE access # "fetch" /\ stage = "response_wait"
    BY <1>1, <1>2, <1>8, <1>9, <2>1, <2>6, TargetCases DEF TargetIs
  <2> QED BY <2>1, <2>2, <2>3, <2>4, <2>5, <2>6
<1>11. (run.edges # 0 => target_reached /\ stage # "response_offered")'
  BY <1>1, <1>2, <1>10 DEF WorkInv
<1>12. (IF access = "fetch" THEN FetchWork ELSE DataWork)'
  BY <1>2, <1>6, <1>7 DEF WorkInv
<1>13. (run.fetch_enable /\ run.scenario \in Scenarios /\ run.edges \in 0 .. HoldEdges)'
  <2>1. run'.fetch_enable /\ run'.scenario \in Scenarios /\ run'.edges \in 0 .. HoldEdges
    BY <1>1 DEF WorkInv
  <2> QED BY <2>1 DEF HoldEdges, Scenarios
<1> QED BY <1>5, <1>11, <1>12, <1>13 DEF WorkInv

(* The bench's story, phase by phase. *)
StoryInv ==
  /\ ResetBenchInv
  /\ run.phase \in {"work", "reset", "quiet", "restart", "drained", "done"}
  /\ run.phase = "work" => WorkInv(WorkRun)
  /\ run.phase \in {"work", "reset"} => run.post_events = 0 /\ run.post_ireqs = 0
  /\ run.phase = "reset" => dmem = MemoryAfterWork /\ Empty /\ InTurn(LastPc)
  /\ run.phase \in {"quiet", "restart", "drained", "done"} => RestartInv(RestartRun)

(* It begins with the work, *)
LEMMA StoryStarts == BenchInit => StoryInv
<1> SUFFICES ASSUME BenchInit PROVE StoryInv
  OBVIOUS
<1>1. run.phase = "work" /\ run.post_events = 0 /\ run.post_ireqs = 0
  BY DEF BenchInit
<1> QED BY <1>1, BenchStarts, WorkStarts DEF StoryInv

(* A warm reset leaves memory alone and the front end where it began. *)
LEMMA ResetLeaves ==
  ASSUME StoryInv, WarmReset
  PROVE  (dmem = MemoryAfterWork /\ Empty /\ InTurn(LastPc))'
<1>1. ResetBenchInv /\ WorkInv(WorkRun) /\ reset_due /\ DOMAIN run = RunFields
  BY DEF WarmReset, StoryInv, reset_due, pre_reset, ResetBenchInv, RunShape
<1>2. dmem = MemoryAfterWork
  BY <1>1, WorkMemory, WorkStraight
<1>3. run'.scenario = run.scenario
  BY <1>1 DEF WarmReset, RunFields
<1>4. dmem' = dmem /\ MemoryAfterWork' = MemoryAfterWork
  BY <1>3 DEF WarmReset, Reset, MemoryAfterWork
<1>5. /\ fetch_pc' = 0 /\ if_req' = NoRequest /\ if_out' = NoOutstanding
      /\ if_buf' = NoFetched(Nop) /\ IF_ID' = NoFetched(Nop) /\ ID_EX' = NoDecoded
  BY DEF WarmReset, Reset, FrontReset, RESET_PC
<1>6. /\ ~if_req'.present /\ ~if_req'.stale /\ ~if_out'.valid /\ ~if_out'.stale
      /\ ~if_buf'.valid /\ ~IF_ID'.valid /\ ~ID_EX'.valid
  BY <1>5 DEF NoRequest, NoOutstanding, NoFetched, NoDecoded
<1>7. Empty'
  BY <1>5, <1>6 DEF Empty, RESET_PC
<1>8. InTurn(LastPc)'
  BY <1>5, <1>6 DEF InTurn, LastPc
<1> QED BY <1>2, <1>4, <1>7, <1>8

(* goes on from phase to phase, *)
LEMMA StoryStep == StoryInv /\ ResetBenchInv' /\ [BenchNext]_resetBenchVars => StoryInv'
<1> SUFFICES ASSUME StoryInv, ResetBenchInv', [BenchNext]_resetBenchVars PROVE StoryInv'
  OBVIOUS
<1>1. ResetBenchInv /\ DOMAIN run = RunFields
  BY DEF StoryInv, ResetBenchInv, RunShape
<1>2. /\ run.phase = "work" => WorkInv(WorkRun)
      /\ run.phase \in {"quiet", "restart", "drained", "done"} => RestartInv(RestartRun)
      /\ run.phase \in {"work", "reset"} => run.post_events = 0 /\ run.post_ireqs = 0
      /\ run.phase = "reset" => dmem = MemoryAfterWork /\ Empty /\ InTurn(LastPc)
      /\ run.phase \in {"work", "reset", "quiet", "restart", "drained", "done"}
  BY DEF StoryInv
<1>3. PICK g, h : g = WorkRun /\ h = RestartRun
  OBVIOUS
<1>4. AccessesLast(g) /\ InLine(h, RestartWork, LastPc + 1)
  BY <1>3, WorkStraight, RestartStraight
<1>5. run'.scenario = run.scenario => WorkRun' = g /\ RestartRun' = h
  <2> SUFFICES ASSUME run'.scenario = run.scenario PROVE WorkRun' = g /\ RestartRun' = h
    OBVIOUS
  <2>1. access' = access
    BY DEF access
  <2>2. WorkProgram' = WorkProgram /\ MemoryAfterWork' = MemoryAfterWork
    BY <2>1 DEF WorkProgram, MemoryAfterWork
  <2> QED BY <1>3, <2>2 DEF WorkRun, RestartRun, TargetPc, LastPc
<1>6. CASE Work
  <2>1. /\ run'.scenario = run.scenario /\ run'.phase = "work" /\ run.phase = "work"
        /\ run'.post_events = run.post_events /\ run'.post_ireqs = run.post_ireqs
    BY <1>1, <1>6 DEF Work, pre_reset, RunFields
  <2>2. WorkInv(g)
    BY <1>2, <1>3, <2>1
  <2>3. WorkInv(g)'
    BY <1>1, <1>4, <1>6, <2>2, WorkDataEdge, WorkFetchEdge
  <2>4. WorkRun' = g
    BY <1>5, <2>1
  <2>5. WorkInv(WorkRun)'
    BY <2>3, <2>4 DEF WorkInv
  <2> QED BY <1>2, <2>1, <2>5 DEF StoryInv
<1>7. CASE WarmReset
  <2>1. /\ run'.phase = "reset" /\ run.phase = "work"
        /\ run'.post_events = run.post_events /\ run'.post_ireqs = run.post_ireqs
    BY <1>1, <1>7 DEF WarmReset, reset_due, pre_reset, RunFields
  <2>2. (dmem = MemoryAfterWork /\ Empty /\ InTurn(LastPc))'
    BY <1>7, ResetLeaves
  <2> QED BY <1>2, <2>1, <2>2 DEF StoryInv
<1>8. CASE LoadRestart
  <2>1. run.phase = "reset" /\ run'.phase = "quiet"
    BY <1>1, <1>8 DEF LoadRestart, RunFields
  <2>2. RestartInv(RestartRun)'
    BY <1>1, <1>2, <1>8, <2>1, RestartLoaded
  <2> QED BY <2>1, <2>2 DEF StoryInv
<1>9. CASE Quiet \/ Restart
  <2>1. /\ run'.scenario = run.scenario /\ run'.phase = run.phase
        /\ run.phase \in {"quiet", "restart", "drained"}
    BY <1>1, <1>9 DEF Quiet, Restart, RunFields
  <2>2. RestartInv(h)
    BY <1>2, <1>3, <2>1
  <2>3. RestartInv(h)'
    BY <1>1, <1>4, <1>9, <2>2, RestartEdge
  <2>4. RestartRun' = h
    BY <1>5, <2>1
  <2>5. RestartInv(RestartRun)'
    BY <2>3, <2>4 DEF RestartInv
  <2> QED BY <2>1, <2>5 DEF StoryInv
<1>10. CASE Recover \/ Drained \/ Done
  <2>1. /\ run'.scenario = run.scenario /\ run'.phase \in {"restart", "drained", "done"}
        /\ run.phase \in {"quiet", "restart", "drained"}
    BY <1>1, <1>10 DEF Recover, Drained, Done, RunFields
  <2>2. RestartInv(h)
    BY <1>2, <1>3, <2>1
  <2>3. RestartInv(h)'
    BY <1>1, <1>4, <1>10, <2>2, RestartStutter
  <2>4. RestartRun' = h
    BY <1>5, <2>1
  <2>5. RestartInv(RestartRun)'
    BY <2>3, <2>4 DEF RestartInv
  <2> QED BY <2>1, <2>5 DEF StoryInv
<1>11. CASE UNCHANGED resetBenchVars
  <2>1. run' = run /\ UNCHANGED vars
    BY <1>11 DEF resetBenchVars, monitoredVars
  <2>2. WorkRun' = g /\ RestartRun' = h /\ MemoryAfterWork' = MemoryAfterWork
    BY <1>5, <2>1 DEF MemoryAfterWork
  <2>3. ASSUME run.phase = "work" PROVE WorkInv(WorkRun)'
    <3>1. WorkInv(g)
      BY <1>2, <1>3, <2>3
    <3>2. WorkInv(g)'
      BY <1>1, <1>4, <1>11, <2>3, <3>1, WorkStutter
    <3> QED BY <2>2, <3>2 DEF WorkInv
  <2>4. ASSUME run.phase \in {"quiet", "restart", "drained", "done"} PROVE RestartInv(RestartRun)'
    <3>1. RestartInv(h)
      BY <1>2, <1>3, <2>4
    <3>2. RestartInv(h)'
      BY <1>1, <1>4, <1>11, <3>1, RestartStutter
    <3> QED BY <2>2, <3>2 DEF RestartInv
  <2>5. ASSUME run.phase = "reset" PROVE (dmem = MemoryAfterWork /\ Empty /\ InTurn(LastPc))'
    <3>1. /\ dmem' = dmem /\ fetch_pc' = fetch_pc /\ if_req' = if_req /\ if_out' = if_out
          /\ if_buf' = if_buf /\ IF_ID' = IF_ID /\ ID_EX' = ID_EX
      BY <2>1 DEF vars, frontVars, backVars, busVars
    <3>2. Empty' /\ InTurn(LastPc)'
      BY <1>2, <2>5, <3>1 DEF Empty, InTurn, LastPc
    <3> QED BY <1>2, <2>2, <2>5, <3>1, <3>2
  <2> QED BY <1>2, <2>1, <2>3, <2>4, <2>5 DEF StoryInv
<1> QED BY <1>6, <1>7, <1>8, <1>9, <1>10, <1>11 DEF BenchNext

(* and so holds throughout.                                                  *)
LEMMA StoryInvariance == ResetBenchSpec => []StoryInv
BY StoryStarts, StoryStep, ResetBenchInvariance, PTL DEF ResetBenchSpec

(* TargetIsWarm: for every work that ends in its access and every wait, the  *)
(* access is held in the scenario's phase until the reset, with the work in  *)
(* front of it done and a data access accepted, its response not taken.      *)
THEOREM TargetsWarm == ResetBenchSpec => []TargetIsWarm
<1>1. StoryInv => TargetIsWarm
  <2> SUFFICES ASSUME StoryInv PROVE TargetIsWarm
    OBVIOUS
  <2>1. CASE run.phase = "work"
    BY <2>1, WorkWarm, WorkStraight DEF StoryInv
  <2>2. CASE run.phase # "work"
    BY <2>2 DEF TargetIsWarm, reset_due, pre_reset
  <2> QED BY <2>1, <2>2
<1> QED BY <1>1, StoryInvariance, PTL

(* VisibleStores: a store survives the reset just if the memory had answered *)
(* it, and nothing else changes memory but the restart program's own store.  *)
THEOREM StoresVisible == ResetBenchSpec => []VisibleStores
<1>1. StoryInv => VisibleStores
  <2> SUFFICES ASSUME StoryInv PROVE VisibleStores
    OBVIOUS
  <2>1. reset_due => dmem = MemoryAfterWork
    BY WorkMemory, WorkStraight DEF StoryInv, reset_due, pre_reset
  <2>2. run.phase \in {"reset", "quiet"} => dmem = MemoryAfterWork
    BY RestartShown DEF StoryInv
  <2>3. run.phase \in {"drained", "done"} => dmem = Restarted.state.ram
    BY RestartShown DEF StoryInv
  <2> QED BY <2>1, <2>2, <2>3 DEF VisibleStores
<1> QED BY <1>1, StoryInvariance, PTL

(* RestartExact: after the reset the restart program is fetched from the     *)
(* reset vector on, each instruction once, and leaves the reference model's  *)
(* events and registers, whatever the work was and wherever it was cut off.  *)
THEOREM RestartsExact == ResetBenchSpec => []RestartExact
<1>1. StoryInv => RestartExact
  <2> SUFFICES ASSUME StoryInv PROVE RestartExact
    OBVIOUS
  <2>1. CASE run.phase \in {"quiet", "restart", "drained", "done"}
    BY <2>1, RestartShown DEF StoryInv
  <2>2. CASE run.phase \notin {"quiet", "restart", "drained", "done"}
    BY <2>2 DEF RestartExact, recovery
  <2> QED BY <2>1, <2>2
<1> QED BY <1>1, StoryInvariance, PTL
================================================================================
