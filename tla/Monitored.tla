------------------------------ MODULE Monitored ------------------------------
(* The core of Cpu with the checkers that tb_core.sv and tb_core_reset.sv    *)
(* both connect to it: the data-bus scoreboard and the monitors.             *)
EXTENDS Cpu

CONSTANT None

(* It stands for a valid bit that is clear, and is no access. *)
ASSUME MonitoredAssumption == None \notin [addr: Val, wdata: Val \union {NoWrite}]

VARIABLES sb, mon

monitoredVars == <<vars, sb, mon>>

Score == INSTANCE Scoreboard WITH Addr <- RamAddr, Data <- Val

Watch == INSTANCE Monitors WITH IRequest <- Pc, IResponse <- Instr,
           DRequest <- [addr: RamAddr, wdata: Val \union {NoWrite}], DResponse <- Val

(* cpu_core.v:997: every fetch and pipeline owner is empty. *)
core_idle ==
  /\ ~if_req.present /\ ~if_out.valid /\ ~if_buf.valid
  /\ ~IF_ID.valid /\ ~ID_EX.valid /\ ~EX_MEM.valid /\ ~MEM_WB.valid

dbus_access == [addr |-> EX_MEM.alu, wdata |-> dbus_req_wdata]

(* What the checkers see on an edge. *)
trace_mem_fire == trace_valid /\ trace.mem # "none" /\ trace.addr \notin CsrPage

ScoreboardPins(dopen) ==
  [ accepted |-> IF dbus_req_fire(dopen) THEN dbus_access ELSE None,
    answered |-> dbus_resp_fire,
    shown |-> IF trace_mem_fire
                THEN [ addr |-> trace.addr,
                       wdata |-> IF trace.mem = "store" THEN trace.data ELSE NoWrite ]
                ELSE None,
    trap |-> trace.trap ]

MonitorPins(en, iopen, dopen) ==
  LET e    == Wires(en /\ ~verification_halt)
      irdy == iopen /\ Rom!req_ready(ibus_resp_ready(e))
  IN  [ r0 |-> rf[0], core_idle |-> core_idle,
        ireq  |-> IF ibus_req_valid(e) THEN active_req(e).addr ELSE None,
        ireq_taken |-> ibus_req_fire(e, irdy),
        iresp |-> IF islot.resp_valid THEN islot.resp_data ELSE None,
        iresp_ready |-> ibus_resp_ready(e), iresp_taken |-> ibus_resp_fire(e),
        dreq  |-> IF dbus_req_valid THEN dbus_access ELSE None,
        dreq_taken |-> dbus_req_fire(dopen),
        dresp |-> IF dslot.resp_valid THEN dslot.resp_data ELSE None,
        dresp_ready |-> dbus_resp_ready, dresp_taken |-> dbus_resp_fire,
        trace_valid |-> trace_valid, trace |-> trace,
        trace_event_order |-> 1 - event_order_count ]

(* Their own edge, and the conditions under which it is the last one. *)
CheckersEdge(en, iopen, dopen) ==
  /\ Score!ScoreboardEdge(ScoreboardPins(dopen))
  /\ Watch!MonitorsEdge(MonitorPins(en, iopen, dopen))

CheckersReset == sb' = Score!ResetScoreboard /\ mon' = Watch!ResetMonitors

CheckersInit == sb = Score!ResetScoreboard /\ mon = Watch!ResetMonitors

-----------------------------------------------------------------------------
(* scoreboard.v:98-148.  The scoreboard never fails: each access accepted on *)
(* the data bus is answered before the next one is accepted, and shows up in *)
(* the trace with its address and data before, or on the edge on which, the  *)
(* next answer arrives; no other memory event does.                          *)
ScoreboardQuiet == \A dopen \in DGates : ~Score!ScoreboardFails(ScoreboardPins(dopen))
=============================================================================
