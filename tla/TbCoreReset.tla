---------------------------- MODULE TbCoreReset ----------------------------
(* The warm-reset bench, tb_core_reset.sv.  In each of nine scenarios the    *)
(* monitored core runs some work until one access, of either bus, is in one  *)
(* of three phases; core, memories and checkers are then reset together.     *)
(* With fetching off nothing may stir, for longer than a memory takes to     *)
(* answer; then another program must run from the reset vector as if nothing *)
(* had been before.  A step is a rising edge and the bench code after the    *)
(* falling edge, or, without an edge, one of the bench's own actions.        *)
EXTENDS Monitored, Checker

CONSTANTS LoadWork, StoreWork,  \* the work before the reset: irom.mem[0..4]
          RestartWork,          \* restart_instruction
          OldRam,               \* dmem before the work
          MemoryWaits           \* values of MEMORY_WAIT, the wait of every access

TargetPc  == 3      \* 32'd12, of the load or store of the work
LastPc    == 4      \* of the last instruction of the restart program
HoldEdges == 3
ExtraEdges == 8     \* quiet edges beyond MEMORY_WAIT

ASSUME ResetAssumption ==
  /\ {LoadWork, StoreWork, RestartWork} \subseteq Programs /\ OldRam \in InitialRam
  /\ memRead(LoadWork[TargetPc]) /\ memWrite(StoreWork[TargetPc])
  /\ MemoryWaits \subseteq Nat /\ \A w \in MemoryWaits : w <= IWaitMax /\ w <= DWaitMax

(* The reference model's run of a program up to an instruction. *)
RunOf(program, ram, last) ==
  expected_until_completion([program |-> program, ram |-> ram, completion_pc |-> last])

(* It executes the instructions up to there in turn, with neither a branch   *)
(* nor a trap.                                                               *)
StraightLine(program, ram, last) ==
  LET events == RunOf(program, ram, last).events
  IN  /\ Len(events) = last + 1 /\ last + 1 \in Pc
      /\ \A pc \in 0 .. last : /\ ~branch(program[pc]) /\ ~events[pc + 1].trap
                              /\ events[pc + 1].pc = pc /\ events[pc + 1].next_pc = pc + 1

(* Only the last of them accesses memory, and that is the data RAM. *)
LastAccesses(program, last, mem) ==
  LET events == RunOf(program, OldRam, last).events
  IN  /\ events[last + 1].addr \in RamAddr
      /\ \A pc \in 0 .. last : events[pc + 1].mem = IF pc = last THEN mem ELSE "none"

StoredRam == RunOf(StoreWork, OldRam, TargetPc).state.ram

(* The bench's programs are such code, and its phases outlast HoldEdges.     *)
ASSUME StraightAssumption ==
  /\ StraightLine(LoadWork, OldRam, TargetPc) /\ LastAccesses(LoadWork, TargetPc, "load")
  /\ StraightLine(StoreWork, OldRam, TargetPc) /\ LastAccesses(StoreWork, TargetPc, "store")
  /\ \A ram \in {OldRam, StoredRam} : StraightLine(RestartWork, ram, LastPc)
  /\ \A w \in MemoryWaits : w >= HoldEdges

VARIABLES run

resetBenchVars == <<monitoredVars, run>>

(* The nine scenarios: an access and how far it has got. *)
Scenarios == {"fetch", "load", "store"} \X {"request_pending", "response_wait", "response_offered"}

access == run.scenario[1]
stage  == run.scenario[2]

BenchInit ==
  /\ run \in [ scenario: Scenarios, memory_wait: MemoryWaits, phase: {"work"}, edges: {0},
               fetch_enable: {TRUE}, pre_events: {0}, post_events: {0}, post_ireqs: {0} ]
  /\ Init /\ CheckersInit
  /\ imem = (IF access = "store" THEN StoreWork ELSE LoadWork) /\ dmem = OldRam

-----------------------------------------------------------------------------
pre_reset == run.phase = "work"
recovery  == run.phase \in {"restart", "drained", "done"}

ireq_addr == active_req(Wires(run.fetch_enable)).addr

(* The gates that keep a request pending. *)
ib_allow == ~(pre_reset /\ run.scenario = <<"fetch", "request_pending">> /\ ireq_addr = TargetPc)
db_allow == ~(pre_reset /\ access # "fetch" /\ stage = "request_pending")

ireq_ready == ib_allow /\ Rom!req_ready(ibus_resp_ready(Wires(run.fetch_enable)))
ireq_fire  == ibus_req_fire(Wires(run.fetch_enable), ireq_ready)

OfTarget == memWrite(EX_MEM.instr) = (access = "store")

target_reached ==
  CASE access = "fetch" /\ stage = "request_pending" ->
         ibus_req_valid(Wires(run.fetch_enable)) /\ ~ireq_ready /\ ireq_addr = TargetPc
    [] access = "fetch" /\ stage = "response_wait" ->
         if_out.valid /\ islot.busy /\ ~islot.resp_valid /\ if_out.pc = TargetPc
    [] access = "fetch" /\ stage = "response_offered" ->
         if_out.valid /\ islot.resp_valid /\ if_out.pc = TargetPc
    [] access # "fetch" /\ stage = "request_pending" ->
         dbus_req_valid /\ ~dbus_req_fire(db_allow) /\ OfTarget
    [] access # "fetch" /\ stage = "response_wait" ->
         EX_MEM.accepted /\ dslot.busy /\ ~dslot.resp_valid /\ OfTarget
    [] access # "fetch" /\ stage = "response_offered" ->
         EX_MEM.accepted /\ dslot.resp_valid /\ OfTarget

(* Everything whose owner a reset must have cleared. *)
NothingOwned ==
  /\ ~ibus_req_valid(Wires(run.fetch_enable)) /\ ~ibus_resp_ready(Wires(run.fetch_enable))
  /\ ~dbus_req_valid /\ ~dbus_resp_ready
  /\ ~Rom!Occupied /\ ~Ram!Occupied
  /\ ~trace_valid /\ core_idle /\ Score!idle /\ ~EX_MEM.accepted

-----------------------------------------------------------------------------
(* A rising edge on which no checker ends the simulation. *)
Edge(en) ==
  /\ ~Score!ScoreboardFails(ScoreboardPins(db_allow))
  /\ ~Watch!MonitorsFail(MonitorPins(en, ib_allow, db_allow))
  /\ Clock(en, ib_allow, db_allow, {run.memory_wait}, {run.memory_wait}, FALSE)
  /\ CheckersEdge(en, ib_allow, db_allow)

(* Up to the scenario's phase, and on for a while if it is one that lasts.   *)
Work ==
  /\ pre_reset
  /\ run.edges # 0 \/ target_reached => stage # "response_offered" /\ run.edges < HoldEdges
  /\ Edge(run.fetch_enable)
  /\ run' = [ run EXCEPT !.edges = IF @ # 0 \/ target_reached THEN @ + 1 ELSE @,
                         !.pre_events = IF trace_valid' THEN @ + 1 ELSE @ ]

reset_due ==
  pre_reset /\ target_reached /\ (stage # "response_offered" => run.edges = HoldEdges)

WarmReset ==
  /\ reset_due
  /\ Reset /\ CheckersReset
  /\ run' = [run EXCEPT !.phase = "reset", !.edges = 0, !.fetch_enable = FALSE]

(* Still in reset, the bench loads the next program. *)
LoadRestart ==
  /\ run.phase = "reset"
  /\ imem' = RestartWork
  /\ run' = [run EXCEPT !.phase = "quiet"]
  /\ UNCHANGED <<frontVars, bpuVars, backVars, csrVars, outVars, islot, dslot, dmem,
                 verification_halt, dheld, sb, mon>>

settled == run.edges = run.memory_wait + ExtraEdges

Quiet ==
  /\ run.phase \in {"quiet", "drained"} /\ ~settled
  /\ Edge(run.fetch_enable)
  /\ run' = [run EXCEPT !.edges = @ + 1]

Recover ==
  /\ run.phase = "quiet" /\ settled
  /\ run' = [run EXCEPT !.phase = "restart", !.edges = 0, !.fetch_enable = TRUE]
  /\ UNCHANGED monitoredVars

restarted == run.post_events = LastPc + 1 /\ core_idle /\ Score!idle

(* Mutant: fetching stops one instruction too early. *)
last_fetch_early == if_out.valid /\ if_out.pc = LastPc - 1

last_fetch == if_out.valid /\ if_out.pc = LastPc

Restart ==
  /\ run.phase = "restart" /\ ~restarted
  /\ Edge(run.fetch_enable)
  /\ run' = [ run EXCEPT !.fetch_enable = @ /\ ~last_fetch',
                         !.post_ireqs = IF ireq_fire THEN @ + 1 ELSE @,
                         !.post_events = IF trace_valid' THEN @ + 1 ELSE @ ]

Drained ==
  /\ run.phase = "restart" /\ restarted
  /\ run' = [run EXCEPT !.phase = "drained"]
  /\ UNCHANGED monitoredVars

Done ==
  /\ run.phase = "drained" /\ settled
  /\ run' = [run EXCEPT !.phase = "done"]
  /\ UNCHANGED monitoredVars

BenchNext == Work \/ WarmReset \/ LoadRestart \/ Quiet \/ Recover \/ Restart \/ Drained \/ Done

ResetBenchSpec == BenchInit /\ [][BenchNext]_resetBenchVars /\ WF_resetBenchVars(BenchNext)

-----------------------------------------------------------------------------
(* The reference model's run of the restart program.  A store is in memory   *)
(* before it if its response was offered before the reset.                   *)
MemoryAfterWork ==
  IF run.scenario = <<"store", "response_offered">> THEN StoredRam ELSE OldRam

Restarted == RunOf(RestartWork, MemoryAfterWork, LastPc)

(* tb_core_reset.sv:314-340.  When the reset comes, the scenario is what it  *)
(* is named for: the access stayed in its phase, the work in front of it was *)
(* done, and a data access was accepted unless it was to be kept pending,    *)
(* and its response was not taken.                                           *)
TargetIsWarm ==
  /\ pre_reset /\ run.edges # 0 => target_reached
  /\ pre_reset /\ trace_valid =>
       trace.pc = run.pre_events - 1 /\ ~trace.trap /\ trace.mem = "none"
  /\ reset_due =>
    /\ run.pre_events >= 2
    /\ access # "fetch" => /\ EX_MEM.pc = TargetPc /\ ~EX_MEM.trap
                           /\ (sb.request # None) = (stage # "request_pending")

(* tb_core_reset.sv:191-213, assertions.sv:87-97.  From the reset until the  *)
(* bench fetches again, no request, response, instruction, event or register *)
(* value of the old work is left or turns up, however slow the memory was.   *)
OwnershipClear ==
  /\ run.phase = "reset" => ~Watch!ResetFails(MonitorPins(run.fetch_enable, ib_allow, db_allow))
  /\ run.phase \in {"reset", "quiet"} => NothingOwned /\ \A r \in Reg : rf[r] = 0

(* tb_core_reset.sv:5-6, 172-189.  A store the memory had already answered   *)
(* survives the reset, one it had only accepted never happens, and nothing   *)
(* else changes but by the restart program's own store.                      *)
VisibleStores ==
  /\ reset_due \/ run.phase \in {"reset", "quiet"} => dmem = MemoryAfterWork
  /\ run.phase \in {"drained", "done"} => dmem = Restarted.state.ram

(* tb_core_reset.sv:215-267, 385-405.  After the reset the instructions of   *)
(* the new program are fetched from the reset vector on, each once; they     *)
(* leave exactly the reference model's events, and its registers.            *)
RestartExact ==
  recovery =>
    /\ ireq_fire => ireq_addr = run.post_ireqs /\ run.post_ireqs <= LastPc
    /\ trace_valid => /\ run.post_events \in DOMAIN Restarted.events
                      /\ trace = Restarted.events[run.post_events]
    /\ run.phase # "restart" => run.post_ireqs = LastPc + 1 /\ rf = Restarted.state.gpr
    /\ run.phase # "restart" /\ run.edges # 0 => NothingOwned

(* Every scenario's phase is reached, and the restart completes and drains:  *)
(* the bench's counters of cycles never run out.                             *)
Completes == <>(run.phase = "done")
=============================================================================
