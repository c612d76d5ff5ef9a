------------------------------- MODULE TbCore -------------------------------
(* The main bench, tb_core.sv: the monitored core runs one job, a program    *)
(* and a completion PC.  The bench stops fetching when the completion        *)
(* instruction is answered, raises verification_halt when it retires, and    *)
(* finishes once everything has drained and every expected event was seen.   *)
(* A step is a rising edge and the falling edge after it.  max_cycles is     *)
(* left out: a run that would take for ever is one that never finishes.      *)
EXTENDS Monitored, Checker

CONSTANT Jobs

ASSUME TbAssumption ==
  \A job \in Jobs : /\ job.program \in Programs /\ job.ram \in InitialRam
                    /\ completed(expected_until_completion(job), job.completion_pc)

VARIABLES job, tb

tbVars == <<monitoredVars, job, tb>>

TbInit ==
  /\ job \in Jobs
  /\ Init /\ CheckersInit
  /\ imem = job.program /\ dmem = job.ram
  /\ tb = [ fetch_enable |-> TRUE, completion_seen |-> FALSE, finished |-> FALSE, rows |-> <<>>,
            expected_events |-> Len(expected_until_completion(job).events) ]

-----------------------------------------------------------------------------
(* Everything but register arithmetic may redirect, or trap, in EX. *)
instruction_may_redirect(i) == i.op \notin {"ALU", "SHIFT", "ADDI", "LUI"}

older_unresolved_redirect ==
  \/ IF_ID.valid /\ instruction_may_redirect(IF_ID.instr)
  \/ if_buf.valid /\ instruction_may_redirect(if_buf.instr)

(* Mutant: the hook trusts a response behind an unresolved instruction. *)
completion_response_now_trusting ==
  /\ ibus_resp_fire(Wires(FALSE)) /\ if_out.pc = job.completion_pc
  /\ ~if_out.stale /\ ~resolve_redirect

(* Whether the response is taken does not depend on fetch_enable. *)
completion_response_now ==
  /\ ibus_resp_fire(Wires(FALSE)) /\ if_out.pc = job.completion_pc
  /\ ~if_out.stale /\ ~resolve_redirect
  /\ ~older_unresolved_redirect

core_fetch_enable == tb.fetch_enable /\ ~completion_response_now

(* The event that reaches the trace registers on this edge, and whether it   *)
(* is the completion instruction's.                                          *)
retiring == MEM_WB.valid /\ ~verification_halt

(* Mutant: the halt is raised from the trace registers, an edge later. *)
completion_retires_late == trace_valid /\ trace.pc = job.completion_pc

completion_retires == retiring /\ MEM_WB.pc = job.completion_pc

(* No request, no response on either bus. *)
buses_idle == ~if_req.present /\ ~islot.resp_valid /\ ~dbus_req_valid /\ ~dslot.resp_valid

drained == core_idle /\ buses_idle /\ Score!idle

(* scoreboard.v, assertions.sv and tb_core.sv:516: a failing check ends the  *)
(* simulation.                                                               *)
extra_event == retiring /\ Len(tb.rows) >= tb.expected_events

fatal(iopen, dopen) ==
  \/ Score!ScoreboardFails(ScoreboardPins(dopen))
  \/ Watch!MonitorsFail(MonitorPins(core_fetch_enable, iopen, dopen))
  \/ extra_event

Bench ==
  LET rows == IF retiring THEN Append(tb.rows, RetiringEvent) ELSE tb.rows
      seen == tb.completion_seen \/ completion_response_now \/ completion_retires
  IN  tb' = [ tb EXCEPT
                !.fetch_enable = @ /\ ~completion_response_now /\ ~completion_retires,
                !.completion_seen = seen,
                !.rows = rows,
                !.finished = seen /\ Len(rows) = tb.expected_events /\ drained' ]

Cycle(iopen, dopen) ==
  /\ ~tb.finished /\ ~fatal(iopen, dopen)
  /\ CheckersEdge(core_fetch_enable, iopen, dopen)
  /\ Tick(core_fetch_enable, iopen, dopen, verification_halt \/ completion_retires)
  /\ Bench
  /\ UNCHANGED job

TbNext == \E iopen \in IGates, dopen \in DGates : Cycle(iopen, dopen)

TbSpec == TbInit /\ [][TbNext]_tbVars

(* The clock runs until the bench stops, and no link stays closed for ever.  *)
TbFairSpec == TbSpec /\ WF_tbVars(Cycle(TRUE, TRUE))

-----------------------------------------------------------------------------
(* What the bench relies on the program for: after the completion            *)
(* instruction the reference model would not go on with an access of the     *)
(* data bus.  Such an access may be presented already when the core is       *)
(* halted.                                                                   *)
NoAccessFollows ==
  \A j \in Jobs : LET next == step_event(expected_until_completion(j).state)
                  IN  next.mem = "none" \/ next.addr \in CsrPage

(* assertions.sv:89-212.  No monitor fails: requests and responses under     *)
(* backpressure stay, events are numbered without gaps, a trap has no other  *)
(* effect, r0 stays zero.  That halting the core withdraws a request the bus *)
(* has not taken goes unseen, because the bench has finished by then.        *)
MonitorsQuiet ==
  \A iopen \in IGates, dopen \in DGates :
    ~tb.finished => ~Watch!MonitorsFail(MonitorPins(core_fetch_enable, iopen, dopen))

(* What the bench writes when it finishes. *)
FinalState == [ registers |-> rf, memory |-> dmem, event_count |-> Len(tb.rows),
                completion_seen |-> tb.completion_seen ]

(* tb_core.sv:516-519, checker.py:406-422.  No simulation ends on an extra   *)
(* event: nothing younger than the completion instruction gets into the      *)
(* trace, though it may have been fetched and executed.  One that finishes   *)
(* passes: it shows exactly the reference model's events up to the first     *)
(* retirement of the completion PC, and leaves its registers and its memory. *)
RunPasses ==
  /\ ~extra_event
  /\ tb.finished => verify_run(expected_until_completion(job), tb.rows, FinalState, job.completion_pc) = "PASS"

(* microarchitecture.md:59, design_decisions.md:41.  Every run finishes: the *)
(* bench does not stop fetching too early, and halting the core leaves       *)
(* nothing behind that would keep it from draining.                          *)
Finishes == <>tb.finished

(* tb_core.sv:60-62, that ID/EX is covered when the hook stops fetching:     *)
(* once it has, nothing but the completion instruction redirects the fetch.  *)
StopIsNotSpeculative ==
  tb.completion_seen /\ resolve_redirect => ID_EX.pc = job.completion_pc
=============================================================================
