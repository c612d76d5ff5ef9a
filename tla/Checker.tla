------------------------------- MODULE Checker -------------------------------
(* What decides about a simulation run, after it: run_tests.py runs the      *)
(* reference model up to the completion PC for the number of events to       *)
(* expect, and checker.py compares trace and final state with a second run   *)
(* of it.  The text formats, bookkeeping columns and epochs are left out:    *)
(* one run is one epoch, and a row of the trace is an event.                 *)
EXTENDS Iss, Sequences

CONSTANT MaxEvents      \* after which a run is given up

ASSUME CheckerAssumption == MaxEvents \in Nat

completed(run, completion_pc) ==
  run.events # <<>> /\ run.events[Len(run.events)].pc = completion_pc

(* The state and the events after n events; none follow the completion PC.   *)
reference_run(job) ==
  LET run[n \in 0 .. MaxEvents] ==
        IF n = 0 THEN [state |-> reset(job.program, job.ram), events |-> <<>>]
        ELSE LET r == run[n - 1]
             IN  IF completed(r, job.completion_pc) THEN r
                 ELSE [ state |-> step(r.state), events |-> Append(r.events, step_event(r.state)) ]
  IN  run

expected_until_completion(job) == reference_run(job)[MaxEvents]

(* The verdict on the rows of a trace and the dump of the final state, given *)
(* such a run of the reference model.                                        *)
compare_trace(expected, rows, completion_pc) ==
  CASE Len(rows) # Len(expected.events)             -> "COMPLETION"
    [] \E i \in DOMAIN rows : i <= Len(expected.events) /\ rows[i] # expected.events[i]
                                                    -> "TRACE_MISMATCH"
    [] rows = <<>> \/ rows[Len(rows)].pc # completion_pc -> "COMPLETION"
    [] OTHER                                        -> "PASS"

compare_state(expected, dump) ==
  IF dump.registers = expected.state.gpr /\ dump.memory = expected.state.ram THEN "PASS" ELSE "STATE_MISMATCH"

verify_run(expected, rows, dump, completion_pc) ==
  LET trace == compare_trace(expected, rows, completion_pc)
  IN  IF trace # "PASS" THEN trace
      ELSE IF dump.event_count # Len(rows) \/ ~dump.completion_seen THEN "COMPLETION"
      ELSE compare_state(expected, dump)
=============================================================================
