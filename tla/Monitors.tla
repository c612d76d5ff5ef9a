------------------------------ MODULE Monitors ------------------------------
(* assertions.sv: the monitors of the two buses and of the trace.  What is   *)
(* on a bus is None when it is not valid.  Checks for X and Z, fetch         *)
(* identifiers and the 64-bit retirement number are left out; the event      *)
(* number is kept modulo 2.                                                  *)
EXTENDS Integers

CONSTANTS IRequest, IResponse, DRequest, DResponse, None

VARIABLE mon

Monitors == [ ireq: IRequest \union {None}, iresp: IResponse \union {None},
              dreq: DRequest \union {None}, dresp: DResponse \union {None},
              expected_event_order: {0, 1} ]

ResetMonitors == [ ireq |-> None, iresp |-> None, dreq |-> None, dresp |-> None,
                   expected_event_order |-> 0 ]

(* What the other end did not take is held: it must be there again. *)
Held(valid, taken) == IF taken THEN None ELSE valid

Changed(held, valid) == held # None /\ valid # held

MonitorsEdge(w) ==
  mon' = [ ireq |-> Held(w.ireq, w.ireq_taken), iresp |-> Held(w.iresp, w.iresp_taken),
           dreq |-> Held(w.dreq, w.dreq_taken), dresp |-> Held(w.dresp, w.dresp_taken),
           expected_event_order |-> IF w.trace_valid THEN 1 - mon.expected_event_order
                                                     ELSE mon.expected_event_order ]

(* The conditions under which an edge out of reset ends the simulation. *)
MonitorsFail(w) ==
  \/ w.r0 # 0
  \/ Changed(mon.ireq, w.ireq) \/ Changed(mon.iresp, w.iresp)
  \/ Changed(mon.dreq, w.dreq) \/ Changed(mon.dresp, w.dresp)
  \/ w.trace_valid /\ w.trace_event_order # mon.expected_event_order
  \/ w.trace_valid /\ w.trace.trap /\ (w.trace.rd # 0 \/ w.trace.mem # "none")

(* The conditions under which an edge during reset does. *)
ResetFails(w) ==
  \/ w.ireq # None \/ w.iresp_ready \/ w.dreq # None \/ w.dresp_ready
  \/ w.trace_valid \/ ~w.core_idle
=============================================================================
