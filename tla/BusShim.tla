------------------------------ MODULE BusShim ------------------------------
(* rv_bus_shim.sv: a link that blocks each request for some cycles and holds *)
(* each response for some cycles at the memory before the core sees it.      *)
(* s_ wires face the core, m_ wires the memory; a wire the other end drives  *)
(* is a parameter.  The two transaction counters only matter by their        *)
(* difference, owed.                                                         *)
EXTENDS Integers

CONSTANTS REQUEST_STALL_CYCLES, RESPONSE_HOLD_CYCLES,
          Request, Data, None

VARIABLE shim

Shim == [ request_remaining: 0 .. REQUEST_STALL_CYCLES,
          response_remaining: 0 .. RESPONSE_HOLD_CYCLES,
          outstanding: BOOLEAN, owed: {0, 1},
          held_request: Request \union {None},      \* None: memory_request_held is clear
          held_response: Data \union {None} ]       \* None: memory_response_held is clear

ResetShim == [ request_remaining |-> REQUEST_STALL_CYCLES,
               response_remaining |-> RESPONSE_HOLD_CYCLES,
               outstanding |-> FALSE, owed |-> 0,
               held_request |-> None, held_response |-> None ]

request_open == ~shim.outstanding /\ shim.request_remaining = 0

response_open == shim.outstanding /\ shim.response_remaining = 0

(* Mutant: the count passes zero. *)
Countdown_unguarded(enabled, n) == IF enabled THEN n - 1 ELSE n
Countdown(enabled, n) == IF enabled /\ n > 0 THEN n - 1 ELSE n

(* Mutant: the stall is counted while there is no request. *)
NextRequestRemaining_idle(fire, s_request) ==
  IF fire THEN REQUEST_STALL_CYCLES
  ELSE Countdown(~shim.outstanding /\ s_request = None, shim.request_remaining)

NextRequestRemaining(fire, s_request) ==
  IF fire THEN REQUEST_STALL_CYCLES
  ELSE Countdown(~shim.outstanding /\ s_request # None, shim.request_remaining)

(* Mutant: a response nobody takes is hidden again. *)
NextResponseRemaining_rearm(fire, m_response) ==
  IF fire \/ (shim.outstanding /\ m_response # None /\ shim.response_remaining = 0)
    THEN RESPONSE_HOLD_CYCLES
    ELSE Countdown(shim.outstanding /\ m_response # None, shim.response_remaining)

NextResponseRemaining(fire, m_response) ==
  IF fire THEN RESPONSE_HOLD_CYCLES
  ELSE Countdown(shim.outstanding /\ m_response # None, shim.response_remaining)

(* One edge.  s_request is what the core presents, m_request what the memory *)
(* is shown, m_response what the memory answers, None standing for not valid; *)
(* request_fire and response_fire are the handshakes with the core,          *)
(* m_request_fire and m_response_fire those with the memory.                 *)
ShimEdge(w) ==
  shim' = [ request_remaining |-> NextRequestRemaining(w.request_fire, w.s_request),
            response_remaining |-> NextResponseRemaining(w.request_fire, w.m_response),
            outstanding |-> ~w.response_fire /\ (w.request_fire \/ shim.outstanding),
            owed |-> shim.owed + (IF w.request_fire THEN 1 ELSE 0)
                               - (IF w.response_fire THEN 1 ELSE 0),
            held_request |-> IF w.m_request_fire THEN None ELSE w.m_request,
            held_response |-> IF w.m_response_fire THEN None ELSE w.m_response ]

(* The conditions under which an edge ends the simulation with $fatal. *)
Fatal(w) ==
  \/ shim.held_response # None /\ w.m_response # shim.held_response
  \/ shim.held_request # None /\ w.m_request # shim.held_request
  \/ w.m_response # None /\ ~shim.outstanding
  \/ w.request_fire # w.m_request_fire
  \/ w.response_fire # w.m_response_fire
  \/ shim.owed # IF shim.outstanding THEN 1 ELSE 0
=============================================================================
