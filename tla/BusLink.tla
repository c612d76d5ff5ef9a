------------------------------ MODULE BusLink ------------------------------
(* One bus of tb_core.sv: a master that keeps the bus rules and may do       *)
(* anything else, the memory, and between them the shim of rv_bus_shim.sv or *)
(* plain wires.  This is where the link of the other models is justified:    *)
(* they let it be closed in any cycle.                                       *)
EXTENDS Integers

CONSTANTS BUS_ADVERSARIAL,      \* whether the shim is there
          REQUEST_STALL_CYCLES, RESPONSE_HOLD_CYCLES,
          WaitMax, Addr, Data, Zero, NoWrite, None,
          MayReset              \* whether the bench resets

VARIABLES request,      \* what the master presents in this cycle
          slot, mem,    \* the memory
          shim,
          exchange      \* monitor: what the master saw accepted and returned on the last edge

linkVars == <<request, slot, mem, shim, exchange>>

Slave == INSTANCE BusSlave

Request  == [addr: Addr, wdata: Data \union {NoWrite}]
Link == INSTANCE BusShim
Quiet == [accepted |-> None, answered |-> None]

ASSUME LinkAssumption ==
  /\ BUS_ADVERSARIAL \in BOOLEAN /\ MayReset \in BOOLEAN
  /\ REQUEST_STALL_CYCLES \in Nat /\ RESPONSE_HOLD_CYCLES \in Nat /\ WaitMax \in Nat
  /\ 0 \in Addr /\ Zero \in Data
  /\ None \notin Data /\ None \notin Request /\ NoWrite \notin Data

-----------------------------------------------------------------------------
(* The wires of a cycle in which the master's response ready is `ready`.     *)

request_passes  == BUS_ADVERSARIAL => Link!request_open
response_passes == BUS_ADVERSARIAL => Link!response_open

m_request  == IF request_passes THEN request ELSE None
m_response == IF slot.resp_valid THEN slot.resp_data ELSE None

(* Mutant: the core sees the response while the shim still holds it. *)
s_response_early == m_response
s_response == IF response_passes THEN m_response ELSE None

m_resp_ready(ready) == response_passes /\ ready
m_req_ready(ready)  == Slave!req_ready(m_resp_ready(ready))
s_req_ready(ready)  == request_passes /\ m_req_ready(ready)

LinkWires(ready) ==
  [ s_request |-> request, m_request |-> m_request, m_response |-> m_response,
    request_fire    |-> request # None /\ s_req_ready(ready),
    response_fire   |-> s_response # None /\ ready,
    m_request_fire  |-> m_request # None /\ m_req_ready(ready),
    m_response_fire |-> m_response # None /\ m_resp_ready(ready) ]

-----------------------------------------------------------------------------
Init ==
  /\ request \in Request \union {None}
  /\ slot = Slave!ResetSlot /\ mem \in [Addr -> Data]
  /\ shim = Link!ResetShim
  /\ exchange = Quiet

(* A request that was not accepted is presented again. *)
NextRequest(fire) ==
  IF fire \/ request = None THEN request' \in Request \union {None} ELSE UNCHANGED request

Edge(ready) ==
  LET w == LinkWires(ready)
  IN  /\ NextRequest(w.request_fire)
      /\ \E wait \in 0 .. WaitMax :
           Slave!SlaveEdge(w.m_request_fire, m_request.addr, m_request.wdata,
                           m_resp_ready(ready), wait)
      /\ IF BUS_ADVERSARIAL THEN Link!ShimEdge(w) ELSE UNCHANGED shim
      /\ exchange' = [ accepted |-> IF w.request_fire THEN request ELSE None,
                       answered |-> IF w.response_fire THEN s_response ELSE None ]

(* The bench resets core, shim and memory together; the request goes away. *)
Reset ==
  /\ MayReset
  /\ request' = None
  /\ slot' = Slave!ResetSlot
  /\ shim' = Link!ResetShim
  /\ exchange' = Quiet
  /\ UNCHANGED mem

Next == (\E ready \in BOOLEAN : Edge(ready)) \/ Reset

Spec == Init /\ [][Next]_linkVars

(* The clock runs on, and the master is ready for its answer again and again. *)
FairSpec == Spec /\ WF_linkVars(Edge(TRUE))

-----------------------------------------------------------------------------
(* Every register holds a value of its kind. *)
TypeOK ==
  /\ request \in Request \union {None}
  /\ slot \in Slave!Slot /\ mem \in [Addr -> Data]
  /\ shim \in Link!Shim
  /\ exchange \in [accepted: Request \union {None}, answered: Data \union {None}]

(* rv_bus_shim.sv:75-91.  None of the checks by which the shim ends a         *)
(* simulation ever fires with this memory and a master that keeps the rules:  *)
(* the memory holds its answer, answers only what was asked, and both ends    *)
(* of the shim see the same handshakes, on the same edges.                    *)
NoFatal == BUS_ADVERSARIAL => \A ready \in BOOLEAN : ~Link!Fatal(LinkWires(ready))

(* rv_bus_shim.sv:7-8: once exposed to the core, a response cannot be         *)
(* withdrawn before it is accepted.                                           *)
ExposedStays ==
  [][ \/ s_response = None \/ exchange'.answered # None
      \/ s_response' = s_response
      \/ Reset ]_linkVars

(* What the master may rely on is a memory that serves one request at a time: *)
(* the shim neither loses, repeats, reorders nor invents a request or an      *)
(* answer, and a request accepted on the edge on which the previous answer is *)
(* taken sees the previous store.                                             *)
View == IF slot.busy THEN Slave!Written(slot.addr, slot.wdata) ELSE mem
Owed == IF slot.busy THEN mem[slot.addr] ELSE m_response

Port == INSTANCE MemoryPort WITH view <- View, settled <- mem, owed <- Owed

ImplementsPort == Port!PortSpec

(* A presented request is accepted and an accepted one answered, whatever    *)
(* the shim blocks and holds (rv_bus_shim.sv:93-113). *)
RequestServed ==
  /\ request # None ~> (exchange.accepted # None \/ request = None)
  /\ Owed # None ~> (exchange.answered # None \/ Owed = None)
=============================================================================
