---------------------------- MODULE BusLinkProofs ----------------------------
(* What a bus of tb_core.sv promises, for every memory size, wait bound and   *)
(* stall and hold count, with the shim and without it.                        *)
EXTENDS BusLink, TLAPS

USE LinkAssumption

(* The shim and the memory agree about the one transaction in flight; the     *)
(* shim never holds a request back from a memory that could not take it, and  *)
(* what it remembers of a held answer is the answer.                          *)
Agreement ==
  /\ ~slot.busy \/ ~slot.resp_valid
  /\ BUS_ADVERSARIAL =>
       /\ shim.outstanding <=> (slot.busy \/ slot.resp_valid)
       /\ shim.owed = IF shim.outstanding THEN 1 ELSE 0
       /\ shim.held_request = None
       /\ shim.held_response # None => slot.resp_valid /\ slot.resp_data = shim.held_response

LinkInv == TypeOK /\ Agreement

-----------------------------------------------------------------------------
(* The handshakes of one cycle.                                               *)

(* Both ends see the same handshakes, and a request is taken only by a memory *)
(* that owes nothing after this edge.                                         *)
Handshakes(w, ready) ==
  /\ w.request_fire <=> w.m_request_fire
  /\ w.response_fire <=> w.m_response_fire
  /\ w.m_response_fire <=> (slot.resp_valid /\ m_resp_ready(ready))
  /\ w.request_fire => /\ request \in Request /\ m_request = request
                       /\ ~slot.busy /\ (slot.resp_valid => m_resp_ready(ready))
  /\ BUS_ADVERSARIAL /\ m_request # None => w.m_request_fire
  /\ w.response_fire => s_response = slot.resp_data /\ slot.resp_data \in Data
  /\ w.request_fire \in BOOLEAN /\ w.response_fire \in BOOLEAN
  /\ w.m_request_fire \in BOOLEAN /\ w.m_response_fire \in BOOLEAN
  /\ m_resp_ready(ready) \in BOOLEAN

(* So it is with the shim and without.                                        *)
LEMMA HandshakesMatch ==
  ASSUME LinkInv, NEW ready \in BOOLEAN
  PROVE  Handshakes(LinkWires(ready), ready)
<1> DEFINE w == LinkWires(ready)
<1> USE DEF LinkInv, TypeOK, LinkWires, Slave!Slot, Link!Shim
<1>1. m_resp_ready(ready) \in BOOLEAN /\ (request_passes \in BOOLEAN) /\ (response_passes \in BOOLEAN)
  BY DEF m_resp_ready, request_passes, response_passes, Link!request_open, Link!response_open
<1>2. /\ w.request_fire <=> w.m_request_fire
      /\ w.response_fire <=> w.m_response_fire
      /\ w.request_fire => request \in Request /\ m_request = request
      /\ w.response_fire => s_response = slot.resp_data /\ slot.resp_data \in Data
  BY DEF s_req_ready, m_request, s_response, m_response, m_resp_ready
<1>3. w.m_response_fire <=> (slot.resp_valid /\ m_resp_ready(ready))
  BY DEF m_response, m_resp_ready
<1>4. w.request_fire => ~slot.busy /\ (slot.resp_valid => m_resp_ready(ready))
  BY DEF s_req_ready, m_req_ready, Slave!req_ready
<1>5. /\ w.request_fire \in BOOLEAN /\ w.response_fire \in BOOLEAN
      /\ w.m_request_fire \in BOOLEAN /\ w.m_response_fire \in BOOLEAN
  OBVIOUS
<1>6. BUS_ADVERSARIAL /\ m_request # None => w.m_request_fire
  BY DEF Agreement, m_request, m_req_ready, Slave!req_ready, request_passes, Link!request_open
<1> HIDE DEF w
<1>7. Handshakes(w, ready)
  BY <1>1, <1>2, <1>3, <1>4, <1>5, <1>6 DEF Handshakes
<1> QED BY <1>7 DEF w

(* None of the shim's checks can fire while shim and memory agree.            *)
LEMMA AgreementIsSafe == LinkInv => NoFatal
<1> SUFFICES ASSUME LinkInv, BUS_ADVERSARIAL, NEW ready \in BOOLEAN
             PROVE  ~Link!Fatal(LinkWires(ready))
  BY DEF NoFatal
<1> DEFINE w == LinkWires(ready)
<1>1. w.m_response = m_response /\ w.m_request = m_request
  BY DEF LinkWires
<1>2. /\ w.request_fire <=> w.m_request_fire
      /\ w.response_fire <=> w.m_response_fire
      /\ w.request_fire \in BOOLEAN /\ w.response_fire \in BOOLEAN
      /\ w.m_request_fire \in BOOLEAN /\ w.m_response_fire \in BOOLEAN
  BY HandshakesMatch DEF Handshakes
<1>3. /\ shim.held_response # None => m_response = shim.held_response
      /\ shim.held_request = None
      /\ m_response # None => shim.outstanding
      /\ shim.owed = IF shim.outstanding THEN 1 ELSE 0
  BY DEF LinkInv, Agreement, m_response
<1> HIDE DEF w
<1>4. ~Link!Fatal(w)
  BY <1>1, <1>2, <1>3 DEF Link!Fatal
<1> QED BY <1>4 DEF w

-----------------------------------------------------------------------------
(* The memory's side of an edge.                                              *)

(* The four things the memory can do on an edge: answer at once, start to     *)
(* wait, answer after waiting, or nothing but give up a consumed answer.      *)
SlaveOutcome(fire, addr, wdata, consumed) ==
  /\ slot' \in Slave!Slot /\ mem' \in [Addr -> Data]
  /\ ~slot'.busy \/ ~slot'.resp_valid
  /\ \/ /\ fire /\ ~slot'.busy /\ slot'.resp_valid
        /\ slot'.resp_data = mem[addr] /\ mem' = Slave!Written(addr, wdata)
     \/ /\ fire /\ slot'.busy /\ ~slot'.resp_valid
        /\ slot'.addr = addr /\ slot'.wdata = wdata /\ mem' = mem
     \/ /\ ~fire /\ slot.busy /\ ~slot'.busy /\ slot'.resp_valid
        /\ slot'.resp_data = mem[slot.addr] /\ mem' = Slave!Written(slot.addr, slot.wdata)
     \/ /\ ~fire /\ (slot'.busy <=> slot.busy)
        /\ slot'.resp_valid <=> (slot.resp_valid /\ ~consumed)
        /\ slot'.addr = slot.addr /\ slot'.wdata = slot.wdata
        /\ slot'.resp_data = slot.resp_data /\ mem' = mem

(* It can do nothing else.                                                    *)
LEMMA SlaveCases ==
  ASSUME LinkInv, NEW fire \in BOOLEAN, NEW addr \in Addr, NEW wdata \in Data \union {NoWrite},
         NEW rdy \in BOOLEAN, NEW wait \in 0 .. WaitMax,
         Slave!SlaveEdge(fire, addr, wdata, rdy, wait)
  PROVE  SlaveOutcome(fire, addr, wdata, rdy)
<1> USE DEF LinkInv, TypeOK, SlaveOutcome
<1>1. /\ slot.busy \in BOOLEAN /\ slot.resp_valid \in BOOLEAN /\ slot.cnt \in 0 .. WaitMax
      /\ slot.addr \in Addr /\ slot.wdata \in Data \union {NoWrite} /\ slot.resp_data \in Data
  BY DEF Slave!Slot
<1>2. ASSUME NEW a \in Addr, NEW d \in Data \union {NoWrite}, Slave!Respond(a, d)
      PROVE  /\ slot' \in Slave!Slot /\ mem' \in [Addr -> Data]
             /\ ~slot'.busy /\ slot'.resp_valid
             /\ slot'.resp_data = mem[a] /\ mem' = Slave!Written(a, d)
  BY <1>2 DEF Slave!Respond, Slave!Written, Slave!Slot
<1>3. CASE fire /\ wait = 0
  BY <1>2, <1>3 DEF Slave!SlaveEdge, Slave!Accept
<1>4. CASE fire /\ wait # 0
  <2>1. /\ slot' = [ busy |-> TRUE, cnt |-> wait, addr |-> addr, wdata |-> wdata,
                     resp_valid |-> FALSE, resp_data |-> slot.resp_data ]
        /\ mem' = mem
    BY <1>4 DEF Slave!SlaveEdge, Slave!Accept
  <2> QED BY <1>1, <1>4, <2>1 DEF Slave!Slot
<1>5. CASE ~fire /\ slot.busy /\ slot.cnt = 0
  <2>1. Slave!Respond(slot.addr, slot.wdata)
    BY <1>5 DEF Slave!SlaveEdge, Slave!Work
  <2> QED BY <1>1, <1>2, <1>5, <2>1
<1>6. CASE ~fire /\ ~(slot.busy /\ slot.cnt = 0)
  <2>1. slot.busy => slot.cnt - 1 \in 0 .. WaitMax
    BY <1>1, <1>6
  <2>2. /\ slot'.busy = slot.busy /\ slot'.addr = slot.addr /\ slot'.wdata = slot.wdata
        /\ slot'.resp_data = slot.resp_data /\ mem' = mem
    BY <1>6 DEF Slave!SlaveEdge, Slave!Work, Slave!Slot
  <2>3. slot'.resp_valid <=> (slot.resp_valid /\ ~rdy)
    BY <1>6 DEF Slave!SlaveEdge, Slave!Work, Slave!Slot
  <2>4. slot' \in Slave!Slot
    BY <1>1, <1>6, <2>1 DEF Slave!SlaveEdge, Slave!Work, Slave!Slot
  <2> QED BY <1>1, <1>6, <2>2, <2>3, <2>4 DEF Agreement
<1> QED BY <1>1, <1>3, <1>4, <1>5, <1>6

-----------------------------------------------------------------------------
(* The invariant.                                                             *)

(* It holds at the start and after a reset.                                   *)
LEMMA InvAtReset ==
  /\ Init => LinkInv
  /\ LinkInv /\ Reset => LinkInv'
<1> USE DEF LinkInv, TypeOK, Agreement, Quiet, Slave!ResetSlot, Slave!Slot, Link!ResetShim, Link!Shim
<1>1. ASSUME Init PROVE LinkInv
  <2>1. slot \in Slave!Slot /\ shim \in Link!Shim
    BY <1>1 DEF Init
  <2> QED BY <1>1, <2>1 DEF Init
<1>2. ASSUME LinkInv, Reset PROVE LinkInv'
  <2>1. slot' \in Slave!Slot /\ shim' \in Link!Shim
    BY <1>2 DEF Reset
  <2> QED BY <1>2, <2>1 DEF Reset
<1> QED BY <1>1, <1>2

(* What the shim keeps of a cycle is what the memory keeps of it.             *)
LEMMA ShimStep ==
  ASSUME LinkInv, BUS_ADVERSARIAL, NEW ready \in BOOLEAN, NEW w,
         w.m_request = m_request, w.m_response = m_response,
         Handshakes(w, ready), Link!ShimEdge(w)
  PROVE  /\ shim' \in Link!Shim
         /\ shim'.outstanding <=> (~w.response_fire /\ (w.request_fire \/ shim.outstanding))
         /\ shim'.owed = IF shim'.outstanding THEN 1 ELSE 0
         /\ shim'.held_request = None
         /\ shim'.held_response # None =>
              ~w.m_response_fire /\ slot.resp_valid /\ slot.resp_data = shim'.held_response
<1> USE DEF Handshakes
<1>1. /\ shim.request_remaining \in 0 .. REQUEST_STALL_CYCLES
      /\ shim.response_remaining \in 0 .. RESPONSE_HOLD_CYCLES
      /\ shim.outstanding \in BOOLEAN /\ shim.owed \in {0, 1}
  BY DEF LinkInv, TypeOK, Link!Shim
<1>2. /\ slot.busy \in BOOLEAN /\ slot.resp_valid \in BOOLEAN /\ slot.resp_data \in Data
      /\ request \in Request \union {None}
  BY DEF LinkInv, TypeOK, Slave!Slot
<1>3. w.request_fire => ~shim.outstanding
  BY <1>1, <1>2 DEF m_request, request_passes, Link!request_open
<1>4. w.response_fire => shim.outstanding
  BY <1>1, <1>2 DEF m_resp_ready, response_passes, Link!response_open
<1>5. /\ Link!NextRequestRemaining(w.request_fire, w.s_request) \in 0 .. REQUEST_STALL_CYCLES
      /\ Link!NextResponseRemaining(w.request_fire, w.m_response) \in 0 .. RESPONSE_HOLD_CYCLES
  BY <1>1 DEF Link!NextRequestRemaining, Link!NextResponseRemaining, Link!Countdown
<1>6. /\ shim'.outstanding <=> (~w.response_fire /\ (w.request_fire \/ shim.outstanding))
      /\ shim'.outstanding \in BOOLEAN
  BY <1>1 DEF Link!ShimEdge
<1>7. shim'.owed = IF shim'.outstanding THEN 1 ELSE 0
  <2>1. shim.owed = IF shim.outstanding THEN 1 ELSE 0
    BY DEF LinkInv, Agreement
  <2>2. shim'.owed = shim.owed + (IF w.request_fire THEN 1 ELSE 0)
                               - (IF w.response_fire THEN 1 ELSE 0)
    BY DEF Link!ShimEdge
  <2> QED BY <1>1, <1>3, <1>4, <1>6, <2>1, <2>2
<1>8. shim'.held_request = None
  BY DEF Link!ShimEdge
<1>9. /\ shim'.held_response # None =>
           ~w.m_response_fire /\ slot.resp_valid /\ slot.resp_data = shim'.held_response
      /\ shim'.held_response \in Data \union {None}
  BY <1>2 DEF Link!ShimEdge, m_response
<1>10. shim' \in Link!Shim
  <2>1. shim' = [ request_remaining |-> Link!NextRequestRemaining(w.request_fire, w.s_request),
                  response_remaining |-> Link!NextResponseRemaining(w.request_fire, w.m_response),
                  outstanding |-> shim'.outstanding, owed |-> shim'.owed,
                  held_request |-> shim'.held_request, held_response |-> shim'.held_response ]
    BY DEF Link!ShimEdge
  <2>2. shim'.owed \in {0, 1}
    BY <1>7
  <2> QED BY <1>5, <1>6, <1>8, <1>9, <2>1, <2>2 DEF Link!Shim
<1> QED BY <1>6, <1>7, <1>8, <1>9, <1>10

(* An edge, in terms of its handshakes.                                       *)
LinkStep(w, ready) ==
  /\ w.m_request = m_request /\ w.m_response = m_response
  /\ Handshakes(w, ready)
  /\ NextRequest(w.request_fire)
  /\ SlaveOutcome(w.request_fire, request.addr, request.wdata, w.response_fire)
  /\ BUS_ADVERSARIAL => Link!ShimEdge(w)
  /\ ~BUS_ADVERSARIAL => UNCHANGED shim
  /\ exchange' = [ accepted |-> IF w.request_fire THEN request ELSE None,
                   answered |-> IF w.response_fire THEN s_response ELSE None ]

(* Edge is such a step: without a request its address does not matter.        *)
LEMMA EdgeStep ==
  ASSUME LinkInv, NEW ready \in BOOLEAN, Edge(ready)
  PROVE  \E w : LinkStep(w, ready)
<1> DEFINE w == LinkWires(ready)
           rdy == m_resp_ready(ready)
<1>1. w.m_request = m_request /\ w.m_response = m_response
  BY DEF LinkWires
<1>2. Handshakes(w, ready)
  BY HandshakesMatch
<1>3. PICK wait \in 0 .. WaitMax :
        Slave!SlaveEdge(w.m_request_fire, m_request.addr, m_request.wdata, rdy, wait)
  BY DEF Edge
<1>4. /\ NextRequest(w.request_fire)
      /\ BUS_ADVERSARIAL => Link!ShimEdge(w)
      /\ ~BUS_ADVERSARIAL => UNCHANGED shim
      /\ exchange' = [ accepted |-> IF w.request_fire THEN request ELSE None,
                       answered |-> IF w.response_fire THEN s_response ELSE None ]
  BY DEF Edge
<1>5. rdy \in BOOLEAN /\ (w.response_fire <=> (slot.resp_valid /\ rdy))
  BY <1>2 DEF Handshakes
<1> HIDE DEF w, rdy
<1>6. SlaveOutcome(w.request_fire, request.addr, request.wdata, w.response_fire)
  <2>1. CASE w.request_fire
    <3>1. request.addr \in Addr /\ request.wdata \in Data \union {NoWrite}
      BY <1>2, <2>1 DEF Handshakes, Request
    <3>2. Slave!SlaveEdge(TRUE, request.addr, request.wdata, rdy, wait)
      BY <1>2, <1>3, <2>1 DEF Handshakes, Slave!SlaveEdge
    <3>3. SlaveOutcome(TRUE, request.addr, request.wdata, rdy)
      BY <1>5, <3>1, <3>2, SlaveCases
    <3> QED BY <2>1, <3>3 DEF SlaveOutcome
  <2>2. CASE ~w.request_fire
    <3>1. slot.addr \in Addr /\ slot.wdata \in Data \union {NoWrite}
      BY DEF LinkInv, TypeOK, Slave!Slot
    <3>2. Slave!SlaveEdge(FALSE, slot.addr, slot.wdata, rdy, wait)
      BY <1>2, <1>3, <2>2 DEF Handshakes, Slave!SlaveEdge
    <3>3. SlaveOutcome(FALSE, slot.addr, slot.wdata, rdy)
      BY <1>5, <3>1, <3>2, SlaveCases
    <3> QED BY <1>5, <2>2, <3>3 DEF SlaveOutcome
  <2> QED BY <2>1, <2>2
<1> QED BY <1>1, <1>2, <1>4, <1>6 DEF LinkStep

(* Every edge keeps the agreement.                                            *)
LEMMA InvAtEdge ==
  ASSUME LinkInv, NEW ready \in BOOLEAN, Edge(ready)
  PROVE  LinkInv'
<1>1. PICK w : LinkStep(w, ready)
  BY EdgeStep
<1>2. SlaveOutcome(w.request_fire, request.addr, request.wdata, w.response_fire)
  BY <1>1 DEF LinkStep
<1>3. request' \in Request \union {None}
  BY <1>1 DEF LinkStep, NextRequest, LinkInv, TypeOK
<1>4. exchange' \in [accepted: Request \union {None}, answered: Data \union {None}]
  BY <1>1 DEF LinkStep, Handshakes
<1>5. CASE BUS_ADVERSARIAL
  <2>1. /\ shim' \in Link!Shim
        /\ shim'.outstanding <=> (~w.response_fire /\ (w.request_fire \/ shim.outstanding))
        /\ shim'.owed = IF shim'.outstanding THEN 1 ELSE 0
        /\ shim'.held_request = None
        /\ shim'.held_response # None =>
             ~w.m_response_fire /\ slot.resp_valid /\ slot.resp_data = shim'.held_response
    BY <1>1, <1>5, ShimStep DEF LinkStep
  <2>2. /\ shim.outstanding <=> (slot.busy \/ slot.resp_valid)
        /\ ~slot.busy \/ ~slot.resp_valid
    BY <1>5 DEF LinkInv, Agreement
  <2>3. w.response_fire => ~w.request_fire
    BY <1>1, <1>5, <2>2 DEF LinkStep, Handshakes, m_request, request_passes, Link!request_open
  <2>4. shim'.outstanding <=> (slot'.busy \/ slot'.resp_valid)
    BY <1>1, <1>2, <2>1, <2>2, <2>3 DEF LinkStep, Handshakes, SlaveOutcome
  <2>5. shim'.held_response # None => slot'.resp_valid /\ slot'.resp_data = shim'.held_response
    BY <1>1, <1>2, <2>1, <2>2 DEF LinkStep, Handshakes, SlaveOutcome
  <2> QED BY <1>2, <1>3, <1>4, <2>1, <2>4, <2>5 DEF LinkInv, TypeOK, Agreement, SlaveOutcome
<1>6. CASE ~BUS_ADVERSARIAL
  BY <1>1, <1>2, <1>3, <1>4, <1>6 DEF LinkStep, LinkInv, TypeOK, Agreement, SlaveOutcome
<1> QED BY <1>5, <1>6

(* LinkInv is an invariant.                                                   *)
LEMMA Invariance == Spec => []LinkInv
<1>1. LinkInv /\ [Next]_linkVars => LinkInv'
  <2>1. LinkInv /\ UNCHANGED linkVars => LinkInv'
    BY DEF LinkInv, TypeOK, Agreement, linkVars
  <2> QED BY <2>1, InvAtReset, InvAtEdge DEF Next
<1> QED BY <1>1, InvAtReset, PTL DEF Spec

(* TypeOK: every register of the bus holds a value of its kind.               *)
THEOREM TypeCorrect == Spec => []TypeOK
<1>1. LinkInv => TypeOK
  BY DEF LinkInv
<1> QED BY <1>1, Invariance, PTL

(* NoFatal: no run of the bench is ended by the shim's own checks.            *)
THEOREM NeverFatal == Spec => []NoFatal
BY Invariance, AgreementIsSafe, PTL

(* An edge on which the exposed answer is not taken leaves it exposed.        *)
LEMMA ExposedAtEdge ==
  ASSUME LinkInv, NEW ready \in BOOLEAN, Edge(ready), s_response # None,
         exchange'.answered = None
  PROVE  s_response' = s_response
<1>1. PICK w : LinkStep(w, ready)
  BY EdgeStep
<1> USE DEF LinkStep
<1>2. /\ slot.resp_valid /\ s_response = slot.resp_data /\ slot.resp_data \in Data
      /\ response_passes
      /\ slot.busy \in BOOLEAN /\ ~slot.busy
  BY DEF LinkInv, TypeOK, Agreement, Slave!Slot, s_response, m_response
<1>3. ~w.response_fire
  BY <1>1, <1>2 DEF Handshakes
<1>4. ~w.request_fire
  BY <1>1, <1>2, <1>3 DEF Handshakes
<1>5. slot'.resp_valid /\ slot'.resp_data = slot.resp_data
  BY <1>1, <1>2, <1>3, <1>4 DEF SlaveOutcome
<1>6. response_passes'
  <2>1. CASE BUS_ADVERSARIAL
    <3>1. shim.outstanding /\ shim.response_remaining = 0
      BY <1>2, <2>1 DEF response_passes, Link!response_open
    <3>2. shim'.response_remaining = 0
      BY <1>1, <1>4, <2>1, <3>1
         DEF Link!ShimEdge, Link!NextResponseRemaining, Link!Countdown, Handshakes
    <3>3. shim'.outstanding
      BY <1>1, <1>3, <2>1, <3>1, ShimStep
    <3> QED BY <3>2, <3>3 DEF response_passes, Link!response_open
  <2>2. CASE ~BUS_ADVERSARIAL
    BY <2>2 DEF response_passes
  <2> QED BY <2>1, <2>2
<1> QED BY <1>2, <1>5, <1>6 DEF s_response, m_response

(* ExposedStays: a response the core has seen stays until the core takes it.  *)
THEOREM ExposedHeld == Spec => ExposedStays
<1>1. LinkInv /\ [Next]_linkVars =>
        [ \/ s_response = None \/ exchange'.answered # None
          \/ s_response' = s_response
          \/ Reset ]_linkVars
  BY ExposedAtEdge DEF Next
<1> QED BY <1>1, Invariance, PTL DEF Spec, ExposedStays

-----------------------------------------------------------------------------
(* The bus implements MemoryPort.                                             *)

(* What the port owes is a word while the memory is busy or answers, and      *)
(* nothing otherwise.                                                         *)
LEMMA OwedType ==
  ASSUME LinkInv
  PROVE  /\ View \in [Addr -> Data]
         /\ slot.busy => Owed = mem[slot.addr] /\ Owed \in Data
         /\ slot.resp_valid => Owed = slot.resp_data /\ Owed \in Data
         /\ ~slot.busy => View = mem
         /\ ~slot.busy /\ ~slot.resp_valid => Owed = None
BY DEF LinkInv, TypeOK, Agreement, Slave!Slot, View, Owed, m_response, Slave!Written

(* A word is never None.                                                      *)
LEMMA WordIsAnswer == \A d \in Data : d # None
OBVIOUS

(* The words as the port sees them change by exactly the accepted store.      *)
LEMMA ViewStep ==
  ASSUME LinkInv, NEW w, NEW ready \in BOOLEAN, LinkStep(w, ready), LinkInv'
  PROVE  /\ w.request_fire => /\ View' = Slave!Written(request.addr, request.wdata)
                              /\ mem' \in {View', View}
                              /\ Owed' = mem[request.addr]
         /\ ~w.request_fire => /\ View' = View
                               /\ mem' \in {View', mem}
                               /\ Owed' = IF w.response_fire THEN None ELSE Owed
<1> USE DEF LinkStep, Handshakes
<1>1. SlaveOutcome(w.request_fire, request.addr, request.wdata, w.response_fire)
  OBVIOUS
<1>2. /\ ~slot.busy => View = mem
      /\ ~slot.busy \/ ~slot.resp_valid
      /\ w.response_fire \in BOOLEAN /\ w.request_fire \in BOOLEAN
      /\ slot.busy \in BOOLEAN /\ slot.resp_valid \in BOOLEAN
  BY OwedType DEF LinkInv, Agreement, TypeOK, Slave!Slot
<1>3. CASE w.request_fire
  <2>1. ~slot.busy
    BY <1>3
  <2>2. CASE ~slot'.busy
    BY <1>1, <1>2, <1>3, <2>1, <2>2 DEF SlaveOutcome, View, Owed, m_response
  <2>3. CASE slot'.busy
    BY <1>1, <1>2, <1>3, <2>1, <2>3 DEF SlaveOutcome, View, Owed, Slave!Written
  <2> QED BY <2>2, <2>3
<1>4. CASE ~w.request_fire
  <2>1. CASE slot.busy /\ ~slot'.busy
    BY <1>1, <1>2, <1>4, <2>1 DEF SlaveOutcome, View, Owed, m_response
  <2>2. CASE ~(slot.busy /\ ~slot'.busy)
    BY <1>1, <1>2, <1>4, <2>2 DEF SlaveOutcome, View, Owed, m_response, Slave!Written
  <2> QED BY <2>1, <2>2
<1> QED BY <1>3, <1>4

(* Each edge is an edge of the port.                                          *)
LEMMA EdgeRefines ==
  ASSUME LinkInv, NEW ready \in BOOLEAN, Edge(ready)
  PROVE  Port!PortNext
<1>1. PICK w : LinkStep(w, ready)
  BY EdgeStep
<1> DEFINE accepted == IF w.request_fire THEN request ELSE None
           answered == IF w.response_fire THEN s_response ELSE None
<1>2. /\ w.request_fire => request \in Request /\ ~slot.busy /\ (slot.resp_valid => w.response_fire)
      /\ w.response_fire => slot.resp_valid /\ s_response = slot.resp_data /\ slot.resp_data \in Data
      /\ w.response_fire \in BOOLEAN /\ w.request_fire \in BOOLEAN
  BY <1>1 DEF LinkStep, Handshakes
<1>3. /\ ~slot.busy \/ ~slot.resp_valid
      /\ slot.busy \in BOOLEAN /\ slot.resp_valid \in BOOLEAN
  BY DEF LinkInv, Agreement, TypeOK, Slave!Slot
<1>4. /\ accepted \in Request \union {None} /\ answered \in Data \union {None}
      /\ answered \in {None, Owed}
      /\ accepted # None <=> w.request_fire
      /\ accepted # None => Owed = answered
      /\ ~w.request_fire => (answered = Owed <=> w.response_fire \/ Owed = None)
  BY <1>2, <1>3, OwedType, WordIsAnswer
<1>5. exchange' = [accepted |-> accepted, answered |-> answered]
  BY <1>1 DEF LinkStep
<1>6. LinkInv'
  BY InvAtEdge
<1>7. /\ w.request_fire => /\ View' = Slave!Written(request.addr, request.wdata)
                           /\ mem' \in {View', View}
                           /\ Owed' = mem[request.addr]
      /\ ~w.request_fire => /\ View' = View
                            /\ mem' \in {View', mem}
                            /\ Owed' = IF w.response_fire THEN None ELSE Owed
  BY <1>1, <1>6, ViewStep
<1>8. /\ w.request_fire => View = mem /\ accepted = request
      /\ answered = Owed => View = mem
  BY <1>2, <1>3, OwedType, WordIsAnswer
<1> HIDE DEF accepted, answered
<1>9. Port!Stores(accepted) <=> (w.request_fire /\ request.wdata # NoWrite)
  BY <1>4, <1>8 DEF Port!Stores
<1>10. View' = IF Port!Stores(accepted)
                 THEN [View EXCEPT ![accepted.addr] = accepted.wdata] ELSE View
  BY <1>4, <1>7, <1>8, <1>9 DEF Slave!Written
<1>11. Owed' = IF accepted # None THEN View[accepted.addr]
               ELSE IF answered = Owed THEN None ELSE Owed
  BY <1>4, <1>7, <1>8
<1>12. mem' \in {View', IF answered = Owed THEN View ELSE mem}
  BY <1>4, <1>7, <1>8
<1> QED BY <1>4, <1>5, <1>10, <1>11, <1>12 DEF Port!PortNext, Port!Edge, Port!Request, Request

(* ImplementsPort: the master can tell the bus, with the shim or without it,  *)
(* from a memory that serves one request at a time by its timing alone.       *)
THEOREM Refinement == Spec => ImplementsPort
<1>1. Init => Port!PortInit
  <2>1. ASSUME Init PROVE LinkInv /\ ~slot.busy /\ ~slot.resp_valid
    BY <2>1, InvAtReset DEF Init, Slave!ResetSlot
  <2> QED BY <2>1, OwedType DEF Init, Port!PortInit, Port!Quiet, Quiet
<1>2. LinkInv /\ Reset => Port!PortNext
  <2> SUFFICES ASSUME LinkInv, Reset PROVE Port!Restart
    BY DEF Port!PortNext
  <2>1. ~slot'.busy /\ ~slot'.resp_valid /\ mem' = mem /\ exchange' = Quiet
    BY DEF Reset, Slave!ResetSlot
  <2>2. View' = mem' /\ Owed' = None
    BY <2>1 DEF View, Owed, m_response
  <2> QED BY <2>1, <2>2 DEF Port!Restart, Port!Quiet, Quiet
<1>3. LinkInv /\ [Next]_linkVars => [Port!PortNext]_Port!portVars
  <2>1. UNCHANGED linkVars => UNCHANGED Port!portVars
    BY DEF linkVars, Port!portVars, View, Owed, m_response, Slave!Written
  <2> QED BY <1>2, <2>1, EdgeRefines DEF Next
<1> QED BY <1>1, <1>3, Invariance, PTL DEF Spec, ImplementsPort, Port!PortSpec
=============================================================================
