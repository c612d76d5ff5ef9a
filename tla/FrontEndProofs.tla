--------------------------- MODULE FrontEndProofs ---------------------------
(* What FrontEndSystem promises, for every program, predictor, pipeline and  *)
(* ROM latency.                                                              *)
EXTENDS FrontEndSystem, FrontEndFacts, TLAPS

(* The wires of one cycle, as FrontEndSystem connects them. *)
Wired(e) ==
  /\ SoundWires(e, Word)
  /\ e.resp_valid = islot.resp_valid
  /\ e.resp_data = islot.resp_data
  /\ e.halt = halted

(* Both kinds of clock edge are a Clock step on properly connected wires. *)
LEMMA EdgeIsClock ==
  ASSUME TypeOK, NEW open \in BOOLEAN, Advance(open) \/ Resolve(open)
  PROVE  \E e, fire, wait : /\ fire \in BOOLEAN /\ wait \in 0 .. IWaitMax
                             /\ Wired(e) /\ Clock(e, fire, open, wait)
<1> USE FrontEndAssumption, ResetType, Plus4Type DEF TypeOK, FrontTypeOK, Fetched
<1>1. CASE Advance(open)
  <2>1. PICK fire \in {FALSE, ID_EX.valid}, hazard \in {FALSE, IF_ID.valid /\ ID_EX.valid},
             en \in BOOLEAN, pnext \in Predicted(fetch_pc), wait \in 0 .. IWaitMax :
          Clock(Wires(fire, FALSE, RESET_PC, hazard, en, pnext), fire, open, wait)
    BY <1>1 DEF Advance
  <2>2. fire \in BOOLEAN /\ hazard \in BOOLEAN /\ pnext \in Pc
    BY DEF Predicted
  <2>3. Wired(Wires(fire, FALSE, RESET_PC, hazard, en, pnext))
    BY <2>2 DEF Wired, SoundWires, Wires, Rom!Slot
  <2> DEFINE w == Wires(fire, FALSE, RESET_PC, hazard, en, pnext)
  <2>4. Wired(w) /\ Clock(w, fire, open, wait)
    BY <2>1, <2>3
  <2> HIDE DEF w
  <2> QED BY <2>2, <2>4
<1>2. CASE Resolve(open)
  <2>1. PICK target \in RedirectTargets, en \in BOOLEAN,
             pnext \in Predicted(fetch_pc), wait \in 0 .. IWaitMax :
          Clock(Wires(TRUE, TRUE, target, FALSE, en, pnext), TRUE, open, wait)
    BY <1>2 DEF Resolve
  <2>2. Wired(Wires(TRUE, TRUE, target, FALSE, en, pnext))
    BY DEF Wired, SoundWires, Wires, Predicted, Rom!Slot
  <2> QED BY <2>1, <2>2
<1> QED BY <1>1, <1>2

-----------------------------------------------------------------------------
(* Type correctness.                                                         *)

RomFacts == INSTANCE BusSlaveFacts WITH slot <- islot, mem <- imem, WaitMax <- IWaitMax,
                                        Addr <- Pc, Data <- Word, Zero <- ZeroWord

(* What an edge may do to the ROM: its slot keeps its type, and no fetch     *)
(* changes a word.                                                           *)
LEMMA RomCases ==
  ASSUME TypeOK, NEW fire \in BOOLEAN, NEW addr \in Pc, NEW ready \in BOOLEAN,
         NEW wait \in 0 .. IWaitMax, Rom!SlaveEdge(fire, addr, NoWrite, ready, wait)
  PROVE  /\ islot' \in Rom!Slot /\ islot'.wdata = NoWrite /\ imem' = imem
         /\ RomFacts!Outcome(fire, addr, NoWrite, ready)
<1> USE FrontEndAssumption DEF TypeOK
<1>1. RomFacts!SlaveTypes
  BY DEF RomFacts!SlaveTypes, RomFacts!Slot, Rom!Slot
<1>2. RomFacts!SlaveEdge(fire, addr, NoWrite, ready, wait)
  BY DEF Rom!SlaveEdge, Rom!Accept, Rom!Work, Rom!Respond, Rom!Written, RomFacts!SlaveEdge,
         RomFacts!Accept, RomFacts!Work, RomFacts!Respond, RomFacts!Written
<1>3. islot' \in RomFacts!Slot /\ RomFacts!Outcome(fire, addr, NoWrite, ready)
  BY <1>1, <1>2, RomFacts!SlaveCases
<1>4. islot'.wdata = NoWrite /\ imem' = imem
  BY <1>3, RomFacts!ReadsKeepWords
<1> QED BY <1>3, <1>4 DEF RomFacts!Slot, Rom!Slot

(* A clock edge of the whole system keeps every type. *)
LEMMA ClockType ==
  ASSUME TypeOK, NEW e, Wired(e), NEW fire \in BOOLEAN, NEW open \in BOOLEAN,
         NEW wait \in 0 .. IWaitMax, Clock(e, fire, open, wait)
  PROVE  TypeOK'
<1> DEFINE rdy == open /\ Rom!req_ready(ibus_resp_ready(e))
<1>0. rdy \in BOOLEAN
  BY DEF Rom!req_ready
<1>1. /\ ibus_resp_ready(e) \in BOOLEAN /\ ibus_req_fire(e, rdy) \in BOOLEAN
      /\ ibus_req_valid(e) \in BOOLEAN
  BY <1>0, FrontWires DEF TypeOK, Wired
<1>2. active_req(e).addr \in Pc
  BY <1>0, FrontWires DEF TypeOK, Wired
<1>3. FrontTypeOK(Word)'
  BY <1>0, FrontType DEF Clock, TypeOK, Wired
<1>4. islot' \in Rom!Slot /\ islot'.wdata = NoWrite /\ imem' \in [Pc -> Word]
  <2>1. Rom!SlaveEdge(ibus_req_fire(e, rdy), active_req(e).addr, NoWrite,
                      ibus_resp_ready(e), wait)
    BY DEF Clock
  <2> HIDE DEF rdy
  <2> QED BY <1>1, <1>2, <2>1, RomCases DEF TypeOK
<1>5. ID_EX' \in Fetched(Word)
  BY DEF Clock, NextIdEx, TypeOK, FrontTypeOK, Fetched
<1>6. halted' \in BOOLEAN
  BY FrontEndAssumption DEF Clock, TypeOK
<1>7. held' \in [valid: BOOLEAN, addr: Pc]
  BY <1>0, <1>1, <1>2 DEF Clock
<1>8. steer' \in [target: Pc, odd: BOOLEAN]
  BY DEF Clock, TypeOK, Wired, SoundWires
<1> QED BY <1>3, <1>4, <1>5, <1>6, <1>7, <1>8 DEF TypeOK

(* What reset leaves in the registers is of their type. *)
LEMMA ResetValues ==
  /\ NoRequest \in Presented /\ NoOutstanding \in Outstanding
  /\ NoFetched(ZeroWord) \in Fetched(Word)
  /\ Rom!ResetSlot \in Rom!Slot /\ Rom!ResetSlot.wdata = NoWrite
  /\ NothingHeld \in [valid: BOOLEAN, addr: Pc]
  /\ NotSteered \in [target: Pc, odd: BOOLEAN]
<1>1. 0 \in 0 .. IWaitMax
  BY FrontEndAssumption
<1> QED
  BY <1>1, FrontEndAssumption, ResetType
  DEF NoRequest, NoOutstanding, NoFetched, Presented, Outstanding, Fetched, Rom!ResetSlot,
      Rom!Slot, NothingHeld, NotSteered

(* In every reachable state every register holds a value of its kind. *)
THEOREM TypeCorrect == Spec => []TypeOK
<1>1. Init => TypeOK
  BY FrontEndAssumption, ResetType, ResetValues DEF Init, TypeOK, FrontInit, FrontTypeOK
<1>2. TypeOK /\ [Next]_vars => TypeOK'
  <2> SUFFICES ASSUME TypeOK, [Next]_vars PROVE TypeOK'
    OBVIOUS
  <2>1. ASSUME NEW open \in BOOLEAN, Advance(open) \/ Resolve(open) PROVE TypeOK'
    BY <2>1, EdgeIsClock, ClockType
  <2>2. CASE Reset
    BY <2>2, ResetType, ResetValues DEF Reset, TypeOK, FrontReset, FrontTypeOK
  <2>3. CASE UNCHANGED vars
    BY <2>3 DEF vars, frontVars, TypeOK, FrontTypeOK
  <2> QED BY <2>1, <2>2, <2>3 DEF Next
<1> QED BY <1>1, <1>2, PTL DEF Spec

-----------------------------------------------------------------------------
(* Ownership of the bus.  The inductive invariant is the conjunction of the  *)
(* five parts: who owns the transaction depends on a fetch being presented   *)
(* or outstanding and never both, and the address the ROM works on is the    *)
(* core's because an accepted fetch keeps the address it presented.          *)

Inv == TypeOK /\ OneFetch /\ Ownership /\ HeldRequestStable /\ InFlightOrder

(* The part of it that is about the front end alone. *)
LEMMA FrontPart == Inv => FrontInv(Word) /\ WordsOf(imem)
  BY DEF Inv, TypeOK, OneFetch, InFlightOrder, FrontInv, AtMostOneFetch, Walk, WordsOf

(* No edge leaves one fetch presented while another is outstanding. *)
LEMMA ClockOneFetch ==
  ASSUME Inv, NEW e, Wired(e), NEW fire \in BOOLEAN, NEW open \in BOOLEAN,
         NEW wait \in 0 .. IWaitMax, Clock(e, fire, open, wait)
  PROVE  OneFetch'
<1> DEFINE rdy == open /\ Rom!req_ready(ibus_resp_ready(e))
<1>1. AtMostOneFetch /\ FrontEdge(e, rdy)
  BY FrontPart DEF Clock, FrontInv
<1> HIDE DEF rdy
<1>2. AtMostOneFetch'
  BY <1>1, FrontOneFetch
<1> QED BY <1>2 DEF AtMostOneFetch, OneFetch

(* No edge makes the core and the ROM disagree on who owns the bus. *)
LEMMA ClockOwnership ==
  ASSUME Inv, NEW e, Wired(e), NEW fire \in BOOLEAN, NEW open \in BOOLEAN,
         NEW wait \in 0 .. IWaitMax, Clock(e, fire, open, wait)
  PROVE  Ownership'
<1> DEFINE ready == ibus_resp_ready(e)
           rdy == open /\ Rom!req_ready(ready)
           accept == ibus_req_fire(e, rdy)
<1>0. /\ rdy \in BOOLEAN
      /\ rdy => ~islot.busy /\ (~islot.resp_valid \/ ready)
  BY DEF Rom!req_ready
<1>1. if_out' = NextOutstanding(e, rdy) /\ Rom!SlaveEdge(accept, active_req(e).addr, NoWrite, ready, wait)
  BY DEF Clock, FrontEdge
<1>2. ready \in BOOLEAN /\ accept \in BOOLEAN /\ active_req(e).addr \in Pc
  BY <1>0, FrontWires DEF Inv, TypeOK, Wired
<1> HIDE DEF ready, accept
<1>3. RomFacts!Outcome(accept, active_req(e).addr, NoWrite, ready) /\ imem' = imem
      /\ islot' \in Rom!Slot
  BY <1>1, <1>2, RomCases DEF Inv
<1>4. /\ islot.busy \in BOOLEAN /\ islot.resp_valid \in BOOLEAN
      /\ islot'.busy \in BOOLEAN /\ islot'.resp_valid \in BOOLEAN
      /\ if_out.valid \in BOOLEAN /\ if_out'.valid \in BOOLEAN
  BY <1>3, ClockType DEF Inv, TypeOK, FrontTypeOK, Outstanding, Rom!Slot
<1>5. /\ ibus_resp_fire(e) <=> (islot.resp_valid /\ ready)
      /\ ready => if_out.valid
  BY DEF ibus_resp_fire, ibus_resp_ready, Wired, ready
<1>6. CASE accept
  <2>1. ~(e.halt /\ ibus_resp_fire(e))
    BY <1>6 DEF accept, ibus_req_fire, ibus_req_valid, turnover_offer, Inv, OneFetch, Wired,
                SoundWires, ibus_resp_fire, ibus_resp_ready
  <2>2. if_out'.valid /\ if_out'.pc = active_req(e).addr
    BY <1>1, <1>6, <2>1 DEF NextOutstanding, accept
  <2> QED BY <1>3, <1>4, <1>6, <2>2 DEF RomFacts!Outcome, Ownership, Rom!Occupied
<1>7. CASE ~accept
  <2>1. /\ if_out'.valid <=> (if_out.valid /\ ~ibus_resp_fire(e))
        /\ if_out'.pc = if_out.pc
    BY <1>1, <1>4, <1>7 DEF NextOutstanding, accept
  <2> QED BY <1>3, <1>4, <1>5, <1>7, <2>1 DEF RomFacts!Outcome, Inv, Ownership, Rom!Occupied
<1> QED BY <1>6, <1>7

(* A request or turnover offer the ROM did not take is latched unchanged. *)
LEMMA ClockHeld ==
  ASSUME Inv, NEW e, Wired(e), NEW fire \in BOOLEAN, NEW open \in BOOLEAN,
         NEW wait \in 0 .. IWaitMax, Clock(e, fire, open, wait)
  PROVE  HeldRequestStable'
<1> DEFINE rdy == open /\ Rom!req_ready(ibus_resp_ready(e))
<1>1. /\ if_req' = NextRequest(e, rdy)
      /\ held' = [valid |-> ibus_req_valid(e) /\ ~rdy, addr |-> active_req(e).addr]
      /\ halted => halted'
  BY FrontEndAssumption DEF Clock, FrontEdge, Inv, TypeOK
<1> HIDE DEF rdy
<1> SUFFICES ASSUME ibus_req_valid(e), ~rdy, ~halted
             PROVE  if_req'.present /\ if_req'.addr = active_req(e).addr
  BY <1>1 DEF HeldRequestStable
<1>2. ~e.halt /\ ~ibus_req_fire(e, rdy)
  BY DEF Wired, ibus_req_fire
<1>3. CASE if_req.present
  <2>1. ~latch_request(e, rdy)
    BY <1>3 DEF latch_request, fetch_can_launch, turnover_offer, ibus_resp_fire,
                ibus_resp_ready, Inv, OneFetch
  <2> QED BY <1>1, <1>2, <1>3, <2>1 DEF NextRequest, active_req
<1>4. CASE ~if_req.present
  <2>1. latch_request(e, rdy)
    BY <1>2, <1>4 DEF latch_request, ibus_req_valid
  <2> QED BY <1>1, <1>2, <1>4, <2>1 DEF NextRequest, active_req
<1> QED BY <1>3, <1>4

(* No edge breaks the walk along the predictions, or loses a word of it. *)
LEMMA ClockInFlight ==
  ASSUME Inv, NEW e, Wired(e), NEW rdy \in BOOLEAN, FrontEdge(e, rdy), imem' = imem
  PROVE  InFlightOrder'
<1>1. Walk'
  BY FrontPart, FrontWalk DEF Wired
<1>2. fill_buffer(e) => e.resp_data = imem[if_out.pc]
  BY DEF fill_buffer, ibus_resp_fire, ibus_resp_ready, Wired, Inv, Ownership
<1>3. /\ if_buf'.valid => if_buf'.instr = imem[if_buf'.pc]
      /\ IF_ID'.valid => IF_ID'.instr = imem[IF_ID'.pc]
  BY <1>2, FrontPart, FrontWords DEF Wired, WordsOf
<1> QED BY <1>1, <1>3 DEF Walk, InFlightOrder

(* The invariant: for every ROM latency, program, predictor and behaviour of *)
(* the pipeline, each part holds in every reachable state.                   *)
THEOREM Invariance == Spec => []Inv
<1>1. Init => Inv
  <2> SUFFICES ASSUME Init PROVE Inv
    OBVIOUS
  <2>1. TypeOK
    BY FrontEndAssumption, ResetType, ResetValues DEF Init, TypeOK, FrontInit, FrontTypeOK
  <2> QED
    BY <2>1 DEF Init, Inv, FrontInit, OneFetch, Ownership, HeldRequestStable, InFlightOrder,
       NoRequest, NoOutstanding, NoFetched, Rom!ResetSlot, Rom!Occupied, NothingHeld,
       LiveRequest, LiveOutstanding
<1>2. Inv /\ [Next]_vars => Inv'
  <2> SUFFICES ASSUME Inv, [Next]_vars PROVE Inv'
    OBVIOUS
  <2>1. ASSUME NEW open \in BOOLEAN, Advance(open) \/ Resolve(open) PROVE Inv'
    <3>1. PICK e, fire, wait : /\ fire \in BOOLEAN /\ wait \in 0 .. IWaitMax
                               /\ Wired(e) /\ Clock(e, fire, open, wait)
      BY <2>1, EdgeIsClock DEF Inv
    <3> DEFINE rdy == open /\ Rom!req_ready(ibus_resp_ready(e))
    <3>2. FrontEdge(e, rdy) /\ rdy \in BOOLEAN
      BY <3>1 DEF Clock, Rom!req_ready
    <3> HIDE DEF rdy
    <3>3. TypeOK' /\ OneFetch' /\ Ownership' /\ HeldRequestStable'
      BY <3>1, ClockType, ClockOneFetch, ClockOwnership, ClockHeld DEF Inv
    <3>4. imem' = imem
      BY <3>1 DEF Inv, TypeOK, Clock, Rom!SlaveEdge, Rom!Accept, Rom!Work, Rom!Respond,
                  Rom!Written
    <3>5. InFlightOrder'
      BY <3>1, <3>2, <3>4, ClockInFlight
    <3> QED BY <3>3, <3>5 DEF Inv
  <2>2. CASE Reset
    <3>1. TypeOK'
      BY <2>2, ResetType, ResetValues DEF Inv, Reset, TypeOK, FrontReset, FrontTypeOK
    <3> QED
      BY <2>2, <3>1 DEF Reset, Inv, FrontReset, OneFetch, Ownership, HeldRequestStable,
         InFlightOrder, NoRequest, NoOutstanding, NoFetched, Rom!ResetSlot, Rom!Occupied,
         NothingHeld, LiveRequest, LiveOutstanding
  <2>3. CASE UNCHANGED vars
    BY <2>3 DEF vars, frontVars, Inv, TypeOK, FrontTypeOK, OneFetch, Ownership, Rom!Occupied,
       HeldRequestStable, InFlightOrder, FromBuffer, FromOutstanding, FromRequest,
       LiveOutstanding, LiveRequest
  <2> QED BY <2>1, <2>2, <2>3 DEF Next
<1> QED BY <1>1, <1>2, PTL DEF Spec

(* The core and the ROM agree on who owns the bus, and on what is on it. *)
THEOREM OwnershipAgreed == Spec => [](Ownership /\ OneFetch)
  BY Invariance, PTL DEF Inv

(* A presented request is held until it is taken. *)
THEOREM RequestsHeld == Spec => []HeldRequestStable
  BY Invariance, PTL DEF Inv

(* What is in flight is the predicted path, word for word. *)
THEOREM InFlightOrdered == Spec => []InFlightOrder
  BY Invariance, PTL DEF Inv

-----------------------------------------------------------------------------
(* The refinement of FetchStream.                                            *)

(* Every clock edge is a step of the stream. *)
LEMMA ClockRefines ==
  ASSUME Inv, NEW e, Wired(e), NEW fire \in BOOLEAN, NEW open \in BOOLEAN,
         NEW wait \in 0 .. IWaitMax, Clock(e, fire, open, wait)
  PROVE  Stream!StreamNext
<1> DEFINE rdy == open /\ Rom!req_ready(ibus_resp_ready(e))
           slot == ~ID_EX.valid \/ fire
<1>1. /\ FrontEdge(e, rdy) /\ rdy \in BOOLEAN
      /\ ID_EX' = NextIdEx(e, slot)
      /\ steer' = IF e.redirect THEN [target |-> e.target, odd |-> ~steer.odd] ELSE steer
      /\ halted => halted'
  BY FrontEndAssumption DEF Clock, Rom!req_ready, Inv, TypeOK
<1>2. imem' = imem
  BY DEF Inv, TypeOK, Clock, Rom!SlaveEdge, Rom!Accept, Rom!Work, Rom!Respond, Rom!Written
<1> HIDE DEF rdy, slot
<1>0. FrontInv(Word) /\ SoundWires(e, Word)
  BY FrontPart DEF Wired
<1>3. ~ifid_to_idex(e) \/ e.halt => LastIssued' = LastIssued
  BY <1>1 DEF NextIdEx, LastIssued, ifid_to_idex, Inv, TypeOK, Fetched
<1>4. CASE e.redirect
  <2>0. /\ ~LiveRequest' /\ ~LiveOutstanding' /\ ~if_buf'.valid /\ ~IF_ID'.valid
        /\ fetch_pc' = e.target
    BY <1>0, <1>1, <1>4, RedirectKills
  <2>1. NextIssue' = e.target
    BY <2>0 DEF NextIssue, FromBuffer, FromOutstanding, FromRequest
  <2>2. LastIssued' = LastIssued
    BY <1>3, <1>4 DEF ifid_to_idex
  <2>3. Stream!Redirect(e.target) /\ e.target \in Pc
    BY <1>1, <1>2, <1>4, <2>1, <2>2 DEF Stream!Redirect, Wired, SoundWires
  <2> QED BY <1>1, <2>3 DEF Stream!StreamNext, Stream!Pc, Pc
<1>5. CASE ~e.redirect /\ e.halt
  <2>1. Stream!Idle
    BY <1>1, <1>2, <1>3, <1>5 DEF Stream!Idle, Wired
  <2> QED BY <1>1, <2>1 DEF Stream!StreamNext
<1>6. CASE ~e.redirect /\ ~e.halt /\ ~ifid_to_idex(e)
  <2>0. NextIssue' = NextIssue
    BY <1>0, <1>1, <1>6, IssueSide
  <2>1. Stream!Idle
    BY <1>1, <1>2, <1>3, <1>6, <2>0 DEF Stream!Idle
  <2> QED BY <1>1, <2>1 DEF Stream!StreamNext
<1>7. CASE ~e.redirect /\ ~e.halt /\ ifid_to_idex(e)
  <2>1. IF_ID.valid /\ NextIssue' = IF_ID.pnext
    BY <1>0, <1>1, <1>7, IssueSide
  <2>2. ID_EX' = IF_ID
    BY <1>1, <1>7 DEF NextIdEx
  <2>3. IF_ID.instr = imem[IF_ID.pc] /\ NextIssue = IF_ID.pc
    BY <2>1 DEF Inv, InFlightOrder, NextIssue
  <2>4. ~halted /\ IF_ID.pnext \in Pc
    BY <1>7 DEF Wired, Inv, TypeOK, FrontTypeOK, Fetched
  <2>5. Stream!Issue(IF_ID.pnext)
    BY <1>1, <1>2, <1>7, <2>1, <2>2, <2>3, <2>4 DEF Stream!Issue, LastIssued
  <2> QED BY <1>1, <2>4, <2>5 DEF Stream!StreamNext, Stream!Pc, Pc
<1> QED BY <1>4, <1>5, <1>6, <1>7

(* The front end implements the stream: for every latency, program, redirect *)
(* and prediction, what decode is given is what FetchStream describes.       *)
THEOREM Refinement == Spec => ImplementsStream
<1>1. Init => Stream!StreamInit
  BY FrontEndAssumption DEF Init, FrontInit, NoRequest, NoOutstanding, NoFetched, NotSteered,
     Stream!StreamInit, Stream!Nothing, Stream!Straight, Stream!RESET_PC, RESET_PC,
     Stream!Pc, Pc, NextIssue, FromBuffer, FromOutstanding, FromRequest, LiveRequest,
     LiveOutstanding, LastIssued
<1>2. Inv /\ [Next]_vars => [Stream!StreamNext]_(Stream!streamVars)
  <2> SUFFICES ASSUME Inv, [Next]_vars
               PROVE  Stream!StreamNext \/ UNCHANGED Stream!streamVars
    OBVIOUS
  <2>1. ASSUME NEW open \in BOOLEAN, Advance(open) \/ Resolve(open)
        PROVE  Stream!StreamNext
    <3>1. PICK e, fire, wait : /\ fire \in BOOLEAN /\ wait \in 0 .. IWaitMax
                               /\ Wired(e) /\ Clock(e, fire, open, wait)
      BY <2>1, EdgeIsClock DEF Inv
    <3> QED BY <3>1, ClockRefines
  <2>2. CASE Reset
    BY <2>2 DEF Reset, FrontReset, NoRequest, NoOutstanding, NoFetched, NotSteered,
       Stream!StreamNext, Stream!Restart, Stream!Nothing, Stream!Straight,
       Stream!RESET_PC, RESET_PC, NextIssue, FromBuffer, FromOutstanding, FromRequest,
       LiveRequest, LiveOutstanding, LastIssued
  <2>3. CASE UNCHANGED vars
    BY <2>3 DEF vars, frontVars, Stream!streamVars, NextIssue, FromBuffer, FromOutstanding,
       FromRequest, LiveRequest, LiveOutstanding, LastIssued
  <2> QED BY <2>1, <2>2, <2>3 DEF Next
<1> QED BY <1>1, <1>2, Invariance, PTL DEF Spec, ImplementsStream, Stream!StreamSpec
=============================================================================
