------------------------------ MODULE FrontEnd ------------------------------
(* The fetch request owner of cpu_core.v and the IF/ID register behind it.   *)
(*                                                                           *)
(* A fetch lives in one of three ownership records: if_req (presented on the *)
(* instruction bus), if_out (accepted, response not yet consumed; the code's *)
(* if_outstanding_* registers) and if_buf (response taken, waiting for       *)
(* IF/ID).  FrontEdge is one rising clock edge of all of them together.      *)
(*                                                                           *)
(* The wires that come from elsewhere are the fields of the record e:        *)
(*   redirect, target    resolve_redirect and actual_next, from EX           *)
(*   issue               idex_slot_available && !load_hazard, from ID/EX     *)
(*   en, halt            fetch_enable and verification_halt, from the bench  *)
(*   resp_valid, resp_data   the instruction bus response                    *)
(*   pnext               the successor the BPU predicts for fetch_pc         *)
(* and rdy is ibus_req_ready.  The registers *_pred_taken and *_pred_target  *)
(* only ever choose the predicted successor pred_taken ? pred_target : pc+4, *)
(* so each record carries that successor as its field pnext.                 *)
EXTENDS ProgramCounter

VARIABLES fetch_pc, if_req, if_out, if_buf, IF_ID

frontVars == <<fetch_pc, if_req, if_out, if_buf, IF_ID>>

Presented     == [present: BOOLEAN, stale: BOOLEAN, addr: Pc, pnext: Pc]
Outstanding   == [valid: BOOLEAN, stale: BOOLEAN, pc: Pc, pnext: Pc]
Fetched(word) == [valid: BOOLEAN, pc: Pc, pnext: Pc, instr: word]

(* word is the set of instruction words, zero the all-zeros one. *)
FrontTypeOK(word) ==
  /\ fetch_pc \in Pc
  /\ if_req \in Presented
  /\ if_out \in Outstanding
  /\ if_buf \in Fetched(word)
  /\ IF_ID \in Fetched(word)

NoRequest       == [present |-> FALSE, stale |-> FALSE, addr |-> RESET_PC, pnext |-> 0]
NoOutstanding   == [valid |-> FALSE, stale |-> FALSE, pc |-> 0, pnext |-> 0]
NoFetched(zero) == [valid |-> FALSE, pc |-> 0, pnext |-> 0, instr |-> zero]

FrontInit(zero) ==
  /\ fetch_pc = RESET_PC
  /\ if_req = NoRequest
  /\ if_out = NoOutstanding
  /\ if_buf = NoFetched(zero)
  /\ IF_ID = NoFetched(zero)

(* Mutant: fetching goes on from where it was. *)
FrontReset_running(zero) ==
  /\ UNCHANGED fetch_pc
  /\ if_req' = NoRequest /\ if_out' = NoOutstanding
  /\ if_buf' = NoFetched(zero) /\ IF_ID' = NoFetched(zero)

FrontReset(zero) ==
  /\ fetch_pc' = RESET_PC
  /\ if_req' = NoRequest
  /\ if_out' = NoOutstanding
  /\ if_buf' = NoFetched(zero)
  /\ IF_ID' = NoFetched(zero)

-----------------------------------------------------------------------------
(* The combinational wires of the fetch owner. *)

ifid_to_idex(e) == IF_ID.valid /\ e.issue /\ ~e.redirect

ifid_slot_available(e) == ~IF_ID.valid \/ ifid_to_idex(e)

ifbuf_to_ifid(e) == if_buf.valid /\ ifid_slot_available(e) /\ ~e.redirect

(* Mutants: the response of a killed fetch is not taken; a halted core takes *)
(* no more responses.                                                        *)
ibus_resp_ready_live(e) ==
  if_out.valid /\ ~if_out.stale /\ (e.redirect \/ ~if_buf.valid \/ ifbuf_to_ifid(e))
ibus_resp_ready_unhalted(e) == if_out.valid /\ ~e.halt /\ (if_out.stale \/ ~if_buf.valid)

ibus_resp_ready(e) ==
  if_out.valid /\ (if_out.stale \/ e.redirect \/ ~if_buf.valid \/ ifbuf_to_ifid(e))

(* Mutant: a response counts as taken as soon as it is offered. *)
ibus_resp_fire_offered(e) == e.resp_valid /\ if_out.valid

ibus_resp_fire(e) == e.resp_valid /\ ibus_resp_ready(e)

(* The response of the old request and the offer of the next one share a
   cycle: the slave may take both on one edge. *)
turnover_offer(e) ==
  ibus_resp_fire(e) /\ ~if_out.stale /\ ~e.redirect /\ e.en

ibus_req_valid(e) == if_req.present \/ turnover_offer(e)

ibus_req_fire(e, rdy) == ibus_req_valid(e) /\ rdy

(* Mutant: a request killed before it was accepted is forgotten to be stale. *)
active_req_unkilled(e) ==
  IF if_req.present
    THEN [addr |-> if_req.addr, stale |-> FALSE, pnext |-> if_req.pnext]
    ELSE [addr |-> fetch_pc, stale |-> FALSE, pnext |-> e.pnext]

(* The request on the bus: the latched one, or the turnover offer. *)
active_req(e) ==
  IF if_req.present
    THEN [addr |-> if_req.addr, stale |-> if_req.stale, pnext |-> if_req.pnext]
    ELSE [addr |-> fetch_pc, stale |-> FALSE, pnext |-> e.pnext]

fetch_can_launch(e) ==
  /\ ~if_req.present /\ ~if_out.valid
  /\ ~if_buf.valid \/ ifbuf_to_ifid(e)
  /\ e.en /\ ~e.redirect

(* Mutant: a turnover offer nobody took is not latched. *)
latch_request_launch(e, rdy) == fetch_can_launch(e)

(* A launch and a turnover offer nobody took load the same registers. *)
latch_request(e, rdy) ==
  fetch_can_launch(e) \/ (turnover_offer(e) /\ ~ibus_req_fire(e, rdy))

(* Mutant: the response of a fetch killed earlier enters the buffer. *)
fill_buffer_stale(e) == ibus_resp_fire(e) /\ ~e.redirect

(* The response enters the buffer unless its fetch was killed. *)
fill_buffer(e) == ibus_resp_fire(e) /\ ~if_out.stale /\ ~e.redirect

-----------------------------------------------------------------------------
(* One rising edge.  The code's later assignments win over its earlier ones; *)
(* each field below is the value that is left after the last of them.        *)

NextFetchPc(e, rdy) ==
  IF e.redirect THEN e.target
  ELSE IF ibus_req_fire(e, rdy) /\ ~active_req(e).stale THEN active_req(e).pnext
  ELSE fetch_pc

NextRequest(e, rdy) ==
  LET latch == latch_request(e, rdy)
      fire  == ibus_req_fire(e, rdy)
  IN  [ present |-> ~e.halt /\ (latch \/ (if_req.present /\ ~fire)),
        stale   |-> /\ ~latch /\ ~fire
                    /\ if_req.stale \/ (e.redirect /\ if_req.present),
        addr    |-> IF latch THEN fetch_pc ELSE if_req.addr,
        pnext   |-> IF latch THEN e.pnext ELSE if_req.pnext ]

NextOutstanding(e, rdy) ==
  LET fire == ibus_req_fire(e, rdy)
      done == ibus_resp_fire(e)
  IN  [ valid |-> IF fire THEN ~(e.halt /\ done) ELSE if_out.valid /\ ~done,
        stale |-> /\ ~(done /\ (e.halt \/ ~fire))
                  /\ \/ IF fire THEN active_req(e).stale \/ e.redirect ELSE if_out.stale
                     \/ if_out.valid /\ ~done /\ (e.redirect \/ e.halt),
        pc    |-> IF fire THEN active_req(e).addr ELSE if_out.pc,
        pnext |-> IF fire THEN active_req(e).pnext ELSE if_out.pnext ]

NextBuffer(e) ==
  IF fill_buffer(e)
    THEN [ valid |-> ~e.halt, pc |-> if_out.pc, pnext |-> if_out.pnext,
           instr |-> e.resp_data ]
    ELSE [ if_buf EXCEPT !.valid = @ /\ ~ifbuf_to_ifid(e) /\ ~e.redirect /\ ~e.halt ]

NextIfId(e) ==
  IF e.halt \/ e.redirect THEN [IF_ID EXCEPT !.valid = FALSE]
  ELSE IF ifbuf_to_ifid(e) THEN if_buf
  ELSE [IF_ID EXCEPT !.valid = @ /\ ~ifid_slot_available(e)]

FrontEdge(e, rdy) ==
  /\ fetch_pc' = NextFetchPc(e, rdy)
  /\ if_req' = NextRequest(e, rdy)
  /\ if_out' = NextOutstanding(e, rdy)
  /\ if_buf' = NextBuffer(e)
  /\ IF_ID' = NextIfId(e)

-----------------------------------------------------------------------------
(* The place of the oldest live fetch among the presented request, the       *)
(* outstanding one, the buffer and IF/ID, counting in from the bus.          *)
LiveRequest     == if_req.present /\ ~if_req.stale
LiveOutstanding == if_out.valid /\ ~if_out.stale

FromRequest     == IF LiveRequest THEN if_req.addr ELSE fetch_pc
FromOutstanding == IF LiveOutstanding THEN if_out.pc ELSE FromRequest
FromBuffer      == IF if_buf.valid THEN if_buf.pc ELSE FromOutstanding
NextIssue       == IF IF_ID.valid THEN IF_ID.pc ELSE FromBuffer
=============================================================================
