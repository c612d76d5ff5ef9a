---------------------------- MODULE FrontEndFacts ----------------------------
(* What one clock edge does to the front end, whatever it is connected to:   *)
(* the facts the proofs about FrontEndSystem and about Cpu share.            *)
EXTENDS FrontEnd, TLAPS

(* Wires as both connect them: the bench drops fetch_enable with a halt.     *)
SoundWires(e, word) ==
  /\ e \in [ redirect: BOOLEAN, target: Pc, issue: BOOLEAN, en: BOOLEAN, halt: BOOLEAN,
             resp_valid: BOOLEAN, resp_data: word, pnext: Pc ]
  /\ e.halt => ~e.en

AtMostOneFetch == ~(if_req.present /\ if_out.valid)

(* What is in flight is one unbroken walk along the predictions.             *)
Walk ==
  /\ LiveRequest => if_req.addr = fetch_pc
  /\ LiveOutstanding => if_out.pnext = FromRequest
  /\ if_buf.valid => if_buf.pnext = FromOutstanding
  /\ IF_ID.valid => IF_ID.pnext = FromBuffer

(* The words that are in flight are those of the program. *)
WordsOf(program) ==
  /\ if_buf.valid => if_buf.instr = program[if_buf.pc]
  /\ IF_ID.valid => IF_ID.instr = program[IF_ID.pc]

FrontInv(word) == FrontTypeOK(word) /\ AtMostOneFetch /\ Walk

-----------------------------------------------------------------------------
(* The increment stays within the program counters. *)
LEMMA Plus4Type == \A pc \in Pc : Plus4(pc) \in Pc
  BY PcCountAssumption, SMT DEF Pc, Plus4

(* The reset vector is a program counter. *)
LEMMA ResetType == RESET_PC \in Pc /\ 0 \in Pc
  BY PcCountAssumption, SMT DEF Pc, RESET_PC

(* The wires of the fetch owner are wires. *)
LEMMA FrontWires ==
  ASSUME NEW word, FrontTypeOK(word), NEW e, SoundWires(e, word), NEW rdy \in BOOLEAN
  PROVE  /\ ibus_resp_ready(e) \in BOOLEAN /\ ibus_req_valid(e) \in BOOLEAN
         /\ ibus_req_fire(e, rdy) \in BOOLEAN
         /\ active_req(e).addr \in Pc /\ active_req(e).pnext \in Pc
<1> USE DEF FrontTypeOK, SoundWires, Presented, Outstanding
<1>1. ibus_resp_ready(e) \in BOOLEAN
  BY DEF ibus_resp_ready
<1>2. ibus_req_valid(e) \in BOOLEAN
  BY DEF ibus_req_valid, turnover_offer
<1>3. active_req(e).addr \in Pc /\ active_req(e).pnext \in Pc
  BY DEF active_req
<1> QED BY <1>1, <1>2, <1>3 DEF ibus_req_fire

(* The five records of the fetch owner keep their type on every edge. *)
LEMMA FrontType ==
  ASSUME NEW word, FrontTypeOK(word), NEW e, SoundWires(e, word), NEW rdy \in BOOLEAN,
         FrontEdge(e, rdy)
  PROVE  FrontTypeOK(word)'
<1> USE DEF FrontTypeOK, SoundWires
<1>1. fetch_pc' \in Pc
  BY DEF FrontEdge, NextFetchPc, active_req, Presented
<1>2. if_req' \in Presented
  BY DEF FrontEdge, NextRequest, Presented, latch_request, ibus_req_fire
<1>3. if_out' \in Outstanding
  BY DEF FrontEdge, NextOutstanding, Outstanding, Presented, active_req
<1>4. if_buf' \in Fetched(word)
  BY DEF FrontEdge, NextBuffer, Fetched, Outstanding
<1>5. IF_ID' \in Fetched(word)
  BY DEF FrontEdge, NextIfId, Fetched
<1> QED BY <1>1, <1>2, <1>3, <1>4, <1>5

(* Nothing is in flight after a reset.                                       *)
LEMMA FrontAtReset ==
  ASSUME NEW zero, NEW word, zero \in word, NEW program
  PROVE  /\ FrontInit(zero) => FrontInv(word) /\ WordsOf(program)
         /\ FrontReset(zero) => FrontInv(word)' /\ WordsOf(program)'
<1>1. NoRequest \in Presented /\ NoOutstanding \in Outstanding /\ NoFetched(zero) \in Fetched(word)
  BY ResetType DEF NoRequest, NoOutstanding, NoFetched, Presented, Outstanding, Fetched
<1>2. /\ FrontInit(zero) => FrontTypeOK(word)
      /\ FrontReset(zero) => FrontTypeOK(word)'
  BY <1>1, ResetType DEF FrontInit, FrontReset, FrontTypeOK
<1> USE DEF NoRequest, NoOutstanding, NoFetched, AtMostOneFetch, Walk, WordsOf,
            LiveRequest, LiveOutstanding
<1>3. FrontInit(zero) => AtMostOneFetch /\ Walk /\ WordsOf(program)
  BY DEF FrontInit
<1>4. FrontReset(zero) => (AtMostOneFetch /\ Walk)' /\ WordsOf(program)'
  BY DEF FrontReset
<1> QED BY <1>2, <1>3, <1>4 DEF FrontInv

(* No edge leaves one fetch presented while another is outstanding. *)
LEMMA FrontOneFetch ==
  ASSUME AtMostOneFetch, NEW e, NEW rdy, FrontEdge(e, rdy)
  PROVE  AtMostOneFetch'
<1>1. if_req' = NextRequest(e, rdy) /\ if_out' = NextOutstanding(e, rdy)
  BY DEF FrontEdge
<1> QED
  BY <1>1 DEF AtMostOneFetch, NextRequest, NextOutstanding, latch_request, ibus_req_fire,
              ibus_req_valid, fetch_can_launch, turnover_offer, ibus_resp_fire, ibus_resp_ready

-----------------------------------------------------------------------------
(* The walk along the predictions.                                           *)

(* A redirect leaves nothing live: the walk starts again at its target. *)
LEMMA RedirectKills ==
  ASSUME NEW word, FrontInv(word), NEW e, SoundWires(e, word), NEW rdy \in BOOLEAN,
         FrontEdge(e, rdy), e.redirect
  PROVE  /\ ~LiveRequest' /\ ~LiveOutstanding' /\ ~if_buf'.valid /\ ~IF_ID'.valid
         /\ fetch_pc' = e.target
<1> USE DEF FrontInv, FrontTypeOK, Fetched
<1>1. ~latch_request(e, rdy) /\ ~fill_buffer(e)
  BY DEF latch_request, fetch_can_launch, turnover_offer, fill_buffer
<1>2. ~LiveRequest'
  BY <1>1 DEF FrontEdge, NextRequest, LiveRequest
<1>3. ~LiveOutstanding'
  BY DEF FrontEdge, NextOutstanding, LiveOutstanding
<1>4. ~if_buf'.valid
  BY <1>1 DEF FrontEdge, NextBuffer
<1>5. ~IF_ID'.valid
  BY DEF FrontEdge, NextIfId
<1>6. fetch_pc' = e.target
  BY DEF FrontEdge, NextFetchPc
<1> QED BY <1>2, <1>3, <1>4, <1>5, <1>6

(* Without one, the bus side of the walk moves in these ways.  What leaves   *)
(* the request is live exactly when it was, and fetch_pc follows it.         *)
LEMMA BusSide ==
  ASSUME NEW word, FrontInv(word), NEW e, SoundWires(e, word), NEW rdy \in BOOLEAN,
         FrontEdge(e, rdy), ~e.redirect
  PROVE  /\ LiveRequest' => if_req'.addr = fetch_pc'
         /\ LiveOutstanding' => if_out'.pnext = FromRequest'
         /\ fill_buffer(e) => LiveOutstanding /\ FromOutstanding' = if_out.pnext
         /\ ~fill_buffer(e) /\ ~e.halt => FromOutstanding' = FromOutstanding
<1> DEFINE accept == ibus_req_fire(e, rdy)
           done == ibus_resp_fire(e)
<1> USE DEF FrontInv, AtMostOneFetch, SoundWires
<1>1. /\ fetch_pc' = NextFetchPc(e, rdy)
      /\ if_req' = NextRequest(e, rdy)
      /\ if_out' = NextOutstanding(e, rdy)
  BY DEF FrontEdge
<1>2. /\ done => if_out.valid
      /\ fill_buffer(e) <=> done /\ ~if_out.stale
  BY DEF fill_buffer, ibus_resp_fire, ibus_resp_ready
<1>3. LiveRequest => if_req.addr = fetch_pc
  BY DEF Walk
<1>4. LiveOutstanding => if_out.pnext = fetch_pc
  BY DEF Walk, FromRequest, LiveRequest, LiveOutstanding
<1>5. if_req'.present => ~e.halt
  BY <1>1 DEF NextRequest
<1> HIDE DEF done
<1>6. CASE accept /\ if_req.present
  <2>1. ~if_out.valid /\ ~done /\ ~fill_buffer(e)
    BY <1>2, <1>6
  <2>2. ~latch_request(e, rdy)
    BY <1>6 DEF latch_request, fetch_can_launch
  <2>3. ~LiveRequest'
    BY <1>1, <1>6, <2>2 DEF NextRequest, LiveRequest
  <2>4. /\ LiveOutstanding' <=> LiveRequest
        /\ if_out'.pc = if_req.addr /\ if_out'.pnext = if_req.pnext
    BY <1>1, <1>6, <2>1 DEF NextOutstanding, active_req, LiveOutstanding, LiveRequest, done
  <2>5. fetch_pc' = IF LiveRequest THEN if_req.pnext ELSE fetch_pc
    BY <1>1, <1>6 DEF NextFetchPc, active_req, LiveRequest
  <2> QED
    BY <2>1, <2>3, <2>4, <2>5 DEF FromRequest, FromOutstanding, LiveOutstanding
<1>7. CASE accept /\ ~if_req.present
  <2>1. turnover_offer(e) /\ e.en /\ ~e.halt
    BY <1>7 DEF ibus_req_fire, ibus_req_valid, turnover_offer
  <2>2. LiveOutstanding /\ done /\ fill_buffer(e) /\ ~latch_request(e, rdy)
    BY <1>2, <1>7, <2>1 DEF turnover_offer, LiveOutstanding, latch_request, fetch_can_launch, done
  <2>3. ~LiveRequest'
    BY <1>1, <1>7, <2>2 DEF NextRequest, LiveRequest
  <2>4. LiveOutstanding' /\ if_out'.pc = fetch_pc /\ if_out'.pnext = e.pnext
    BY <1>1, <1>7, <2>1, <2>2 DEF NextOutstanding, active_req, LiveOutstanding, done
  <2>5. fetch_pc' = e.pnext
    BY <1>1, <1>7 DEF NextFetchPc, active_req
  <2> QED BY <1>4, <2>2, <2>3, <2>4, <2>5 DEF FromRequest, FromOutstanding
<1>8. CASE ~accept /\ latch_request(e, rdy)
  <2>1. e.en /\ ~e.halt /\ ~if_req.present /\ (if_out.valid => done)
    BY <1>8 DEF latch_request, fetch_can_launch, turnover_offer, done, ibus_resp_fire,
                ibus_resp_ready
  <2>2. LiveRequest' /\ if_req'.addr = fetch_pc
    BY <1>1, <1>8, <2>1 DEF NextRequest, LiveRequest
  <2>3. ~LiveOutstanding'
    BY <1>1, <1>8, <2>1 DEF NextOutstanding, LiveOutstanding, done
  <2>4. fetch_pc' = fetch_pc
    BY <1>1, <1>8 DEF NextFetchPc
  <2>5. fill_buffer(e) <=> LiveOutstanding
    BY <1>2, <2>1 DEF LiveOutstanding
  <2> QED
    BY <1>4, <2>1, <2>2, <2>3, <2>4, <2>5 DEF FromRequest, FromOutstanding, LiveRequest
<1>9. CASE ~accept /\ ~latch_request(e, rdy)
  <2>1. fetch_pc' = fetch_pc
    BY <1>1, <1>9 DEF NextFetchPc
  <2>2. /\ LiveRequest' <=> LiveRequest /\ ~e.halt
        /\ if_req'.addr = if_req.addr
    BY <1>1, <1>9 DEF NextRequest, LiveRequest
  <2>3. /\ LiveOutstanding' <=> LiveOutstanding /\ ~done /\ ~e.halt
        /\ if_out'.pc = if_out.pc /\ if_out'.pnext = if_out.pnext
    BY <1>1, <1>9 DEF NextOutstanding, LiveOutstanding, done
  <2>4. fill_buffer(e) <=> LiveOutstanding /\ done
    BY <1>2 DEF LiveOutstanding
  <2>5. LiveOutstanding => ~LiveRequest
    BY DEF LiveOutstanding, LiveRequest
  <2> QED
    BY <1>3, <1>4, <2>1, <2>2, <2>3, <2>4, <2>5 DEF FromRequest, FromOutstanding
<1> QED BY <1>6, <1>7, <1>8, <1>9

(* The buffer passes the walk on: it takes in the oldest fetch of the bus    *)
(* side and gives IF/ID its own.                                             *)
LEMMA BufferSide ==
  ASSUME NEW word, FrontInv(word), NEW e, SoundWires(e, word), NEW rdy \in BOOLEAN,
         FrontEdge(e, rdy), ~e.redirect, ~e.halt
  PROVE  /\ ifbuf_to_ifid(e) => if_buf.valid /\ FromBuffer' = if_buf.pnext
         /\ ~ifbuf_to_ifid(e) => FromBuffer' = FromBuffer
<1>1. /\ fill_buffer(e) => LiveOutstanding /\ FromOutstanding' = if_out.pnext
      /\ ~fill_buffer(e) => FromOutstanding' = FromOutstanding
  BY BusSide
<1>2. if_buf' = NextBuffer(e) /\ (if_buf.valid => if_buf.pnext = FromOutstanding)
  BY DEF FrontEdge, FrontInv, Walk
<1>3. CASE fill_buffer(e)
  <2>1. if_buf'.valid /\ if_buf'.pc = if_out.pc
    BY <1>2, <1>3 DEF NextBuffer
  <2>2. FromOutstanding = if_out.pc
    BY <1>1, <1>3 DEF FromOutstanding
  <2>3. ifbuf_to_ifid(e) \/ ~if_buf.valid
    BY <1>1, <1>3 DEF fill_buffer, ibus_resp_fire, ibus_resp_ready, LiveOutstanding
  <2> QED BY <1>2, <2>1, <2>2, <2>3 DEF FromBuffer, ifbuf_to_ifid
<1>4. CASE ~fill_buffer(e)
  <2>1. if_buf'.pc = if_buf.pc /\ (if_buf'.valid <=> if_buf.valid /\ ~ifbuf_to_ifid(e))
    BY <1>2, <1>4 DEF NextBuffer, FrontInv, FrontTypeOK, Fetched
  <2> QED BY <1>1, <1>2, <1>4, <2>1 DEF FromBuffer, ifbuf_to_ifid
<1> QED BY <1>3, <1>4

(* Without a redirect, the place where decode reads on: it moves to the      *)
(* prediction of the instruction that is issued, and else stays.             *)
LEMMA IssueSide ==
  ASSUME NEW word, FrontInv(word), NEW e, SoundWires(e, word), NEW rdy \in BOOLEAN,
         FrontEdge(e, rdy), ~e.redirect, ~e.halt
  PROVE  /\ ifid_to_idex(e) => IF_ID.valid /\ NextIssue' = IF_ID.pnext
         /\ ~ifid_to_idex(e) => NextIssue' = NextIssue
<1>1. /\ ifbuf_to_ifid(e) => if_buf.valid /\ FromBuffer' = if_buf.pnext
      /\ ~ifbuf_to_ifid(e) => FromBuffer' = FromBuffer
  BY BufferSide
<1>2. IF_ID.valid => IF_ID.pnext = FromBuffer
  BY DEF FrontInv, Walk
<1>3. CASE ifbuf_to_ifid(e)
  <2>1. IF_ID' = if_buf
    BY <1>3 DEF FrontEdge, NextIfId
  <2>2. NextIssue' = FromBuffer
    BY <1>1, <1>3, <2>1 DEF NextIssue, FromBuffer
  <2> QED
    BY <1>2, <1>3, <2>2 DEF ifbuf_to_ifid, ifid_slot_available, ifid_to_idex, NextIssue
<1>4. CASE ~ifbuf_to_ifid(e)
  <2>1. /\ IF_ID'.pc = IF_ID.pc
        /\ IF_ID'.valid <=> IF_ID.valid /\ ~ifid_slot_available(e)
    BY <1>4 DEF FrontEdge, NextIfId, FrontInv, FrontTypeOK, Fetched
  <2> QED
    BY <1>1, <1>2, <1>4, <2>1 DEF ifid_slot_available, ifid_to_idex, NextIssue
<1> QED BY <1>3, <1>4

(* No edge breaks the walk. *)
LEMMA FrontWalk ==
  ASSUME NEW word, FrontInv(word), NEW e, SoundWires(e, word), NEW rdy \in BOOLEAN,
         FrontEdge(e, rdy)
  PROVE  Walk'
<1>1. CASE e.redirect
  BY <1>1, RedirectKills DEF Walk
<1>2. CASE ~e.redirect
  <2>1. /\ LiveRequest' => if_req'.addr = fetch_pc'
        /\ LiveOutstanding' => if_out'.pnext = FromRequest'
    BY <1>2, BusSide
  <2>2. ASSUME if_buf'.valid PROVE if_buf'.pnext = FromOutstanding'
    <3>1. CASE fill_buffer(e)
      <4>1. if_buf'.pnext = if_out.pnext
        BY <3>1 DEF FrontEdge, NextBuffer
      <4> QED BY <1>2, <3>1, <4>1, BusSide
    <3>2. CASE ~fill_buffer(e)
      <4>1. if_buf'.pnext = if_buf.pnext /\ if_buf.valid /\ ~e.halt
        BY <2>2, <3>2 DEF FrontEdge, NextBuffer, FrontInv, FrontTypeOK, Fetched
      <4> QED BY <1>2, <3>2, <4>1, BusSide DEF FrontInv, Walk
    <3> QED BY <3>1, <3>2
  <2>3. ASSUME IF_ID'.valid PROVE IF_ID'.pnext = FromBuffer'
    <3>1. ~e.halt
      BY <2>3 DEF FrontEdge, NextIfId, FrontInv, FrontTypeOK, Fetched
    <3>2. CASE ifbuf_to_ifid(e)
      <4>1. IF_ID' = if_buf
        BY <1>2, <3>1, <3>2 DEF FrontEdge, NextIfId
      <4> QED BY <1>2, <3>1, <3>2, <4>1, BufferSide
    <3>3. CASE ~ifbuf_to_ifid(e)
      <4>1. IF_ID'.pnext = IF_ID.pnext /\ IF_ID.valid
        BY <1>2, <2>3, <3>1, <3>3 DEF FrontEdge, NextIfId, FrontInv, FrontTypeOK, Fetched
      <4> QED BY <1>2, <3>1, <3>3, <4>1, BufferSide DEF FrontInv, Walk
    <3> QED BY <3>2, <3>3
  <2> QED BY <2>1, <2>2, <2>3 DEF Walk
<1> QED BY <1>1, <1>2

(* Nor does an edge lose or change a word, if the response it takes is that  *)
(* of the program.                                                           *)
LEMMA FrontWords ==
  ASSUME NEW word, FrontInv(word), NEW e, SoundWires(e, word), NEW rdy \in BOOLEAN,
         FrontEdge(e, rdy), NEW program, WordsOf(program),
         fill_buffer(e) => e.resp_data = program[if_out.pc]
  PROVE  WordsOf(program)'
<1>1. ASSUME if_buf'.valid PROVE if_buf'.instr = program[if_buf'.pc]
  <2>1. CASE fill_buffer(e)
    BY <2>1 DEF FrontEdge, NextBuffer
  <2>2. CASE ~fill_buffer(e)
    <3>1. if_buf'.pc = if_buf.pc /\ if_buf'.instr = if_buf.instr /\ if_buf.valid
      BY <1>1, <2>2 DEF FrontEdge, NextBuffer, FrontInv, FrontTypeOK, Fetched
    <3> QED BY <3>1 DEF WordsOf
  <2> QED BY <2>1, <2>2
<1>2. ASSUME IF_ID'.valid PROVE IF_ID'.instr = program[IF_ID'.pc]
  <2>1. ~e.halt /\ ~e.redirect
    BY <1>2 DEF FrontEdge, NextIfId, FrontInv, FrontTypeOK, Fetched
  <2>2. CASE ifbuf_to_ifid(e)
    BY <2>1, <2>2 DEF FrontEdge, NextIfId, WordsOf, ifbuf_to_ifid
  <2>3. CASE ~ifbuf_to_ifid(e)
    <3>1. IF_ID'.pc = IF_ID.pc /\ IF_ID'.instr = IF_ID.instr /\ IF_ID.valid
      BY <1>2, <2>1, <2>3 DEF FrontEdge, NextIfId, FrontInv, FrontTypeOK, Fetched
    <3> QED BY <3>1 DEF WordsOf
  <2> QED BY <2>2, <2>3
<1> QED BY <1>1, <1>2 DEF WordsOf
=============================================================================
