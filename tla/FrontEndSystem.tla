--------------------------- MODULE FrontEndSystem ---------------------------
(* The front end of cpu_core.v on its instruction bus: FrontEnd, the ROM of  *)
(* rv_rom.v, and the part of ID/EX the front end feeds.  The rest of the     *)
(* core is its environment.  Every cycle it may                              *)
(*   - let ID/EX fire, and with that redirect the fetch (a redirect is only  *)
(*     ever raised by the instruction that fires: resolve_redirect),         *)
(*   - hold decode for a load hazard,                                        *)
(*   - predict any successor of Predicted(fetch_pc) for the next fetch,      *)
(*   - drop or raise fetch_enable, and                                       *)
(*   - close the link to the ROM for a cycle.                                *)
(* With MayHalt the testbench may also raise verification_halt, which it     *)
(* does together with dropping fetch_enable and never takes back.            *)
EXTENDS FrontEnd

CONSTANTS Word, ZeroWord,   \* instruction words, the word 32'b0
          NoWrite,          \* "store data" of a read
          Programs,         \* the contents the ROM may be loaded with
          IWaitMax,         \* largest number of waits of the ROM
          RedirectTargets,  \* where EX may redirect to
          TakenTargets,     \* targets the BTB may hold
          MayHalt           \* whether the bench may halt the core

ASSUME FrontEndAssumption ==
  /\ ZeroWord \in Word /\ NoWrite \notin Word
  /\ Programs \subseteq [Pc -> Word]
  /\ IWaitMax \in Nat
  /\ RedirectTargets \subseteq Pc /\ TakenTargets \subseteq Pc
  /\ MayHalt \in BOOLEAN

VARIABLES islot, imem,      \* the ROM
          ID_EX,            \* identity of the instruction in ID/EX
          halted,           \* verification_halt
          held,             \* monitor: the request left unaccepted by the last edge
          steer             \* monitor: the last redirect

vars == <<frontVars, islot, imem, ID_EX, halted, held, steer>>

Rom == INSTANCE BusSlave WITH slot <- islot, mem <- imem, WaitMax <- IWaitMax,
                              Addr <- Pc, Data <- Word, Zero <- ZeroWord

NothingHeld == [valid |-> FALSE, addr |-> 0]
NotSteered  == [target |-> RESET_PC, odd |-> FALSE]

Init ==
  /\ FrontInit(ZeroWord)
  /\ islot = Rom!ResetSlot
  /\ imem \in Programs
  /\ ID_EX = NoFetched(ZeroWord)
  /\ halted = FALSE
  /\ held = NothingHeld
  /\ steer = NotSteered

-----------------------------------------------------------------------------
(* The wires the front end sees in one cycle. *)
Wires(fire, redirect, target, hazard, en, pnext) ==
  [ redirect |-> redirect, target |-> target,
    issue |-> (~ID_EX.valid \/ fire) /\ ~hazard,
    en |-> en /\ ~halted, halt |-> halted,
    resp_valid |-> islot.resp_valid, resp_data |-> islot.resp_data,
    pnext |-> pnext ]

Predicted(pc) == {Plus4(pc)} \union TakenTargets

(* ID_EX_valid, ID_EX_pc, ID_EX_instr and the prediction that travels along;
   slot is idex_slot_available. *)
NextIdEx(e, slot) ==
  IF e.halt \/ e.redirect THEN [ID_EX EXCEPT !.valid = FALSE]
  ELSE IF ifid_to_idex(e) THEN IF_ID
  ELSE [ID_EX EXCEPT !.valid = @ /\ ~slot]

Clock(e, fire, open, wait) ==
  LET rdy == open /\ Rom!req_ready(ibus_resp_ready(e))
  IN  /\ FrontEdge(e, rdy)
      /\ Rom!SlaveEdge(ibus_req_fire(e, rdy), active_req(e).addr, NoWrite,
                       ibus_resp_ready(e), wait)
      /\ ID_EX' = NextIdEx(e, ~ID_EX.valid \/ fire)
      /\ held' = [valid |-> ibus_req_valid(e) /\ ~rdy, addr |-> active_req(e).addr]
      /\ steer' = IF e.redirect THEN [target |-> e.target, odd |-> ~steer.odd] ELSE steer
      /\ halted' \in {halted, halted \/ MayHalt}

(* An edge on which the pipeline behind goes on, or waits. *)
Advance(open) ==
  \E fire \in {FALSE, ID_EX.valid}, hazard \in {FALSE, IF_ID.valid /\ ID_EX.valid},
     en \in BOOLEAN, pnext \in Predicted(fetch_pc), wait \in 0 .. IWaitMax :
    Clock(Wires(fire, FALSE, RESET_PC, hazard, en, pnext), fire, open, wait)

(* An edge on which the instruction in ID/EX fires and redirects the fetch. *)
Resolve(open) ==
  /\ ID_EX.valid
  /\ \E target \in RedirectTargets, en \in BOOLEAN,
        pnext \in Predicted(fetch_pc), wait \in 0 .. IWaitMax :
       Clock(Wires(TRUE, TRUE, target, FALSE, en, pnext), TRUE, open, wait)

(* Asynchronous reset of core and ROM. *)
Reset ==
  /\ FrontReset(ZeroWord)
  /\ islot' = Rom!ResetSlot
  /\ ID_EX' = NoFetched(ZeroWord)
  /\ halted' = FALSE
  /\ held' = NothingHeld
  /\ steer' = NotSteered
  /\ UNCHANGED imem

Next ==
  \/ \E open \in BOOLEAN : Advance(open) \/ Resolve(open)
  \/ Reset

Spec == Init /\ [][Next]_vars

(* The clock keeps running and the link is not closed for ever: the stalls of
   rv_bus_shim.sv are counted down.  Nothing is assumed of the pipeline. *)
FairSpec == Spec /\ WF_vars(Advance(TRUE) \/ Resolve(TRUE))

-----------------------------------------------------------------------------
(* Every register holds a value of its kind. *)
TypeOK ==
  /\ FrontTypeOK(Word)
  /\ islot \in Rom!Slot /\ islot.wdata = NoWrite
  /\ imem \in [Pc -> Word]
  /\ ID_EX \in Fetched(Word)
  /\ halted \in BOOLEAN
  /\ held \in [valid: BOOLEAN, addr: Pc]
  /\ steer \in [target: Pc, odd: BOOLEAN]

(* The core and the ROM agree on who owns the one transaction of the bus:    *)
(* the core holds an accepted fetch exactly when the ROM's slot is taken, by *)
(* the fetch of that very address, and the word offered for it is the        *)
(* program's.  Through every turnover of response and request on one edge    *)
(* (cpu_core.v:642-645, rv_rom.v:62).                                        *)
Ownership ==
  /\ if_out.valid = Rom!Occupied
  /\ ~(islot.busy /\ islot.resp_valid)
  /\ if_out.valid => islot.addr = if_out.pc
  /\ islot.resp_valid => islot.resp_data = imem[if_out.pc]

(* A fetch is presented or outstanding, never both: one transaction at most. *)
OneFetch == ~(if_req.present /\ if_out.valid)

(* assertions.sv:104-112.  A request the slave did not take is presented on  *)
(* the next cycle with the same address, whether it was a latched request or *)
(* a turnover offer, and even if a redirect has killed it meanwhile.  Only   *)
(* verification_halt may withdraw one (cpu_core.v:666).                      *)
HeldRequestStable ==
  held.valid /\ ~halted => if_req.present /\ if_req.addr = held.addr

(* A killed fetch does not occupy the bus for ever: it is accepted, answered *)
(* and thrown away even if the pipeline never moves again.                   *)
Killed == (if_req.present /\ if_req.stale) \/ (if_out.valid /\ if_out.stale)
KilledFetchDrains == Killed ~> ~Killed

(* A halted front end empties itself, which the bench waits for (core_idle). *)
FrontIdle == ~if_req.present /\ ~if_out.valid /\ ~if_buf.valid /\ ~IF_ID.valid
HaltDrains == halted ~> (FrontIdle \/ ~halted)

(* What is in flight is one unbroken walk along the predictions: each live   *)
(* record was fetched where the record before it predicts, fetch_pc follows  *)
(* the youngest, and a stored word is the program's word at the stored PC.   *)
InFlightOrder ==
  /\ LiveRequest => if_req.addr = fetch_pc
  /\ LiveOutstanding => if_out.pnext = FromRequest
  /\ if_buf.valid => if_buf.pnext = FromOutstanding /\ if_buf.instr = imem[if_buf.pc]
  /\ IF_ID.valid => IF_ID.pnext = FromBuffer /\ IF_ID.instr = imem[IF_ID.pc]

(* The front end implements FetchStream: the next instruction to issue is    *)
(* the oldest one that is in flight and not killed.                          *)
LastIssued == [pc |-> ID_EX.pc, pnext |-> ID_EX.pnext, instr |-> ID_EX.instr]

Stream == INSTANCE FetchStream WITH next <- NextIssue, issued <- LastIssued,
                                    stopped <- halted

(* Every instruction issued is the one the program and the predictions       *)
(* before it call for, and the first one after a redirect is its target:     *)
(* none is lost, repeated or replaced by a killed fetch, whatever the order  *)
(* of responses, kills, turnovers, stalls and holds.                         *)
ImplementsStream == Stream!StreamSpec
=============================================================================
