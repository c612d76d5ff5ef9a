------------------------------ MODULE BusSlave ------------------------------
(* The one-slot bus memory: rv_rom.v (instructions, never written) and       *)
(* rv_mem.v (data).  A request carries NoWrite, or the word to be written:   *)
(* the byte strobes are either all clear or select the lanes of one word.    *)
(* Words are the unit here, so an address is the index of a word.            *)
(*                                                                           *)
(* The code draws the number of inserted waits from an LFSR; here any number *)
(* up to WaitMax may be drawn for any request.  The environment may also     *)
(* keep the link closed for a cycle (open = FALSE), as rv_bus_shim.sv and    *)
(* the request gates of tb_core_reset.sv do: then neither end sees the       *)
(* request accepted.                                                         *)
EXTENDS Naturals

CONSTANTS WaitMax,      \* largest number of inserted wait cycles
          Addr, Data,   \* word indices and words
          Zero,         \* the word 32'b0
          NoWrite       \* the "store data" of a read: all strobes clear

VARIABLES slot, mem

Slot == [ busy: BOOLEAN, cnt: 0 .. WaitMax, addr: Addr, wdata: Data \union {NoWrite},
          resp_valid: BOOLEAN, resp_data: Data ]

(* Reset empties the slot.  The contents of the memory survive it. *)
ResetSlot == [ busy |-> FALSE, cnt |-> 0, addr |-> 0, wdata |-> NoWrite,
               resp_valid |-> FALSE, resp_data |-> Zero ]

Occupied == slot.busy \/ slot.resp_valid

(* req_ready: a consumed response may be replaced on the same edge. *)
req_ready(resp_ready) == ~slot.busy /\ (~slot.resp_valid \/ resp_ready)

(* mem after the strobes of one request have been applied to it. *)
Written(addr, wdata) == IF wdata = NoWrite THEN mem ELSE [mem EXCEPT ![addr] = wdata]

(* The response is created and the store becomes visible on the same edge;
   the word returned is the one read before the store. *)
Respond(addr, wdata) ==
  /\ slot' = [ busy |-> FALSE, cnt |-> 0, addr |-> addr, wdata |-> wdata,
               resp_valid |-> TRUE, resp_data |-> mem[addr] ]
  /\ mem' = Written(addr, wdata)

(* Mutant: a store is written when it is accepted, and again later. *)
Accept_early(addr, wdata, wait) ==
  IF wait = 0
    THEN Respond(addr, wdata)
    ELSE /\ slot' = [ busy |-> TRUE, cnt |-> wait, addr |-> addr, wdata |-> wdata,
                      resp_valid |-> FALSE, resp_data |-> slot.resp_data ]
         /\ mem' = Written(addr, wdata)

Accept(addr, wdata, wait) ==
  IF wait = 0
    THEN Respond(addr, wdata)
    ELSE /\ slot' = [ busy |-> TRUE, cnt |-> wait, addr |-> addr, wdata |-> wdata,
                      resp_valid |-> FALSE, resp_data |-> slot.resp_data ]
         /\ UNCHANGED mem

(* No request on this edge: count down, answer, or give up a consumed response. *)
Work(resp_ready) ==
  IF slot.busy /\ slot.cnt = 0 THEN Respond(slot.addr, slot.wdata)
  ELSE /\ slot' = [ slot EXCEPT !.cnt = IF slot.busy THEN @ - 1 ELSE @,
                                !.resp_valid = @ /\ ~resp_ready ]
       /\ UNCHANGED mem

(* One rising edge.  fire is the request handshake seen by both ends. *)
SlaveEdge(fire, addr, wdata, resp_ready, wait) ==
  IF fire THEN Accept(addr, wdata, wait) ELSE Work(resp_ready)
=============================================================================
