---------------------------- MODULE BusSlaveFacts ----------------------------
(* What one clock edge does to a one-slot memory, for every size, word set   *)
(* and wait bound.  The proofs about its users start from these cases.       *)
EXTENDS BusSlave, TLAPS

SlaveTypes == WaitMax \in Nat /\ slot \in Slot /\ mem \in [Addr -> Data]

(* An edge takes a request and answers it at once, takes it and starts to    *)
(* wait, answers the one it waited for, or only gives up a consumed answer.  *)
Outcome(fire, addr, wdata, resp_ready) ==
  \/ /\ fire /\ ~slot'.busy /\ slot'.resp_valid
     /\ slot'.addr = addr /\ slot'.wdata = wdata
     /\ slot'.resp_data = mem[addr] /\ mem' = Written(addr, wdata)
  \/ /\ fire /\ slot'.busy /\ ~slot'.resp_valid
     /\ slot'.addr = addr /\ slot'.wdata = wdata /\ mem' = mem
  \/ /\ ~fire /\ slot.busy /\ ~slot'.busy /\ slot'.resp_valid
     /\ slot'.addr = slot.addr /\ slot'.wdata = slot.wdata
     /\ slot'.resp_data = mem[slot.addr] /\ mem' = Written(slot.addr, slot.wdata)
  \/ /\ ~fire /\ (slot'.busy <=> slot.busy)
     /\ slot'.resp_valid <=> (slot.resp_valid /\ ~resp_ready)
     /\ slot'.addr = slot.addr /\ slot'.wdata = slot.wdata
     /\ slot'.resp_data = slot.resp_data /\ mem' = mem

(* It can do nothing else, and keeps its registers and words of their types. *)
LEMMA SlaveCases ==
  ASSUME SlaveTypes, NEW fire \in BOOLEAN, NEW addr, NEW wdata,
         fire => addr \in Addr /\ wdata \in Data \union {NoWrite},
         NEW resp_ready \in BOOLEAN, NEW wait \in 0 .. WaitMax,
         SlaveEdge(fire, addr, wdata, resp_ready, wait)
  PROVE  /\ slot' \in Slot /\ mem' \in [Addr -> Data]
         /\ Outcome(fire, addr, wdata, resp_ready)
<1> USE DEF SlaveTypes
<1>1. /\ slot.busy \in BOOLEAN /\ slot.resp_valid \in BOOLEAN /\ slot.cnt \in 0 .. WaitMax
      /\ slot.addr \in Addr /\ slot.wdata \in Data \union {NoWrite} /\ slot.resp_data \in Data
  BY DEF Slot
<1>2. ASSUME NEW a \in Addr, NEW d \in Data \union {NoWrite}, Respond(a, d)
      PROVE  /\ slot' \in Slot /\ mem' \in [Addr -> Data]
             /\ ~slot'.busy /\ slot'.resp_valid /\ slot'.addr = a /\ slot'.wdata = d
             /\ slot'.resp_data = mem[a] /\ mem' = Written(a, d)
  BY <1>2 DEF Respond, Written, Slot
<1>3. CASE fire /\ wait = 0
  <2>1. Respond(addr, wdata)
    BY <1>3 DEF SlaveEdge, Accept
  <2> QED BY <1>2, <1>3, <2>1 DEF Outcome
<1>4. CASE fire /\ wait # 0
  <2>1. /\ slot' = [ busy |-> TRUE, cnt |-> wait, addr |-> addr, wdata |-> wdata,
                     resp_valid |-> FALSE, resp_data |-> slot.resp_data ]
        /\ mem' = mem
    BY <1>4 DEF SlaveEdge, Accept
  <2> QED BY <1>1, <1>4, <2>1 DEF Slot, Outcome
<1>5. CASE ~fire /\ slot.busy /\ slot.cnt = 0
  <2>1. Respond(slot.addr, slot.wdata)
    BY <1>5 DEF SlaveEdge, Work
  <2> QED BY <1>1, <1>2, <1>5, <2>1 DEF Outcome
<1>6. CASE ~fire /\ ~(slot.busy /\ slot.cnt = 0)
  <2>1. slot.busy => slot.cnt - 1 \in 0 .. WaitMax
    BY <1>1, <1>6
  <2>2. /\ slot'.busy = slot.busy /\ slot'.addr = slot.addr /\ slot'.wdata = slot.wdata
        /\ slot'.resp_data = slot.resp_data /\ mem' = mem
    BY <1>6 DEF SlaveEdge, Work, Slot
  <2>3. slot'.resp_valid <=> (slot.resp_valid /\ ~resp_ready)
    BY <1>6 DEF SlaveEdge, Work, Slot
  <2>4. slot' \in Slot
    BY <1>1, <1>6, <2>1 DEF SlaveEdge, Work, Slot
  <2> QED BY <1>1, <1>6, <2>2, <2>3, <2>4 DEF Outcome
<1> QED BY <1>3, <1>4, <1>5, <1>6

(* The words change only in the answer to a store.                           *)
LEMMA ReadsKeepWords ==
  ASSUME NEW fire \in BOOLEAN, NEW addr, NEW wdata, NEW resp_ready \in BOOLEAN,
         fire => wdata = NoWrite, slot.wdata = NoWrite,
         Outcome(fire, addr, wdata, resp_ready)
  PROVE  slot'.wdata = NoWrite /\ mem' = mem
  BY DEF Outcome, Written

(* One that takes a request with some waits counts them down from there.     *)
LEMMA CountsDown ==
  ASSUME slot \in Slot, WaitMax \in Nat, NEW fire \in BOOLEAN, NEW addr, NEW wdata,
         NEW resp_ready \in BOOLEAN, NEW wait \in Nat, wait # 0,
         SlaveEdge(fire, addr, wdata, resp_ready, wait)
  PROVE  /\ slot.busy \in BOOLEAN /\ slot.cnt \in Nat
         /\ fire => slot'.busy /\ ~slot'.resp_valid /\ slot'.cnt = wait
         /\ ~fire /\ ~slot.busy => ~slot'.busy
         /\ ~fire /\ slot.busy /\ slot.cnt = 0 => ~slot'.busy
         /\ ~fire /\ slot.busy /\ slot.cnt # 0 =>
              /\ slot'.busy /\ slot'.cnt = slot.cnt - 1
              /\ slot'.resp_valid => slot.resp_valid
<1>1. slot.busy \in BOOLEAN /\ slot.cnt \in Nat
  BY DEF Slot
<1>2. fire => slot'.busy /\ ~slot'.resp_valid /\ slot'.cnt = wait
  BY DEF SlaveEdge, Accept
<1>3. ~fire /\ slot.busy /\ slot.cnt = 0 => ~slot'.busy
  BY DEF SlaveEdge, Work, Respond
<1>4. ASSUME ~fire, ~(slot.busy /\ slot.cnt = 0)
      PROVE  /\ slot'.busy <=> slot.busy
             /\ slot.busy => slot'.cnt = slot.cnt - 1
             /\ slot'.resp_valid => slot.resp_valid
  <2>1. slot' = [ slot EXCEPT !.cnt = IF slot.busy THEN @ - 1 ELSE @,
                              !.resp_valid = @ /\ ~resp_ready ]
    BY <1>4 DEF SlaveEdge, Work
  <2>2. DOMAIN slot = {"busy", "cnt", "addr", "wdata", "resp_valid", "resp_data"}
    BY DEF Slot
  <2> QED BY <2>1, <2>2
<1> QED BY <1>1, <1>2, <1>3, <1>4
=============================================================================
