----------------------------- MODULE MemoryPort -----------------------------
(* What a bus promises to the core: a memory that serves one request at a     *)
(* time.  A request takes effect when it is accepted; its answer, the word    *)
(* before its own store, is returned once, before or on the edge on which the *)
(* next request is accepted.  The store may reach the words that survive a    *)
(* reset later, but not later than its answer.  Waits, stalls and whatever    *)
(* stands between core and memory do not appear.                              *)
CONSTANTS Addr, Data,
          NoWrite,      \* the "store data" of a read
          None          \* no request, no answer

VARIABLES view,         \* the words as the accepted requests leave them
          settled,      \* the words a reset would leave
          owed,         \* the answer still to be returned
          exchange      \* what the last edge accepted and returned

portVars == <<view, settled, owed, exchange>>

Request  == [addr: Addr, wdata: Data \union {NoWrite}]
Exchange == [accepted: Request \union {None}, answered: Data \union {None}]
Quiet    == [accepted |-> None, answered |-> None]

PortInit ==
  /\ view \in [Addr -> Data]
  /\ settled = view
  /\ owed = None
  /\ exchange = Quiet

Stores(request) == request # None /\ request.wdata # NoWrite

Edge(accepted, answered) ==
  /\ answered \in {None, owed}
  /\ accepted # None => owed = answered
  /\ exchange' = [accepted |-> accepted, answered |-> answered]
  /\ view' = IF Stores(accepted) THEN [view EXCEPT ![accepted.addr] = accepted.wdata] ELSE view
  /\ owed' = IF accepted # None THEN view[accepted.addr]
             ELSE IF answered = owed THEN None ELSE owed
  /\ settled' \in {view', IF answered = owed THEN view ELSE settled}

(* An accepted store whose answer was not returned may be lost. *)
Restart ==
  /\ view' = settled
  /\ owed' = None
  /\ exchange' = Quiet
  /\ UNCHANGED settled

PortNext ==
  \/ \E accepted \in Request \union {None}, answered \in Data \union {None} :
       Edge(accepted, answered)
  \/ Restart

PortSpec == PortInit /\ [][PortNext]_portVars
=============================================================================
