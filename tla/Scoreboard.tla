----------------------------- MODULE Scoreboard -----------------------------
(* scoreboard.v: every access on the data bus must come back in the trace,   *)
(* once, in order, with its address and its store data.  A load is told from *)
(* a store by its clear strobes, wdata = NoWrite.                            *)
CONSTANTS Addr, Data, NoWrite,
          None      \* not pending, not valid

VARIABLE sb

Access == [addr: Addr, wdata: Data \union {NoWrite}]

Scoreboard == [ request: Access \union {None},      \* accepted, not answered
                completion: Access \union {None} ]  \* answered, not in the trace

ResetScoreboard == [request |-> None, completion |-> None]

idle == sb.request = None /\ sb.completion = None

(* Mutant: a completion shown on the edge of the next response is kept. *)
NextCompletion_kept(s) ==
  IF s.shown # None THEN None ELSE IF s.answered THEN sb.request ELSE sb.completion

NextCompletion(s) ==
  IF s.answered THEN sb.request ELSE IF s.shown # None THEN None ELSE sb.completion

(* One edge.  accepted is the access accepted on it, answered whether a      *)
(* response is taken on it, shown the access of the event in the trace       *)
(* registers before it (CSR reads do not count), trap whether that trapped.  *)
ScoreboardEdge(s) ==
  sb' = [ request    |-> IF s.accepted # None THEN s.accepted
                         ELSE IF s.answered THEN None ELSE sb.request,
          completion |-> NextCompletion(s) ]

(* The conditions under which an edge ends the simulation. *)
ScoreboardFails(s) ==
  \/ s.accepted # None /\ sb.request # None /\ ~s.answered
  \/ s.answered /\ sb.request = None
  \/ s.answered /\ sb.completion # None /\ s.shown = None
  \/ s.shown # None /\ (sb.completion # s.shown \/ s.trap)
=============================================================================
