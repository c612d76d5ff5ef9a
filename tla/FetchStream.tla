----------------------------- MODULE FetchStream -----------------------------
(* What the front end promises to decode: one instruction after another, each *)
(* the program's word at the place the previous one predicted, and after a    *)
(* redirect the word at its target.  None is skipped, repeated or taken from  *)
(* another place.  Once stopped, none is issued and where the stream stands   *)
(* no longer means anything.  Buses, waits, killed fetches and buffers do not *)
(* appear.                                                                    *)
EXTENDS ProgramCounter

CONSTANTS Word,             \* instruction words
          ZeroWord          \* the word 32'b0

VARIABLES imem,             \* the program
          next,             \* where the next instruction comes from
          issued,           \* the instruction handed to decode last
          steer,            \* the last redirect; odd tells it from the one before
          stopped

streamVars == <<imem, next, issued, steer, stopped>>

Nothing  == [pc |-> 0, pnext |-> 0, instr |-> ZeroWord]
Straight == [target |-> RESET_PC, odd |-> FALSE]

StreamInit ==
  /\ imem \in [Pc -> Word]
  /\ next = RESET_PC
  /\ issued = Nothing
  /\ steer = Straight
  /\ stopped = FALSE

(* The program decides the word, the predictor the successor p. *)
Issue(p) ==
  /\ ~stopped
  /\ issued' = [pc |-> next, pnext |-> p, instr |-> imem[next]]
  /\ next' = p
  /\ UNCHANGED <<imem, steer>>

Redirect(target) ==
  /\ steer' = [target |-> target, odd |-> ~steer.odd]
  /\ stopped \/ next' = target
  /\ UNCHANGED <<imem, issued>>

Idle ==
  /\ stopped \/ next' = next
  /\ UNCHANGED <<imem, issued, steer>>

(* Reset. *)
Restart ==
  /\ next' = RESET_PC
  /\ issued' = Nothing
  /\ steer' = Straight
  /\ stopped' = FALSE
  /\ UNCHANGED imem

(* Stopping may coincide with any other step and is undone only by a reset. *)
StreamNext ==
  \/ /\ \/ \E p \in Pc : Issue(p) \/ Redirect(p)
        \/ Idle
     /\ stopped => stopped'
  \/ Restart

StreamSpec == StreamInit /\ [][StreamNext]_streamVars
=============================================================================
