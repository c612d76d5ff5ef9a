--------------------------------- MODULE Isa ---------------------------------
(* The instruction-accurate reference model of verification/iss.py, with     *)
(* what a pipeline may put between executing an instruction and showing it:  *)
(* events leave in order through a log, and a store reaches the memory once, *)
(* later, but before anything younger executes.                              *)
EXTENDS Iss, Sequences

VARIABLES imem,             \* the program
          pc, gpr, epc, cause, retired,     \* ISSState
          ram,              \* data memory
          sb,               \* the store not yet in memory
          log,              \* events not yet shown
          trace, shown,     \* the last event shown, parity of the number shown
          stopped           \* verification_halt was raised

archVars == <<pc, gpr, epc, cause, retired>>
isaVars  == <<imem, archVars, ram, sb, log, trace, shown, stopped>>

NoStore == [valid |-> FALSE, addr |-> 0, data |-> 0]

ResetState ==
  /\ pc = RESET_PC
  /\ gpr = [r \in Reg |-> 0]
  /\ epc = 0 /\ cause = 0 /\ retired = 0
  /\ sb = NoStore
  /\ log = <<>>
  /\ trace = NoEvent /\ shown = 0
  /\ stopped = FALSE

IsaInit ==
  /\ ResetState
  /\ imem \in [Pc -> Instr]
  /\ ram \in [RamAddr -> Val]

-----------------------------------------------------------------------------
State == [ program |-> imem, pc |-> pc, gpr |-> gpr, epc |-> epc, cause |-> cause,
           retired |-> retired, ram |-> ram ]

event == step_event(State)

(* A step, but for its store.  The one of the step before is in memory.      *)
Execute ==
  /\ ~sb.valid
  /\ LET next == step(State)
     IN  /\ pc' = next.pc /\ gpr' = next.gpr
         /\ epc' = next.epc /\ cause' = next.cause
         /\ retired' = next.retired
  /\ sb' = IF event.mem = "store" THEN [valid |-> TRUE, addr |-> event.addr, data |-> event.data]
                                  ELSE sb
  /\ UNCHANGED ram

(* The pending store becomes visible. *)
Drain ==
  /\ sb.valid
  /\ ram' = [ram EXCEPT ![sb.addr] = sb.data]
  /\ sb' = NoStore
  /\ UNCHANGED archVars

(* The oldest event is shown, or none is. *)
Show ==
  /\ log # <<>>
  /\ trace' = Head(log)
  /\ shown' = 1 - shown

Shown(showing) == IF showing THEN Show ELSE UNCHANGED <<trace, shown>>

Rest(showing) == IF showing THEN Tail(log) ELSE log

IsaStep(showing) ==
  /\ Shown(showing)
  /\ \/ Execute /\ log' = Append(Rest(showing), event)
     \/ /\ Drain \/ UNCHANGED <<archVars, ram, sb>>
        /\ log' = Rest(showing)
  /\ ~stopped /\ ~stopped'
  /\ UNCHANGED imem

(* Stopping, the machine may still show the event that is due.  Once stopped *)
(* it shows nothing more, and what it holds no longer counts.                *)
Stop(showing) ==
  /\ Shown(showing /\ ~stopped)
  /\ stopped'
  /\ UNCHANGED imem

(* Reset: memories keep what they hold, a store not yet visible is lost.     *)
IsaReset == ResetState' /\ UNCHANGED <<imem, ram>>

IsaNext ==
  \/ \E showing \in BOOLEAN : IsaStep(showing) \/ Stop(showing)
  \/ IsaReset

IsaSpec == IsaInit /\ [][IsaNext]_isaVars
=============================================================================
