------------------------------- MODULE Offline -------------------------------
(* A test from its source text to its verdict, as run_tests.py's run_image   *)
(* takes it: assembled, run by the core (through tb_core) or by the reference*)
(* model, written to a trace and a state file, and checked.  Between writing *)
(* and checking, a file may lose, repeat, exchange or alter what it holds.   *)
EXTENDS Encoding, TraceFile, Datapath

CONSTANTS
  Sources,        \* records of lines and the base address
  Done,           \* the completion label
  InitialRam,     \* the data image, word by word
  RomSize,        \* bytes of program memory, 4096 in the code
  MaxEvents,      \* after which the run is given up, 2000 in the code
  MaxEpoch,       \* bound: warm resets of a run of the reference model
  FaultSources    \* bound: the sources whose files are tampered with

VARIABLES
  phase,          \* source, refused, assembled, running, finished, written, verified
  source, image,
  writer,         \* whose run it is: "tb_core" or "iss"
  machine,        \* the core, or the model
  rows,           \* the events so far
  trace, state,   \* the two files
  fault, verdict

vars == <<phase, source, image, writer, machine, rows, trace, state, fault, verdict>>

NoFault == [kind |-> "none"]

Init ==
  /\ phase = "source"
  /\ source \in Sources
  /\ writer \in {"tb_core", "iss"}
  /\ writer = "tb_core" => source.base = 0          \* the core starts at RESET_PC
  /\ image = <<>> /\ machine = <<>> /\ rows = <<>> /\ trace = <<>> /\ state = <<>>
  /\ fault = NoFault /\ verdict = "none"

Assemble ==
  /\ phase = "source"
  /\ image' = assemble(source.lines, source.base)
  /\ phase' = IF image'.failed THEN "refused" ELSE "assembled"
  /\ UNCHANGED <<source, writer, machine, rows, trace, state, fault, verdict>>

-----------------------------------------------------------------------------
model == start(image.words, image.pc,
               [ a \in 0 .. RamSize - 1 |->
                   bits(InitialRam[a - (a % 4)], ByteBits * (a % 4), ByteBits) ])

completion_pc == image.labels[Done]

(* How many events the reference model takes to reach the completion PC, or  *)
(* 0 if it does not.                                                         *)
expected_until_completion ==
  LET run[n \in 0 .. MaxEvents] ==
        IF n = 0 THEN [state |-> model, count |-> 0]
        ELSE LET prior == run[n - 1]
             IN  IF prior.count > 0 THEN prior
                 ELSE [ state |-> after(prior.state, step_event(prior.state)),
                        count |-> IF prior.state.pc = completion_pc THEN n ELSE 0 ]
  IN  run[MaxEvents].count

Start ==
  /\ phase = "assembled"
  /\ IF Done \in DOMAIN image.labels /\ expected_until_completion > 0
     THEN /\ phase' = "running"
          /\ machine' = IF writer = "iss" THEN model
                        ELSE core_reset(dense_words(image, 0, RomSize), InitialRam)
     ELSE phase' = "refused" /\ UNCHANGED machine
  /\ UNCHANGED <<source, image, writer, rows, trace, state, fault, verdict>>

(* The image file ends with the program memory, which a fetch must not. *)
outside_rom == writer = "tb_core" /\ machine.pc >= RomSize

FetchFails ==
  /\ phase = "running" /\ outside_rom
  /\ verdict' = "SIMULATOR" /\ phase' = "verified"
  /\ UNCHANGED <<source, image, writer, machine, rows, trace, state, fault>>

(* One instruction, up to and with that of the completion PC. *)
Step ==
  /\ phase = "running" /\ ~outside_rom
  /\ LET r == IF writer = "iss" THEN step_event(machine) ELSE row(machine)
     IN  /\ rows' = Append(rows, r)
         /\ machine' = IF writer = "iss" THEN after(machine, r) ELSE retired(machine, r)
         /\ phase' = IF r.pc = completion_pc \/ Len(rows') = MaxEvents THEN "finished" ELSE phase
  /\ UNCHANGED <<source, image, writer, trace, state, fault, verdict>>

(* A warm reset of the model, after at least one event of the epoch and      *)
(* while the bound on events leaves room for a whole run.                    *)
Reset ==
  /\ phase = "running" /\ writer = "iss"
  /\ machine.events > 0 /\ machine.epoch < MaxEpoch
  /\ Len(rows) + expected_until_completion <= MaxEvents
  /\ machine' = reset(machine)
  /\ UNCHANGED <<phase, source, image, writer, rows, trace, state, fault, verdict>>

WriteFiles ==
  /\ phase = "finished"
  /\ trace' = trace_csv(rows)
  /\ state' = state_text(machine.gpr, IF writer = "iss" THEN dump_words(machine.memory) ELSE machine.dmem,
                         Len(rows), IF rows[Len(rows)].pc = completion_pc THEN 1 ELSE 0)
  /\ phase' = "written"
  /\ UNCHANGED <<source, image, writer, machine, rows, fault, verdict>>

-----------------------------------------------------------------------------
(* What may befall a file. *)
RowFaults  == [kind: {"row lost", "row twice", "rows swapped", "epoch"}, i: 1 .. MaxEvents]
CellFaults == [kind: {"cell altered", "cell unknown"}, i: 1 .. MaxEvents, f: ARCH_FIELDS]
LineFaults == [kind: {"line lost", "line twice", "value altered", "value unknown", "key altered"},
               i: 1 .. 2^RegBits + RamSize + 1]

alter(v, kind) == IF kind \in {"cell unknown", "value unknown"} THEN Unknown ELSE v + 1

(* Dropped, repeated, exchanged with the next, or counted to a later epoch.  *)
tampered_rows(f) ==
  CASE f.kind = "row lost"     -> RemoveAt(rows, f.i)
    [] f.kind = "row twice"    -> InsertAt(rows, f.i, rows[f.i])
    [] f.kind = "rows swapped" -> [rows EXCEPT ![f.i] = rows[f.i + 1], ![f.i + 1] = rows[f.i]]
    [] f.kind = "epoch"        -> [k \in DOMAIN rows |-> IF k < f.i THEN rows[k]
                                                         ELSE [rows[k] EXCEPT !.epoch = @ + 1]]

tampered_lines(f) ==
  CASE f.kind = "line lost"   -> RemoveAt(state, f.i)
    [] f.kind = "line twice"  -> InsertAt(state, f.i, state[f.i])
    [] f.kind = "key altered" -> [state EXCEPT ![f.i].key = @ + 1]
    [] OTHER                  -> [state EXCEPT ![f.i].value = alter(@, f.kind)]

TamperTrace ==
  \/ /\ trace' = [trace EXCEPT !.header = FALSE]
     /\ fault' = [kind |-> "header"]
  \/ \E f \in RowFaults :
       /\ f.i \in DOMAIN rows
       /\ f.kind = "rows swapped" => f.i < Len(rows)
       /\ trace' = trace_csv(tampered_rows(f))
       /\ fault' = f
  \/ \E f \in CellFaults :
       /\ f.i \in DOMAIN rows
       /\ trace' = [trace EXCEPT !.rows[f.i][f.f] = alter(@, f.kind)]
       /\ fault' = f

TamperState ==
  \E f \in LineFaults :
    /\ f.i \in DOMAIN state
    /\ state' = tampered_lines(f)
    /\ fault' = f

Tamper ==
  /\ phase = "written" /\ fault = NoFault /\ source \in FaultSources
  /\ \/ TamperTrace /\ UNCHANGED state
     \/ TamperState /\ UNCHANGED trace
  /\ UNCHANGED <<phase, source, image, writer, machine, rows, verdict>>

(* A run of the core has to have as many events as the model predicted.      *)
Verify ==
  /\ phase = "written"
  /\ verdict' = verify_run(model, trace, state,
                           IF writer = "iss" THEN Len(rows) ELSE expected_until_completion, completion_pc)
  /\ phase' = "verified"
  /\ UNCHANGED <<source, image, writer, machine, rows, trace, state, fault>>

Next == Assemble \/ Start \/ Step \/ FetchFails \/ Reset \/ WriteFiles \/ Tamper \/ Verify

Spec == Init /\ [][Next]_vars

-----------------------------------------------------------------------------
(* What the assembler promises, from the lines alone. *)

isStatement(line) == line.m \notin {"", ".org"}

(* Where line i is: counted from the last .org before it. *)
Address(i) ==
  LET lines  == source.lines
      orgs   == {k \in 1 .. i - 1 : lines[k].m = ".org"}
      origin == IF orgs = {} THEN 0 ELSE CHOOSE k \in orgs : \A m \in orgs : m <= k
  IN  (IF origin = 0 THEN source.base ELSE lines[origin].a[1])
        + 4 * Cardinality({k \in origin + 1 .. i - 1 : isStatement(lines[k])})

LabelLines(l) == {i \in DOMAIN source.lines : \E k \in DOMAIN source.lines[i].labels : source.lines[i].labels[k] = l}

(* A label's address, any other operand itself. *)
Value(x) == IF LabelLines(x) = {} THEN x ELSE Address(CHOOSE i \in LabelLines(x) : TRUE)

(* Word w at address a, read as the reference model reads it, has the        *)
(* operands that were written, and goes where it was told to.                *)
Says(line, a, w) ==
  LET operands == line.a
      next     == u32(a + 4)
  IN  CASE line.m \in DOMAIN RegisterOps -> <<rd(w), rs(w), rt(w)>> = operands
        [] line.m \in DOMAIN ShiftOps    -> <<rd(w), rt(w), shamt(w)>> = operands
        [] line.m \in DOMAIN LogicalOps  -> <<rt(w), rs(w), immediate(w)>> = operands
        [] line.m = "addi" -> <<rt(w), rs(w), sext16(immediate(w))>> = operands
        [] line.m = "lui"  -> <<rt(w), immediate(w)>> = operands
        [] line.m \in DOMAIN MemoryOps -> <<rt(w), sext16(immediate(w)), rs(w)>> = operands
        [] line.m \in DOMAIN BranchOps ->
             /\ <<rs(w), rt(w)>> = <<operands[1], operands[2]>>
             /\ u32(next + 4 * sext16(immediate(w))) =
                  u32(IF LabelLines(operands[3]) = {} THEN next + 4 * operands[3] ELSE Value(operands[3]))
        [] line.m \in DOMAIN JumpOps   -> jump_target(w, next) = Value(operands[1])
        [] line.m = ".word" -> w = Value(operands[1])
        [] OTHER -> Len(operands) = 0

(* What assemble accepts, it has put down as written: every statement has an *)
(* address of its own, its operands come back from the word, and branches    *)
(* and jumps lead to their labels (encoding.py:1-5).                         *)
AssembledAsWritten ==
  phase # "source" /\ ~image.failed =>
    LET statements == {i \in DOMAIN source.lines : isStatement(source.lines[i])}
    IN  /\ Cardinality(DOMAIN image.words) = Cardinality(statements)
        /\ \A i \in statements :
             /\ Address(i) \in DOMAIN image.words
             /\ Says(source.lines[i], Address(i), image.words[Address(i)])

(* Core and reference model agree on every word and byte: the files of an    *)
(* untouched run of either, warm resets of the model included, are accepted  *)
(* (cpu_core.v's lanes and checker.py's comparison), unless the program has  *)
(* words that the image file leaves out.                                     *)
RunAccepted ==
  phase = "verified" /\ fault = NoFault =>
    \/ verdict = "PASS"
    \/ verdict = "SIMULATOR" /\ \E a \in DOMAIN image.words : a >= RomSize

(* Whatever happened to one row, cell or line, the files are refused. *)
FaultRejected == phase = "verified" /\ fault # NoFault => verdict # "PASS"

(* run_tests.py credits a mutation of the core only when the checker reports *)
(* a wrong value.  Files that are merely incomplete, out of order or         *)
(* unreadable are never reported as that.                                    *)
NoFalseCredit ==
  phase = "verified" /\ verdict \in {"TRACE_MISMATCH", "STATE_MISMATCH"} =>
    fault.kind \in {"cell altered", "epoch", "value altered"}
=============================================================================
