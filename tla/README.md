# Verification of the five-stage pipeline CPU

TLA+ models of the in-order five-stage core under `rtl/`, of the bus memories it is simulated
with under `sim/mem/`, of the reference simulator `verification/iss.py`, of the two system benches
with their checkers, of the assembler and the trace checker, and of the signoff session, its export and
the showcase builder; TLC configurations that check them on small instances; and TLAPS proofs, for
every instance, about the fetch path, the bus link, the whole core against the reference simulator, both
system benches from reset to verdict, and the sessions.

## The system

| part | code | state | operations | talks to |
|---|---|---|---|---|
| fetch owner | `cpu_core.v` 141-194, 545-676 | `fetch_pc`, presented request, outstanding request, response buffer | launch, accept, response, turnover, kill, halt | instruction bus, predictor, IF/ID, EX redirect |
| decode and pipeline registers | `cpu_core.v` 196-352, 678-915 | IF/ID, ID/EX, EX/MEM, MEM/WB | advance, hold, squash, fire | each other, register file, data bus |
| forwarding, hazard, register file | `forwarding_unit.v`, `hazard_unit.v`, `reg_file.v` | 32 registers | select or block an operand, stall on a load, write | ID, EX, MEM, WB |
| traps and CSRs | `cpu_core.v` 474-526, `csr_perf.v` | EPC, CAUSE, INSTRET, counters | trap, ERET, CSR read, count | EX, MEM, WB |
| predictor | `bpu.v` | counters, tagged targets | predict, update | fetch owner, EX |
| memories | `rv_rom.v`, `rv_mem.v` | one slot, the memory words | accept, wait, respond, consume | the two buses |
| bus shim | `rv_bus_shim.sv` | stall and hold counters | delay a request or a response | between core and memory |
| monitors | `assertions.sv`, `scoreboard.v` | what was presented, expected PCs | observe | all of the above |
| benches | `tb_core.sv`, `tb_core_reset.sv`, unit benches | `fetch_enable`, `verification_halt` | stop fetching, drain, halt, reset | the core |
| reference model | `iss.py` | PC, registers, EPC, CAUSE, counts, memory | `step`, `reset` | checker |
| assembler | `encoding.py` | labels, statements, image | scan, encode, dense image | test runner |
| trace checker | `checker.py` | replayed model | parse, integrity, replay, compare | trace and state files |
| regression runner | `run_tests.py` | the session's manifest, compiled simulators | hash, run stages, gates, hash again | working tree, all tools |
| toolchain checks | `toolchain.py`, `synthesis.py` | the report of two tools | discover, version, launch, inspect the netlist | Verilator, Yosys (native or through WSL) |
| exporter | `export_evidence.py` | none kept | re-check a session, publish its summary | manifest, artifacts, working tree |
| showcase builder | `build_showcase.py` | samples of waveforms | run, sample, publish | runner, VCD dumps, `docs/assets` |

What is hard here: a fetch lives in one of several ownership registers and can be killed in each
of them, on the edge on which the bus moves it to the next; a response and the next request may
share an edge; either bus may stall for any time in either direction; an instruction held in EX
outlives the producers of its operands; stores become visible in the middle of all this and
traps write EPC ahead of the retirement of what is older; reset and halt arrive at any edge.
Around the core: two implementations of every instruction must agree on lanes, signs and widths; a file
between simulator and checker may be damaged and still look like a trace; and a session takes minutes, in which
anybody may edit what it reads, tools fail or hang, and artifacts are replaced.

What makes each part correct: the fetch owner hands decode exactly the walk along predictions and
redirects that the program prescribes, and keeps the bus protocol; the data side makes each access once and
takes each response once; an operand is the youngest older value; a prediction changes only the
time things take; together the core shows the events of the reference model in its order. The assembler
puts down what was written; the checker accepts the files of a correct run and no others; and what is
signed off or published is about the very files whose hashes stand beside it.

## Modules

* `ProgramCounter`, `Arch`: addresses, instruction classes, values, trap causes, the trace event.
* `FrontEnd`: fetch owner and IF/ID. One operator per wire of the code under the wire's name, one `Next…`
  operator per register record, one action `FrontEdge` for a rising edge. The code's
  nonblocking assignments override each other in program order; each field is what the last one leaves.
* `BusSlave`: the one-slot memory, instantiated for ROM and RAM. The LFSR that draws waits is
  replaced by any wait up to a bound; the shim, by a link that may be closed in any cycle.
* `FetchStream`: the abstract promise of the front end: a stream of (pc, instruction) in which
  each is the program's word at the PC its predecessor predicted or the last redirect named.
* `FrontEndSystem`: `FrontEnd` with its ROM and a pipeline behind it that may do anything.
  `FrontEndMC` gives it a small program; `FrontEndProofs` proves it.
* `BusSlaveFacts`, `FrontEndFacts`: what one edge does to a memory, and to the front end whatever it is
  connected to. The proofs about `FrontEndSystem` and about `Cpu` both start from them.
* `Bpu`: the predictor, both tables.
* `Iss`: one step of `iss.py` as a function of its state. `Isa` makes it a machine: a log of events not yet shown and a pending store stand between
  executing and showing; the log keeps order, and nothing executes over a pending store.
* `Cpu`: the complete core composed of `FrontEnd`, `Bpu`, ROM and RAM with decode, operands, EX,
  MEM, WB, CSRs and trace. `Clock` is one rising edge of all of it, `Reset` the asynchronous reset.
* `CpuMC`: programs for the checks. `CpuProofs` proves the invariants of `Cpu`, and that it implements `Isa`.
* `BusShim`: `rv_bus_shim.sv`, its counters, ownership and `$fatal` conditions. `BusLink` puts it (or
  plain wires, `BUS_ADVERSARIAL` of `tb_core.sv`) between `BusSlave` and a master that
  keeps an unaccepted request and is otherwise free. `MemoryPort` is the abstract promise: a memory that
  serves one request at a time, in which a store takes effect on acceptance but may be
  lost by a reset until it is answered. `BusLinkProofs` proves it.

* `Scoreboard`, `Monitors`: `scoreboard.v` and `assertions.sv`, each with its registers, its edge, and
  the condition under which it ends a simulation. `Monitored` connects both to `Cpu`.
* `Checker`: `checker.py`'s verdict on a trace and a final state, and `run_tests.py`'s count of
  the events to expect, both from a run of `Iss` up to the completion PC.
* `TbCore`: the main bench, a job (program, RAM, completion PC) on the monitored core: the completion hook,
  halt, drain, trace rows and the final state it hands to `Checker`. `TbCoreMC` has the jobs, `BenchProofs` the proofs.
* `TbCoreReset`: the warm-reset bench, nine scenarios from work to a completed restart;
  `TbCoreResetMC` has its programs, `ResetProofs` the proofs.

The same repository one instruction at a time, on words of a few bits, where the pipeline models have opaque values:

* `Words`: the fields and the arithmetic of a word, whose width follows from `RegBits`.
* `WordIss`: `iss.py` complete but for the timing counters: its memory image, every instruction, trap
  and the bus fields of its events.
* `Datapath`: the combinational RTL (`control_unit.v`, `alu.v`, the immediate, lane, strobe and trap logic
  of `cpu_core.v`, the strobes of `rv_mem.v`) and what one retired instruction does.
* `Encoding`: `encoding.py`, both passes and the dense image. Lines are given as labels, mnemonic and operands.
* `TraceFile`: `checker.py`: rows and lines of tokens, what makes them readable, integrity, replay across
  epochs, the final state.
* `Offline`: one test from source to verdict, written by the core or by the reference model, with the
  files damaged in between. `OfflineMC` has the programs.

And the sessions around it:

* `Repository`: the input files, their versions, and a pass that hashes them one by one.
* `Netlist`: `synthesis.py`, the hierarchical cell count and everything it refuses.
* `Waveform`: `build_showcase.py`'s reading of a VCD dump and the sampling of a panel: the rows of the two trace files, the
  clock, the retirement, the decision and the values of all its signals; then what such a dump says, for comparison.
* `Toolchain`: `toolchain.py`, both tools from discovery to the report, with every way to fail.
* `Runner`: a session of `run_tests.py`, stage by stage, with what each stage reads: unit benches, protocol jobs and their
  negative cases, directed and random runs, mutants, gates. Results are a list, which the gates compare with the plan as lists.
* `Evidence`: sessions, the exporter with its checks in their order, and the showcase builder with the two cases it draws, next
  to somebody who edits inputs and replaces artifacts. `EvidenceMC` has the files, netlists and dumps, `EvidenceProofs` the proofs.

Which module extends or instantiates which:

    ProgramCounter <- FrontEnd <- FrontEndSystem (BusSlave, FetchStream) <- FrontEndMC, FrontEndProofs
    BusSlave <- BusSlaveFacts;  FrontEnd <- FrontEndFacts
    Cpu, FrontEndFacts <- CpuProofs (BusSlaveFacts twice);  TbCore, CpuProofs <- BenchProofs;  TbCoreReset, BenchProofs <- ResetProofs
    ProgramCounter <- Arch <- Iss <- Isa
    FrontEnd, Arch, Bpu <- Cpu (BusSlave twice, Isa) <- Monitored (Scoreboard, Monitors)
    Monitored, Checker <- TbCore <- TbCoreMC;  Monitored, Checker <- TbCoreReset <- TbCoreResetMC
    BusShim, BusSlave, MemoryPort <- BusLink <- BusLinkMC, BusLinkProofs
    Words <- WordIss, Datapath, Encoding;  WordIss <- TraceFile;  Encoding, TraceFile, Datapath <- Offline <- OfflineMC
    Repository, Netlist <- Toolchain <- Runner;  Runner, Waveform <- Evidence <- EvidenceMC, EvidenceProofs

Correspondence: a Verilog register is a variable or a field of a record variable named after the pipeline
register; a wire is an operator under its name. The registers that carry decoded control bits
are functions of the instruction carried along, so only the instruction is kept; `*_pred_taken`
and `*_pred_target` only choose the predicted successor, kept as `pnext`; the link value is the
PC plus one word. Every PC is word aligned in the code, so it is a word index here.

## Runs

| run | instance | shows |
|---|---|---|
| `front_end` | 3 PCs, 1 wait, all stalls, kills, halt, reset, fairness | both ends agree who owns the fetch (`Ownership`), requests held stable, in-flight order, refinement of `FetchStream`; killed fetches drain and a halted front end becomes idle |
| `cpu` | 7 programs, data waits, data link open or closed, halt, reset, fairness | refinement of `Isa` (`ImplementsIsa`), data-bus ownership and stability, fresh operands, sound predictor entries; instructions retire for ever (`Retires`) |
| `cpu_waits` | 7 programs, waits on both buses | refinement again; what is in flight is one predicted path (`PathInOrder`) |
| `bus_shim` | stall 2, hold 2, waits to 1, 2 addresses, reset, fairness | the shim's own checks never fire (`NoFatal`), an exposed response stays (`ExposedStays`), refinement of `MemoryPort`, requests are accepted and answered (`RequestServed`) |
| `tb_core` | 5 jobs, 1 wait and closing links on both buses | neither the scoreboard (`ScoreboardQuiet`) nor a monitor (`MonitorsQuiet`) ever fails, nothing is retired behind the completion instruction and a finished run passes the trace checker (`RunPasses`) |
| `tb_core_live` | the same jobs, fairness, instruction link open | every run finishes |
| `tb_core_reset` | 9 scenarios, latencies 4 and 6, fairness | each scenario hits what it is named for (`TargetIsWarm`), nothing of the old work survives the reset (`OwnershipClear`) but stores already answered (`VisibleStores`), the restart is exact (`RestartExact`) and completes |
| `offline` | about 330 programs, 20-bit words, two of them with every single fault in either file | words say what the lines said and lead where they said (`AssembledAsWritten`); core and model agree on every byte (`RunAccepted`); a damaged file is refused (`FaultRejected`), and unless a value was altered not as if the core had computed a wrong one (`NoFalseCredit`) |
| `evidence` | signoff and export, with one edit, one replaced artifact, all tool outcomes; or two showcases into one place, with copies that fail and odd dumps | `PassedAsTested`, `PublishedAsTested`, `ToolsHonoured`, `NetlistCounted`, `PublishedNetlist`, `AssetsLinked`, `PanelsMeasured`, below |
| `tb_core_held` | one job | counterexample to `tb_core.sv:60-62` |
| `cpu_causes` | one program | counterexample to `isa_subset.md:52` |
| `evidence_loaded` | as `evidence` | counterexample to `showcase.md:84` |

`ImplementsIsa` is the central one. An instruction executes, in the abstract machine, on the edge
it leaves ID/EX; the refinement mapping reads the architectural registers off the
register file overlaid with MEM/WB and EX/MEM, the retired count off INSTRET plus what is
in flight, the pending store off EX/MEM and the RAM slot, and the log off EX/MEM and MEM/WB. The
trace registers are compared as they are.

`evidence` is about ties between files. A session that passes read, in whichever stage and however late, the versions
it hashed (`PassedAsTested`), and so do the hashes the exporter publishes though it takes them again
(`PublishedAsTested`). What is said of the published summary is said of one that names the latest
session's manifest (`published`): an older one stays on disk until the exporter replaces it. No failed, timed-out or missing tool hides behind the other (`ToolsHonoured`).
A netlist is accepted exactly when it is proper, with the cell counts of the unfolded design (`NetlistCounted`, against a
reference that walks every path from the top), and the published count belongs to the netlist whose hash is
published, which is the session's (`PublishedNetlist`). A passing showcase leaves one session's assets citing the manifest
as it is on disk (`AssetsLinked`). Its panels show the first retirement and the first decision of the instruction, with every value
the signals settle to under a clock of one period, as the one row of the trace and that of the reference model say; and
a run that left just that is not refused (`PanelsMeasured`, against a reference that replays the dump up to each time).

**Bounds.** `PcCount`, `ValCount`, `RegCount` and the table sizes are kept just large enough for
the seven programs of `CpuMC`: each was written for one group of hazards (dependences at every distance, holding
behind a load, link registers, wrong path with a store, an illegal word and a trap in it,
trap-and-return repair, CSR counts, and a branch that alternates on one predictor entry shared
with others). A wait bound of 1 has the three cases the code tells apart (answered on the
accepting edge, counting, count at zero); longer waits repeat the second. Closing the link for
a cycle at any time covers request stalls of every length. `cpu` varies the data side and
halts, `cpu_waits` the instruction side, because their product leaves TLC's reach. The values
wrap at `ValCount`, so counts and addresses do overflow in the runs.

The five jobs of `TbCoreMC` put the completion instruction behind everything the hook must not trust: a
load, a loop that fetches it early each time round, a jump, a trap with its handler, and
a branch. In `tb_core_reset` everything is determined by scenario and latency, as in the bench: 12 waits
become 4 and 6, the first of which is just enough for a phase to last three edges.
The quiet time stays eight edges longer than the latency.

`offline` has two register bits, which makes words of 20 bits, immediates of 10 and bytes of 5: every
field keeps its place and its sign, the ends of ranges are small numbers, and a region, a branch's reach and
the ROM end inside the address space that labels can name. Its programs are families: every access at every offset in and around RAM,
every register operation on operands of both signs, every shift, immediates at both ends of both kinds,
branches and jumps both ways and out of reach, traps that are repaired and causes that are read, layouts with overlaps, gaps,
doubled and missing labels. Two programs that load, store, trap and link have every row of their trace lost, doubled, exchanged, every cell
altered or unreadable, and every line of the state likewise, one fault at a time; traces of the reference model have up to two resets.

`evidence` has six inputs (the core's top, one source more that may be added, a bench, a program, the plan, the Python modules),
one edit (changed, added or removed) at any point of a signoff or after it (`Edited`), and one replaced artifact after a signoff: one of each is all it takes to break a tie, and what is
checked are ties between one file and one hash. An edit that is undone before the second hash cannot be seen
by any hash; `Edit` never restores a version, and that is an assumption. A showcase reads and hashes as a signoff
does and its inputs are not edited in the run; the theorems below hold for edits in either. The plan has a protocol job with one negative case and two directed jobs,
and an edited plan one more; a job has one timing profile and one random run stands for the 32 seeds and 4 profiles, whose runs differ in nothing a
tie could depend on. Of the ways a simulation may fail, `SIMULATOR` stands for all but the two mismatches, of which a signoff, which treats them alike, has one (`Categories`).
About thirty netlists over three modules have instances used twice, at two depths, in a circle, and each defect alone.

Dumps have four clock periods at a fixed timescale. Fourteen of them, for the first case's repaired run, have decision and retirement too late, for a moment
within a timestamp, too early or with another value, a clock that bounces, or either trace file with another row, none or two; the
mutant of the second case has a good one and one with a glitch and a bounce. Varying the second case's repaired run as well would add nothing: all four panels
go through the same `sample`.

**Fairness.** `FairSpec` of both systems is weak fairness of a clock edge with the link open (and, for the
core, fetching enabled). The clock of every bench is free running, the shim counts its
stalls down, and `fetch_enable` stays up until the bench wants the core to stop. `BusLink!FairSpec`
is weak fairness of an edge on which the master is ready for its answer: the core raises both response
readies again and again (`ibus_resp_ready` when there is room or nothing to keep, `dbus_resp_ready` as long as an accepted access waits).
`TbFairSpec` is weak fairness of a bench cycle with both links open, `ResetBenchSpec` of the bench's next step: both benches have a free-running clock and run until `$finish`. Nothing is
assumed about the waits drawn, the program, or the pipeline behind the front end.

**Deadlock.** A clock edge is always possible in the core's and the link's models, and deadlock is checked. The
benches' models do stop, at `$finish` and at a failing check's `$fatal`; there `Finishes` and `Completes`
say that the former is what happens. `Offline` ends with a verdict or a refusal. In `Evidence` deadlock is checked: `Finished` stutters when
all commands have ended, so that a stage no failure leads out of would be found.

## Proofs

`FrontEndProofs` proves for every `PcCount`, `Word`, wait bound, program and target set:

* `TypeCorrect`: the type invariant;
* `OwnershipAgreed`, `RequestsHeld`, `InFlightOrdered`: the safety invariants of `front_end`;
* `Refinement`: `Spec => ImplementsStream`, the front end implements `FetchStream`.

The assumptions are `PcCountAssumption` and `FrontEndAssumption`, stated in the modules that
declare the constants; TLC evaluates them in `front_end`. The inductive invariant is
`TypeOK /\ Ownership /\ OneFetch /\ HeldRequestStable /\ InFlightOrder`. None but
`OneFetch` is inductive alone: that a response belongs to `if_out` needs the ROM's slot to
agree with it, that the slot agrees needs that no second request is accepted, and that in-flight fetches stay
consecutive across a turnover needs both. `OneFetch` is what rules out that a launch and a turnover meet.
`EdgeIsClock` first reduces the three actions to one `Clock` step or a reset, so each
conjunct has one lemma about one step. `InFlightOrder` is split at the bus: `BusSide` for the
records a bus event moves, `BufferSide` for what decode moves. The refinement needs only that
the invariant holds before and after a step: `IssueSide` shows that a step hands over at most
the instruction `NextIssue` names, with the program's word.

`BusLinkProofs` proves, for every stall and hold length, wait bound, address and data set, with
and without the shim: `TypeCorrect`, `NeverFatal`, `ExposedHeld` and `Refinement` (`Spec =>
ImplementsPort`), from `LinkAssumption`. The invariant is `LinkInv == TypeOK /\ Agreement`:
`outstanding` is set exactly when the memory's slot is occupied, the count is its value, and
the held payloads are what is on the wires now. `ExposedStays` needs it because the
response is exposed only while the shim and the slot agree that it is owned.

`CpuProofs` proves for every program, memory, wait bound, table size and sequence of halts and resets:

* `TypeCorrect`, `DataOwned`, `OperandsKept`, `PathKept`, `BranchesPredicted`: `TypeOK`, `DataOwnership`, `OperandsFresh`,
  `PathInOrder` and `PredictsBranchesOnly` of the runs `cpu` and `cpu_waits`.

The assumptions are those of the modules that declare the constants: `PcCountAssumption`, `ArchAssumption`, `BpuAssumption`,
`CpuAssumption`. The inductive invariant `CpuInv` adds to these properties what they lean on. `LegalAccess`: what is in
EX/MEM and not a trap is an access of RAM or a read of a known CSR; without it neither the memory's nor the result's type is kept.
`FetchOwnership` and `AtMostOneFetch`: core and ROM agree about the one fetch, and the word offered is the program's; so the
path in order is also a path through the program. `RamAnswers`: a load's response that the RAM still holds
is the word that is there, which is what `ImplementsIsa` needs of a response that came long ago. `ZeroRegister`: a forwarded value and register 0 agree. `TargetsSound` is what makes the predicted path one along branches.
`TickIsEdge` reduces a clock edge, running or halting, to `CoreEdge`: no assertion of the memories can fail,
because the access is legal and the address the program's. Then there is one lemma per conjunct and edge.

It also proves that the core implements the reference simulator:

* `Refinement`: `Spec /\ []NoMisalignedCsr => ImplementsIsa`, and `AlignedRefinement`, without the proviso wherever
  `Misaligned \intersect CsrPage = {}`;
* `CausesReported`: as long as `NoMisalignedCsr` holds of the instruction in EX, its cause is the simulator's.

`NoMisalignedCsr` says that the instruction leaving EX does not access a misaligned address in the CSR page. It cannot be left out:
there code and simulator disagree (run `cpu_causes`), and `CausesReported` says that they disagree nowhere else. The steps are split by
what the edge does in EX. `FireRefines`: an instruction leaves EX; its operands are the architectural registers (`OperandsArch`, from `OperandsFresh`
and the overlay of the mapping), its kind of trap, value, next PC and event are the simulator's (`EventAgrees`, `StepAgrees`), its PC is where the
simulator stands (`PathStep`, from `PathInOrder`). `WaitRefines`: nothing leaves EX; the edge shows an event, makes the pending store
visible, or stutters. `StopRefines`: on a halt the reference shows at most the event that is due, and stops.
`RegsKept`, `RetiredStep`, `LogStep` and `DataStep` say what each part of the mapping does on any edge.

`BenchProofs` proves of the main bench, for every set of jobs, wait bound, gate and predictor:

* `ScoreboardPasses`: `ScoreboardQuiet` of run `tb_core`;
* `RunsPass`: `RunPasses` of that run, as long as `NoMisalignedCsr` holds; `AlignedRunsPass`, without the proviso where no misaligned address is in the CSR page;
* `MonitorsPass`: `HaltWithdraws`, by which a monitor fails only on a core that the bench has halted, and
  only one that sees a request withdrawn which the bus had not taken;
* `MonitorsSilent` and `AlignedMonitorsSilent`: `MonitorsQuiet`, no monitor fails at all, if `NoAccessFollows` holds of the jobs.

The checkers' invariant is `CheckersInv`: `CpuInv`; `ScoreInv`, by which the
scoreboard's pending request is what is in the RAM's slot and its pending completion what is in MEM/WB or else in the trace registers, which needs
that one access at a time is between its response and its trace row (`OneAnswered`), and that an access accepted by the
RAM occupies it even in the cycle of a halt; and `MonitorInv`, by which the monitors remember what the core and the
memories still hold. `Dropped` excepts what a halt has dropped on the way to the trace: the scoreboard goes on
waiting for it, and cannot fail by that.

`RunsPass` compares a whole trace with a whole run of the reference model, of any length. `Least` and `Induct` take induction over the
naturals from the well-foundedness of `<`; with them `RunUnfolds` shows that `reference_run` is what its definition says at each step, and
`RunCompletes` that the run of an accepted job is K steps, one event each, of which the last alone is of the completion PC (`Runs`). The invariant
`RunInv` then says that the rows are the first n of those events and that the core is where the run is after n (`Exact`). The link is `Follows(s)`:
the state s, stepped for MEM/WB and again for EX/MEM, is the architectural state of the refinement mapping, and each of the two steps has the event
which that stage will show. `FollowsStep` carries it across an edge, with the lemmas of `Refinement` for the front of the pipeline.
After the completion instruction nothing is shown, because the halt reaches the pipeline before the next edge; the
registers are the model's, and so is memory unless an access was still under way (`MemoryLeft`), and then the scoreboard is not idle and the bench does not finish.
That memory is the model's is thus a consequence of waiting for the scoreboard.

`MonitorsQuiet` needs a hypothesis on the jobs, because a program with a load behind its completion instruction makes the hook withdraw
its request. `NoAccessFollows` says that the model would not go on with an access of the data bus; `TbCoreMC` states it of its jobs, and so TLC evaluates it.
`NothingBehind` turns it into what is needed: on the edge that shows the completion instruction EX/MEM is not an access, for it is the model's next
instruction. Then nothing of the data side is left at the halt (`HaltingQuiet`), and the fetch it may withdraw is the only thing
left in flight, so that the edge which withdraws it is the edge on which the bench finishes (`HaltedQuiet`).

`ResetProofs` proves of the warm-reset bench, for every work and restart program, latency and scenario:

* `OwnershipCleared`, `TargetsWarm`, `StoresVisible`, `RestartsExact`: `OwnershipClear`, `TargetIsWarm`, `VisibleStores` and `RestartExact` of run `tb_core_reset`;
* `ResetCheckersPass`: neither the scoreboard nor a monitor ever fails.

What is assumed of the programs is `StraightAssumption`: they run in a straight line without a trap, the work's last instruction is its one
access, and a latency is at least as long as a phase is held. That is what `tb_core_reset.sv` is written for: its programs (lines 161-170, 290-296) are such code,
its checks name PCs and counts that hold of such code only, and `MEMORY_WAIT` is 12 where a phase is held for three edges (lines 13, 316-326).
`ResetBenchInv` is `CheckersInv` with `Cold`: from the reset to the restart nothing is in flight,
owned or remembered, however many edges go by. `StoryInv` adds one part for each phase of the bench. Before and after the reset the core `Tracks` the run of the
reference model, so many events shown and up to two under way, by the same `Follows`. A restart moreover fetches `InTurn`, nothing stale and each
instruction after the one before: no branch is ever predicted (`TargetsSound`) and no redirect occurs (`PathInOrder`), so that `fetch_pc` is the number of fetches made.
Before the reset (`WorkInv`) what matters is that a phase lasts. For data it does because the gate is closed, or because the answer counts down as
the bench counts up (`DataWork`). For fetches the bench also needs two events to have been shown by then, though nothing but time makes an instruction
leave the pipeline while the next is fetched. `OneInPipe` says that it has: with a latency as long as the pipeline's
distance, an instruction is in MEM/WB before the next one is answered.

`EvidenceProofs` proves of sessions, exporter and showcase, for every set of files, plan, list of programs, netlists, dumps and outcomes:

* `Tested`, `Published`, `Honoured`, `NetlistPublished`, `Linking`: `PassedAsTested`, `PublishedAsTested`, `ToolsHonoured`,
  `PublishedNetlist` and `AssetsLinked` of run `evidence`.

Nothing is assumed of the constants. What makes it work is that an edit restores no version (`past`, in `RepoKept`). A file that a stage reads at another
version than recorded is then `Moved` for good; when the second pass has begun it is `Told`: the pass has
hashed something else or is still to come to it (`ReadsKept`, `Rereading`). The first pass is covered by `RecordKept`:
what it wrote down is a version the file has had. For the tools, `Honest` says that a check which has not failed has commands
that all ended well, and `ToolsKept` in which order checks are filed, so that the session's status cannot come from one of them. `ExportKept` and `SnapshotKept`
follow the hashes and the netlist through the exporter; `AssetsKept`, that each asset is linked or still to be copied.

Only model-checked:

* liveness (`KilledFetchDrains`, `HaltDrains`, `Retires`, `RequestServed`, `Finishes`, `Completes`): fairness and ENABLED are out of the prover's reach;
* `AssembledAsWritten`, `RunAccepted`, `FaultRejected` and `NoFalseCredit` of `Offline`: words are bits, `Words` reaches `Bitwise`, and programs and files are folded over;
* `NetlistCounted` and `PanelsMeasured`, each about what a fold over a netlist or a dump returns.

`BusLink` without the shim is covered by the proofs, which leave `BUS_ADVERSARIAL` open, and has no run of its own. No module with a theorem
reaches a RECURSIVE operator.

## Disagreements found between code and documents

* `isa_subset.md:52` says RTL and simulator share the trap causes. For a misaligned access to an
  address in the CSR page the RTL reports 1 or 2, the simulator 5 (`cpu_core.v:491-502`, `iss.py:311-319`).
  Run `cpu_causes`; in the other runs no address is both, so that `ImplementsIsa` is about the rest.

* `tb_core.sv:60-62` says an instruction in ID/EX resolves on the edge on which the completion response is
  looked at, so that the hook need not look at ID/EX; `design_decisions.md:41` that it does not trust a response
  an older unresolved instruction could still squash. An instruction in ID/EX that waits for a
  slow load is not resolved on that edge. In the run a branch there is taken after fetching has stopped for good; its
  target is never fetched and the run ends in `TB_TIMEOUT`. Run `tb_core_held`.

* `showcase.md:84` says source hashes tie reported results to the tested inputs. The Python modules are imported and the
  test plan is parsed before the first hash is taken (`run_tests.py:30-41, 926, 382`), with git and tool version calls in between; an edit there is
  in both hash passes and not in what ran. Run `evidence_loaded`; `PassedAsTested` is about the rest.

Not disagreements that a run shows, but worth knowing:

* `design_decisions.md:15` says a held stage keeps every payload bit. ID/EX takes the values
  forwarded to it while it is held (`cpu_core.v:781-794`), as it must: a mutant without it violates `OperandsFresh`.
* A copy that fails in the middle leaves `docs/assets` with files of two sessions, until the next showcase that passes;
  `signoff_summary.json` names `showcase_evidence.json` without looking at it.
* The exporter hashes the manifest and the test plan apart from reading them.
* The plan may name a program anywhere, and only files under the patterns of `verification_inputs` are hashed; one elsewhere would be read unhashed. In the model
  a file that is no input is not there; the repository's plan names programs under `tests/` only, which are hashed.
* `assemble` refuses a word at the last address, because it counts the address behind it.

What halting an undrained core loses is not a disagreement, but worth knowing: a load or store behind the
completion instruction could have its request withdrawn (the request monitor would
report it) or its response left in the RAM's slot. The programs in `tests/programs` keep memory accesses away from
there, and so do the jobs of `TbCoreMC` (`NoAccessFollows`). `MonitorsSilent` shows that this is all it takes, and `HaltWithdraws` that nothing else can go wrong without it.

## Not modelled

* Timing: performance counters (cycle, stall, redirect), also as CSR values in `offline`; fetches outside the ROM that are
  speculative; fetch identifiers; the benches' coverage counters, `max_cycles` and file formats.
* Text: tokenising, number syntax, register names, JSON, VCD headers and scopes, diagnostics, command
  lines, the SVG drawing. Which random program a seed draws.
* Of the exporter: the hashes of the synthesis script and of the Verilog output, tool versions, making text portable. Of the showcase:
  the hashes of each run's files in its metadata, and the timescale. Protocol jobs count bins of their own, which the gate does not ask for; they are not kept.
* Unit benches and Python unit tests, which are one step each of `Runner`: directed stimulus of units that are modelled.
* Inside `Cpu`, byte lanes and encodings: they are in `Datapath`, one instruction at a time, because their product with the
  pipeline's interleavings is out of TLC's reach. The pipeline carries a lane unit's operands and result without looking at them.

## Plan

1. done: fetch path, its abstract stream, checks and proofs.
2. done: the whole core against the reference model, checks.
3. done: the bus shim between a free master and the memory, checks and proofs.
4. done: the scoreboard and the monitors on the core, the main bench with its trace checker, the warm-reset bench, checks.
5. done: encodings, lanes, ALU and traps against the simulator, assembler, trace and state files with faults, checks.
6. done: sessions, toolchain checks, netlist inspection, export and showcase, checks.
7. done: proofs of the core's invariants, of `ImplementsIsa` step by step, of the checkers on both benches, and of the sessions.
8. done: proofs that the main bench's trace and final state are the reference model's run, and of every check of the warm-reset bench.
9. Left: that `Cpu`'s front end is an instance of `FrontEndSystem`, so that `Cpu` also implements `FetchStream`; the two properties of folds that only TLC has checked.
