------------------------------- MODULE EvidenceMC ------------------------------
(* One RTL source and one that may be added, one bench, one program, the plan*)
(* and the Python modules; two ports, one gate and one flip-flop.            *)
EXTENDS Evidence

bench        == "sim/tb/tb_core_reset.sv"
MCInputFiles == << "rtl/core/added.v", top_source, bench, "tests/programs/p.asm", plan, code >>
MCCoreFiles  == {"rtl/core/added.v", top_source}
MCAdded      == {"rtl/core/added.v"}

(* An edited plan may ask for a test more. *)
MCTests    == <<"core_warm_reset", "raw_forwarding_priority", "memory_lanes">>
MCPlan     == [v \in 0 .. MaxEdits |-> IF v = 0 THEN MCTests ELSE Append(MCTests, "loop")]
MCPrograms == [t \in {"raw_forwarding_priority", "memory_lanes", "loop"} |-> "tests/programs/p.asm"]
MCNegative == [t \in {"core_warm_reset"} |-> <<"core_warm_reset_missing_phase">>]
MCSources  == [b \in ToSet(Units) \union DOMAIN MCNegative |->
  CASE b = "python_unit" -> {code} [] b = "core_warm_reset" -> {top_source, bench} [] OTHER -> {top_source}]

(* Bound: a signoff treats both mismatches alike and looks at no waves, so   *)
(* only the showcase has the second; a showcase reads and hashes as a signoff*)
(* does, so only the signoff has its inputs edited.                          *)
MCCategories ==
  LET signoff == {"none", "SIMULATOR", "TRACE_MISMATCH"}
  IN  [signoff |-> signoff, showcase |-> signoff \union {"STATE_MISMATCH"}]

MCEdited       == {"signoff"}
MCCommandLines == {<<"signoff", "export">>, <<"showcase", "showcase">>}

-----------------------------------------------------------------------------
MCPorts == ("clk" :> <<"input", 1>>) @@ ("trace_pc" :> <<"output", 32>>)

Ports == [p \in DOMAIN MCPorts |-> [direction |-> MCPorts[p][1], width |-> MCPorts[p][2], tied |-> FALSE]]

Cell(type) == [type |-> type, wired |-> TRUE]
Module(types) == [residue |-> FALSE, cells |-> [i \in DOMAIN types |-> Cell(types[i])]]
Design(core, alu, regs) ==
  [ readable |-> TRUE, top |-> TRUE, ports |-> Ports,
    modules  |-> ("cpu_core" :> Module(core)) @@ ("alu" :> Module(alu)) @@ ("regs" :> Module(regs)) ]

(* Modules used once, twice, at two depths or not at all, and round in a     *)
(* circle. *)
Hierarchies ==
  { Design(core, alu, regs) :
      core \in {<<"alu", "alu">>, <<"regs", "alu">>, <<"AND">>},
      alu  \in {<<"regs", "AND">>, <<"regs", "regs">>, <<"cpu_core">>},
      regs \in {<<"DFF", "AND">>, <<>>} } \union {Design(<<"regs">>, <<"regs">>, <<"AND", "alu">>)}

Good == Design(<<"regs", "alu">>, <<"regs", "AND">>, <<"DFF", "AND">>)

Defects ==
  { [Good EXCEPT !.top = FALSE],
    [Good EXCEPT !.ports = [p \in {"clk"} |-> Ports[p]]],
    [Good EXCEPT !.ports["clk"].tied = TRUE],
    [Good EXCEPT !.ports["trace_pc"].tied = TRUE],
    [Good EXCEPT !.ports["trace_pc"].width = 31],
    [Good EXCEPT !.modules["regs"].residue = TRUE],
    [Design(<<"alu">>, <<"AND">>, <<>>) EXCEPT !.modules["regs"].residue = TRUE],
    [Good EXCEPT !.modules["alu"].cells[1].wired = FALSE],
    Design(<<"alu">>, <<"AND">>, <<"LATCH">>),
    Design(<<"alu">>, <<"LATCH">>, <<>>),
    Design(<<"alu">>, <<"AND", "missing">>, <<>>) }

MCDesigns == Hierarchies \union Defects
MCAltered == {Good, Design(<<"AND">>, <<>>, <<>>)}

-----------------------------------------------------------------------------
(* What a simulation may leave: dumps of four clock periods, the changes of  *)
(* a time in their order, and the two trace files.  Another instruction      *)
(* retires at 1.  The decision falls at 3 and the retirement at 5, or what   *)
(* looks like one is a glitch; the clock may bounce within a time. *)
At(t, changes) == << [time |-> t] >> \o changes
Set(s, v)    == [signal |-> s, value |-> v]
SetAll(want) == FoldSet(LAMBDA s, changes : Append(changes, Set(s, want[s])), <<>>, DOMAIN want)

Spoil(want) == << Set(CHOOSE s \in DOMAIN want : TRUE, "other") >>
Fall(want)  == << Set(CHOOSE s \in DOMAIN want : want[s] = "1", "0") >>

(* The condition begins and the values come before it, after it or not at all*)
Happens(how, when, values) ==
  CASE how = "late"   -> Spoil(values) \o SetAll(when) \o SetAll(values)
    [] how = "glitch" -> SetAll(when) \o SetAll(values) \o Spoil(values) \o Fall(when)
    [] how = "wrong"  -> SetAll(when) \o SetAll(values) \o Spoil(values)
    [] how = "never"  -> SetAll(values)

Dump(side, decision, retirement, bounce) ==
  LET data == [trace_rd_data |-> side.value, trace_cycle |-> "5"]
      decides(t)  == IF decision = "early" THEN IF t = 1 THEN Happens("late", side.decides, side.checks) ELSE <<>>
                     ELSE Happens(IF t = 3 THEN decision ELSE IF t = 6 THEN "late" ELSE "never",
                                  side.decides, side.checks)
  IN     At(0, SetAll([s \in side.requested |-> "0"]))
      \o At(1, << Set("clk", "1"), Set("trace_valid", "1"), Set("trace_pc", "4") >> \o decides(1))
      \o At(2, << Set("clk", "0"), Set("trace_valid", "0") >>)
      \o At(3, << Set("clk", "1") >> \o decides(3))
      \o At(4, << Set("clk", "0") >> \o (IF bounce = 4 THEN << Set("clk", "1"), Set("clk", "0") >> ELSE <<>>))
      \o At(5, << Set("clk", "1") >> \o Happens(retirement, retires(side), data))
      \o At(6, << Set("clk", "0") >> \o decides(6))
      \o At(7, (IF bounce = 7 THEN << Set("clk", "1"), Set("clk", "0"), Set("clk", "1") >> ELSE << Set("clk", "1") >>)
               \o Happens("late", retires(side), data))
      \o (IF bounce = 8 THEN At(8, << Set("clk", "0"), Set("clk", "1") >>) ELSE <<>>)

Row(side) == [pc |-> side.pc, rd |-> side.rd, rd_we |-> "1", rd_data |-> side.value, cycle |-> "5"]
Other     == [pc |-> "4", rd |-> "1", rd_we |-> "1", rd_data |-> "other", cycle |-> "1"]

Left(side, dump, row, rows, expected) ==
  [ waves |-> dump, trace |-> << Other >> \o [i \in 1 .. rows |-> row],
    expected_trace |-> << Other, [Row(side) EXCEPT !.rd_data = expected] >> ]

Checked(side, dump) == Left(side, dump, Row(side), 1, side.expected)
Plain(side) == Checked(side, Dump(side, "late", "late", 0))

(* A good run, decisions and retirements that only look like one, a clock    *)
(* that bounces, and trace files that say something else. *)
All(side) ==
  LET simulated(d, r, b) == Checked(side, Dump(side, d, r, b))
      rows_left(row, rows, expected) == Left(side, Plain(side).waves, row, rows, expected)
  IN  { Plain(side),
        simulated("glitch", "late", 0), simulated("wrong", "late", 0), simulated("early", "late", 0),
        simulated("late", "glitch", 0), simulated("late", "wrong", 0),
        simulated("late", "late", 4), simulated("late", "late", 7), simulated("late", "late", 8),
        rows_left([Row(side) EXCEPT !.cycle = "7"], 1, side.expected),
        rows_left([Row(side) EXCEPT !.rd_data = "other"], 1, side.expected),
        rows_left(Row(side), 0, side.expected), rows_left(Row(side), 2, side.expected),
        rows_left(Row(side), 1, "other") }

(* What is not drawn leaves nothing of interest.                             *)
Undrawn == [n \in {"loop", "random"} |-> {<<>>}]

MCDumps ==
     ("raw_forwarding_priority" :> All(forwarding("repaired")))
  @@ ("wb_over_ex_forwarding"   :> {Plain(forwarding("fault_injected"))})
  @@ ("memory_lanes"            :> {Plain(byte_lane("repaired"))})
  @@ ("wrong_byte_lane"         :> LET side == byte_lane("fault_injected")
                                   IN  {Plain(side), Checked(side, Dump(side, "glitch", "late", 8))})
  @@ Undrawn
==============================================================================
