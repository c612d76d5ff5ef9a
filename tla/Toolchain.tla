------------------------------- MODULE Toolchain -------------------------------
(* The lint and synthesis stage of a signoff, verification/toolchain.py:     *)
(* each tool is found, asked for its version, given paths it understands and *)
(* run on the RTL, and what Yosys writes is inspected.                       *)
EXTENDS Repository, Netlist

CONSTANT Designs      \* the netlists a synthesis may write

VARIABLES
  stage,        \* of the command that runs
  tool,         \* the tool being checked: its name, step and backend
  report,       \* the sources hashed and the checks done, by tool
  build,        \* the artifacts of the session, on disk
  reads         \* the files read since the session hashed them, and their versions

toolVars == <<tool, report, build, reads>>

top_source == "rtl/core/cpu_core.v"
NoReport == [sources |-> <<>>, checks |-> <<>>, status |-> "none"]
NoNetlist == [readable |-> FALSE]
NoFiles  == [netlist |-> NoNetlist, statistics |-> 0, summary |-> Refused]
NoTool   == [name |-> "none", step |-> "none", backend |-> "none", commands |-> <<>>]

reading(files) == {<<f, repo[f]>> : f \in files}

(* _invoke: 0 or another return code; none after a timeout, or where the     *)
(* program cannot be executed.                                               *)
Outcomes == {"0", "nonzero", "none"}

(* discover_tool: an override that resolves or does not, else the native     *)
(* directories, else `which` in WSL.                                         *)
discover_tool(override, native, probe) ==
  CASE override = "broken"   -> "FAIL"
    [] override = "resolves" -> "native"
    [] OTHER -> CASE native -> "native"
                  [] ~native /\ probe = "0" -> "wsl"
                  [] OTHER -> "BLOCKED_TOOLING"

start_tool(name) == [NoTool EXCEPT !.name = name, !.step = "discover"]

after_tool(name) == IF name = "verilator" THEN start_tool("yosys") ELSE [NoTool EXCEPT !.step = "report"]

(* The check of the current tool is done: on to the next. *)
Conclude(status, commands, files) ==
  /\ report' = [report EXCEPT !.checks = put(@, tool.name,
                  [status |-> status, commands |-> commands, files |-> files])]
  /\ tool' = after_tool(tool.name)

StartToolchain ==
  /\ tool = NoTool
  /\ present(top_source)
  /\ report' = [NoReport EXCEPT !.sources = [f \in {g \in CoreFiles : present(g)} |-> repo[f]]]
  /\ tool' = start_tool("verilator")
  /\ UNCHANGED <<build, reads>>

Discover ==
  /\ tool.step = "discover"
  /\ \E override \in {"unset", "resolves", "broken"}, native \in BOOLEAN, probe \in Outcomes :
       LET found == discover_tool(override, native, probe)
       IN  IF found \in {"native", "wsl"}
             THEN tool' = [tool EXCEPT !.step = "version", !.backend = found] /\ UNCHANGED report
             ELSE Conclude(found, <<>>, NoFiles)
  /\ UNCHANGED <<build, reads>>

Version ==
  /\ tool.step = "version"
  /\ \E outcome \in Outcomes, printed \in BOOLEAN :
       IF outcome = "0" /\ printed
         THEN /\ tool' = [tool EXCEPT !.commands = Append(@, outcome),
                                      !.step = IF tool.backend = "wsl" THEN "paths" ELSE "launch"]
              /\ UNCHANGED report
         ELSE Conclude("FAIL", Append(tool.commands, outcome), NoFiles)
  /\ UNCHANGED <<build, reads>>

(* wslpath, for the root and then for the output directory. *)
ConvertPath ==
  /\ tool.step = "paths"
  /\ \E outcome \in Outcomes, absolute \in BOOLEAN :
       LET commands == Append(tool.commands, outcome)
       IN  IF outcome # "0" \/ ~absolute THEN Conclude("FAIL", commands, NoFiles)
           ELSE /\ tool' = [tool EXCEPT !.commands = commands,
                                        !.step = IF Len(commands) = 3 THEN "launch" ELSE "paths"]
                /\ UNCHANGED report
  /\ UNCHANGED <<build, reads>>

(* The tool is started on the sources that were there when the stage began.  *)
Launch ==
  /\ tool.step = "launch"
  /\ reads' = reads \union reading(DOMAIN report.sources)
  /\ tool' = [tool EXCEPT !.step = "run"]
  /\ UNCHANGED <<report, build>>

read_all == \A f \in DOMAIN report.sources : <<f, Absent>> \notin reads

Lint ==
  /\ tool.step = "run" /\ tool.name = "verilator"
  /\ \E outcome \in Outcomes :
       /\ outcome = "0" => read_all
       /\ Conclude(IF outcome = "0" THEN "PASS" ELSE "FAIL", Append(tool.commands, outcome), NoFiles)
  /\ UNCHANGED <<build, reads>>

(* What Yosys left is inspected where it exits with zero: the netlist, its   *)
(* statistics and the Verilog.  The summary is written when all agree.       *)
Synthesize ==
  /\ tool.step = "run" /\ tool.name = "yosys"
  /\ \E outcome \in Outcomes, netlist \in Designs \union {NoNetlist}, miscount \in {0, 1}, verilog \in BOOLEAN :
       LET summary == inspect_netlist(netlist)
           files   == [netlist |-> netlist, statistics |-> summary.leaves + miscount, summary |-> summary]
           passed  == outcome = "0" /\ ~summary.failed /\ miscount = 0 /\ verilog
       IN  /\ outcome = "0" => read_all
           /\ outcome # "0" => netlist = NoNetlist
           /\ summary.failed => ~verilog /\ miscount = 0      \* then nobody looks at them
           /\ build' = [build EXCEPT !.files = files]
           /\ Conclude(IF passed THEN "PASS" ELSE "FAIL", Append(tool.commands, outcome), files)
  /\ UNCHANGED reads

(* Mutant: a missing tool hides that the other failed. *)
overall_blocked_first(statuses) ==
  IF "BLOCKED_TOOLING" \in statuses THEN "BLOCKED_TOOLING" ELSE IF "FAIL" \in statuses THEN "FAIL" ELSE "PASS"

overall(statuses) ==
  IF "FAIL" \in statuses THEN "FAIL"
  ELSE IF "BLOCKED_TOOLING" \in statuses THEN "BLOCKED_TOOLING" ELSE "PASS"

ToolStep == StartToolchain \/ Discover \/ Version \/ ConvertPath \/ Launch \/ Lint \/ Synthesize
==============================================================================
