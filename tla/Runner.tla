--------------------------------- MODULE Runner --------------------------------
(* A session of scripts/run_tests.py, the full signoff, or of                *)
(* scripts/build_showcase.py, which uses the same runner: the stages in      *)
(* order, the hashes of the inputs before and after, and the manifest.       *)
EXTENDS Toolchain

CONSTANTS
  plan_tests,      \* version of the test plan -> its directed tests, in order
  Programs,        \* the program file of a test
  negative_cases,  \* protocol test -> its negative cases, in order
  sources,         \* what a unit or protocol bench is compiled of
  Categories,      \* command -> how the verification of an image may end
  Bins,            \* the required coverage bins
  Dumps            \* test -> the waveforms and traces a simulation of it may leave

VARIABLES
  todo,            \* the commands still to be given
  suite, left,     \* the command, and what its stage has still to run
  loaded,          \* files read before the session hashed its inputs
  run,             \* the session, and what its manifest says when it ends
  compiled,        \* the simulators built so far
  waves,           \* what every run left of them
  filed            \* session -> the status its manifest has on disk

ASSUME PlanAssumption ==
  \A t \in DOMAIN negative_cases :
    /\ t \notin DOMAIN Programs
    /\ ToSet(negative_cases[t]) \cap (DOMAIN Programs \union DOMAIN negative_cases) = {}

runnerVars == <<todo, suite, left, loaded, run, compiled, waves, filed>>
sessionVars == <<repoVars, passVars, toolVars, stage, runnerVars>>

Mutations == <<"wb_over_ex_forwarding", "wrong_byte_lane">>

mutated_test == [m \in ToSet(Mutations) |->
  IF m = "wb_over_ex_forwarding" THEN "raw_forwarding_priority" ELSE "memory_lanes"]

Units == <<"python_unit", "forwarding_unit", "hazard_unit", "memory_model", "memory_range_guard">>

negatives(test) == IF test \in DOMAIN negative_cases THEN negative_cases[test] ELSE <<>>
needed(test)    == IF test \in DOMAIN negative_cases THEN sources[test] ELSE {Programs[test]}

shown(test)  == \E m \in DOMAIN mutated_test : mutated_test[m] = test
code         == "verification/iss.py"         \* stands for the modules imported
plan         == "tests/testplan.json"
CORE_SOURCES == CoreFiles \ Added              \* a list, where the toolchain takes all there are

NoRun(id) ==
  [ id |-> id, status |-> "running", input_hashes |-> <<>>, final_input_hashes |-> <<>>,
    source_input_rehash |-> <<>>, mutation_original_tree_rehash |-> "none",
    testplan |-> Absent, tests |-> <<>>, results |-> <<>>, coverage |-> {}, original |-> <<>> ]

NoBuild == [files |-> NoFiles, program |-> <<>>, log |-> "none"]

RunnerInit ==
  /\ stage = "idle" /\ suite = "none" /\ left = <<>> /\ loaded = {} /\ run = NoRun(0)
  /\ compiled = {} /\ waves = <<>> /\ filed = <<>>
  /\ tool = NoTool /\ report = NoReport /\ reads = {}
  /\ build = NoBuild

Goto(s, work) == stage' = s /\ left' = work

(* main's except clause: finalize("fail"). *)
Fails ==
  /\ Goto("idle", <<>>)
  /\ run' = [run EXCEPT !.status = "fail"]
  /\ filed' = [filed EXCEPT ![run.id] = "fail"]

(* Before there is a session the command just ends. *)
ConfigurationFail == Goto("idle", <<>>) /\ UNCHANGED <<run, filed>>

-----------------------------------------------------------------------------
(* The process starts: the verification modules are imported.  *)
Import ==
  /\ stage = "idle" /\ todo # <<>> /\ Head(todo) \in {"signoff", "showcase"}
  /\ todo' = Tail(todo) /\ suite' = Head(todo)
  /\ run' = NoRun(run.id + 1)
  /\ IF present(code) THEN Goto("plan", <<>>) /\ loaded' = reading({code})
                      ELSE Goto("idle", <<>>) /\ loaded' = {}
  /\ compiled' = {} /\ waves' = <<>> /\ filed' = Append(filed, "none")
  /\ tool' = NoTool /\ report' = NoReport /\ reads' = {}
  /\ build' = NoBuild
  /\ UNCHANGED <<repoVars, passVars>>

(* load_plan: the plan is there, and so is what its tests are made of.       *)
load_plan == present(plan) /\ \A t \in ToSet(plan_tests[repo[plan]]) : \A f \in needed(t) : present(f)

LoadPlan ==
  /\ stage = "plan"
  /\ IF load_plan
       THEN /\ run' = [run EXCEPT !.tests = plan_tests[repo[plan]]]
            /\ loaded' = loaded \union reading({plan})
            /\ Goto("hash", <<>>) /\ List
       ELSE Goto("idle", <<>>) /\ UNCHANGED <<run, loaded, passVars>>
  /\ UNCHANGED <<repoVars, toolVars, todo, suite, compiled, waves, filed>>

(* A pass over the inputs: before the first stage, or after the last.        *)
HashInput ==
  /\ stage \in {"hash", "rehash"} /\ HashOne
  /\ UNCHANGED <<repoVars, toolVars, stage, runnerVars>>

HashFails ==
  /\ stage \in {"hash", "rehash"} /\ Unreadable
  /\ IF stage = "hash" THEN ConfigurationFail ELSE Fails
  /\ UNCHANGED <<repoVars, passVars, toolVars, todo, suite, loaded, compiled, waves>>

Open ==
  /\ stage = "hash" /\ Hashed
  /\ IF present(plan)
       THEN /\ run' = [run EXCEPT !.input_hashes = hashed, !.testplan = repo[plan]]
            /\ IF suite = "signoff" THEN Goto("unit", Units)
               ELSE Goto("directed", SelectSeq(run.tests, shown))
            /\ UNCHANGED filed
       ELSE ConfigurationFail
  /\ UNCHANGED <<repoVars, passVars, toolVars, todo, suite, loaded, compiled, waves>>

-----------------------------------------------------------------------------
result(kind, name, passed, category, image) ==
  [ kind |-> kind, name |-> name, status |-> IF passed THEN "pass" ELSE "fail",
    category |-> category, image |-> image ]

(* A run is recorded; one that did not pass ends the session. *)
Record(r, bins, next, work) ==
  LET recorded == [run EXCEPT !.results = Append(@, r), !.coverage = @ \union bins]
  IN  IF r.status = "pass" THEN run' = recorded /\ Goto(next, work) /\ UNCHANGED filed
      ELSE /\ run' = [recorded EXCEPT !.status = "fail"]
           /\ filed' = [filed EXCEPT ![run.id] = "fail"]
           /\ Goto("idle", <<>>)

(* A bench is compiled and run, and passes or not.  What it prints can only  *)
(* be right if its sources are there. *)
Bench(kind, name, files, work) ==
  /\ reads' = reads \union reading(files)
  /\ \E passed \in BOOLEAN :
       /\ passed => \A f \in files : present(f)
       /\ Record(result(kind, name, passed, "none", <<>>), {}, stage, work)
  /\ UNCHANGED <<repoVars, passVars, tool, report, todo, suite, loaded, waves>>

(* run_unit: the Python tests and the unit benches, in fresh processes.  The *)
(* range guard runs the simulator of memory_model.  unittest may say OK in a *)
(* way the exporter does not understand. *)
RunUnit ==
  /\ stage = "unit" /\ left # <<>>
  /\ LET unit == Head(left)
         top  == IF unit = "memory_range_guard" THEN "memory_model" ELSE unit
     IN  /\ Bench("unit", unit, IF top \in compiled THEN {} ELSE sources[top], Tail(left))
         /\ compiled' = compiled \union {top}
         /\ IF unit = "python_unit" THEN \E log \in {"OK", "unclear"} : build' = [build EXCEPT !.log = log]
                                    ELSE UNCHANGED build

(* run_protocol: the bench drives its own programs and counts other bins.    *)
(* Its negative cases are next: each must fail, just for what it leaves out. *)
RunProtocol ==
  /\ stage = "directed" /\ left # <<>> /\ Head(left) \in DOMAIN negative_cases
  /\ Bench("protocol", Head(left), sources[Head(left)], negatives(Head(left)) \o Tail(left))
  /\ UNCHANGED <<build, compiled>>

RunProtocolNegative ==
  /\ stage = "directed" /\ left # <<>>
  /\ \E t \in DOMAIN negative_cases : Head(left) \in ToSet(negative_cases[t])
  /\ Bench("protocol_negative", Head(left), {}, Tail(left))
  /\ UNCHANGED <<build, compiled>>

buildable(key) == key \in compiled \/ \A f \in CORE_SOURCES : present(f)

(* _run_image: the image is simulated and the files checked.  Only a run     *)
(* whose category is among the wanted passes: "none", or a mismatch where    *)
(* the source tree is mutated; "SIMULATOR" stands for all the others.        *)
(* _compile keeps the simulator of every timing and tree, whatever happened  *)
(* to the sources since. *)
Simulate(kind, name, key, programs, wanted, next, work) ==
  /\ buildable(key)
  /\ reads' = reads \union reading(programs)
                    \union (IF key \in compiled THEN {} ELSE reading(CORE_SOURCES))
  /\ compiled' = compiled \union {key}
  /\ LET image == [f \in programs |-> repo[f]] IN
       /\ build' = [build EXCEPT !.program = image @@ @]
       /\ \E category \in Categories[suite], bins \in SUBSET Bins :
            Record(result(kind, name, category \in wanted, category, image),
                   IF kind = "rtl" THEN bins ELSE {}, next, work)
  /\ IF suite = "showcase" THEN \E dump \in Dumps[name] : waves' = waves @@ (name :> dump)
                           ELSE UNCHANGED waves
  /\ UNCHANGED <<repoVars, passVars, tool, report, todo, suite, loaded>>

Raises == Fails /\ UNCHANGED <<repoVars, passVars, toolVars, todo, suite, loaded, compiled, waves>>

Turn(next, work) ==
  /\ Goto(next, work)
  /\ UNCHANGED <<repoVars, passVars, toolVars, todo, suite, loaded, compiled, waves, filed>>

RunDirected ==
  /\ stage = "directed" /\ left # <<>> /\ Head(left) \in DOMAIN Programs
  /\ LET test == Head(left) IN
       \/ ~(present(Programs[test]) /\ buildable("fast")) /\ Raises
       \/ /\ present(Programs[test])
          /\ Simulate("rtl", test, "fast", {Programs[test]}, {"none"}, "directed", Tail(left))

UnitsDone == stage = "unit" /\ left = <<>> /\ Turn("directed", run.tests) /\ UNCHANGED run

DirectedDone ==
  /\ stage = "directed" /\ left = <<>>
  /\ Turn(IF suite = "signoff" THEN "random" ELSE "mutations", Mutations) /\ UNCHANGED run

RunRandom ==
  /\ stage = "random"
  /\ \/ ~buildable("seeded") /\ Raises
     \/ Simulate("rtl", "random", "seeded", {}, {"none"}, "mutations", left)

(* run_mutations: the sources are hashed, a copy patched, and compared again *)
(* when the mutants have run.                                                *)
StartMutations ==
  /\ stage = "mutations" /\ run.original = <<>>
  /\ \/ /\ \E f \in CORE_SOURCES : ~present(f)
        /\ Raises
     \/ /\ \A f \in CORE_SOURCES : present(f)
        /\ run' = [run EXCEPT !.original = [f \in CORE_SOURCES |-> repo[f]]]
        /\ Turn("copy", left)

(* _mutated_source: the anchor of the patch has to be there, once.  What is  *)
(* built later is this copy. *)
CopySources ==
  /\ stage = "copy" /\ left # <<>>
  /\ \/ (\E f \in CORE_SOURCES : repo[f] # 0) /\ Raises
     \/ /\ \A f \in CORE_SOURCES : present(f)
        /\ reads' = reads \union reading(CORE_SOURCES)
        /\ compiled' = compiled \union {Head(left)}
        /\ Goto("mutant", left)
        /\ UNCHANGED <<repoVars, passVars, tool, report, build, todo, suite, loaded, run, waves, filed>>

RunMutation ==
  /\ stage = "mutant"
  /\ LET program == Programs[mutated_test[Head(left)]] IN
       \/ ~present(program) /\ Raises
       \/ /\ present(program)
          /\ Simulate("mutation", Head(left), Head(left), {program}, {"TRACE_MISMATCH", "STATE_MISMATCH"},
                      "copy", Tail(left))

MutationsDone ==
  /\ stage = "copy" /\ left = <<>>
  /\ IF \A f \in CORE_SOURCES : repo[f] = run.original[f]
       THEN /\ run' = [run EXCEPT !.mutation_original_tree_rehash = "pass"]
            /\ Turn(IF suite = "signoff" THEN "gates" ELSE "cases", <<>>)
       ELSE Raises

-----------------------------------------------------------------------------
(* enforce_signoff_matrix and enforce_signoff_coverage, on the plan's tests. *)
times(s, n)     == Cardinality({i \in DOMAIN s : s[i] = n})
same_list(s, t) == Len(s) = Len(t) /\ \A i \in DOMAIN s : times(s, s[i]) = times(t, s[i])

names(results, kind) ==
  LET of == SelectSeq(results, LAMBDA r : r.kind = kind)
  IN  [i \in DOMAIN of |-> of[i].name]

(* Every job once, and none besides: what is doubled counts twice.           *)
signoff_matrix(results, tests) ==
  /\ \A i \in DOMAIN results : results[i].status = "pass"
  /\ Len(names(results, "mutation")) = 2
  /\ same_list(names(results, "rtl"), Append(SelectSeq(tests, LAMBDA t : t \in DOMAIN Programs), "random"))
  /\ same_list(names(results, "protocol"), SelectSeq(tests, LAMBDA t : t \in DOMAIN negative_cases))
  /\ same_list(names(results, "protocol_negative"), FlattenSeq([i \in DOMAIN tests |-> negatives(tests[i])]))

signoff_coverage(coverage) == Bins \subseteq coverage

Gates ==
  /\ stage = "gates"
  /\ IF signoff_coverage(run.coverage) /\ signoff_matrix(run.results, run.tests)
       THEN Turn("toolchain", <<>>) /\ UNCHANGED run
       ELSE Raises

Toolchain ==
  /\ stage = "toolchain"
  /\ ToolStep /\ UNCHANGED <<stage, repoVars, passVars, runnerVars>>

NoSources == stage = "toolchain" /\ tool = NoTool /\ ~present(top_source) /\ Raises

(* run_independent_toolchain: the report is in the manifest; FAIL ends the   *)
(* session, a tool that is missing does not.                                 *)
ToolchainDone ==
  /\ stage = "toolchain" /\ tool.step = "report"
  /\ LET status == overall({report.checks[t].status : t \in DOMAIN report.checks})
     IN  /\ report' = [report EXCEPT !.status = status]
         /\ tool' = NoTool
         /\ IF status = "FAIL" THEN Fails /\ UNCHANGED passVars
            ELSE Goto("rehash", <<>>) /\ List /\ UNCHANGED <<run, filed>>
  /\ UNCHANGED <<repoVars, build, reads, todo, suite, loaded, compiled, waves>>

(* Mutant: an input that was not there at first is not noticed. *)
same_inputs_added(before, after) ==
  \A f \in DOMAIN before : f \in DOMAIN after /\ before[f] = after[f]

same_inputs(before, after) ==
  /\ DOMAIN before = DOMAIN after
  /\ \A f \in DOMAIN before : before[f] = after[f]

rehash(before, after) ==
  [ status  |-> IF same_inputs(before, after) THEN "pass" ELSE "fail",
    checked |-> Cardinality(DOMAIN after),
    added   |-> DOMAIN after \ DOMAIN before,
    removed |-> DOMAIN before \ DOMAIN after,
    changed |-> {f \in DOMAIN before \cap DOMAIN after : before[f] # after[f]} ]

(* enforce_input_hashes and, where it does not raise, finalize("pass"). *)
Enforce ==
  /\ stage = "rehash" /\ Hashed
  /\ LET rehashed == [run EXCEPT !.final_input_hashes  = hashed,
                               !.source_input_rehash = rehash(run.input_hashes, hashed)]
     IN  IF same_inputs(run.input_hashes, hashed)
           THEN /\ run' = [rehashed EXCEPT !.status = "pass"]
                /\ filed' = [filed EXCEPT ![run.id] = "pass"]
                /\ Goto(IF suite = "signoff" THEN "idle" ELSE "metadata", <<>>)
           ELSE /\ run' = [rehashed EXCEPT !.status = "fail"]
                /\ filed' = [filed EXCEPT ![run.id] = "fail"]
                /\ Goto("idle", <<>>)
  /\ UNCHANGED <<repoVars, passVars, toolVars, todo, suite, loaded, compiled, waves>>

RunnerStep ==
  \/ Import \/ LoadPlan \/ HashInput \/ HashFails \/ Open
  \/ RunUnit \/ UnitsDone
  \/ RunDirected \/ RunProtocol \/ RunProtocolNegative \/ DirectedDone \/ RunRandom
  \/ StartMutations \/ CopySources \/ RunMutation \/ MutationsDone
  \/ Gates \/ Toolchain \/ NoSources \/ ToolchainDone \/ Enforce
=============================================================================
