-------------------------------- MODULE Evidence -------------------------------
(* What the repository publishes of its runs: the signoff summary exported   *)
(* by scripts/export_evidence.py and the waveforms of scripts/               *)
(* build_showcase.py, while the inputs are edited and the build directory of *)
(* an ended session may be altered.                                          *)
EXTENDS Runner, Waveform

CONSTANTS
  CommandLines,     \* what is run, one command after the other
  Edited,           \* bound: the commands during which and after which inputs are edited
  AlteredDesigns    \* what a netlist may be replaced by

VARIABLES
  altered,          \* whether an artifact has been
  began,            \* the inputs when the export began
  export,           \* what the export has gathered
  snapshot,         \* docs/assets/signoff_summary.json
  metadata,         \* showcase_evidence.json in the making
  assets            \* the three files the showcase keeps in docs/assets

exportVars   == <<began, export, snapshot>>
showcaseVars == <<metadata, assets>>
vars == <<sessionVars, altered, exportVars, showcaseVars>>

NoExport   == [current |-> <<>>, files |-> NoFiles]
NoSnapshot == [session |-> 0, hashes |-> <<>>, files |-> NoFiles]
NoMetadata == [cases |-> <<>>, session |-> 0, manifest |-> "none"]

Init ==
  /\ RepoInit /\ RunnerInit
  /\ todo \in CommandLines
  /\ altered = FALSE
  /\ began = <<>> /\ export = NoExport /\ snapshot = NoSnapshot
  /\ metadata = NoMetadata /\ assets = <<>>

-----------------------------------------------------------------------------
(* The showcase: a panel of every case is sampled from what its two runs     *)
(* left, the mutant's and the repaired one's.  In the first case the value   *)
(* forwarded is wrong, in the second the byte of a loaded word.              *)
faulty(side) == side = "fault_injected"

forwarding(side) ==
  [ requested |-> FORWARD, pc |-> "8", rd |-> "2",
    expected |-> "6", value |-> IF faulty(side) THEN "4" ELSE "6",
    decides  |-> [ID_EX_pc |-> "8", idex_fire |-> "1"],
    checks   |-> [ dbg_forward_a      |-> IF faulty(side) THEN "1" ELSE "2",
                   fwdA               |-> IF faulty(side) THEN "1" ELSE "3",
                   exmem_result_value |-> "3",
                   MEM_WB_result      |-> "1" ] ]

byte_lane(side) ==
  LET value == IF faulty(side) THEN "7f" ELSE "ffffffff"
  IN  [ requested |-> LANE, pc |-> "12", rd |-> "3", expected |-> "ffffffff", value |-> value,
        decides |-> [EX_MEM_pc |-> "12", db_resp_v |-> "1", db_resp_r |-> "1"],
        checks  |-> [db_req_a |-> "42", db_resp_d |-> "80ff7f01", external_load_value |-> value] ]

Sides == {"fault_injected", "repaired"}

shows_of(case, side) == IF case = 1 THEN forwarding(side) ELSE byte_lane(side)
name_of(case, side)  == IF faulty(side) THEN Mutations[case] ELSE mutated_test[Mutations[case]]

(* The mutant has to be killed by its trace. *)
detected(case) ==
  \E i \in DOMAIN run.results :
    run.results[i].name = Mutations[case] /\ run.results[i].category = "TRACE_MISMATCH"

make_case(case) == [side \in Sides |-> sample(waves[name_of(case, side)], shows_of(case, side))]

MakeCase ==
  /\ stage = "cases" /\ Len(metadata.cases) < 2
  /\ LET case   == Len(metadata.cases) + 1
         panels == make_case(case)
     IN  IF ~detected(case) \/ (\E side \in Sides : panels[side].failed) \/ ~in_window(panels)
           THEN Raises /\ UNCHANGED metadata
           ELSE /\ metadata' = [metadata EXCEPT !.cases = Append(@, panels)]
                /\ UNCHANGED sessionVars
  /\ UNCHANGED <<altered, exportVars, assets>>

CasesDone ==
  /\ stage = "cases" /\ Len(metadata.cases) = 2
  /\ Goto("rehash", <<>>) /\ List
  /\ UNCHANGED <<repoVars, toolVars, todo, suite, loaded, run, compiled, waves, filed,
                 altered, exportVars, showcaseVars>>

(* The manifest is hashed as it is on disk, and the metadata written.        *)
WriteMetadata ==
  /\ stage = "metadata"
  /\ metadata' = [metadata EXCEPT !.session = run.id, !.manifest = filed[run.id]]
  /\ Goto("publish", <<"forwarding_waveform.svg", "byte_lane_waveform.svg", "showcase_evidence.json">>)
  /\ UNCHANGED <<repoVars, passVars, toolVars, todo, suite, loaded, run, compiled, waves, filed,
                 altered, exportVars, assets>>

(* Mutant: a file that cannot be written is left as it was. *)
CopyAsset_anyway ==
  /\ stage = "publish" /\ left # <<>>
  /\ \/ assets' = put(assets, Head(left), [session |-> run.id, manifest |-> metadata.manifest])
     \/ UNCHANGED assets
  /\ Goto(IF Tail(left) = <<>> THEN "idle" ELSE "publish", Tail(left))
  /\ UNCHANGED <<repoVars, passVars, toolVars, todo, suite, loaded, run, compiled, waves, filed,
                 altered, exportVars, metadata>>

(* copy2, one file after the other; a file that cannot be written makes the  *)
(* session fail, with what was copied before it in place.                    *)
CopyAsset ==
  /\ stage = "publish" /\ left # <<>>
  /\ \/ /\ assets' = put(assets, Head(left), [session |-> run.id, manifest |-> metadata.manifest])
        /\ Goto(IF Tail(left) = <<>> THEN "idle" ELSE "publish", Tail(left))
        /\ UNCHANGED <<repoVars, passVars, toolVars, todo, suite, loaded, run, compiled, waves, filed>>
     \/ Raises /\ UNCHANGED assets
  /\ UNCHANGED <<altered, exportVars, metadata>>

-----------------------------------------------------------------------------
(* build_summary: the checks in order, and what they read.                   *)
ResultKinds == {"unit", "rtl", "protocol", "protocol_negative", "mutation"}
Stops == Goto("idle", <<>>) /\ UNCHANGED <<passVars, export>>

ReadManifest ==
  /\ stage = "idle" /\ todo # <<>> /\ Head(todo) = "export"
  /\ todo' = Tail(todo)
  /\ began' = repo
  /\ export' = NoExport
  /\ IF /\ run.status = "pass" /\ suite = "signoff" /\ run.results # <<>>
        /\ \A i \in DOMAIN run.results : /\ run.results[i].status = "pass"
                                        /\ run.results[i].kind \in ResultKinds
       THEN Goto("current", <<>>) /\ List
       ELSE Goto("idle", <<>>) /\ UNCHANGED passVars
  /\ UNCHANGED <<repoVars, toolVars, suite, loaded, run, compiled, waves, filed, altered, snapshot, showcaseVars>>

HashCurrent ==
  /\ stage = "current"
  /\ \/ HashOne /\ UNCHANGED <<stage, left, export>>
     \/ Unreadable /\ Stops
  /\ UNCHANGED <<repoVars, toolVars, todo, suite, loaded, run, compiled, waves, filed,
                 altered, began, snapshot, showcaseVars>>

(* Mutant: the hashes of the session are compared with each other only. *)
as_signed_off_before(manifest, current) == manifest.input_hashes = manifest.final_input_hashes

as_signed_off(manifest, current) ==
  /\ manifest.input_hashes = current
  /\ manifest.final_input_hashes = current
  /\ manifest.source_input_rehash = rehash(current, current)
  /\ manifest.mutation_original_tree_rehash = "pass"
  /\ manifest.testplan = current[plan]

ExportStep(from, to, ok, gathered) ==
  /\ stage = from
  /\ IF ok THEN Goto(to, <<>>) /\ export' = gathered /\ UNCHANGED passVars ELSE Stops
  /\ UNCHANGED <<repoVars, toolVars, todo, suite, loaded, run, compiled, waves, filed,
                 altered, began, snapshot, showcaseVars>>

CompareInputs ==
  /\ Hashed
  /\ ExportStep("current", "matrix", hashed # <<>> /\ as_signed_off(run, hashed),
                [export EXCEPT !.current = hashed])

(* The matrix is enforced again, on the plan as it is now, and every unit    *)
(* test is there once. *)
CheckMatrix ==
  ExportStep("matrix", "programs",
             /\ load_plan
             /\ signoff_matrix(run.results, plan_tests[repo[plan]]) /\ signoff_coverage(run.coverage)
             /\ same_list(names(run.results, "unit"), Units),
             export)

CheckPrograms ==
  ExportStep("programs", "log",
             \A i \in DOMAIN run.results :
               run.results[i].kind = "rtl" =>
                 \A f \in DOMAIN run.results[i].image : build.program[f] = run.results[i].image[f],
             export)

CheckUnitLog == ExportStep("log", "tools", build.log = "OK", export)

(* Both tools passed, on these sources; the artifacts are those recorded.    *)
core_hashes == [f \in CoreFiles \intersect DOMAIN export.current |-> export.current[f]]

CheckTools ==
  ExportStep("tools", "netlist",
             /\ report.status = "PASS"
             /\ \A t \in {"verilator", "yosys"} : t \in DOMAIN report.checks /\ report.checks[t].status = "PASS"
             /\ DOMAIN core_hashes # {} /\ report.sources = core_hashes
             /\ build.files = report.checks["yosys"].files,
             [export EXCEPT !.files.netlist = build.files.netlist])

(* Mutant: the summary made anew is not compared with the one recorded. *)
summary_stands_always(summary) == TRUE

summary_stands(summary) ==
  /\ summary = report.checks["yosys"].files.summary
  /\ summary = build.files.summary
  /\ summary.leaves = build.files.statistics

(* The netlist is read again and its summary goes into the snapshot. *)
InspectAgain ==
  LET summary == inspect_netlist(build.files.netlist)
  IN  ExportStep("netlist", "write", ~summary.failed /\ summary_stands(summary),
                 [export EXCEPT !.files.summary = summary])

WriteSnapshot ==
  /\ stage = "write"
  /\ snapshot' = [session |-> run.id, hashes |-> export.current, files |-> export.files]
  /\ Goto("idle", <<>>)
  /\ UNCHANGED <<repoVars, passVars, toolVars, todo, suite, loaded, run, compiled, waves, filed,
                 altered, began, export, showcaseVars>>

-----------------------------------------------------------------------------
(* Somebody else at work: the inputs are edited at any time, and once a      *)
(* session has ended one of its artifacts may be replaced. *)
EditInputs == suite \in Edited /\ Edit /\ UNCHANGED <<toolVars, stage, runnerVars, altered, exportVars, showcaseVars>>

Alter ==
  /\ ~altered /\ altered' = TRUE
  /\ suite = "signoff" /\ run.status = "pass"
  /\ \/ \E f \in DOMAIN build.program : build' = [build EXCEPT !.program[f] = Absent]
     \/ \E d \in AlteredDesigns \ {build.files.netlist} : build' = [build EXCEPT !.files.netlist = d]
     \/ build' = [build EXCEPT !.files.statistics = @ + 1]
     \/ build' = [build EXCEPT !.files.summary = Refused]
     \/ build' = [build EXCEPT !.log = "unclear"]
  /\ UNCHANGED <<repoVars, passVars, tool, report, reads, stage, runnerVars, exportVars, showcaseVars>>

Session  == /\ RunnerStep
            /\ metadata' = IF stage = "idle" THEN NoMetadata ELSE metadata
            /\ UNCHANGED <<altered, exportVars, assets>>
Showcase == MakeCase \/ CasesDone \/ WriteMetadata \/ CopyAsset
Export   == \/ ReadManifest \/ HashCurrent \/ CompareInputs \/ CheckMatrix
            \/ CheckPrograms \/ CheckUnitLog \/ CheckTools \/ InspectAgain \/ WriteSnapshot

(* All commands have come to their end.  Nothing else may stop: a stage that *)
(* no failure leads out of would be a deadlock. *)
Finished == stage = "idle" /\ todo = <<>> /\ UNCHANGED vars

Next == Session \/ Showcase \/ Export \/ EditInputs \/ Alter \/ Finished
Spec == Init /\ [][Next]_vars

passed(s) == suite = s /\ run.status = "pass"

(* The summary in docs/assets names the manifest it was made of. *)
published == snapshot # NoSnapshot /\ snapshot.session = run.id

hashed_as(hashes, f, v) == f \in DOMAIN hashes /\ hashes[f] = v

(* A manifest that says pass is about the inputs it hashed: whatever a stage *)
(* of the session read, in whichever order it was edited, is that version.   *)
PassedAsTested ==
  run.status = "pass" => \A x \in reads : hashed_as(run.input_hashes, x[1], x[2])

(* Violated: so is what the session had loaded before it hashed the inputs,  *)
(* the verification modules and the test plan.                               *)
LoadedAsHashed ==
  run.status = "pass" => \A x \in loaded : hashed_as(run.input_hashes, x[1], x[2])

(* The hashes in docs/assets are those of the files the signoff read, though *)
(* they are taken again by the export, after the session.                    *)
PublishedAsTested ==
  published => \A x \in reads : hashed_as(snapshot.hashes, x[1], x[2])

(* A tool that was found and failed, or could not tell its version, or timed *)
(* out, ends in no passed manifest, whatever the other tool did; one that was*)
(* not found ends in no published summary.                                   *)
ToolsHonoured ==
  passed("signoff") =>
    \A t \in {"verilator", "yosys"} :
      LET check == report.checks[t]
      IN  /\ check.status # "FAIL"
          /\ \A i \in DOMAIN check.commands : check.commands[i] = "0"
          /\ published => check.commands # <<>>

(* A netlist is accepted where it is proper and only there, and the cells it *)
(* is said to have are those that can be reached from the top.               *)
NetlistCounted ==
  tool.step = "report" /\ report.checks["yosys"].commands # <<>> =>
    LET check == report.checks["yosys"]
        d     == check.files.netlist
        sum   == check.files.summary
    IN  /\ check.status = "PASS" => ~sum.failed
        /\ IF ~d.readable THEN sum.failed
           ELSE LET reached == Reached(d)
                IN  /\ ~sum.failed <=> Proper(d, reached)
                    /\ ~sum.failed => /\ sum.leaves = Count(reached, primitive)
                                      /\ sum.sequential = Count(reached, FlipFlop)
                                      /\ sum.instances = Count(reached, DOMAIN d.modules)

(* The summary that is published is that of the netlist whose hash stands    *)
(* beside it, and that netlist is the one the session synthesized.           *)
PublishedNetlist ==
  published =>
    /\ snapshot.files.summary = inspect_netlist(snapshot.files.netlist)
    /\ snapshot.files.netlist = report.checks["yosys"].files.netlist

(* After a showcase that passed, the waveforms in docs/assets are of one     *)
(* session and the metadata cites its manifest as it is on disk.             *)
AssetsLinked ==
  passed("showcase") /\ stage = "idle" =>
    \A a \in {"forwarding_waveform.svg", "byte_lane_waveform.svg", "showcase_evidence.json"} :
      a \in DOMAIN assets /\ assets[a] = [session |-> run.id, manifest |-> filed[run.id]]

(* A panel shows the first retirement and the first decision of its run, at  *)
(* the values the signals settled to, under a clock of one period and as the *)
(* trace says; and a run that left just that is not refused.                 *)
PanelsMeasured ==
  stage = "cases" =>
    \A side \in Sides :
      /\ LET case == Len(metadata.cases)
         IN  case > 0 => Shows(waves[name_of(case, side)], shows_of(case, side), metadata.cases[case][side])
      /\ LET case == Len(metadata.cases) + 1
         IN  case < 3 /\ sample(waves[name_of(case, side)], shows_of(case, side)).failed =>
                      ~Showable(waves[name_of(case, side)], shows_of(case, side))
==============================================================================
