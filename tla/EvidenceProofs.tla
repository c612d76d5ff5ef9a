----------------------------- MODULE EvidenceProofs -----------------------------
(* What passes and what is published is what was tested, for every           *)
(* repository, plan, set of netlists and order of commands.                  *)
EXTENDS Evidence, SequenceTheorems, TLAPS

Working   == {"unit", "directed", "random", "mutations", "copy", "mutant", "gates", "toolchain", "cases"}
Exporting == {"current", "matrix", "programs", "log", "tools", "netlist", "write"}
Filing    == {"metadata", "publish"}
Stages    == {"idle", "plan", "hash", "rehash"} \union Working \union Exporting \union Filing

(* The version of a file that a manifest tells of. *)
at(hashes, f) == IF f \in DOMAIN hashes THEN hashes[f] ELSE Absent

Recorded(f, v) == hashed_as(run.input_hashes, f, v)

(* It has been edited since: no hash taken from now on is the recorded one.  *)
Moved(f) == repo[f] # at(run.input_hashes, f)

Remaining == {InputFiles[i] : i \in listed}

-----------------------------------------------------------------------------
RunFields == {"id", "status", "input_hashes", "final_input_hashes", "source_input_rehash",
              "mutation_original_tree_rehash", "testplan", "tests", "results", "coverage", "original"}

Filed == {"none", "pass", "fail"}

Shapes ==
  /\ stage \in Stages
  /\ DOMAIN run = RunFields /\ run.id \in Nat
  /\ run.status \in {"running", "pass", "fail"}
  /\ filed \in Seq(Filed) /\ Len(filed) = run.id
  /\ stage \in Stages \ ({"idle"} \union Exporting) => run.id # 0
  /\ stage \in {"plan", "hash", "rehash"} \union Working => run.status = "running"
  /\ stage \in Exporting \union Filing => run.status = "pass"
  /\ stage \in Exporting => suite = "signoff"
  /\ stage \in Filing \union {"cases"} => suite # "signoff"

(* An edit leaves no trace but the versions a file has had. *)
RepoKept ==
  /\ repo = [f \in Files |-> repo[f]]
  /\ \A f \in Files : <<f, repo[f]>> \in past

Hash(f) ==
  IF f \in DOMAIN hashed THEN <<f, hashed[f]>> \in past /\ hashed[f] # Absent
  ELSE f \in Remaining \/ <<f, Absent>> \in past

Passing ==
  stage \in {"hash", "rehash", "current"} =>
    /\ listed \subseteq DOMAIN InputFiles
    /\ DOMAIN hashed \subseteq Files
    /\ \A f \in Files : Hash(f)

(* What was recorded is a version every file has had. *)
RecordKept ==
  stage \in Working \union {"rehash"} =>
    /\ DOMAIN run.input_hashes \subseteq Files
    /\ \A f \in Files : <<f, at(run.input_hashes, f)>> \in past
    /\ \A f \in DOMAIN run.input_hashes : run.input_hashes[f] # Absent

(* What was read is what was recorded, unless the file is no longer that.    *)
ReadsKept ==
  /\ stage \in {"plan", "hash"} => reads = {}
  /\ stage \in Working \union {"rehash"} =>
       \A x \in reads : x[1] \in Files /\ (Recorded(x[1], x[2]) \/ Moved(x[1]))

(* Then the second pass finds it out. *)
Told(f) == IF f \in DOMAIN run.input_hashes
             THEN f \in DOMAIN hashed => hashed[f] # run.input_hashes[f]
             ELSE f \in DOMAIN hashed \union Remaining

Rereading == stage = "rehash" => \A x \in reads : Recorded(x[1], x[2]) \/ Told(x[1])

(* The sources a toolchain stage is given. *)
SourcesKept ==
  stage = "toolchain" =>
    \A f \in DOMAIN report.sources : f \in Files /\ (f \in DOMAIN run.input_hashes \/ Moved(f))

-----------------------------------------------------------------------------
Honest(check) ==
  /\ check.status # "FAIL" => \A i \in DOMAIN check.commands : check.commands[i] = "0"
  /\ check.status = "PASS" => check.commands # <<>>
  /\ check.files.summary = inspect_netlist(check.files.netlist)

Steps == {"discover", "version", "paths", "launch", "run"}

checked == DOMAIN report.checks

ToolsKept ==
  /\ DOMAIN report = {"sources", "checks", "status"}
  /\ DOMAIN tool = {"name", "step", "backend", "commands"}
  /\ tool.commands \in Seq({"0"})
  /\ \A t \in checked : Honest(report.checks[t])
  /\ stage # "toolchain" => tool = NoTool
  /\ stage \in {"plan", "hash"} \union (Working \ {"toolchain"}) => report = NoReport
  /\ \/ tool = NoTool /\ (stage = "toolchain" => report = NoReport)
     \/ tool.step \in Steps /\ tool.name = "verilator" /\ checked = {}
     \/ tool.step \in Steps /\ tool.name = "yosys" /\ checked = {"verilator"}
     \/ tool.step = "report" /\ checked = {"verilator", "yosys"}

(* A signoff that is about to pass, or has, ran both tools and neither failed*)
BothRan ==
  suite = "signoff" /\ (stage = "rehash" \/ run.status = "pass") =>
    \A t \in {"verilator", "yosys"} : t \in checked /\ report.checks[t].status # "FAIL"

BothPassed == \A t \in {"verilator", "yosys"} : t \in checked /\ report.checks[t].status = "PASS"

-----------------------------------------------------------------------------
theirs == report.checks["yosys"].files

ExportKept ==
  /\ DOMAIN export = {"current", "files"}
  /\ DOMAIN export.files = {"netlist", "statistics", "summary"}
  /\ stage \in Exporting \ {"current"} => export.current = run.input_hashes
  /\ stage \in {"netlist", "write"} => BothPassed /\ export.files.netlist = theirs.netlist
  /\ stage = "write" => export.files.summary = theirs.summary

SnapshotKept ==
  /\ snapshot.session \in 0 .. run.id
  /\ published =>
       /\ passed("signoff") /\ BothPassed
       /\ snapshot.hashes = run.input_hashes
       /\ snapshot.files.netlist = theirs.netlist
       /\ snapshot.files.summary = theirs.summary

-----------------------------------------------------------------------------
Assets == {"forwarding_waveform.svg", "byte_lane_waveform.svg", "showcase_evidence.json"}
Entry  == [session |-> run.id, manifest |-> filed[run.id]]

Linked(a) == a \in DOMAIN assets /\ assets[a] = Entry

(* Every asset is up to date or still to be copied. *)
AssetsKept ==
  /\ DOMAIN metadata = {"cases", "session", "manifest"}
  /\ stage = "publish" =>
       /\ metadata.manifest = filed[run.id]
       /\ left \in Seq(Assets) /\ left # <<>>
       /\ \A a \in Assets : Linked(a) \/ \E i \in DOMAIN left : left[i] = a

EvidenceInv ==
  /\ Shapes /\ RepoKept /\ Passing /\ RecordKept /\ ReadsKept /\ Rereading /\ SourcesKept
  /\ ToolsKept /\ BothRan /\ ExportKept /\ SnapshotKept /\ AssetsKept
  /\ PassedAsTested /\ AssetsLinked

-----------------------------------------------------------------------------
(* The kinds of steps, as far as the session is concerned.                   *)
Late == {"idle"} \union Exporting \union Filing

Loses == run'.status = "fail" /\ filed' = [filed EXCEPT ![run.id] = "fail"]

SameRun == /\ run'.id = run.id /\ run'.input_hashes = run.input_hashes /\ DOMAIN run' = RunFields
           /\ UNCHANGED <<repo, past, suite>>

(* A step of a stage between the two passes, or of the showcase's cases. *)
Worked ==
  /\ stage \in Working /\ SameRun
  /\ reads \subseteq reads'
  /\ \A f \in DOMAIN report'.sources : f \in DOMAIN report.sources \/ present(f)
  /\ \/ tool = NoTool /\ UNCHANGED <<tool, report>> /\ (stage = "toolchain" => stage' = "idle")
     \/ stage = "toolchain" /\ stage' = stage /\ ToolStep
     \/ /\ stage = "toolchain" /\ stage' = "idle"
        /\ tool' = NoTool /\ report' = [report EXCEPT !.status = report'.status]
  /\ \/ /\ stage' \in Working /\ run'.status = "running" /\ UNCHANGED filed
        /\ stage' = "cases" => suite # "signoff"
        /\ \A x \in reads' \ reads :
             /\ x = <<x[1], repo[x[1]]>>
             /\ present(x[1]) \/ (stage = "toolchain" /\ x[1] \in DOMAIN report.sources)
     \/ stage' = "idle" /\ Loses

StartsRehash ==
  /\ stage \in {"toolchain", "cases"} /\ stage' = "rehash"
  /\ List /\ UNCHANGED <<repo, past, suite, run, reads, filed>>
  /\ tool' = NoTool
  /\ stage = "cases" => UNCHANGED report
  /\ stage = "toolchain" =>
       /\ tool.step = "report" /\ report' = [report EXCEPT !.status = report'.status]
       /\ \A t \in checked : report.checks[t].status # "FAIL"

(* A step of the exporter, or of the showcase once its session has ended.    *)
Elsewhere ==
  /\ stage \in Late /\ stage' \in Late
  /\ UNCHANGED <<repo, past, suite, run, reads, tool, report, filed>>
  /\ stage' \in Exporting => run.status = "pass" /\ suite = "signoff"
  /\ stage' \in Filing => stage \in Filing
  /\ stage' = "current" => List \/ (stage = "current" /\ HashOne)

CopyFails == stage = "publish" /\ stage' = "idle" /\ SameRun /\ Loses /\ UNCHANGED <<reads, tool, report>>

Still == UNCHANGED <<repoVars, passVars, suite, left, run, reads, tool, report, filed, stage, exportVars, showcaseVars>>


LEMMA Reading ==
  ASSUME NEW files, NEW x \in reading(files)
  PROVE  x = <<x[1], repo[x[1]]>> /\ x[1] \in files
BY DEF reading

(* A recorded run goes on with the session or ends it. *)
LEMMA Records ==
  ASSUME DOMAIN run = RunFields, NEW r, NEW bins, NEW next, NEW work, Record(r, bins, next, work)
  PROVE  /\ run'.id = run.id /\ run'.input_hashes = run.input_hashes /\ DOMAIN run' = RunFields
         /\ \/ stage' = next /\ run'.status = run.status /\ UNCHANGED filed
            \/ stage' = "idle" /\ Loses
<1> DEFINE recorded == [run EXCEPT !.results = Append(@, r), !.coverage = @ \union bins]
<1>1. /\ recorded.id = run.id /\ recorded.input_hashes = run.input_hashes /\ DOMAIN recorded = RunFields
      /\ recorded.status = run.status
  BY DEF RunFields
<1>2. /\ recorded.id = run.id /\ recorded.input_hashes = run.input_hashes /\ DOMAIN recorded = RunFields
      /\ recorded.status = run.status
      /\ IF r.status = "pass" THEN run' = recorded /\ Goto(next, work) /\ UNCHANGED filed
         ELSE /\ run' = [recorded EXCEPT !.status = "fail"]
              /\ filed' = [filed EXCEPT ![run.id] = "fail"]
              /\ Goto("idle", <<>>)
  BY <1>1 DEF Record
<1> HIDE DEF recorded
<1>. QED  BY <1>2 DEF Goto, Loses, RunFields

(* A session that raises ends as failed. *)
LEMMA Raised ==
  ASSUME DOMAIN run = RunFields, Raises
  PROVE  /\ run'.id = run.id /\ run'.input_hashes = run.input_hashes /\ DOMAIN run' = RunFields
         /\ stage' = "idle" /\ Loses
         /\ UNCHANGED <<repo, past, suite, listed, hashed, reads, tool, report>>
BY DEF Raises, Fails, Goto, Loses, RunFields, repoVars, passVars, toolVars

(* The second pass ends the session, as passed only if it found what was     *)
(* recorded. *)
LEMMA Enforced ==
  ASSUME DOMAIN run = RunFields, Enforce
  PROVE  /\ stage = "rehash" /\ listed = {} /\ SameRun /\ UNCHANGED <<reads, tool, report>>
         /\ \/ /\ same_inputs(run.input_hashes, hashed) /\ run'.status = "pass"
               /\ filed' = [filed EXCEPT ![run.id] = "pass"]
               /\ stage' = IF suite = "signoff" THEN "idle" ELSE "metadata"
            \/ Loses /\ stage' = "idle"
<1> DEFINE rehashed == [run EXCEPT !.final_input_hashes  = hashed,
                                  !.source_input_rehash = rehash(run.input_hashes, hashed)]
<1>1. DOMAIN rehashed = RunFields /\ rehashed.id = run.id /\ rehashed.input_hashes = run.input_hashes
  BY DEF RunFields
<1>2. /\ stage = "rehash" /\ listed = {} /\ UNCHANGED <<repo, past, suite, reads, tool, report>>
      /\ IF same_inputs(run.input_hashes, hashed)
           THEN /\ run' = [rehashed EXCEPT !.status = "pass"]
                /\ filed' = [filed EXCEPT ![run.id] = "pass"]
                /\ Goto(IF suite = "signoff" THEN "idle" ELSE "metadata", <<>>)
           ELSE /\ run' = [rehashed EXCEPT !.status = "fail"]
                /\ filed' = [filed EXCEPT ![run.id] = "fail"]
                /\ Goto("idle", <<>>)
  BY DEF Enforce, Hashed, repoVars, toolVars
<1> HIDE DEF rehashed
<1>. QED  BY <1>1, <1>2 DEF RunFields, SameRun, Loses, Goto

(* A simulation reads files that are there. *)
LEMMA Simulated ==
  ASSUME DOMAIN run = RunFields,
         NEW kind, NEW name, NEW key, NEW programs, NEW wanted, NEW next, NEW work,
         Simulate(kind, name, key, programs, wanted, next, work),
         \A f \in programs : present(f)
  PROVE  /\ run'.id = run.id /\ run'.input_hashes = run.input_hashes /\ DOMAIN run' = RunFields
         /\ \/ stage' = next /\ run'.status = run.status /\ UNCHANGED filed
            \/ stage' = "idle" /\ Loses
         /\ UNCHANGED <<repo, past, suite, listed, hashed, tool, report>>
         /\ reads \subseteq reads'
         /\ \A x \in reads' \ reads : x = <<x[1], repo[x[1]]>> /\ present(x[1])
<1>1. PICK r, bins : Record(r, bins, next, work)
  BY DEF Simulate
<1>2. /\ UNCHANGED <<repo, past, suite, listed, hashed, tool, report>>
      /\ reads' = reads \union reading(programs)
                        \union (IF key \in compiled THEN {} ELSE reading(CORE_SOURCES))
      /\ key \notin compiled => \A f \in CORE_SOURCES : present(f)
  BY DEF Simulate, buildable, repoVars, passVars
<1>3. \A x \in reads' \ reads : x = <<x[1], repo[x[1]]>> /\ present(x[1])
  BY <1>2, Reading
<1>. QED  BY <1>1, <1>2, <1>3, Records

(* What a step of the toolchain stage reads are sources it was given. *)
LEMMA ToolReads ==
  ASSUME ToolStep, DOMAIN report = {"sources", "checks", "status"}
  PROVE  /\ DOMAIN report' = {"sources", "checks", "status"}
         /\ \/ report'.sources = report.sources
            \/ \A f \in DOMAIN report'.sources : f \in CoreFiles /\ present(f)
         /\ reads \subseteq reads'
         /\ \A x \in reads' \ reads : x = <<x[1], repo[x[1]]>> /\ x[1] \in DOMAIN report.sources
<1>1. ASSUME NEW status, NEW commands, NEW files, Conclude(status, commands, files)
      PROVE  DOMAIN report' = {"sources", "checks", "status"} /\ report'.sources = report.sources
  BY <1>1 DEF Conclude
<1>2. CASE StartToolchain
  <2>1. /\ report' = [NoReport EXCEPT !.sources = [f \in {g \in CoreFiles : present(g)} |-> repo[f]]]
        /\ UNCHANGED reads
    BY <1>2 DEF StartToolchain
  <2>2. /\ DOMAIN report' = {"sources", "checks", "status"}
        /\ report'.sources = [f \in {g \in CoreFiles : present(g)} |-> repo[f]]
    BY <2>1 DEF NoReport
  <2>. QED  BY <2>1, <2>2
<1>3. CASE Discover
  BY <1>1, <1>3 DEF Discover
<1>4. CASE Version
  BY <1>1, <1>4 DEF Version
<1>5. CASE ConvertPath
  BY <1>1, <1>5 DEF ConvertPath
<1>6. CASE Launch
  BY <1>6, Reading DEF Launch
<1>7. CASE Lint
  BY <1>1, <1>7 DEF Lint
<1>8. CASE Synthesize
  BY <1>1, <1>8 DEF Synthesize
<1>. QED  BY <1>2, <1>3, <1>4, <1>5, <1>6, <1>7, <1>8 DEF ToolStep

LEMMA Kinds ==
  ASSUME Shapes, ToolsKept, [Next]_vars
  PROVE  \/ Import \/ LoadPlan \/ HashInput \/ HashFails \/ Open \/ Enforce
         \/ Worked \/ StartsRehash \/ CopyFails \/ EditInputs \/ Still
         \/ Elsewhere /\ (WriteMetadata \/ CopyAsset \/ Export)
<1> USE DEF Working
<1>1. /\ DOMAIN run = RunFields
      /\ stage \in Working => run.status = "running"
      /\ stage # "toolchain" => tool = NoTool
  BY DEF Shapes, ToolsKept
<1>1a. ASSUME NEW kind, NEW name, NEW files, NEW work, Bench(kind, name, files, work),
              stage \in Working \ {"toolchain", "cases"}
       PROVE  Worked
  <2>1. PICK ok \in BOOLEAN :
          /\ ok => \A f \in files : present(f)
          /\ Record(result(kind, name, ok, "none", <<>>), {}, stage, work)
    BY <1>1a DEF Bench
  <2>2. /\ reads' = reads \union reading(files)
        /\ UNCHANGED <<repo, past, suite, tool, report>>
    BY <1>1a DEF Bench, repoVars
  <2>3. /\ run'.id = run.id /\ run'.input_hashes = run.input_hashes /\ DOMAIN run' = RunFields
        /\ \/ stage' = stage /\ run'.status = run.status /\ UNCHANGED filed
           \/ stage' = "idle" /\ Loses
    BY <1>1, <2>1, Records
  <2>4. stage' = stage => ok
    BY <1>1a, <2>1 DEF Record, result, Goto
  <2>5. \A x \in reads' \ reads : x = <<x[1], repo[x[1]]>> /\ x[1] \in files
    BY <2>2, Reading
  <2>. QED  BY <1>1, <1>1a, <2>1, <2>2, <2>3, <2>4, <2>5 DEF Worked, SameRun
<1>1b. ASSUME NEW kind, NEW name, NEW key, NEW programs, NEW wanted, NEW next \in Working \ {"cases"}, NEW work,
              Simulate(kind, name, key, programs, wanted, next, work),
              \A f \in programs : present(f), stage \in Working \ {"toolchain"}
       PROVE  Worked
  BY <1>1, <1>1b, Simulated DEF Worked, SameRun
<1>1c. ASSUME Raises, stage \in Working, tool = NoTool PROVE Worked
  BY <1>1, <1>1c, Raised DEF Worked, SameRun
<1>2. ASSUME RunDirected PROVE Worked
  BY <1>1, <1>2, <1>1b, <1>1c DEF RunDirected
<1>2a. ASSUME RunUnit PROVE Worked
  BY <1>1a, <1>2a DEF RunUnit
<1>2b. ASSUME RunProtocol PROVE Worked
  BY <1>1a, <1>2b DEF RunProtocol
<1>2c. ASSUME RunProtocolNegative PROVE Worked
  BY <1>1a, <1>2c DEF RunProtocolNegative
<1>2d. ASSUME UnitsDone PROVE Worked
  BY <1>1, <1>2d DEF UnitsDone, Turn, Goto, Worked, SameRun, repoVars, toolVars
<1>3. ASSUME DirectedDone PROVE Worked
  BY <1>1, <1>3 DEF DirectedDone, Turn, Goto, Worked, SameRun, repoVars, toolVars
<1>4. ASSUME RunRandom PROVE Worked
  BY <1>1, <1>4, <1>1b, <1>1c DEF RunRandom
<1>5. ASSUME StartMutations PROVE Worked
  <2>1. CASE Raises
    BY <1>1, <1>5, <2>1, <1>1c DEF StartMutations
  <2>2. CASE ~Raises
    BY <1>5, <2>2, <1>1 DEF StartMutations, Turn, Goto, Worked, SameRun, repoVars, toolVars, RunFields
  <2>. QED  BY <2>1, <2>2
<1>6. ASSUME CopySources PROVE Worked
  <2>1. CASE Raises
    BY <1>1, <1>6, <2>1, <1>1c DEF CopySources
  <2>2. CASE ~Raises
    <3>1. /\ \A f \in CORE_SOURCES : present(f)
          /\ reads' = reads \union reading(CORE_SOURCES)
          /\ stage = "copy" /\ stage' = "mutant" /\ UNCHANGED <<repo, past, tool, report, suite, run, filed>>
      BY <1>6, <2>2 DEF CopySources, Goto, repoVars
    <3>2. \A x \in reads' \ reads : x = <<x[1], repo[x[1]]>> /\ x[1] \in CORE_SOURCES
      BY <3>1, Reading
    <3>. QED  BY <1>1, <3>1, <3>2 DEF Worked, SameRun
  <2>. QED  BY <2>1, <2>2
<1>7. ASSUME RunMutation PROVE Worked
  BY <1>1, <1>7, <1>1b, <1>1c DEF RunMutation
<1>8. ASSUME MutationsDone PROVE Worked
  <2>1. CASE Raises
    BY <1>1, <1>8, <2>1, <1>1c DEF MutationsDone
  <2>2. CASE ~Raises
    BY <1>8, <2>2, <1>1 DEF MutationsDone, Turn, Goto, Worked, SameRun, repoVars, toolVars, RunFields
  <2>. QED  BY <2>1, <2>2
<1>9. ASSUME Gates PROVE Worked
  <2>1. CASE Raises
    BY <1>1, <1>9, <2>1, <1>1c DEF Gates
  <2>2. CASE ~Raises
    BY <1>9, <2>2, <1>1 DEF Gates, Turn, Goto, Worked, SameRun, repoVars, toolVars
  <2>. QED  BY <2>1, <2>2
<1>10. ASSUME NoSources PROVE Worked
  BY <1>10, <1>1c DEF NoSources
<1>11. ASSUME Toolchain PROVE Worked
  <2>1. /\ stage = "toolchain" /\ ToolStep
        /\ UNCHANGED <<stage, repo, past, suite, run, filed>>
    BY <1>11 DEF Toolchain, repoVars, runnerVars
  <2>. QED  BY <1>1, <2>1, ToolReads DEF Worked, SameRun, ToolsKept
<1>12. ASSUME ToolchainDone PROVE Worked \/ StartsRehash
  <2> DEFINE status == overall({report.checks[t].status : t \in DOMAIN report.checks})
  <2>1. /\ stage = "toolchain" /\ tool.step = "report"
        /\ report' = [report EXCEPT !.status = status] /\ tool' = NoTool
        /\ UNCHANGED <<repo, past, reads, suite>>
        /\ IF status = "FAIL" THEN Fails
           ELSE Goto("rehash", <<>>) /\ List /\ UNCHANGED <<run, filed>>
    BY <1>12 DEF ToolchainDone, repoVars
  <2>2. report'.sources = report.sources /\ report'.status = status
    BY <2>1 DEF ToolsKept
  <2>3. CASE status = "FAIL"
    BY <1>1, <2>1, <2>2, <2>3 DEF Worked, SameRun, Fails, Goto, Loses, RunFields
  <2>4. CASE status # "FAIL"
    <3>1. \A t \in checked : report.checks[t].status # "FAIL"
      BY <2>4 DEF overall, checked
    <3>. QED  BY <2>1, <2>2, <2>4, <3>1 DEF StartsRehash, Goto
  <2>. QED  BY <2>3, <2>4
<1>13. ASSUME MakeCase PROVE Worked
  <2>1. /\ stage = "cases"
        /\ Raises \/ UNCHANGED sessionVars
    BY <1>13 DEF MakeCase
  <2>2. CASE UNCHANGED sessionVars
    BY <1>1, <2>1, <2>2 DEF sessionVars, repoVars, runnerVars, toolVars, Worked, SameRun, Shapes, Filing
  <2>. QED  BY <1>1, <1>1c, <2>1, <2>2
<1>14. ASSUME CasesDone PROVE StartsRehash
  BY <1>1, <1>14 DEF CasesDone, StartsRehash, Goto, repoVars, toolVars
<1>15. ASSUME WriteMetadata PROVE Elsewhere
  BY <1>15 DEF WriteMetadata, Elsewhere, Goto, repoVars, toolVars, Late, Filing, Exporting
<1>16. ASSUME CopyAsset PROVE Elsewhere \/ CopyFails
  <2>1. CASE Raises
    BY <1>1, <1>16, <2>1, Raised DEF CopyAsset, CopyFails, SameRun
  <2>2. CASE ~Raises
    BY <1>16, <2>2 DEF CopyAsset, Elsewhere, Goto, repoVars, toolVars, Late, Filing, Exporting
  <2>. QED  BY <2>1, <2>2
<1>17. ASSUME ReadManifest PROVE Elsewhere
  BY <1>17 DEF ReadManifest, Elsewhere, Goto, repoVars, toolVars, Late, Filing, Exporting
<1>18. ASSUME HashCurrent PROVE Elsewhere
  BY <1>18 DEF HashCurrent, Stops, Elsewhere, Goto, repoVars, toolVars, Late, Filing, Exporting, Shapes
<1>19. ASSUME NEW from \in Exporting, NEW to \in Exporting \ {"current"}, NEW ok, NEW gathered, ExportStep(from, to, ok, gathered)
       PROVE  Elsewhere
  <2>1. /\ stage \in Exporting /\ stage' \in (Exporting \ {"current"}) \union {"idle"}
        /\ UNCHANGED <<repo, past, suite, run, reads, tool, report, filed>>
    BY <1>19 DEF ExportStep, Stops, Goto, repoVars, toolVars
  <2>. QED  BY <2>1 DEF Elsewhere, Late, Filing, Exporting, Shapes
<1>20. ASSUME CompareInputs \/ CheckMatrix \/ CheckPrograms \/ CheckUnitLog \/ CheckTools \/ InspectAgain
       PROVE  Elsewhere
  <2>1. {"current", "matrix", "programs", "log", "tools", "netlist", "write"} = Exporting
    BY DEF Exporting
  <2>. QED  BY <1>19, <1>20, <2>1 DEF CompareInputs, CheckMatrix, CheckPrograms, CheckUnitLog, CheckTools, InspectAgain
<1>21. ASSUME WriteSnapshot PROVE Elsewhere
  BY <1>21 DEF WriteSnapshot, Elsewhere, Goto, repoVars, toolVars, Late, Filing, Exporting
<1>22. ASSUME Alter PROVE Still
  BY <1>22 DEF Alter, Still, runnerVars
<1>23. ASSUME UNCHANGED vars PROVE Still
  BY <1>23 DEF vars, sessionVars, Still, runnerVars, toolVars
<1>24. CASE Session
  BY <1>24, <1>2, <1>2a, <1>2b, <1>2c, <1>2d, <1>3, <1>4, <1>5, <1>6, <1>7, <1>8, <1>9, <1>10, <1>11, <1>12 DEF Session, RunnerStep
<1>25. CASE Showcase
  BY <1>25, <1>13, <1>14, <1>15, <1>16 DEF Showcase
<1>26. CASE Export
  BY <1>26, <1>17, <1>18, <1>20, <1>21 DEF Export
<1>. QED  BY <1>22, <1>23, <1>24, <1>25, <1>26 DEF Next, Finished

-----------------------------------------------------------------------------
LEMMA Files_write ==
  ASSUME Shapes, NEW status \in {"pass", "fail"}, run.id # 0, filed' = [filed EXCEPT ![run.id] = status]
  PROVE  filed' \in Seq(Filed) /\ Len(filed') = run.id /\ filed'[run.id] = status
<1>1. run.id \in 1 .. Len(filed) /\ filed \in Seq(Filed)
  BY DEF Shapes
<1>2. filed' \in Seq(Filed) /\ Len(filed') = Len(filed) /\ filed'[run.id] = status
  <2>1. status \in Filed
    BY DEF Filed
  <2>. QED  BY <1>1, <2>1, ExceptSeq
<1>. QED  BY <1>2 DEF Shapes

LEMMA ShapesStep ==
  ASSUME Shapes, ToolsKept, [Next]_vars
  PROVE  Shapes'
<1> USE DEF Stages, Working, Exporting, Filing
<1>1. CASE Import
  <2>1. /\ run' = NoRun(run.id + 1) /\ filed' = Append(filed, "none") /\ stage' \in {"plan", "idle"}
    BY <1>1 DEF Import, Goto
  <2>2. run' = [ id |-> run.id + 1, status |-> "running", input_hashes |-> <<>>, final_input_hashes |-> <<>>,
                 source_input_rehash |-> <<>>, mutation_original_tree_rehash |-> "none",
                 testplan |-> Absent, tests |-> <<>>, results |-> <<>>, coverage |-> {}, original |-> <<>> ]
    BY <2>1 DEF NoRun
  <2>0. run.id + 1 \in Nat /\ run.id + 1 # 0 /\ Len(filed) = run.id /\ filed \in Seq(Filed)
    BY DEF Shapes
  <2>3. /\ DOMAIN run' = RunFields /\ run'.id = run.id + 1 /\ run'.status = "running"
    BY <2>2 DEF RunFields
  <2>4. filed' \in Seq(Filed) /\ Len(filed') = run.id + 1
    <3>1. "none" \in Filed
      BY DEF Filed
    <3>. QED  BY <2>0, <2>1, <3>1, AppendProperties
  <2>. QED  BY <2>0, <2>1, <2>3, <2>4 DEF Shapes
<1>2. CASE LoadPlan
  <2>1. /\ stage = "plan" /\ UNCHANGED <<filed, suite>>
        /\ \/ run' = [run EXCEPT !.tests = plan_tests[repo[plan]]] /\ stage' = "hash"
           \/ run' = run /\ stage' = "idle"
    BY <1>2 DEF LoadPlan, Goto
  <2>2. DOMAIN run' = RunFields /\ run'.id = run.id /\ run'.status = run.status
    BY <2>1 DEF Shapes, RunFields
  <2>. QED  BY <2>1, <2>2 DEF Shapes
<1>3. CASE HashInput
  BY <1>3 DEF HashInput, runnerVars, Shapes
<1>4. CASE HashFails
  <2>1. CASE stage = "hash"
    BY <1>4, <2>1 DEF HashFails, ConfigurationFail, Goto, Shapes
  <2>2. CASE stage = "rehash"
    <3>1. /\ run' = [run EXCEPT !.status = "fail"] /\ filed' = [filed EXCEPT ![run.id] = "fail"]
          /\ stage' = "idle"
      BY <1>4, <2>2 DEF HashFails, Fails, Goto
    <3>2. DOMAIN run' = RunFields /\ run'.id = run.id /\ run'.status = "fail"
      BY <3>1 DEF Shapes, RunFields
    <3>3. run.id # 0
      BY <2>2 DEF Shapes
    <3>. QED  BY <3>1, <3>2, <3>3, Files_write DEF Shapes
  <2>. QED  BY <1>4, <2>1, <2>2 DEF HashFails
<1>5. CASE Open
  <2>1. /\ stage = "hash" /\ UNCHANGED <<filed, suite>>
        /\ \/ /\ run' = [run EXCEPT !.input_hashes = hashed, !.testplan = repo[plan]]
              /\ stage' \in {"unit", "directed"}
           \/ run' = run /\ stage' = "idle"
    BY <1>5 DEF Open, Goto, ConfigurationFail
  <2>2. DOMAIN run' = RunFields /\ run'.id = run.id /\ run'.status = run.status
    BY <2>1 DEF Shapes, RunFields
  <2>. QED  BY <2>1, <2>2 DEF Shapes
<1>6. CASE Enforce
  <2>1. DOMAIN run = RunFields /\ run.id # 0 /\ run.id \in Nat
    BY <1>6 DEF Shapes, Enforce
  <2>2. /\ SameRun
        /\ \/ /\ run'.status = "pass" /\ filed' = [filed EXCEPT ![run.id] = "pass"]
              /\ stage' = IF suite = "signoff" THEN "idle" ELSE "metadata"
           \/ Loses /\ stage' = "idle"
    BY <1>6, <2>1, Enforced
  <2>. QED  BY <2>1, <2>2, Files_write DEF Shapes, SameRun, Loses
<1>7. CASE Worked
  <2>1. run.id # 0
    BY <1>7 DEF Worked, Shapes
  <2>2. CASE stage' = "idle" /\ Loses
    BY <1>7, <2>1, <2>2, Files_write DEF Worked, SameRun, Loses, Shapes
  <2>3. CASE stage' \in Working /\ UNCHANGED filed
    BY <1>7, <2>1, <2>3 DEF Worked, SameRun, Loses, Shapes
  <2>. QED  BY <1>7, <2>2, <2>3 DEF Worked
<1>8. CASE StartsRehash
  BY <1>8 DEF StartsRehash, Shapes
<1>9. CASE Elsewhere
  BY <1>9 DEF Elsewhere, Late, Shapes
<1>10. CASE CopyFails
  <2>1. run.id # 0
    BY <1>10 DEF CopyFails, Shapes
  <2>. QED  BY <1>10, <2>1, Files_write DEF CopyFails, SameRun, Loses, Shapes
<1>11. CASE EditInputs \/ Still
  BY <1>11 DEF EditInputs, Still, runnerVars, Shapes
<1>. QED  BY Kinds, <1>1, <1>2, <1>3, <1>4, <1>5, <1>6, <1>7, <1>8, <1>9, <1>10, <1>11

LEMMA RepoStep ==
  ASSUME Shapes, ToolsKept, RepoKept, [Next]_vars
  PROVE  /\ RepoKept' /\ past \subseteq past'
         /\ \A f \in Files : \A v : <<f, v>> \in past /\ repo[f] # v => repo'[f] # v
         /\ ~EditInputs => UNCHANGED <<repo, past>>
<1>1. CASE EditInputs
  <2>1. PICK f \in Files, v \in {Absent, Edits + 1} :
          <<f, v>> \notin past /\ repo' = [repo EXCEPT ![f] = v] /\ past' = past \union {<<f, v>>}
    BY <1>1 DEF EditInputs, Edit
  <2>. QED  BY <1>1, <2>1 DEF RepoKept
<1>2. CASE ~EditInputs
  <2>1. UNCHANGED <<repo, past>>
    <3>1. CASE Import \/ LoadPlan \/ HashInput \/ HashFails \/ Open \/ Enforce
      BY <3>1 DEF Import, LoadPlan, HashInput, HashFails, Open, Enforce, repoVars
    <3>2. CASE Worked \/ StartsRehash \/ Elsewhere \/ CopyFails \/ Still
      BY <3>2 DEF Worked, StartsRehash, Elsewhere, CopyFails, Still, SameRun, repoVars
    <3>. QED  BY <1>2, <3>1, <3>2, Kinds
  <2>. QED  BY <1>2, <2>1 DEF RepoKept
<1>. QED  BY <1>1, <1>2

-----------------------------------------------------------------------------
(* The passes over the inputs.                                               *)
LEMMA Begins ==
  ASSUME RepoKept, List, UNCHANGED <<repo, past>>
  PROVE  Passing'
<1>1. /\ listed' = {i \in DOMAIN InputFiles : present(InputFiles[i])} /\ hashed' = <<>>
  BY DEF List, verification_inputs
<1>2. DOMAIN hashed' = {}
  BY <1>1
<1>3. ASSUME NEW f \in Files PROVE f \in Remaining' \/ <<f, Absent>> \in past
  <2>1. PICK i \in DOMAIN InputFiles : InputFiles[i] = f
    BY DEF Files
  <2>. QED  BY <1>1, <2>1 DEF RepoKept, present, Remaining
<1>. QED  BY <1>1, <1>2, <1>3 DEF Passing, Hash

LEMMA Hashes ==
  ASSUME HashOne
  PROVE  \E i \in listed :
           /\ listed' = listed \ {i} /\ present(InputFiles[i])
           /\ DOMAIN hashed' = DOMAIN hashed \union {InputFiles[i]}
           /\ hashed'[InputFiles[i]] = repo[InputFiles[i]]
           /\ \A f \in DOMAIN hashed : f # InputFiles[i] => hashed'[f] = hashed[f]
BY DEF HashOne, put

LEMMA Continues ==
  ASSUME RepoKept, Passing, stage \in {"hash", "rehash", "current"}, HashOne, UNCHANGED <<repo, past>>
  PROVE  Passing'
<1>1. PICK i \in listed :
        /\ listed' = listed \ {i} /\ present(InputFiles[i])
        /\ DOMAIN hashed' = DOMAIN hashed \union {InputFiles[i]}
        /\ hashed'[InputFiles[i]] = repo[InputFiles[i]]
        /\ \A f \in DOMAIN hashed : f # InputFiles[i] => hashed'[f] = hashed[f]
  BY Hashes
<1>2. InputFiles[i] \in Files /\ DOMAIN hashed' \subseteq Files /\ listed' \subseteq DOMAIN InputFiles
  BY <1>1 DEF Passing, Files
<1>3. ASSUME NEW f \in Files PROVE Hash(f)'
  <2>1. CASE f = InputFiles[i]
    BY <1>1, <2>1 DEF Hash, RepoKept, present
  <2>2. CASE f # InputFiles[i] /\ f \in DOMAIN hashed
    BY <1>1, <2>2 DEF Hash, Passing
  <2>3. CASE f # InputFiles[i] /\ f \notin DOMAIN hashed
    <3>1. f \in Remaining => f \in Remaining'
      BY <1>1, <2>3 DEF Remaining
    <3>. QED  BY <1>1, <2>3, <3>1 DEF Hash, Passing
  <2>. QED  BY <2>1, <2>2, <2>3
<1>. QED  BY <1>2, <1>3 DEF Passing

LEMMA PassingStep ==
  ASSUME Shapes, ToolsKept, RepoKept, Passing, [Next]_vars
  PROVE  Passing'
<1> DEFINE Idle == stage' \notin {"hash", "rehash", "current"}
<1>1. CASE Import
  BY <1>1 DEF Import, Goto, Passing
<1>2. CASE LoadPlan
  <2>1. UNCHANGED <<repo, past>> /\ (List \/ stage' = "idle")
    BY <1>2 DEF LoadPlan, Goto, repoVars
  <2>. QED  BY <2>1, Begins DEF Passing
<1>3. CASE HashInput
  BY <1>3, Continues DEF HashInput, repoVars
<1>4. CASE HashFails \/ Open \/ Enforce \/ CopyFails
  BY <1>4 DEF HashFails, ConfigurationFail, Fails, Open, Enforce, CopyFails, Goto, Passing
<1>5. CASE Worked
  BY <1>5 DEF Worked, Working, Passing
<1>6. CASE StartsRehash
  BY <1>6, Begins DEF StartsRehash
<1>7. CASE Elsewhere
  <2>1. CASE stage' # "current"
    BY <1>7, <2>1 DEF Elsewhere, Late, Exporting, Filing, Passing
  <2>2. CASE stage' = "current"
    BY <1>7, <2>2, Begins, Continues DEF Elsewhere
  <2>. QED  BY <2>1, <2>2
<1>8. CASE EditInputs
  <2>1. UNCHANGED <<listed, hashed, stage>> /\ past \subseteq past'
    BY <1>8, RepoStep DEF EditInputs, Edit, passVars
  <2>. QED  BY <2>1 DEF Passing, Hash, Remaining
<1>9. CASE Still
  BY <1>9 DEF Still, repoVars, passVars, Passing, Hash, Remaining
<1>. QED  BY Kinds, <1>1, <1>2, <1>3, <1>4, <1>5, <1>6, <1>7, <1>8, <1>9

-----------------------------------------------------------------------------
(* What was recorded, and what was read since.                               *)
LEMMA Opened ==
  ASSUME Shapes, RepoKept, Passing, Open
  PROVE  /\ UNCHANGED <<repo, past, reads, tool, report, suite>> /\ stage = "hash"
         /\ \/ stage' = "idle" /\ UNCHANGED run
            \/ /\ stage' \in {"unit", "directed"} /\ run'.input_hashes = hashed
               /\ run'.status = run.status
               /\ DOMAIN hashed \subseteq Files
               /\ \A f \in Files : <<f, at(hashed, f)>> \in past
               /\ \A f \in DOMAIN hashed : hashed[f] # Absent
<1>1. /\ UNCHANGED <<repo, past, reads, tool, report, suite>> /\ stage = "hash" /\ listed = {}
      /\ \/ stage' = "idle" /\ UNCHANGED run
         \/ /\ run' = [run EXCEPT !.input_hashes = hashed, !.testplan = repo[plan]]
            /\ stage' \in {"unit", "directed"}
  BY DEF Open, Hashed, Goto, ConfigurationFail, repoVars, toolVars
<1>2. /\ DOMAIN hashed \subseteq Files
      /\ \A f \in Files : Hash(f)
      /\ Remaining = {}
  BY <1>1 DEF Passing, Remaining
<1>. QED  BY <1>1, <1>2 DEF Hash, at, Shapes, RunFields

(* Other steps leave the record as it was, or leave the session.             *)
LEMMA SameRecord ==
  ASSUME Shapes, ToolsKept, [Next]_vars, ~Open, stage' \in Working \union {"rehash"}
  PROVE  /\ stage \in Working \union {"rehash"} /\ run'.input_hashes = run.input_hashes
         /\ stage' # "rehash" => stage # "rehash"
<1> USE DEF Working, Exporting, Filing, Late
<1>1. CASE Import \/ LoadPlan \/ HashFails \/ Enforce \/ CopyFails
  BY <1>1 DEF Import, LoadPlan, HashFails, ConfigurationFail, Fails, Enforce, CopyFails, Goto
<1>2. CASE HashInput \/ EditInputs \/ Still
  BY <1>2 DEF HashInput, EditInputs, Still, runnerVars
<1>3. CASE Worked \/ StartsRehash
  BY <1>3 DEF Worked, SameRun, StartsRehash
<1>4. CASE Elsewhere
  BY <1>4 DEF Elsewhere
<1>. QED  BY Kinds, <1>1, <1>2, <1>3, <1>4

LEMMA RecordStep ==
  ASSUME Shapes, ToolsKept, RepoKept, Passing, RecordKept, [Next]_vars
  PROVE  RecordKept'
<1>1. CASE Open
  BY <1>1, Opened DEF RecordKept, at, Working
<1>2. CASE ~Open
  <2>1. past \subseteq past'
    BY RepoStep
  <2>. QED  BY <1>2, <2>1, SameRecord DEF RecordKept, at
<1>. QED  BY <1>1, <1>2

(* A file that has moved on does not come back.                              *)
LEMMA MovesOn ==
  ASSUME Shapes, ToolsKept, RepoKept, RecordKept, [Next]_vars, ~Open, stage' \in Working \union {"rehash"},
         NEW f \in Files, Moved(f)
  PROVE  Moved(f)'
<1>1. /\ stage \in Working \union {"rehash"} /\ run'.input_hashes = run.input_hashes
  BY SameRecord
<1>2. <<f, at(run.input_hashes, f)>> \in past
  BY <1>1 DEF RecordKept
<1>. QED  BY <1>1, <1>2, RepoStep DEF Moved, at

(* A file that is there is as recorded or has moved on.                      *)
LEMMA ReadNow ==
  ASSUME RecordKept, stage \in Working, NEW f, present(f)
  PROVE  f \in Files /\ (Recorded(f, repo[f]) \/ Moved(f)) /\ (f \in DOMAIN run.input_hashes \/ Moved(f))
BY DEF RecordKept, present, Recorded, hashed_as, Moved, at

LEMMA ReadsStep ==
  ASSUME Shapes, ToolsKept, RepoKept, Passing, RecordKept, ReadsKept, SourcesKept, [Next]_vars
  PROVE  ReadsKept'
<1>1. CASE Open
  BY <1>1, Opened DEF ReadsKept, Working
<1>2. CASE Import
  BY <1>2 DEF Import, Goto, ReadsKept, Working
<1>3. CASE LoadPlan \/ HashInput \/ HashFails
  <2>1. UNCHANGED reads /\ (stage' = stage \/ stage' = "idle" \/ (stage = "plan" /\ stage' = "hash"))
    BY <1>3 DEF LoadPlan, HashInput, HashFails, ConfigurationFail, Fails, Goto, toolVars, runnerVars
  <2>2. stage' \in Working \union {"rehash"} => run' = run /\ repo' = repo
    BY <1>3 DEF LoadPlan, HashInput, HashFails, ConfigurationFail, Fails, Goto, toolVars, runnerVars, repoVars, Working
  <2>. QED  BY <2>1, <2>2 DEF ReadsKept, Recorded, Moved, at, hashed_as, Working
<1>4. CASE Worked
  <2>1. ASSUME stage' \in Working, NEW x \in reads'
        PROVE  x[1] \in Files /\ (Recorded(x[1], x[2])' \/ Moved(x[1])')
    <3>1. x[1] \in Files /\ (Recorded(x[1], x[2]) \/ Moved(x[1]))
      <4>1. CASE x \in reads
        BY <1>4, <4>1 DEF Worked, ReadsKept
      <4>2. CASE x \notin reads
        <5>1. /\ x = <<x[1], repo[x[1]]>>
              /\ present(x[1]) \/ (stage = "toolchain" /\ x[1] \in DOMAIN report.sources)
          BY <1>4, <2>1, <4>2 DEF Worked, Working
        <5>2. CASE present(x[1])
          BY <1>4, <5>1, <5>2, ReadNow DEF Worked
        <5>3. CASE stage = "toolchain" /\ x[1] \in DOMAIN report.sources
          <6>1. x[1] \in Files /\ (x[1] \in DOMAIN run.input_hashes \/ Moved(x[1]))
            BY <5>3 DEF SourcesKept
          <6>. QED  BY <5>1, <6>1 DEF Moved, Recorded, hashed_as, at
        <5>. QED  BY <5>1, <5>2, <5>3
      <4>. QED  BY <4>1, <4>2
    <3>. QED  BY <1>4, <3>1 DEF Worked, SameRun, Recorded, Moved, at, hashed_as
  <2>. QED  BY <1>4, <2>1 DEF ReadsKept, Worked, Working
<1>5. CASE StartsRehash
  BY <1>5 DEF StartsRehash, ReadsKept, Working, Recorded, Moved, at, hashed_as
<1>6. CASE Elsewhere \/ CopyFails \/ Enforce
  BY <1>6 DEF Elsewhere, CopyFails, Enforce, Goto, ReadsKept, Late, Exporting, Filing, Working
<1>7. CASE EditInputs
  <2>1. UNCHANGED <<stage, reads, run>> /\ ~Open
    <3>1. UNCHANGED <<stage, reads, run>> /\ repo' # repo
      BY <1>7 DEF EditInputs, Edit, toolVars, runnerVars, RepoKept
    <3>. QED  BY <3>1 DEF Open, repoVars
  <2>2. \A x \in reads : x[1] \in Files /\ Moved(x[1]) /\ stage \in Working \union {"rehash"} => Moved(x[1])'
    BY <2>1, MovesOn
  <2>. QED  BY <2>1, <2>2 DEF ReadsKept, Recorded, hashed_as
<1>8. CASE Still
  BY <1>8 DEF Still, repoVars, ReadsKept, Recorded, Moved, at, hashed_as
<1>. QED  BY Kinds, <1>1, <1>2, <1>3, <1>4, <1>5, <1>6, <1>7, <1>8

(* The second pass tells of a file that has moved on.                        *)
LEMMA RereadingStep ==
  ASSUME Shapes, ToolsKept, RepoKept, Passing, RecordKept, ReadsKept, Rereading, [Next]_vars
  PROVE  Rereading'
<1>1. CASE StartsRehash
  <2>1. DOMAIN hashed' = {} /\ listed' = {i \in DOMAIN InputFiles : present(InputFiles[i])}
    BY <1>1 DEF StartsRehash, List, verification_inputs
  <2>2. ASSUME NEW x \in reads PROVE Recorded(x[1], x[2])' \/ Told(x[1])'
    <3>1. /\ x[1] \in Files /\ (Recorded(x[1], x[2]) \/ Moved(x[1]))
          /\ run' = run
      BY <1>1, <2>2 DEF ReadsKept, StartsRehash, Working
    <3>2. PICK i \in DOMAIN InputFiles : InputFiles[i] = x[1]
      BY <3>1 DEF Files
    <3>. QED  BY <2>1, <3>1, <3>2 DEF Recorded, hashed_as, Moved, at, Told, Remaining, present
  <2>. QED  BY <1>1, <2>2 DEF Rereading, StartsRehash
<1>2. CASE HashInput /\ stage = "rehash"
  <2>1. HashOne /\ UNCHANGED <<repo, past, reads, run, stage>>
    BY <1>2 DEF HashInput, repoVars, toolVars, runnerVars
  <2>2. PICK i \in listed :
          /\ listed' = listed \ {i} /\ present(InputFiles[i])
          /\ DOMAIN hashed' = DOMAIN hashed \union {InputFiles[i]}
          /\ hashed'[InputFiles[i]] = repo[InputFiles[i]]
          /\ \A f \in DOMAIN hashed : f # InputFiles[i] => hashed'[f] = hashed[f]
    BY <2>1, Hashes
  <2>3. ASSUME NEW x \in reads, ~Recorded(x[1], x[2]) PROVE Told(x[1])'
    <3>1. Moved(x[1]) /\ Told(x[1])
      BY <1>2, <2>3 DEF ReadsKept, Rereading
    <3>2. CASE x[1] \in DOMAIN run.input_hashes
      BY <2>1, <2>2, <3>1, <3>2 DEF Told, Moved, at
    <3>3. CASE x[1] \notin DOMAIN run.input_hashes
      <4>1. x[1] \in Remaining => x[1] \in Remaining' \union DOMAIN hashed'
        BY <2>2 DEF Remaining
      <4>. QED  BY <2>1, <2>2, <3>1, <3>3, <4>1 DEF Told
    <3>. QED  BY <3>2, <3>3
  <2>. QED  BY <2>1, <2>3 DEF Rereading, Recorded, hashed_as
<1>3. CASE EditInputs
  <2>1. UNCHANGED <<stage, reads, run, listed, hashed>>
    BY <1>3 DEF EditInputs, Edit, toolVars, runnerVars, passVars
  <2>. QED  BY <2>1 DEF Rereading, Recorded, hashed_as, Told, Remaining
<1>4. CASE Still
  BY <1>4 DEF Still, passVars, Rereading, Recorded, hashed_as, Told, Remaining
<1>5. CASE stage' # "rehash"
  BY <1>5 DEF Rereading
<1>6. ASSUME stage' = "rehash", ~(HashInput /\ stage = "rehash") PROVE StartsRehash \/ EditInputs \/ Still
  <2>1. ~(Import \/ LoadPlan \/ HashFails \/ Enforce \/ CopyFails \/ Open)
    BY <1>6 DEF Import, LoadPlan, HashFails, ConfigurationFail, Fails, Enforce, CopyFails, Open, Goto
  <2>2. ~HashInput
    BY <1>6 DEF HashInput, runnerVars
  <2>3. ~Worked /\ ~Elsewhere
    BY <1>6 DEF Worked, Elsewhere, Late, Exporting, Filing, Working
  <2>. QED  BY <2>1, <2>2, <2>3, Kinds
<1>. QED  BY <1>1, <1>2, <1>3, <1>4, <1>5, <1>6

LEMMA SourcesStep ==
  ASSUME Shapes, ToolsKept, RepoKept, Passing, RecordKept, SourcesKept, [Next]_vars
  PROVE  SourcesKept'
<1>1. CASE stage' # "toolchain"
  BY <1>1 DEF SourcesKept
<1>2. CASE stage' = "toolchain" /\ Worked
  <2>1. ASSUME NEW f \in DOMAIN report'.sources
        PROVE  f \in Files /\ (f \in DOMAIN run.input_hashes \/ Moved(f))
    <3>1. f \in DOMAIN report.sources \/ present(f)
      BY <1>2, <2>1 DEF Worked
    <3>2. CASE present(f)
      BY <1>2, <3>2, ReadNow DEF Worked
    <3>3. CASE f \in DOMAIN report.sources /\ stage = "toolchain"
      BY <3>3 DEF SourcesKept
    <3>4. stage # "toolchain" => DOMAIN report.sources = {}
      BY <1>2 DEF Worked, ToolsKept, NoReport
    <3>. QED  BY <3>1, <3>2, <3>3, <3>4
  <2>. QED  BY <1>2, <2>1 DEF SourcesKept, Worked, SameRun, Moved, at
<1>3. CASE stage' = "toolchain" /\ EditInputs
  <2>1. UNCHANGED <<stage, run, report>> /\ ~Open
    <3>1. UNCHANGED <<stage, run, report>> /\ repo' # repo
      BY <1>3 DEF EditInputs, Edit, toolVars, runnerVars, RepoKept
    <3>. QED  BY <3>1 DEF Open, repoVars
  <2>2. \A f \in Files : Moved(f) => Moved(f)'
    BY <1>3, <2>1, MovesOn DEF Working
  <2>. QED  BY <1>3, <2>1, <2>2 DEF SourcesKept
<1>4. CASE stage' = "toolchain" /\ Still
  BY <1>4 DEF Still, repoVars, SourcesKept, Moved, at
<1>5. ASSUME stage' = "toolchain" PROVE Worked \/ EditInputs \/ Still
  <2>1. ~(Import \/ LoadPlan \/ HashFails \/ Enforce \/ CopyFails \/ Open \/ StartsRehash)
    BY <1>5 DEF Import, LoadPlan, HashFails, ConfigurationFail, Fails, Enforce, CopyFails, Open, StartsRehash, Goto
  <2>2. ~HashInput /\ ~Elsewhere
    BY <1>5 DEF HashInput, runnerVars, Elsewhere, Late, Exporting, Filing
  <2>. QED  BY <2>1, <2>2, <1>5, Kinds
<1>. QED  BY <1>1, <1>2, <1>3, <1>4, <1>5

LEMMA PassedStep ==
  ASSUME Shapes, ToolsKept, RepoKept, ReadsKept, Rereading, PassedAsTested, [Next]_vars
  PROVE  PassedAsTested'
<1>1. CASE Enforce
  <2>1. /\ stage = "rehash" /\ listed = {} /\ SameRun /\ UNCHANGED reads
        /\ same_inputs(run.input_hashes, hashed) \/ run'.status = "fail"
    BY <1>1, Enforced DEF Shapes, Loses
  <2>2. ASSUME NEW x \in reads, same_inputs(run.input_hashes, hashed) PROVE Recorded(x[1], x[2])
    BY <2>1, <2>2 DEF Rereading, Told, Remaining, same_inputs
  <2>. QED  BY <2>1, <2>2 DEF PassedAsTested, Recorded, SameRun
<1>2. CASE Import
  BY <1>2 DEF Import, PassedAsTested
<1>3. CASE LoadPlan \/ Open
  <2>1. run.status = "running" /\ DOMAIN run = RunFields
    BY <1>3 DEF Shapes, LoadPlan, Open
  <2>2. run'.status = "running"
    BY <1>3, <2>1 DEF LoadPlan, Open, ConfigurationFail, RunFields
  <2>. QED  BY <2>2 DEF PassedAsTested
<1>4. CASE HashFails
  <2>1. run.status = "running" /\ DOMAIN run = RunFields
    BY <1>4 DEF Shapes, HashFails
  <2>2. run'.status # "pass"
    BY <1>4, <2>1 DEF HashFails, ConfigurationFail, Fails, RunFields
  <2>. QED  BY <2>2 DEF PassedAsTested
<1>5. CASE Worked \/ CopyFails
  BY <1>5 DEF Worked, CopyFails, Loses, PassedAsTested
<1>6. CASE HashInput \/ StartsRehash \/ Elsewhere \/ EditInputs \/ Still
  BY <1>6 DEF HashInput, StartsRehash, Elsewhere, EditInputs, Still, toolVars, runnerVars, PassedAsTested
<1>. QED  BY Kinds, <1>1, <1>2, <1>3, <1>4, <1>5, <1>6

-----------------------------------------------------------------------------
(* The two tools.                                                            *)
LEMMA NothingInspected == inspect_netlist(NoNetlist) = Refused
BY DEF inspect_netlist, NoNetlist

LEMMA Concludes ==
  ASSUME ToolsKept, stage' = "toolchain", tool.step \in Steps,
         NEW status, NEW commands, NEW files, Conclude(status, commands, files),
         Honest([status |-> status, commands |-> commands, files |-> files])
  PROVE  ToolsKept'
<1> DEFINE check == [status |-> status, commands |-> commands, files |-> files]
<1>1. /\ DOMAIN report = {"sources", "checks", "status"}
      /\ \/ tool.name = "verilator" /\ checked = {}
         \/ tool.name = "yosys" /\ checked = {"verilator"}
  <2>1. tool # NoTool
    BY DEF NoTool, Steps
  <2>. QED  BY <2>1 DEF ToolsKept, Steps
<1>2. report' = [report EXCEPT !.checks = put(report.checks, tool.name, check)]
  BY DEF Conclude
<1>3. /\ DOMAIN report' = {"sources", "checks", "status"}
      /\ report'.checks = put(report.checks, tool.name, check)
  BY <1>1, <1>2
<1>4. Honest(check)
  OBVIOUS
<1> HIDE DEF check
<1>5. /\ checked' = checked \union {tool.name}
      /\ \A t \in checked' : Honest(report.checks[t])'
  <2>1. checked' = checked \union {tool.name}
    BY <1>3 DEF put, checked
  <2>2. \A t \in checked' : report'.checks[t] = IF t = tool.name THEN check ELSE report.checks[t]
    BY <1>3, <2>1 DEF put, checked
  <2>. QED  BY <1>4, <2>1, <2>2 DEF ToolsKept, Honest
<1>6. CASE tool.name = "verilator"
  <2>1. tool' = [name |-> "yosys", step |-> "discover", backend |-> "none", commands |-> <<>>]
    BY <1>6 DEF Conclude, after_tool, start_tool, NoTool
  <2>2. DOMAIN tool' = {"name", "step", "backend", "commands"} /\ tool'.commands \in Seq({"0"})
        /\ tool'.name = "yosys" /\ tool'.step = "discover"
    BY <2>1
  <2>. QED  BY <1>1, <1>3, <1>5, <1>6, <2>2 DEF ToolsKept, Steps, Working, NoTool
<1>7. CASE tool.name = "yosys"
  <2>1. tool' = [name |-> "none", step |-> "report", backend |-> "none", commands |-> <<>>]
    BY <1>7 DEF Conclude, after_tool, NoTool
  <2>2. DOMAIN tool' = {"name", "step", "backend", "commands"} /\ tool'.commands \in Seq({"0"})
        /\ tool'.step = "report"
    BY <2>1
  <2>. QED  BY <1>1, <1>3, <1>5, <1>7, <2>2 DEF ToolsKept, Steps, Working
<1>. QED  BY <1>1, <1>6, <1>7

LEMMA ToolStepKept ==
  ASSUME ToolsKept, stage = "toolchain", stage' = stage, ToolStep
  PROVE  ToolsKept'
<1>1. ASSUME NEW commands, NEW status \in {"FAIL", "BLOCKED_TOOLING"}, status = "FAIL" \/ commands = <<>>
      PROVE  Honest([status |-> status, commands |-> commands, files |-> NoFiles])
  BY <1>1, NothingInspected DEF Honest, NoFiles
<1>2. CASE StartToolchain
  <2>1. /\ tool = NoTool /\ UNCHANGED stage
        /\ report' = [NoReport EXCEPT !.sources = [f \in {g \in CoreFiles : present(g)} |-> repo[f]]]
        /\ tool' = start_tool("verilator")
    BY <1>2 DEF StartToolchain
  <2>2. DOMAIN report' = {"sources", "checks", "status"} /\ checked' = {}
    BY <2>1 DEF NoReport, checked
  <2>3. tool' = [name |-> "verilator", step |-> "discover", backend |-> "none", commands |-> <<>>]
    BY <2>1 DEF start_tool, NoTool
  <2>4. /\ DOMAIN tool' = {"name", "step", "backend", "commands"} /\ tool'.commands \in Seq({"0"})
        /\ tool'.name = "verilator" /\ tool'.step = "discover"
    BY <2>3
  <2>. QED  BY <2>2, <2>4 DEF ToolsKept, Steps, Working
<1>3. ASSUME tool.step \in Steps, UNCHANGED report, DOMAIN tool' = DOMAIN tool, tool'.name = tool.name,
             tool'.step \in Steps, tool'.commands \in Seq({"0"})
      PROVE  ToolsKept'
  <2>1. tool # NoTool
    BY <1>3 DEF NoTool, Steps
  <2>. QED  BY <1>3, <2>1 DEF ToolsKept, checked, Honest, Steps, Working
<1>4. /\ DOMAIN tool = {"name", "step", "backend", "commands"} /\ tool.commands \in Seq({"0"})
      /\ Append(tool.commands, "0") \in Seq({"0"})
  BY AppendProperties DEF ToolsKept
<1>5. CASE Discover
  <2>1. PICK override \in {"unset", "resolves", "broken"}, native \in BOOLEAN, probe \in Outcomes :
          LET found == discover_tool(override, native, probe)
          IN  IF found \in {"native", "wsl"}
                THEN tool' = [tool EXCEPT !.step = "version", !.backend = found] /\ UNCHANGED report
                ELSE Conclude(found, <<>>, NoFiles)
    BY <1>5 DEF Discover
  <2> DEFINE found == discover_tool(override, native, probe)
  <2>2. tool.step = "discover"
    BY <1>5 DEF Discover
  <2>3. CASE found \in {"native", "wsl"}
    <3>1. tool' = [tool EXCEPT !.step = "version", !.backend = found] /\ UNCHANGED report
      BY <2>1, <2>3
    <3> HIDE DEF found
    <3>. QED  BY <1>3, <1>4, <2>2, <3>1 DEF Steps
  <2>4. CASE found \notin {"native", "wsl"}
    <3>1. Conclude(found, <<>>, NoFiles)
      BY <2>1, <2>4
    <3>2. found \in {"FAIL", "BLOCKED_TOOLING"}
      BY <2>4 DEF discover_tool
    <3> HIDE DEF found
    <3>. QED  BY <1>1, <2>2, <3>1, <3>2, Concludes DEF Steps
  <2>. QED  BY <2>3, <2>4
<1>6. CASE Version
  <2>1. PICK outcome \in Outcomes, printed \in BOOLEAN :
          IF outcome = "0" /\ printed
            THEN /\ tool' = [tool EXCEPT !.commands = Append(@, outcome),
                                         !.step = IF tool.backend = "wsl" THEN "paths" ELSE "launch"]
                 /\ UNCHANGED report
            ELSE Conclude("FAIL", Append(tool.commands, outcome), NoFiles)
    BY <1>6 DEF Version
  <2>2. tool.step = "version"
    BY <1>6 DEF Version
  <2>3. CASE outcome = "0" /\ printed
    <3>1. /\ DOMAIN tool' = DOMAIN tool /\ tool'.name = tool.name /\ UNCHANGED report
          /\ tool'.commands = Append(tool.commands, "0") /\ tool'.step \in {"paths", "launch"}
      BY <1>4, <2>1, <2>3
    <3>. QED  BY <1>3, <1>4, <2>2, <3>1 DEF Steps
  <2>4. CASE ~(outcome = "0" /\ printed)
    BY <1>1, <2>1, <2>2, <2>4, Concludes DEF Steps
  <2>. QED  BY <2>3, <2>4
<1>7. CASE ConvertPath
  <2>1. PICK outcome \in Outcomes, absolute \in BOOLEAN :
          LET commands == Append(tool.commands, outcome)
          IN  IF outcome # "0" \/ ~absolute THEN Conclude("FAIL", commands, NoFiles)
              ELSE /\ tool' = [tool EXCEPT !.commands = commands,
                                           !.step = IF Len(commands) = 3 THEN "launch" ELSE "paths"]
                   /\ UNCHANGED report
    BY <1>7 DEF ConvertPath
  <2>2. tool.step = "paths"
    BY <1>7 DEF ConvertPath
  <2>3. CASE outcome = "0" /\ absolute
    <3>1. /\ DOMAIN tool' = DOMAIN tool /\ tool'.name = tool.name /\ UNCHANGED report
          /\ tool'.commands = Append(tool.commands, "0") /\ tool'.step \in {"paths", "launch"}
      BY <1>4, <2>1, <2>3
    <3>. QED  BY <1>3, <1>4, <2>2, <3>1 DEF Steps
  <2>4. CASE ~(outcome = "0" /\ absolute)
    BY <1>1, <2>1, <2>2, <2>4, Concludes DEF Steps
  <2>. QED  BY <2>3, <2>4
<1>8. CASE Launch
  <2>1. tool.step = "launch" /\ tool' = [tool EXCEPT !.step = "run"] /\ UNCHANGED report
    BY <1>8 DEF Launch
  <2>. QED  BY <1>3, <1>4, <2>1 DEF Steps
<1>9. ASSUME NEW commands \in Seq({"0"})
      PROVE  \A i \in DOMAIN commands : commands[i] = "0"
  BY <1>9
<1>10. CASE Lint
  <2>1. PICK outcome \in Outcomes :
          Conclude(IF outcome = "0" THEN "PASS" ELSE "FAIL", Append(tool.commands, outcome), NoFiles)
    BY <1>10 DEF Lint
  <2>2. tool.step \in Steps
    BY <1>10 DEF Lint, Steps
  <2>3. CASE outcome = "0"
    <3> DEFINE commands == Append(tool.commands, "0")
    <3>1. commands # <<>> /\ commands \in Seq({"0"})
      BY <1>4, AppendProperties
    <3>2. Conclude("PASS", commands, NoFiles)
      BY <2>1, <2>3
    <3> HIDE DEF commands
    <3>3. Honest([status |-> "PASS", commands |-> commands, files |-> NoFiles])
      BY <1>9, <3>1, NothingInspected DEF Honest, NoFiles
    <3>. QED  BY <2>2, <3>2, <3>3, Concludes
  <2>4. CASE outcome # "0"
    BY <1>1, <2>1, <2>2, <2>4, Concludes
  <2>. QED  BY <2>3, <2>4
<1>11. CASE Synthesize
  <2>1. PICK outcome \in Outcomes, netlist \in Designs \union {NoNetlist}, miscount \in {0, 1}, verilog \in BOOLEAN :
          LET summary == inspect_netlist(netlist)
              files   == [netlist |-> netlist, statistics |-> summary.leaves + miscount, summary |-> summary]
              accepted == outcome = "0" /\ ~summary.failed /\ miscount = 0 /\ verilog
          IN  Conclude(IF accepted THEN "PASS" ELSE "FAIL", Append(tool.commands, outcome), files)
    BY <1>11 DEF Synthesize
  <2> DEFINE summary == inspect_netlist(netlist)
             files == [netlist |-> netlist, statistics |-> summary.leaves + miscount, summary |-> summary]
             accepted == outcome = "0" /\ ~summary.failed /\ miscount = 0 /\ verilog
             commands == Append(tool.commands, outcome)
             status == IF accepted THEN "PASS" ELSE "FAIL"
  <2>2. tool.step \in Steps
    BY <1>11 DEF Synthesize, Steps
  <2>3. Conclude(status, commands, files)
    BY <2>1
  <2>4. files.summary = inspect_netlist(files.netlist)
    OBVIOUS
  <2>5. status # "FAIL" => commands # <<>> /\ commands \in Seq({"0"})
    BY <1>4, AppendProperties
  <2>6. status \in {"PASS", "FAIL"}
    OBVIOUS
  <2> HIDE DEF summary, files, accepted, commands, status
  <2>7. Honest([status |-> status, commands |-> commands, files |-> files])
    BY <1>9, <2>4, <2>5, <2>6 DEF Honest
  <2>. QED  BY <2>2, <2>3, <2>7, Concludes
<1>. QED  BY <1>2, <1>5, <1>6, <1>7, <1>8, <1>10, <1>11 DEF ToolStep

LEMMA ToolsStep ==
  ASSUME Shapes, ToolsKept, [Next]_vars
  PROVE  ToolsKept'
<1> USE DEF Working
<1>1. CASE Import
  <2>1. tool' = [name |-> "none", step |-> "none", backend |-> "none", commands |-> <<>>] /\ tool' = NoTool
        /\ report' = [sources |-> <<>>, checks |-> <<>>, status |-> "none"] /\ report' = NoReport
        /\ stage' \in {"plan", "idle"}
    BY <1>1 DEF Import, NoTool, NoReport, Goto
  <2>2. /\ DOMAIN tool' = {"name", "step", "backend", "commands"} /\ tool'.commands \in Seq({"0"})
        /\ DOMAIN report' = {"sources", "checks", "status"} /\ checked' = {}
    BY <2>1 DEF checked
  <2>. QED  BY <2>1, <2>2 DEF ToolsKept
<1>2. ASSUME tool = NoTool, UNCHANGED <<tool, report>>,
             stage' = "toolchain" => report = NoReport,
             stage' \in {"plan", "hash"} \union (Working \ {"toolchain"}) => report = NoReport
      PROVE  ToolsKept'
  BY <1>2 DEF ToolsKept, checked, Honest
<1>3. ASSUME stage = "toolchain", stage' \in {"idle", "rehash"}, tool' = NoTool,
             report' = [report EXCEPT !.status = report'.status]
      PROVE  ToolsKept'
  <2>1. /\ DOMAIN report' = {"sources", "checks", "status"} /\ checked' = checked /\ report'.checks = report.checks
    BY <1>3 DEF ToolsKept, checked
  <2>2. NoTool = [name |-> "none", step |-> "none", backend |-> "none", commands |-> <<>>]
    BY DEF NoTool
  <2>3. DOMAIN tool' = {"name", "step", "backend", "commands"} /\ tool'.commands \in Seq({"0"})
    BY <1>3, <2>2
  <2>. QED  BY <1>3, <2>1, <2>3 DEF ToolsKept, Honest
<1>4. CASE LoadPlan \/ HashInput \/ HashFails \/ Open \/ Enforce
  <2>1. /\ UNCHANGED <<tool, report>> /\ stage \in {"plan", "hash", "rehash"}
        /\ stage = "rehash" => stage' \notin {"plan", "hash"} \union Working
    BY <1>4 DEF LoadPlan, HashInput, HashFails, Fails, Open, Enforce, Goto, toolVars, runnerVars
  <2>2. tool = NoTool /\ (stage # "rehash" => report = NoReport)
    BY <2>1 DEF ToolsKept
  <2>. QED  BY <1>2, <2>1, <2>2
<1>5. CASE Worked
  <2>1. CASE tool = NoTool /\ UNCHANGED <<tool, report>> /\ (stage = "toolchain" => stage' = "idle")
    <3>1. stage # "toolchain" => report = NoReport
      BY <1>5 DEF Worked, ToolsKept
    <3>2. stage' \in Working \union {"idle"}
      BY <1>5 DEF Worked
    <3>. QED  BY <1>2, <2>1, <3>1, <3>2
  <2>2. CASE stage = "toolchain" /\ stage' = stage /\ ToolStep
    BY <2>2, ToolStepKept
  <2>. QED  BY <1>3, <1>5, <2>1, <2>2 DEF Worked
<1>6. CASE StartsRehash
  <2>1. CASE stage = "cases"
    BY <1>2, <1>6, <2>1 DEF StartsRehash, ToolsKept
  <2>2. CASE stage = "toolchain"
    BY <1>3, <1>6, <2>2 DEF StartsRehash
  <2>. QED  BY <1>6, <2>1, <2>2 DEF StartsRehash
<1>7. CASE Elsewhere \/ CopyFails
  <2>1. UNCHANGED <<tool, report>> /\ stage # "toolchain" /\ stage' \notin {"plan", "hash"} \union Working
    BY <1>7 DEF Elsewhere, CopyFails, Late, Exporting, Filing
  <2>. QED  BY <1>2, <2>1 DEF ToolsKept
<1>8. CASE EditInputs \/ Still
  BY <1>8 DEF EditInputs, Still, toolVars, ToolsKept, checked, Honest
<1>. QED  BY Kinds, <1>1, <1>4, <1>5, <1>6, <1>7, <1>8

LEMMA BothRanStep ==
  ASSUME Shapes, ToolsKept, BothRan, [Next]_vars
  PROVE  BothRan'
<1>1. CASE StartsRehash
  <2>1. CASE stage = "cases"
    BY <1>1, <2>1 DEF StartsRehash, Shapes, Filing, BothRan
  <2>2. CASE stage = "toolchain"
    <3>1. tool # NoTool /\ tool.step \notin Steps
      BY <1>1, <2>2 DEF StartsRehash, NoTool, Steps
    <3>2. checked = {"verilator", "yosys"} /\ report'.checks = report.checks /\ checked' = checked
      BY <1>1, <2>2, <3>1 DEF StartsRehash, ToolsKept, checked
    <3>. QED  BY <1>1, <2>2, <3>2 DEF StartsRehash, BothRan
  <2>. QED  BY <1>1, <2>1, <2>2 DEF StartsRehash
<1>2. CASE Enforce
  BY <1>2 DEF Enforce, BothRan, toolVars, checked
<1>3. CASE Import
  BY <1>3 DEF Import, NoRun, Goto, BothRan
<1>4. CASE LoadPlan \/ Open
  <2>1. run.status = "running" /\ DOMAIN run = RunFields
    BY <1>4 DEF Shapes, LoadPlan, Open
  <2>2. run'.status = "running" /\ stage' # "rehash"
    BY <1>4, <2>1 DEF LoadPlan, Open, ConfigurationFail, RunFields, Goto
  <2>. QED  BY <2>2 DEF BothRan
<1>5. CASE HashFails
  <2>1. run.status = "running" /\ DOMAIN run = RunFields
    BY <1>5 DEF Shapes, HashFails
  <2>2. run'.status # "pass" /\ stage' = "idle"
    BY <1>5, <2>1 DEF HashFails, ConfigurationFail, Fails, RunFields, Goto
  <2>. QED  BY <2>2 DEF BothRan
<1>6. CASE Worked \/ CopyFails
  BY <1>6 DEF Worked, CopyFails, Loses, Working, BothRan
<1>7. CASE Elsewhere
  BY <1>7 DEF Elsewhere, Late, Exporting, Filing, BothRan, checked
<1>8. CASE HashInput \/ EditInputs \/ Still
  BY <1>8 DEF HashInput, EditInputs, Still, toolVars, runnerVars, BothRan, checked
<1>. QED  BY Kinds, <1>1, <1>2, <1>3, <1>4, <1>5, <1>6, <1>7, <1>8

-----------------------------------------------------------------------------
(* The exporter.                                                             *)
LEMMA NotExport ==
  ASSUME Shapes, ToolsKept, [Next]_vars, ~Export
  PROVE  /\ UNCHANGED exportVars
         /\ stage' \notin Exporting \/ UNCHANGED <<stage, run, suite, report>>
<1>1. UNCHANGED exportVars
  BY DEF Next, Session, Showcase, MakeCase, CasesDone, WriteMetadata, CopyAsset, EditInputs, Alter, Finished, vars
<1>2. stage' \notin Exporting \/ UNCHANGED <<stage, run, suite, report>>
  <2>1. CASE Import \/ LoadPlan \/ HashFails \/ Open \/ Enforce \/ WriteMetadata \/ CopyAsset
    BY <2>1 DEF Import, LoadPlan, HashFails, ConfigurationFail, Fails, Open, Enforce, WriteMetadata, CopyAsset,
                Raises, Goto, Exporting
  <2>2. CASE HashInput \/ EditInputs \/ Still
    BY <2>2 DEF HashInput, EditInputs, Still, toolVars, runnerVars
  <2>3. CASE Worked \/ StartsRehash \/ CopyFails
    BY <2>3 DEF Worked, StartsRehash, CopyFails, Working, Exporting
  <2>. QED  BY <2>1, <2>2, <2>3, Kinds
<1>. QED  BY <1>1, <1>2

LEMMA Exports ==
  ASSUME NEW from, NEW to, NEW ok, NEW gathered, ExportStep(from, to, ok, gathered)
  PROVE  /\ stage = from /\ UNCHANGED <<run, suite, report, snapshot>>
         /\ \/ ok /\ stage' = to /\ export' = gathered
            \/ stage' = "idle" /\ export' = export
BY DEF ExportStep, Stops, Goto, toolVars

LEMMA ExportKeptStep ==
  ASSUME Shapes, ToolsKept, ExportKept, [Next]_vars
  PROVE  ExportKept'
<1> USE DEF Exporting
<1>1. CASE ~Export
  BY <1>1, NotExport DEF ExportKept, exportVars, BothPassed, checked, theirs
<1>2. CASE ReadManifest
  <2>1. export' = [current |-> <<>>, files |-> [netlist |-> NoNetlist, statistics |-> 0, summary |-> Refused]]
        /\ stage' \in {"current", "idle"}
    BY <1>2 DEF ReadManifest, NoExport, NoFiles, Goto
  <2>2. /\ DOMAIN export' = {"current", "files"}
        /\ DOMAIN export'.files = {"netlist", "statistics", "summary"}
    BY <2>1
  <2>. QED  BY <2>1, <2>2 DEF ExportKept
<1>3. CASE HashCurrent
  BY <1>3 DEF HashCurrent, Stops, Goto, ExportKept
<1>4. CASE CompareInputs
  <2>1. /\ UNCHANGED <<run, report>>
        /\ \/ /\ stage' = "matrix" /\ export' = [export EXCEPT !.current = hashed]
              /\ run.input_hashes = hashed
           \/ stage' = "idle" /\ export' = export
    BY <1>4, Exports DEF CompareInputs, as_signed_off
  <2>2. /\ DOMAIN export' = {"current", "files"}
        /\ DOMAIN export'.files = {"netlist", "statistics", "summary"}
        /\ stage' = "matrix" => export'.current = run.input_hashes
    BY <2>1 DEF ExportKept
  <2>. QED  BY <2>1, <2>2 DEF ExportKept
<1>5. CASE CheckMatrix \/ CheckPrograms \/ CheckUnitLog
  <2>1. /\ UNCHANGED <<run, report>> /\ export' = export /\ stage \in {"matrix", "programs", "log"}
        /\ stage' \in {"programs", "log", "tools", "idle"}
    <3>1. ASSUME NEW from \in {"matrix", "programs", "log"}, NEW to \in {"programs", "log", "tools"}, NEW ok,
                 ExportStep(from, to, ok, export)
          PROVE  /\ UNCHANGED <<run, report>> /\ export' = export /\ stage = from /\ stage' \in {to, "idle"}
      BY <3>1, Exports
    <3>. QED  BY <1>5, <3>1 DEF CheckMatrix, CheckPrograms, CheckUnitLog
  <2>. QED  BY <2>1 DEF ExportKept
<1>6. CASE CheckTools
  <2>1. /\ stage = "tools" /\ UNCHANGED <<run, report>>
        /\ \/ /\ stage' = "netlist" /\ export' = [export EXCEPT !.files.netlist = build.files.netlist]
              /\ BothPassed /\ build.files = theirs
           \/ stage' = "idle" /\ export' = export
    BY <1>6, Exports DEF CheckTools, BothPassed, checked, theirs
  <2>2. CASE stage' = "netlist" /\ export' = [export EXCEPT !.files.netlist = build.files.netlist]
             /\ BothPassed /\ build.files = theirs
    <3>1. /\ DOMAIN export' = {"current", "files"}
          /\ DOMAIN export'.files = {"netlist", "statistics", "summary"}
          /\ export'.current = export.current /\ export'.files.netlist = theirs.netlist
      BY <2>2 DEF ExportKept
    <3>. QED  BY <2>1, <2>2, <3>1 DEF ExportKept, BothPassed, checked, theirs
  <2>. QED  BY <2>1, <2>2 DEF ExportKept
<1>7. CASE InspectAgain
  <2> DEFINE summary == inspect_netlist(build.files.netlist)
  <2>1. /\ stage = "netlist" /\ UNCHANGED <<run, report>>
        /\ \/ /\ stage' = "write" /\ export' = [export EXCEPT !.files.summary = summary]
              /\ summary = theirs.summary
           \/ stage' = "idle" /\ export' = export
    BY <1>7, Exports DEF InspectAgain, summary_stands, theirs
  <2> HIDE DEF summary
  <2>2. CASE stage' = "write" /\ export' = [export EXCEPT !.files.summary = summary] /\ summary = theirs.summary
    <3>1. /\ DOMAIN export' = {"current", "files"}
          /\ DOMAIN export'.files = {"netlist", "statistics", "summary"}
          /\ export'.current = export.current /\ export'.files.netlist = export.files.netlist
          /\ export'.files.summary = theirs.summary
      BY <2>2 DEF ExportKept
    <3>. QED  BY <2>1, <2>2, <3>1 DEF ExportKept, BothPassed, checked, theirs
  <2>. QED  BY <2>1, <2>2 DEF ExportKept
<1>8. CASE WriteSnapshot
  BY <1>8 DEF WriteSnapshot, Goto, ExportKept
<1>. QED  BY <1>1, <1>2, <1>3, <1>4, <1>5, <1>6, <1>7, <1>8 DEF Export

LEMMA SameSession ==
  ASSUME Shapes, ToolsKept, [Next]_vars, ~Import
  PROVE  run'.id = run.id
<1>1. CASE LoadPlan \/ HashFails \/ Open
  BY <1>1 DEF LoadPlan, HashFails, ConfigurationFail, Fails, Open, Shapes, RunFields
<1>2. CASE Enforce
  BY <1>2, Enforced DEF Shapes, SameRun
<1>3. CASE HashInput \/ Worked \/ StartsRehash \/ Elsewhere \/ CopyFails \/ EditInputs \/ Still
  BY <1>3 DEF HashInput, Worked, SameRun, StartsRehash, Elsewhere, CopyFails, EditInputs, Still, runnerVars
<1>. QED  BY Kinds, <1>1, <1>2, <1>3

LEMMA SnapshotStep ==
  ASSUME Shapes, ToolsKept, ExportKept, SnapshotKept, [Next]_vars
  PROVE  SnapshotKept'
<1>1. CASE WriteSnapshot
  <2>1. /\ stage = "write" /\ UNCHANGED <<run, suite, report>>
        /\ snapshot' = [session |-> run.id, hashes |-> export.current, files |-> export.files]
    BY <1>1 DEF WriteSnapshot, toolVars
  <2>2. passed("signoff") /\ run.id \in Nat
    BY <2>1 DEF Shapes, Exporting, passed
  <2>3. /\ export.current = run.input_hashes /\ BothPassed
        /\ export.files.netlist = theirs.netlist /\ export.files.summary = theirs.summary
    BY <2>1 DEF ExportKept, Exporting
  <2>. QED  BY <2>1, <2>2, <2>3 DEF SnapshotKept, passed, BothPassed, checked, theirs
<1>2. CASE Import
  <2>1. run'.id = run.id + 1 /\ UNCHANGED snapshot
    <3>1. NoRun(run.id + 1).id = run.id + 1
      BY DEF NoRun
    <3>2. ~Export
      BY <1>2 DEF Import, Export, ReadManifest, HashCurrent, CompareInputs, CheckMatrix, CheckPrograms, CheckUnitLog, CheckTools,
                  InspectAgain, WriteSnapshot, ExportStep
    <3>. QED  BY <1>2, <3>1, <3>2, NotExport DEF Import, exportVars
  <2>. QED  BY <2>1 DEF SnapshotKept, published, Shapes
<1>3. CASE ~Import /\ ~WriteSnapshot
  <2>1. UNCHANGED snapshot /\ run'.id = run.id
    <3>1. CASE Export
      BY <1>3, <3>1 DEF Export, ReadManifest, HashCurrent, CompareInputs, CheckMatrix, CheckPrograms, CheckUnitLog, CheckTools,
                        InspectAgain, ExportStep
    <3>. QED  BY <1>3, <3>1, NotExport, SameSession DEF exportVars
  <2>2. ASSUME published PROVE UNCHANGED <<run, suite, report>>
    <3>1. run.status = "pass" /\ suite = "signoff"
      BY <2>2 DEF SnapshotKept, passed
    <3>2. stage \notin {"plan", "hash", "rehash"} \union Working \union Filing
      BY <3>1 DEF Shapes
    <3>3. CASE LoadPlan \/ HashInput \/ HashFails \/ Open \/ Enforce
      BY <3>2, <3>3 DEF LoadPlan, HashInput, HashFails, Open, Enforce
    <3>4. CASE Worked \/ StartsRehash \/ CopyFails
      BY <3>2, <3>4 DEF Worked, StartsRehash, CopyFails, Working, Filing
    <3>5. CASE Elsewhere \/ EditInputs \/ Still
      BY <3>5 DEF Elsewhere, EditInputs, Still, toolVars, runnerVars
    <3>. QED  BY <1>3, <3>3, <3>4, <3>5, Kinds
  <2>3. published' = published
    BY <2>1 DEF published
  <2>. QED  BY <2>1, <2>2, <2>3 DEF SnapshotKept, passed, BothPassed, checked, theirs
<1>. QED  BY <1>1, <1>2, <1>3

-----------------------------------------------------------------------------
(* The showcase's assets.                                                    *)
LEMMA NotFiling ==
  ASSUME Shapes, ToolsKept, [Next]_vars, ~WriteMetadata, ~CopyAsset
  PROVE  /\ UNCHANGED assets
         /\ stage' = "publish" => UNCHANGED <<stage, run, filed, left, metadata>>
         /\ passed("showcase")' /\ stage' = "idle" => UNCHANGED <<stage, run, suite, filed>>
<1> USE DEF Exporting, Filing, Working, Late
<1>1. UNCHANGED assets
  BY DEF Next, Session, Showcase, MakeCase, CasesDone, Export, ReadManifest, HashCurrent, ExportStep, CompareInputs,
         CheckMatrix, CheckPrograms, CheckUnitLog, CheckTools, InspectAgain, WriteSnapshot, EditInputs, Alter,
         Finished, vars, showcaseVars
<1>2. CASE LoadPlan \/ Open \/ HashFails
  <2>1. run.status = "running" /\ DOMAIN run = RunFields
    BY <1>2 DEF Shapes, LoadPlan, Open, HashFails
  <2>2. run'.status # "pass" /\ stage' # "publish"
    BY <1>2, <2>1 DEF LoadPlan, Open, HashFails, ConfigurationFail, Fails, RunFields, Goto
  <2>. QED  BY <1>1, <2>2 DEF passed
<1>3. CASE Import
  BY <1>1, <1>3 DEF Import, NoRun, Goto, passed
<1>4. CASE Enforce
  BY <1>1, <1>4, Enforced DEF Shapes, SameRun, Loses, passed
<1>5. CASE Worked \/ StartsRehash \/ CopyFails
  BY <1>1, <1>5 DEF Worked, StartsRehash, CopyFails, Loses, passed
<1>6. CASE HashInput \/ EditInputs \/ Still
  BY <1>1, <1>6 DEF HashInput, EditInputs, Still, runnerVars, showcaseVars, Shapes, passed
<1>7. CASE Elsewhere /\ Export
  <2>1. stage \in Exporting \union {"idle"}
    BY <1>7 DEF Export, ReadManifest, HashCurrent, ExportStep, CompareInputs, CheckMatrix, CheckPrograms, CheckUnitLog, CheckTools,
                InspectAgain, WriteSnapshot
  <2>. QED  BY <1>1, <1>7, <2>1 DEF Elsewhere, Shapes, passed
<1>. QED  BY Kinds, <1>2, <1>3, <1>4, <1>5, <1>6, <1>7

LEMMA MetadataShape ==
  ASSUME DOMAIN metadata = {"cases", "session", "manifest"}, [Next]_vars
  PROVE  DOMAIN metadata' = {"cases", "session", "manifest"}
<1>1. CASE Session
  <2>1. metadata' = metadata \/ metadata' = [cases |-> <<>>, session |-> 0, manifest |-> "none"]
    BY <1>1 DEF Session, NoMetadata
  <2>. QED  BY <2>1
<1>2. CASE MakeCase
  BY <1>2 DEF MakeCase
<1>3. CASE WriteMetadata
  BY <1>3 DEF WriteMetadata
<1>4. ASSUME UNCHANGED showcaseVars \/ UNCHANGED metadata PROVE UNCHANGED metadata
  BY <1>4 DEF showcaseVars
<1>5. CASE CasesDone \/ CopyAsset \/ EditInputs \/ Alter \/ Finished \/ UNCHANGED vars
  BY <1>4, <1>5 DEF CasesDone, CopyAsset, EditInputs, Alter, Finished, vars
<1>6. CASE Export
  <2>1. UNCHANGED showcaseVars
    BY <1>6 DEF Export, ReadManifest, HashCurrent, ExportStep, CompareInputs, CheckMatrix, CheckPrograms, CheckUnitLog, CheckTools,
                InspectAgain, WriteSnapshot
  <2>. QED  BY <1>4, <2>1
<1>. QED  BY <1>1, <1>2, <1>3, <1>5, <1>6 DEF Next, Showcase

LEMMA AssetsStep ==
  ASSUME Shapes, ToolsKept, AssetsKept, AssetsLinked, [Next]_vars
  PROVE  AssetsKept' /\ AssetsLinked'
<1>1. DOMAIN metadata' = {"cases", "session", "manifest"}
  BY MetadataShape DEF AssetsKept
<1>2. CASE WriteMetadata
  <2>1. /\ metadata' = [metadata EXCEPT !.session = run.id, !.manifest = filed[run.id]]
        /\ left' = <<"forwarding_waveform.svg", "byte_lane_waveform.svg", "showcase_evidence.json">>
        /\ stage' = "publish" /\ UNCHANGED <<run, filed>>
    BY <1>2 DEF WriteMetadata, Goto
  <2>2. metadata'.manifest = filed[run.id]
    BY <2>1 DEF AssetsKept
  <2>3. left' \in Seq(Assets) /\ left' # <<>> /\ \A a \in Assets : \E i \in DOMAIN left' : left'[i] = a
    <3>1. DOMAIN left' = 1 .. 3
      BY <2>1
    <3>2. \A a \in Assets : left'[1] = a \/ left'[2] = a \/ left'[3] = a
      BY <2>1 DEF Assets
    <3>. QED  BY <2>1, <3>1, <3>2 DEF Assets
  <2>. QED  BY <1>1, <2>1, <2>2, <2>3 DEF AssetsKept, AssetsLinked
<1>3. CASE CopyAsset
  <2>1. /\ stage = "publish" /\ metadata.manifest = filed[run.id]
        /\ left \in Seq(Assets) /\ left # <<>>
        /\ \A a \in Assets : Linked(a) \/ \E i \in DOMAIN left : left[i] = a
    BY <1>3 DEF CopyAsset, AssetsKept
  <2>2. CASE Raises
    <3>1. run'.status = "fail" /\ stage' = "idle"
      BY <2>2, Raised DEF Shapes, Loses
    <3>. QED  BY <1>1, <3>1 DEF AssetsKept, AssetsLinked, passed
  <2>3. CASE ~Raises
    <3>1. /\ assets' = put(assets, Head(left), Entry)
          /\ stage' = IF Tail(left) = <<>> THEN "idle" ELSE "publish"
          /\ left' = Tail(left) /\ UNCHANGED <<run, filed, metadata>>
      BY <1>3, <2>1, <2>3 DEF CopyAsset, Goto, Entry
    <3>2. UNCHANGED Entry
      BY <3>1 DEF Entry
    <3>3. ASSUME NEW a, Linked(a) \/ a = Head(left) PROVE Linked(a)'
      <4>1. a \in DOMAIN assets' /\ assets'[a] = Entry
        <5>1. CASE a = Head(left)
          BY <3>1, <5>1 DEF put
        <5>2. CASE a # Head(left) /\ Linked(a)
          BY <3>1, <5>2 DEF put, Linked
        <5>. QED  BY <3>3, <5>1, <5>2
      <4>. QED  BY <3>2, <4>1 DEF Linked
    <3>3a. Head(left) = left[1]
      BY <2>1
    <3>4. ASSUME NEW i \in DOMAIN left, left[i] # Head(left) PROVE \E k \in DOMAIN left' : left'[k] = left[i]
      <4>1. i \in 1 .. Len(left) /\ i # 1 /\ Len(left) \in Nat
        BY <2>1, <3>3a, <3>4
      <4>2. i - 1 \in 1 .. Len(Tail(left)) /\ Tail(left)[i - 1] = left[i]
        BY <2>1, <4>1, HeadTailProperties
      <4>. QED  BY <2>1, <3>1, <4>2, HeadTailProperties
    <3>5. \A a \in Assets : Linked(a)' \/ \E k \in DOMAIN left' : left'[k] = a
      BY <2>1, <3>3, <3>4
    <3>6. left' \in Seq(Assets)
      BY <2>1, <3>1, HeadTailProperties
    <3>7. CASE left' # <<>>
      BY <1>1, <2>1, <3>1, <3>5, <3>6, <3>7 DEF AssetsKept, AssetsLinked
    <3>8. CASE left' = <<>>
      <4>1. DOMAIN left' = {}
        BY <3>8
      <4>. QED  BY <1>1, <3>1, <3>5, <3>8, <4>1 DEF AssetsKept, AssetsLinked, Assets, Linked, Entry
    <3>. QED  BY <3>7, <3>8
  <2>. QED  BY <2>2, <2>3
<1>4. CASE ~WriteMetadata /\ ~CopyAsset
  BY <1>1, <1>4, NotFiling DEF AssetsKept, AssetsLinked, Linked, Entry, passed
<1>. QED  BY <1>2, <1>3, <1>4

-----------------------------------------------------------------------------
LEMMA InvariantInit == Init => EvidenceInv
<1> SUFFICES ASSUME Init PROVE EvidenceInv
  OBVIOUS
<1> USE DEF Stages, Working, Exporting, Filing
<1>1. /\ stage = "idle" /\ suite = "none" /\ filed = <<>> /\ reads = {}
      /\ run = NoRun(0) /\ tool = NoTool /\ report = NoReport
      /\ export = NoExport /\ snapshot = NoSnapshot /\ metadata = NoMetadata
      /\ RepoInit
  BY DEF Init, RunnerInit
<1>2. DOMAIN run = RunFields /\ run.id = 0 /\ run.status = "running"
  BY <1>1 DEF NoRun, RunFields
<1>3. /\ DOMAIN report = {"sources", "checks", "status"} /\ checked = {}
      /\ DOMAIN tool = {"name", "step", "backend", "commands"} /\ tool.commands \in Seq({"0"})
  BY <1>1 DEF NoReport, NoTool, checked
<1>4. /\ DOMAIN export = {"current", "files"} /\ DOMAIN export.files = {"netlist", "statistics", "summary"}
      /\ DOMAIN metadata = {"cases", "session", "manifest"} /\ snapshot.session = 0 /\ ~published
  BY <1>1 DEF NoExport, NoFiles, NoSnapshot, NoMetadata, published
<1>5. Shapes
  BY <1>1, <1>2 DEF Shapes
<1>6. RepoKept
  BY <1>1 DEF RepoInit, RepoKept
<1>7. ToolsKept
  BY <1>1, <1>3 DEF ToolsKept
<1>8. Passing /\ RecordKept /\ ReadsKept /\ Rereading /\ SourcesKept /\ BothRan /\ PassedAsTested
  BY <1>1, <1>2 DEF Passing, RecordKept, ReadsKept, Rereading, SourcesKept, BothRan, PassedAsTested
<1>9. ExportKept /\ SnapshotKept /\ AssetsKept /\ AssetsLinked
  BY <1>1, <1>2, <1>4 DEF ExportKept, SnapshotKept, AssetsKept, AssetsLinked, passed
<1>. QED  BY <1>5, <1>6, <1>7, <1>8, <1>9 DEF EvidenceInv

LEMMA InvariantStep == EvidenceInv /\ [Next]_vars => EvidenceInv'
<1> SUFFICES ASSUME EvidenceInv, [Next]_vars PROVE EvidenceInv'
  OBVIOUS
<1>. QED  BY ShapesStep, RepoStep, PassingStep, RecordStep, ReadsStep, RereadingStep, SourcesStep,
             ToolsStep, BothRanStep, ExportKeptStep, SnapshotStep, AssetsStep, PassedStep DEF EvidenceInv

(* The hashes, the tools' checks, the snapshot and the assets stay together  *)
(* at every step of whatever is run.                                         *)
THEOREM Invariance == Spec => []EvidenceInv
<1>. QED  BY InvariantInit, InvariantStep, PTL DEF Spec

(* A session that passed read nothing but the versions its manifest records, *)
(* whatever was edited in between.                                           *)
THEOREM Tested == Spec => []PassedAsTested
<1>1. EvidenceInv => PassedAsTested
  BY DEF EvidenceInv
<1>. QED  BY <1>1, Invariance, PTL

(* The exporter publishes the hashes of what the signoff read.               *)
THEOREM Published == Spec => []PublishedAsTested
<1>1. EvidenceInv => PublishedAsTested
  <2> SUFFICES ASSUME EvidenceInv, published PROVE \A x \in reads : hashed_as(snapshot.hashes, x[1], x[2])
    BY DEF PublishedAsTested
  <2>1. run.status = "pass" /\ snapshot.hashes = run.input_hashes
    BY DEF EvidenceInv, SnapshotKept, passed
  <2>. QED  BY <2>1 DEF EvidenceInv, PassedAsTested
<1>. QED  BY <1>1, Invariance, PTL

(* A tool that failed or hung ends in no passed signoff, and one that was    *)
(* not there in no published summary.                                        *)
THEOREM Honoured == Spec => []ToolsHonoured
<1>1. EvidenceInv => ToolsHonoured
  <2> SUFFICES ASSUME EvidenceInv, passed("signoff"), NEW t \in {"verilator", "yosys"}
               PROVE  /\ report.checks[t].status # "FAIL"
                      /\ \A i \in DOMAIN report.checks[t].commands : report.checks[t].commands[i] = "0"
                      /\ published => report.checks[t].commands # <<>>
    BY DEF ToolsHonoured
  <2>1. t \in checked /\ report.checks[t].status # "FAIL"
    BY DEF EvidenceInv, BothRan, passed
  <2>2. Honest(report.checks[t])
    BY <2>1 DEF EvidenceInv, ToolsKept
  <2>3. published => report.checks[t].status = "PASS"
    BY DEF EvidenceInv, SnapshotKept, BothPassed
  <2>. QED  BY <2>1, <2>2, <2>3 DEF Honest
<1>. QED  BY <1>1, Invariance, PTL

(* The published summary is that of the published netlist, which the session *)
(* synthesized, though the file may be replaced between the two looks at it. *)
THEOREM NetlistPublished == Spec => []PublishedNetlist
<1>1. EvidenceInv => PublishedNetlist
  <2> SUFFICES ASSUME EvidenceInv, published
               PROVE  /\ snapshot.files.summary = inspect_netlist(snapshot.files.netlist)
                      /\ snapshot.files.netlist = report.checks["yosys"].files.netlist
    BY DEF PublishedNetlist
  <2>1. /\ "yosys" \in checked
        /\ snapshot.files.netlist = theirs.netlist /\ snapshot.files.summary = theirs.summary
    BY DEF EvidenceInv, SnapshotKept, BothPassed
  <2>2. Honest(report.checks["yosys"])
    BY <2>1 DEF EvidenceInv, ToolsKept
  <2>. QED  BY <2>1, <2>2 DEF Honest, theirs
<1>. QED  BY <1>1, Invariance, PTL

(* A showcase that passed leaves the assets of one session and its manifest. *)
THEOREM Linking == Spec => []AssetsLinked
<1>1. EvidenceInv => AssetsLinked
  BY DEF EvidenceInv
<1>. QED  BY <1>1, Invariance, PTL
===============================================================================
