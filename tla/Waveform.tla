------------------------------- MODULE Waveform --------------------------------
(* The VCD reader of scripts/build_showcase.py and what make_case samples    *)
(* with it and with the trace files next to it.  A dump is the sequence of   *)
(* its lines, [time] or [signal, value]; a value is written as its number is,*)
(* or "x".  A trace file is the sequence of its rows. *)
EXTENDS Integers, Sequences, FiniteSets, SequencesExt

CONSTANTS
  Period,      \* of the clock, in ticks
  MaxTime      \* bound: no dump is longer

COMMON  == {"clk", "trace_valid", "trace_pc", "trace_rd_data", "trace_rd", "trace_rd_we", "trace_cycle"}
FORWARD == COMMON \union {"ID_EX_pc", "idex_fire", "dbg_forward_a", "fwdA",
                          "exmem_result_value", "MEM_WB_result"}
LANE    == COMMON \union {"EX_MEM_pc", "db_req_a", "db_resp_v", "db_resp_r", "db_resp_d",
                          "external_load_value"}

isTime(line) == "time" \in DOMAIN line

(* Mutant: every line that changes the value is an event of its own. *)
record_every(events, t, v) ==
  IF events = <<>> \/ Last(events)[2] # v THEN Append(events, <<t, v>>) ELSE events

(* A later value at the same time replaces the one before. *)
record(events, t, v) ==
  IF events # <<>> /\ Last(events)[1] = t THEN [events EXCEPT ![Len(events)] = <<t, v>>]
  ELSE record_every(events, t, v)

(* The second pass drops what came back to the value before. *)
settle(events) ==
  FoldLeft(LAMBDA settled, e : IF settled # <<>> /\ Last(settled)[2] = e[2] THEN settled
                               ELSE Append(settled, e), <<>>, events)

VCD(dump, requested) ==
  LET read == FoldLeft(LAMBDA r, line :
                IF isTime(line) THEN [r EXCEPT !.now = line.time] ELSE
                IF line.signal \notin requested THEN r
                ELSE [r EXCEPT !.events[line.signal] = record(@, r.now, line.value)],
                [now |-> 0, events |-> [s \in requested |-> <<>>]], dump)
  IN  [s \in requested |-> settle(read.events[s])]

number(vcd, s, t) ==
  LET upto == SelectSeq(vcd[s], LAMBDA e : e[1] <= t)
  IN  IF upto = <<>> THEN "x" ELSE Last(upto)[2]

timestamps(vcd) == UNION {{vcd[s][i][1] : i \in DOMAIN vcd[s]} : s \in DOMAIN vcd}

(* number of every signal in want is what it is there. *)
reads_as(vcd, t, want) == \A s \in DOMAIN want : number(vcd, s, t) = want[s]

(* find: the first time something changes and the values are those, or -1. *)
find(vcd, want) ==
  LET found == {t \in timestamps(vcd) : reads_as(vcd, t, want)}
  IN  IF found = {} THEN -1 ELSE Min(found)

rising(vcd) == LET up == SelectSeq(vcd["clk"], LAMBDA e : e[2] = "1")
               IN  [i \in DOMAIN up |-> up[i][1]]

uniform(edges) ==
  Len(edges) > 2 /\ \A i \in 1 .. Len(edges) - 1 : edges[i + 1] - edges[i] = Period

(* trace_at: the one row that retires the instruction. *)
rows_at(trace, pc) == {i \in DOMAIN trace : trace[i].pc = pc}
trace_at(trace, pc) == trace[CHOOSE i \in rows_at(trace, pc) : TRUE]

(* The row of the trace, and that of the reference model, are the side's.    *)
rows_ok(files, side) ==
  /\ Cardinality(rows_at(files.trace, side.pc)) = 1
  /\ Cardinality(rows_at(files.expected_trace, side.pc)) = 1
  /\ trace_at(files.expected_trace, side.pc).rd_data = side.expected
  /\ LET row == trace_at(files.trace, side.pc)
     IN  row.rd_data = side.value /\ row.rd = side.rd /\ row.rd_we = "1"

retires(side) == [trace_valid |-> "1", trace_pc |-> side.pc, trace_rd |-> side.rd, trace_rd_we |-> "1"]

retired_as(files, side) == [trace_rd_data |-> side.value, trace_cycle |-> trace_at(files.trace, side.pc).cycle]

(* make_case for one panel: the checked retirement of the value and the      *)
(* decision that led to it.  Refused where the code raises ShowcaseError.    *)
sample(files, side) ==
  LET vcd           == VCD(files.waves, side.requested)
      retire_time   == find(vcd, retires(side))
      decision_time == find(vcd, side.decides)
  IN  [ failed |-> \/ ~rows_ok(files, side)
                   \/ ~uniform(rising(vcd))
                   \/ retire_time < 0 \/ ~reads_as(vcd, retire_time, retired_as(files, side))
                   \/ decision_time < 0 \/ ~reads_as(vcd, decision_time, side.checks),
        retire_timestamp   |-> retire_time,
        decision_timestamp |-> decision_time ]

(* render_svg: what both panels of a case show has to have a beginning and   *)
(* an end. *)
in_window(panels) ==
  LET times(f) == {panels[p][f] : p \in DOMAIN panels}
      start    == Min(times("decision_timestamp")) - Period
      end      == Max(times("retire_timestamp")) + Period
  IN  start >= 0 /\ end > start

-----------------------------------------------------------------------------
(* What the dump says: the values all signals have when the changes up to a  *)
(* time are done. *)
Replay(dump, t) ==
  LET later == {i \in DOMAIN dump : isTime(dump[i]) /\ dump[i].time > t}
      lines == IF later = {} THEN dump ELSE SubSeq(dump, 1, Min(later) - 1)
  IN  FoldLeft(LAMBDA values, line : IF isTime(line) THEN values ELSE (line.signal :> line.value) @@ values,
               <<>>, lines)

Screens(dump) == [t \in 0 .. MaxTime |-> Replay(dump, t)]

Settles(values, want) == \A s \in DOMAIN want : s \in DOMAIN values /\ values[s] = want[s]

FirstTime(screens, t, want) ==
  Settles(screens[t], want) /\ \A u \in 0 .. t - 1 : ~Settles(screens[u], want)

(* The clock rises more than twice, once a period. *)
Steady(screens) ==
  LET high(t) == t \in DOMAIN screens /\ Settles(screens[t], [clk |-> "1"])
      edges   == {t \in 0 .. MaxTime : high(t) /\ ~high(t - 1)}
  IN  /\ Cardinality(edges) > 2
      /\ \A t \in edges : (\E u \in edges : t < u) => Min({u \in edges : t < u}) = t + Period

(* The instruction decides there for the first time, by these values. *)
Decides(screens, side, t) == FirstTime(screens, t, side.decides) /\ Settles(screens[t], side.checks)

(* It retires there for the first time, as the one row of the trace says that*)
(* was checked. *)
Retires(screens, files, side, t) ==
  /\ FirstTime(screens, t, retires(side))
  /\ \E i \in DOMAIN files.trace :
       /\ \A j \in DOMAIN files.trace : files.trace[j].pc = side.pc <=> j = i
       /\ files.trace[i] = [pc |-> side.pc, rd |-> side.rd, rd_we |-> "1", rd_data |-> side.value,
                            cycle |-> files.trace[i].cycle]
       /\ Settles(screens[t], [trace_rd_data |-> side.value, trace_cycle |-> files.trace[i].cycle])
  /\ \E i \in DOMAIN files.expected_trace :
       /\ \A j \in DOMAIN files.expected_trace : files.expected_trace[j].pc = side.pc <=> j = i
       /\ files.expected_trace[i].rd_data = side.expected

Shows(files, side, panel) ==
  LET screens == Screens(files.waves)
  IN  /\ Steady(screens)
      /\ Decides(screens, side, panel.decision_timestamp)
      /\ Retires(screens, files, side, panel.retire_timestamp)

Showable(files, side) ==
  LET screens == Screens(files.waves)
  IN  /\ Steady(screens)
      /\ \E t \in 0 .. MaxTime : Decides(screens, side, t)
      /\ \E t \in 0 .. MaxTime : Retires(screens, files, side, t)
==============================================================================
