------------------------------ MODULE TraceFile ------------------------------
(* The files of a simulation and what verification/checker.py makes of them, *)
(* with their formats, bookkeeping columns and epochs, which Checker leaves  *)
(* out.  A trace is a header and rows of cells, a state dump a sequence of   *)
(* lines.  A cell is a number, or Unknown where the text is missing or is    *)
(* none.                                                                     *)
EXTENDS WordIss, SequencesExt

CONSTANT Unknown

HEX32 == { "pc", "instr", "next_pc", "rd_data", "mem_addr", "store_data", "bus_wdata",
           "load_raw", "load_value", "cause", "epc" }
BOOL  == {"trap", "rd_we", "mem_valid", "mem_write"}
TRACE_FIELDS == HEX32 \union BOOL \union { "epoch", "event_order", "retire_order", "cycle", "uid",
                                           "rd", "mem_size", "wstrb" }
ARCH_FIELDS  == TRACE_FIELDS \ {"cycle", "uid"}

(* _record_from_row: every cell in its range, and no column contradicting    *)
(* another.  The 64-bit bound of the counters is beyond any run.             *)
well_formed(r) ==
  /\ \A f \in TRACE_FIELDS : r[f] \in Nat
  /\ \A f \in HEX32 \union {"epoch"} : r[f] < 2^WordBits
  /\ \A f \in BOOL : r[f] \in {0, 1}
  /\ r.rd \in Register
  /\ r.wstrb < 16
  /\ IF r.mem_valid = 0 THEN r.mem_write = 0 /\ r.mem_size = 0 /\ r.wstrb = 0
     ELSE r.mem_size \in {1, 2, 4} /\ ((r.mem_write = 1) <=> (r.wstrb # 0))
  /\ r.trap = 1 => r.rd_we = 0 /\ r.mem_valid = 0

(* The rows before i in the epoch of row i. *)
earlier(rows, i) == {k \in 1 .. i - 1 : rows[k].epoch = rows[i].epoch}

(* validate_trace_integrity: epochs follow one another, and in an epoch the  *)
(* counters have no gap, the cycles grow and no uid comes twice.             *)
intact(rows) ==
  \A i \in DOMAIN rows :
    /\ i > 1 => rows[i].epoch \in {rows[i - 1].epoch, rows[i - 1].epoch + 1}
    /\ rows[i].event_order = Cardinality(earlier(rows, i))
    /\ rows[i].retire_order = Cardinality({k \in earlier(rows, i) : rows[k].trap = 0})
    /\ \A k \in earlier(rows, i) : rows[k].cycle < rows[i].cycle /\ rows[k].uid # rows[i].uid

(* Mutant: a trace may begin in any epoch. *)
next_state_any(st, r, i) == IF r.epoch = st.epoch + 1 THEN reset(st) ELSE st

(* The reference model before row i, which may be the first of an epoch. *)
next_state(st, r, i) == IF i > 1 /\ r.epoch = st.epoch + 1 THEN reset(st) ELSE st

(* compare_trace's loop: the model after the rows, same unless one differs. *)
replay(st, rows) ==
  LET after_row[i \in 0 .. Len(rows)] ==
        IF i = 0 THEN [state |-> st, same |-> TRUE]
        ELSE LET prior == after_row[i - 1]
                 s     == next_state(prior.state, rows[i], i)
                 e     == step_event(s)
             IN  IF ~prior.same THEN prior
                 ELSE [state |-> after(s, e), same |-> \A f \in ARCH_FIELDS : rows[i][f] = e[f]]
  IN  after_row[Len(rows)]

compare_trace(model, rows, expected_events, completion_pc) ==
  CASE ~intact(rows) -> "TRACE_INTEGRITY"
    [] intact(rows) /\ Len(rows) # expected_events -> "COMPLETION"
    [] intact(rows) /\ Len(rows) = expected_events /\ ~replay(model, rows).same -> "TRACE_MISMATCH"
    [] OTHER -> IF rows = <<>> \/ rows[Len(rows)].pc # completion_pc THEN "COMPLETION" ELSE "PASS"

-----------------------------------------------------------------------------
keys(lines, kind) == {lines[i].key : i \in {k \in DOMAIN lines : lines[k].kind = kind}}

value_of(lines, kind, key) ==
  lines[CHOOSE i \in DOMAIN lines : lines[i].kind = kind /\ lines[i].key = key].value

(* Mutant: a value that is none is taken for one. *)
state_readable_lax(lines) ==
  /\ lines # <<>> /\ lines[Len(lines)].kind = "END"
  /\ \A i \in DOMAIN lines :
       /\ lines[i].kind = "END" => i = Len(lines)
       /\ lines[i].kind = "REG" => lines[i].key \in Register
       /\ lines[i].kind = "MEM" => lines[i].key \in Nat /\ lines[i].key % 4 = 0
       /\ \A k \in DOMAIN lines : k # i => <<lines[k].kind, lines[k].key>> # <<lines[i].kind, lines[i].key>>

(* parse_state: readable lines, none twice, and END closes the dump. *)
state_readable(lines) ==
  /\ lines # <<>> /\ lines[Len(lines)].kind = "END"
  /\ \A i \in DOMAIN lines :
       /\ lines[i].kind = "END" => i = Len(lines)
       /\ lines[i].kind = "REG" => lines[i].key \in Register
       /\ lines[i].kind = "MEM" => lines[i].key \in Nat /\ lines[i].key % 4 = 0
       /\ lines[i].value \in Nat /\ lines[i].value < 2^WordBits
       /\ \A k \in DOMAIN lines : k # i => <<lines[k].kind, lines[k].key>> # <<lines[i].kind, lines[i].key>>

compare_state(model, lines) ==
  LET words == dump_words(model.memory)
  IN  CASE keys(lines, "REG") # Register \/ keys(lines, "MEM") # DOMAIN words -> "STATE_FORMAT"
        [] OTHER -> IF /\ \A r \in Register : value_of(lines, "REG", r) = model.gpr[r]
                       /\ \A a \in DOMAIN words : value_of(lines, "MEM", a) = words[a]
                    THEN "PASS" ELSE "STATE_MISMATCH"

(* END's key is the count of events, its value is completion_seen. *)
verify_run(model, trace, lines, expected_events, completion_pc) ==
  LET rows    == trace.rows
      verdict == compare_trace(model, rows, expected_events, completion_pc)
      end     == lines[Len(lines)]
  IN  IF ~trace.header \/ \E i \in DOMAIN rows : ~well_formed(rows[i]) THEN "TRACE_FORMAT"
      ELSE IF verdict # "PASS" THEN verdict
      ELSE IF ~state_readable(lines) THEN "STATE_FORMAT"
      ELSE IF end.key # Len(rows) \/ end.value # 1 THEN "COMPLETION"
      ELSE compare_state(replay(model, rows).state, lines)

-----------------------------------------------------------------------------
trace_csv(rows) == [header |-> TRUE, rows |-> rows]

(* The registers and the memory word by word, then the END marker. *)
state_text(gpr, words, event_count, completion_seen) ==
  LET line(kind, key, value) == [kind |-> kind, key |-> key, value |-> value]
      Listed(kind, f) == [i \in 1 .. Cardinality(DOMAIN f) |->
                            LET key == SetToSortSeq(DOMAIN f, <)[i] IN line(kind, key, f[key])]
  IN  Listed("REG", gpr) \o Listed("MEM", words) \o <<line("END", event_count, completion_seen)>>
=============================================================================
