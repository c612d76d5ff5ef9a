------------------------------ MODULE Encoding ------------------------------
(* The two-pass assembler of verification/encoding.py.  The text of a line   *)
(* is abstracted to what the parser makes of it: its labels in order, the    *)
(* mnemonic m ("" when there is none) and the operands a, which are          *)
(* integers (register numbers included) or labels; "offset(base)" is the two *)
(* operands offset and base.  The opcode tables are the encoder's own.       *)
EXTENDS Words, SequencesExt

EncodingError == -1     \* fits no field, so that a refusal spreads

fits(value, n) == value \in 0 .. 2^n - 1

_signed_imm(value) ==
  IF value \in -(2^(ImmBits - 1)) .. 2^(ImmBits - 1) - 1 THEN value % 2^ImmBits ELSE EncodingError

encode_r(s, t, d, sh, fn) ==
  IF {s, t, d, sh} \subseteq Register
  THEN s * 2^(ImmBits + RegBits) + t * 2^ImmBits + d * 2^(6 + RegBits) + sh * 2^6 + fn
  ELSE EncodingError

encode_i(op, s, t, field) ==
  IF {s, t} \subseteq Register /\ fits(field, ImmBits)
  THEN op * 2^(WordBits - 6) + s * 2^(ImmBits + RegBits) + t * 2^ImmBits + field
  ELSE EncodingError

region(a) == u32(a) \div 2^(WordBits - 4)

(* From a byte target and the address of the jump itself. *)
encode_j(op, target, pc) ==
  IF fits(target, WordBits) /\ target % 4 = 0 /\ region(pc + 4) = region(target)
  THEN op * 2^(WordBits - 6) + bits(target, 2, WordBits - 6)
  ELSE EncodingError

-----------------------------------------------------------------------------
RegisterOps == [ add |-> 32, addu |-> 33, sub |-> 34, subu |-> 35, and |-> 36, or |-> 37,
                 xor |-> 38, nor |-> 39, slt |-> 42 ]
ShiftOps    == [sll |-> 0, srl |-> 2, sra |-> 3]
LogicalOps  == [andi |-> 12, ori |-> 13, xori |-> 14]
MemoryOps   == [lb |-> 32, lh |-> 33, lw |-> 35, lbu |-> 36, lhu |-> 37, sb |-> 40, sh |-> 41, sw |-> 43]
BranchOps   == [beq |-> 4, bne |-> 5]
JumpOps     == [j |-> 2, jal |-> 3]

arity(m) ==
  CASE m \in {"nop", "eret"} -> 0
    [] m \in {".word", "j", "jal"} -> 1
    [] m = "lui" -> 2
    [] OTHER -> 3

_target(a, labels) == IF a \in DOMAIN labels THEN labels[a] ELSE a

(* Mutant: relative to the branch instead of the instruction after it. *)
_offset_from_branch(stmt, labels) ==
  LET a == stmt.a[3]
  IN  IF a \in DOMAIN labels THEN (labels[a] - stmt.address) \div 4 ELSE a

(* Labels are relative to PC+4, numbers are word offsets as they are. *)
_offset(stmt, labels) ==
  LET a == stmt.a[3]
  IN  IF a \in DOMAIN labels THEN (labels[a] - (stmt.address + 4)) \div 4 ELSE a

_encode_statement(stmt, labels) ==
  LET m == stmt.m
      a == stmt.a
  IN  IF Len(a) # arity(m) THEN EncodingError
      ELSE CASE m = ".word" -> IF fits(_target(a[1], labels), WordBits) THEN _target(a[1], labels)
                               ELSE EncodingError
             [] m = "nop"   -> 0
             [] m = "eret"  -> 24 * 2^(WordBits - 6)
             [] m = "lui"   -> encode_i(15, 0, a[1], a[2])
             [] m \in DOMAIN RegisterOps -> encode_r(a[2], a[3], a[1], 0, RegisterOps[m])
             [] m \in DOMAIN ShiftOps    -> encode_r(0, a[2], a[1], a[3], ShiftOps[m])
             [] m = "addi"  -> encode_i(8, a[2], a[1], _signed_imm(a[3]))
             [] m \in DOMAIN LogicalOps  -> encode_i(LogicalOps[m], a[2], a[1], a[3])
             [] m \in DOMAIN MemoryOps   -> encode_i(MemoryOps[m], a[3], a[1], _signed_imm(a[2]))
             [] m \in DOMAIN BranchOps   ->
                  encode_i(BranchOps[m], a[1], a[2], _signed_imm(_offset(stmt, labels)))
             [] m \in DOMAIN JumpOps     -> encode_j(JumpOps[m], _target(a[1], labels), stmt.address)
             [] OTHER -> EncodingError

-----------------------------------------------------------------------------
(* Pass one: addresses.  Pass two: words. *)

Name(st, label) ==
  IF label \in DOMAIN st.labels THEN [st EXCEPT !.failed = TRUE]
  ELSE [st EXCEPT !.labels = @ @@ (label :> st.pc)]

Org(st, a) ==
  IF Len(a) = 1 /\ fits(a[1], WordBits) /\ a[1] % 4 = 0 THEN [st EXCEPT !.pc = a[1]]
  ELSE [st EXCEPT !.failed = TRUE]

Place(st, line) ==
  IF st.pc > 2^WordBits - 1 - 4 THEN [st EXCEPT !.failed = TRUE]
  ELSE [ st EXCEPT !.statements = Append(@, [address |-> st.pc, m |-> line.m, a |-> line.a]),
                   !.pc = @ + 4 ]

ScanLine(st, line) ==
  LET named == FoldLeft(Name, st, line.labels)
  IN  CASE st.failed \/ named.failed -> [st EXCEPT !.failed = TRUE]
        [] ~named.failed /\ line.m = ""     -> named
        [] ~named.failed /\ line.m = ".org" -> Org(named, line.a)
        [] OTHER -> Place(named, line)

EncodeOne(st, stmt) ==
  LET word == _encode_statement(stmt, st.labels)
  IN  IF st.failed \/ stmt.address \in DOMAIN st.words \/ word = EncodingError
      THEN [st EXCEPT !.failed = TRUE]
      ELSE [st EXCEPT !.words = @ @@ (stmt.address :> word)]

assemble(source, base) ==
  LET first == FoldLeft(ScanLine,
                 [ failed |-> ~(fits(base, WordBits) /\ base % 4 = 0), pc |-> base, labels |-> <<>>,
                   statements |-> <<>>, words |-> <<>> ], source)
  IN  [FoldLeft(EncodeOne, first, first.statements) EXCEPT !.pc = base]

(* The words from start to end, as the memory image file holds them. *)
dense_words(image, first, last_exclusive) ==
  [a \in {x \in first .. last_exclusive - 1 : x % 4 = 0} |-> word_at(image.words, a)]
=============================================================================
