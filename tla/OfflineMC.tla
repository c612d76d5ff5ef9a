------------------------------ MODULE OfflineMC ------------------------------
(* Words of 20 bits, four registers, 16 bytes of RAM.  A trap leads to 128,  *)
(* where the programs end.                                                   *)
EXTENDS Offline

CONSTANTS A, B      \* labels

L(m, a) == [labels |-> <<>>, m |-> m, a |-> a]
At(names, m, a) == [labels |-> names, m |-> m, a |-> a]

(* Bytes with and without a sign, every one different in its word. *)
MCInitialRam == (0 :> 17 + 32 * 3 + 1024 * 30 + 32768 * 9) @@ (4 :> 32 * 31 + 1024 * 16)
                @@ (8 :> 5) @@ (12 :> 2^20 - 2)

(* What follows the instructions under test. *)
Rest == << L("j", <<Done>>), L(".org", <<128>>), At(<<Done>>, "nop", <<>>) >>

Program(lines) == [lines |-> lines \o Rest, base |-> 0]

(* Every access at every offset in and just outside RAM, r1 + offset.  r2 is *)
(* what a store writes.                                                      *)
Accesses ==
  { Program(<< L("addi", <<1, 0, 8>>), L("addi", <<2, 0, -183>>), L(m, <<2, offset, 1>>) >>) :
      m \in DOMAIN MemoryOps, offset \in (-9 .. -3) \union (4 .. 9) }

Operands == {<<5, -3>>, <<-512, 511>>, <<-1, -1>>}

Registers ==
  { Program(<< L("addi", <<1, 0, x[1]>>), L("addi", <<2, 0, x[2]>>), L(m, <<d, 1, 2>>) >>) :
      m \in DOMAIN RegisterOps, x \in Operands, d \in {0, 2} }

Shifts ==
  { Program(<< L("addi", <<1, 0, x>>), L(m, <<2, 1, sh>>) >>) :
      m \in DOMAIN ShiftOps, x \in {-7, 300}, sh \in {0, 3, 4} }

Immediates ==
  { Program(<< L("lui", <<1, 682>>), L("ori", <<1, 1, 853>>), L(m, <<2, 1, imm>>) >>) :
      m \in {"addi"} \union DOMAIN LogicalOps, imm \in {-513, -512, -1, 511, 512, 1023, 1024} }

(* Branches both ways, to labels and by word offsets, jumps, links, labels   *)
(* on a line together or alone.                                              *)
Branches ==
  { Program(<< L("addi", <<1, 0, x>>), L(m, <<1, 0, A>>), L("addi", <<2, 0, 7>>),
               At(<<A, B>>, "", <<>>), L("addi", <<2, 2, 1>>), L("jal", <<Done>>) >>) :
      m \in DOMAIN BranchOps, x \in {0, 1} }
  \union
  { Program(<< L("j", <<B>>), At(<<A>>, "addi", <<2, 2, 1>>), L("j", <<Done>>),
               At(<<B>>, "nop", <<>>), L(m, <<0, 0, offset>>) >>) :
      m \in DOMAIN BranchOps, offset \in {A, -4, 0, 511, 512, -513} }

(* A handler that repairs and returns, the trap registers and the counter. *)
Traps ==
  { [base |-> 0, lines |->
       << L("lb", <<1, 16, 2>>), L("j", <<Done>>), L(".org", <<128>>), L("addi", <<2, 0, -16>>), L("eret", <<>>),
          At(<<Done>>, "sub", <<3, 1, 2>>) >>] }
  \union
  { [base |-> 0, lines |->
       << L("nop", <<>>), L(".word", <<w>>), L(".org", <<128>>), L("lui", <<1, 1020>>), At(<<Done>>, "lw", <<2, csr, 1>>) >>] :
      w \in {24 * 2^14 + 1, 63, 2^20 - 1}, csr \in {8, 240, 244} }
  \union
  { Program(<< L("lui", <<1, 1020>>), L(m, <<2, csr, 1>>) >>) :
      m \in {"lh", "sw", "lbu"}, csr \in {8, 20, 240} }

(* Layout: overlaps, doubled labels, the ends of the address space, of a     *)
(* jump's region and of a branch's reach, operands that fit nowhere.         *)
Layouts ==
  { [base |-> b, lines |-> << At(<<A>>, "addi", <<1, 0, 1>>), L(".org", <<o>>), At(<<B>>, ".word", <<B>>),
                              L("j", <<t>>), At(<<Done>>, "nop", <<>>) >>] :
      b \in {0, 64}, o \in {0, 4, 62, 64, 65524, 65528, 65532, 2^20 - 16, 2^20 - 12, 2^20},
      t \in {A, Done, 65536} }
  \union
  { [base |-> b, lines |-> << At(<<A>>, "nop", <<>>), L(".org", <<o>>), L("bne", <<0, 0, A>>),
                              L("beq", <<0, 0, Done>>), L(".org", <<o + d>>), At(<<Done>>, "nop", <<>>) >>] :
      b \in {0, 6}, o \in {2044, 2048}, d \in {8, 2052, 2056} }
  \union
  { Program(<< L("jal", <<A>>), L(".org", <<o>>), At(<<A>>, "bne", <<3, 0, t>>), L("j", <<Done>>) >>) :
      o \in {120, 252, 256}, t \in {A, Done, 0} }
  \union
  { Program(<<x>>) : x \in { L("addi", <<4, 0, 0>>), L("add", <<1, 2>>), L("mul", <<1, 2, 3>>), L("sw", <<1, A, 0>>),
                             L(".word", <<2^20>>), L("beq", <<0, 0, B>>), At(<<Done>>, "nop", <<>>) } }

MCSources == Accesses \union Registers \union Shifts \union Immediates \union Branches \union Traps \union Layouts

(* Loads, stores, a link and a trap. *)
MCFaultSources ==
  { Program(<< L("addi", <<1, 0, -3>>), L("sb", <<1, 5, 0>>), L("lh", <<2, 4, 0>>), L("lw", <<2, 2, 0>>) >>),
    Program(<< L("jal", <<A>>), At(<<A>>, "sw", <<3, 12, 0>>) >>) }

MCAll == MCSources \union MCFaultSources
=============================================================================
