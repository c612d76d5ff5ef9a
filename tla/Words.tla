-------------------------------- MODULE Words --------------------------------
(* Machine words, their fields and the address map, bit by bit.  All widths  *)
(* follow from the width of a register number: 5 in the code, which makes    *)
(* words of 32 bits, half-words of 16 and bytes of 8.  The proportions of    *)
(* the instruction formats are kept for every other choice.                  *)
EXTENDS Integers, Sequences, FiniteSetsExt, Bitwise

CONSTANTS
  RegBits,        \* 5 in the code
  RamSize         \* bytes of data RAM, 4096 in the code

ImmBits  == 6 + 2 * RegBits
WordBits == 2 * ImmBits
ByteBits == WordBits \div 4

ASSUME WordsAssumption ==
  /\ RegBits \in 2 .. 4         \* TLC's integers end before 32-bit words
  /\ RamSize \in Nat /\ RamSize > 0 /\ RamSize % 4 = 0

Register == 0 .. 2^RegBits - 1
LinkReg  == 2^RegBits - 1       \* r31

u32(x) == x % 2^WordBits

signed(x, n) == IF x >= 2^(n - 1) THEN x - 2^n ELSE x

s32(x)    == signed(u32(x), WordBits)
sext16(x) == signed(x, ImmBits)

(* The n bits of w from bit low upwards. *)
bits(w, low, n) == (w \div 2^low) % 2^n

nor(a, b) == 2^WordBits - 1 - (a | b)

opcode(w)    == bits(w, WordBits - 6, 6)
rs(w)        == bits(w, ImmBits + RegBits, RegBits)
rt(w)        == bits(w, ImmBits, RegBits)
rd(w)        == bits(w, 6 + RegBits, RegBits)
shamt(w)     == bits(w, 6, RegBits)
funct(w)     == bits(w, 0, 6)
immediate(w) == bits(w, 0, ImmBits)

(* The word a jump names: the top four bits of next, the rest from w. *)
jump_target(w, next) ==
  (next \div 2^(WordBits - 4)) * 2^(WordBits - 4) + 4 * bits(w, 0, WordBits - 6)

TRAP_VECTOR == 128
CSR_BASE    == 2^WordBits - 4096
CSR_INSTRET == CSR_BASE + 8
CSR_EPC     == CSR_BASE + 240
CSR_CAUSE   == CSR_BASE + 244

(* With the timing-dependent ones: CYCLE_LO, CYCLE_HI, STALL and REDIRECT. *)
VALID_CSRS == {CSR_BASE, CSR_BASE + 4, CSR_INSTRET, CSR_BASE + 12, CSR_BASE + 16,
               CSR_EPC, CSR_CAUSE}

in_csr_page(a) == a \in CSR_BASE .. CSR_BASE + 255

(* The program: words at addresses, zero (a NOP) in the gaps. *)
word_at(image, a) == IF a \in DOMAIN image THEN image[a] ELSE 0
=============================================================================
