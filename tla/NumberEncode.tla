---------------------------- MODULE NumberEncode ----------------------------
(***************************************************************************)
(* number_encode.h: a number hidden in a code by an xor, a multiplication  *)
(* and a rotation that a counter chooses, and the arithmetic on codes.     *)
(* The widths are parameters: 32, 27 and 5 in the code, where a number     *)
(* times a multiplier has 59 bits and a code 64.                           *)
(*                                                                         *)
(* The model is a machine with registers that hold codes, as               *)
(* number_shuffle.cpp uses them: a new code, a sum, a difference.          *)
(***************************************************************************)
EXTENDS Integers, Bitwise

CONSTANTS
  NumBits, MulBits, ShiftBits,
  EncodeTable,     \* encode_table: 0 .. 2^ShiftBits, numbers of NumBits bits
  NbRegisters

Registers == 1 .. NbRegisters
WordBits == NumBits + MulBits
Numbers == 0 .. 2^NumBits - 1

ASSUME WidthAssumption == 2^ShiftBits <= WordBits
ASSUME TableAssumption == /\ DOMAIN EncodeTable = 0 .. 2^ShiftBits
                          /\ \A k \in DOMAIN EncodeTable : EncodeTable[k] \in Numbers
                          /\ \A k \in 1 .. 2^ShiftBits : EncodeTable[k] % 2^MulBits # 0

VARIABLES
  shift_count,     \* modulo 2^ShiftBits, all that is used of it
  code,            \* per register, a code
  stands           \* per register, the number its code stands for

numberVars == <<shift_count, code, stands>>

\* get_encode_number(idx)
XorWith(idx) == EncodeTable[idx]
TimesWith(idx) == EncodeTable[idx + 1] % 2^MulBits

\* rotate(n, n_sh): the upper n_sh bits come back at the bottom.
Rotate(n, n_sh) == ((n \div 2^(WordBits - n_sh)) % 2^n_sh) + ((n * 2^n_sh) % 2^WordBits)

\* The code's fields: the lower NumBits bits of the rotated word are its upper part,
\* then the shift, then the rest.
Pack(w, s) == ((w % 2^NumBits) * 2^(MulBits + ShiftBits)) + (s * 2^MulBits) + ((w \div 2^NumBits) % 2^MulBits)
Unpack(c) == ((c % 2^MulBits) * 2^NumBits) + ((c \div 2^(MulBits + ShiftBits)) % 2^NumBits)
ShiftOf(c) == (c \div 2^MulBits) % 2^ShiftBits

\* encode(num) with the counter at s
EncodeNumber(num, s) == Pack(Rotate((num ^^ XorWith(s)) * TimesWith(s), s), s)

\* decode(code)
DecodeNumber(c) ==
  LET s == ShiftOf(c) IN ((Rotate(Unpack(c), WordBits - s) \div TimesWith(s)) ^^ XorWith(s)) % 2^NumBits

-----------------------------------------------------------------------------
\* number_shuffle.cpp begins with a few calls encode(0).
NumberInit == /\ shift_count = NbRegisters % 2^ShiftBits
              /\ code = [g \in Registers |-> EncodeNumber(0, g % 2^ShiftBits)]
              /\ stands = [g \in Registers |-> 0]

\* Mutant of Put: the counter moves after it has been used for the table, before it
\* is stored: the code says a shift it was not made with.
PutLate(g, n) == LET s == (shift_count + 1) % 2^ShiftBits IN
  /\ shift_count' = s
  /\ code' = [code EXCEPT ![g] = Pack(Rotate((n ^^ XorWith(shift_count)) * TimesWith(shift_count), s), s)]

\* s = ++shift_count & 31, and the code goes to a register
Put(g, n) == LET s == (shift_count + 1) % 2^ShiftBits IN
  /\ shift_count' = s
  /\ code' = [code EXCEPT ![g] = EncodeNumber(n, s)]

NewCode(g, n) == Put(g, n) /\ stands' = [stands EXCEPT ![g] = n]

\* add(a, b) and sub(a, b), on uint32_t
Plus(g, a, b) == /\ Put(g, (DecodeNumber(code[a]) + DecodeNumber(code[b])) % 2^NumBits)
                 /\ stands' = [stands EXCEPT ![g] = (stands[a] + stands[b]) % 2^NumBits]
Minus(g, a, b) == /\ Put(g, (DecodeNumber(code[a]) - DecodeNumber(code[b])) % 2^NumBits)
                  /\ stands' = [stands EXCEPT ![g] = (stands[a] - stands[b]) % 2^NumBits]

NumberNext == \/ \E g \in Registers, n \in Numbers : NewCode(g, n)
              \/ \E g, a, b \in Registers : Plus(g, a, b) \/ Minus(g, a, b)

-----------------------------------------------------------------------------
NumberTypeOK == /\ shift_count \in 0 .. 2^ShiftBits - 1
                /\ code \in [Registers -> 0 .. 2^(WordBits + ShiftBits) - 1]
                /\ stands \in [Registers -> Numbers]

\* Whatever was encoded, added and subtracted, and however often the counter went
\* round, a code is decoded to the number it stands for; so equal, greater and less
\* compare the numbers (number_encode.h:27-100).
CodeStands == \A g \in Registers : DecodeNumber(code[g]) = stands[g]
=============================================================================
