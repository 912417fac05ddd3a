---------------------------- MODULE StringEncode ----------------------------
(***************************************************************************)
(* string_encode.h: a text packed into 64 bits, five or six bits per       *)
(* character from the top, and the number of characters in the last four   *)
(* bits.  A word is the set of its bits that are 1.  The text is fed one   *)
(* character at a time, as in the loop of encode.                          *)
(***************************************************************************)
EXTENDS Naturals, Sequences, SequencesExt

CONSTANTS
  Sample,     \* the characters of the long texts
  MaxChars    \* the length of the longest text

VARIABLES
  text,       \* str[0 .. i-1]
  kept,       \* the characters of text that found room
  r, l, bit   \* the locals of encode

stringVars == <<text, kept, r, l, bit>>

\* enum class CHCODE, in its order: sixteen short codes from C_SHORT, the long ones
\* from C_LONG.
Chcode == <<"0", "1", "2", "3", "4", "5", "a", "e", "i", "t", "-", "+", "/", "(", ")", ":",
            "6", "b", "c", "d", "7", "f", "g", "h", "8", "j", "k", "l", "m", "n", "o", "p",
            "q", "r", "s", "9", "u", "v", "w", "x", "y", "z", "?", ".", "@", "#", "$", "&">>
CodeValue(k) == IF k <= 16 THEN k - 1 ELSE 32 + (k - 17)

\* encode_map: a character has a code of its own or shares that of another one.
Upper == <<"A", "B", "C", "D", "E", "F", "G", "H", "I", "J", "K", "L", "M",
           "N", "O", "P", "Q", "R", "S", "T", "U", "V", "W", "X", "Y", "Z">>
Lower == <<"a", "b", "c", "d", "e", "f", "g", "h", "i", "j", "k", "l", "m",
           "n", "o", "p", "q", "r", "s", "t", "u", "v", "w", "x", "y", "z">>
Shared == {<<Upper[k], Lower[k]>> : k \in DOMAIN Upper} \cup
          {<<"[", "(">>, <<"]", ")">>, <<"{", "(">>, <<"}", ")">>, <<"<", "(">>, <<">", ")">>,
           <<"*", ".">>, <<",", ".">>, <<"_", "-">>, <<"=", "-">>, <<";", ":">>}
Characters == ToSet(Chcode) \cup {p[1] : p \in Shared} \cup {" "}

\* What a character comes back as.  encode_map[c] of a character that is not there
\* makes an entry with the value 0, which is the code of "0".
Canonical(c) == IF c \in ToSet(Chcode) THEN c
                ELSE IF \E p \in Shared : p[1] = c THEN (CHOOSE p \in Shared : p[1] = c)[2]
                ELSE "0"
Code(c) == CodeValue(CHOOSE k \in DOMAIN Chcode : Chcode[k] = Canonical(c))

Width(code) == IF code >= 32 THEN 6 ELSE 5
Bits(n, w) == {i \in 0 .. w - 1 : (n \div 2^i) % 2 = 1}
Field(word, from, w) == [i \in 0 .. w - 1 |-> IF from + i \in word THEN 2^i ELSE 0]
Value(word, from, w) == FoldFunction(+, 0, Field(word, from, w))

-----------------------------------------------------------------------------
StringInit == text = <<>> /\ kept = <<>> /\ r = {} /\ l = 0 /\ bit = 64

\* Mutant of Fits: the room of the length is forgotten.
FitsEverywhere(b) == bit >= b

Fits(b) == bit >= b + 4

\* Any character starts a text of up to two, those of Sample go on to MaxChars.
EncodeChar(c) ==
  LET b == Width(Code(c)) IN
  /\ Len(text) < IF ToSet(text) \cup {c} \subseteq Sample THEN MaxChars ELSE 2
  /\ text' = Append(text, c)
  /\ \/ /\ Fits(b)
        /\ bit' = bit - b
        /\ r' = r \cup {bit' + i : i \in Bits(Code(c), 6)}
        /\ l' = l + 1
        /\ kept' = Append(kept, c)
     \/ /\ ~Fits(b)
        /\ UNCHANGED <<kept, r, l, bit>>

StringNext == \E c \in Characters : EncodeChar(c)

\* if (l > 15) l = 15; return r | l;
EncodedText == r \cup Bits(IF l > 15 THEN 15 ELSE l, 4)

-----------------------------------------------------------------------------
\* decode_map
DecodeMap == <<"0", "1", "2", "3", "4", "5", "a", "e", "i", "t", "-", "+", "/", "(", ")", ":",
               "6", "b", "c", "d", "7", "f", "g", "h", "8", "j", "k", "l", "m", "n", "o", "p",
               "q", "r", "s", "9", "u", "v", "w", "x", "y", "z", "?", ".", "@", "#", "$", "&">>

\* One turn of decode's loop at bit at: its character, and the bit after it.
LongAt(word, at) == at \in word
CharAt(word, at) == DecodeMap[1 + IF LongAt(word, at) THEN 16 + Value(word, at - 5, 5)
                                                      ELSE Value(word, at - 4, 4)]

DecodeText(word) ==
  LET length == Value(word, 0, 4)
      from[at \in -6 .. 63, n \in 0 .. 15] ==
        IF n >= length \/ at <= 4 THEN <<>>
        ELSE <<CharAt(word, at)>> \o from[at - (IF LongAt(word, at) THEN 6 ELSE 5), n + 1]
  IN from[63, 0]

-----------------------------------------------------------------------------
StringTypeOK == /\ r \subseteq 4 .. 63 /\ bit \in 4 .. 64 /\ l \in 0 .. 12
                /\ Len(kept) <= Len(text)

\* decode gives back what encode kept, each character as the one it shares its code
\* with: the tables, the widths and the length agree.  Ten characters always fit,
\* and nothing is dropped as long as a long one would fit (string_encode.h:13-160).
RoundTrip == /\ DecodeText(EncodedText) = [k \in DOMAIN kept |-> Canonical(kept[k])]
             /\ Len(text) <= 10 \/ bit >= 10 => kept = text
=============================================================================
