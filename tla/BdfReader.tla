------------------------------ MODULE BdfReader -----------------------------
(***************************************************************************)
(* bdfread.cpp: the main program reads a BDF font line by line and looks   *)
(* for a glyph. A line of the file is a record: key is the word it begins  *)
(* with, if the program looks for that word there, and arg the number      *)
(* that std::stoi finds behind it, or Unreadable if it throws. Any other   *)
(* line is a "ROW" if std::stoi(line, nullptr, 16) finds a number in it,   *)
(* as it does in DWIDTH, BBX or COMMENT too, and "OTHER" if that throws.   *)
(* The text after the last newline is no line (cut). CHARSET_REGISTRY and  *)
(* the number of glyphs announced are only printed. There is memory for    *)
(* what positive numbers ask for.                                          *)
(***************************************************************************)
EXTENDS Integers, Sequences, FiniteSets

CONSTANTS
  Files,      \* the files read
  Wanted,     \* the codes whose UTF-8 is looked for
  Unreadable  \* in place of a number

\* Every glyph comes after a code: current.code is not initialised.
ASSUME FilesAssumption ==
  \A f \in Files : \A k \in DOMAIN f :
    f[k].key = "ENDCHAR" => \E i \in 1 .. k - 1 : f[i].key = "ENCODING"

VARIABLES
  file,
  pos,        \* the line to be read
  fontSize,
  current,
  onBitmap,
  fontList,
  reader,     \* what main does
  body        \* the first line behind the header

bdfVars == <<file, pos, fontSize, current, onBitmap, fontList, reader, body>>

\* inrange: the last range of the code is empty, from 0xfff0 down to 0xffef.  A negative
\* code is a large one there, as uint32_t.
InRange(c) == \/ c \in 0 .. 127 \/ c \in 8192 .. 8303 \/ c \in 9632 .. 10751
              \/ c \in 12288 .. 12351 \/ c \in 12352 .. 12447 \/ c \in 12448 .. 12543
              \/ c \in 19968 .. 40956 \/ c \in 65520 .. 65519

\* convert: the bytes up to the first zero, so none for code 0 and for those above 0xffff.
Convert(c) ==
  IF c \in 1 .. 127 THEN <<c>>
  ELSE IF c \in 128 .. 2047 THEN <<192 + c \div 64, 128 + (c % 64)>>
  ELSE IF c \in 2048 .. 65535 THEN <<224 + c \div 4096, 128 + ((c \div 64) % 64), 128 + (c % 64)>>
  ELSE <<>>

BdfInit == /\ file \in Files
           /\ pos = 1
           /\ fontSize = 16
           /\ current = [code |-> -1, utf8 |-> <<>>, bitmap |-> <<>>]
           /\ onBitmap = -1
           /\ fontList = <<>>
           /\ reader = "properties"
           /\ body = 0

Line == file[pos]
AtLine(doing) == reader = doing /\ pos <= Len(file)
AtEnd(doing) == reader = doing /\ pos > Len(file)

-----------------------------------------------------------------------------
(* The header *)

\* std::stoi throws, and nobody catches.
Property == /\ AtLine("properties")
            /\ pos' = pos + 1
            /\ \/ /\ Line.key = "PIXEL_SIZE" /\ Line.arg = Unreadable
                  /\ reader' = "aborted"
                  /\ UNCHANGED fontSize
               \/ /\ Line.key = "PIXEL_SIZE" /\ Line.arg # Unreadable
                  /\ fontSize' = Line.arg
                  /\ UNCHANGED reader
               \/ /\ Line.key # "PIXEL_SIZE"
                  /\ reader' = IF Line.key = "ENDPROPERTIES" THEN "count" ELSE reader
                  /\ UNCHANGED fontSize
            /\ UNCHANGED <<file, current, onBitmap, fontList, body>>
InvalidFormat == /\ AtEnd("properties")
                 /\ reader' = "invalid"
                 /\ UNCHANGED <<file, pos, fontSize, current, onBitmap, fontList, body>>
\* The line behind the properties, fontList.reserve(count) and current.bitmap.resize(fontSize),
\* which throw for a negative number: it is a size_t.
BadCount == /\ pos <= Len(file) /\ Line.key = "CHARS"
            /\ Line.arg = Unreadable \/ Line.arg < 0
CountLine == /\ reader = "count"
             /\ pos' = pos + 1
             /\ IF BadCount \/ fontSize < 0
                THEN reader' = "aborted" /\ UNCHANGED <<current, body>>
                ELSE /\ body' = pos'
                     /\ current' = [current EXCEPT !.bitmap = [y \in 0 .. fontSize - 1 |-> 0]]
                     /\ reader' = "glyphs"
             /\ UNCHANGED <<file, fontSize, onBitmap, fontList>>

-----------------------------------------------------------------------------
(* The glyphs *)

Glyph(key) == /\ AtLine("glyphs")
              /\ Line.key = key
              /\ pos' = pos + 1
              /\ UNCHANGED <<file, fontSize, body>>

Encoding == /\ Glyph("ENCODING")
            /\ \/ /\ Line.arg # Unreadable
                  /\ current' = [current EXCEPT !.code = Line.arg, !.utf8 = Convert(Line.arg)]
                  /\ UNCHANGED reader
               \/ Line.arg = Unreadable /\ reader' = "aborted" /\ UNCHANGED current
            /\ UNCHANGED <<onBitmap, fontList>>
Bitmap == /\ Glyph("BITMAP")
          /\ onBitmap' = 0
          /\ UNCHANGED <<current, fontList, reader>>
\* current is not cleared: what the next glyph does not set it inherits.
EndChar == /\ Glyph("ENDCHAR")
           /\ onBitmap' = -1
           /\ fontList' = IF InRange(current.code) THEN Append(fontList, current) ELSE fontList
           /\ UNCHANGED <<current, reader>>
\* current.bitmap[onBitmap++] = ...: more rows than the font's size are written behind
\* the vector.
RowTo(y) == /\ Glyph("ROW")
            /\ IF y \in 0 .. fontSize - 1
               THEN /\ current' = [current EXCEPT !.bitmap[y] = Line.arg]
                    /\ onBitmap' = onBitmap + 1
                    /\ UNCHANGED reader
               ELSE /\ reader' = "undefined"
                    /\ UNCHANGED <<current, onBitmap>>
            /\ UNCHANGED fontList

\* Mutant of Row: ++onBitmap in place of onBitmap++.
RowNext == onBitmap >= 0 /\ RowTo(onBitmap + 1)
Row == onBitmap >= 0 /\ RowTo(onBitmap)

\* Among the rows, a line that does not begin with a hexadecimal digit, or a row of 32
\* pixels whose first is set: std::stoi throws.
OtherLine == /\ \/ \E key \in {"STARTCHAR", "OTHER"} : Glyph(key)
                \/ onBitmap = -1 /\ Glyph("ROW")
             /\ reader' = IF onBitmap >= 0 /\ Line.key = "OTHER" THEN "aborted" ELSE reader
             /\ UNCHANGED <<current, onBitmap, fontList>>

\* The end of the file, and std::find for argv[2]
Found(word) == {k \in DOMAIN fontList : fontList[k].utf8 = word}
Search == /\ AtEnd("glyphs")
          /\ \E c \in Wanted : reader' = IF Found(Convert(c)) = {} THEN "not found" ELSE "found"
          /\ UNCHANGED <<file, pos, fontSize, current, onBitmap, fontList, body>>

BdfNext == Property \/ InvalidFormat \/ CountLine
           \/ Encoding \/ Bitmap \/ EndChar \/ Row \/ OtherLine \/ Search

-----------------------------------------------------------------------------
BdfTypeOK == /\ body # 0 => DOMAIN current.bitmap = 0 .. fontSize - 1
             /\ onBitmap \in {-1} \cup 0 .. fontSize

\* The file read as a whole: the last line before the k-th with the word key, and the
\* rows.  Row y is the y-th after a BITMAP and before the ENDCHAR that follows it.
Read(key) == {k \in body .. pos - 1 : file[k].key = key}
LastOf(S, k) == LET before == {i \in S : i < k} IN
                IF before = {} THEN 0 ELSE CHOOSE i \in before : \A j \in before : j <= i
RowAt(i) == LET b == LastOf(Read("BITMAP"), i) IN
            IF LastOf(Read("ENDCHAR"), i) > b THEN -1
            ELSE Cardinality({j \in Read("ROW") : b < j /\ j < i})
ArgOf(i) == IF i = 0 THEN 0 ELSE file[i].arg
Decode(bytes) == CASE Len(bytes) = 1 -> bytes[1]
                   [] Len(bytes) = 2 -> (bytes[1] % 32) * 64 + (bytes[2] % 64)
                   [] Len(bytes) = 3 -> (bytes[1] % 16) * 4096 + (bytes[2] % 64) * 64 + (bytes[3] % 64)
                   [] OTHER -> 0

\* The fonts stored are the glyphs of the file whose code is in range, in its order: each
\* with the last code given before its ENDCHAR, in UTF-8 that reads as that code, and in
\* row y the last number that stood at row y after a BITMAP, of an earlier glyph where it
\* has fewer rows itself (bdfread.cpp:201-232).
Stored == {k \in Read("ENDCHAR") : InRange(ArgOf(LastOf(Read("ENCODING"), k)))}
GlyphsStand ==
  reader \in {"found", "not found", "aborted"} /\ body # 0 =>
    LET stored == Stored
        rowAt == [i \in Read("ROW") |-> RowAt(i)]
    IN
    /\ Len(fontList) = Cardinality(stored)
    /\ \A k \in stored :
         LET font == fontList[Cardinality({i \in stored : i <= k})] IN
         /\ font.code = ArgOf(LastOf(Read("ENCODING"), k)) /\ Decode(font.utf8) = font.code
         /\ \A y \in DOMAIN font.bitmap :
              font.bitmap[y] = ArgOf(LastOf({i \in DOMAIN rowAt : rowAt[i] = y}, k))
=============================================================================
