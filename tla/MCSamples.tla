------------------------------ MODULE MCSamples -----------------------------
(* Samples with small words, lists and streams for model checking. *)
EXTENDS Samples

\* Multipliers of three bits, none of them 0.
MCTable == 0 :> 9 @@ 1 :> 5 @@ 2 :> 14 @@ 3 :> 3 @@ 4 :> 7

\* The list of input_step.cpp, and every list of three short steps.
Played == {<<[v |-> 1, c |-> 4], [v |-> 0, c |-> 2], [v |-> 1, c |-> 3], [v |-> 0, c |-> 5],
             [v |-> 1, c |-> 2], [v |-> 0, c |-> 1], [v |-> 1, c |-> 2], [v |-> 0, c |-> 1]>>}
Short == [v : {0, 1}, c : 1 .. 3]
MCStepLists == Played \cup (Short \X Short \X Short)

\* Allocations that fit into four units of work memory, and some that do not.
MCRequestLists == {<<1, 2, 1>>, <<3, 2>>}

\* Fonts of two rows: every pair of a full and a lower glyph, among codes of one, two,
\* three and four bytes of UTF-8, of none and without a code; and files cut off anywhere,
\* without a size, with too many rows, a strange line or DWIDTH among them, or with a
\* number that is none or negative.
L(key, arg) == [key |-> key, arg |-> arg]
Header == <<L("OTHER", 0), L("PIXEL_SIZE", 2), L("ENDPROPERTIES", 0), L("CHARS", 3)>>
GlyphOf(c, rows) == <<L("STARTCHAR", 0), L("ENCODING", c), L("OTHER", 0), L("BITMAP", 0)>>
                      \o [y \in DOMAIN rows |-> L("ROW", rows[y])] \o <<L("ENDCHAR", 0)>>
Codes == {-1, 65, 127, 233, 8192, 12354, 40956, 65313, 128512}
Pairs2 == {Header \o GlyphOf(c, <<3, 4>>) \o GlyphOf(d, rows) \o GlyphOf(12354, <<7>>) :
             c \in Codes, d \in Codes, rows \in {<<5>>, <<5, 6>>}}
Cut == {SubSeq(f, 1, k) : f \in {Header \o GlyphOf(65, <<3, 4>>)}, k \in 1 .. 10}
Strange == {Header \o GlyphOf(65, <<1, 2, 3>>), Header \o GlyphOf(65, <<1>>) \o GlyphOf(66, <<>>),
            SubSeq(Header, 3, 4) \o GlyphOf(65, <<1, 2, 3>>),
            Header \o SubSeq(GlyphOf(65, <<1>>), 1, 5) \o <<L("OTHER", 0), L("ENDCHAR", 0)>>,
            Header \o <<L("ROW", 9)>> \o SubSeq(GlyphOf(65, <<1, 2>>), 1, 5)
                   \o GlyphOf(66, <<3, 4>>)}
FileNumbers == {Unreadable, -2, 1}
Numbered == {<<L("PIXEL_SIZE", n), L("ENDPROPERTIES", 0), L("CHARS", m)>>
               \o GlyphOf(65, <<3>>) \o GlyphOf(k, <<13>>) :
               n \in FileNumbers, m \in FileNumbers, k \in FileNumbers}
MCFiles == Pairs2 \cup Cut \cup Strange \cup Numbered

\* Pictures that fit into the numbers of the header, some that do not, and those whose
\* bytes an int does not count, all of them or those with an alpha channel.
MCSizes == {<<1, 1>>, <<1, 2>>, <<3, 2>>, <<4, 3>>, <<5, 2>>}
=============================================================================
