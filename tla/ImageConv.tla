------------------------------ MODULE ImageConv -----------------------------
(***************************************************************************)
(* conv_arimg.cpp: the main program reads a PNG picture, packs its pixels  *)
(* into 16 bits (5 red, 6 green, 5 blue) and writes them behind a header   *)
(* of two int16_t.                                                         *)
(*                                                                         *)
(* libpng is taken for its rows of bytes.  A bad picture ends the program  *)
(* in it: png_error without a setjmp aborts.  Of a picture with 16 bits a  *)
(* channel create() takes the two bytes of a sample for two channels: what *)
(* the file shows is stated for 8 bits.                                    *)
(***************************************************************************)
EXTENDS Integers, Sequences

CONSTANTS
  Sizes,     \* <<width, height>> of the pictures
  Seeds,     \* what makes pictures of one size differ: see ByteOf
  DimLimit,  \* the first number that one of the header does not hold, 2^15 in the code
  IntLimit   \* the first number an int does not hold, 2^31 in the code

ASSUME PictureAssumption == /\ Sizes \subseteq (Nat \ {0}) \X (Nat \ {0}) /\ Seeds \subseteq Nat
                            /\ DimLimit \in Nat \ {0} /\ IntLimit \in Nat \ {0}

Kinds == {"rgb", "rgba", "gray alpha", "gray", "palette"}
Defects == {"none", "missing", "short", "not png", "broken"}

VARIABLES
  png,       \* the picture: size, kind, depth, seed and what is wrong with it
  image,     \* image->buffer
  img16,     \* img16.buffer
  written,   \* the output file: <<>> or its numbers and bytes
  conv       \* where main is

imageVars == <<png, image, img16, written, conv>>

Pictures == [size : Sizes, kind : Kinds, depth : {8, 16}, seed : Seeds, defect : Defects]

ImageInit == /\ png \in Pictures
             /\ image = <<>> /\ img16 = <<>> /\ written = <<>>
             /\ conv = "open"

Channels == CASE png.kind = "rgba" -> 4 [] png.kind = "rgb" -> 3
              [] png.kind = "gray alpha" -> 2 [] OTHER -> 1
PixelNumbers == 0 .. png.size[1] * png.size[2] - 1

\* The bytes of the rows, one behind the other: img of read_png.
ByteOf(k) == (png.seed + 37 * k) % 256

Converts(from, to) == conv = from /\ conv' = to

\* fopen, the signature, and the colour type
OpenPng == /\ Converts("open", IF png.defect \in {"missing", "short", "not png"} THEN "refused"
                               ELSE IF png.kind \in {"rgb", "rgba", "gray alpha"} THEN "read"
                               ELSE "refused")
           /\ UNCHANGED <<png, image, img16, written>>
\* png_read_info and png_read_image, and Image::create
ReadFails == /\ Converts("read", "aborted")
             /\ png.defect = "broken"
             /\ UNCHANGED <<png, image, img16, written>>
\* w * h * 3 and base * ch are computed in an int.
TooLarge == \/ png.size[1] * png.size[2] * 3 >= IntLimit
            \/ (png.size[1] * png.size[2] - 1) * Channels >= IntLimit
\* The overflow is undefined.  Where the product wraps round it is a size no vector has, one
\* too small, or a place outside of the rows.
CreateOverflows == /\ conv = "read" /\ conv' \in {"aborted", "undefined"}
                   /\ png.defect = "none" /\ TooLarge
                   /\ UNCHANGED <<png, image, img16, written>>
Create == /\ Converts("read", "translate")
          /\ png.defect = "none" /\ ~TooLarge
          /\ image' = [k \in PixelNumbers |->
                         IF Channels \in {3, 4}
                         THEN [c \in 1 .. 3 |-> ByteOf(k * Channels + c - 1)]
                         ELSE [c \in 1 .. 3 |-> ByteOf(k * Channels)]]
          /\ UNCHANGED <<png, img16, written>>

\* Mutant of Packed: six bits of green taken for five.
PackedNarrow(p) == (p[1] \div 8) * 2048 + (p[2] \div 8) * 32 + p[3] \div 8

\* r << 11 | g << 5 | b
Packed(p) == (p[1] \div 8) * 2048 + (p[2] \div 4) * 32 + p[3] \div 8

\* Image16::translate: two bytes a pixel, the lower first
Translate == /\ Converts("translate", "write")
             /\ img16' = [k \in 0 .. 2 * (png.size[1] * png.size[2]) - 1 |->
                            LET px == Packed(image[k \div 2]) IN
                            IF k % 2 = 0 THEN px % 256 ELSE px \div 256]
             /\ UNCHANGED <<png, image, written>>

\* write_img: an int as int16_t.  A file that does not open is not noticed.
Int16(i) == LET u == i % (2 * DimLimit) IN IF u < DimLimit THEN u ELSE u - 2 * DimLimit
Write == /\ Converts("write", "done")
         /\ written' \in {<<>>, <<Int16(png.size[1]), Int16(png.size[2]), img16>>}
         /\ UNCHANGED <<png, image, img16>>

ImageNext == OpenPng \/ ReadFails \/ CreateOverflows \/ Create \/ Translate \/ Write

-----------------------------------------------------------------------------
ImageTypeOK == /\ \A k \in DOMAIN image : \A c \in 1 .. 3 : image[k][c] \in 0 .. 255
               /\ \A k \in DOMAIN img16 : img16[k] \in 0 .. 255

\* A reader of the file that fills its size sees the picture: every pixel in its place,
\* each colour less than one step of its bits away from that of the PNG, grey as grey,
\* and nothing of the alpha channel (conv_arimg.cpp:66-127, 210-229).  A side longer
\* than an int16_t holds is another number in the header.
Pixel(k) == LET px == written[3][2 * k] + 256 * written[3][2 * k + 1] IN
            <<(px \div 2048) * 8, ((px \div 32) % 64) * 4, (px % 32) * 8>>
Near(shown, real, step) == shown <= real /\ real < shown + step
Colour(k, c) == ByteOf(k * Channels + (IF png.kind = "gray alpha" THEN 0 ELSE c - 1))
FileShows ==
  written # <<>> =>
    /\ png.defect = "none" /\ png.kind \in {"rgb", "rgba", "gray alpha"}
    /\ \A d \in 1 .. 2 : written[d] = png.size[d] <=> png.size[d] < DimLimit
    /\ png.depth = 8 => \A k \in PixelNumbers : \A c \in 1 .. 3 :
                          Near(Pixel(k)[c], Colour(k, c), IF c = 2 THEN 4 ELSE 8)
=============================================================================
