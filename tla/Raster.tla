------------------------------- MODULE Raster -------------------------------
(***************************************************************************)
(* The commands server/app.js sends for a picture and for a QR code:       *)
(* imageBufferToEscPos cuts the picture into bands of GS v 0, qrToEscPos   *)
(* stores the data with GS ( k, and markdownToRasterEscPos sizes the       *)
(* picture that lines of text are drawn on (lines 384-494, 602-619).       *)
(*                                                                         *)
(* Decoding and scaling of images are sharp's.  A picture is its size in   *)
(* dots and the set of its dark dots, <<x, y>> from the upper left corner, *)
(* those whose pixel is below the threshold.  A byte of a raster is the    *)
(* set of its bits.                                                        *)
(***************************************************************************)
EXTENDS Integers

CONSTANTS
    LineHeight,         \* RASTER_LINE_HEIGHT
    FontSize            \* RASTER_FONT_SIZE

ASSUME FontAssumption ==
    /\ {LineHeight, FontSize} \subseteq Nat \ {0}
    /\ FontSize <= LineHeight

Picture(width, height, dark) == [width |-> width, height |-> height, dark |-> dark]

\* A two-byte field of a command: n & 0xff and (n >> 8) & 0xff.
Low(n) == n % 256
High(n) == (n \div 256) % 256
Field(low, high) == low + 256 * high

Smaller(a, b) == IF a <= b THEN a ELSE b

\* What such a field can hold.
Word16 == {n \in Nat : n < 65536}

-----------------------------------------------------------------------------

\* Math.ceil(outWidth / 8)
bytesPerLine(width) == (width + 7) \div 8

\* The widths and the heights of bands that a header has room for.
Width16 == {w \in Nat \ {0} : bytesPerLine(w) \in Word16}
Height16 == Word16 \ {0}

\* Mutant: the bits of a byte are filled from the right.
BitFromRight(x) == x % 8

\* The leftmost of eight dots is the highest bit.
Bit(x) == 7 - (x % 8)

ByteIndex(x, y, width) == y * bytesPerLine(width) + x \div 8

\* The k-th band: its header's fields and its bytes.
Band(picture, bandHeight, k) ==
    LET y0 == (k - 1) * bandHeight
        h == Smaller(bandHeight, picture.height - y0)
        w == picture.width
        n == bytesPerLine(w)
    IN  [xL |-> Low(n), xH |-> High(n), yL |-> Low(h), yH |-> High(h),
         raster |-> [i \in 0 .. n * h - 1 |->
             {Bit(x) : x \in {x \in 0 .. w - 1 : \E y \in 0 .. h - 1 :
                                  ByteIndex(x, y, w) = i /\ <<x, y0 + y>> \in picture.dark}}]]

\* The number of turns of the loop over y0.
Bands(picture, bandHeight) == (picture.height + bandHeight - 1) \div bandHeight

imageBufferToEscPos(picture, bandHeight) ==
    [k \in 1 .. Bands(picture, bandHeight) |-> Band(picture, bandHeight, k)]

-----------------------------------------------------------------------------

\* The length that GS ( k is told when it stores the data: cn, fn and m come first.
StoreLength(dataLength) == dataLength + 3

\* qrToEscPos, as far as it depends on the data: the fields pL and pH.
qrToEscPos(dataLength) ==
    [pL |-> Low(StoreLength(dataLength)), pH |-> High(StoreLength(dataLength))]

-----------------------------------------------------------------------------

\* markdownToRasterEscPos: the height of the picture for so many lines.
TextHeight(lines) ==
    IF 12 + lines * LineHeight >= LineHeight THEN 12 + lines * LineHeight ELSE LineHeight

\* The y of the idx-th line's baseline, counted from 0.
Baseline(idx) == 8 + (idx + 1) * LineHeight - (LineHeight - FontSize) \div 2

-----------------------------------------------------------------------------
(* What a printer does with the commands (external), and what the commands  *)
(* are to achieve.                                                          *)

\* GS v 0: the dots of a band are those whose bit is set, row by row, xL + 256 xH bytes
\* to the row, the highest bit on the left.
Prints(band, x, y) ==
    7 - (x % 8) \in band.raster[y * Field(band.xL, band.xH) + x \div 8]

RowsOf(band) == Field(band.yL, band.yH)
DotsOf(band) == 8 * Field(band.xL, band.xH)

\* The bands follow each other down the picture, none goes past its end, every row is in
\* one, and what a band prints in a row are the dark dots of that row of the picture and
\* nothing beside them.
PicturePrinted(picture, bandHeight) ==
    LET bands == imageBufferToEscPos(picture, bandHeight)
        top(k) == (k - 1) * bandHeight
    IN  /\ \A k \in DOMAIN bands :
              /\ RowsOf(bands[k]) \in 1 .. bandHeight
              /\ top(k) + RowsOf(bands[k]) <= picture.height
              /\ DotsOf(bands[k]) >= picture.width
              /\ \A x \in 0 .. DotsOf(bands[k]) - 1, y \in 0 .. RowsOf(bands[k]) - 1 :
                    Prints(bands[k], x, y) <=> <<x, top(k) + y>> \in picture.dark
        /\ \A y \in 0 .. picture.height - 1 :
              \E k \in DOMAIN bands : y - top(k) \in 0 .. RowsOf(bands[k]) - 1

\* The printer reads as many bytes of QR data as there are.
QrDataRead(dataLength) ==
    Field(qrToEscPos(dataLength).pL, qrToEscPos(dataLength).pH) - 3 = dataLength

\* Every line stands inside the picture, and none reaches up into the one above.
LinesInside(lines) ==
    \A idx \in 0 .. lines - 1 :
        /\ Baseline(idx) - FontSize >= 0
        /\ Baseline(idx) <= TextHeight(lines)
        /\ idx > 0 => Baseline(idx) - FontSize >= Baseline(idx - 1)
=============================================================================
