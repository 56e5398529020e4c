-------------------------- MODULE RenderingProofs --------------------------
(***************************************************************************)
(* Rendering for whatever may be asked of it: any words and limit, table,  *)
(* document, picture and band height, length and markdown.                 *)
(*                                                                         *)
(* The sections follow the code: the commands of Raster, wrapText, tables  *)
(* and documents of TextLayout, and PrintJob; the last one puts together   *)
(* what they show for the requests of Rendering.                           *)
(***************************************************************************)
EXTENDS Rendering, CommonLemmas, TLAPS

-----------------------------------------------------------------------------
(* Arithmetic.                                                              *)

\* The two bytes of a field make up the number again.
LEMMA FieldOfBytes ==
    ASSUME NEW n \in Word16
    PROVE  Field(Low(n), High(n)) = n
<1> DEFINE q == n \div 256
<1>1. n \in Nat /\ n = 256 * q + (n % 256) /\ q \in 0 .. 255
    BY DEF Word16
<1>2. q % 256 = q
    BY <1>1
<1>3. Low(n) + 256 * High(n) = n
    BY <1>1, <1>2 DEF Low, High
<1> QED
    BY <1>3 DEF Field

\* A byte and a bit in it tell where in a row a dot is, and there is room for all of them.
LEMMA BitsOfARow ==
    ASSUME NEW x \in Nat, NEW z \in Nat
    PROVE  /\ x \div 8 \in Nat
           /\ Bit(x) = Bit(z) /\ x \div 8 = z \div 8 => x = z
           /\ \A n \in Nat : x < 8 * n => x \div 8 < n
<1>1. x = 8 * (x \div 8) + (x % 8) /\ x % 8 \in 0 .. 7 /\ x \div 8 \in Nat
    OBVIOUS
<1>2. z = 8 * (z \div 8) + (z % 8) /\ z % 8 \in 0 .. 7
    OBVIOUS
<1>3. Bit(x) = Bit(z) /\ x \div 8 = z \div 8 => x = z
    BY <1>1, <1>2 DEF Bit
<1>4. ASSUME NEW n \in Nat, x < 8 * n PROVE x \div 8 < n
    BY <1>1, <1>4
<1> QED
    BY <1>1, <1>3, <1>4

\* A row has as many bytes as its dots need, no more than seven bits too many.
LEMMA BytesOfARow ==
    ASSUME NEW w \in Width16
    PROVE  /\ w \in Nat \ {0}
           /\ bytesPerLine(w) \in Nat \ {0}
           /\ bytesPerLine(w) \in Word16
           /\ w <= 8 * bytesPerLine(w)
<1>1. w \in Nat \ {0} /\ bytesPerLine(w) \in Word16
    BY DEF Width16
<1>2. bytesPerLine(w) \in Nat \ {0} /\ w <= 8 * bytesPerLine(w)
    BY <1>1 DEF bytesPerLine
<1> QED
    BY <1>1, <1>2

-----------------------------------------------------------------------------
(* Pictures.                                                                *)

\* The loop over y0: it stops after the last row, and every turn begins before it.
LEMMA BandsCover ==
    ASSUME NEW H \in Nat \ {0}, NEW b \in Height16, NEW B, B = (H + b - 1) \div b
    PROVE  /\ B \in Nat
           /\ \A k \in 1 .. B : (k - 1) * b \in Nat /\ (k - 1) * b < H
           /\ \A y \in 0 .. H - 1 : \E k \in 1 .. B : (k - 1) * b <= y /\ y < (k - 1) * b + b
<1>1. b \in Nat \ {0} /\ H + b - 1 \in Nat
    BY DEF Height16, Word16
<1>2. B \in Nat /\ B * b <= H + b - 1 /\ H + b - 1 < B * b + b
    BY <1>1, Quotient
<1>3. ASSUME NEW k \in 1 .. B
      PROVE  (k - 1) * b \in Nat /\ (k - 1) * b < H
    <2>1. k * b <= B * b
        BY <1>1, <1>2, TimesMonotonic
    <2>2. (k - 1) * b = k * b - b
        BY <1>1
    <2>3. 0 * b <= (k - 1) * b
        BY <1>1, <1>2, TimesMonotonic
    <2>4. k * b \in Int /\ B * b \in Int /\ 0 * b = 0
        BY <1>1, <1>2
    <2> QED
        BY <1>1, <1>2, <2>1, <2>2, <2>3, <2>4
<1>4. ASSUME NEW y \in 0 .. H - 1
      PROVE  \E k \in 1 .. B : (k - 1) * b <= y /\ y < (k - 1) * b + b
    <2> DEFINE q == y \div b
    <2>1. q \in Nat /\ q * b <= y /\ y < q * b + b
        BY <1>1, Quotient
    <2>2. q < B
        <3> SUFFICES ASSUME B <= q PROVE FALSE
            BY <1>2, <2>1
        <3>1. B * b <= q * b
            BY <1>1, <1>2, <2>1, TimesMonotonic
        <3>2. B * b \in Int /\ q * b \in Int
            BY <1>1, <1>2, <2>1
        <3> QED
            BY <1>1, <1>2, <2>1, <3>1, <3>2
    <2>3. q + 1 \in 1 .. B /\ (q + 1) - 1 = q
        BY <1>2, <2>1, <2>2
    <2> HIDE DEF q
    <2> QED
        BY <2>1, <2>3
<1> QED
    BY <1>2, <1>3, <1>4

\* The bytes of the band of h rows that begins at y0.
RasterOf(w, h, y0, dark) ==
    [i \in 0 .. bytesPerLine(w) * h - 1 |->
        {Bit(u) : u \in {u \in 0 .. w - 1 : \E v \in 0 .. h - 1 :
                     ByteIndex(u, v, w) = i /\ <<u, y0 + v>> \in dark}}]

\* One band: for the rows from y0 on it prints the dark dots, and no others.
LEMMA BandPrinted ==
    ASSUME NEW w \in Width16, NEW h \in Nat \ {0}, NEW y0 \in Nat, NEW dark,
           \A x, y \in Int : <<x, y>> \in dark => x \in 0 .. w - 1,
           NEW x \in 0 .. 8 * bytesPerLine(w) - 1, NEW y \in 0 .. h - 1
    PROVE  7 - (x % 8) \in RasterOf(w, h, y0, dark)[y * bytesPerLine(w) + x \div 8]
              <=> <<x, y0 + y>> \in dark
<1> DEFINE n == bytesPerLine(w)
           i == y * n + x \div 8
           dots == {u \in 0 .. w - 1 : \E v \in 0 .. h - 1 :
                       ByteIndex(u, v, w) = i /\ <<u, y0 + v>> \in dark}
<1>1. n \in Nat \ {0} /\ w \in Nat /\ w <= 8 * n
    BY BytesOfARow
<1>2. x \in Nat /\ x < 8 * n /\ y \in Nat
    BY <1>1
<1>3. x \div 8 \in 0 .. n - 1
    BY <1>1, <1>2, BitsOfARow
<1>4. i \in 0 .. n * h - 1
    <2>1. (y + 1) * n <= h * n /\ 0 * n <= y * n
        BY <1>1, TimesMonotonic
    <2>2. (y + 1) * n = y * n + n /\ h * n = n * h /\ 0 * n = 0
        BY <1>1
    <2>3. y * n \in Int /\ h * n \in Int
        BY <1>1
    <2> QED
        BY <1>1, <1>3, <2>1, <2>2, <2>3
<1>5. ASSUME NEW u \in 0 .. w - 1, NEW v \in 0 .. h - 1, ByteIndex(u, v, w) = i, Bit(u) = Bit(x)
      PROVE  u = x /\ v = y
    <2>1. u \in Nat /\ u < 8 * n /\ v \in Nat /\ w \in Nat
        BY <1>1
    <2>2. u \div 8 \in 0 .. n - 1
        BY <1>1, <2>1, BitsOfARow
    <2>3. v * n + u \div 8 = y * n + x \div 8
        BY <1>5 DEF ByteIndex
    <2>4. n \in Nat
        BY <1>1
    <2> HIDE DEF n
    <2>5. v = y /\ u \div 8 = x \div 8
        BY <1>2, <1>3, <2>1, <2>2, <2>3, <2>4, OneQuotient
    <2> QED
        BY <1>2, <1>5, <2>1, <2>5, BitsOfARow
<1>6. Bit(x) \in {Bit(u) : u \in dots} <=> <<x, y0 + y>> \in dark
    <2>1. ASSUME NEW u \in dots, Bit(x) = Bit(u)
          PROVE  <<x, y0 + y>> \in dark
        <3>1. PICK v \in 0 .. h - 1 : ByteIndex(u, v, w) = i /\ <<u, y0 + v>> \in dark
            OBVIOUS
        <3>2. u = x /\ v = y
            BY <1>5, <2>1, <3>1
        <3> QED
            BY <3>1, <3>2
    <2>2. ASSUME <<x, y0 + y>> \in dark
          PROVE  x \in dots
        <3>1. x \in 0 .. w - 1
            BY <2>2
        <3>2. ByteIndex(x, y, w) = i
            BY DEF ByteIndex
        <3> QED
            BY <2>2, <3>1, <3>2
    <2> QED
        BY <2>1, <2>2
<1>7. RasterOf(w, h, y0, dark)[i] = {Bit(u) : u \in dots}
    BY <1>4 DEF RasterOf
<1>8. 7 - (x % 8) = Bit(x)
    BY DEF Bit
<1> QED
    BY <1>6, <1>7, <1>8

\* imageBufferToEscPos: a printer that reads the bands of any picture, of up to 65535 bytes
\* to the row and in bands of up to 65535 rows, prints its dark dots in their places, every
\* row once and nothing beside them (lines 471-491).
THEOREM PicturesArePrinted ==
    ASSUME NEW w \in Width16, NEW H \in Nat \ {0}, NEW b \in Height16,
           NEW dark \in SUBSET ((0 .. w - 1) \X (0 .. H - 1))
    PROVE  PicturePrinted(Picture(w, H, dark), b)
<1> DEFINE p == Picture(w, H, dark)
           bands == imageBufferToEscPos(p, b)
           B == (H + b - 1) \div b
           rows(k) == Smaller(b, H - (k - 1) * b)
<1>1. p.width = w /\ p.height = H /\ p.dark = dark
    BY DEF Picture
<1>2. DOMAIN bands = 1 .. B
    BY <1>1 DEF imageBufferToEscPos, Bands
<1>3. /\ B \in Nat
      /\ \A k \in 1 .. B : (k - 1) * b \in Nat /\ (k - 1) * b < H
      /\ \A y \in 0 .. H - 1 : \E k \in 1 .. B : (k - 1) * b <= y /\ y < (k - 1) * b + b
    BY BandsCover
<1>4. /\ bytesPerLine(w) \in Nat \ {0} /\ w \in Nat \ {0}
      /\ bytesPerLine(w) \in Word16
      /\ w <= 8 * bytesPerLine(w)
    BY BytesOfARow
<1>5. b \in Nat \ {0} /\ \A h \in 1 .. b : h \in Word16
    BY DEF Height16, Word16
<1> HIDE DEF B
<1>6. ASSUME NEW k \in 1 .. B
      PROVE  /\ rows(k) \in 1 .. b
             /\ (k - 1) * b + rows(k) <= H
             /\ RowsOf(bands[k]) = rows(k)
             /\ Field(bands[k].xL, bands[k].xH) = bytesPerLine(w)
             /\ bands[k].raster = RasterOf(w, rows(k), (k - 1) * b, dark)
    <2>1. (k - 1) * b \in Nat /\ (k - 1) * b < H
        BY <1>3
    <2>2. rows(k) \in 1 .. b /\ (k - 1) * b + rows(k) <= H
        BY <1>5, <2>1 DEF Smaller
    <2>3. bands[k] = Band(p, b, k)
        BY <1>1 DEF imageBufferToEscPos, Bands, B
    <2>4. bands[k].yL = Low(rows(k)) /\ bands[k].yH = High(rows(k))
          /\ bands[k].xL = Low(bytesPerLine(w)) /\ bands[k].xH = High(bytesPerLine(w))
        BY <1>1, <2>3 DEF Band
    <2>5. bands[k].raster = RasterOf(w, rows(k), (k - 1) * b, dark)
        BY <1>1, <2>3 DEF Band, RasterOf
    <2>6. rows(k) \in Word16 /\ bytesPerLine(w) \in Word16
        BY <1>4, <1>5, <2>2
    <2> HIDE DEF rows
    <2>7. Field(Low(rows(k)), High(rows(k))) = rows(k)
          /\ Field(Low(bytesPerLine(w)), High(bytesPerLine(w))) = bytesPerLine(w)
        BY <2>6, FieldOfBytes
    <2> QED
        BY <2>2, <2>4, <2>5, <2>7 DEF RowsOf
<1> HIDE DEF bands, rows
<1>7. ASSUME NEW k \in 1 .. B
      PROVE  /\ RowsOf(bands[k]) \in 1 .. b
             /\ (k - 1) * b + RowsOf(bands[k]) <= H
             /\ DotsOf(bands[k]) >= w
             /\ \A x \in 0 .. DotsOf(bands[k]) - 1, y \in 0 .. RowsOf(bands[k]) - 1 :
                   Prints(bands[k], x, y) <=> <<x, (k - 1) * b + y>> \in dark
    <2>1. DotsOf(bands[k]) = 8 * bytesPerLine(w) /\ RowsOf(bands[k]) = rows(k)
        BY <1>6 DEF DotsOf
    <2>2. (k - 1) * b \in Nat /\ rows(k) \in Nat \ {0}
        <3>1. rows(k) \in 1 .. b
            BY <1>6
        <3> QED
            BY <1>3, <1>5, <3>1
    <2>3. \A x, y \in Int : <<x, y>> \in dark => x \in 0 .. w - 1
        OBVIOUS
    <2>4. ASSUME NEW x \in 0 .. 8 * bytesPerLine(w) - 1, NEW y \in 0 .. rows(k) - 1
          PROVE  Prints(bands[k], x, y) <=> <<x, (k - 1) * b + y>> \in dark
        <3>1. 7 - (x % 8) \in RasterOf(w, rows(k), (k - 1) * b, dark)
                                    [y * bytesPerLine(w) + x \div 8]
                 <=> <<x, (k - 1) * b + y>> \in dark
            BY <2>2, <2>3, BandPrinted
        <3>2. Prints(bands[k], x, y)
                 <=> 7 - (x % 8) \in bands[k].raster[y * bytesPerLine(w) + x \div 8]
            BY <1>6 DEF Prints
        <3> QED
            BY <1>6, <3>1, <3>2
    <2> QED
        BY <1>4, <1>6, <2>1, <2>4
<1>8. ASSUME NEW y \in 0 .. H - 1
      PROVE  \E k \in 1 .. B : y - (k - 1) * b \in 0 .. RowsOf(bands[k]) - 1
    <2>1. PICK k \in 1 .. B : (k - 1) * b <= y /\ y < (k - 1) * b + b
        BY <1>3
    <2>2. (k - 1) * b \in Nat
        BY <1>3
    <2>3. RowsOf(bands[k]) = Smaller(b, H - (k - 1) * b)
        BY <1>6 DEF rows
    <2>4. y - (k - 1) * b \in 0 .. RowsOf(bands[k]) - 1
        BY <1>5, <2>1, <2>2, <2>3 DEF Smaller
    <2> QED
        BY <2>4
<1> QED
    BY <1>1, <1>2, <1>7, <1>8 DEF PicturePrinted, bands

-----------------------------------------------------------------------------
(* QR codes and lines.                                                      *)

\* qrToEscPos: up to 65532 bytes of data the length the command is told is what is sent.
\* Express takes no body of more than 64 kB, which in UTF-8 has no room for more data
\* (lines 58-59, 384-410).
THEOREM QrDataIsRead ==
    ASSUME NEW length \in Nat, length + 3 \in Word16
    PROVE  QrDataRead(length)
<1>1. Field(Low(length + 3), High(length + 3)) = length + 3
    BY FieldOfBytes
<1>2. (length + 3) - 3 = length
    OBVIOUS
<1> QED
    BY <1>1, <1>2 DEF QrDataRead, qrToEscPos, StoreLength

\* markdownToRasterEscPos: however many lines there are, and for every font that is not
\* higher than a line, each is drawn inside the picture and below the one before it (606-610).
THEOREM LinesAreInside == \A lines \in Nat : LinesInside(lines)
<1> SUFFICES ASSUME NEW lines \in Nat, NEW idx \in 0 .. lines - 1
             PROVE  /\ Baseline(idx) - FontSize >= 0
                    /\ Baseline(idx) <= TextHeight(lines)
                    /\ idx > 0 => Baseline(idx) - FontSize >= Baseline(idx - 1)
    BY DEF LinesInside
<1> DEFINE gap == (LineHeight - FontSize) \div 2
<1>1. LineHeight \in Nat \ {0} /\ FontSize \in Nat \ {0} /\ FontSize <= LineHeight
    BY FontAssumption
<1>2. gap \in Nat /\ 2 * gap <= LineHeight - FontSize
    BY <1>1
<1>3. /\ (idx + 1) * LineHeight <= lines * LineHeight
      /\ 0 * LineHeight <= idx * LineHeight
    BY <1>1, TimesMonotonic
<1>4. (idx + 1) * LineHeight = idx * LineHeight + LineHeight
    BY <1>1
<1>5. idx * LineHeight \in Int /\ lines * LineHeight \in Int /\ 0 * LineHeight = 0
    BY <1>1
<1>6. Baseline(idx) = 8 + idx * LineHeight + LineHeight - gap
    BY <1>1, <1>2, <1>4, <1>5 DEF Baseline
<1>7. idx > 0 => Baseline(idx - 1) = 8 + idx * LineHeight - gap
    BY <1>1, <1>2, <1>5 DEF Baseline
<1>8. TextHeight(lines) >= 12 + lines * LineHeight
    BY <1>1, <1>5 DEF TextHeight
<1>9. TextHeight(lines) \in Int
    BY <1>1, <1>5 DEF TextHeight
<1> HIDE DEF gap
<1> QED
    BY <1>1, <1>2, <1>3, <1>4, <1>5, <1>6, <1>7, <1>8, <1>9

-----------------------------------------------------------------------------
(* Sums.                                                                    *)

\* Sums is the function that its definition says.
LEMMA SumsAre ==
    ASSUME NEW s \in Seq(Nat)
    PROVE  /\ Sums(s) \in [0 .. Len(s) -> Nat]
           /\ Sums(s)[0] = 0
           /\ \A n \in 1 .. Len(s) : Sums(s)[n] = Sums(s)[n - 1] + s[n]
<1> DEFINE N == Len(s)
           step == [n \in 1 .. N |-> [v \in Nat |-> v + s[n]]]
           is(g) == g = [n \in 0 .. N |-> IF n = 0 THEN 0 ELSE g[n - 1] + s[n]]
<1>1. N \in Nat /\ \A n \in 1 .. N : s[n] \in Nat
    OBVIOUS
<1>2. step \in Steps(N, Nat)
    BY <1>1 DEF Steps
<1>3. Sums(s) = CHOOSE g : is(g)
    BY DEF Sums
<1> HIDE DEF N
<1>4. PICK f \in [0 .. N -> Nat] : f[0] = 0 /\ \A n \in 1 .. N : f[n] = step[n][f[n - 1]]
    <2> HIDE DEF step
    <2>1. \E f : f \in Courses(N, Nat, 0, step)
        BY <1>1, <1>2, Recursion
    <2> QED
        BY <2>1 DEF Courses
<1>5. is(f)
    <2>1. \A n \in 0 .. N : f[n] = IF n = 0 THEN 0 ELSE f[n - 1] + s[n]
        <3> TAKE n \in 0 .. N
        <3>1. CASE n = 0
            BY <1>4, <3>1
        <3>2. CASE n # 0
            <4>1. n \in 1 .. N /\ n - 1 \in 0 .. N
                BY <1>1, <3>2
            <4>2. f[n - 1] \in Nat
                BY <1>4, <4>1
            <4>3. step[n][f[n - 1]] = f[n - 1] + s[n]
                BY <4>1, <4>2
            <4> QED
                BY <1>4, <3>2, <4>1, <4>3
        <3> QED
            BY <3>1, <3>2
    <2> QED
        BY <2>1
<1>6. is(Sums(s))
    <2> HIDE DEF is
    <2> QED
        BY <1>3, <1>5
<1> DEFINE g == Sums(s)
           T == {n \in Nat : g[n] \in Nat}
<1> HIDE DEF g
<1>7. g = [n \in 0 .. N |-> IF n = 0 THEN 0 ELSE g[n - 1] + s[n]]
    BY <1>6 DEF g
<1>a. g = [n \in 0 .. N |-> g[n]] /\ g[0] = 0
    BY <1>1, <1>7
<1>b. \A n \in 1 .. N : g[n] = g[n - 1] + s[n]
    <2> TAKE n \in 1 .. N
    <2>1. n \in 0 .. N /\ n # 0
        BY <1>1
    <2> QED
        BY <1>7, <2>1
<1>8. 0 \in T
    BY <1>a
<1>c. \A n \in 1 .. N : n - 1 \in T => n \in T
    <2> TAKE n \in 1 .. N
    <2> HAVE n - 1 \in T
    <2>1. g[n - 1] \in Nat /\ s[n] \in Nat /\ n \in Nat
        BY <1>1
    <2>2. g[n] = g[n - 1] + s[n]
        BY <1>b
    <2>3. g[n] \in Nat
        BY <2>1, <2>2
    <2> QED
        BY <2>1, <2>3
<1> HIDE DEF T
<1>9. \A n \in 0 .. N : n \in T
    BY <1>1, <1>8, <1>c, InductionTo
<1>10. \A n \in 0 .. N : g[n] \in Nat
    BY <1>9 DEF T
<1> QED
    BY <1>a, <1>b, <1>10 DEF g, N

\* A later sum is not smaller.
LEMMA SumsGrow ==
    ASSUME NEW s \in Seq(Nat), NEW a \in 0 .. Len(s), NEW b \in a .. Len(s)
    PROVE  Sums(s)[a] <= Sums(s)[b]
<1> DEFINE T == {n \in Nat : a <= n => Sums(s)[a] <= Sums(s)[n]}
<1>1. Len(s) \in Nat /\ a \in Nat /\ \A n \in 1 .. Len(s) : s[n] \in Nat
    OBVIOUS
<1>2. /\ Sums(s) \in [0 .. Len(s) -> Nat]
      /\ \A n \in 1 .. Len(s) : Sums(s)[n] = Sums(s)[n - 1] + s[n]
    BY SumsAre
<1>3. 0 \in T
    BY <1>1, <1>2
<1>4. \A n \in 1 .. Len(s) : n - 1 \in T => n \in T
    <2> SUFFICES ASSUME NEW n \in 1 .. Len(s), n - 1 \in T, a <= n
                 PROVE  Sums(s)[a] <= Sums(s)[n]
        OBVIOUS
    <2>1. CASE a = n
        <3>1. Sums(s)[a] \in Nat /\ Sums(s)[n] = Sums(s)[a]
            BY <1>2, <2>1
        <3> QED
            BY <3>1
    <2>2. CASE a <= n - 1
        <3>1. Sums(s)[a] <= Sums(s)[n - 1]
            BY <2>2
        <3>2. n - 1 \in 0 .. Len(s) /\ s[n] \in Nat
            BY <1>1
        <3>3. Sums(s)[n - 1] \in Nat /\ Sums(s)[a] \in Nat
            BY <1>2, <3>2
        <3>4. Sums(s)[n] = Sums(s)[n - 1] + s[n]
            BY <1>2
        <3> QED
            BY <3>1, <3>2, <3>3, <3>4
    <2>3. n \in Nat /\ a \in Nat /\ a <= n
        BY <1>1
    <2>4. a = n \/ a <= n - 1
        BY <2>3
    <2> QED
        BY <2>1, <2>2, <2>4
<1> HIDE DEF T
<1>5. \A n \in 0 .. Len(s) : n \in T
    BY <1>1, <1>3, <1>4, InductionTo
<1>6. b \in T /\ a <= b
    BY <1>1, <1>5
<1> QED
    BY <1>6 DEF T

\* The sum of what stands between two places is the difference of the sums up to them.
LEMMA SumBetween ==
    ASSUME NEW s \in Seq(Nat), NEW a \in 1 .. Len(s), NEW b \in a .. Len(s)
    PROVE  SumOf(SubSeq(s, a, b)) = Sums(s)[b] - Sums(s)[a - 1]
<1> DEFINE t == SubSeq(s, a, b)
           m == b - a + 1
           T == {n \in Nat : n <= m => Sums(t)[n] = Sums(s)[a - 1 + n] - Sums(s)[a - 1]}
<1>1. /\ Len(s) \in Nat /\ a \in Nat /\ b \in Nat /\ m \in Nat /\ a <= b
      /\ t \in Seq(Nat) /\ Len(t) = m /\ \A n \in 1 .. m : t[n] = s[a - 1 + n]
    OBVIOUS
<1> HIDE DEF t
<1>2. /\ Sums(s) \in [0 .. Len(s) -> Nat]
      /\ \A n \in 1 .. Len(s) : Sums(s)[n] = Sums(s)[n - 1] + s[n]
    BY SumsAre
<1>3. /\ Sums(t)[0] = 0
      /\ \A n \in 1 .. m : Sums(t)[n] = Sums(t)[n - 1] + t[n]
    BY <1>1, SumsAre
<1>4. 0 \in T
    <2>0. a - 1 \in 0 .. Len(s) /\ a - 1 + 0 = a - 1
        BY <1>1
    <2>1. Sums(s)[a - 1] \in Nat /\ a - 1 + 0 = a - 1
        BY <1>2, <2>0
    <2> QED
        BY <1>3, <2>1
<1>5. \A n \in 1 .. m : n - 1 \in T => n \in T
    <2> SUFFICES ASSUME NEW n \in 1 .. m,
                        Sums(t)[n - 1] = Sums(s)[a - 1 + (n - 1)] - Sums(s)[a - 1]
                 PROVE  Sums(t)[n] = Sums(s)[a - 1 + n] - Sums(s)[a - 1]
        BY <1>1
    <2>1. PICK k \in 1 .. Len(s) : k = a - 1 + n
        BY <1>1
    <2>2. Sums(t)[n - 1] = Sums(s)[k - 1] - Sums(s)[a - 1]
        <3>1. a - 1 + (n - 1) = k - 1
            BY <1>1, <2>1
        <3> QED
            BY <3>1
    <2> HIDE DEF T, m
    <2>3. Sums(s)[k] = Sums(s)[k - 1] + s[k] /\ Sums(t)[n] = Sums(t)[n - 1] + s[k]
        BY <1>1, <1>2, <1>3, <2>1
    <2>4. k \in 0 .. Len(s) /\ k - 1 \in 0 .. Len(s) /\ a - 1 \in 0 .. Len(s)
        BY <1>1, <2>1, SMTT(30)
    <2>5. Sums(s)[k] \in Nat /\ Sums(s)[k - 1] \in Nat /\ Sums(s)[a - 1] \in Nat
        BY <1>2, <2>4
    <2>6. s[k] \in Nat
        BY <2>1
    <2>7. Sums(t)[n] = Sums(s)[k] - Sums(s)[a - 1]
        <3>1. PICK p \in Nat : p = Sums(s)[k - 1]
            BY <2>5
        <3>2. PICK q \in Nat : q = Sums(s)[a - 1]
            BY <2>5
        <3>3. PICK x \in Nat : x = s[k]
            BY <2>6
        <3>4. Sums(s)[k] = p + x /\ Sums(t)[n - 1] = p - q /\ Sums(t)[n] = Sums(t)[n - 1] + x
            BY ONLY <2>2, <2>3, <3>1, <3>2, <3>3
        <3> QED
            BY ONLY <3>2, <3>4
    <2> QED
        BY <2>1, <2>7
<1> HIDE DEF T, m
<1>6. \A n \in 0 .. m : n \in T
    BY <1>1, <1>4, <1>5, InductionTo
<1>7. Sums(t)[m] = Sums(s)[a - 1 + m] - Sums(s)[a - 1]
    BY <1>1, <1>6 DEF T
<1>8. a - 1 + m = b
    BY <1>1 DEF m
<1> QED
    BY <1>1, <1>7, <1>8 DEF SumOf, t

-----------------------------------------------------------------------------
(* wrapText.                                                                *)

\* A stretch of words as a line: how long it is, and that a longer one is longer.
LEMMA StretchLength ==
    ASSUME NEW words \in Seq(Nat), NEW a \in 1 .. Len(words), NEW b \in a .. Len(words)
    PROVE  /\ SubSeq(words, a, b) \in Seq(Nat)
           /\ Len(SubSeq(words, a, b)) = b - a + 1
           /\ TextLength(SubSeq(words, a, b)) = Sums(words)[b] - Sums(words)[a - 1] + (b - a)
           /\ Sums(words)[b] \in Nat /\ Sums(words)[a - 1] \in Nat
<1>1. /\ a \in Nat /\ b \in Nat /\ a <= b /\ Len(words) \in Nat
      /\ a - 1 \in 0 .. Len(words) /\ b \in 0 .. Len(words)
    OBVIOUS
<1>2. SubSeq(words, a, b) \in Seq(Nat) /\ Len(SubSeq(words, a, b)) = b - a + 1
    OBVIOUS
<1>3. SumOf(SubSeq(words, a, b)) = Sums(words)[b] - Sums(words)[a - 1]
    BY SumBetween
<1>4. Sums(words)[b] \in Nat /\ Sums(words)[a - 1] \in Nat
    BY <1>1, SumsAre
<1>5. SubSeq(words, a, b) # <<>>
    BY <1>1, <1>2
<1>6. TextLength(SubSeq(words, a, b))
          = SumOf(SubSeq(words, a, b)) + Len(SubSeq(words, a, b)) - 1
    BY <1>5 DEF TextLength
<1> HIDE <1>5
<1> QED
    BY <1>1, <1>2, <1>3, <1>4, <1>6

\* A longer stretch is not a shorter line.
LEMMA StretchGrows ==
    ASSUME NEW words \in Seq(Nat), NEW a \in 1 .. Len(words), NEW b \in a .. Len(words),
           NEW c \in 1 .. a, NEW d \in b .. Len(words)
    PROVE  /\ TextLength(SubSeq(words, a, b)) \in Int /\ TextLength(SubSeq(words, c, d)) \in Int
           /\ TextLength(SubSeq(words, a, b)) <= TextLength(SubSeq(words, c, d))
<1>1. /\ a \in Nat /\ b \in Nat /\ c \in Nat /\ d \in Nat /\ Len(words) \in Nat
      /\ c <= a /\ a <= b /\ b <= d /\ c \in 1 .. Len(words) /\ d \in c .. Len(words)
    OBVIOUS
<1>2. /\ TextLength(SubSeq(words, a, b)) = Sums(words)[b] - Sums(words)[a - 1] + (b - a)
      /\ Sums(words)[b] \in Nat /\ Sums(words)[a - 1] \in Nat
    BY StretchLength
<1>3. /\ TextLength(SubSeq(words, c, d)) = Sums(words)[d] - Sums(words)[c - 1] + (d - c)
      /\ Sums(words)[d] \in Nat /\ Sums(words)[c - 1] \in Nat
    BY <1>1, StretchLength
<1>4. Sums(words)[b] <= Sums(words)[d]
    <2>1. b \in 0 .. Len(words)
        BY <1>1
    <2> QED
        BY <2>1, SumsGrow
<1>5. Sums(words)[c - 1] <= Sums(words)[a - 1]
    <2>1. c - 1 \in 0 .. Len(words) /\ a - 1 \in c - 1 .. Len(words)
        BY <1>1
    <2> QED
        BY <2>1, SumsGrow
<1> DEFINE u == TextLength(SubSeq(words, a, b))
           v == TextLength(SubSeq(words, c, d))
           p == Sums(words)[b]
           q == Sums(words)[a - 1]
           r == Sums(words)[d]
           t == Sums(words)[c - 1]
<1> HIDE DEF u, v, p, q, r, t
<1>6. /\ u = p - q + (b - a) /\ v = r - t + (d - c)
      /\ p \in Nat /\ q \in Nat /\ r \in Nat /\ t \in Nat /\ p <= r /\ t <= q
    BY <1>2, <1>3, <1>4, <1>5 DEF u, v, p, q, r, t
<1>7. u \in Int /\ v \in Int /\ u <= v
    BY <1>1, <1>6
<1> QED
    BY <1>7 DEF u, v

\* The next word makes it longer by itself and a space.
LEMMA StretchOn ==
    ASSUME NEW words \in Seq(Nat), NEW n \in 1 .. Len(words) - 1, NEW a \in 1 .. n
    PROVE  /\ Append(SubSeq(words, a, n), words[n + 1]) = SubSeq(words, a, n + 1)
           /\ TextLength(SubSeq(words, a, n)) + 1 + words[n + 1]
                  = TextLength(SubSeq(words, a, n + 1))
<1>1. /\ a \in Nat /\ n \in Nat /\ a <= n /\ Len(words) \in Nat
      /\ a \in 1 .. Len(words) /\ n \in a .. Len(words) /\ n + 1 \in a .. Len(words)
    OBVIOUS
<1>2. Append(SubSeq(words, a, n), words[n + 1]) = SubSeq(words, a, n + 1)
    BY <1>1
<1>3. /\ TextLength(SubSeq(words, a, n)) = Sums(words)[n] - Sums(words)[a - 1] + (n - a)
      /\ Sums(words)[n] \in Nat /\ Sums(words)[a - 1] \in Nat
    BY <1>1, StretchLength
<1>4. /\ TextLength(SubSeq(words, a, n + 1))
            = Sums(words)[n + 1] - Sums(words)[a - 1] + (n + 1 - a)
      /\ Sums(words)[n + 1] \in Nat
    BY <1>1, StretchLength
<1>5. Sums(words)[n + 1] = Sums(words)[n] + words[n + 1] /\ words[n + 1] \in Nat
    <2>1. n + 1 \in 1 .. Len(words) /\ (n + 1) - 1 = n
        BY <1>1
    <2>2. \A k \in 1 .. Len(words) : Sums(words)[k] = Sums(words)[k - 1] + words[k]
        BY SumsAre
    <2> QED
        BY <2>1, <2>2
<1>6. TextLength(SubSeq(words, a, n)) + 1 + words[n + 1] = TextLength(SubSeq(words, a, n + 1))
    <2> DEFINE u == TextLength(SubSeq(words, a, n))
               v == TextLength(SubSeq(words, a, n + 1))
               p == Sums(words)[n]
               q == Sums(words)[a - 1]
               r == Sums(words)[n + 1]
               w == words[n + 1]
    <2> HIDE DEF u, v, p, q, r, w
    <2>1. /\ u = p - q + (n - a) /\ v = r - q + (n + 1 - a) /\ r = p + w
          /\ p \in Nat /\ q \in Nat /\ r \in Nat /\ w \in Nat
        BY <1>3, <1>4, <1>5 DEF u, v, p, q, r, w
    <2>2. u + 1 + w = v
        BY <1>1, <2>1
    <2> QED
        BY <2>2 DEF u, v, w
<1> QED
    BY <1>2, <1>6

\* What a turn of the loop does with the word after the n-th.
LEMMA PlacedNext ==
    ASSUME NEW words \in Seq(Nat), NEW n \in 1 .. Len(words) - 1, NEW a \in 1 .. n,
           NEW maxChars \in Nat, NEW front \in Seq(Seq(Nat)), NEW lines,
           lines = Append(front, SubSeq(words, a, n))
    PROVE  Placed(lines, words[n + 1], maxChars) =
               IF TextLength(SubSeq(words, a, n + 1)) <= maxChars
               THEN Append(front, SubSeq(words, a, n + 1))
               ELSE Append(lines, <<words[n + 1]>>)
<1>1. SubSeq(words, a, n) \in Seq(Nat)
    OBVIOUS
<1> DEFINE line == SubSeq(words, a, n)
<1>2. line \in Seq(Nat)
    BY <1>1
<1>3. /\ Append(line, words[n + 1]) = SubSeq(words, a, n + 1)
      /\ TextLength(line) + 1 + words[n + 1] = TextLength(SubSeq(words, a, n + 1))
    BY StretchOn
<1> HIDE DEF line
<1>4. lines # <<>> /\ Last(lines) = line /\ Front(lines) = front
    <2>1. lines = Append(front, line)
        BY DEF line
    <2> QED
        BY <1>2, <2>1, LastAndFront, ZenonT(60)
<1> QED
    BY <1>3, <1>4 DEF Placed, Fits

\* The lines so far are a sequence of lines.
LEMMA PlacedIsLines ==
    ASSUME NEW W, NEW lines \in Seq(Seq(W)), NEW word \in W, NEW maxChars
    PROVE  Placed(lines, word, maxChars) \in Seq(Seq(W))
<1>1. <<word>> \in Seq(W)
    OBVIOUS
<1>2. Append(lines, <<word>>) \in Seq(Seq(W))
    BY <1>1
<1>3. ASSUME lines # <<>>
      PROVE  Append(Front(lines), Append(Last(lines), word)) \in Seq(Seq(W))
    <2>1. Len(lines) \in Nat \ {0}
        BY <1>3
    <2>2. Last(lines) \in Seq(W) /\ Front(lines) \in Seq(Seq(W))
        BY <2>1 DEF Last, Front
    <2>3. Append(Last(lines), word) \in Seq(W)
        BY <2>2
    <2> QED
        BY <2>2, <2>3
<1> QED
    BY <1>2, <1>3 DEF Placed

\* LinesAfter is the function that its definition says: a turn of wrapText after the other.
LEMMA LinesAfterAre ==
    ASSUME NEW words \in Seq(Nat), NEW maxChars \in Nat
    PROVE  /\ LinesAfter(words, maxChars) \in [0 .. Len(words) -> Seq(Seq(Nat))]
           /\ LinesAfter(words, maxChars)[0] = <<>>
           /\ \A n \in 1 .. Len(words) :
                 LinesAfter(words, maxChars)[n]
                     = Placed(LinesAfter(words, maxChars)[n - 1], words[n], maxChars)
<1> DEFINE N == Len(words)
           S == Seq(Seq(Nat))
           P(lines, n) == Placed(lines, words[n], maxChars)
           step == [n \in 1 .. N |-> [lines \in S |-> P(lines, n)]]
           is(g) == g = [n \in 0 .. N |-> IF n = 0 THEN <<>> ELSE P(g[n - 1], n)]
<1>1. N \in Nat /\ \A n \in 1 .. N : words[n] \in Nat
    OBVIOUS
<1>2. LinesAfter(words, maxChars) = CHOOSE g : is(g)
    BY DEF LinesAfter
<1>3. <<>> \in S /\ \A n \in 1 .. N, lines \in S : P(lines, n) \in S
    <2>1. <<>> \in S
        OBVIOUS
    <2> QED
        BY <1>1, <2>1, PlacedIsLines
<1> HIDE DEF N, P, S
<1>4. step \in Steps(N, S)
    BY <1>3 DEF Steps
<1>5. PICK f \in [0 .. N -> S] : f[0] = <<>> /\ \A n \in 1 .. N : f[n] = step[n][f[n - 1]]
    <2> HIDE DEF step
    <2>1. \E f : f \in Courses(N, S, <<>>, step)
        BY <1>1, <1>3, <1>4, Recursion
    <2> QED
        BY <2>1 DEF Courses
<1>6. \A n \in 1 .. N : f[n - 1] \in S /\ f[n] = P(f[n - 1], n)
    <2> TAKE n \in 1 .. N
    <2>1. n - 1 \in 0 .. N
        BY <1>1
    <2>2. f[n - 1] \in S
        BY <1>5, <2>1
    <2>3. step[n][f[n - 1]] = P(f[n - 1], n)
        BY <2>2
    <2> QED
        BY <1>5, <2>2, <2>3
<1>7. is(f)
    <2>1. \A n \in 0 .. N : f[n] = IF n = 0 THEN <<>> ELSE P(f[n - 1], n)
        <3> TAKE n \in 0 .. N
        <3>1. n # 0 => n \in 1 .. N
            BY <1>1
        <3> QED
            BY <1>5, <1>6, <3>1
    <2> QED
        BY <2>1
<1> DEFINE g == LinesAfter(words, maxChars)
<1>8. is(g)
    <2> HIDE DEF is
    <2> QED
        BY <1>2, <1>7
<1> HIDE DEF g
<1>9. g = [n \in 0 .. N |-> IF n = 0 THEN <<>> ELSE P(g[n - 1], n)]
    BY <1>8
<1>10. g = [n \in 0 .. N |-> g[n]] /\ g[0] = <<>>
    BY <1>1, <1>9
<1>11. \A n \in 1 .. N : g[n] = P(g[n - 1], n)
    <2> TAKE n \in 1 .. N
    <2>1. n \in 0 .. N /\ n # 0
        BY <1>1
    <2> QED
        BY <1>9, <2>1
<1> DEFINE T == {n \in Nat : g[n] \in S}
<1>12. 0 \in T
    BY <1>3, <1>10
<1>13. \A n \in 1 .. N : n - 1 \in T => n \in T
    BY <1>1, <1>3, <1>11
<1> HIDE DEF T
<1>14. \A n \in 0 .. N : n \in T
    BY <1>1, <1>12, <1>13, InductionTo
<1>15. \A n \in 0 .. N : g[n] \in S
    BY <1>14 DEF T
<1>16. g \in [0 .. N -> S]
    BY <1>10, <1>15
<1> QED
    BY <1>10, <1>11, <1>16 DEF g, N, S, P

\* Behind the n-th word: the last line holds the words since some word, all lines fit, and
\* the lines hold the words so far in their order.
WrappedTo(words, maxChars, n, front, a) ==
    LET lines == LinesAfter(words, maxChars)[n]
    IN  /\ front \in Seq(Seq(Nat)) /\ a \in 1 .. n
        /\ lines = Append(front, SubSeq(words, a, n))
        /\ FlattenSeq(lines) = SubSeq(words, 1, n)
        /\ \A i \in 1 .. Len(lines) : LineFits(lines[i], maxChars)

\* The first word is on a line of its own.
LEMMA WrapFirst ==
    ASSUME NEW words \in Seq(Nat), words # <<>>, NEW maxChars \in Nat
    PROVE  WrappedTo(words, maxChars, 1, <<>>, 1)
<1> DEFINE lines == LinesAfter(words, maxChars)[1]
           line == <<words[1]>>
<1>1. Len(words) \in Nat /\ 1 \in 1 .. Len(words) /\ words[1] \in Nat
    OBVIOUS
<1>2. line = SubSeq(words, 1, 1) /\ line \in Seq(Nat) /\ Len(line) = 1
    BY <1>1
<1>3. lines = Placed(LinesAfter(words, maxChars)[1 - 1], words[1], maxChars)
    BY <1>1, LinesAfterAre
<1>4. LinesAfter(words, maxChars)[1 - 1] = <<>>
    BY LinesAfterAre
<1>5. lines = Append(<<>>, line)
    BY <1>3, <1>4 DEF Placed
<1> HIDE DEF line, lines
<1>6. Append(<<>>, line) = <<line>> /\ <<>> \in Seq(Seq(Nat))
    OBVIOUS
<1>7. FlattenSeq(lines) = line
    <2>1. FlattenSeq(<<>>) = <<>>
          /\ FlattenSeq(Append(<<>>, line)) = FlattenSeq(<<>>) \o line
        BY <1>2, <1>6, FlattenAppend
    <2>2. <<>> \o line = line
        BY <1>2
    <2> QED
        BY <1>5, <2>1, <2>2
<1>8. \A i \in 1 .. Len(lines) : LineFits(lines[i], maxChars)
    <2>1. Len(lines) = 1 /\ lines[1] = line
        BY <1>5, <1>6
    <2>2. LineFits(line, maxChars)
        BY <1>2 DEF LineFits
    <2> QED
        BY <2>1, <2>2
<1> QED
    BY <1>2, <1>5, <1>6, <1>7, <1>8, SMTT(30) DEF WrappedTo, lines

\* The two ways on: the word goes on the last line, or on a new one.
LEMMA WrapNext ==
    ASSUME NEW words \in Seq(Nat), NEW maxChars \in Nat, NEW n \in 1 .. Len(words) - 1,
           NEW front, NEW a, WrappedTo(words, maxChars, n, front, a)
    PROVE  LET fits == TextLength(SubSeq(words, a, n + 1)) <= maxChars
           IN  /\ fits => WrappedTo(words, maxChars, n + 1, front, a)
               /\ ~fits => WrappedTo(words, maxChars, n + 1,
                                     LinesAfter(words, maxChars)[n], n + 1)
<1> DEFINE lines == LinesAfter(words, maxChars)[n]
           next == LinesAfter(words, maxChars)[n + 1]
           old == SubSeq(words, a, n)
           long == SubSeq(words, a, n + 1)
           word == <<words[n + 1]>>
           fits == TextLength(long) <= maxChars
<1>1. /\ front \in Seq(Seq(Nat)) /\ a \in 1 .. n
      /\ lines = Append(front, old)
      /\ FlattenSeq(lines) = SubSeq(words, 1, n)
      /\ \A i \in 1 .. Len(lines) : LineFits(lines[i], maxChars)
    BY DEF WrappedTo
<1>2. /\ n \in Nat /\ Len(words) \in Nat /\ n + 1 \in 1 .. Len(words)
      /\ a \in 1 .. n + 1 /\ n + 1 \in 1 .. n + 1
    BY <1>1
<1>3. words[n + 1] \in Nat /\ word \in Seq(Nat) /\ Len(word) = 1
      /\ word = SubSeq(words, n + 1, n + 1)
    BY <1>2
<1>4. old \in Seq(Nat) /\ long \in Seq(Nat)
    <2>1. a \in 1 .. Len(words) /\ n \in a .. Len(words) /\ n + 1 \in a .. Len(words)
        BY <1>1, <1>2
    <2> QED
        BY <2>1, StretchLength
<1>5. next = IF fits THEN Append(front, long) ELSE Append(lines, word)
    <2>1. next = Placed(LinesAfter(words, maxChars)[(n + 1) - 1], words[n + 1], maxChars)
        BY <1>2, LinesAfterAre
    <2>2. (n + 1) - 1 = n
        BY <1>2
    <2>3. Placed(lines, words[n + 1], maxChars)
              = IF fits THEN Append(front, long) ELSE Append(lines, word)
        <3> HIDE DEF lines
        <3> QED
            BY <1>1, PlacedNext
    <2> QED
        BY <2>1, <2>2, <2>3
<1>6. Append(old, words[n + 1]) = long
      /\ Append(SubSeq(words, 1, n), words[n + 1]) = SubSeq(words, 1, n + 1)
    <2>1. Append(old, words[n + 1]) = long
        BY <1>1, StretchOn
    <2>2. Append(SubSeq(words, 1, n), words[n + 1]) = SubSeq(words, 1, n + 1)
        BY <1>2, StretchOn
    <2> QED
        BY <2>1, <2>2
<1>7. SubSeq(words, 1, n) \o word = SubSeq(words, 1, n + 1)
    <2> DEFINE all == SubSeq(words, 1, n)
    <2>1. all \in Seq(Nat)
        BY <1>2
    <2> HIDE DEF all
    <2>2. all \o word = Append(all, words[n + 1])
        BY <1>3, <2>1
    <2> QED
        BY <1>6, <2>2 DEF all
<1> HIDE DEF lines, next, old, long, word
<1>8. lines \in Seq(Seq(Nat))
    BY <1>1, <1>4
<1>9. ASSUME fits PROVE WrappedTo(words, maxChars, n + 1, front, a)
    <2>1. next = Append(front, long)
        BY <1>5, <1>9
    <2>2. FlattenSeq(next) = SubSeq(words, 1, n + 1)
        <3>1. FlattenSeq(Append(front, Append(old, words[n + 1])))
                  = Append(FlattenSeq(Append(front, old)), words[n + 1])
            <4>1. front \in Seq(Seq(Nat)) /\ old \in Seq(Nat) /\ words[n + 1] \in Nat
                BY <1>1, <1>3, <1>4
            <4> QED
                BY ONLY <4>1, FlattenLonger
        <3> QED
            BY <1>1, <1>6, <2>1, <3>1
    <2>3. \A i \in 1 .. Len(next) : LineFits(next[i], maxChars)
        <3>1. LineFits(long, maxChars)
            BY <1>9 DEF LineFits
        <3>2. /\ Len(next) = Len(lines) /\ Len(lines) = Len(front) + 1 /\ Len(front) \in Nat
              /\ next[Len(front) + 1] = long
              /\ \A i \in 1 .. Len(front) : next[i] = lines[i]
            BY <1>1, <1>4, <2>1
        <3>3. ASSUME NEW i \in 1 .. Len(next) PROVE LineFits(next[i], maxChars)
            <4>1. i = Len(front) + 1 \/ i \in 1 .. Len(front)
                BY ONLY <3>2, <3>3
            <4>2. i \in 1 .. Len(lines)
                BY ONLY <3>2, <3>3
            <4> QED
                BY <1>1, <3>1, <3>2, <4>1, <4>2
        <3> QED
            BY <3>3
    <2> QED
        BY <1>1, <1>2, <2>1, <2>2, <2>3 DEF WrappedTo, next, long
<1>10. ASSUME ~fits PROVE WrappedTo(words, maxChars, n + 1, lines, n + 1)
    <2>1. next = Append(lines, word)
        BY <1>5, <1>10
    <2>2. FlattenSeq(next) = SubSeq(words, 1, n + 1)
        <3>1. FlattenSeq(next) = FlattenSeq(lines) \o word
            BY <1>3, <1>8, <2>1, FlattenAppend
        <3> QED
            BY <1>1, <1>7, <3>1
    <2>3. \A i \in 1 .. Len(next) : LineFits(next[i], maxChars)
        <3>1. LineFits(word, maxChars)
            BY <1>3 DEF LineFits
        <3>2. /\ Len(next) = Len(lines) + 1 /\ Len(lines) \in Nat
              /\ next[Len(lines) + 1] = word
              /\ \A i \in 1 .. Len(lines) : next[i] = lines[i]
            BY <1>3, <1>8, <2>1
        <3> TAKE i \in 1 .. Len(next)
        <3>3. i = Len(lines) + 1 \/ i \in 1 .. Len(lines)
            BY <3>2
        <3> QED
            BY <1>1, <3>1, <3>2, <3>3
    <2> QED
        BY <1>2, <1>3, <1>8, <2>1, <2>2, <2>3 DEF WrappedTo, next
<1> QED
    BY <1>9, <1>10 DEF lines, long

\* So it is behind every word.
LEMMA WrapInvariant ==
    ASSUME NEW words \in Seq(Nat), NEW maxChars \in Nat
    PROVE  \A n \in 1 .. Len(words) : \E front, a : WrappedTo(words, maxChars, n, front, a)
<1> DEFINE N == Len(words)
           W(n) == \E front, a : WrappedTo(words, maxChars, n, front, a)
           T == {n \in Nat : n = 0 \/ W(n)}
<1>1. N \in Nat /\ 0 \in T
    OBVIOUS
<1>2. ASSUME NEW n \in 1 .. N, n - 1 \in T PROVE n \in T
    <2>1. CASE n = 1
        <3>1. words # <<>>
            BY <1>1, <2>1
        <3>2. W(1)
            BY <3>1, WrapFirst
        <3> HIDE DEF W
        <3> QED
            BY <1>1, <2>1, <3>2
    <2>2. CASE n # 1
        <3>1. PICK m \in 1 .. N - 1 : n = m + 1
            <4>1. n - 1 \in 1 .. N - 1 /\ n = (n - 1) + 1
                BY <1>1, <2>2
            <4> QED
                BY <4>1
        <3>2. W(m)
            <4> HIDE DEF W
            <4>1. n - 1 = m /\ m # 0
                BY <1>1, <3>1
            <4> QED
                BY <1>2, <4>1
        <3>3. W(m + 1)
            BY <3>1, <3>2, WrapNext
        <3> HIDE DEF W
        <3> QED
            BY <1>1, <3>1, <3>3
    <2> QED
        BY <2>1, <2>2
<1> HIDE DEF T, N
<1>3. \A n \in 0 .. N : n \in T
    BY <1>1, <1>2, InductionTo
<1> HIDE DEF W
<1>4. \A n \in 1 .. N : W(n)
    BY <1>1, <1>3 DEF T
<1> QED
    BY <1>4 DEF W, N

\* Words between which no line ends are part of one line, which is not shorter.
LEMMA OneLine ==
    ASSUME NEW words \in Seq(Nat), NEW maxChars \in Nat, NEW ends \in SUBSET (1 .. Len(words) - 1),
           \A line \in Broken(words, ends) : LineFits(line, maxChars),
           NEW n \in 1 .. Len(words) - 1, NEW a \in 1 .. n, \A e \in ends : ~(a <= e /\ e <= n)
    PROVE  TextLength(SubSeq(words, a, n + 1)) <= maxChars
<1> DEFINE N == Len(words)
           begins == {1} \cup {e + 1 : e \in {e \in ends : e < a}}
           s == Max(begins)
           after == {e \in ends \cup {N} : e >= s}
           b == Min(after)
<1>1. /\ N \in Nat /\ n \in Nat /\ a \in Nat /\ n + 1 <= N /\ 1 <= a /\ a <= n
      /\ ends \in SUBSET Nat /\ \A e \in ends : e < N
    OBVIOUS
<1> HIDE DEF N
<1>2. s \in begins /\ \A y \in begins : y <= s
    <2>1. begins \in SUBSET Int /\ begins # {} /\ a \in Int
        BY <1>1
    <2>2. \A y \in begins : y <= a
        BY <1>1
    <2> HIDE DEF begins
    <2> QED
        BY <2>1, <2>2, GreatestElement, Zenon
<1>3. s \in 1 .. a
    <2>1. begins \in SUBSET (1 .. a)
        BY <1>1
    <2> HIDE DEF begins
    <2> QED
        BY <1>2, <2>1
<1>4. s \in ({1} \cup {e + 1 : e \in ends}) \cap 1 .. N
    <2>1. s \in {1} \cup {e + 1 : e \in ends}
        <3> HIDE DEF s
        <3> QED
            BY <1>2
    <2> HIDE DEF s
    <2> QED
        BY <1>1, <1>3, <2>1
<1>5. \A e \in ends : e >= s => e > n
    <2> SUFFICES ASSUME NEW e \in ends, e >= s, e < a PROVE FALSE
        BY <1>1
    <2>1. e + 1 \in begins /\ e \in Nat
        BY <1>1
    <2> HIDE DEF s, begins
    <2>2. e + 1 <= s
        BY <1>2, <2>1
    <2> QED
        BY <1>3, <2>1, <2>2
<1> HIDE DEF s, begins
<1>6. b \in after /\ \A y \in after : b <= y
    <2>1. after \in SUBSET Nat
        BY <1>1
    <2>2. N >= s
        BY <1>1, <1>3
    <2>3. after # {}
        BY <2>2
    <2> HIDE DEF after
    <2> QED
        BY <2>1, <2>3, LeastElement
<1>7. b \in n + 1 .. N
    <2>1. \A y \in after : y \in n + 1 .. N
        BY <1>1, <1>5
    <2> HIDE DEF after
    <2> QED
        BY <1>6, <2>1
<1> HIDE DEF after, b
<1>8. SubSeq(words, s, b) \in Broken(words, ends)
    BY <1>4 DEF Broken, b, after, N
<1>9. LineFits(SubSeq(words, s, b), maxChars)
    BY <1>8
<1>10. /\ s \in 1 .. Len(words) /\ b \in s .. Len(words) /\ s \in 1 .. a
       /\ a \in 1 .. Len(words) /\ n + 1 \in a .. Len(words) /\ b \in n + 1 .. Len(words)
    BY <1>1, <1>3, <1>7 DEF N
<1>11. Len(SubSeq(words, s, b)) = b - s + 1
    BY <1>10, StretchLength
<1>12. TextLength(SubSeq(words, s, b)) <= maxChars
    <2>1. ~(b - s + 1 <= 1)
        BY <1>1, <1>3, <1>7
    <2> QED
        BY <1>9, <1>11, <2>1 DEF LineFits
<1> DEFINE u == TextLength(SubSeq(words, a, n + 1))
           v == TextLength(SubSeq(words, s, b))
<1>13. u \in Int /\ v \in Int /\ u <= v
    BY <1>10, StretchGrows
<1> HIDE DEF u, v
<1>14. v <= maxChars
    BY <1>12 DEF v
<1>15. u <= maxChars
    BY <1>13, <1>14
<1> QED
    BY <1>15 DEF u

\* Any other way to break the words has ended as many lines before the n-th word; and if no
\* more, then it has not ended one since the word that our last line begins with.
AheadOf(words, maxChars, ends, n, front, a) ==
    LET ended == Cardinality(ends \cap 1 .. n - 1)
    IN  /\ WrappedTo(words, maxChars, n, front, a)
        /\ ended >= Len(front)
        /\ ended = Len(front) => \A e \in ends : ~(a <= e /\ e < n)

\* With the next word wrapText keeps ahead: where it ends a line, a way that had ended no more
\* lines must have ended one too, as the words of two lines would not fit on one.
LEMMA AheadNext ==
    ASSUME NEW words \in Seq(Nat), NEW maxChars \in Nat, NEW ends \in SUBSET (1 .. Len(words) - 1),
           \A line \in Broken(words, ends) : LineFits(line, maxChars),
           NEW n \in 1 .. Len(words) - 1, NEW front, NEW a,
           AheadOf(words, maxChars, ends, n, front, a)
    PROVE  \E f, c : AheadOf(words, maxChars, ends, n + 1, f, c)
<1> DEFINE lines == LinesAfter(words, maxChars)[n]
           fits == TextLength(SubSeq(words, a, n + 1)) <= maxChars
           ended == Cardinality(ends \cap 1 .. n - 1)
           endedNext == Cardinality(ends \cap 1 .. (n + 1) - 1)
<1>1. /\ WrappedTo(words, maxChars, n, front, a)
      /\ ended >= Len(front)
      /\ ended = Len(front) => \A e \in ends : ~(a <= e /\ e < n)
    BY DEF AheadOf
<1>2. /\ front \in Seq(Seq(Nat)) /\ a \in 1 .. n /\ Len(lines) = Len(front) + 1
    <2>1. front \in Seq(Seq(Nat)) /\ a \in 1 .. n /\ lines = Append(front, SubSeq(words, a, n))
        BY <1>1 DEF WrappedTo
    <2>2. SubSeq(words, a, n) \in Seq(Nat)
        <3>1. a \in 1 .. Len(words) /\ n \in a .. Len(words)
            BY <2>1
        <3> QED
            BY <3>1, StretchLength
    <2> DEFINE line == SubSeq(words, a, n)
    <2>3. line \in Seq(Nat) /\ lines = Append(front, line)
        BY <2>1, <2>2
    <2> HIDE DEF line, lines
    <2> QED
        BY <2>1, <2>3
<1>3. /\ n \in Nat /\ Len(front) \in Nat
      /\ ends \in SUBSET Nat /\ \A e \in ends : e < Len(words)
    BY <1>2
<1>4. ended \in Nat /\ endedNext = IF n \in ends THEN ended + 1 ELSE ended
    <2>1. IsFiniteSet(ends \cap 1 .. n - 1)
        <3>1. IsFiniteSet(1 .. n - 1)
            BY <1>3, FS_Interval
        <3> QED
            BY <3>1, FS_Subset
    <2>2. ended \in Nat
        BY <2>1, FS_CardinalityType
    <2>3. CASE n \in ends
        <3>1. ends \cap 1 .. (n + 1) - 1 = (ends \cap 1 .. n - 1) \cup {n}
            BY <1>3, <2>3
        <3>2. n \notin ends \cap 1 .. n - 1
            BY <1>3
        <3> QED
            BY <2>1, <2>2, <2>3, <3>1, <3>2, FS_AddElement
    <2>4. CASE n \notin ends
        <3>1. ends \cap 1 .. (n + 1) - 1 = ends \cap 1 .. n - 1
            BY <1>3, <2>4
        <3> QED
            BY <2>2, <2>4, <3>1
    <2> QED
        BY <2>3, <2>4
<1>5. /\ fits => WrappedTo(words, maxChars, n + 1, front, a)
      /\ ~fits => WrappedTo(words, maxChars, n + 1, lines, n + 1)
    BY <1>1, WrapNext
<1>6. n \notin ends /\ ended = Len(front) => fits
    <2> SUFFICES ASSUME n \notin ends, ended = Len(front) PROVE fits
        OBVIOUS
    <2>1. \A e \in ends : ~(a <= e /\ e <= n)
        BY <1>1, <1>2, <1>3
    <2> HIDE DEF ended
    <2> QED
        BY <1>2, <2>1, OneLine
<1> HIDE DEF lines, fits, ended, endedNext
<1>7. CASE fits
    <2>1. endedNext >= Len(front)
        BY <1>1, <1>3, <1>4
    <2>2. endedNext = Len(front) => \A e \in ends : ~(a <= e /\ e < n + 1)
        <3> SUFFICES ASSUME endedNext = Len(front), NEW e \in ends
                     PROVE  ~(a <= e /\ e < n + 1)
            OBVIOUS
        <3>1. n \notin ends /\ ended = Len(front)
            BY <1>1, <1>3, <1>4
        <3> QED
            BY <1>1, <1>2, <1>3, <3>1
    <2>3. AheadOf(words, maxChars, ends, n + 1, front, a)
        BY <1>5, <1>7, <2>1, <2>2 DEF AheadOf, endedNext
    <2> QED
        BY <2>3
<1>8. CASE ~fits
    <2>1. endedNext >= Len(lines)
        BY <1>1, <1>2, <1>3, <1>4, <1>6, <1>8
    <2>2. \A e \in ends : ~(n + 1 <= e /\ e < n + 1)
        BY <1>3
    <2>3. AheadOf(words, maxChars, ends, n + 1, lines, n + 1)
        BY <1>5, <1>8, <2>1, <2>2 DEF AheadOf, endedNext
    <2> QED
        BY <2>3
<1> QED
    BY <1>7, <1>8

\* So no way to break the words into lines that fit has fewer lines than wrapText.
LEMMA NoFewerLines ==
    ASSUME NEW words \in Seq(Nat), words # <<>>, NEW maxChars \in Nat,
           NEW ends \in SUBSET (1 .. Len(words) - 1),
           \A line \in Broken(words, ends) : LineFits(line, maxChars)
    PROVE  Cardinality(ends) + 1 >= Len(LinesAfter(words, maxChars)[Len(words)])
<1> DEFINE N == Len(words)
           A(n) == \E front, a : AheadOf(words, maxChars, ends, n, front, a)
           T == {n \in Nat : n = 0 \/ A(n)}
<1>1. N \in Nat /\ N # 0 /\ 0 \in T
    OBVIOUS
<1>2. A(1)
    <2>1. ends \cap 1 .. 1 - 1 = {} /\ Len(<<>>) = 0
        OBVIOUS
    <2>2. Cardinality(ends \cap 1 .. 1 - 1) = 0
        BY <2>1, FS_EmptySet
    <2>3. \A e \in ends : ~(1 <= e /\ e < 1)
        OBVIOUS
    <2>4. WrappedTo(words, maxChars, 1, <<>>, 1)
        BY WrapFirst
    <2>5. AheadOf(words, maxChars, ends, 1, <<>>, 1)
        BY <2>1, <2>2, <2>3, <2>4 DEF AheadOf
    <2> QED
        BY <2>5
<1>3. ASSUME NEW n \in 1 .. N, n - 1 \in T PROVE n \in T
    <2>1. CASE n = 1
        <3> HIDE DEF A
        <3> QED
            BY <1>2, <2>1
    <2>2. CASE n # 1
        <3>1. PICK m \in 1 .. N - 1 : n = m + 1
            <4>1. n - 1 \in 1 .. N - 1 /\ n = (n - 1) + 1
                BY <1>1, <2>2
            <4> QED
                BY <4>1
        <3>2. A(m)
            <4> HIDE DEF A
            <4>1. n - 1 = m /\ m # 0
                BY <1>1, <3>1
            <4> QED
                BY <1>3, <4>1
        <3>3. A(m + 1)
            BY <3>1, <3>2, AheadNext
        <3> HIDE DEF A
        <3> QED
            BY <1>1, <3>1, <3>3
    <2> QED
        BY <2>1, <2>2
<1> HIDE DEF T, N
<1>4. \A n \in 0 .. N : n \in T
    BY <1>1, <1>3, InductionTo
<1>5. A(N)
    <2> HIDE DEF A
    <2> QED
        BY <1>1, <1>4 DEF T
<1>6. PICK front, a : AheadOf(words, maxChars, ends, N, front, a)
    BY <1>5
<1>7. /\ front \in Seq(Seq(Nat)) /\ a \in 1 .. N
      /\ LinesAfter(words, maxChars)[N] = Append(front, SubSeq(words, a, N))
      /\ Cardinality(ends \cap 1 .. N - 1) >= Len(front)
    BY <1>6 DEF AheadOf, WrappedTo
<1>8. ends \cap 1 .. N - 1 = ends
    BY DEF N
<1>9. Len(LinesAfter(words, maxChars)[N]) = Len(front) + 1 /\ Len(front) \in Nat
    <2> DEFINE line == SubSeq(words, a, N)
    <2>1. line \in Seq(Nat)
        <3>1. a \in 1 .. Len(words) /\ N \in a .. Len(words)
            BY <1>1, <1>7 DEF N
        <3> QED
            BY <3>1, StretchLength
    <2>2. LinesAfter(words, maxChars)[N] = Append(front, line)
        BY <1>7
    <2> HIDE DEF line
    <2> QED
        BY <1>7, <2>1, <2>2
<1>10. Cardinality(ends) \in Nat
    <2>1. IsFiniteSet(1 .. N - 1)
        BY <1>1, FS_Interval
    <2> QED
        BY <1>8, <2>1, FS_Subset, FS_CardinalityType
<1> DEFINE c == Cardinality(ends)
           k == Len(front)
<1>11. c >= k /\ c \in Nat /\ k \in Nat
    BY <1>7, <1>8, <1>9, <1>10
<1> HIDE DEF c, k
<1>12. c + 1 >= k + 1
    BY <1>11
<1> QED
    BY <1>9, <1>12 DEF N, c, k

\* wrapText, for all words and limits.
THEOREM ParagraphWrapsWell ==
    ASSUME NEW words \in Seq(Nat), NEW maxChars \in Nat
    PROVE  WellWrapped(words, maxChars)
<1> DEFINE lines == wrapText(words, maxChars)
           last == LinesAfter(words, maxChars)[Len(words)]
<1>1. CASE words = <<>>
    <2>1. last = <<>>
        <3>1. Len(words) = 0
            BY <1>1
        <3> QED
            BY <3>1, LinesAfterAre
    <2>2. lines = << <<>> >> /\ Len(lines) = 1
        BY <2>1 DEF wrapText
    <2> HIDE DEF lines, last
    <2>3. FlattenSeq(lines) = words
        <3>1. lines = Append(<<>>, <<>>) /\ <<>> \in Seq(Nat) /\ <<>> \in Seq(Seq(Nat))
            BY <2>2
        <3>2. FlattenSeq(Append(<<>>, <<>>)) = FlattenSeq(<<>>) \o <<>> /\ FlattenSeq(<<>>) = <<>>
            BY <3>1, FlattenAppend
        <3> QED
            BY <1>1, <3>1, <3>2
    <2>4. \A i \in DOMAIN lines : LineFits(lines[i], maxChars)
        BY <2>2 DEF LineFits
    <2>5. ASSUME NEW ends \in SUBSET (1 .. Len(words) - 1)
          PROVE  Cardinality(ends) + 1 >= Len(lines)
        <3>1. ends = {}
            BY <1>1, <2>5
        <3>2. Cardinality(ends) = 0
            BY <3>1, FS_EmptySet
        <3> QED
            BY <2>2, <3>2
    <2> QED
        BY <2>3, <2>4, <2>5 DEF WellWrapped, lines
<1>2. CASE words # <<>>
    <2>1. Len(words) \in 1 .. Len(words)
        BY <1>2
    <2>2. PICK front, a : WrappedTo(words, maxChars, Len(words), front, a)
        BY <2>1, WrapInvariant
    <2>3. /\ front \in Seq(Seq(Nat)) /\ a \in 1 .. Len(words)
          /\ last = Append(front, SubSeq(words, a, Len(words)))
          /\ FlattenSeq(last) = SubSeq(words, 1, Len(words))
          /\ \A i \in 1 .. Len(last) : LineFits(last[i], maxChars)
        BY <2>2 DEF WrappedTo
    <2> DEFINE line == SubSeq(words, a, Len(words))
    <2>4. line \in Seq(Nat)
        <3>1. Len(words) \in a .. Len(words)
            BY <2>3
        <3> QED
            BY <2>3, <3>1, StretchLength
    <2>5. last = Append(front, line)
        BY <2>3
    <2> HIDE DEF line, last
    <2>6. last # <<>> /\ DOMAIN last = 1 .. Len(last)
        <3>1. last \in Seq(Seq(Nat)) /\ last # <<>>
            BY <2>3, <2>4, <2>5, LastAndFront
        <3> QED
            BY <3>1
    <2>7. lines = last
        BY <2>6 DEF wrapText, last
    <2>8. SubSeq(words, 1, Len(words)) = words
        BY SubSeqFull
    <2>9. \A ends \in SUBSET (1 .. Len(words) - 1) :
              (\A l \in Broken(words, ends) : LineFits(l, maxChars))
                  => Cardinality(ends) + 1 >= Len(last)
        BY <1>2, NoFewerLines DEF last
    <2> HIDE DEF lines
    <2> QED
        BY <2>3, <2>6, <2>7, <2>8, <2>9 DEF WellWrapped, lines
<1> QED
    BY <1>1, <1>2

-----------------------------------------------------------------------------
(* Tables.                                                                  *)

\* The columns of a table: at least one, and each with a width.
Columns == {w \in Seq(Nat) : w # <<>>}

\* Finitely many numbers have a bound.
LEMMA Bounded ==
    ASSUME NEW n \in Nat, NEW f \in [1 .. n -> Nat]
    PROVE  \E b \in Nat : \A k \in 1 .. n : f[k] <= b
<1> DEFINE T == {m \in Nat : \E b \in Nat : \A k \in 1 .. m : f[k] <= b}
<1>1. 0 \in T
    OBVIOUS
<1>2. ASSUME NEW m \in 1 .. n, m - 1 \in T PROVE m \in T
    <2>1. PICK b \in Nat : \A k \in 1 .. m - 1 : f[k] <= b
        BY <1>2
    <2>2. f[m] \in Nat /\ m \in Nat
        OBVIOUS
    <2>3. \A k \in 1 .. m : f[k] \in Nat /\ f[k] <= b + f[m]
        <3> TAKE k \in 1 .. m
        <3>1. k \in 1 .. m - 1 \/ k = m
            OBVIOUS
        <3>2. f[k] \in Nat
            OBVIOUS
        <3> QED
            BY <2>1, <2>2, <3>1, <3>2
    <2>4. b + f[m] \in Nat
        BY <2>2
    <2> HIDE DEF T
    <2>5. \E c \in Nat : \A k \in 1 .. m : f[k] <= c
        BY <2>3, <2>4
    <2> QED
        BY <2>2, <2>5 DEF T
<1> HIDE DEF T
<1>3. \A m \in 0 .. n : m \in T
    BY <1>1, <1>2, InductionTo
<1>4. n \in T
    BY <1>3
<1> QED
    BY <1>4 DEF T

\* Of any columns one is the widest.
LEMMA WidestIs ==
    ASSUME NEW w \in Columns
    PROVE  /\ Widest(w) \in 1 .. Len(w)
           /\ \A j \in 1 .. Len(w) : w[Widest(w)] >= w[j]
<1> DEFINE D == 1 .. Len(w)
           widths == {w[i] : i \in D}
           widest == {i \in DOMAIN w : \A j \in DOMAIN w : w[i] >= w[j]}
<1>1. w \in Seq(Nat) /\ w # <<>>
    BY DEF Columns
<1>2. /\ w \in [D -> Nat] /\ DOMAIN w = D /\ Len(w) \in Nat /\ 1 \in D
      /\ \A i \in D : w[i] \in Nat
    BY <1>1
<1>3. PICK b \in Nat : \A i \in D : w[i] <= b
    BY <1>2, Bounded
<1>4. widths \in SUBSET Int /\ widths # {} /\ \A y \in widths : y <= b
    BY <1>2, <1>3
<1>5. Max(widths) \in widths /\ \A y \in widths : y <= Max(widths)
    <2> HIDE DEF widths
    <2>1. b \in Int
        OBVIOUS
    <2> QED
        BY <1>4, <2>1, GreatestElement, Zenon
<1>6. PICK i \in D : w[i] = Max(widths)
    BY <1>5
<1>7. \A j \in D : w[i] >= w[j]
    <2> TAKE j \in D
    <2>1. w[j] \in widths
        OBVIOUS
    <2> QED
        BY <1>2, <1>5, <1>6, <2>1
<1>8. widest \in SUBSET Nat /\ widest # {}
    <2>1. i \in DOMAIN w /\ \A j \in DOMAIN w : w[i] >= w[j]
        BY <1>2, <1>7
    <2>2. \A k \in DOMAIN w : k \in Nat
        BY <1>2
    <2> HIDE DEF widths
    <2> QED
        BY <2>1, <2>2
<1>9. Min(widest) \in widest
    <2> HIDE DEF widest
    <2> QED
        BY <1>8, LeastElement
<1> QED
    BY <1>2, <1>9 DEF Widest

\* A column that is narrowed by one makes the sum of the widths smaller by one.
LEMMA SumNarrowed ==
    ASSUME NEW w \in Seq(Nat), NEW i \in 1 .. Len(w), w[i] > 0
    PROVE  /\ [w EXCEPT ![i] = @ - 1] \in Seq(Nat)
           /\ Len([w EXCEPT ![i] = @ - 1]) = Len(w)
           /\ SumOf([w EXCEPT ![i] = @ - 1]) = SumOf(w) - 1
           /\ SumOf(w) \in Nat
<1> DEFINE t == [w EXCEPT ![i] = @ - 1]
           N == Len(w)
           less(n) == IF n >= i THEN 1 ELSE 0
           T == {n \in Nat : Sums(t)[n] = Sums(w)[n] - less(n)}
<1>1. N \in Nat /\ i \in Nat /\ i <= N /\ \A n \in 1 .. N : w[n] \in Nat
    OBVIOUS
<1>2. /\ t \in Seq(Nat) /\ Len(t) = N
      /\ \A n \in 1 .. N : t[n] = IF n = i THEN w[n] - 1 ELSE w[n]
    <2>1. w[i] - 1 \in Nat
        BY <1>1
    <2>2. w \in [1 .. N -> Nat]
        OBVIOUS
    <2>3. t \in [1 .. N -> Nat]
        BY <2>1, <2>2
    <2>4. \A n \in 1 .. N : t[n] = IF n = i THEN w[n] - 1 ELSE w[n]
        BY <2>2
    <2> HIDE DEF t, N
    <2> QED
        BY <1>1, <2>3, <2>4
<1> HIDE DEF t
<1>3. /\ Sums(w) \in [0 .. N -> Nat] /\ Sums(w)[0] = 0
      /\ \A n \in 1 .. N : Sums(w)[n] = Sums(w)[n - 1] + w[n]
    BY SumsAre
<1>4. /\ Sums(t)[0] = 0
      /\ \A n \in 1 .. N : Sums(t)[n] = Sums(t)[n - 1] + t[n]
    BY <1>2, SumsAre
<1> HIDE DEF N
<1>5. 0 \in T
    BY <1>1, <1>3, <1>4
<1>6. \A n \in 1 .. N : n - 1 \in T => n \in T
    <2> SUFFICES ASSUME NEW n \in 1 .. N, Sums(t)[n - 1] = Sums(w)[n - 1] - less(n - 1)
                 PROVE  Sums(t)[n] = Sums(w)[n] - less(n)
        BY <1>1
    <2> HIDE DEF T
    <2> DEFINE x == Sums(t)[n]
               x1 == Sums(t)[n - 1]
               y == Sums(w)[n]
               y1 == Sums(w)[n - 1]
               v == w[n]
               u == t[n]
    <2>1. x = x1 + u /\ y = y1 + v /\ x1 = y1 - less(n - 1)
        BY <1>3, <1>4
    <2>2. u = IF n = i THEN v - 1 ELSE v
        BY <1>2
    <2>3. n \in 0 .. N /\ n - 1 \in 0 .. N
        BY <1>1
    <2>4. v \in Nat /\ y \in Nat /\ y1 \in Nat
        BY <1>1, <1>3, <2>3
    <2> HIDE DEF x, x1, y, y1, v, u
    <2>5. CASE n = i
        <3>1. less(n) = 1 /\ less(n - 1) = 0
            BY <1>1, <2>5
        <3> HIDE DEF less
        <3>2. x = y - 1
            BY <2>1, <2>2, <2>4, <2>5, <3>1
        <3> QED
            BY <3>1, <3>2 DEF x, y
    <2>6. CASE n # i
        <3>1. less(n) = less(n - 1) /\ less(n) \in Int
            BY <1>1, <2>6
        <3> HIDE DEF less
        <3>2. x = y - less(n)
            BY <2>1, <2>2, <2>4, <2>6, <3>1
        <3> QED
            BY <3>2 DEF x, y
    <2> QED
        BY <2>5, <2>6
<1> HIDE DEF T
<1>7. \A n \in 0 .. N : n \in T
    BY <1>1, <1>5, <1>6, InductionTo
<1>8. Sums(t)[N] = Sums(w)[N] - 1 /\ Sums(w)[N] \in Nat
    <2>1. N \in 0 .. N /\ less(N) = 1
        BY <1>1
    <2> QED
        BY <1>3, <1>7, <2>1 DEF T
<1> QED
    BY <1>2, <1>8 DEF SumOf, N, t

\* What a turn of the loop does while the table is too wide: it narrows one of the widest
\* columns, which has more than six characters, and with it the table.
LEMMA NarrowerIs ==
    ASSUME NEW w \in Columns
    PROVE  /\ Total(w) \in Nat
           /\ Narrower(w) \in Columns
           /\ Len(Narrower(w)) = Len(w)
           /\ ~TooWide(w) => Narrower(w) = w
           /\ TooWide(w) =>
                 /\ Total(Narrower(w)) = Total(w) - 1
                 /\ \E i \in 1 .. Len(w) :
                       /\ w[i] > 6
                       /\ \A j \in 1 .. Len(w) : w[i] >= w[j]
                       /\ \A j \in 1 .. Len(w) :
                             Narrower(w)[j] = IF j = i THEN w[j] - 1 ELSE w[j]
<1>1. /\ w \in Seq(Nat) /\ w # <<>> /\ Len(w) \in Nat \ {0} /\ DOMAIN w = 1 .. Len(w)
      /\ \A i \in 1 .. Len(w) : w[i] \in Nat
    BY DEF Columns
<1>2. SumOf(w) \in Nat
    <2>1. Len(w) \in 0 .. Len(w)
        BY <1>1
    <2> QED
        BY <1>1, <2>1, SumsAre DEF SumOf
<1>3. Total(w) \in Nat
    BY <1>1, <1>2 DEF Total
<1>4. CASE ~TooWide(w)
    BY <1>1, <1>3, <1>4 DEF Narrower
<1>5. CASE TooWide(w)
    <2> DEFINE i == Widest(w)
               t == Narrower(w)
    <2>1. i \in 1 .. Len(w) /\ \A j \in 1 .. Len(w) : w[i] >= w[j]
        BY WidestIs
    <2>2. t = [w EXCEPT ![i] = @ - 1]
        BY <1>5 DEF Narrower
    <2> HIDE DEF i, t
    <2>3. w[i] > 6
        <3>1. PICK j \in 1 .. Len(w) : w[j] > 6
            BY <1>1, <1>5 DEF TooWide
        <3> QED
            BY <1>1, <2>1, <3>1
    <2>4. t \in Seq(Nat) /\ Len(t) = Len(w) /\ SumOf(t) = SumOf(w) - 1
        <3>1. w[i] > 0
            BY <1>1, <2>1, <2>3
        <3> QED
            BY <1>1, <2>1, <2>2, <3>1, SumNarrowed
    <2>5. t # <<>>
        BY <1>1, <2>4
    <2>6. Total(t) = Total(w) - 1
        <3> DEFINE x == SumOf(w)
                   c == 3 * (Len(w) - 1)
        <3>1. Total(w) = x + c /\ Total(t) = (x - 1) + c /\ x \in Nat /\ c \in Nat
            BY <1>1, <1>2, <2>4 DEF Total
        <3> HIDE DEF x, c
        <3> QED
            BY <3>1
    <2>7. \A j \in 1 .. Len(w) : t[j] = IF j = i THEN w[j] - 1 ELSE w[j]
        <3>1. w \in [1 .. Len(w) -> Nat]
            BY <1>1
        <3> QED
            BY <2>2, <3>1
    <2>8. t \in Columns
        BY <2>4, <2>5 DEF Columns
    <2> QED
        BY <1>3, <1>5, <2>1, <2>3, <2>4, <2>6, <2>7, <2>8 DEF t
<1> QED
    BY <1>4, <1>5

\* There are so many turns, none if nothing is in excess.
LEMMA ExcessIs ==
    ASSUME NEW w \in Columns
    PROVE  Excess(w) \in Nat /\ Total(w) - Excess(w) <= MaxChars
<1> DEFINE S == {0, Total(w) - MaxChars}
           b == IF Total(w) - MaxChars > 0 THEN Total(w) - MaxChars ELSE 0
<1>1. Total(w) \in Nat /\ MaxChars \in Nat
    BY NarrowerIs, LayoutAssumption
<1>2. S \in SUBSET Int /\ S # {} /\ b \in Int /\ \A y \in S : y <= b
    BY <1>1
<1>3. Max(S) \in S /\ \A y \in S : y <= Max(S)
    <2> HIDE DEF S, b
    <2> QED
        BY <1>2, GreatestElement, Zenon
<1>4. Excess(w) \in S /\ \A y \in S : y <= Excess(w)
    BY <1>3 DEF Excess
<1>5. 0 <= Excess(w) /\ Total(w) - MaxChars <= Excess(w)
    BY <1>4
<1>6. Excess(w) \in Int
    BY <1>1, <1>4
<1> QED
    BY <1>1, <1>5, <1>6

\* Narrowings is the function that its definition says: a turn of the while loop after the other.
LEMMA NarrowingsAre ==
    ASSUME NEW w \in Columns
    PROVE  /\ Narrowings(w) \in [0 .. Excess(w) -> Columns]
           /\ Narrowings(w)[0] = w
           /\ \A n \in 1 .. Excess(w) :
                 Narrowings(w)[n] = Narrower(Narrowings(w)[n - 1])
<1> DEFINE N == Excess(w)
           S == Columns
           P(v, n) == Narrower(v)
           step == [n \in 1 .. N |-> [v \in S |-> P(v, n)]]
           is(g) == g = [n \in 0 .. N |-> IF n = 0 THEN w ELSE P(g[n - 1], n)]
<1>1. N \in Nat
    BY ExcessIs
<1>2. Narrowings(w) = CHOOSE g : is(g)
    BY DEF Narrowings
<1>3. w \in S /\ \A n \in 1 .. N, v \in S : P(v, n) \in S
    BY NarrowerIs
<1> HIDE DEF N, P, S
<1>4. step \in Steps(N, S)
    BY <1>3 DEF Steps
<1>5. PICK f \in [0 .. N -> S] : f[0] = w /\ \A n \in 1 .. N : f[n] = step[n][f[n - 1]]
    <2> DEFINE base == w
    <2> HIDE DEF step
    <2>1. base \in S
        BY <1>3
    <2> HIDE DEF base
    <2>2. \E f : f \in Courses(N, S, base, step)
        BY <1>1, <1>4, <2>1, Recursion
    <2> QED
        BY <2>2 DEF Courses, base
<1>6. \A n \in 1 .. N : f[n - 1] \in S /\ f[n] = P(f[n - 1], n)
    <2> TAKE n \in 1 .. N
    <2>1. n - 1 \in 0 .. N
        BY <1>1
    <2>2. f[n - 1] \in S
        BY <1>5, <2>1
    <2>3. step[n][f[n - 1]] = P(f[n - 1], n)
        BY <2>2
    <2> QED
        BY <1>5, <2>2, <2>3
<1>7. is(f)
    <2>1. \A n \in 0 .. N : f[n] = IF n = 0 THEN w ELSE P(f[n - 1], n)
        <3> TAKE n \in 0 .. N
        <3>1. n # 0 => n \in 1 .. N
            BY <1>1
        <3> QED
            BY <1>5, <1>6, <3>1
    <2> QED
        BY <2>1
<1> DEFINE g == Narrowings(w)
<1>8. is(g)
    <2> HIDE DEF is
    <2> QED
        BY <1>2, <1>7
<1> HIDE DEF g
<1>9. g = [n \in 0 .. N |-> IF n = 0 THEN w ELSE P(g[n - 1], n)]
    BY <1>8
<1>10. g = [n \in 0 .. N |-> g[n]] /\ g[0] = w
    BY <1>1, <1>9
<1>11. \A n \in 1 .. N : g[n] = P(g[n - 1], n)
    <2> TAKE n \in 1 .. N
    <2>1. n \in 0 .. N /\ n # 0
        BY <1>1
    <2> QED
        BY <1>9, <2>1
<1> DEFINE T == {n \in Nat : g[n] \in S}
<1>12. 0 \in T
    BY <1>3, <1>10
<1>13. \A n \in 1 .. N : n - 1 \in T => n \in T
    BY <1>1, <1>3, <1>11
<1> HIDE DEF T
<1>14. \A n \in 0 .. N : n \in T
    BY <1>1, <1>12, <1>13, InductionTo
<1>15. \A n \in 0 .. N : g[n] \in S
    BY <1>14 DEF T
<1>16. g \in [0 .. N -> S]
    BY <1>10, <1>15
<1> QED
    BY <1>10, <1>11, <1>16 DEF g, N, S, P

\* Columns that were cut from others: by no more than necessary, and the longest alike.
CutFrom(natural, w) ==
    /\ w \in Columns /\ Len(w) = Len(natural)
    /\ \A i \in 1 .. Len(natural) : 3 <= w[i] /\ w[i] <= natural[i]
    /\ (\E i \in 1 .. Len(natural) : w[i] < natural[i]) => Total(w) >= MaxChars
    /\ \A i, j \in 1 .. Len(natural) : w[i] < natural[i] => w[i] >= w[j] - 1

\* A turn of the while loop cuts no column further than it is to be cut.
LEMMA NarrowerKeeps ==
    ASSUME NEW natural \in Columns, NEW w, CutFrom(natural, w)
    PROVE  CutFrom(natural, Narrower(w))
<1> DEFINE t == Narrower(w)
           D == 1 .. Len(natural)
<1>1. /\ w \in Columns /\ Len(w) = Len(natural)
      /\ \A i \in D : 3 <= w[i] /\ w[i] <= natural[i]
      /\ (\E i \in D : w[i] < natural[i]) => Total(w) >= MaxChars
      /\ \A i, j \in D : w[i] < natural[i] => w[i] >= w[j] - 1
    BY DEF CutFrom
<1>2. CASE ~TooWide(w)
    BY <1>2, NarrowerIs, <1>1
<1>3. CASE TooWide(w)
    <2>1. PICK i \in D : /\ w[i] > 6
                         /\ \A j \in D : w[i] >= w[j]
                         /\ \A j \in D : t[j] = IF j = i THEN w[j] - 1 ELSE w[j]
        BY <1>1, <1>3, NarrowerIs
    <2>2. t \in Columns /\ Len(t) = Len(natural) /\ Total(t) = Total(w) - 1 /\ Total(w) \in Nat
        BY <1>1, <1>3, NarrowerIs
    <2>3. Total(t) >= MaxChars
        BY <1>3, <2>2, LayoutAssumption DEF TooWide
    <2>4. \A j \in D : w[j] \in Nat /\ natural[j] \in Nat
        BY <1>1 DEF Columns
    <2> HIDE DEF t, D
    <2>5. \A j \in D : 3 <= t[j] /\ t[j] <= natural[j] /\ t[j] <= w[j] /\ t[j] \in Nat
        <3> TAKE j \in D
        <3>1. w[j] \in Nat /\ natural[j] \in Nat /\ 3 <= w[j] /\ w[j] <= natural[j]
            BY <1>1, <2>4
        <3>2. CASE j = i
            <4>1. t[j] = w[j] - 1 /\ w[j] > 6
                BY <2>1, <3>2
            <4> QED
                BY <3>1, <4>1
        <3>3. CASE j # i
            <4>1. t[j] = w[j]
                BY <2>1, <3>3
            <4> QED
                BY <3>1, <4>1
        <3> QED
            BY <3>2, <3>3
    <2>6. ASSUME NEW k \in D, NEW j \in D, t[k] < natural[k] PROVE t[k] >= t[j] - 1
        <3>1. /\ w[k] \in Nat /\ natural[k] \in Nat /\ w[j] \in Nat /\ w[i] \in Nat
              /\ t[j] \in Nat /\ t[j] <= w[j] /\ t[k] \in Nat
            BY <2>4, <2>5
        <3>2. CASE k = i
            <4>1. t[k] = w[k] - 1 /\ w[k] >= w[j]
                BY <2>1, <3>2
            <4> QED
                BY <3>1, <4>1
        <3>3. CASE k # i
            <4>1. t[k] = w[k]
                BY <2>1, <3>3
            <4>2. w[k] >= w[j] - 1
                BY <1>1, <2>6, <4>1 DEF D
            <4> QED
                BY <3>1, <4>1, <4>2
        <3> QED
            BY <3>2, <3>3
    <2> QED
        BY <2>2, <2>3, <2>5, <2>6 DEF CutFrom, t, D
<1> QED
    BY <1>2, <1>3

\* The columns at the end of the loop.
LEMMA NarrowedIsCut ==
    ASSUME NEW natural \in Columns, \A i \in 1 .. Len(natural) : 3 <= natural[i]
    PROVE  CutFrom(natural, Narrowed(natural)) /\ ~TooWide(Narrowed(natural))
<1> DEFINE N == Excess(natural)
           f == Narrowings(natural)
           T == {n \in Nat : /\ CutFrom(natural, f[n])
                             /\ Total(f[n]) = Total(natural) - n \/ ~TooWide(f[n])}
<1>1. N \in Nat /\ Total(natural) - N <= MaxChars /\ Total(natural) \in Nat
    BY ExcessIs, NarrowerIs
<1>2. f[0] = natural /\ \A n \in 1 .. N : f[n] = Narrower(f[n - 1])
    BY NarrowingsAre
<1> HIDE DEF f, N
<1>3. 0 \in T
    <2>1. \A i \in 1 .. Len(natural) : natural[i] \in Nat
        BY DEF Columns
    <2>2. \A i \in 1 .. Len(natural) : 3 <= natural[i] /\ natural[i] <= natural[i]
        BY <2>1
    <2>3. \A i \in 1 .. Len(natural) : ~(natural[i] < natural[i])
        BY <2>1
    <2>4. CutFrom(natural, natural)
        BY <2>2, <2>3 DEF CutFrom
    <2>5. Total(natural) = Total(natural) - 0
        BY <1>1
    <2> QED
        BY <1>2, <2>4, <2>5
<1>4. ASSUME NEW n \in 1 .. N, n - 1 \in T PROVE n \in T
    <2>1. /\ CutFrom(natural, f[n - 1])
          /\ Total(f[n - 1]) = Total(natural) - (n - 1) \/ ~TooWide(f[n - 1])
        BY <1>4
    <2>2. f[n] = Narrower(f[n - 1]) /\ n \in Nat
        BY <1>1, <1>2
    <2>3. CutFrom(natural, f[n])
        BY <2>1, <2>2, NarrowerKeeps
    <2>4. f[n - 1] \in Columns
        BY <2>1 DEF CutFrom
    <2>5. CASE ~TooWide(f[n - 1])
        <3>1. f[n] = f[n - 1]
            BY <2>2, <2>4, <2>5, NarrowerIs
        <3> QED
            BY <2>2, <2>3, <2>5, <3>1
    <2>6. CASE TooWide(f[n - 1])
        <3>1. Total(f[n]) = Total(f[n - 1]) - 1 /\ Total(f[n - 1]) \in Nat
            BY <2>2, <2>4, <2>6, NarrowerIs
        <3>2. Total(f[n]) = Total(natural) - n
            BY <1>1, <2>1, <2>2, <2>6, <3>1
        <3> QED
            BY <2>2, <2>3, <3>2
    <2> QED
        BY <2>5, <2>6
<1> HIDE DEF T
<1>5. \A n \in 0 .. N : n \in T
    BY <1>1, <1>3, <1>4, InductionTo
<1>6. CutFrom(natural, f[N]) /\ (Total(f[N]) = Total(natural) - N \/ ~TooWide(f[N]))
    BY <1>1, <1>5 DEF T
<1>7. ~TooWide(f[N])
    <2>1. CASE Total(f[N]) = Total(natural) - N
        BY <1>1, <2>1, LayoutAssumption DEF TooWide
    <2> QED
        BY <1>6, <2>1
<1> QED
    BY <1>6, <1>7 DEF Narrowed, f, N

\* A row's cells have lengths.
LEMMA CellsOf ==
    ASSUME NEW row \in TableRows
    PROVE  /\ Len(row) \in Nat \ {0} /\ DOMAIN row = 1 .. Len(row)
           /\ \A i \in 1 .. Len(row) : CellLength(row[i]) \in Nat
<1>1. row \in Seq(Nat \cup {Rule}) /\ row # <<>>
    BY DEF TableRows
<1>2. Len(row) \in Nat \ {0} /\ DOMAIN row = 1 .. Len(row)
    BY <1>1
<1>3. \A i \in 1 .. Len(row) : row[i] \in Nat \cup {Rule}
    BY <1>1
<1>4. \A i \in 1 .. Len(row) : CellLength(row[i]) \in Nat
    BY <1>3 DEF CellLength, Rule
<1> QED
    BY <1>2, <1>4

\* DataRowsTo is the function that its definition says.
LEMMA DataRowsToAre ==
    ASSUME NEW rows \in Seq(TableRows)
    PROVE  /\ DataRowsTo(rows) \in [0 .. Len(rows) -> Seq(TableRows)]
           /\ DataRowsTo(rows)[0] = <<>>
           /\ \A n \in 1 .. Len(rows) :
                 DataRowsTo(rows)[n] = IF IsData(rows[n])
                                       THEN Append(DataRowsTo(rows)[n - 1], rows[n])
                                       ELSE DataRowsTo(rows)[n - 1]
<1> DEFINE N == Len(rows)
           S == Seq(TableRows)
           P(v, n) == IF IsData(rows[n]) THEN Append(v, rows[n]) ELSE v
           step == [n \in 1 .. N |-> [v \in S |-> P(v, n)]]
           is(g) == g = [n \in 0 .. N |-> IF n = 0 THEN <<>> ELSE P(g[n - 1], n)]
<1>1. N \in Nat
    OBVIOUS
<1>0. \A n \in 1 .. N : rows[n] \in TableRows
    OBVIOUS
<1>2. DataRowsTo(rows) = CHOOSE g : is(g)
    BY DEF DataRowsTo
<1>3. <<>> \in S /\ \A n \in 1 .. N, v \in S : P(v, n) \in S
    <2>1. <<>> \in S
        OBVIOUS
    <2>2. \A n \in 1 .. N, v \in S : Append(v, rows[n]) \in S
        BY <1>0
    <2> QED
        BY <2>1, <2>2
<1> HIDE DEF N, P, S
<1>4. step \in Steps(N, S)
    BY <1>3 DEF Steps
<1>5. PICK f \in [0 .. N -> S] : f[0] = <<>> /\ \A n \in 1 .. N : f[n] = step[n][f[n - 1]]
    <2> DEFINE base == <<>>
    <2> HIDE DEF step
    <2>1. base \in S
        BY <1>3
    <2> HIDE DEF base
    <2>2. \E f : f \in Courses(N, S, base, step)
        BY <1>1, <1>4, <2>1, Recursion
    <2> QED
        BY <2>2 DEF Courses, base
<1>6. \A n \in 1 .. N : f[n - 1] \in S /\ f[n] = P(f[n - 1], n)
    <2> TAKE n \in 1 .. N
    <2>1. n - 1 \in 0 .. N
        BY <1>1
    <2>2. f[n - 1] \in S
        BY <1>5, <2>1
    <2>3. step[n][f[n - 1]] = P(f[n - 1], n)
        BY <2>2
    <2> QED
        BY <1>5, <2>2, <2>3
<1>7. is(f)
    <2>1. \A n \in 0 .. N : f[n] = IF n = 0 THEN <<>> ELSE P(f[n - 1], n)
        <3> TAKE n \in 0 .. N
        <3>1. n # 0 => n \in 1 .. N
            BY <1>1
        <3> QED
            BY <1>5, <1>6, <3>1
    <2> QED
        BY <2>1
<1> DEFINE g == DataRowsTo(rows)
<1>8. is(g)
    <2> HIDE DEF is
    <2> QED
        BY <1>2, <1>7
<1> HIDE DEF g
<1>9. g = [n \in 0 .. N |-> IF n = 0 THEN <<>> ELSE P(g[n - 1], n)]
    BY <1>8
<1>10. g = [n \in 0 .. N |-> g[n]] /\ g[0] = <<>>
    BY <1>1, <1>9
<1>11. \A n \in 1 .. N : g[n] = P(g[n - 1], n)
    <2> TAKE n \in 1 .. N
    <2>1. n \in 0 .. N /\ n # 0
        BY <1>1
    <2> QED
        BY <1>9, <2>1
<1> DEFINE T == {n \in Nat : g[n] \in S}
<1>12. 0 \in T
    BY <1>3, <1>10
<1>13. \A n \in 1 .. N : n - 1 \in T => n \in T
    BY <1>1, <1>3, <1>11
<1> HIDE DEF T
<1>14. \A n \in 0 .. N : n \in T
    BY <1>1, <1>12, <1>13, InductionTo
<1>15. \A n \in 0 .. N : g[n] \in S
    BY <1>14 DEF T
<1>16. g \in [0 .. N -> S]
    BY <1>10, <1>15
<1> QED
    BY <1>10, <1>11, <1>16 DEF g, N, S, P

\* The rows of data are those that show data, and no others.
LEMMA DataRowsAre ==
    ASSUME NEW rows \in Seq(TableRows)
    PROVE  /\ DataRows(rows) \in Seq(TableRows)
           /\ \A k \in 1 .. Len(DataRows(rows)) :
                 \E j \in 1 .. Len(rows) : DataRows(rows)[k] = rows[j]
           /\ \A j \in 1 .. Len(rows) : IsData(rows[j]) =>
                 \E k \in 1 .. Len(DataRows(rows)) : DataRows(rows)[k] = rows[j]
<1> DEFINE N == Len(rows)
           f == DataRowsTo(rows)
           Of(d, n) == /\ \A k \in 1 .. Len(d) : \E j \in 1 .. n : d[k] = rows[j]
                       /\ \A j \in 1 .. n : IsData(rows[j]) => \E k \in 1 .. Len(d) : d[k] = rows[j]
           T == {n \in Nat : Of(f[n], n)}
<1>1. N \in Nat /\ \A n \in 1 .. N : rows[n] \in TableRows
    OBVIOUS
<1>2. /\ f \in [0 .. N -> Seq(TableRows)] /\ f[0] = <<>>
      /\ \A n \in 1 .. N :
            f[n] = IF IsData(rows[n]) THEN Append(f[n - 1], rows[n]) ELSE f[n - 1]
    BY DataRowsToAre
<1> HIDE DEF f, N
<1>3. 0 \in T
    BY <1>2
<1>4. ASSUME NEW n \in 1 .. N, n - 1 \in T PROVE n \in T
    <2> DEFINE d == f[n - 1]
               e == f[n]
    <2>1. n \in Nat /\ n - 1 \in 0 .. N /\ n - 1 \in Nat
        BY <1>1
    <2>2. d \in Seq(TableRows) /\ rows[n] \in TableRows /\ Of(d, n - 1)
        BY <1>1, <1>2, <1>4, <2>1
    <2>3. e = IF IsData(rows[n]) THEN Append(d, rows[n]) ELSE d
        BY <1>2
    <2> HIDE DEF d, e, T
    <2>4. CASE IsData(rows[n])
        <3>1. /\ Len(e) = Len(d) + 1 /\ Len(d) \in Nat /\ e[Len(d) + 1] = rows[n]
              /\ \A k \in 1 .. Len(d) : e[k] = d[k]
            BY <2>2, <2>3, <2>4
        <3>2. ASSUME NEW k \in 1 .. Len(e) PROVE \E j \in 1 .. n : e[k] = rows[j]
            <4>1. CASE k \in 1 .. Len(d)
                <5>1. PICK j \in 1 .. n - 1 : d[k] = rows[j]
                    BY <2>2, <4>1
                <5> QED
                    BY <2>1, <3>1, <4>1, <5>1
            <4>2. CASE k = Len(d) + 1
                BY <2>1, <3>1, <4>2
            <4> QED
                BY <3>1, <4>1, <4>2
        <3>3. ASSUME NEW j \in 1 .. n, IsData(rows[j])
              PROVE  \E k \in 1 .. Len(e) : e[k] = rows[j]
            <4>1. CASE j \in 1 .. n - 1
                <5>1. PICK k \in 1 .. Len(d) : d[k] = rows[j]
                    BY <2>2, <3>3, <4>1
                <5>2. k \in 1 .. Len(e) /\ e[k] = rows[j]
                    BY <3>1, <5>1
                <5> QED
                    BY <5>2
            <4>2. CASE j = n
                <5>1. Len(d) + 1 \in 1 .. Len(e)
                    BY <3>1
                <5> QED
                    BY <3>1, <4>2, <5>1
            <4> QED
                BY <2>1, <4>1, <4>2
        <3>4. Of(e, n)
            BY <3>2, <3>3
        <3> HIDE DEF Of
        <3> QED
            BY <2>1, <3>4 DEF T, e
    <2>5. CASE ~IsData(rows[n])
        <3>1. e = d
            BY <2>3, <2>5
        <3>2. \A j \in 1 .. n : IsData(rows[j]) => j \in 1 .. n - 1
            <4> TAKE j \in 1 .. n
            <4>1. j = n \/ j \in 1 .. n - 1
                BY <2>1
            <4> QED
                BY <2>5, <4>1
        <3>3. \A j \in 1 .. n - 1 : j \in 1 .. n
            BY <2>1
        <3>4. Of(d, n)
            BY <2>2, <3>2, <3>3
        <3> HIDE DEF Of
        <3> QED
            BY <2>1, <3>1, <3>4 DEF T, e
    <2> QED
        BY <2>4, <2>5
<1> HIDE DEF T
<1>5. \A n \in 0 .. N : n \in T
    BY <1>1, <1>3, <1>4, InductionTo
<1>6. N \in T /\ N \in 0 .. N
    BY <1>1, <1>5
<1>7. Of(f[N], N)
    <2> HIDE DEF Of
    <2> QED
        BY <1>6 DEF T
<1>8. f[N] = DataRows(rows)
    BY DEF f, N, DataRows
<1>9. f[N] \in Seq(TableRows)
    BY <1>2, <1>6
<1> QED
    BY <1>7, <1>8, <1>9 DEF N

\* The columns of rows: as many as the longest row has cells, and each at least three
\* characters and as wide as the longest cell in it.
LEMMA NaturalWidthsAre ==
    ASSUME NEW rows \in Seq(TableRows), rows # <<>>
    PROVE  /\ NaturalWidths(rows) \in Columns
           /\ \E k \in 1 .. Len(rows) : Len(NaturalWidths(rows)) = Len(rows[k])
           /\ \A k \in 1 .. Len(rows) : Len(rows[k]) <= Len(NaturalWidths(rows))
           /\ \A i \in 1 .. Len(NaturalWidths(rows)) :
                 /\ NaturalWidths(rows)[i] \in Nat
                 /\ 3 <= NaturalWidths(rows)[i]
                 /\ \A k \in 1 .. Len(rows) : i <= Len(rows[k]) =>
                       CellLength(rows[k][i]) <= NaturalWidths(rows)[i]
                 /\ NaturalWidths(rows)[i] = 3 \/ \E k \in 1 .. Len(rows) :
                       i <= Len(rows[k]) /\ NaturalWidths(rows)[i] = CellLength(rows[k][i])
<1> DEFINE D == 1 .. Len(rows)
           lens == {Len(rows[k]) : k \in DOMAIN rows}
           C == Max(lens)
           cells(i) == {CellLength(rows[k][i]) : k \in {k \in DOMAIN rows : i <= Len(rows[k])}}
<1>1. /\ Len(rows) \in Nat \ {0} /\ DOMAIN rows = D /\ 1 \in D
      /\ \A k \in D : rows[k] \in TableRows
    OBVIOUS
<1>2. \A k \in D : Len(rows[k]) \in Nat \ {0}
    BY <1>1, CellsOf
<1>3. C \in lens /\ \A y \in lens : y <= C
    <2> DEFINE f == [k \in D |-> Len(rows[k])]
    <2>1. f \in [D -> Nat]
        BY <1>2
    <2>2. PICK b \in Nat : \A k \in D : f[k] <= b
        <3> HIDE DEF f
        <3> QED
            BY <1>1, <2>1, Bounded
    <2>3. lens \in SUBSET Int /\ b \in Int
        BY <1>1, <1>2
    <2>4. Len(rows[1]) \in lens
        BY <1>1
    <2>5. \A y \in lens : y <= b
        BY <1>1, <2>2
    <2> HIDE DEF lens
    <2> QED
        BY <2>3, <2>4, <2>5, GreatestElement, Zenon
<1>4. PICK m \in D : C = Len(rows[m])
    BY <1>1, <1>3
<1>5. C \in Nat \ {0} /\ \A k \in D : Len(rows[k]) <= C
    <2>1. \A k \in D : Len(rows[k]) \in lens
        BY <1>1
    <2> HIDE DEF lens, C
    <2> QED
        BY <1>2, <1>3, <1>4, <2>1
<1> HIDE DEF C, lens
<1>6. ASSUME NEW i \in 1 .. C
      PROVE  /\ Max({3} \cup cells(i)) \in {3} \cup cells(i)
             /\ \A y \in {3} \cup cells(i) : y <= Max({3} \cup cells(i))
    <2> DEFINE f == [k \in D |-> IF i <= Len(rows[k]) THEN CellLength(rows[k][i]) ELSE 0]
               all == {3} \cup cells(i)
    <2>1. \A k \in D : i <= Len(rows[k]) => CellLength(rows[k][i]) \in Nat
        <3> SUFFICES ASSUME NEW k \in D, i <= Len(rows[k]) PROVE CellLength(rows[k][i]) \in Nat
            OBVIOUS
        <3>1. i \in 1 .. Len(rows[k])
            BY <1>2, <1>5
        <3> QED
            BY <1>1, <3>1, CellsOf
    <2>2. f \in [D -> Nat]
        BY <2>1
    <2>3. PICK b \in Nat : \A k \in D : f[k] <= b
        <3> HIDE DEF f
        <3> QED
            BY <1>1, <2>2, Bounded
    <2>4. all \in SUBSET Int /\ all # {} /\ b + 3 \in Int
        BY <1>1, <2>1
    <2>5. \A y \in cells(i) : y <= b
        BY <1>1, <2>3
    <2>6. \A y \in all : y <= b + 3
        <3> TAKE y \in all
        <3>1. y \in Int
            BY <2>4
        <3>2. CASE y = 3
            BY <3>2
        <3>3. CASE y \in cells(i)
            <4>1. y <= b
                BY <2>5, <3>3
            <4> QED
                BY <3>1, <4>1
        <3> QED
            BY <3>2, <3>3
    <2> HIDE DEF all
    <2>7. Max(all) \in all /\ \A y \in all : y <= Max(all)
        BY <2>4, <2>6, GreatestElement, Zenon
    <2> QED
        BY <2>7 DEF all
<1> DEFINE w == NaturalWidths(rows)
<1>7. w = [i \in 1 .. C |-> Max({3} \cup cells(i))]
    BY DEF NaturalWidths, C, lens
<1> HIDE DEF w
<1>8. ASSUME NEW i \in 1 .. C
      PROVE  /\ w[i] \in Nat /\ 3 <= w[i]
             /\ \A k \in D : i <= Len(rows[k]) => CellLength(rows[k][i]) <= w[i]
             /\ w[i] = 3 \/ \E k \in D : i <= Len(rows[k]) /\ w[i] = CellLength(rows[k][i])
    <2>1. w[i] \in {3} \cup cells(i) /\ \A y \in {3} \cup cells(i) : y <= w[i]
        BY <1>6, <1>7
    <2>2. \A k \in D : i <= Len(rows[k]) => CellLength(rows[k][i]) \in cells(i)
        BY <1>1
    <2>3. w[i] = 3 \/ \E k \in D : i <= Len(rows[k]) /\ w[i] = CellLength(rows[k][i])
        BY <1>1, <2>1
    <2>4. w[i] \in Nat
        <3>1. CASE w[i] = 3
            BY <3>1
        <3>2. CASE \E k \in D : i <= Len(rows[k]) /\ w[i] = CellLength(rows[k][i])
            <4>1. PICK k \in D : i <= Len(rows[k]) /\ w[i] = CellLength(rows[k][i])
                BY <3>2
            <4>2. i \in 1 .. Len(rows[k])
                BY <1>2, <1>5, <4>1
            <4> QED
                BY <1>1, <4>1, <4>2, CellsOf
        <3> QED
            BY <2>3, <3>1, <3>2
    <2> HIDE DEF cells
    <2>5. 3 <= w[i]
        BY <2>1
    <2> QED
        BY <2>1, <2>2, <2>3, <2>4, <2>5
<1>9. w \in Columns /\ Len(w) = C
    <2>1. w \in [1 .. C -> Nat]
        BY <1>7, <1>8
    <2> QED
        BY <1>5, <2>1 DEF Columns
<1> QED
    BY <1>4, <1>5, <1>8, <1>9 DEF w

\* tableToLines, for all tables that have data.
THEOREM TableCutsFairly ==
    ASSUME NEW rows \in Seq(TableRows), DataRows(rows) # <<>>
    PROVE  FairlyCut(rows)
<1> DEFINE data == DataRows(rows)
           D == 1 .. Len(rows)
           n == NaturalWidths(rows)
           d == NaturalWidths(data)
           w == Narrowed(d)
<1>1. /\ data \in Seq(TableRows) /\ data # <<>>
      /\ \A k \in 1 .. Len(data) : \E j \in D : data[k] = rows[j]
      /\ \A j \in D : IsData(rows[j]) => \E k \in 1 .. Len(data) : data[k] = rows[j]
    BY DataRowsAre
<1> HIDE DEF data
<1>2. /\ d \in Columns
      /\ \E k \in 1 .. Len(data) : Len(d) = Len(data[k])
      /\ \A k \in 1 .. Len(data) : Len(data[k]) <= Len(d)
      /\ \A i \in 1 .. Len(d) :
            /\ d[i] \in Nat /\ 3 <= d[i]
            /\ \A k \in 1 .. Len(data) : i <= Len(data[k]) => CellLength(data[k][i]) <= d[i]
            /\ d[i] = 3 \/ \E k \in 1 .. Len(data) :
                  i <= Len(data[k]) /\ d[i] = CellLength(data[k][i])
    BY <1>1, NaturalWidthsAre
<1>3. rows # <<>> /\ \A k \in D : rows[k] \in TableRows
    BY <1>1, <1>2
<1>4. /\ n \in Columns
      /\ \A k \in D : Len(rows[k]) <= Len(n)
      /\ \A i \in 1 .. Len(n) :
            /\ n[i] \in Nat /\ 3 <= n[i]
            /\ \A k \in D : i <= Len(rows[k]) => CellLength(rows[k][i]) <= n[i]
            /\ n[i] = 3 \/ \E k \in D : i <= Len(rows[k]) /\ n[i] = CellLength(rows[k][i])
    BY <1>3, NaturalWidthsAre
<1>5. Len(d) \in Nat /\ Len(n) \in Nat
    BY <1>2, <1>4 DEF Columns
<1> HIDE DEF n, d
<1>6. Len(d) <= Len(n)
    <2>1. PICK k \in 1 .. Len(data) : Len(d) = Len(data[k])
        BY <1>2
    <2>2. PICK j \in D : data[k] = rows[j]
        BY <1>1
    <2> QED
        BY <1>4, <2>1, <2>2
<1>7. ASSUME NEW i \in 1 .. Len(d) PROVE n[i] = d[i]
    <2>1. i \in 1 .. Len(n)
        BY <1>5, <1>6
    <2>2. n[i] \in Nat /\ d[i] \in Nat /\ 3 <= n[i] /\ 3 <= d[i]
        BY <1>2, <1>4, <2>1
    <2>3. d[i] <= n[i]
        <3>1. CASE d[i] = 3
            BY <2>2, <3>1
        <3>2. ASSUME NEW k \in 1 .. Len(data), i <= Len(data[k]), d[i] = CellLength(data[k][i])
              PROVE  d[i] <= n[i]
            <4>1. PICK j \in D : data[k] = rows[j]
                BY <1>1
            <4> QED
                BY <1>4, <2>1, <3>2, <4>1
        <3> QED
            BY <1>2, <3>1, <3>2
    <2>4. n[i] <= d[i]
        <3>1. CASE n[i] = 3
            BY <2>2, <3>1
        <3>2. ASSUME NEW k \in D, i <= Len(rows[k]), n[i] = CellLength(rows[k][i])
              PROVE  n[i] <= d[i]
            <4>1. CASE IsData(rows[k])
                <5>1. PICK j \in 1 .. Len(data) : data[j] = rows[k]
                    BY <1>1, <4>1
                <5> QED
                    BY <1>2, <3>2, <5>1
            <4>2. CASE ~IsData(rows[k])
                <5>1. i \in DOMAIN rows[k]
                    <6>1. Len(rows[k]) \in Nat /\ DOMAIN rows[k] = 1 .. Len(rows[k])
                        BY <1>3, CellsOf
                    <6> QED
                        BY <1>5, <3>2, <6>1
                <5>2. rows[k][i] = Rule
                    BY <4>2, <5>1 DEF IsData
                <5>3. n[i] = 3
                    BY <3>2, <5>2 DEF CellLength
                <5> QED
                    BY <2>2, <5>3
            <4> QED
                BY <4>1, <4>2
        <3> QED
            BY <1>4, <2>1, <3>1, <3>2
    <2> QED
        BY <2>2, <2>3, <2>4
<1>8. CutFrom(d, w) /\ ~TooWide(w)
    BY <1>2, NarrowedIsCut
<1> HIDE DEF w
<1>9. w \in Columns /\ Len(w) = Len(d) /\ Total(w) \in Nat
    BY <1>8, NarrowerIs DEF CutFrom
<1>10. DOMAIN w = 1 .. Len(d) /\ \A i \in 1 .. Len(d) : w[i] \in Nat
    BY <1>9 DEF Columns
<1>11. tableToLines(rows)[1].widths = w
    <2>1. tableToLines(rows) = [k \in DOMAIN data |-> TableRow(data[k], w)]
        BY <1>1 DEF tableToLines, w, d, data
    <2>2. 1 \in DOMAIN data
        BY <1>1
    <2> QED
        BY <2>1, <2>2 DEF TableRow
<1>12. Total(w) <= MaxChars \/ \A i \in DOMAIN w : w[i] <= 6
    BY <1>8, <1>9, <1>10, LayoutAssumption DEF TooWide
<1> DEFINE cut == {i \in DOMAIN w : w[i] < n[i]}
<1>13. cut # {} => Total(w) >= MaxChars
    BY <1>7, <1>8, <1>10 DEF CutFrom
<1>14. \A i \in cut : \A j \in DOMAIN w : w[i] >= w[j] - 1
    BY <1>7, <1>8, <1>10 DEF CutFrom
<1> QED
    BY <1>11, <1>12, <1>13, <1>14 DEF FairlyCut, n

-----------------------------------------------------------------------------
(* Documents.                                                               *)

\* Words of one character at least.
Words == Seq(Nat \ {0})

\* What comes out, and what of it is where it is to be: a line shorter than one character
\* shows nothing.
OutLines == [type : {"text"}, mark : Nat, words : Words]
                \cup [type : {"row"}, cells : TableRows, widths : Columns]
                \cup {RuleLine}

\* Lines that are on the paper, and are not blank if they show something.
GoodLines(source) ==
    {line \in OutLines : /\ InsideThePaper(line, source)
                         /\ LineLength(line) > 0 \/ Shows(line) = <<>>}

\* The length of a line of words is the number of its characters.
LEMMA TextLengthIs ==
    ASSUME NEW words \in Words
    PROVE  /\ TextLength(words) \in Nat
           /\ TextLength(words) > 0 \/ words = <<>>
<1>1. CASE words = <<>>
    BY <1>1 DEF TextLength
<1>2. CASE words # <<>>
    <2>1. words \in Seq(Nat) /\ Len(words) \in Nat \ {0} /\ words[1] \in Nat \ {0}
        BY <1>2 DEF Words
    <2>2. /\ Sums(words) \in [0 .. Len(words) -> Nat] /\ Sums(words)[0] = 0
          /\ \A n \in 1 .. Len(words) : Sums(words)[n] = Sums(words)[n - 1] + words[n]
        BY <2>1, SumsAre
    <2> DEFINE f == Sums(words)
               N == Len(words)
               w == words[1]
    <2>3. f[1] = w
        <3>1. 1 \in 1 .. N /\ 1 - 1 = 0
            BY <2>1
        <3>2. f[1] = f[1 - 1] + w
            BY <2>2, <3>1
        <3> QED
            BY <2>1, <2>2, <3>1, <3>2
    <2>4. f[1] <= f[N]
        <3>1. 1 \in 0 .. N /\ N \in 1 .. N
            BY <2>1
        <3> QED
            BY <2>1, <3>1, SumsGrow
    <2>5. f[N] \in Nat
        BY <2>1, <2>2
    <2>6. TextLength(words) = f[N] + N - 1
        BY <1>2 DEF TextLength, SumOf
    <2> HIDE DEF f, N, w
    <2>7. w \in Nat \ {0} /\ N \in Nat \ {0}
        BY <2>1 DEF w, N
    <2> QED
        BY <2>3, <2>4, <2>5, <2>6, <2>7
<1> QED
    BY <1>1, <1>2

\* A line of words is in its place if it is short enough, is one word, or is a heading.
LEMMA TextIsGood ==
    ASSUME NEW source, NEW mark \in Nat, NEW words \in Words,
           \/ mark + TextLength(words) <= MaxChars
           \/ Len(words) = 1
           \/ \E i \in DOMAIN source : source[i].kind = "heading" /\ source[i].words = words
    PROVE  Text(mark, words) \in GoodLines(source) /\ Shows(Text(mark, words)) = words
<1> DEFINE line == Text(mark, words)
<1>1. /\ line.type = "text" /\ line.mark = mark /\ line.words = words
      /\ line \in [type : {"text"}, mark : Nat, words : Words]
    BY DEF Text
<1> HIDE DEF line
<1>2. line \in OutLines
    BY <1>1 DEF OutLines
<1>3. LineLength(line) = mark + TextLength(words) /\ Shows(line) = words
    BY <1>1 DEF LineLength, Shows
<1>4. InsideThePaper(line, source)
    BY <1>1, <1>3 DEF InsideThePaper
<1>5. LineLength(line) > 0 \/ Shows(line) = <<>>
    BY <1>3, TextLengthIs
<1> QED
    BY <1>2, <1>3, <1>4, <1>5 DEF GoodLines, line

\* A blank line is on the paper and shows nothing.
LEMMA BlankIsGood ==
    ASSUME NEW source
    PROVE  BlankLine \in GoodLines(source) /\ Shows(BlankLine) = <<>>
<1>1. <<>> \in Words /\ TextLength(<<>>) = 0 /\ MaxChars \in Nat
    BY LayoutAssumption DEF Words, TextLength
<1>2. 0 + TextLength(<<>>) <= MaxChars
    BY <1>1
<1> DEFINE none == <<>>
<1> HIDE DEF none
<1>3. Text(0, none) \in GoodLines(source) /\ Shows(Text(0, none)) = none
    BY <1>1, <1>2, TextIsGood DEF none
<1> QED
    BY <1>3 DEF BlankLine, none

\* A rule is on the paper, however narrow that is, and is what it shows.
LEMMA RuleIsGood ==
    ASSUME NEW source
    PROVE  RuleLine \in GoodLines(source) /\ Shows(RuleLine) = <<Rule>>
<1>1. RuleLine.type = "rule"
    BY DEF RuleLine
<1>2. LineLength(RuleLine) = Min({MaxChars, 48}) /\ Shows(RuleLine) = <<Rule>>
    BY <1>1 DEF LineLength, Shows
<1>3. Min({MaxChars, 48}) \in {MaxChars, 48} /\ Min({MaxChars, 48}) <= MaxChars
    <2>1. {MaxChars, 48} \in SUBSET Nat /\ {MaxChars, 48} # {}
        BY LayoutAssumption
    <2> QED
        BY <2>1, LeastElement
<1>4. LineLength(RuleLine) > 0
    BY <1>2, <1>3, LayoutAssumption
<1>5. InsideThePaper(RuleLine, source)
    BY <1>2, <1>3 DEF InsideThePaper
<1> QED
    BY <1>2, <1>4, <1>5 DEF GoodLines, OutLines

\* A row of a table is as long as the columns allow, and only one with an empty cell alone
\* comes out empty.
LEMMA RowLengthIs ==
    ASSUME NEW cells \in TableRows, NEW widths \in Columns, Len(cells) <= Len(widths),
           \A i \in 1 .. Len(widths) : 3 <= widths[i]
    PROVE  /\ RowLength(TableRow(cells, widths)) \in Int
           /\ RowLength(TableRow(cells, widths)) <= Total(widths)
           /\ RowLength(TableRow(cells, widths)) > 0 \/ cells = <<0>>
<1> DEFINE row == TableRow(cells, widths)
           n == Len(cells)
           N == Len(widths)
           f == Sums(widths)
           before == f[n - 1] + 3 * (n - 1)
           shown == Shown(row, n)
<1>1. row.cells = cells /\ row.widths = widths
    BY DEF TableRow
<1>2. /\ n \in Nat \ {0} /\ DOMAIN cells = 1 .. n
      /\ \A i \in 1 .. n : CellLength(cells[i]) \in Nat
    BY CellsOf
<1>3. N \in Nat /\ n <= N /\ widths \in Seq(Nat) /\ \A i \in 1 .. N : widths[i] \in Nat
    BY DEF Columns
<1>4. /\ f \in [0 .. N -> Nat] /\ f[0] = 0
      /\ \A i \in 1 .. N : f[i] = f[i - 1] + widths[i]
    BY <1>3, SumsAre
<1>5. RowLength(row) = IF shown = 0 /\ n > 1 THEN before - 1 ELSE before + shown
    BY <1>1 DEF RowLength
<1>6. Total(widths) = f[N] + 3 * (N - 1)
    BY DEF Total, SumOf
<1>7. shown = Min({CellLength(cells[n]), widths[n]})
    BY <1>1 DEF Shown
<1> HIDE DEF row, f, shown
<1>8. CellLength(cells[n]) \in Nat /\ widths[n] \in Nat /\ 3 <= widths[n]
    BY <1>2, <1>3
<1> DEFINE c == CellLength(cells[n])
           w == widths[n]
<1>9. c \in Nat /\ w \in Nat /\ 3 <= w /\ shown = Min({c, w})
    BY <1>7, <1>8
<1>10. f[n] = f[n - 1] + w /\ f[n - 1] \in Nat /\ f[n] \in Nat /\ f[N] \in Nat /\ f[n] <= f[N]
    <2>1. n \in 1 .. N /\ n - 1 \in 0 .. N /\ N \in n .. N /\ n \in 0 .. N /\ N \in 0 .. N
        BY <1>2, <1>3
    <2>2. f[n] <= f[N]
        BY <1>3, <2>1, SumsGrow DEF f
    <2> QED
        BY <1>4, <2>1, <2>2
<1>11. n > 1 => f[n - 1] > 0
    <2> SUFFICES ASSUME n > 1 PROVE f[n - 1] > 0
        OBVIOUS
    <2>1. 1 \in 1 .. N /\ 1 \in 0 .. N /\ n - 1 \in 1 .. N /\ 1 - 1 = 0
        BY <1>2, <1>3
    <2>2. f[1] = f[0] + widths[1] /\ 3 <= widths[1] /\ widths[1] \in Nat
        BY <1>3, <1>4, <2>1
    <2>3. f[1] <= f[n - 1]
        BY <1>3, <2>1, SumsGrow DEF f
    <2> DEFINE a == f[1]
               b == f[n - 1]
               v == widths[1]
    <2>4. a = v /\ 3 <= v /\ v \in Nat /\ a <= b /\ b \in Nat
        BY <1>4, <1>10, <2>2, <2>3
    <2> HIDE DEF a, b, v
    <2>5. b > 0
        BY <2>4
    <2> QED
        BY <2>5 DEF b
<1> HIDE DEF c, w
<1>12. shown \in Nat /\ shown <= w /\ (shown = 0 => c = 0)
    <2>1. {c, w} \in SUBSET Nat /\ {c, w} # {}
        BY <1>9
    <2> QED
        BY <1>9, <2>1, LeastElement, SMTT(30)
<1> DEFINE p == f[n - 1]
           q == f[N]
<1>13. /\ p \in Nat /\ q \in Nat /\ p + w <= q /\ (n > 1 => p > 0) /\ before = p + 3 * (n - 1)
       /\ Total(widths) = q + 3 * (N - 1)
    BY <1>6, <1>9, <1>10, <1>11
<1> HIDE DEF p, q, before, n, N
<1>14. n \in Nat \ {0} /\ N \in Nat /\ n <= N
    BY <1>2, <1>3 DEF n, N
<1>15. before \in Nat /\ before + w <= Total(widths) /\ (n > 1 => before > 1)
    BY <1>9, <1>13, <1>14
<1>16. RowLength(row) \in Int /\ RowLength(row) <= Total(widths)
    <2>1. Total(widths) \in Int
        BY <1>13, <1>14
    <2> QED
        BY <1>5, <1>9, <1>12, <1>15, <2>1
<1>17. RowLength(row) > 0 \/ cells = <<0>>
    <2> SUFFICES ASSUME ~(RowLength(row) > 0) PROVE cells = <<0>>
        OBVIOUS
    <2>1. n = 1 /\ shown = 0
        BY <1>5, <1>9, <1>12, <1>13, <1>14, <1>15
    <2>2. c = 0
        BY <1>12, <2>1
    <2>3. Len(cells) = 1 /\ CellLength(cells[1]) = 0
        BY <2>1, <2>2 DEF c, n
    <2>4. cells[1] = 0
        BY <2>3 DEF CellLength
    <2> QED
        BY <2>3, <2>4 DEF TableRows
<1> QED
    BY <1>16, <1>17 DEF row

\* A row of a table whose columns have been narrowed is on the paper, unless the table has
\* more columns than fit at six characters.
LEMMA RowIsGood ==
    ASSUME NEW source, NEW cells \in TableRows, IsData(cells), NEW widths \in Columns,
           Len(cells) <= Len(widths), \A i \in 1 .. Len(widths) : 3 <= widths[i],
           ~TooWide(widths)
    PROVE  /\ TableRow(cells, widths) \in GoodLines(source)
           /\ Shows(TableRow(cells, widths)) = RowShows(cells)
<1> DEFINE line == TableRow(cells, widths)
           N == Len(widths)
           f == Sums(widths)
<1>1. /\ line.type = "row" /\ line.cells = cells /\ line.widths = widths
      /\ line \in [type : {"row"}, cells : TableRows, widths : Columns]
    BY DEF TableRow
<1>2. /\ RowLength(line) \in Int
      /\ RowLength(line) <= Total(widths)
      /\ RowLength(line) > 0 \/ cells = <<0>>
    BY RowLengthIs
<1> HIDE DEF line
<1>3. line \in OutLines
    BY <1>1 DEF OutLines
<1>4. LineLength(line) = RowLength(line) /\ Shows(line) = RowShows(cells)
    BY <1>1 DEF LineLength, Shows
<1>5. LineLength(line) > 0 \/ Shows(line) = <<>>
    BY <1>2, <1>4 DEF RowShows
<1>6. /\ N \in Nat \ {0} /\ widths \in Seq(Nat) /\ DOMAIN widths = 1 .. N
      /\ \A i \in 1 .. N : widths[i] \in Nat
    BY DEF Columns
<1>7. Total(widths) \in Nat
    BY NarrowerIs
<1>8. CASE Total(widths) <= MaxChars
    <2>1. LineLength(line) <= MaxChars
        BY <1>2, <1>4, <1>7, <1>8, LayoutAssumption
    <2>2. InsideThePaper(line, source)
        BY <2>1 DEF InsideThePaper
    <2> QED
        BY <1>3, <1>4, <1>5, <2>2 DEF GoodLines, line
<1>9. CASE ~(Total(widths) <= MaxChars)
    <2>1. \A i \in 1 .. N : widths[i] <= 6
        <3>1. \A i \in 1 .. N : ~(widths[i] > 6)
            <4>1. Total(widths) > MaxChars
                BY <1>7, <1>9, LayoutAssumption
            <4>2. ~\E i \in DOMAIN widths : widths[i] > 6
                BY <4>1 DEF TooWide
            <4> QED
                BY <1>6, <4>2
        <3> QED
            BY <1>6, <3>1
    <2>2. /\ f \in [0 .. N -> Nat] /\ f[0] = 0
          /\ \A i \in 1 .. N : f[i] = f[i - 1] + widths[i]
        BY <1>6, SumsAre
    <2> DEFINE T == {n \in Nat : f[n] <= 6 * n}
    <2> HIDE DEF f
    <2>3. 0 \in T
        BY <2>2
    <2>4. \A n \in 1 .. N : n - 1 \in T => n \in T
        <3> SUFFICES ASSUME NEW n \in 1 .. N, f[n - 1] <= 6 * (n - 1) PROVE f[n] <= 6 * n
            BY <1>6
        <3>1. n - 1 \in 0 .. N /\ n \in Nat /\ n \in 0 .. N
            BY <1>6
        <3>2. f[n] = f[n - 1] + widths[n] /\ f[n - 1] \in Nat /\ widths[n] \in Nat
              /\ widths[n] <= 6
            BY <1>6, <2>1, <2>2, <3>1
        <3> DEFINE a == f[n - 1]
                   b == f[n]
                   w == widths[n]
        <3>3. b = a + w /\ a \in Nat /\ w \in Nat /\ w <= 6 /\ a <= 6 * (n - 1)
            BY <3>2
        <3> HIDE DEF a, b, w
        <3>4. b <= 6 * n
            BY <3>1, <3>3
        <3> QED
            BY <3>4 DEF b
    <2> HIDE DEF T
    <2>5. \A n \in 0 .. N : n \in T
        BY <1>6, <2>3, <2>4, InductionTo
    <2>6. f[N] <= 6 * N /\ f[N] \in Nat
        <3>1. N \in 0 .. N
            BY <1>6
        <3> QED
            BY <2>2, <2>5, <3>1 DEF T
    <2>7. Total(widths) = f[N] + 3 * (N - 1)
        BY DEF Total, SumOf, f
    <2> HIDE DEF N
    <2>8. 9 * N - 3 > MaxChars
        BY <1>6, <1>7, <1>9, <2>6, <2>7, LayoutAssumption
    <2>9. InsideThePaper(line, source)
        BY <1>1, <2>8 DEF InsideThePaper, N
    <2> QED
        BY <1>3, <1>4, <1>5, <2>9 DEF GoodLines, line
<1> QED
    BY <1>8, <1>9

\* The lines of a paragraph are made of its words.
LEMMA WrapKeepsWords ==
    ASSUME NEW words \in Words, NEW maxChars \in Nat
    PROVE  wrapText(words, maxChars) \in Seq(Words)
<1> DEFINE N == Len(words)
           f == LinesAfter(words, maxChars)
           W == Nat \ {0}
           T == {n \in Nat : f[n] \in Seq(Words)}
<1>1. words \in Seq(Nat) /\ N \in Nat /\ \A n \in 1 .. N : words[n] \in W
    BY DEF Words
<1>2. f[0] = <<>> /\ \A n \in 1 .. N : f[n] = Placed(f[n - 1], words[n], maxChars)
    BY <1>1, LinesAfterAre
<1> HIDE DEF f
<1>3. 0 \in T
    <2>1. <<>> \in Seq(Words)
        OBVIOUS
    <2> QED
        BY <1>2, <2>1
<1>4. \A n \in 1 .. N : n - 1 \in T => n \in T
    <2> SUFFICES ASSUME NEW n \in 1 .. N, f[n - 1] \in Seq(Words) PROVE f[n] \in Seq(Words)
        BY <1>1
    <2>1. words[n] \in W
        BY <1>1
    <2> DEFINE lines == f[n - 1]
               word == words[n]
    <2>2. lines \in Seq(Seq(W)) /\ word \in W
        BY <2>1 DEF Words
    <2> HIDE DEF lines, word, W
    <2>3. Placed(lines, word, maxChars) \in Seq(Seq(W))
        BY <2>2, PlacedIsLines
    <2> QED
        BY <1>2, <2>3 DEF lines, word, W, Words
<1> HIDE DEF T
<1>5. \A n \in 0 .. N : n \in T
    BY <1>1, <1>3, <1>4, InductionTo
<1>6. f[N] \in Seq(Words)
    <2>1. N \in 0 .. N
        BY <1>1
    <2> QED
        BY <1>5, <2>1 DEF T
<1>7. << <<>> >> \in Seq(Words)
    <2>1. <<>> \in Words
        BY DEF Words
    <2> DEFINE none == <<>>
    <2>2. none \in Words
        BY <2>1
    <2> HIDE DEF none
    <2>3. <<none>> \in Seq(Words)
        BY <2>2
    <2> QED
        BY <2>3 DEF none
<1> QED
    BY <1>6, <1>7 DEF wrapText, f

\* A paragraph or an item comes out on the paper with all its words.
LEMMA WrappedIsGood ==
    ASSUME NEW source, NEW mark \in Nat, NEW words \in Words, NEW maxChars \in Nat,
           mark + maxChars <= MaxChars
    PROVE  /\ Wrapped(mark, words, maxChars) \in Seq(GoodLines(source))
           /\ AllShown(Wrapped(mark, words, maxChars)) = words
<1> DEFINE lines == wrapText(words, maxChars)
           out == Wrapped(mark, words, maxChars)
<1>1. words \in Seq(Nat)
    BY DEF Words
<1>2. FlattenSeq(lines) = words /\ \A i \in DOMAIN lines : LineFits(lines[i], maxChars)
    BY <1>1, ParagraphWrapsWell DEF WellWrapped
<1>3. lines \in Seq(Words)
    BY WrapKeepsWords
<1> HIDE DEF lines
<1>4. Len(lines) \in Nat /\ DOMAIN lines = 1 .. Len(lines)
      /\ \A i \in 1 .. Len(lines) : lines[i] \in Words
    BY <1>3
<1>5. out = [i \in 1 .. Len(lines) |-> Text(mark, lines[i])]
    BY <1>4 DEF Wrapped, lines
<1>6. ASSUME NEW i \in 1 .. Len(lines)
      PROVE  Text(mark, lines[i]) \in GoodLines(source) /\ Shows(Text(mark, lines[i])) = lines[i]
    <2> DEFINE line == lines[i]
               Good(l) == Text(mark, l) \in GoodLines(source) /\ Shows(Text(mark, l)) = l
    <2> SUFFICES Good(line)
        OBVIOUS
    <2>1. line \in Words /\ LineFits(line, maxChars)
        BY <1>2, <1>4
    <2> HIDE DEF line
    <2>2. TextLength(line) \in Nat /\ (TextLength(line) > 0 \/ line = <<>>)
        BY <2>1, TextLengthIs
    <2>3. ASSUME TextLength(line) <= maxChars PROVE Good(line)
        <3>1. mark + TextLength(line) <= MaxChars
            BY <2>2, <2>3, LayoutAssumption
        <3> QED
            BY <2>1, <3>1, TextIsGood
    <2>4. ASSUME Len(line) = 1 PROVE Good(line)
        BY <2>1, <2>4, TextIsGood
    <2>5. ASSUME Len(line) = 0 PROVE Good(line)
        <3>1. line = <<>>
            BY <2>1, <2>5 DEF Words
        <3>2. TextLength(line) = 0
            BY <3>1 DEF TextLength
        <3>3. mark + TextLength(line) <= MaxChars
            BY <3>2, LayoutAssumption
        <3> QED
            BY <2>1, <3>3, TextIsGood
    <2>6. Len(line) \in Nat
        BY <2>1 DEF Words
    <2>7. TextLength(line) <= maxChars \/ Len(line) = 1 \/ Len(line) = 0
        <3>1. TextLength(line) <= maxChars \/ Len(line) <= 1
            BY <2>1 DEF LineFits
        <3> DEFINE k == Len(line)
        <3>2. k <= 1 => k = 1 \/ k = 0
            <4>1. k \in Nat
                BY <2>6
            <4> HIDE DEF k
            <4> QED
                BY <4>1
        <3> QED
            BY <3>1, <3>2
    <2> HIDE DEF Good
    <2> QED
        BY <2>3, <2>4, <2>5, <2>7
<1>7. out \in Seq(GoodLines(source))
    <2> DEFINE G == GoodLines(source)
    <2>1. out \in [1 .. Len(lines) -> G]
        BY <1>5, <1>6
    <2> HIDE DEF G, out
    <2>2. out \in Seq(G)
        BY <1>4, <2>1, SequenceIs
    <2> QED
        BY <2>2 DEF G
<1>8. AllShown(out) = words
    <2>1. DOMAIN out = 1 .. Len(lines) /\ \A i \in 1 .. Len(lines) : Shows(out[i]) = lines[i]
        BY <1>5, <1>6
    <2> HIDE DEF out
    <2>2. [i \in DOMAIN out |-> Shows(out[i])] = [i \in 1 .. Len(lines) |-> lines[i]]
        BY <2>1
    <2>3. [i \in 1 .. Len(lines) |-> lines[i]] = lines
        BY <1>3, <1>4
    <2> QED
        BY <1>2, <2>2, <2>3 DEF AllShown
<1> QED
    BY <1>7, <1>8

\* What one line and two lines show.
LEMMA FewShow ==
    ASSUME NEW S, NEW a, NEW b, Shows(a) \in Seq(S), Shows(b) = <<>>
    PROVE  AllShown(<<a>>) = Shows(a) /\ AllShown(<<a, b>>) = Shows(a)
<1> DEFINE s == Shows(a)
<1>1. [i \in DOMAIN <<a>> |-> Shows(<<a>>[i])] = <<s>>
    OBVIOUS
<1>2. [i \in DOMAIN <<a, b>> |-> Shows(<<a, b>>[i])] = <<s, <<>>>>
    OBVIOUS
<1>3. s \in Seq(S)
    OBVIOUS
<1> HIDE DEF s
<1> DEFINE none == <<>>
<1>4. none \in Seq(S) /\ none \in Seq(Seq(S)) /\ <<s>> \in Seq(Seq(S))
    BY <1>3
<1>5. FlattenSeq(none) = none
    BY FlattenAppend, <1>4
<1>6. FlattenSeq(Append(none, s)) = none \o s
    <2>1. FlattenSeq(Append(none, s)) = FlattenSeq(none) \o s
        <3> HIDE DEF none
        <3> QED
            BY <1>3, <1>4, FlattenAppend
    <2> QED
        BY <1>5, <2>1
<1>7. none \o s = s /\ s \o none = s
    BY <1>3, ConcatEmptySeq
<1>8. FlattenSeq(<<s>>) = s
    BY <1>6, <1>7
<1>9. FlattenSeq(Append(<<s>>, none)) = s
    <2> DEFINE o == <<s>>
    <2>1. o \in Seq(Seq(S))
        BY <1>4
    <2> HIDE DEF o, none
    <2>2. FlattenSeq(Append(o, none)) = FlattenSeq(o) \o none
        BY <1>4, <2>1, FlattenAppend
    <2> QED
        BY <1>7, <1>8, <2>2 DEF o
<1>10. Append(<<s>>, none) = <<s, none>>
    <2> DEFINE C == Seq(S)
    <2>1. s \in C /\ none \in C
        BY <1>3, <1>4
    <2> HIDE DEF none, C
    <2> QED
        BY <2>1, TwoAre
<1>11. AllShown(<<a>>) = FlattenSeq(<<s>>) /\ AllShown(<<a, b>>) = FlattenSeq(<<s, none>>)
    BY <1>1, <1>2 DEF AllShown
<1> HIDE DEF none
<1> QED
    BY <1>8, <1>9, <1>10, <1>11 DEF s

\* A source line that is not in a table comes out on the paper with what it holds.
LEMMA LineIsGood ==
    ASSUME NEW source \in Seq(SourceLine), NEW i \in 1 .. Len(source), source[i].kind # "row"
    PROVE  /\ LinesOf(source[i]) \in Seq(GoodLines(source))
           /\ AllShown(LinesOf(source[i])) = Holds(source[i])
           /\ Holds(source[i]) \in Seq(Nat \cup {Rule})
<1> DEFINE line == source[i]
           words == line.words
           G == GoodLines(source)
           B == Nat \cup {Rule}
<1>1. line \in SourceLine /\ i \in DOMAIN source /\ line = source[i]
    OBVIOUS
<1>2. BlankLine \in G /\ Shows(BlankLine) = <<>> /\ RuleLine \in G /\ Shows(RuleLine) = <<Rule>>
    BY BlankIsGood, RuleIsGood
<1>3. <<>> \in Seq(B) /\ <<Rule>> \in Seq(B)
    OBVIOUS
<1> HIDE DEF line, G
<1>4. CASE line.kind = "blank"
    <2>1. line.words = <<>>
        BY <1>1, <1>4 DEF SourceLine
    <2>2. LinesOf(line) = <<BlankLine>>
        BY <1>4 DEF LinesOf
    <2>3. Holds(line) = <<>>
        BY <1>4, <2>1 DEF Holds
    <2>4. AllShown(<<BlankLine>>) = <<>>
        BY <1>2, <1>3, FewShow
    <2>5. <<BlankLine>> \in Seq(G)
        BY <1>2
    <2> QED
        BY <1>3, <2>2, <2>3, <2>4, <2>5 DEF line, G
<1>5. CASE line.kind = "rule"
    <2>1. LinesOf(line) = <<RuleLine>>
        BY <1>5 DEF LinesOf
    <2>2. Holds(line) = <<Rule>>
        BY <1>5 DEF Holds
    <2>3. AllShown(<<RuleLine>>) = <<Rule>>
        <3>1. Shows(RuleLine) \in Seq(B) /\ Shows(BlankLine) = <<>>
            BY <1>2, <1>3
        <3> QED
            BY <1>2, <3>1, FewShow
    <2>4. <<RuleLine>> \in Seq(G)
        BY <1>2
    <2> QED
        BY <1>3, <2>1, <2>2, <2>3, <2>4 DEF line, G
<1>6. CASE line.kind \in {"heading", "item", "paragraph"}
    <2>1. words \in Words
        BY <1>1, <1>6 DEF SourceLine, Words
    <2>2. Holds(line) = words
        BY <1>6 DEF Holds
    <2>3. words \in Seq(B)
        BY <2>1 DEF Words
    <2> HIDE DEF words
    <2>4. CASE line.kind = "heading"
        <3>1. LinesOf(line) = <<Text(0, words), BlankLine>>
            BY <2>4 DEF LinesOf, words
        <3>2. Text(0, words) \in G /\ Shows(Text(0, words)) = words
            BY <1>1, <2>1, <2>4, TextIsGood DEF G, words
        <3>3. AllShown(<<Text(0, words), BlankLine>>) = words
            BY <1>2, <2>3, <3>2, FewShow
        <3>4. <<Text(0, words), BlankLine>> \in Seq(G)
            BY <1>2, <3>2
        <3> QED
            BY <2>2, <2>3, <3>1, <3>3, <3>4 DEF line, G
    <2>5. CASE line.kind = "item"
        <3>1. LinesOf(line) = Wrapped(2, words, MaxChars - 2)
            BY <2>5 DEF LinesOf, Item, words
        <3>2. MaxChars - 2 \in Nat /\ 2 + (MaxChars - 2) <= MaxChars
            BY LayoutAssumption
        <3>3. Wrapped(2, words, MaxChars - 2) \in Seq(G)
              /\ AllShown(Wrapped(2, words, MaxChars - 2)) = words
            BY <2>1, <3>2, WrappedIsGood DEF G
        <3> QED
            BY <2>2, <2>3, <3>1, <3>3 DEF line, G
    <2>6. CASE line.kind = "paragraph"
        <3>1. LinesOf(line) = Wrapped(0, words, MaxChars)
            BY <2>6 DEF LinesOf, words
        <3>2. MaxChars \in Nat /\ 0 + MaxChars <= MaxChars
            BY LayoutAssumption
        <3>3. Wrapped(0, words, MaxChars) \in Seq(G)
              /\ AllShown(Wrapped(0, words, MaxChars)) = words
            BY <2>1, <3>2, WrappedIsGood DEF G
        <3> QED
            BY <2>2, <2>3, <3>1, <3>3 DEF line, G
    <2> QED
        BY <1>6, <2>4, <2>5, <2>6
<1>7. line.kind \in {"blank", "rule", "heading", "item", "paragraph"}
    <2>1. line.kind # "row"
        BY DEF line
    <2> QED
        BY <1>1, <2>1 DEF SourceLine
<1> QED
    BY <1>4, <1>5, <1>6, <1>7

\* What there is to be read: words, cells and rules.
Items == Nat \cup {Rule}

\* What rows and lines show, as functions.
RowShowing == [row \in TableRows |-> RowShows(row)]

Showing(source) == [line \in GoodLines(source) |-> Shows(line)]

\* What a row shows are cells.
LEMMA RowShowsIs ==
    ASSUME NEW row \in TableRows
    PROVE  RowShows(row) \in Seq(Items)
<1>1. <<>> \in Seq(Items) /\ row \in Seq(Items)
    BY DEF TableRows, Items
<1> QED
    BY <1>1 DEF RowShows

\* Every line that is in its place shows a sequence.
LEMMA ShowingIs ==
    ASSUME NEW source
    PROVE  /\ Showing(source) \in Maps(GoodLines(source), Items)
           /\ RowShowing \in Maps(TableRows, Items)
<1>1. ASSUME NEW line \in OutLines PROVE Shows(line) \in Seq(Items)
    <2>1. CASE line \in [type : {"text"}, mark : Nat, words : Words]
        <3>1. line.words \in Words /\ Shows(line) = line.words
            BY <2>1 DEF Shows
        <3> QED
            BY <3>1 DEF Words, Items
    <2>2. CASE line \in [type : {"row"}, cells : TableRows, widths : Columns]
        <3>1. line.cells \in TableRows /\ Shows(line) = RowShows(line.cells)
            BY <2>2 DEF Shows
        <3> QED
            BY <3>1, RowShowsIs
    <2>3. CASE line = RuleLine
        <3>1. Shows(line) = <<Rule>>
            BY <2>3, RuleIsGood
        <3> QED
            BY <3>1 DEF Items
    <2> QED
        BY <2>1, <2>2, <2>3 DEF OutLines
<1>2. \A line \in GoodLines(source) : Shows(line) \in Seq(Items)
    BY <1>1 DEF GoodLines
<1>3. \A row \in TableRows : RowShows(row) \in Seq(Items)
    BY RowShowsIs
<1> QED
    BY <1>2, <1>3 DEF Showing, RowShowing, Maps

\* What lines show is what each of them shows, one behind the other.
LEMMA AllShownIs ==
    ASSUME NEW source, NEW lines \in Seq(GoodLines(source))
    PROVE  AllShown(lines) = Mapped(Showing(source), lines)
<1>1. \A i \in DOMAIN lines : lines[i] \in GoodLines(source)
    OBVIOUS
<1>2. \A i \in DOMAIN lines : Shows(lines[i]) = Showing(source)[lines[i]]
    BY <1>1 DEF Showing
<1>3. [i \in DOMAIN lines |-> Shows(lines[i])] = [i \in DOMAIN lines |-> Showing(source)[lines[i]]]
    BY <1>2
<1> QED
    BY <1>3 DEF AllShown, Mapped, Images

\* A sequence up to a place, and with one element more.
LEMMA UpTo ==
    ASSUME NEW S, NEW s \in Seq(S), NEW n \in 1 .. Len(s)
    PROVE  /\ SubSeq(s, 1, n - 1) \in Seq(S) /\ s[n] \in S
           /\ SubSeq(s, 1, n) = Append(SubSeq(s, 1, n - 1), s[n])
<1>1. Len(s) \in Nat /\ n \in Nat /\ 1 \in 1 .. Len(s) /\ n \in 1 .. Len(s) /\ s[n] \in S
    OBVIOUS
<1>2. SubSeq(s, 1, n - 1) \in Seq(S)
    <2>1. 1 \in Int /\ n - 1 \in Int /\ \A i \in 1 .. n - 1 : s[i] \in S
        BY <1>1
    <2> QED
        BY <2>1, SubSeqProperties
<1>3. SubSeq(s, 1, n) = SubSeq(s, 1, n - 1) \o <<s[n]>>
    BY <1>1, SubSeqRecursiveSecond
<1> DEFINE u == SubSeq(s, 1, n - 1)
           e == s[n]
<1>4. u \in Seq(S) /\ e \in S
    BY <1>1, <1>2
<1> HIDE DEF u, e
<1>5. u \o <<e>> = Append(u, e)
    BY <1>4
<1> QED
    BY <1>1, <1>2, <1>3, <1>5 DEF u, e

\* The rows of dashes, which are left out, show nothing.
LEMMA DataRowsShow ==
    ASSUME NEW rows \in Seq(TableRows)
    PROVE  /\ Mapped(RowShowing, DataRows(rows)) = Mapped(RowShowing, rows)
           /\ \A k \in 1 .. Len(DataRows(rows)) : IsData(DataRows(rows)[k])
<1> DEFINE N == Len(rows)
           d == DataRowsTo(rows)
           h == RowShowing
           To(n) == SubSeq(rows, 1, n)
           AllData(s) == \A k \in 1 .. Len(s) : IsData(s[k])
           Alike(n) == Mapped(h, d[n]) = Mapped(h, To(n)) /\ AllData(d[n])
           T == {n \in Nat : Alike(n)}
<1>1. N \in Nat /\ \A n \in 1 .. N : rows[n] \in TableRows
    OBVIOUS
<1>2. /\ d \in [0 .. N -> Seq(TableRows)] /\ d[0] = <<>>
      /\ \A n \in 1 .. N : d[n] = IF IsData(rows[n]) THEN Append(d[n - 1], rows[n]) ELSE d[n - 1]
    BY DataRowsToAre
<1>3. h \in Maps(TableRows, Items) /\ \A row \in TableRows : h[row] = RowShows(row)
    BY ShowingIs DEF RowShowing
<1> HIDE DEF d, h
<1>4. 0 \in T
    <2>1. To(0) = <<>>
        BY SubSeqEmpty
    <2>2. AllData(<<>>)
        OBVIOUS
    <2> HIDE DEF AllData
    <2> QED
        BY <1>2, <2>1, <2>2
<1>5. \A n \in 1 .. N : n - 1 \in T => n \in T
    <2> SUFFICES ASSUME NEW n \in 1 .. N, Alike(n - 1) PROVE Alike(n)
        BY <1>1
    <2> DEFINE u == d[n - 1]
               t == To(n - 1)
               e == rows[n]
    <2>1. n - 1 \in 0 .. N /\ n \in Nat
        BY <1>1
    <2>2. u \in Seq(TableRows) /\ e \in TableRows
        BY <1>1, <1>2, <2>1
    <2>3. t \in Seq(TableRows) /\ To(n) = Append(t, e)
        BY UpTo
    <2>4. Mapped(h, u) = Mapped(h, t) /\ AllData(u)
        OBVIOUS
    <2>5. d[n] = IF IsData(e) THEN Append(u, e) ELSE u
        BY <1>2
    <2> HIDE DEF u, t, e, To
    <2>6. Mapped(h, Append(t, e)) = Mapped(h, t) \o h[e] /\ Mapped(h, t) \in Seq(Items)
        <3>1. Mapped(h, Append(t, e)) = Mapped(h, t) \o h[e]
            BY <1>3, <2>2, <2>3, MappedAppend
        <3>2. Mapped(h, t) \in Seq(Items)
            BY <1>3, <2>3, MappedIs
        <3> QED
            BY <3>1, <3>2
    <2>7. CASE IsData(e)
        <3>1. Mapped(h, Append(u, e)) = Mapped(h, u) \o h[e]
            BY <1>3, <2>2, MappedAppend
        <3>2. AllData(Append(u, e))
            <4> DEFINE v == Append(u, e)
            <4>1. /\ Len(v) = Len(u) + 1 /\ Len(u) \in Nat /\ v[Len(u) + 1] = e
                  /\ \A k \in 1 .. Len(u) : v[k] = u[k]
                BY <2>2
            <4> HIDE DEF v
            <4>2. ASSUME NEW k \in 1 .. Len(v) PROVE IsData(v[k])
                <5>1. k = Len(u) + 1 \/ k \in 1 .. Len(u)
                    BY <4>1
                <5> QED
                    BY <2>4, <2>7, <4>1, <5>1
            <4> QED
                BY <4>2 DEF v
        <3> HIDE DEF AllData
        <3> QED
            BY <2>3, <2>4, <2>5, <2>6, <2>7, <3>1, <3>2
    <2>8. CASE ~IsData(e)
        <3>1. h[e] = <<>>
            BY <1>3, <2>2, <2>8 DEF RowShows
        <3> DEFINE x == Mapped(h, t)
        <3>2. x \o <<>> = x
            <4>1. x \in Seq(Items)
                BY <2>6
            <4> HIDE DEF x
            <4> QED
                BY <4>1, ConcatEmptySeq
        <3> HIDE DEF AllData
        <3> QED
            BY <2>3, <2>4, <2>5, <2>6, <2>8, <3>1, <3>2
    <2> QED
        BY <2>7, <2>8
<1> HIDE DEF T
<1>6. \A n \in 0 .. N : n \in T
    BY <1>1, <1>4, <1>5, InductionTo
<1>7. Alike(N)
    <2>1. N \in T
        BY <1>1, <1>6
    <2> QED
        BY <2>1 DEF T
<1>8. To(N) = rows
    BY SubSeqFull
<1>9. d[N] = DataRows(rows)
    BY DEF DataRows, d
<1> QED
    BY <1>7, <1>8, <1>9 DEF h

\* A table comes out on the paper with all its cells.
LEMMA TableIsGood ==
    ASSUME NEW source, NEW rows \in Seq(TableRows)
    PROVE  /\ tableToLines(rows) \in Seq(GoodLines(source))
           /\ AllShown(tableToLines(rows)) = Mapped(RowShowing, rows)
<1> DEFINE data == DataRows(rows)
           G == GoodLines(source)
           out == tableToLines(rows)
<1>1. /\ data \in Seq(TableRows)
      /\ Mapped(RowShowing, data) = Mapped(RowShowing, rows)
      /\ \A k \in 1 .. Len(data) : IsData(data[k])
    BY DataRowsAre, DataRowsShow
<1>2. CASE data = <<>>
    <2>1. out = <<>>
        BY <1>2 DEF tableToLines
    <2>2. Mapped(RowShowing, data) = <<>>
        BY <1>2, MappedNothing
    <2>3. AllShown(<<>>) = <<>>
        <3>1. [i \in DOMAIN <<>> |-> Shows(<<>>[i])] = <<>>
            OBVIOUS
        <3>2. FlattenSeq(<<>>) = <<>>
            BY DEF FlattenSeq
        <3> QED
            BY <3>1, <3>2 DEF AllShown
    <2>4. <<>> \in Seq(G)
        OBVIOUS
    <2> QED
        BY <1>1, <2>1, <2>2, <2>3, <2>4
<1>3. CASE data # <<>>
    <2> DEFINE natural == NaturalWidths(data)
               w == Narrowed(natural)
    <2>1. /\ natural \in Columns
          /\ \A k \in 1 .. Len(data) : Len(data[k]) <= Len(natural)
          /\ \A i \in 1 .. Len(natural) : 3 <= natural[i]
        BY <1>1, <1>3, NaturalWidthsAre
    <2>2. out = [k \in DOMAIN data |-> TableRow(data[k], w)]
        BY <1>3 DEF tableToLines
    <2> HIDE DEF natural, data, out
    <2>3. CutFrom(natural, w) /\ ~TooWide(w)
        BY <2>1, NarrowedIsCut
    <2> HIDE DEF w
    <2>4. w \in Columns /\ Len(w) = Len(natural) /\ \A i \in 1 .. Len(w) : 3 <= w[i]
        BY <2>3 DEF CutFrom
    <2>5. Len(data) \in Nat /\ DOMAIN data = 1 .. Len(data)
          /\ \A k \in 1 .. Len(data) : data[k] \in TableRows
        BY <1>1
    <2>6. ASSUME NEW k \in 1 .. Len(data)
          PROVE  /\ TableRow(data[k], w) \in G
                 /\ Shows(TableRow(data[k], w)) = RowShowing[data[k]]
        <3> DEFINE cells == data[k]
        <3>1. cells \in TableRows /\ IsData(cells) /\ Len(cells) <= Len(w)
            BY <1>1, <2>1, <2>4, <2>5
        <3> HIDE DEF cells
        <3>2. TableRow(cells, w) \in G /\ Shows(TableRow(cells, w)) = RowShows(cells)
            BY <2>3, <2>4, <3>1, RowIsGood
        <3>3. RowShowing[cells] = RowShows(cells)
            BY <3>1 DEF RowShowing
        <3> QED
            BY <3>2, <3>3 DEF cells
    <2>7. out \in Seq(G)
        <3> HIDE DEF G
        <3>1. out \in [1 .. Len(data) -> G]
            BY <2>2, <2>5, <2>6
        <3> QED
            BY <2>5, <3>1, SequenceIs
    <2>8. [i \in DOMAIN out |-> Shows(out[i])] = [k \in DOMAIN data |-> RowShowing[data[k]]]
        <3>1. DOMAIN out = DOMAIN data
              /\ \A k \in DOMAIN data : Shows(out[k]) = RowShowing[data[k]]
            BY <2>2, <2>5, <2>6
        <3> QED
            BY <3>1
    <2>9. AllShown(out) = Mapped(RowShowing, data)
        BY <2>8 DEF AllShown, Mapped, Images
    <2> QED
        BY <1>1, <2>7, <2>9 DEF out
<1> QED
    BY <1>2, <1>3

\* Where the table that a row is in begins: where the one before it does, or here.
LEMMA FirstRowIs ==
    ASSUME NEW source \in Seq(SourceLine), NEW n \in 1 .. Len(source), source[n].kind = "row"
    PROVE  /\ FirstRow(source, n) \in 1 .. n
           /\ \A j \in FirstRow(source, n) .. n : source[j].kind = "row"
           /\ n > 1 /\ source[n - 1].kind = "row" => FirstRow(source, n - 1) = FirstRow(source, n)
           /\ ~(n > 1 /\ source[n - 1].kind = "row") => FirstRow(source, n) = n
<1> DEFINE IsRow(j) == source[j].kind = "row"
           S(i) == {k \in 1 .. i : \A j \in k .. i : IsRow(j)}
           a == FirstRow(source, n)
           b == FirstRow(source, n - 1)
<1>1. n \in Nat /\ n >= 1 /\ IsRow(n)
    OBVIOUS
<1> HIDE DEF IsRow
<1>2. n \in S(n)
    BY <1>1
<1>3. a = Min(S(n)) /\ b = Min(S(n - 1))
    BY DEF FirstRow, IsRow
<1>4. a \in S(n) /\ \A y \in S(n) : a <= y
    <2> DEFINE s == S(n)
    <2>1. s \in SUBSET Nat
        BY ONLY <1>1, 1 .. n \subseteq Nat DEF s, S
    <2>2. s # {}
        BY <1>2
    <2> HIDE DEF s, a
    <2>3. Min(s) \in s /\ \A y \in s : Min(s) <= y
        BY <2>1, <2>2, LeastElement
    <2> QED
        BY <1>3, <2>3 DEF s
<1> HIDE DEF a, b
<1>5. a \in 1 .. n /\ \A j \in a .. n : IsRow(j)
    BY <1>4
<1>6. ASSUME n > 1, IsRow(n - 1) PROVE b = a
    <2>1. n - 1 \in S(n - 1)
        BY <1>1, <1>6
    <2>2. b \in S(n - 1) /\ \A y \in S(n - 1) : b <= y
        <3> DEFINE s == S(n - 1)
        <3>1. s \in SUBSET Nat /\ s # {}
            <4>1. s \in SUBSET Nat
                BY <1>1
            <4> QED
                BY <2>1, <4>1
        <3> HIDE DEF s
        <3>2. Min(s) \in s /\ \A y \in s : Min(s) <= y
            BY <3>1, LeastElement
        <3> QED
            BY <1>3, <3>2 DEF s
    <2>3. b \in 1 .. n - 1 /\ \A j \in b .. n - 1 : IsRow(j)
        BY <2>2
    <2>4. b \in S(n)
        <3>1. \A j \in b .. n : IsRow(j)
            <4> TAKE j \in b .. n
            <4>1. j = n \/ j \in b .. n - 1
                BY <1>1, <2>3
            <4> QED
                BY <1>1, <2>3, <4>1
        <3> QED
            BY <1>1, <2>3, <3>1
    <2>5. a <= b
        BY <1>4, <2>4
    <2>6. a \in 1 .. n - 1
        BY <1>1, <1>5, <2>3, <2>5
    <2>7. a \in S(n - 1)
        <3>1. \A j \in a .. n - 1 : j \in a .. n
            BY <1>1, <2>6
        <3> QED
            BY <1>5, <2>6, <3>1
    <2>8. b <= a
        BY <2>2, <2>7
    <2> QED
        BY <1>1, <2>3, <2>5, <2>6, <2>8
<1>7. ASSUME ~(n > 1 /\ IsRow(n - 1)) PROVE a = n
    <2> SUFFICES ASSUME a # n PROVE FALSE
        OBVIOUS
    <2>1. n > 1 /\ n - 1 \in a .. n
        BY <1>1, <1>5
    <2> QED
        BY <1>5, <1>7, <2>1
<1> QED
    BY <1>5, <1>6, <1>7 DEF a, b, IsRow

\* The rows of a table up to one of them, and with that one.
LEMMA RowsAre ==
    ASSUME NEW source \in Seq(SourceLine), NEW n \in 1 .. Len(source), NEW a \in 1 .. n,
           \A j \in a .. n : source[j].kind = "row"
    PROVE  /\ Rows(source, a, n - 1) \in Seq(TableRows)
           /\ Rows(source, a, n) \in Seq(TableRows)
           /\ source[n].words \in TableRows
           /\ Mapped(RowShowing, Rows(source, a, n))
                  = Mapped(RowShowing, Rows(source, a, n - 1)) \o Holds(source[n])
           /\ a = n => Mapped(RowShowing, Rows(source, a, n - 1)) = <<>>
<1> DEFINE m == n - a
           u == Rows(source, a, n - 1)
           v == Rows(source, a, n)
           e == source[n].words
           h == RowShowing
<1>1. n \in Nat /\ a \in Nat /\ a <= n /\ 1 <= a /\ m \in Nat /\ n - 1 - a + 1 = m
      /\ n - a + 1 = m + 1
      /\ n <= Len(source) /\ Len(source) \in Nat
    OBVIOUS
<1>2. ASSUME NEW j \in a .. n PROVE source[j].words \in TableRows
    <2>1. j \in 1 .. Len(source)
        BY <1>1
    <2>2. source[j] \in SourceLine /\ source[j].kind = "row"
        BY <2>1
    <2> QED
        BY <2>2 DEF SourceLine
<1>3. u = [k \in 1 .. m |-> source[a + k - 1].words]
      /\ v = [k \in 1 .. m + 1 |-> source[a + k - 1].words]
    BY <1>1 DEF Rows
<1>4. n \in a .. n /\ a + (m + 1) - 1 = n
    BY <1>1
<1> HIDE DEF u, v
<1>5. u \in [1 .. m -> TableRows] /\ v \in [1 .. m + 1 -> TableRows] /\ e \in TableRows
    <2>1. \A k \in 1 .. m + 1 : a + k - 1 \in a .. n
        BY <1>1
    <2>2. \A k \in 1 .. m : k \in 1 .. m + 1
        BY <1>1
    <2> HIDE DEF m
    <2> QED
        BY <1>2, <1>3, <1>4, <2>1, <2>2
<1>6. v[m + 1] = e /\ \A k \in 1 .. m : v[k] = u[k]
    <2>1. m + 1 \in 1 .. m + 1 /\ \A k \in 1 .. m : k \in 1 .. m + 1
        BY <1>1
    <2> HIDE DEF m
    <2> QED
        BY <1>3, <1>4, <2>1
<1> HIDE DEF m, e
<1>7. u \in Seq(TableRows) /\ Len(u) = m /\ v \in Seq(TableRows) /\ Len(v) = m + 1
    <2>1. m + 1 \in Nat
        BY <1>1
    <2> QED
        BY <1>1, <1>5, <2>1, SequenceIs
<1>8. v = Append(u, e)
    BY <1>1, <1>5, <1>6, <1>7
<1>9. Mapped(h, Append(u, e)) = Mapped(h, u) \o h[e]
    <2>1. h \in Maps(TableRows, Items)
        BY ShowingIs
    <2>2. u \in Seq(TableRows) /\ e \in TableRows
        BY <1>5, <1>7
    <2> HIDE DEF h
    <2> QED
        BY <2>1, <2>2, MappedAppend
<1>10. h[e] = Holds(source[n])
    <2>1. h[e] = RowShows(e)
        BY <1>5 DEF RowShowing
    <2>2. Holds(source[n]) = RowShows(e)
        BY <1>4 DEF Holds, e
    <2> QED
        BY <2>1, <2>2
<1>11. ASSUME a = n PROVE Mapped(h, u) = <<>>
    <2>1. m = 0
        BY <1>1, <1>11 DEF m
    <2>2. u = <<>>
        BY <1>7, <2>1
    <2> QED
        BY <2>2, MappedNothing
<1> QED
    BY <1>5, <1>7, <1>8, <1>9, <1>10, <1>11 DEF u, v, e

\* What has been read of a table that goes on behind the n-th source line.
Pending(source, n) ==
    IF n \in 1 .. Len(source) - 1 /\ source[n].kind = "row" /\ source[n + 1].kind = "row"
    THEN Mapped(RowShowing, Rows(source, FirstRow(source, n), n))
    ELSE <<>>

\* What comes out at a source line is on the paper, and together with what was pending it is
\* what the source line holds and what is pending now.
LEMMA LinesAtAreGood ==
    ASSUME NEW source \in Seq(SourceLine), NEW n \in 1 .. Len(source)
    PROVE  /\ LinesAt(source, n) \in Seq(GoodLines(source))
           /\ Holds(source[n]) \in Seq(Items)
           /\ Pending(source, n) \in Seq(Items) /\ Pending(source, n - 1) \in Seq(Items)
           /\ AllShown(LinesAt(source, n)) \in Seq(Items)
           /\ AllShown(LinesAt(source, n)) \o Pending(source, n)
                  = Pending(source, n - 1) \o Holds(source[n])
<1> DEFINE N == Len(source)
           G == GoodLines(source)
           IsRow(j) == source[j].kind = "row"
           h == RowShowing
           out == LinesAt(source, n)
           Q(a, i) == Mapped(h, Rows(source, a, i))
           held == Holds(source[n])
<1>1. N \in Nat /\ n \in Nat /\ 1 <= n /\ n <= N
    OBVIOUS
<1>2. h \in Maps(TableRows, Items)
    BY ShowingIs
<1>3. <<>> \in Seq(Items)
    OBVIOUS
<1>4. (n - 1) + 1 = n /\ (n - 1 \in 1 .. N - 1 <=> n > 1) /\ (n \in 1 .. N - 1 <=> n < N)
    BY <1>1
<1>5. Pending(source, n) = IF n < N /\ IsRow(n) /\ IsRow(n + 1)
                           THEN Q(FirstRow(source, n), n) ELSE <<>>
    BY <1>4 DEF Pending
<1>6. Pending(source, n - 1) = IF n > 1 /\ IsRow(n - 1) /\ IsRow(n)
                               THEN Q(FirstRow(source, n - 1), n - 1) ELSE <<>>
    BY <1>4 DEF Pending
<1>7. CASE ~IsRow(n)
    <2>1. out = LinesOf(source[n])
        BY <1>7 DEF LinesAt
    <2>2. out \in Seq(G) /\ AllShown(out) = held /\ held \in Seq(Items)
        BY <1>7, <2>1, LineIsGood DEF Items
    <2>3. Pending(source, n) = <<>> /\ Pending(source, n - 1) = <<>>
        BY <1>5, <1>6, <1>7
    <2> HIDE DEF held, out, G
    <2>4. held \o <<>> = <<>> \o held
        BY <2>2, ConcatEmptySeq
    <2> QED
        BY <1>3, <2>2, <2>3, <2>4 DEF held, out, G
<1>8. CASE IsRow(n)
    <2> DEFINE a == FirstRow(source, n)
    <2>1. /\ a \in 1 .. n /\ \A j \in a .. n : IsRow(j)
          /\ n > 1 /\ IsRow(n - 1) => FirstRow(source, n - 1) = a
          /\ ~(n > 1 /\ IsRow(n - 1)) => a = n
        BY <1>8, FirstRowIs
    <2> DEFINE u == Rows(source, a, n - 1)
               v == Rows(source, a, n)
    <2>2. /\ u \in Seq(TableRows) /\ v \in Seq(TableRows)
          /\ source[n].words \in TableRows
          /\ Q(a, n) = Q(a, n - 1) \o held
          /\ a = n => Q(a, n - 1) = <<>>
        <3> HIDE DEF a
        <3> QED
            BY <2>1, RowsAre
    <2>3. Q(a, n - 1) \in Seq(Items) /\ Q(a, n) \in Seq(Items)
        <3> HIDE DEF u, v, h
        <3>1. Mapped(h, u) \in Seq(Items) /\ Mapped(h, v) \in Seq(Items)
            BY <1>2, <2>2, MappedIs
        <3> QED
            BY <3>1 DEF u, v
    <2>4. Pending(source, n - 1) = Q(a, n - 1)
        <3> HIDE DEF Q, a
        <3> QED
            BY <1>6, <1>8, <2>1, <2>2
    <2>5. held \in Seq(Items)
        <3>1. held = RowShows(source[n].words)
            BY <1>8 DEF Holds
        <3> QED
            BY <2>2, <3>1, RowShowsIs
    <2>6. CASE n < N /\ IsRow(n + 1)
        <3>1. out = <<>>
            BY <1>8, <2>6 DEF LinesAt
        <3>2. AllShown(<<>>) = <<>>
            <4>1. [i \in DOMAIN <<>> |-> Shows(<<>>[i])] = <<>>
                OBVIOUS
            <4>2. FlattenSeq(<<>>) = <<>>
                BY DEF FlattenSeq
            <4> QED
                BY <4>1, <4>2 DEF AllShown
        <3>3. Pending(source, n) = Q(a, n)
            BY <1>5, <1>8, <2>6
        <3>4. <<>> \in Seq(G)
            OBVIOUS
        <3>5. <<>> \o Q(a, n) = Q(a, n)
            <4> DEFINE q == Q(a, n)
            <4>1. q \in Seq(Items)
                BY <2>3
            <4> HIDE DEF q
            <4> QED
                BY <4>1, ConcatEmptySeq
        <3> HIDE DEF Q, held, out, G, a
        <3> QED
            BY <1>3, <2>2, <2>3, <2>4, <2>5, <3>1, <3>2, <3>3, <3>4, <3>5 DEF held, out, G
    <2>7. CASE ~(n < N /\ IsRow(n + 1))
        <3> DEFINE table == tableToLines(v)
        <3>1. out = table \o <<BlankLine>>
            BY <1>8, <2>7 DEF LinesAt
        <3>2. table \in Seq(G) /\ AllShown(table) = Q(a, n)
            <4> HIDE DEF v
            <4>1. tableToLines(v) \in Seq(GoodLines(source))
                  /\ AllShown(tableToLines(v)) = Mapped(RowShowing, v)
                BY <2>2, TableIsGood
            <4> QED
                BY <4>1 DEF v
        <3>3. BlankLine \in G /\ Shows(BlankLine) = <<>>
            BY BlankIsGood
        <3> HIDE DEF out, G, v, table
        <3> DEFINE blank == <<BlankLine>>
        <3>4. blank \in Seq(G)
            BY <3>3
        <3>5. AllShown(blank) = <<>>
            BY <1>3, <3>3, FewShow
        <3> HIDE DEF blank
        <3>6. out = table \o blank
            BY <3>1 DEF blank
        <3>7. out \in Seq(G)
            BY <3>2, <3>4, <3>6, ConcatProperties
        <3> DEFINE s == Showing(source)
        <3>8. s \in Maps(G, Items)
            BY ShowingIs DEF G
        <3>9. AllShown(out) = Mapped(s, out) /\ AllShown(table) = Mapped(s, table)
              /\ AllShown(blank) = Mapped(s, blank)
            BY <3>2, <3>4, <3>7, AllShownIs DEF G
        <3> HIDE DEF s
        <3>10. Mapped(s, table \o blank) = Mapped(s, table) \o Mapped(s, blank)
            <4>1. table \in Seq(G) /\ blank \in Seq(G)
                BY <3>2, <3>4
            <4> QED
                BY <3>8, <4>1, MappedConcat
        <3> DEFINE q == Q(a, n)
        <3>11. q \in Seq(Items) /\ AllShown(table) = q
            BY <2>3, <3>2
        <3> HIDE DEF q
        <3>12. q \o <<>> = q
            BY <3>11, ConcatEmptySeq
        <3>13. AllShown(out) = q
            BY <3>5, <3>6, <3>9, <3>10, <3>11, <3>12
        <3>14. Pending(source, n) = <<>>
            BY <1>5, <2>7
        <3> HIDE DEF held, Q
        <3> QED
            BY <1>3, <2>2, <2>3, <2>4, <2>5, <3>7, <3>11, <3>12, <3>13, <3>14 DEF q, out, G, held
    <2> QED
        BY <2>6, <2>7
<1> QED
    BY <1>7, <1>8

\* A document comes out on the paper with all it holds.
LEMMA AllLinesAreGood ==
    ASSUME NEW source \in Seq(SourceLine)
    PROVE  /\ AllLines(source) \in Seq(GoodLines(source))
           /\ AllShown(AllLines(source)) = AllHeld(source)
<1> DEFINE N == Len(source)
           G == GoodLines(source)
           B == Items
           s == Showing(source)
           at == [i \in DOMAIN source |-> LinesAt(source, i)]
           hold == [i \in DOMAIN source |-> Holds(source[i])]
           P(i) == Pending(source, i)
<1>1. N \in Nat /\ DOMAIN source = 1 .. N
    OBVIOUS
<1>2. \A n \in 1 .. N : /\ at[n] \in Seq(G) /\ hold[n] \in Seq(B) /\ P(n) \in Seq(B)
                        /\ P(n - 1) \in Seq(B)
                        /\ AllShown(at[n]) \in Seq(B)
                        /\ AllShown(at[n]) \o P(n) = P(n - 1) \o hold[n]
    BY <1>1, LinesAtAreGood
<1>3. s \in Maps(G, B)
    BY ShowingIs
<1>4. \A n \in 1 .. N : AllShown(at[n]) = Mapped(s, at[n])
    BY <1>2, AllShownIs
<1>5. at \in [1 .. N -> Seq(G)] /\ hold \in [1 .. N -> Seq(B)]
    BY <1>1, <1>2
<1>6. P(0) = <<>> /\ P(N) = <<>>
    <2>1. 0 \notin 1 .. N - 1 /\ N \notin 1 .. N - 1
        BY <1>1
    <2> QED
        BY <2>1 DEF Pending
<1> HIDE DEF at, hold, P, s, G, B
<1>7. at \in Seq(Seq(G)) /\ Len(at) = N /\ hold \in Seq(Seq(B)) /\ Len(hold) = N
    <2> DEFINE C == Seq(G)
               D == Seq(B)
    <2>1. at \in [1 .. N -> C] /\ hold \in [1 .. N -> D]
        BY <1>5
    <2> HIDE DEF C, D
    <2>2. at \in Seq(C) /\ Len(at) = N /\ hold \in Seq(D) /\ Len(hold) = N
        BY <1>1, <2>1, SequenceIs
    <2> QED
        BY <2>2 DEF C, D
<1> HIDE DEF N
<1>8. PICK f \in [0 .. N -> Seq(G)] :
          /\ f[0] = <<>> /\ \A n \in 1 .. N : f[n] = f[n - 1] \o at[n]
          /\ FlattenSeq(at) = f[N]
    <2>1. \E f \in [0 .. Len(at) -> Seq(G)] :
              /\ f[0] = <<>> /\ \A n \in 1 .. Len(at) : f[n] = f[n - 1] \o at[n]
              /\ FlattenSeq(at) = f[Len(at)]
        BY <1>7, FlattenedSoFar, Zenon
    <2> QED
        BY <1>7, <2>1
<1>9. PICK g \in [0 .. N -> Seq(B)] :
          /\ g[0] = <<>> /\ \A n \in 1 .. N : g[n] = g[n - 1] \o hold[n]
          /\ FlattenSeq(hold) = g[N]
    <2>1. \E g \in [0 .. Len(hold) -> Seq(B)] :
              /\ g[0] = <<>> /\ \A n \in 1 .. Len(hold) : g[n] = g[n - 1] \o hold[n]
              /\ FlattenSeq(hold) = g[Len(hold)]
        BY <1>7, FlattenedSoFar, Zenon
    <2> QED
        BY <1>7, <2>1
<1> DEFINE Same(n) == g[n] = Mapped(s, f[n]) \o P(n)
           T == {n \in Nat : Same(n)}
<1>10. 0 \in T
    <2>1. Mapped(s, f[0]) = <<>>
        BY <1>8, MappedNothing
    <2>2. <<>> \o <<>> = <<>>
        OBVIOUS
    <2> QED
        BY <1>6, <1>9, <2>1, <2>2
<1>11. \A n \in 1 .. N : n - 1 \in T => n \in T
    <2> SUFFICES ASSUME NEW n \in 1 .. N, Same(n - 1) PROVE Same(n)
        <3>1. \A n \in 1 .. N : n \in Nat
            BY <1>1
        <3> HIDE DEF Same
        <3> QED
            BY <3>1
    <2> DEFINE x == Mapped(s, f[n - 1])
               y == AllShown(at[n])
               p == P(n - 1)
               q == P(n)
               z == hold[n]
               u == f[n - 1]
               w == at[n]
    <2>1. n - 1 \in 0 .. N
        BY <1>1
    <2>2. u \in Seq(G) /\ w \in Seq(G) /\ f[n] = u \o w
        BY <1>2, <1>8, <2>1
    <2>3. Mapped(s, u) \in Seq(B)
        <3> HIDE DEF u
        <3> QED
            BY <1>3, <2>2, MappedIs
    <2>4. Mapped(s, u \o w) = Mapped(s, u) \o Mapped(s, w)
        <3>1. u \in Seq(G) /\ w \in Seq(G)
            BY <2>2
        <3> HIDE DEF u, w
        <3> QED
            BY <1>3, <3>1, MappedConcat
    <2>5. Mapped(s, f[n]) = x \o y
        BY <1>4, <2>2, <2>4
    <2>6. x \in Seq(B) /\ y \in Seq(B) /\ p \in Seq(B) /\ q \in Seq(B) /\ z \in Seq(B)
          /\ y \o q = p \o z
        BY <1>2, <2>3
    <2>7. g[n - 1] = x \o p /\ g[n] = g[n - 1] \o z
        BY <1>9
    <2> HIDE DEF x, y, p, q, z, u, w
    <2>8. (x \o y) \o q = x \o (y \o q) /\ (x \o p) \o z = x \o (p \o z)
        <3>1. x \in Seq(B) /\ y \in Seq(B) /\ q \in Seq(B)
            BY <2>6
        <3>2. x \in Seq(B) /\ p \in Seq(B) /\ z \in Seq(B)
            BY <2>6
        <3>3. (x \o y) \o q = x \o (y \o q)
            BY ONLY <3>1, ConcatMoves, SMTT(30)
        <3>4. (x \o p) \o z = x \o (p \o z)
            BY ONLY <3>2, ConcatMoves, SMTT(30)
        <3> QED
            BY <3>3, <3>4
    <2>9. g[n] = (x \o y) \o q
        BY <2>6, <2>7, <2>8
    <2> QED
        BY <2>5, <2>9 DEF q
<1> HIDE DEF T
<1>12. \A n \in 0 .. N : n \in T
    BY <1>1, <1>10, <1>11, InductionTo
<1>13. Same(N)
    <2>1. N \in T
        BY <1>1, <1>12
    <2> QED
        BY <2>1 DEF T
<1> DEFINE all == FlattenSeq(at)
<1>14. all \in Seq(G) /\ all = f[N]
    <2>1. N \in 0 .. N
        BY <1>1
    <2> QED
        BY <1>8, <2>1
<1>15. Mapped(s, all) \in Seq(B)
    <2> HIDE DEF all
    <2> QED
        BY <1>3, <1>14, MappedIs
<1>16. g[N] = Mapped(s, all)
    <2> DEFINE x == Mapped(s, all)
    <2>1. x \in Seq(B) /\ g[N] = x \o <<>>
        BY <1>6, <1>13, <1>14, <1>15
    <2> HIDE DEF x
    <2>2. x \o <<>> = x
        BY <2>1, ConcatEmptySeq
    <2> QED
        BY <2>1, <2>2 DEF x
<1>17. AllShown(all) = Mapped(s, all)
    <2> HIDE DEF all
    <2> QED
        BY <1>14, AllShownIs DEF s, G
<1>18. AllHeld(source) = g[N] /\ AllLines(source) = all
    BY <1>9 DEF AllHeld, AllLines, hold, at
<1> HIDE DEF all
<1> QED
    BY <1>14, <1>16, <1>17, <1>18 DEF G

\* markdownToTextLines puts a document on the paper (lines 551-600).
THEOREM DocumentIsWellLaidOut ==
    ASSUME NEW source \in Seq(SourceLine)
    PROVE  WellLaidOut(source)
<1> DEFINE all == AllLines(source)
           lines == markdownToTextLines(source)
           G == GoodLines(source)
           kept == {0} \cup {i \in DOMAIN all : LineLength(all[i]) > 0}
           last == Max(kept)
           s == Showing(source)
<1>1. all \in Seq(G) /\ AllShown(all) = AllHeld(source)
    BY AllLinesAreGood
<1>2. lines = SubSeq(all, 1, last)
    BY DEF markdownToTextLines
<1> HIDE DEF all, lines
<1>3. Len(all) \in Nat /\ DOMAIN all = 1 .. Len(all) /\ \A i \in 1 .. Len(all) : all[i] \in G
    BY <1>1
<1>4. kept \in SUBSET Int /\ kept # {} /\ \A y \in kept : y <= Len(all) /\ y \in 0 .. Len(all)
    BY <1>3
<1>5. last \in kept /\ \A y \in kept : y <= last
    <2>1. Len(all) \in Int
        BY <1>3
    <2>2. \A y \in kept : y <= Len(all)
        BY <1>4
    <2> HIDE DEF kept
    <2> QED
        BY <1>4, <2>1, <2>2, GreatestElement, Zenon
<1> HIDE DEF last
<1>6. last \in 0 .. Len(all) /\ (last > 0 => LineLength(all[last]) > 0)
    BY <1>3, <1>4, <1>5
<1>7. ASSUME NEW i \in last + 1 .. Len(all) PROVE s[all[i]] = <<>>
    <2>1. i \in 1 .. Len(all) /\ ~(i <= last) /\ i \in Int
        BY <1>3, <1>6
    <2>2. i \notin kept
        BY <1>5, <2>1
    <2>3. ~(LineLength(all[i]) > 0)
        BY <1>3, <2>1, <2>2
    <2>4. all[i] \in G
        BY <1>3, <2>1
    <2>5. Shows(all[i]) = <<>>
        BY <2>3, <2>4 DEF GoodLines
    <2> QED
        BY <2>4, <2>5 DEF Showing
<1> HIDE DEF kept
<1>8. s \in Maps(G, Items)
    BY ShowingIs
<1> HIDE DEF G, s
<1>9. Mapped(s, SubSeq(all, 1, last)) = Mapped(s, all)
    BY <1>1, <1>6, <1>7, <1>8, MappedFront
<1>10. /\ lines \in Seq(G) /\ Len(lines) = last
       /\ \A i \in 1 .. last : lines[i] = all[i]
    <2>1. 1 \in Int /\ last \in Int /\ \A i \in 1 .. last : all[i] \in G
        BY <1>3, <1>6
    <2> DEFINE t == SubSeq(all, 1, last)
    <2>2. /\ t \in Seq(G) /\ Len(t) = IF 1 <= last THEN last - 1 + 1 ELSE 0
          /\ \A i \in 1 .. last - 1 + 1 : t[i] = all[1 + i - 1]
        BY <2>1, SubSeqProperties
    <2> HIDE DEF t
    <2>3. Len(t) = last /\ last - 1 + 1 = last
        BY <1>3, <1>6, <2>2
    <2>4. \A i \in 1 .. last : t[i] = all[i]
        <3> TAKE i \in 1 .. last
        <3>1. 1 + i - 1 = i /\ i \in 1 .. last - 1 + 1
            BY <2>1, <2>3
        <3> QED
            BY <2>2, <3>1
    <2> QED
        BY <1>2, <2>2, <2>3, <2>4 DEF t
<1>11. AllShown(lines) = AllHeld(source)
    <2>1. AllShown(lines) = Mapped(s, lines) /\ AllShown(all) = Mapped(s, all)
        BY <1>1, <1>10, AllShownIs DEF s, G
    <2> QED
        BY <1>1, <1>2, <1>9, <2>1
<1>12. \A i \in DOMAIN lines : InsideThePaper(lines[i], source)
    <2>1. \A i \in DOMAIN lines : lines[i] \in G
        BY <1>10
    <2> QED
        BY <2>1 DEF G, GoodLines
<1>13. ASSUME lines # <<>> PROVE LineLength(Last(lines)) > 0
    <2>1. last > 0 /\ last \in 1 .. last
        <3>1. Len(lines) \in Nat \ {0}
            BY <1>10, <1>13
        <3> QED
            BY <1>10, <3>1
    <2>2. Last(lines) = all[last]
        BY <1>10, <2>1 DEF Last
    <2> QED
        BY <1>6, <2>1, <2>2
<1> QED
    BY <1>11, <1>12, <1>13 DEF WellLaidOut, lines

-----------------------------------------------------------------------------
(* Print jobs.                                                              *)

\* What a document is cut into, and the states of the two ways to do it.
Pieces == [type : {"markdown"} \cup Openings, value : Seq(Tokens)]

MatchStates(tokens) == [parts : Seq(Pieces), last : 0 .. Len(tokens)]

ReadStates == [pieces : Seq(Pieces), in : {"markdown"} \cup Openings,
               held : Seq(Tokens), text : Seq(Tokens)]

\* A part of the document is one of the pieces.
LEMMA PieceIs ==
    ASSUME NEW type \in {"markdown"} \cup Openings, NEW value \in Seq(Tokens)
    PROVE  Part(type, value) \in Pieces /\ <<Part(type, value)>> \in Seq(Pieces)
<1>1. Part(type, value) \in Pieces
    BY DEF Part, Pieces
<1> HIDE DEF Pieces
<1> DEFINE p == Part(type, value)
<1>2. p \in Pieces
    BY <1>1
<1> HIDE DEF p
<1>3. <<p>> \in Seq(Pieces)
    BY <1>2
<1> QED
    BY <1>1, <1>3 DEF p

\* A stretch of markdown is one piece or none.
LEMMA MarkdownPartIs ==
    ASSUME NEW tokens \in Seq(Tokens)
    PROVE  MarkdownPart(tokens) \in Seq(Pieces)
<1>1. <<Part("markdown", tokens)>> \in Seq(Pieces)
    BY PieceIs
<1> QED
    BY <1>1 DEF MarkdownPart

\* What is trimmed is markdown again.
LEMMA TrimmedIs ==
    ASSUME NEW tokens \in Seq(Tokens)
    PROVE  Trimmed(tokens) \in Seq(Tokens)
<1> DEFINE kept == {i \in DOMAIN tokens : tokens[i] # "space"}
<1>1. Len(tokens) \in Nat /\ kept \in SUBSET (1 .. Len(tokens))
    OBVIOUS
<1>2. CASE kept = {}
    BY <1>2 DEF Trimmed
<1>3. CASE kept # {}
    <2>1. kept \in SUBSET Nat /\ kept \in SUBSET Int /\ Len(tokens) \in Int
        BY <1>1
    <2>2. \A y \in kept : y <= Len(tokens)
        BY <1>1
    <2>3. Trimmed(tokens) = SubSeq(tokens, Min(kept), Max(kept))
        BY <1>3 DEF Trimmed
    <2> HIDE DEF kept
    <2>4. Min(kept) \in kept
        BY <1>3, <2>1, LeastElement
    <2>5. Max(kept) \in kept
        BY <1>3, <2>1, <2>2, GreatestElement, Zenon
    <2>6. Min(kept) \in 1 .. Len(tokens) /\ Max(kept) \in 1 .. Len(tokens)
        BY <1>1, <2>4, <2>5
    <2> DEFINE a == Min(kept)
               b == Max(kept)
    <2> HIDE DEF a, b
    <2>7. a \in 1 .. Len(tokens) /\ b \in 1 .. Len(tokens)
        BY <2>6 DEF a, b
    <2>8. SubSeq(tokens, a, b) \in Seq(Tokens)
        BY <2>7
    <2> QED
        BY <2>3, <2>8 DEF a, b
<1> QED
    BY <1>2, <1>3

\* A stretch of the document, with what is left of the end of the block before it.
LEMMA SliceIs ==
    ASSUME NEW tokens \in Seq(Tokens), NEW last \in 0 .. Len(tokens),
           NEW i \in last .. Len(tokens)
    PROVE  /\ Slice(tokens, last, i) \in Seq(Tokens)
           /\ SubSeq(tokens, last + 1, i) \in Seq(Tokens)
<1>1. /\ last \in Nat /\ i \in Nat /\ last <= i /\ i <= Len(tokens) /\ Len(tokens) \in Nat
      /\ \A k \in 1 .. Len(tokens) : tokens[k] \in Tokens
    OBVIOUS
<1>2. SubSeq(tokens, last + 1, i) \in Seq(Tokens)
    <2>1. last + 1 \in Int /\ i \in Int /\ \A k \in last + 1 .. i : tokens[k] \in Tokens
        BY <1>1
    <2> HIDE <1>1
    <2> QED
        BY <2>1, SubSeqProperties
<1>3. <<"text">> \in Seq(Tokens) /\ <<>> \in Seq(Tokens)
    BY DEF Tokens
<1> DEFINE end == IF last > 0 /\ tokens[last] \in Openings THEN <<"text">> ELSE <<>>
           s == SubSeq(tokens, last + 1, i)
<1>4. end \in Seq(Tokens) /\ s \in Seq(Tokens)
    BY <1>2, <1>3
<1>5. Slice(tokens, last, i) = end \o s
    BY DEF Slice
<1> HIDE DEF end, s
<1>6. end \o s \in Seq(Tokens)
    BY ONLY <1>4
<1> QED
    BY <1>2, <1>5, <1>6

\* A slice, and a stretch behind the last match, to the next token.
LEMMA SliceOn ==
    ASSUME NEW tokens \in Seq(Tokens), NEW last \in 0 .. Len(tokens),
           NEW i \in last .. Len(tokens) - 1
    PROVE  /\ Slice(tokens, last, i + 1) = Append(Slice(tokens, last, i), tokens[i + 1])
           /\ SubSeq(tokens, last + 1, i + 1) = Append(SubSeq(tokens, last + 1, i), tokens[i + 1])
<1>1. /\ last \in Nat /\ i \in Nat /\ last <= i /\ i + 1 <= Len(tokens) /\ Len(tokens) \in Nat
      /\ tokens[i + 1] \in Tokens /\ i \in last .. Len(tokens)
    OBVIOUS
<1> DEFINE end == IF last > 0 /\ tokens[last] \in Openings THEN <<"text">> ELSE <<>>
           s == SubSeq(tokens, last + 1, i)
           t == SubSeq(tokens, last + 1, i + 1)
           e == tokens[i + 1]
<1>2. s \in Seq(Tokens) /\ e \in Tokens
    BY <1>1, SliceIs
<1>3. end \in Seq(Tokens)
    <2>1. <<"text">> \in Seq(Tokens) /\ <<>> \in Seq(Tokens)
        BY DEF Tokens
    <2> QED
        BY <2>1
<1>4. t = Append(s, e)
    <2>1. last + 1 \in 1 .. Len(tokens) /\ i + 1 \in last + 1 .. Len(tokens)
          /\ (i + 1) - 1 = i
        BY <1>1
    <2>2. t = SubSeq(tokens, last + 1, (i + 1) - 1) \o <<e>>
        BY <2>1, SubSeqRecursiveSecond
    <2>3. t = s \o <<e>>
        BY <2>1, <2>2
    <2> HIDE DEF s, t, e
    <2> QED
        BY <1>2, <2>3
<1>5. Slice(tokens, last, i) = end \o s /\ Slice(tokens, last, i + 1) = end \o t
    BY DEF Slice
<1> HIDE DEF end, s, t, e
<1>6. end \o Append(s, e) = Append(end \o s, e)
    BY ONLY <1>2, <1>3
<1> QED
    BY <1>4, <1>5, <1>6 DEF s, t, e

\* A turn of the loop: the block that is found is the first opening, and it ends at the
\* first backquotes behind it.
LEMMA MatchedIs ==
    ASSUME NEW tokens \in Seq(Tokens), NEW s \in MatchStates(tokens),
           Blocks(tokens, s.last) # {}
    PROVE  \E i, j \in 1 .. Len(tokens) :
              /\ s.last < i /\ i < j
              /\ tokens[i] \in Openings
              /\ \A k \in s.last + 1 .. i - 1 : tokens[k] \notin Openings
              /\ tokens[j] \in Fences /\ \A k \in i + 1 .. j - 1 : tokens[k] \notin Fences
              /\ Matched(tokens, s).last = j
              /\ Matched(tokens, s).parts = s.parts \o MarkdownPart(Slice(tokens, s.last, i - 1))
                     \o <<Part(tokens[i], Trimmed(SubSeq(tokens, i + 1, j - 1)))>>
              /\ Matched(tokens, s) \in MatchStates(tokens)
              /\ Matched(tokens, s).parts # <<>>
<1> DEFINE N == Len(tokens)
           last == s.last
           blocks == Blocks(tokens, last)
           i == Min(blocks)
           ends == {j \in i + 1 .. N : tokens[j] \in Fences}
           j == Min(ends)
           m == MarkdownPart(Slice(tokens, last, i - 1))
           p == Part(tokens[i], Trimmed(SubSeq(tokens, i + 1, j - 1)))
<1>1. last \in 0 .. N /\ s.parts \in Seq(Pieces) /\ N \in Nat
    BY DEF MatchStates
<1> HIDE DEF last, N
<1>2. blocks = {k \in last + 1 .. N :
                   tokens[k] \in Openings /\ \E l \in k + 1 .. N : tokens[l] \in Fences}
    BY DEF Blocks, N
<1>3. i \in blocks /\ \A y \in blocks : i <= y
    <2>1. blocks \in SUBSET Nat /\ blocks # {}
        BY <1>1, <1>2 DEF last
    <2> HIDE DEF blocks
    <2> QED
        BY <2>1, LeastElement
<1> HIDE DEF i, blocks
<1>4. i \in last + 1 .. N /\ tokens[i] \in Openings /\ \E l \in i + 1 .. N : tokens[l] \in Fences
    BY <1>2, <1>3
<1>5. ASSUME NEW k \in last + 1 .. i - 1 PROVE tokens[k] \notin Openings
    <2> SUFFICES ASSUME tokens[k] \in Openings PROVE FALSE
        OBVIOUS
    <2>1. k \in last + 1 .. N /\ i \in k + 1 .. N /\ k < i
        BY <1>1, <1>4
    <2>2. tokens[i] \in Fences
        BY <1>4 DEF Fences
    <2>3. k \in blocks
        BY <1>2, <2>1, <2>2
    <2> QED
        BY <1>1, <1>3, <1>4, <2>1, <2>3
<1>6. j \in ends /\ \A y \in ends : j <= y
    <2>1. ends \in SUBSET Nat /\ ends # {}
        BY <1>1, <1>4
    <2> HIDE DEF ends
    <2> QED
        BY <2>1, LeastElement
<1> HIDE DEF j
<1>7. j \in i + 1 .. N /\ tokens[j] \in Fences
    BY <1>6
<1>8. ASSUME NEW k \in i + 1 .. j - 1 PROVE tokens[k] \notin Fences
    <2> SUFFICES ASSUME tokens[k] \in Fences PROVE FALSE
        OBVIOUS
    <2>1. k \in ends /\ k < j
        BY <1>1, <1>4, <1>7
    <2> HIDE DEF ends
    <2> QED
        BY <1>1, <1>4, <1>6, <1>7, <2>1
<1> HIDE DEF ends, m, p
<1>9. /\ Matched(tokens, s).last = j
      /\ Matched(tokens, s).parts = s.parts \o m \o <<p>>
      /\ Matched(tokens, s) = [parts |-> s.parts \o m \o <<p>>, last |-> j]
    BY DEF Matched, FirstFence, blocks, last, i, j, ends, m, p, N
<1>10. m \in Seq(Pieces) /\ <<p>> \in Seq(Pieces)
    <2>1. i - 1 \in last .. N
        BY <1>1, <1>4
    <2>2. m \in Seq(Pieces)
        BY <1>1, <2>1, SliceIs, MarkdownPartIs DEF m, N
    <2>3. i \in 0 .. N /\ j - 1 \in i .. N
        BY <1>1, <1>4, <1>7
    <2>4. SubSeq(tokens, i + 1, j - 1) \in Seq(Tokens)
        BY <2>3, SliceIs DEF N
    <2>5. Trimmed(SubSeq(tokens, i + 1, j - 1)) \in Seq(Tokens)
        BY <2>4, TrimmedIs
    <2> QED
        BY <1>4, <2>2, <2>5, PieceIs DEF p
<1>11. s.parts \o m \o <<p>> \in Seq(Pieces) /\ s.parts \o m \o <<p>> # <<>>
    <2> DEFINE a == s.parts
               b == <<p>>
    <2>1. a \in Seq(Pieces) /\ b \in Seq(Pieces) /\ b # <<>>
        BY <1>1, <1>10
    <2> HIDE DEF a, b
    <2>2. a \o m \in Seq(Pieces)
        BY <1>10, <2>1, ConcatProperties
    <2>3. (a \o m) \o b \in Seq(Pieces)
        BY <2>1, <2>2, ConcatProperties
    <2>4. (a \o m) \o b # <<>>
        BY <2>1, <2>2, ConcatEqualIffEmpty
    <2> QED
        BY <2>3, <2>4 DEF a, b
<1>12. Matched(tokens, s) \in MatchStates(tokens)
    <2>1. j \in 0 .. Len(tokens)
        BY <1>1, <1>4, <1>7 DEF N
    <2> DEFINE parts == s.parts \o m \o <<p>>
    <2>2. parts \in Seq(Pieces) /\ Matched(tokens, s) = [parts |-> parts, last |-> j]
        BY <1>9, <1>11
    <2> HIDE DEF parts
    <2> QED
        BY <2>1, <2>2 DEF MatchStates
<1>13. i \in 1 .. N /\ j \in 1 .. N /\ last < i /\ i < j
    BY <1>1, <1>4, <1>7
<1> QED
    BY <1>4, <1>5, <1>7, <1>8, <1>9, <1>11, <1>12, <1>13 DEF m, p, last, N

\* Matches is the function that its definition says: a turn of the while loop after the other.
LEMMA MatchesAre ==
    ASSUME NEW tokens \in Seq(Tokens)
    PROVE  /\ Matches(tokens) \in [0 .. Len(tokens) -> MatchStates(tokens)]
           /\ Matches(tokens)[0] = [parts |-> <<>>, last |-> 0]
           /\ \A n \in 1 .. Len(tokens) :
                 Matches(tokens)[n] = Matched(tokens, Matches(tokens)[n - 1])
<1> DEFINE N == Len(tokens)
           S == MatchStates(tokens)
           P(v, n) == Matched(tokens, v)
           step == [n \in 1 .. N |-> [v \in S |-> P(v, n)]]
           is(g) == g = [n \in 0 .. N |-> IF n = 0 THEN [parts |-> <<>>, last |-> 0] ELSE P(g[n - 1], n)]
<1>1. N \in Nat
    OBVIOUS
<1>2. Matches(tokens) = CHOOSE g : is(g)
    BY DEF Matches
<1>3. [parts |-> <<>>, last |-> 0] \in S /\ \A n \in 1 .. N, v \in S : P(v, n) \in S
    <2>1. [parts |-> <<>>, last |-> 0] \in MatchStates(tokens)
        BY <1>1 DEF MatchStates
    <2>2. ASSUME NEW v \in MatchStates(tokens) PROVE Matched(tokens, v) \in MatchStates(tokens)
        <3>1. CASE Blocks(tokens, v.last) = {}
            BY <3>1 DEF Matched
        <3>2. CASE Blocks(tokens, v.last) # {}
            BY <3>2, MatchedIs
        <3> QED
            BY <3>1, <3>2
    <2> QED
        BY <2>1, <2>2
<1> HIDE DEF N, P, S
<1>4. step \in Steps(N, S)
    BY <1>3 DEF Steps
<1>5. PICK f \in [0 .. N -> S] :
            /\ f[0] = [parts |-> <<>>, last |-> 0]
            /\ \A n \in 1 .. N : f[n] = step[n][f[n - 1]]
    <2> DEFINE base == [parts |-> <<>>, last |-> 0]
    <2> HIDE DEF step
    <2>1. base \in S
        BY <1>3
    <2> HIDE DEF base
    <2>2. \E f : f \in Courses(N, S, base, step)
        BY <1>1, <1>4, <2>1, Recursion
    <2> QED
        BY <2>2 DEF Courses, base
<1>6. \A n \in 1 .. N : f[n - 1] \in S /\ f[n] = P(f[n - 1], n)
    <2> TAKE n \in 1 .. N
    <2>1. n - 1 \in 0 .. N
        BY <1>1
    <2>2. f[n - 1] \in S
        BY <1>5, <2>1
    <2>3. step[n][f[n - 1]] = P(f[n - 1], n)
        BY <2>2
    <2> QED
        BY <1>5, <2>2, <2>3
<1>7. is(f)
    <2>1. \A n \in 0 .. N : f[n] = IF n = 0 THEN [parts |-> <<>>, last |-> 0] ELSE P(f[n - 1], n)
        <3> TAKE n \in 0 .. N
        <3>1. n # 0 => n \in 1 .. N
            BY <1>1
        <3> QED
            BY <1>5, <1>6, <3>1
    <2> QED
        BY <2>1
<1> DEFINE g == Matches(tokens)
<1>8. is(g)
    <2> HIDE DEF is
    <2> QED
        BY <1>2, <1>7
<1> HIDE DEF g
<1>9. g = [n \in 0 .. N |-> IF n = 0 THEN [parts |-> <<>>, last |-> 0] ELSE P(g[n - 1], n)]
    BY <1>8
<1>10. g = [n \in 0 .. N |-> g[n]] /\ g[0] = [parts |-> <<>>, last |-> 0]
    BY <1>1, <1>9
<1>11. \A n \in 1 .. N : g[n] = P(g[n - 1], n)
    <2> TAKE n \in 1 .. N
    <2>1. n \in 0 .. N /\ n # 0
        BY <1>1
    <2> QED
        BY <1>9, <2>1
<1> DEFINE T == {n \in Nat : g[n] \in S}
<1>12. 0 \in T
    BY <1>3, <1>10
<1>13. \A n \in 1 .. N : n - 1 \in T => n \in T
    BY <1>1, <1>3, <1>11
<1> HIDE DEF T
<1>14. \A n \in 0 .. N : n \in T
    BY <1>1, <1>12, <1>13, InductionTo
<1>15. \A n \in 0 .. N : g[n] \in S
    BY <1>14 DEF T
<1>16. g \in [0 .. N -> S]
    BY <1>10, <1>15
<1> QED
    BY <1>10, <1>11, <1>16 DEF g, N, S, P

\* The reader stays in its states.
LEMMA ReadIs ==
    ASSUME NEW state \in ReadStates, NEW token \in Tokens
    PROVE  Read(state, token) \in ReadStates
<1>1. /\ state.pieces \in Seq(Pieces) /\ state.in \in {"markdown"} \cup Openings
      /\ state.held \in Seq(Tokens) /\ state.text \in Seq(Tokens)
    BY DEF ReadStates
<1>2. Append(state.held, token) \in Seq(Tokens) /\ Append(state.text, token) \in Seq(Tokens)
    BY <1>1
<1>3. CASE state.in = "markdown" /\ token \in Openings
    <2>1. Read(state, token) = [state EXCEPT !.in = token, !.held = <<>>]
        BY <1>3 DEF Read
    <2>2. token \in {"markdown"} \cup Openings /\ <<>> \in Seq(Tokens)
        BY <1>3
    <2> DEFINE none == <<>>
    <2>3. none \in Seq(Tokens)
        BY <2>2
    <2> HIDE DEF none
    <2>4. Read(state, token) = [state EXCEPT !.in = token, !.held = none]
        BY <2>1 DEF none
    <2> QED
        BY <2>2, <2>3, <2>4 DEF ReadStates
<1>4. CASE state.in = "markdown" /\ token \notin Openings
    <2> DEFINE more == Append(state.text, token)
    <2>1. Read(state, token) = [state EXCEPT !.text = more] /\ more \in Seq(Tokens)
        BY <1>2, <1>4 DEF Read
    <2> HIDE DEF more
    <2> QED
        BY <2>1 DEF ReadStates
<1>5. CASE state.in # "markdown" /\ token \notin Fences
    <2> DEFINE more == Append(state.held, token)
    <2>1. Read(state, token) = [state EXCEPT !.held = more] /\ more \in Seq(Tokens)
        BY <1>2, <1>5 DEF Read
    <2> HIDE DEF more
    <2> QED
        BY <2>1 DEF ReadStates
<1>6. CASE state.in # "markdown" /\ token \in Fences
    <2> DEFINE pieces == state.pieces \o MarkdownPart(state.text)
                             \o <<Part(state.in, Trimmed(state.held))>>
               text == IF token = "fence" THEN <<>> ELSE <<"text">>
    <2>1. Read(state, token)
              = [pieces |-> pieces, in |-> "markdown", held |-> <<>>, text |-> text]
        BY <1>6 DEF Read
    <2>2. text \in Seq(Tokens) /\ <<>> \in Seq(Tokens)
        <3>1. <<"text">> \in Seq(Tokens) /\ <<>> \in Seq(Tokens)
            BY DEF Tokens
        <3> QED
            BY <3>1
    <2>3. pieces \in Seq(Pieces)
        <3> DEFINE a == state.pieces
                   b == MarkdownPart(state.text)
                   c == <<Part(state.in, Trimmed(state.held))>>
        <3>1. a \in Seq(Pieces) /\ b \in Seq(Pieces) /\ c \in Seq(Pieces)
            BY <1>1, MarkdownPartIs, TrimmedIs, PieceIs
        <3> HIDE DEF a, b, c
        <3>2. a \o b \in Seq(Pieces)
            BY <3>1, ConcatProperties
        <3>3. (a \o b) \o c \in Seq(Pieces)
            BY <3>1, <3>2, ConcatProperties
        <3> QED
            BY <3>3 DEF a, b, c
    <2> HIDE DEF pieces, text
    <2> QED
        BY <2>1, <2>2, <2>3 DEF ReadStates
<1> QED
    BY <1>3, <1>4, <1>5, <1>6

\* Reading is the function that its definition says: a token after the other.
LEMMA ReadingIs ==
    ASSUME NEW tokens \in Seq(Tokens)
    PROVE  /\ Reading(tokens) \in [0 .. Len(tokens) -> ReadStates]
           /\ Reading(tokens)[0] = [pieces |-> <<>>, in |-> "markdown", held |-> <<>>, text |-> <<>>]
           /\ \A n \in 1 .. Len(tokens) :
                 Reading(tokens)[n] = Read(Reading(tokens)[n - 1], tokens[n])
<1> DEFINE N == Len(tokens)
           S == ReadStates
           P(v, n) == Read(v, tokens[n])
           step == [n \in 1 .. N |-> [v \in S |-> P(v, n)]]
           is(g) == g = [n \in 0 .. N |-> IF n = 0 THEN [pieces |-> <<>>, in |-> "markdown", held |-> <<>>, text |-> <<>>] ELSE P(g[n - 1], n)]
<1>1. N \in Nat
    OBVIOUS
<1>0. \A n \in 1 .. N : tokens[n] \in Tokens
    OBVIOUS
<1>2. Reading(tokens) = CHOOSE g : is(g)
    BY DEF Reading
<1>3. [pieces |-> <<>>, in |-> "markdown", held |-> <<>>, text |-> <<>>] \in S
      /\ \A n \in 1 .. N, v \in S : P(v, n) \in S
    <2>1. [pieces |-> <<>>, in |-> "markdown", held |-> <<>>, text |-> <<>>] \in ReadStates
        BY DEF ReadStates
    <2> QED
        BY <1>0, <2>1, ReadIs
<1> HIDE DEF N, P, S
<1>4. step \in Steps(N, S)
    BY <1>3 DEF Steps
<1>5. PICK f \in [0 .. N -> S] :
            /\ f[0] = [pieces |-> <<>>, in |-> "markdown", held |-> <<>>, text |-> <<>>]
            /\ \A n \in 1 .. N : f[n] = step[n][f[n - 1]]
    <2> DEFINE base == [pieces |-> <<>>, in |-> "markdown", held |-> <<>>, text |-> <<>>]
    <2> HIDE DEF step
    <2>1. base \in S
        BY <1>3
    <2> HIDE DEF base
    <2>2. \E f : f \in Courses(N, S, base, step)
        BY <1>1, <1>4, <2>1, Recursion
    <2> QED
        BY <2>2 DEF Courses, base
<1>6. \A n \in 1 .. N : f[n - 1] \in S /\ f[n] = P(f[n - 1], n)
    <2> TAKE n \in 1 .. N
    <2>1. n - 1 \in 0 .. N
        BY <1>1
    <2>2. f[n - 1] \in S
        BY <1>5, <2>1
    <2>3. step[n][f[n - 1]] = P(f[n - 1], n)
        BY <2>2
    <2> QED
        BY <1>5, <2>2, <2>3
<1>7. is(f)
    <2>1. \A n \in 0 .. N : f[n] = IF n = 0 THEN [pieces |-> <<>>, in |-> "markdown", held |-> <<>>, text |-> <<>>] ELSE P(f[n - 1], n)
        <3> TAKE n \in 0 .. N
        <3>1. n # 0 => n \in 1 .. N
            BY <1>1
        <3> QED
            BY <1>5, <1>6, <3>1
    <2> QED
        BY <2>1
<1> DEFINE g == Reading(tokens)
<1>8. is(g)
    <2> HIDE DEF is
    <2> QED
        BY <1>2, <1>7
<1> HIDE DEF g
<1>9. g = [n \in 0 .. N |-> IF n = 0 THEN [pieces |-> <<>>, in |-> "markdown", held |-> <<>>, text |-> <<>>] ELSE P(g[n - 1], n)]
    BY <1>8
<1>10. g = [n \in 0 .. N |-> g[n]]
       /\ g[0] = [pieces |-> <<>>, in |-> "markdown", held |-> <<>>, text |-> <<>>]
    BY <1>1, <1>9
<1>11. \A n \in 1 .. N : g[n] = P(g[n - 1], n)
    <2> TAKE n \in 1 .. N
    <2>1. n \in 0 .. N /\ n # 0
        BY <1>1
    <2> QED
        BY <1>9, <2>1
<1> DEFINE T == {n \in Nat : g[n] \in S}
<1>12. 0 \in T
    BY <1>3, <1>10
<1>13. \A n \in 1 .. N : n - 1 \in T => n \in T
    BY <1>1, <1>3, <1>11
<1> HIDE DEF T
<1>14. \A n \in 0 .. N : n \in T
    BY <1>1, <1>12, <1>13, InductionTo
<1>15. \A n \in 0 .. N : g[n] \in S
    BY <1>14 DEF T
<1>16. g \in [0 .. N -> S]
    BY <1>10, <1>15
<1> QED
    BY <1>10, <1>11, <1>16 DEF g, N, S, P

\* The reader's state between two blocks, with so much of the text read since the last one.
Between(pieces, text) == [pieces |-> pieces, in |-> "markdown", held |-> <<>>, text |-> text]

\* The reader's state in a block.
Within(pieces, text, opening, held) ==
    [pieces |-> pieces, in |-> opening, held |-> held, text |-> text]

\* What is neither an opening nor in a block is read as text.
LEMMA TextIsRead ==
    ASSUME NEW tokens \in Seq(Tokens), NEW pieces \in Seq(Pieces), NEW last \in 0 .. Len(tokens),
           Reading(tokens)[last] = Between(pieces, Slice(tokens, last, last)),
           NEW m \in last .. Len(tokens),
           \A k \in last + 1 .. m : tokens[k] \notin Openings
    PROVE  Reading(tokens)[m] = Between(pieces, Slice(tokens, last, m))
<1> DEFINE r == Reading(tokens)
           N == Len(tokens)
           T == {n \in Nat : last + n <= m =>
                                 r[last + n] = Between(pieces, Slice(tokens, last, last + n))}
<1>1. N \in Nat /\ last \in Nat /\ m \in Nat /\ last <= m /\ m <= N
    OBVIOUS
<1>2. \A n \in 1 .. N : r[n] = Read(r[n - 1], tokens[n])
    BY ReadingIs
<1> HIDE DEF r
<1>3. 0 \in T
    <2>1. last + 0 = last
        BY <1>1
    <2> QED
        BY <2>1 DEF r
<1>4. ASSUME NEW n \in Nat, n \in T PROVE n + 1 \in T
    <2> SUFFICES ASSUME last + (n + 1) <= m
                 PROVE  r[last + (n + 1)] = Between(pieces, Slice(tokens, last, last + (n + 1)))
        OBVIOUS
    <2> DEFINE i == last + n
    <2>1. i \in last .. N - 1 /\ i + 1 = last + (n + 1) /\ i + 1 \in 1 .. N
          /\ i + 1 \in last + 1 .. m /\ (i + 1) - 1 = i /\ i <= m
        BY <1>1
    <2>2. r[i] = Between(pieces, Slice(tokens, last, i))
        BY <1>4, <2>1
    <2> HIDE DEF T, i
    <2>3. r[i + 1] = Read(r[i], tokens[i + 1])
        BY <1>2, <2>1
    <2>4. tokens[i + 1] \notin Openings
        BY <2>1
    <2> DEFINE text == Slice(tokens, last, i)
               token == tokens[i + 1]
    <2>5. Slice(tokens, last, i + 1) = Append(text, token)
        BY <2>1, SliceOn
    <2> HIDE DEF text, token
    <2>6. Read(Between(pieces, text), token) = Between(pieces, Append(text, token))
        BY <2>4 DEF Read, Between, token
    <2> QED
        BY <2>1, <2>2, <2>3, <2>5, <2>6 DEF text, token
<1> HIDE DEF T
<1>5. \A n \in Nat : n \in T
    BY <1>3, <1>4, Induction
<1>6. m - last \in Nat /\ last + (m - last) = m
    BY <1>1
<1>7. m - last \in T
    BY <1>5, <1>6
<1> QED
    BY <1>6, <1>7 DEF T, r

\* A block begins with its opening and holds what is not a fence.
LEMMA BlockIsRead ==
    ASSUME NEW tokens \in Seq(Tokens), NEW pieces, NEW text, NEW i \in 1 .. Len(tokens),
           Reading(tokens)[i - 1] = Between(pieces, text),
           tokens[i] \in Openings,
           NEW m \in i .. Len(tokens),
           \A k \in i + 1 .. m : tokens[k] \notin Fences
    PROVE  Reading(tokens)[m] = Within(pieces, text, tokens[i], SubSeq(tokens, i + 1, m))
<1> DEFINE r == Reading(tokens)
           N == Len(tokens)
           b == tokens[i]
           T == {n \in Nat : i + n <= m =>
                     r[i + n] = Within(pieces, text, b, SubSeq(tokens, i + 1, i + n))}
<1>1. N \in Nat /\ i \in Nat /\ 1 <= i /\ m \in Nat /\ i <= m /\ m <= N
    OBVIOUS
<1>2. \A n \in 1 .. N : r[n] = Read(r[n - 1], tokens[n])
    BY ReadingIs
<1>3. r[i - 1] = Between(pieces, text) /\ b \in Openings /\ b # "markdown"
    BY DEF Openings
<1> HIDE DEF r, b
<1>4. 0 \in T
    <2>1. r[i] = Read(Between(pieces, text), b)
        BY <1>2, <1>3 DEF b
    <2>2. Read(Between(pieces, text), b) = Within(pieces, text, b, <<>>)
        BY <1>3 DEF Read, Between, Within
    <2>3. SubSeq(tokens, i + 1, i) = <<>>
        BY <1>1, SubSeqEmpty
    <2>4. i + 0 = i
        BY <1>1
    <2> QED
        BY <2>1, <2>2, <2>3, <2>4
<1>5. ASSUME NEW n \in Nat, n \in T PROVE n + 1 \in T
    <2> SUFFICES ASSUME i + (n + 1) <= m
                 PROVE  r[i + (n + 1)] = Within(pieces, text, b, SubSeq(tokens, i + 1, i + (n + 1)))
        OBVIOUS
    <2> DEFINE j == i + n
    <2>1. j \in i .. N - 1 /\ j + 1 = i + (n + 1) /\ j + 1 \in 1 .. N
          /\ j + 1 \in i + 1 .. m /\ (j + 1) - 1 = j /\ j <= m /\ i \in 0 .. N
        BY <1>1
    <2>2. r[j] = Within(pieces, text, b, SubSeq(tokens, i + 1, j))
        BY <1>5, <2>1
    <2> HIDE DEF T, j
    <2>3. r[j + 1] = Read(r[j], tokens[j + 1])
        BY <1>2, <2>1
    <2>4. tokens[j + 1] \notin Fences
        BY <2>1
    <2> DEFINE held == SubSeq(tokens, i + 1, j)
               token == tokens[j + 1]
    <2>5. SubSeq(tokens, i + 1, j + 1) = Append(held, token)
        BY <2>1, SliceOn
    <2> HIDE DEF held, token
    <2>6. Read(Within(pieces, text, b, held), token) = Within(pieces, text, b, Append(held, token))
        BY <1>3, <2>4 DEF Read, Within, token
    <2> QED
        BY <2>1, <2>2, <2>3, <2>5, <2>6 DEF held, token
<1> HIDE DEF T
<1>6. \A n \in Nat : n \in T
    BY <1>4, <1>5, Induction
<1>7. m - i \in Nat /\ i + (m - i) = m
    BY <1>1
<1>8. m - i \in T
    BY <1>6, <1>7
<1> QED
    BY <1>7, <1>8 DEF T, r, b

\* A fence ends the block, and what is left of it is the beginning of the text behind.
LEMMA BlockEnds ==
    ASSUME NEW tokens \in Seq(Tokens), NEW pieces, NEW text, NEW opening \in Openings, NEW held,
           NEW j \in 1 .. Len(tokens), tokens[j] \in Fences,
           Reading(tokens)[j - 1] = Within(pieces, text, opening, held)
    PROVE  Reading(tokens)[j]
               = Between(pieces \o MarkdownPart(text) \o <<Part(opening, Trimmed(held))>>,
                         Slice(tokens, j, j))
<1> DEFINE more == pieces \o MarkdownPart(text) \o <<Part(opening, Trimmed(held))>>
           s == Within(pieces, text, opening, held)
           token == tokens[j]
           left == IF token = "fence" THEN <<>> ELSE <<"text">>
<1>1. Len(tokens) \in Nat /\ j \in Nat /\ j > 0 /\ j \in 0 .. Len(tokens)
      /\ j \in j .. Len(tokens)
    OBVIOUS
<1>2. Reading(tokens)[j] = Read(s, token)
    BY ReadingIs
<1>3. token \in Fences /\ opening # "markdown"
    BY DEF Openings
<1>4. /\ s.pieces = pieces /\ s.in = opening /\ s.held = held /\ s.text = text
    BY DEF Within
<1>5. s.pieces \o MarkdownPart(s.text) \o <<Part(s.in, Trimmed(s.held))>> = more
    BY <1>4
<1> HIDE DEF s, more, token
<1>6. Read(s, token) = Between(more, left)
    BY <1>3, <1>4, <1>5 DEF Read, Between
<1>7. token \in Openings <=> token # "fence"
    BY <1>3 DEF Fences, Openings
<1>8. Slice(tokens, j, j) = left \o SubSeq(tokens, j + 1, j)
    BY <1>1, <1>7 DEF Slice, token
<1>9. SubSeq(tokens, j + 1, j) = <<>>
    BY <1>1, SubSeqEmpty
<1>10. left \in Seq(Tokens)
    <2>1. <<"text">> \in Seq(Tokens) /\ <<>> \in Seq(Tokens)
        BY DEF Tokens
    <2> QED
        BY <2>1
<1> HIDE DEF left
<1>11. Slice(tokens, j, j) = left
    BY <1>8, <1>9, <1>10, ConcatEmptySeq
<1> QED
    BY <1>2, <1>6, <1>11 DEF s, more, token

\* The search and the reader agree whenever the search has found a block: the search's parts
\* are the reader's pieces, and the reader is behind the block.
LEMMA SearchKeepsUp ==
    ASSUME NEW tokens \in Seq(Tokens), NEW n \in 0 .. Len(tokens)
    PROVE  LET s == Matches(tokens)[n]
           IN  /\ Reading(tokens)[s.last] = Between(s.parts, Slice(tokens, s.last, s.last))
               /\ s.last >= n \/ Blocks(tokens, s.last) = {}
               /\ s.last = 0 \/ s.parts # <<>>
<1> DEFINE N == Len(tokens)
           r == Reading(tokens)
           m == Matches(tokens)
           Agrees(s) == r[s.last] = Between(s.parts, Slice(tokens, s.last, s.last))
           Found(s, k) == s.last >= k \/ Blocks(tokens, s.last) = {}
           Some(s) == s.last = 0 \/ s.parts # <<>>
           T == {k \in Nat : Agrees(m[k]) /\ Found(m[k], k) /\ Some(m[k])}
<1>1. N \in Nat
    OBVIOUS
<1>2. /\ m \in [0 .. N -> MatchStates(tokens)]
      /\ m[0] = [parts |-> <<>>, last |-> 0]
      /\ \A k \in 1 .. N : m[k] = Matched(tokens, m[k - 1])
    BY MatchesAre
<1>3. r[0] = Between(<<>>, <<>>)
    BY ReadingIs DEF Between
<1> HIDE DEF m, r
<1>4. 0 \in T
    <2>1. Slice(tokens, 0, 0) = <<>>
        <3>1. SubSeq(tokens, 0 + 1, 0) = <<>>
            BY SubSeqEmpty
        <3>2. <<>> \o <<>> = <<>>
            OBVIOUS
        <3> QED
            BY <3>1, <3>2 DEF Slice
    <2>2. m[0].parts = <<>> /\ m[0].last = 0
        BY <1>2
    <2> QED
        BY <1>3, <2>1, <2>2
<1>5. ASSUME NEW k \in 1 .. N, k - 1 \in T PROVE k \in T
    <2> DEFINE s == m[k - 1]
               t == m[k]
    <2>1. Agrees(s) /\ Found(s, k - 1) /\ Some(s)
        BY <1>5
    <2>2. s \in MatchStates(tokens) /\ t = Matched(tokens, s) /\ k - 1 \in Nat
        <3>1. k - 1 \in 0 .. N
            BY <1>1
        <3> QED
            BY <1>2, <3>1
    <2> SUFFICES Agrees(t) /\ Found(t, k) /\ Some(t)
        BY <1>1
    <2> HIDE DEF s, t, T
    <2>3. CASE Blocks(tokens, s.last) = {}
        <3>1. t = s
            BY <2>2, <2>3 DEF Matched
        <3> QED
            BY <2>1, <2>3, <3>1
    <2>4. CASE Blocks(tokens, s.last) # {}
        <3>1. s.last \in 0 .. N /\ s.parts \in Seq(Pieces)
            BY <2>2 DEF MatchStates
        <3>2. PICK i, j \in 1 .. Len(tokens) :
              /\ s.last < i /\ i < j
              /\ tokens[i] \in Openings
              /\ \A l \in s.last + 1 .. i - 1 : tokens[l] \notin Openings
              /\ tokens[j] \in Fences /\ \A l \in i + 1 .. j - 1 : tokens[l] \notin Fences
              /\ t.last = j
              /\ t.parts = s.parts \o MarkdownPart(Slice(tokens, s.last, i - 1))
                     \o <<Part(tokens[i], Trimmed(SubSeq(tokens, i + 1, j - 1)))>>
              /\ t.parts # <<>>
            BY <2>2, <2>4, MatchedIs
        <3> DEFINE last == s.last
                   parts == s.parts
        <3>3. i - 1 \in last .. Len(tokens) /\ j - 1 \in i .. Len(tokens)
            BY <3>1, <3>2
        <3>4. r[i - 1] = Between(parts, Slice(tokens, last, i - 1))
            <4>1. r[last] = Between(parts, Slice(tokens, last, last))
                BY <2>1
            <4>2. \A l \in last + 1 .. i - 1 : tokens[l] \notin Openings
                BY <3>2
            <4>3. last \in 0 .. Len(tokens) /\ parts \in Seq(Pieces)
                BY <3>1
            <4> HIDE DEF last, parts
            <4> QED
                BY <3>3, <4>1, <4>2, <4>3, TextIsRead DEF r
        <3> DEFINE text == Slice(tokens, last, i - 1)
                   held == SubSeq(tokens, i + 1, j - 1)
        <3>5. r[j - 1] = Within(parts, text, tokens[i], held)
            <4> HIDE DEF text, parts
            <4> QED
                BY <3>2, <3>3, <3>4, BlockIsRead, SMTT(30) DEF r, text
        <3>6. r[j] = Between(parts \o MarkdownPart(text) \o <<Part(tokens[i], Trimmed(held))>>,
                             Slice(tokens, j, j))
            <4> HIDE DEF text, parts, held
            <4> QED
                BY <3>2, <3>5, BlockEnds DEF r
        <3>7. Agrees(t)
            BY <3>2, <3>6
        <3>8. t.last >= k
            <4>1. s.last >= k - 1
                BY <2>1, <2>4
            <4> QED
                BY <1>1, <3>1, <3>2, <4>1
        <3> QED
            BY <3>2, <3>7, <3>8
    <2> QED
        BY <2>3, <2>4
<1> HIDE DEF T
<1>6. n \in T
    BY <1>1, <1>4, <1>5, InductionTo
<1> QED
    BY <1>6 DEF T, m, r

\* Where there are no more blocks, the rest of the document is text, with an opening that
\* is not closed and what follows it.
LEMMA RestIsText ==
    ASSUME NEW tokens \in Seq(Tokens), NEW pieces \in Seq(Pieces), NEW last \in 0 .. Len(tokens),
           Reading(tokens)[last] = Between(pieces, Slice(tokens, last, last)),
           Blocks(tokens, last) = {}
    PROVE  LET end == Reading(tokens)[Len(tokens)]
           IN  /\ end.pieces = pieces
               /\ (IF end.in = "markdown" THEN end.text ELSE end.text \o <<end.in>> \o end.held)
                      = Slice(tokens, last, Len(tokens))
<1> DEFINE N == Len(tokens)
           r == Reading(tokens)
           openings == {k \in last + 1 .. N : tokens[k] \in Openings}
<1>1. N \in Nat /\ last \in Nat /\ last <= N /\ N \in last .. N
    OBVIOUS
<1>2. CASE openings = {}
    <2>1. \A k \in last + 1 .. N : tokens[k] \notin Openings
        BY <1>2
    <2>2. r[N] = Between(pieces, Slice(tokens, last, N))
        BY <1>1, <2>1, TextIsRead
    <2> QED
        BY <2>2 DEF Between
<1>3. CASE openings # {}
    <2> DEFINE i == Min(openings)
    <2>1. i \in openings /\ \A y \in openings : i <= y
        <3>1. openings \in SUBSET Nat
            BY <1>1
        <3> HIDE DEF openings
        <3> QED
            BY <1>3, <3>1, LeastElement
    <2> HIDE DEF i
    <2>2. i \in last + 1 .. N /\ tokens[i] \in Openings
        BY <2>1
    <2>3. ASSUME NEW k \in last + 1 .. i - 1 PROVE tokens[k] \notin Openings
        <3> SUFFICES ASSUME tokens[k] \in Openings PROVE FALSE
            OBVIOUS
        <3>1. k \in openings /\ k < i
            BY <1>1, <2>2
        <3> QED
            BY <1>1, <2>1, <2>2, <3>1
    <2>4. ASSUME NEW k \in i + 1 .. N PROVE tokens[k] \notin Fences
        <3> SUFFICES ASSUME tokens[k] \in Fences PROVE FALSE
            OBVIOUS
        <3>1. i \in Blocks(tokens, last)
            BY <2>2 DEF Blocks
        <3> QED
            BY <3>1
    <2> DEFINE b == tokens[i]
               text == Slice(tokens, last, i - 1)
               held == SubSeq(tokens, i + 1, N)
    <2>5. i - 1 \in last .. N - 1 /\ i \in 1 .. N /\ N \in i .. N /\ i \in 0 .. N
          /\ i \in last .. N
          /\ (i - 1) + 1 = i /\ i - 1 \in last .. N
        BY <1>1, <2>2
    <2>6. r[i - 1] = Between(pieces, text)
        BY <2>3, <2>5, TextIsRead
    <2>7. r[N] = Within(pieces, text, b, held)
        <3> HIDE DEF text
        <3> QED
            BY <2>2, <2>4, <2>5, <2>6, BlockIsRead
    <2>8. text \o <<b>> \o held = Slice(tokens, last, N)
        <3> DEFINE left == IF last > 0 /\ tokens[last] \in Openings THEN <<"text">> ELSE <<>>
                   s == SubSeq(tokens, last + 1, i)
        <3>1. /\ text \in Seq(Tokens) /\ held \in Seq(Tokens) /\ b \in Tokens /\ s \in Seq(Tokens)
              /\ Slice(tokens, last, i) \in Seq(Tokens)
            <4>1. b \in Tokens
                BY <2>2 DEF Tokens, Fences
            <4> QED
                BY <2>5, <4>1, SliceIs
        <3>2. Slice(tokens, last, i) = Append(text, b)
            BY <2>5, SliceOn
        <3>3. left \in Seq(Tokens)
            <4>1. <<"text">> \in Seq(Tokens) /\ <<>> \in Seq(Tokens)
                BY DEF Tokens
            <4> QED
                BY <4>1
        <3>4. s \o held = SubSeq(tokens, last + 1, N)
            <4>1. last + 1 \in 1 .. Len(tokens) + 1 /\ i \in (last + 1) - 1 .. Len(tokens)
                  /\ N \in i .. Len(tokens)
                BY <1>1, <2>5
            <4> QED
                BY <4>1, ConcatAdjacentSubSeq
        <3>5. Slice(tokens, last, i) = left \o s /\ Slice(tokens, last, N) = left \o (s \o held)
            BY <3>4 DEF Slice
        <3> HIDE DEF text, held, b, s, left
        <3>6. text \o <<b>> = Append(text, b)
            BY <3>1
        <3>7. (left \o s) \o held = left \o (s \o held)
            <4>1. left \in Seq(Tokens) /\ s \in Seq(Tokens) /\ held \in Seq(Tokens)
                BY <3>1, <3>3
            <4> QED
                BY ONLY <4>1, ConcatMoves, SMTT(30)
        <3> QED
            BY <3>2, <3>5, <3>6, <3>7
    <2>9. b # "markdown"
        BY <2>2 DEF Openings
    <2> HIDE DEF b, text, held
    <2> QED
        BY <2>7, <2>8, <2>9, SMTT(30) DEF Within
<1> QED
    BY <1>2, <1>3

\* parseMarkdownParts cuts a document into what it means.
THEOREM PartsAreMeant ==
    ASSUME NEW tokens \in Seq(Tokens)
    PROVE  parseMarkdownParts(tokens) = Meaning(tokens)
<1> DEFINE N == Len(tokens)
           end == Matches(tokens)[N]
           read == Reading(tokens)[N]
           text == IF read.in = "markdown" THEN read.text ELSE read.text \o <<read.in>> \o read.held
<1>1. N \in Nat /\ N \in 0 .. N
    OBVIOUS
<1>2. end \in MatchStates(tokens)
    BY <1>1, MatchesAre
<1>3. end.last \in 0 .. N /\ end.parts \in Seq(Pieces)
    BY <1>2 DEF MatchStates
<1>4. Reading(tokens)[end.last] = Between(end.parts, Slice(tokens, end.last, end.last))
    BY <1>1, SearchKeepsUp
<1>5. Blocks(tokens, end.last) = {}
    <2>1. end.last >= N \/ Blocks(tokens, end.last) = {}
        BY <1>1, SearchKeepsUp
    <2>2. ASSUME end.last >= N PROVE Blocks(tokens, end.last) = {}
        <3>1. end.last + 1 .. N = {}
            BY <1>1, <1>3, <2>2
        <3> QED
            BY <3>1 DEF Blocks
    <2> QED
        BY <2>1, <2>2
<1> DEFINE last == end.last
           parts == end.parts
<1>6. read.pieces = parts /\ text = Slice(tokens, last, N)
    <2>1. /\ last \in 0 .. Len(tokens) /\ parts \in Seq(Pieces) /\ Blocks(tokens, last) = {}
          /\ Reading(tokens)[last] = Between(parts, Slice(tokens, last, last))
        BY <1>3, <1>4, <1>5
    <2> HIDE DEF last, parts
    <2> QED
        BY <2>1, RestIsText
<1>7. parseMarkdownParts(tokens) = parts \o MarkdownPart(Slice(tokens, last, N))
    BY DEF parseMarkdownParts
<1>8. Meaning(tokens) = read.pieces \o MarkdownPart(text)
    BY DEF Meaning
<1> HIDE DEF last, parts, read, text
<1> QED
    BY <1>6, <1>7, <1>8

\* Where parseMarkdownParts finds nothing, all is blank.
LEMMA NoPartsIfBlank ==
    ASSUME NEW tokens \in Seq(Tokens), parseMarkdownParts(tokens) = <<>>
    PROVE  ~NotBlank(tokens)
<1> DEFINE N == Len(tokens)
           end == Matches(tokens)[N]
           last == end.last
           parts == end.parts
           rest == Slice(tokens, last, N)
<1>1. N \in Nat /\ N \in 0 .. N
    OBVIOUS
<1>2. end \in MatchStates(tokens)
    BY <1>1, MatchesAre
<1>3. last \in 0 .. N /\ parts \in Seq(Pieces)
    BY <1>2 DEF MatchStates
<1>4. last = 0 \/ parts # <<>>
    BY <1>1, SearchKeepsUp
<1>5. parts \o MarkdownPart(rest) = <<>>
    BY DEF parseMarkdownParts
<1> HIDE DEF end
<1>6. N \in last .. N
    BY <1>1, <1>3
<1>7. rest \in Seq(Tokens)
    <2> HIDE DEF last
    <2> QED
        BY <1>3, <1>6, SliceIs
<1>8. MarkdownPart(rest) \in Seq(Pieces)
    <2> HIDE DEF rest
    <2> QED
        BY <1>7, MarkdownPartIs
<1>9. parts = <<>> /\ MarkdownPart(rest) = <<>>
    <2> DEFINE m == MarkdownPart(rest)
    <2>1. parts \in Seq(Pieces) /\ m \in Seq(Pieces) /\ parts \o m = <<>>
        BY <1>3, <1>5, <1>8
    <2> HIDE DEF m, parts
    <2>2. parts = <<>> /\ m = <<>>
        BY ONLY <2>1
    <2> QED
        BY <2>2 DEF m
<1>10. last = 0
    BY <1>4, <1>9
<1>11. rest = tokens
    <2>1. SubSeq(tokens, 1, N) = tokens
        BY SubSeqFull
    <2>2. Slice(tokens, 0, N) = <<>> \o SubSeq(tokens, 0 + 1, N)
        BY DEF Slice
    <2>3. <<>> \o tokens = tokens
        BY ConcatEmptySeq
    <2> QED
        BY <1>10, <2>1, <2>2, <2>3
<1> QED
    BY <1>9, <1>11 DEF MarkdownPart

\* composePrintJob prints what the request means, in its order (lines 621-659).
THEOREM JobPrintsItsPieces ==
    ASSUME NEW tokens \in Seq(Tokens), NEW qr \in BOOLEAN, NEW image \in BOOLEAN
    PROVE  ComposedAsMeant(tokens, qr, image)
<1> DEFINE q == IF qr THEN <<Part("qr", <<"text">>)>> ELSE <<>>
           i == IF image THEN <<Part("image", <<"text">>)>> ELSE <<>>
           parts == parseMarkdownParts(tokens)
           all == <<Part("markdown", tokens)>>
           composed == composePrintJob(tokens, qr, image)
<1>1. parts = Meaning(tokens)
    BY PartsAreMeant
<1>2. q \in Seq(Pieces) /\ i \in Seq(Pieces) /\ all \in Seq(Pieces)
    <2>1. <<"text">> \in Seq(Tokens)
        BY DEF Tokens
    <2>2. "qr" \in Openings /\ "image" \in Openings
        BY DEF Openings
    <2>3. /\ <<Part("qr", <<"text">>)>> \in Seq(Pieces)
          /\ <<Part("image", <<"text">>)>> \in Seq(Pieces)
        BY <2>1, <2>2, PieceIs
    <2>4. all \in Seq(Pieces)
        BY PieceIs
    <2>5. <<>> \in Seq(Pieces)
        OBVIOUS
    <2> QED
        BY <2>3, <2>4, <2>5
<1> HIDE DEF q, i
<1>3. CASE parts = <<>> /\ tokens # <<>>
    <2>1. ~NotBlank(tokens)
        BY <1>3, NoPartsIfBlank
    <2>2. composed = all \o q \o i
        BY <1>3 DEF composePrintJob, q, i
    <2> HIDE DEF all, composed, parts
    <2>3. (all \o q) \o i = all \o ((<<>> \o q) \o i)
        <3>1. <<>> \o q = q
            BY <1>2, ConcatEmptySeq
        <3> QED
            BY <1>2, <3>1, ConcatAssociative
    <2>4. composed = all \o (parts \o q \o i)
        BY <1>3, <2>2, <2>3
    <2> QED
        BY <1>1, <2>1, <2>4 DEF ComposedAsMeant, q, i, all, composed
<1>4. CASE ~(parts = <<>> /\ tokens # <<>>)
    <2>1. composed = parts \o q \o i
        BY <1>4 DEF composePrintJob, q, i
    <2> HIDE DEF composed, parts
    <2> QED
        BY <1>1, <2>1 DEF ComposedAsMeant, q, i, composed
<1> QED
    BY <1>3, <1>4

\* The lesser and the greater of two numbers.
LEMMA OfTwo ==
    ASSUME NEW a \in Int, NEW b \in Int
    PROVE  /\ Min({a, b}) = (IF a <= b THEN a ELSE b)
           /\ Max({a, b}) = (IF a <= b THEN b ELSE a)
<1>1. CASE a <= b
    <2>1. \A x \in {a, b} : (\A y \in {a, b} : x <= y) <=> x = a
        BY <1>1
    <2>2. \A x \in {a, b} : (\A y \in {a, b} : x >= y) <=> x = b
        BY <1>1
    <2> QED
        BY <1>1, <2>1, <2>2 DEF Min, Max
<1>2. CASE ~(a <= b)
    <2>1. \A x \in {a, b} : (\A y \in {a, b} : x <= y) <=> x = b
        BY <1>2
    <2>2. \A x \in {a, b} : (\A y \in {a, b} : x >= y) <=> x = a
        BY <1>2
    <2> QED
        BY <1>2, <2>1, <2>2 DEF Min, Max
<1> QED
    BY <1>1, <1>2

\* encodePreview returns no more than there is nor than its limit, a limit of 0 being taken
\* for 4096, and says truly how much it returns, whatever is asked (lines 735-752).
THEOREM PreviewsAreTrue ==
    ASSUME NEW maxBytes \in Int, NEW length \in Nat
    PROVE  PreviewTrue(maxBytes, length)
<1> DEFINE limit == IF maxBytes = 0 THEN 4096 ELSE maxBytes
           least == Min({limit, length})
           returned == Preview(maxBytes, length)
           taken == LimitTaken(maxBytes)
<1>1. limit \in Int /\ length \in Int
    OBVIOUS
<1>2. returned = Max({0, least})
    BY DEF Preview
<1>3. taken = IF 0 <= limit THEN limit ELSE 0
    BY OfTwo DEF LimitTaken
<1> HIDE DEF limit
<1>4. least = IF limit <= length THEN limit ELSE length
    BY <1>1, OfTwo
<1> HIDE DEF least, returned, taken
<1>5. least \in Int
    BY <1>1, <1>4
<1>6. returned = IF 0 <= least THEN least ELSE 0
    BY <1>2, <1>5, OfTwo
<1>7. /\ returned \in 0 .. length
      /\ returned <= taken
      /\ returned < length => returned = taken
    BY <1>1, <1>3, <1>4, <1>6
<1> DEFINE preview == encodePreview(maxBytes, length)
<1>8. /\ preview.bytes = length /\ preview.returnedBytes = returned
      /\ preview.truncated = (returned < length)
    BY DEF encodePreview, returned
<1> HIDE DEF preview
<1>9. /\ preview.returnedBytes \in 0 .. length
      /\ preview.returnedBytes <= LimitTaken(maxBytes)
      /\ preview.truncated <=> preview.returnedBytes < preview.bytes
      /\ preview.truncated => preview.returnedBytes = LimitTaken(maxBytes)
    BY <1>7, <1>8 DEF taken
<1> QED
    BY <1>9 DEF PreviewTrue, preview

-----------------------------------------------------------------------------
(* The requests.                                                            *)

\* What the server may be asked for, with the parameters of the requests.
Requests ==
    {Nothing}
        \cup [kind : {"wrap"}, words : Paragraphs, limit : Limits]
        \cup [kind : {"table"}, rows : Tables]
        \cup [kind : {"document"}, source : Documents]
        \cup [kind : {"picture"}, picture : Pictures, bandHeight : BandHeights]
        \cup [kind : {"qr"}, length : QrLengths]
        \cup [kind : {"lines"}, lines : Lengths]
        \cup [kind : {"job"}, markdown : Markdowns, qr : BOOLEAN, image : BOOLEAN]
        \cup [kind : {"preview"}, maxBytes : Lengths \cup {-1}, length : Lengths]

\* Nothing else is asked for.
LEMMA RequestsOnly == Spec => [](asked \in Requests)
<1>1. Init => asked \in Requests
    BY DEF Init, Requests
<1>2. asked \in Requests /\ [Next]_asked => (asked \in Requests)'
    <2> SUFFICES ASSUME asked \in Requests, [Next]_asked
                 PROVE  asked' \in Requests
        OBVIOUS
    <2>1. CASE Wrap
        BY <2>1 DEF Wrap, Ask, Requests
    <2>2. CASE LayTable
        BY <2>2 DEF LayTable, Ask, Requests
    <2>3. CASE LayOut
        BY <2>3 DEF LayOut, Ask, Requests
    <2>4. CASE Draw
        BY <2>4 DEF Draw, Ask, Requests
    <2>5. CASE StoreQr
        BY <2>5 DEF StoreQr, Ask, Requests
    <2>6. CASE DrawLines
        BY <2>6 DEF DrawLines, Ask, Requests
    <2>7. CASE Compose
        BY <2>7 DEF Compose, Ask, Requests
    <2>8. CASE ShowPreview
        BY <2>8 DEF ShowPreview, Ask, Requests
    <2>9. CASE Answer
        BY <2>9 DEF Answer, Requests
    <2>10. CASE UNCHANGED asked
        BY <2>10
    <2> QED
        BY <2>1, <2>2, <2>3, <2>4, <2>5, <2>6, <2>7, <2>8, <2>9, <2>10 DEF Next
<1> QED
    BY <1>1, <1>2, PTL DEF Spec

\* wrapText loses no word, keeps to the limit and needs as few lines as possible, whatever
\* it is given (lines 514-530).
THEOREM ParagraphsWrapWell == Spec => []WrapsWell
<1>1. asked \in Requests => WrapsWell
    <2> SUFFICES ASSUME asked \in Requests, asked.kind = "wrap"
                 PROVE  WellWrapped(asked.words, asked.limit)
        BY DEF WrapsWell
    <2>1. asked.words \in Paragraphs /\ asked.limit \in Limits
        BY DEF Requests, Nothing
    <2>2. asked.words \in Seq(Nat) /\ asked.limit \in Nat
        BY <2>1, RequestAssumption
    <2> QED
        BY <2>2, ParagraphWrapsWell
<1> QED
    BY <1>1, RequestsOnly, PTL

\* tableToLines cuts the longest columns of a table alike and no more than needed, whatever
\* its rows (lines 532-553).
THEOREM TablesCutFairly == Spec => []CutsFairly
<1>1. asked \in Requests => CutsFairly
    <2> SUFFICES ASSUME asked \in Requests, asked.kind = "table", DataRows(asked.rows) # <<>>
                 PROVE  FairlyCut(asked.rows)
        BY DEF CutsFairly
    <2>1. asked.rows \in Tables
        BY DEF Requests, Nothing
    <2>2. asked.rows \in Seq(TableRows)
        BY <2>1, RequestAssumption
    <2> QED
        BY <2>2, TableCutsFairly
<1> QED
    BY <1>1, RequestsOnly, PTL

\* markdownToTextLines prints what any document holds, in its order and on the paper
\* (lines 555-600).
THEOREM DocumentsLaidOutWell == Spec => []LaysOutWell
<1>1. asked \in Requests => LaysOutWell
    <2> SUFFICES ASSUME asked \in Requests, asked.kind = "document"
                 PROVE  WellLaidOut(asked.source)
        BY DEF LaysOutWell
    <2>1. asked.source \in Documents
        BY DEF Requests, Nothing
    <2>2. asked.source \in Seq(SourceLine)
        BY <2>1, RequestAssumption
    <2> QED
        BY <2>2, DocumentIsWellLaidOut
<1> QED
    BY <1>1, RequestsOnly, PTL

\* The printer prints the dots of every picture in their places, takes all data of every QR
\* code, and finds every line of text inside the picture.
THEOREM CommandsRead == Spec => []CommandsAreRead
<1>1. asked \in Requests => CommandsAreRead
    <2> SUFFICES ASSUME asked \in Requests PROVE CommandsAreRead
        OBVIOUS
    <2>1. ASSUME asked.kind = "picture"
          PROVE  PicturePrinted(asked.picture, asked.bandHeight)
        <3>1. asked.picture \in Pictures /\ asked.bandHeight \in BandHeights
            BY <2>1 DEF Requests, Nothing
        <3>2. PICK picture \in Pictures : picture = asked.picture
            BY <3>1
        <3>3. /\ picture = Picture(picture.width, picture.height, picture.dark)
              /\ picture.width \in Width16 /\ picture.height \in Nat \ {0}
              /\ picture.dark \in SUBSET ((0 .. picture.width - 1) \X (0 .. picture.height - 1))
              /\ asked.bandHeight \in Height16
            BY <3>1, RequestAssumption
        <3>4. PicturePrinted(Picture(picture.width, picture.height, picture.dark),
                             asked.bandHeight)
            BY <3>3, PicturesArePrinted
        <3> QED
            BY <3>2, <3>3, <3>4
    <2>2. ASSUME asked.kind = "qr" PROVE QrDataRead(asked.length)
        <3>1. asked.length \in QrLengths
            BY <2>2 DEF Requests, Nothing
        <3>2. asked.length \in Nat /\ asked.length + 3 \in Word16
            BY <3>1, RequestAssumption DEF StoreLength
        <3> QED
            BY <3>2, QrDataIsRead
    <2>3. ASSUME asked.kind = "lines" PROVE LinesInside(asked.lines)
        <3>1. asked.lines \in Lengths
            BY <2>3 DEF Requests, Nothing
        <3>2. asked.lines \in Nat
            BY <3>1, RequestAssumption
        <3> QED
            BY <3>2, LinesAreInside
    <2> QED
        BY <2>1, <2>2, <2>3 DEF CommandsAreRead
<1> QED
    BY <1>1, RequestsOnly, PTL

\* A print job prints the pieces of any markdown in their order, then the request's QR code
\* and image; a preview returns no more than the limit that encodePreview takes, which is the
\* one asked for but for 0, taken for 4096, and says truly whether something is missing.
THEOREM JobsAreAsMeant == Spec => []JobIsAsMeant
<1>1. asked \in Requests => JobIsAsMeant
    <2> SUFFICES ASSUME asked \in Requests PROVE JobIsAsMeant
        OBVIOUS
    <2>1. ASSUME asked.kind = "job"
          PROVE  ComposedAsMeant(asked.markdown, asked.qr, asked.image)
        <3>1. asked.markdown \in Markdowns /\ asked.qr \in BOOLEAN /\ asked.image \in BOOLEAN
            BY <2>1 DEF Requests, Nothing
        <3>2. asked.markdown \in Seq(Tokens)
            BY <3>1, RequestAssumption
        <3> QED
            BY <3>1, <3>2, JobPrintsItsPieces
    <2>2. ASSUME asked.kind = "preview" PROVE PreviewTrue(asked.maxBytes, asked.length)
        <3>1. asked.maxBytes \in Lengths \cup {-1} /\ asked.length \in Lengths
            BY <2>2 DEF Requests, Nothing
        <3>2. Lengths \subseteq Nat
            BY RequestAssumption
        <3>3. \A bytes \in Lengths \cup {-1} : bytes \in Int
            BY <3>2
        <3>4. asked.maxBytes \in Int /\ asked.length \in Nat
            BY <3>1, <3>2, <3>3, Zenon
        <3> QED
            BY <3>4, PreviewsAreTrue
    <2> QED
        BY <2>1, <2>2 DEF JobIsAsMeant
<1> QED
    BY <1>1, RequestsOnly, PTL
=============================================================================
