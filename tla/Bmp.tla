-------------------------------- MODULE Bmp --------------------------------
(***************************************************************************)
(* static/coding/bmp.c: copies a bitmap of 24 bits a pixel, pixel by       *)
(* pixel, through a buffer.  In the input every row is padded to a         *)
(* multiple of four bytes.  Positions count the bytes after the header; the *)
(* input is as long as its header says.                                    *)
(***************************************************************************)
EXTENDS Integers

\* Definitions named <Action>_<Bug> are not part of the program: each is the
\* definition that follows it with a plausible slip, and a check must catch it.

CONSTANTS
  BmpMaxWidth, BmpMaxHeight,  \* bounds; two bytes of the header each
  BmpWord                     \* the size of the machine's address arithmetic

ASSUME BmpAssumption == BmpMaxWidth \in Nat /\ BmpMaxHeight \in Nat /\ BmpWord \in Nat \ {0}

VARIABLES
  ImgWidth, ImgHeight,
  bmpPc, bmpRow, bmpCol,    \* label; i and j
  bmpIn, bmpOut,            \* bytes read and written
  bmpStored                 \* the buffer index stored last, -1 if none

bmpVars == <<ImgWidth, ImgHeight, bmpPc, bmpRow, bmpCol, bmpIn, bmpOut, bmpStored>>

\* p, and what is skipped after a row.
Pad_Remainder(w) == (w * 3) % 4
Pad(w) == LET p == (w * 3) % 4 IN IF p # 0 THEN 4 - p ELSE 0

\* malloc's argument.
BuffSize == (ImgWidth * ImgHeight * 3) % BmpWord

BmpInit ==
  /\ ImgWidth \in 0..BmpMaxWidth /\ ImgHeight \in 0..BmpMaxHeight
  /\ bmpPc = "malloc"
  /\ bmpRow = 0 /\ bmpCol = 0 /\ bmpIn = 0 /\ bmpOut = 0 /\ bmpStored = -1

BmpMalloc ==
  /\ bmpPc = "malloc" /\ bmpPc' \in {"row", "end"}
  /\ UNCHANGED <<ImgWidth, ImgHeight, bmpRow, bmpCol, bmpIn, bmpOut, bmpStored>>

BmpPixel_LongRows ==
  /\ bmpPc = "row" /\ bmpRow < ImgHeight /\ bmpCol <= ImgWidth
  /\ bmpIn' = bmpIn + 3 /\ bmpOut' = bmpOut + 3
  /\ bmpStored' = bmpRow * ImgWidth * 3 + bmpCol * 3 + 2
  /\ bmpCol' = bmpCol + 1
  /\ UNCHANGED <<ImgWidth, ImgHeight, bmpPc, bmpRow>>

\* Three bytes are read, stored, changed or not, and written.
BmpPixel ==
  /\ bmpPc = "row" /\ bmpRow < ImgHeight /\ bmpCol < ImgWidth
  /\ bmpIn' = bmpIn + 3 /\ bmpOut' = bmpOut + 3
  /\ bmpStored' = bmpRow * ImgWidth * 3 + bmpCol * 3 + 2
  /\ bmpCol' = bmpCol + 1
  /\ UNCHANGED <<ImgWidth, ImgHeight, bmpPc, bmpRow>>

\* The padding is read; it is not written.
BmpRowEnd ==
  /\ bmpPc = "row" /\ bmpRow < ImgHeight /\ bmpCol = ImgWidth
  /\ bmpIn' = bmpIn + Pad(ImgWidth)
  /\ bmpRow' = bmpRow + 1 /\ bmpCol' = 0
  /\ UNCHANGED <<ImgWidth, ImgHeight, bmpPc, bmpOut, bmpStored>>

BmpEnd ==
  /\ bmpPc = "row" /\ bmpRow = ImgHeight /\ bmpPc' = "end"
  /\ UNCHANGED <<ImgWidth, ImgHeight, bmpRow, bmpCol, bmpIn, bmpOut, bmpStored>>

BmpNext == BmpMalloc \/ BmpPixel \/ BmpRowEnd \/ BmpEnd
BmpSpec == BmpInit /\ [][BmpNext]_bmpVars

\* The bytes of a row in the file format: a whole number of four-byte words.
RowBytes(w) == 4 * ((3 * w + 3) \div 4)

BmpTypeOK ==
  /\ ImgWidth \in 0..BmpMaxWidth /\ ImgHeight \in 0..BmpMaxHeight
  /\ bmpPc \in {"malloc", "row", "end"}
  /\ bmpRow \in 0..ImgHeight /\ bmpCol \in 0..ImgWidth
  /\ bmpIn \in Nat /\ bmpOut \in Nat /\ bmpStored \in Nat \cup {-1}

\* Each row is read from where the format puts it (58, 77), whatever the
\* width: the padding computed from p makes rows of whole words.
RowsInStep == bmpIn = bmpRow * RowBytes(ImgWidth) + 3 * bmpCol

\* The buffer is never stored to behind its end (61-63), unless its size
\* overflowed (46).
InBuffer == ImgWidth * ImgHeight * 3 < BmpWord => bmpStored < BuffSize \/ bmpStored = -1

\* Pixels are read from and stored at their places: the two properties above.
BmpSound == RowsInStep /\ InBuffer
=============================================================================
