----------------------------- MODULE PixelRange -----------------------------
(***************************************************************************)
(* How a run of pixels travels to a producer: the master turns its first   *)
(* and last pixel into coordinates (Pixel2XYMapper), the producer turns    *)
(* the coordinates into pixels again (ProducePixels).  Row NY - 1 is the   *)
(* first row of the image, coordinates are 16 bits wide.                   *)
(***************************************************************************)
EXTENDS Integers, Sequences, SequencesExt

CONSTANTS
    NX,  \* pixels in a row
    NY   \* rows

ASSUME ImageAssumption == NX \in Nat \ {0} /\ NY \in Nat \ {0}

U16(n) == n % 65536

\* Pixel2XYMapper(NY, NX, px): a row below the image, which has wrapped, is
\* taken for the last one.
X(px) == U16(px % NX)

Y(px) ==
    LET y == U16(NY - (px \div NX + 1))
    IN  IF y > NY THEN 0 ELSE y

\* (variant: the last pixel is the one after the run)
CoordinatesPast(off, cnt) ==
    [startY |-> Y(off + cnt), startX |-> X(off), endY |-> Y(off), endX |-> X(off + cnt)]

\* GenerateWork(startY, startX, endY, endX) for the run of cnt pixels from off.
Coordinates(off, cnt) ==
    [startY |-> Y(off + cnt - 1), startX |-> X(off),
     endY   |-> Y(off),           endX   |-> X(off + cnt - 1)]

\* The columns that are produced of row j.
FirstColumn(c, j) == IF j = c.endY /\ c.startX # 0 THEN c.startX ELSE 0

LastColumn(c, j) == IF j = c.startY /\ c.endX # NX - 1 THEN c.endX ELSE NX - 1

\* The pixels of row j, and of all the rows from the first one downwards.
Row(c, j) ==
    LET from == FirstColumn(c, j)
    IN  [i \in 1 .. LastColumn(c, j) - from + 1 |-> (NY - 1 - j) * NX + from + i - 1]

ProducePixels(c) ==
    FlattenSeq([n \in 1 .. c.endY - c.startY + 1 |-> Row(c, c.endY - n + 1)])

\* The run is produced from its first to its last pixel.
ProducedAsAsked(off, cnt) ==
    ProducePixels(Coordinates(off, cnt)) = [i \in 1 .. cnt |-> off + i - 1]
=============================================================================
