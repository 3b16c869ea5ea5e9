------------------------------ MODULE Upscale ------------------------------
(***************************************************************************)
(* The picture of the analog input (drivers/v4l2_input.cpp): 640 by 480    *)
(* becomes 1920 by 1080, both interlaced.  A byte of the output is         *)
(* described by where it comes from: the input's bytes and their weights   *)
(* in thirds, or nothing.                                                  *)
(***************************************************************************)
EXTENDS Integers, FiniteSets

(* The four samples of a pair of pixels: Cb Y Cr Y. *)
Luma(byte) == byte % 2 = 1

(* upscale_scanline: the byte of the input line a byte of the output line  *)
(* copies, or the two it lies between, as <<byte, weight>>.                *)
upscale_scanline(byte) ==
    IF Luma(byte)
    THEN LET i == (byte - 1) \div 6   k == ((byte - 1) % 6) \div 2 IN
         IF k = 0 THEN {<<2*i + 1, 3>>}
         ELSE IF i < 639 THEN {<<2*i + 1, 3 - k>>, <<2*i + 3, k>>}
         ELSE {}
    ELSE LET i == byte \div 12   k == (byte % 12) \div 4   c == byte % 4 IN
         IF k = 0 THEN {<<4*i + c, 3>>}
         ELSE IF i < 319 THEN {<<4*i + c, 3 - k>>, <<4*i + 4 + c, k>>}
         ELSE {}

(* do_upscale: the input lines of an output line.  180 pairs of lines are  *)
(* copied, from the 60th on, and four lines interpolated after each pair   *)
(* but the last.                                                           *)
do_upscale(line) ==
    LET i == line \div 6   r == line % 6   k == r \div 2   field == r % 2 IN
    IF k = 0 THEN {<<2*i + 60 + field, 3>>}
    ELSE IF i < 179 THEN {<<2*i + 60 + field, 3 - k>>, <<2*i + 62 + field, k>>}
    ELSE {}

Weights(parts) ==
    IF parts = {} THEN 0
    ELSE IF Cardinality(parts) = 1 THEN 3
    ELSE LET p == CHOOSE p \in parts : TRUE
             q == CHOOSE q \in parts \ {p} : TRUE
         IN p[2] + q[2]

-----------------------------------------------------------------------------
(* Every line keeps to its field, reads lines that exist and is a mean of  *)
(* them; only the last four lines are never written.                       *)
ASSUME LinesRight ==
    \A line \in 0 .. 1079 :
       /\ do_upscale(line) = {} <=> line > 1075
       /\ do_upscale(line) # {} => Weights(do_upscale(line)) = 3
       /\ \A part \in do_upscale(line) :
             part[1] \in 0 .. 479 /\ part[1] % 2 = line % 2

(* Every byte reads bytes of its own kind; only the last two pixels' luma  *)
(* and the last two chroma samples of both kinds are never written.        *)
ASSUME BytesRight ==
    \A byte \in 0 .. 3839 :
       /\ upscale_scanline(byte) = {} <=>
             IF Luma(byte) THEN byte > 3835 ELSE byte > 3830
       /\ upscale_scanline(byte) # {} => Weights(upscale_scanline(byte)) = 3
       /\ \A part \in upscale_scanline(byte) :
             /\ part[1] \in 0 .. 1279
             /\ IF Luma(byte) THEN Luma(part[1]) ELSE part[1] % 4 = byte % 4
=============================================================================
