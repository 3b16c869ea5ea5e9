------------------------------ MODULE AlphaKey ------------------------------
(***************************************************************************)
(* How a picture with transparency is drawn on another, without the vector *)
(* routines: raw_frame/draw/CbYCrY8422_alpha_key.cpp on the pictures of    *)
(* the program, and raw_frame/draw/BGRAn8_alpha_key.cpp, BGRAn8_blit.cpp   *)
(* on those of a display.  A pixel is a record of bytes; widths, heights   *)
(* and places are 16 bits wide.                                            *)
(***************************************************************************)
EXTENDS Integers

Byte == 0 .. 255
Coord(n) == n % 65536    \* what is left in a coord_t

(* A key's alpha under the global one, out of 256. *)
key_alpha(a, galpha) == (a * galpha + 511) \div 256

luma(p) == (4096 + 66 * p.r + 129 * p.g + 25 * p.b) \div 256
chroma_b(p) == (32768 - 38 * p.r - 74 * p.g + 112 * p.b) \div 256
chroma_r(p) == (32768 + 112 * p.r - 94 * p.g - 18 * p.b) \div 256

\* One component of the background under one of the key.
mixed(bg, fill, a) == (bg * (255 - a) + fill * a + 256) \div 256

\* Colour and alpha of the chroma: the last pixel, this one twice, the next.
filtered(u, v, w) == (u + 2 * v + w) \div 4

(* One step of the loop: two pixels p0, p1 of the key after the pixel      *)
(* before, all with their alpha a under the global one, on four bytes.     *)
(* The formula is applied when either pixel's alpha is not 0.              *)
key_pair(bg, before, p0, p1) ==
    LET mean == [c \in {"r", "g", "b", "a"} |-> filtered(before[c], p0[c], p1[c])]
    IN  IF p0.a = 0 /\ p1.a = 0 THEN bg
        ELSE [y0 |-> mixed(bg.y0, luma(p0), p0.a),
              y1 |-> mixed(bg.y1, luma(p1), p1.a),
              cb |-> mixed(bg.cb, chroma_b(mean), mean.a),
              cr |-> mixed(bg.cr, chroma_r(mean), mean.a)]

\* The pixels of a line that are keyed: pairs, while the first one is inside.
KeyedPixels(x, bw, kw) ==
    UNION {{x + j, x + j + 1} : j \in {j \in 0 .. kw - 1 : j % 2 = 0 /\ x + j < bw}}

(* Pictures of a display: the alpha is out of 255. *)
BGRA_key(bg, fill, a, galpha) ==
    LET ak == (a * galpha) \div 255 IN (fill * ak + bg * (255 - ak)) \div 255

(* Composition also has an alpha below.  The code counts in floats; here   *)
(* the key's share and the background's are exact, out of 65025, for a key *)
(* alpha a that the global one is already in.                              *)
share(a) == 255 * a
left(ab, a) == ab * (255 - a)
composite(bg, fill, ab, a) ==
    (fill * share(a) + bg * left(ab, a)) \div (share(a) + left(ab, a))
composite_alpha(ab, a) == (share(a) + left(ab, a)) \div 255

(* fixup_width_height, in one direction: first the source, then the        *)
(* destination.                                                            *)
fixup(dst, src, dst_at, src_at, n) ==
    LET inside_src == IF src_at + n > src THEN Coord(src - src_at) ELSE n
    IN  IF dst_at + inside_src > dst THEN Coord(dst - dst_at) ELSE inside_src

(* The vector routine takes four pixels at a time, the rest is left over.  *)
aligned(n) == IF n > 4 THEN (n \div 4) * 4 ELSE 0

\* BGRAn8_blit: pixels copied of a line.
blit_width(x, bw, sw) == IF x + sw > bw THEN bw - x ELSE sw

-----------------------------------------------------------------------------
Samples == {0, 1, 16, 127, 128, 235, 254, 255}
Pixels == [r : {0, 16, 255}, g : {0, 128, 255}, b : {0, 255}]

(* No component leaves its byte, although full alpha is 256 and leaves -1  *)
(* of the background: a full key shows its own colour, one more on a black *)
(* below black.                                                            *)
ASSUME KeyedInByte ==
    /\ \A p \in Pixels : {luma(p), chroma_b(p), chroma_r(p)} \subseteq 16 .. 240
    /\ \A bg \in Samples, fill \in 16 .. 240, a \in Samples, galpha \in Samples :
          mixed(bg, fill, key_alpha(a, galpha)) \in Byte
    /\ \A bg \in Byte, fill \in 16 .. 240 :
          mixed(bg, fill, key_alpha(255, 255)) = IF bg = 0 THEN fill + 1 ELSE fill

(* A transparent key is not left out: its alpha is 1, and the background   *)
(* moves by one at most, towards the key.                                  *)
ASSUME TransparentByOne ==
    \A galpha \in Byte, bg \in Byte, fill \in {16, 128, 240} :
       /\ key_alpha(0, galpha) = 1
       /\ mixed(bg, fill, 1) - bg \in -1 .. 1
       /\ mixed(bg, fill, 1) < bg => fill < bg

(* Keyed in pairs, a line leaves the background by a pixel when the space  *)
(* beside the key is odd and the key is wider, and only then.              *)
ASSUME PairsInside ==
    \A bw \in {6, 7}, x \in 0 .. 7, kw \in 0 .. 9 :
       KeyedPixels(x, bw, kw) \subseteq 0 .. bw - 1
         <=> ~(x < bw /\ (bw - x) % 2 = 1 /\ kw >= bw - x)

(* On a display no component leaves its byte and a transparent key changes *)
(* nothing; a composition is between its two colours, unless both are      *)
(* transparent, where the code divides zero by zero.                       *)
ASSUME DisplayKeyed ==
    \A bg \in Samples, fill \in Samples, a \in Samples, galpha \in Samples :
       /\ BGRA_key(bg, fill, a, galpha) \in Byte
       /\ BGRA_key(bg, fill, 0, galpha) = bg
       /\ BGRA_key(bg, fill, 255, 255) = fill
       /\ \A ab \in {0, 1, 128, 255} :
             share(a) + left(ab, a) > 0 =>
               LET c == composite(bg, fill, ab, a)
               IN  /\ c >= bg \/ c >= fill
                   /\ c <= bg \/ c <= fill
                   /\ composite_alpha(ab, a) \in ab .. 255

(* From an origin inside both pictures the rectangle is cut to both, and   *)
(* is the largest; from an origin outside the width wraps.                 *)
ASSUME CutToBoth ==
    \A dst, src \in 1 .. 9, n \in 0 .. 9 :
       \A dst_at \in 0 .. dst, src_at \in 0 .. src :
          LET w == fixup(dst, src, dst_at, src_at, n)
          IN  /\ w <= n /\ src_at + w <= src /\ dst_at + w <= dst
              /\ w \in {n, src - src_at, dst - dst_at}
              /\ aligned(w) <= w /\ w - aligned(w) <= 4

ASSUME WrapsOutside ==
    \A dst, src \in 1 .. 5, n \in 1 .. 5 :
       /\ fixup(dst, src, 0, src + n, n) > 60000 \/ fixup(dst, src, 0, src + n, n) = dst
       /\ blit_width(dst + n, dst, src) < 0
=============================================================================
