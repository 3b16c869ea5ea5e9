------------------------------ MODULE Overlays ------------------------------
(***************************************************************************)
(* What the multiviewer (replay/replay_multiviewer.cpp) draws on a         *)
(* picture: the waveform or the vectorscope, the names of the source, the  *)
(* timecode.  The text comes from graphics/freetype_font.cpp, the drawing  *)
(* is AlphaKey's.  Which bytes are written is what the code has to get     *)
(* right: nothing checks them.                                             *)
(***************************************************************************)
EXTENDS AlphaKey, Sequences, SequencesExt

Inside(picture) == (0 .. picture.w - 1) \X (0 .. picture.h - 1)

Modes == {"NONE", "WAVEFORM", "VECTORSCOPE"}
change_mode(mode) ==
    CASE mode = "NONE" -> "WAVEFORM"
      [] mode = "WAVEFORM" -> "VECTORSCOPE"
      [] OTHER -> "NONE"

-----------------------------------------------------------------------------
(* The graticules are as large as the two files under assets/.              *)
vector_graticule == [w |-> 256, h |-> 256]
waveform_graticule == [w |-> 260, h |-> 128]

\* render_vector: a pair of pixels is a point of the graticule.
vector_point(cb, cr) == <<cr, 255 - cb>>

\* render_waveform: 240 columns of the picture, the coordinates of each in
\* the picture and in the graticule.
xofs == 20
waveform_columns(w) ==
    LET st == w \div 240 IN {<<xw * st, xofs + xw>> : xw \in {n \in 0 .. 239 : n * st < w}}
waveform_line(y) == 127 - y \div 2

-----------------------------------------------------------------------------
(* render_string.  A glyph is its advance, its kerning with the glyph       *)
(* before it (0 for the first), and the size of its bitmap and how far that *)
(* reaches above the baseline; a font is its height h and its baseline.     *)
Pen(string, n) == FoldLeft(LAMBDA x, g : x + g.kern + g.advance, 0, SubSeq(string, 1, n))

\* The first pass.
text_size(font, string) == [w |-> Pen(string, Len(string)), h |-> font.h]

\* The second: the pixels a glyph is drawn on, cut to the picture above,
\* below and at the right.
glyph_pixels(font, string, i) ==
    LET xd == Pen(string, i - 1) + string[i].kern
        yd == font.baseline - string[i].top
    IN  {<<xd + x, yd + y>> : x \in {x \in 0 .. string[i].width - 1 :
                                        xd + x < text_size(font, string).w},
                              y \in {y \in 0 .. string[i].rows - 1 : yd + y \in 0 .. font.h - 1}}

\* One component: the foreground f on the background b, g of 255.
glyph_mixed(f, b, g) == (f * g + b * (255 - g)) \div 255

-----------------------------------------------------------------------------
(* render_text.  Places go through 16 bits on their way to alpha_key.       *)
Centre(w, text) == w \div 2 - text.w \div 2

\* The name and, in a program or preview, a second one above it.
name_place(picture, text) == <<Centre(picture.w, text), picture.h - text.h>>
name2_place(picture, text, text2) ==
    <<Centre(picture.w, text2), picture.h - text.h - text2.h>>

\* Pixels of the picture under a text.
Under(picture, text, place) ==
    ({n \in 0 .. picture.w - 1 : n - Coord(place[1]) \in 0 .. text.w - 1}) \X
    ({n \in 0 .. picture.h - 1 : n - Coord(place[2]) \in 0 .. text.h - 1})

TIMECODE_FPS == 30
timecode(tc) ==
    LET seconds == tc \div TIMECODE_FPS
        minutes == seconds \div 60
    IN  [frames |-> tc % TIMECODE_FPS, seconds |-> seconds % 60,
         minutes |-> minutes % 60, hours |-> minutes \div 60]

-----------------------------------------------------------------------------
(* The button for the overlay goes through all of them. *)
ASSUME ModesInTurn ==
    \A mode \in Modes : /\ {mode, change_mode(mode), change_mode(change_mode(mode))} = Modes
                        /\ change_mode(change_mode(change_mode(mode))) = mode

(* Whatever the picture, both scopes write inside their graticules and     *)
(* read inside the picture; a picture of 240 pixels or more is read evenly *)
(* up to a rest smaller than 240, a narrower one only in its first column. *)
ASSUME ScopesInside ==
    /\ \A cb, cr \in Byte : vector_point(cb, cr) \in Inside(vector_graticule)
    /\ \A w \in {1, 2, 239, 240, 241, 479, 480, 719, 1920} :
          LET columns == waveform_columns(w)
          IN  /\ \A c \in columns, y \in {0, 1, 128, 254, 255} :
                    /\ c[1] \in 0 .. w - 1
                    /\ <<c[2], waveform_line(y)>> \in Inside(waveform_graticule)
              /\ {c[2] : c \in columns} = 20 .. 259
              /\ {c[1] : c \in columns} =
                    {n \in 0 .. w - 1 : \E k \in 0 .. 239 : n = k * (w \div 240)}

(* As long as the pen stays right of the first column, no glyph is drawn   *)
(* outside of its text, however large its bitmap is; and a component stays *)
(* between the two colours.                                                *)
ASSUME TextInside ==
    LET Glyphs == [advance : {0, 3}, kern : {-1, 0}, width : {0, 5}, rows : {2, 9}, top : {-1, 3, 9}]
        font == [h |-> 5, baseline |-> 4]
    IN  /\ \A g1, g2 \in Glyphs :
             LET string == <<[g1 EXCEPT !.kern = 0], g2>>
             IN  (\A i \in 1 .. 2 : Pen(string, i - 1) + string[i].kern >= 0) =>
                    \A i \in 1 .. 2 :
                       glyph_pixels(font, string, i) \subseteq Inside(text_size(font, string))
        /\ \A f, b \in Samples, g \in Byte :
             glyph_mixed(f, b, g) \in Byte /\ glyph_mixed(f, b, 255) = f /\ glyph_mixed(f, b, 0) = b

(* A name that fits is whole, at the bottom, in the middle within a pixel; *)
(* one that is wider than the picture by two pixels is not drawn at all.   *)
ASSUME NamesPlaced ==
    \A w, tw \in 1 .. 12, th, th2 \in 1 .. 3 :
       LET picture == [w |-> w, h |-> 5]
           text == [w |-> tw, h |-> th]
           text2 == [w |-> tw, h |-> th2]
           under == Under(picture, text, name_place(picture, text))
           under2 == Under(picture, text2, name2_place(picture, text, text2))
           columns == {p[1] : p \in under}
       IN  /\ tw <= w =>
                /\ under = columns \X (5 - th .. 4)
                /\ \E first \in 0 .. w - tw :
                      /\ columns = first .. first + tw - 1
                      /\ (w - tw) - 2 * first \in -1 .. 1
                /\ under2 = IF th + th2 <= 5 THEN columns \X (5 - th - th2 .. 4 - th) ELSE {}
           /\ tw > w + 1 => under = {} /\ under2 = {}

(* The timecode shown is that of the frame, every part in its range. *)
ASSUME TimecodeWhole ==
    \A tc \in 0 .. 4000 \cup {107999, 108000, 10799999, 10800000} :
       LET t == timecode(tc)
       IN  /\ t.frames \in 0 .. 29 /\ {t.seconds, t.minutes} \subseteq 0 .. 59
           /\ ((t.hours * 60 + t.minutes) * 60 + t.seconds) * 30 + t.frames = tc
=============================================================================
