---------------------------- MODULE MjpegIngest ----------------------------
(***************************************************************************)
(* The triggered ingest (replay/replay_mjpeg_ingest.cpp): a child dumps    *)
(* JPEG images when it is told to, a thread reads them from the kernel's   *)
(* pipe into a buffer, cuts out one image at a time, records it and shows  *)
(* it on the monitor port.                                                 *)
(*                                                                         *)
(* A token stands for a byte or more: place 1 to 5 of an image, or a byte  *)
(* after an image (place 0).  The code sees only what Byte says of it, the *)
(* four bytes of the two markers and anything else.                        *)
(***************************************************************************)
EXTENDS Integers, Sequences

CONSTANTS BUFSIZE,       \* in tokens
          KernelRoom,    \* tokens the kernel's pipe holds
          MaxImages      \* bound: images sent

VARIABLES mjpeg,         \* the owner: "new", "uses", "gone"
          camera,        \* the child: "idle", "dumps", "ended"
          sent,          \* the last token it sent
          image_pipe,    \* the kernel's pipe
          ingest,        \* run_thread: "none", "read", "scan", "write", "done",
                         \* "terminated" by an exception nobody catches
          jpegbuf,
          dest,          \* the image cut out last, <<>> before the first
          written        \* the image recorded last, <<>> before the first

vars == <<mjpeg, camera, sent, image_pipe, ingest, jpegbuf, dest, written>>

Token(place, image) == [at |-> place, image |-> image]
Byte(t) == CASE t.at \in {1, 4} -> "ff"
             [] t.at = 2 -> "d8"
             [] t.at = 5 -> "d9"
             [] t.at \in {0, 3} -> "other"
Image(k) == [place \in 1 .. 5 |-> Token(place, k)]

Rest(owner, places) ==
    /\ mjpeg = owner
    /\ camera = "idle"
    /\ \E p \in places : sent = Token(p, 0)
    /\ image_pipe = <<>>
    /\ ingest = "none"
    /\ jpegbuf = <<>>
    /\ dest = <<>>
    /\ written = <<>>

Absent == Rest("gone", {0})
Init == Rest("new", 0 .. 4)   \* the first dump may begin inside an image

-----------------------------------------------------------------------------
(* The child is a program of the operator's: a dump ends after an image.   *)

After(t) ==
    IF t.at \in {0, 5} THEN {Token(0, t.image), Token(1, t.image + 1)}
    ELSE {Token(t.at + 1, t.image)}

Sends ==
    /\ mjpeg = "uses" /\ camera = "dumps"
    /\ Len(image_pipe) < KernelRoom
    /\ sent' \in After(sent)
    /\ sent'.image <= MaxImages
    /\ image_pipe' = Append(image_pipe, sent')
    /\ UNCHANGED <<mjpeg, camera, ingest, jpegbuf, dest, written>>

trigger ==
    /\ mjpeg = "uses" /\ camera = "idle"
    /\ camera' = "dumps"
    /\ UNCHANGED <<mjpeg, sent, image_pipe, ingest, jpegbuf, dest, written>>

DumpEnds ==
    /\ camera = "dumps" /\ sent.at \in {0, 5}
    /\ camera' \in {"idle", "ended"}
    /\ UNCHANGED <<mjpeg, sent, image_pipe, ingest, jpegbuf, dest, written>>

-----------------------------------------------------------------------------
(* The constructor makes the pipes and forks, or throws. *)
Construct ==
    /\ mjpeg = "new"
    /\ \/ mjpeg' = "uses" /\ ingest' = "read"
       \/ mjpeg' = "gone" /\ UNCHANGED ingest
    /\ UNCHANGED <<camera, sent, image_pipe, jpegbuf, dest, written>>

(* The destructor closes the descriptors under the thread, which is not joined. *)
Destruct ==
    /\ mjpeg = "uses"
    /\ mjpeg' = "gone"
    /\ UNCHANGED <<camera, sent, image_pipe, ingest, jpegbuf, dest, written>>

(* read: what there is and fits, the end of the file, or an error thrown. *)
Read ==
    LET room == BUFSIZE - Len(jpegbuf)
        n == IF Len(image_pipe) < room THEN Len(image_pipe) ELSE room
    IN  /\ mjpeg = "uses" /\ image_pipe # <<>>
        /\ jpegbuf' = jpegbuf \o SubSeq(image_pipe, 1, n)
        /\ image_pipe' = SubSeq(image_pipe, n + 1, Len(image_pipe))
        /\ ingest' = "scan"

EndOfFile ==
    /\ mjpeg = "uses" /\ image_pipe = <<>> /\ camera = "ended"
    /\ ingest' = "done"
    /\ UNCHANGED <<image_pipe, jpegbuf>>

ReadError ==
    /\ mjpeg = "gone"
    /\ ingest' = "terminated"
    /\ UNCHANGED <<image_pipe, jpegbuf>>

ReadMore ==
    /\ ingest = "read"
    /\ Read \/ EndOfFile \/ ReadError
    /\ UNCHANGED <<mjpeg, camera, sent, dest, written>>

Marker(i, m) == Byte(jpegbuf[i]) = "ff" /\ Byte(jpegbuf[i + 1]) = m

Places(m) == {i \in 1 .. Len(jpegbuf) - 1 : Marker(i, m)}

\* The last start marker before an end marker, 0 if there is none.
Start(end) ==
    LET before == {i \in Places("d8") : i < end}
    IN  IF before = {} THEN 0 ELSE CHOOSE i \in before : \A j \in before : j <= i

(* Mutant of MoveDown: the byte after the image goes with it. *)
MoveDownTooFar(end) == SubSeq(jpegbuf, end + 3, Len(jpegbuf))

MoveDown(end) == SubSeq(jpegbuf, end + 2, Len(jpegbuf))

(* A full buffer without an end is an error: the exception ends the program. *)
NoEnd ==
    /\ Places("d9") = {}
    /\ ingest' = IF Len(jpegbuf) = BUFSIZE THEN "terminated" ELSE "read"
    /\ UNCHANGED <<jpegbuf, dest>>

(* The first end marker; an end without a start only discards. *)
CutAt(end) ==
    /\ \A i \in Places("d9") : end <= i
    /\ jpegbuf' = MoveDown(end)
    /\ IF Start(end) = 0
       THEN ingest' = "read" /\ UNCHANGED dest
       ELSE ingest' = "write" /\ dest' = SubSeq(jpegbuf, Start(end), end + 1)

Scan ==
    /\ ingest = "scan"
    /\ NoEnd \/ \E end \in Places("d9") : CutAt(end)
    /\ UNCHANGED <<mjpeg, camera, sent, image_pipe, written>>

(* Decode, thumbnail, buf->write_frame, monitor.put; then the next read,   *)
(* also when another whole image is in the buffer already.                 *)
WriteFrame ==
    /\ ingest = "write"
    /\ ingest' = "read"
    /\ written' = dest
    /\ UNCHANGED <<mjpeg, camera, sent, image_pipe, jpegbuf, dest>>

Next ==
    \/ Sends
    \/ trigger
    \/ DumpEnds
    \/ Construct
    \/ Destruct
    \/ ReadMore
    \/ Scan
    \/ WriteFrame

Spec == Init /\ [][Next]_vars

-----------------------------------------------------------------------------
(***************************************************************************)
(* Every image is recorded whole and once, in the order of the dumps, from *)
(* the first one that began after the program did, none left out: however  *)
(* the markers are split between two reads, whatever lies between the      *)
(* images, with the end of an image the first dump began in, and when      *)
(* several images come with one read.                                      *)
(***************************************************************************)
Follows(old, new) ==
    LET k == new[1].image
    IN  /\ new = Image(k)
        /\ old = IF k = 1 THEN <<>> ELSE Image(k - 1)

ImagesRecordedInOrder ==
    [][ingest = "write" /\ ingest' = "read" => Follows(written, dest)]_vars
=============================================================================
