------------------------------ MODULE H264Tcp ------------------------------
(***************************************************************************)
(* The keyer's network input (drivers/h264_tcp_input.cpp): a worker thread *)
(* connects, collects the stream in a buffer of fixed size, cuts it where  *)
(* it finds a start code and the last one it passed is a slice's, decodes  *)
(* what lies before the cut and puts the picture on a pipe.  The           *)
(* connection may fail, time out or end at any moment; the buffer and the  *)
(* scan go on from where they were.                                        *)
(*                                                                         *)
(* The stream is modelled byte by byte: a start code 0 0 1 or 0 0 0 1, the *)
(* byte with the type (a slice, or "ps" for every other type), and "-" for *)
(* the payload, which never looks like a start code.                       *)
(***************************************************************************)
EXTENDS Naturals, Sequences

CONSTANTS PARSE_BUF_SIZE,  \* in bytes
          Slots,           \* pictures that fit in _out_pipe: 31
          MaxRead          \* bound: the bytes one read returns

VARIABLES h264,            \* the adapter's owner
          worker,          \* worker_proc, "none" before start
          worker_running,  \* not set by the constructor
          shutdown, sockfd,
          sending,         \* the rest of the unit the peer is sending
          buf, last_start, buf_scanned,
          stale,           \* leading bytes of buf from an earlier connection
          chunk,           \* what was last decoded, without such bytes
          out_pipe         \* pictures in _out_pipe

stream == <<sending, buf, last_start, buf_scanned, stale, chunk>>
vars == <<h264, worker, worker_running, shutdown, sockfd, stream, out_pipe>>

Types == {"slice", "ps"}
Units == {<<"0", "0", "1", type, "-">> : type \in Types}
           \cup {<<"0", "0", "0", "1", type, "-">> : type \in Types}

Rest(owner, w) ==
    /\ h264 = owner
    /\ worker = w
    /\ worker_running \in BOOLEAN
    /\ shutdown = FALSE /\ sockfd = FALSE
    /\ sending = <<>>
    /\ buf = <<>> /\ last_start = 0 /\ buf_scanned = 0
    /\ stale = 0 /\ chunk = <<>>
    /\ out_pipe = 0

Absent == Rest("gone", "none") /\ worker_running = FALSE
Init == Rest("constructed", "none")

-----------------------------------------------------------------------------
(* The owner.  worker_running has whatever value the memory had: when it   *)
(* is true no thread is started.                                           *)

start ==
    /\ h264 = "constructed"
    /\ h264' = "uses"
    /\ worker' = IF worker_running THEN "none" ELSE "open"
    /\ worker_running' = TRUE
    /\ UNCHANGED <<shutdown, sockfd, stream, out_pipe>>

GetPicture ==
    /\ h264 = "uses"
    /\ out_pipe > 0
    /\ out_pipe' = out_pipe - 1
    /\ UNCHANGED <<h264, worker, worker_running, shutdown, sockfd, stream>>

(* Mutant of Destroy: shutdown is not set. *)
DestroySocketOnly ==
    /\ h264 = "uses"
    /\ h264' = "join"
    /\ sockfd' = FALSE
    /\ UNCHANGED <<worker, worker_running, shutdown, stream, out_pipe>>

(* The destructor closes the socket, not the reading end of the pipe. *)
Destroy ==
    /\ h264 = "uses"
    /\ h264' = "join"
    /\ shutdown' = TRUE
    /\ sockfd' = FALSE
    /\ UNCHANGED <<worker, worker_running, stream, out_pipe>>

join ==
    /\ h264 = "join"
    /\ worker \in {"none", "done"}
    /\ h264' = "gone"
    /\ UNCHANGED <<worker, worker_running, shutdown, sockfd, stream, out_pipe>>

-----------------------------------------------------------------------------
(* worker_proc *)

Worker(from, to) == worker = from /\ worker' = to

(* The loop's test, then a connection if there is none; after a failure it *)
(* sleeps and tries again.                                                 *)
open_socket ==
    /\ \/ shutdown /\ Worker("open", "done") /\ UNCHANGED <<sockfd, sending, stale>>
       \/ ~shutdown /\ sockfd /\ Worker("open", "poll") /\ UNCHANGED <<sockfd, sending, stale>>
       \/ ~shutdown /\ ~sockfd /\ Worker("open", "open") /\ UNCHANGED <<sockfd, sending, stale>>
       \/ /\ ~shutdown /\ ~sockfd /\ Worker("open", "poll")
          /\ sockfd' = TRUE
          /\ sending' = <<>>
          /\ stale' = Len(buf)
    /\ UNCHANGED <<h264, worker_running, shutdown, buf, last_start, buf_scanned,
                   chunk, out_pipe>>

(* Nothing to read for too long, or an error: the connection is dropped. *)
poll ==
    /\ \/ Worker("poll", "read") /\ UNCHANGED sockfd
       \/ Worker("poll", "open") /\ sockfd' = FALSE
    /\ UNCHANGED <<h264, worker_running, shutdown, stream, out_pipe>>

(* The peer sends unit after unit; a read returns at a moment of its own.  *)
(* A full buffer asks for 0 bytes, and the answer looks like the end.      *)
read ==
    /\ \/ /\ Worker("read", "scan")
          /\ sockfd
          /\ \E n \in 1 .. MaxRead, more \in {<<>>} \cup Units :
               LET coming == sending \o more IN
               /\ n <= PARSE_BUF_SIZE - Len(buf)
               /\ more = <<>> <=> n <= Len(sending)
               /\ n <= Len(coming)
               /\ buf' = buf \o SubSeq(coming, 1, n)
               /\ sending' = SubSeq(coming, n + 1, Len(coming))
          /\ UNCHANGED sockfd
       \/ /\ Worker("read", "open")
          /\ sockfd' = FALSE
          /\ UNCHANGED <<buf, sending>>
    /\ UNCHANGED <<h264, worker_running, shutdown, last_start, buf_scanned,
                   stale, chunk, out_pipe>>

(* Offsets count from 0.  A code of four bytes is found twice, at its      *)
(* first byte and at its second.                                           *)
At(offset) == buf[offset + 1]

is_nal_start(nal) ==
    /\ At(nal) = "0" /\ At(nal + 1) = "0"
    /\ At(nal + 2) = "1" \/ (At(nal + 2) = "0" /\ At(nal + 3) = "1")

(* Mutant of nal_type: the type of the unit that begins, not of the last. *)
TypeOfNext(nal) == At(IF At(buf_scanned + 2) = "1" THEN buf_scanned + 3
                                                   ELSE buf_scanned + 4)

nal_type(nal) == At(IF At(nal + 2) = "1" THEN nal + 3 ELSE nal + 4)

(* Types 1 and 5; the byte 1, read as a type in what an earlier connection *)
(* left behind, is a 1 too.                                                *)
SliceTypes == {"slice", "1"}

MoreToScan == buf_scanned + 4 < Len(buf)
CutsHere == is_nal_start(buf_scanned) /\ nal_type(last_start) \in SliceTypes

(* The data after the cut moves to the start, and the scan goes on after   *)
(* its first byte.                                                         *)
Shift ==
    /\ buf' = SubSeq(buf, buf_scanned + 1, Len(buf))
    /\ stale' = IF stale > buf_scanned THEN stale - buf_scanned ELSE 0
    /\ last_start' = 0
    /\ buf_scanned' = 1

ScanEnds ==
    /\ Worker("scan", "open")
    /\ ~MoreToScan
    /\ UNCHANGED <<h264, worker_running, shutdown, sockfd, stream, out_pipe>>

ScanOver ==
    /\ Worker("scan", "scan")
    /\ MoreToScan /\ ~CutsHere
    /\ last_start' = IF is_nal_start(buf_scanned) THEN buf_scanned ELSE last_start
    /\ buf_scanned' = buf_scanned + 1
    /\ UNCHANGED <<h264, worker_running, shutdown, sockfd, sending, buf, stale,
                   chunk, out_pipe>>

(* The decoder may want more before it has a picture. *)
decode_and_send ==
    /\ worker = "scan"
    /\ MoreToScan /\ CutsHere
    /\ chunk' = SubSeq(buf, stale + 1, buf_scanned)
    /\ \/ worker' = "put" /\ UNCHANGED <<buf, stale, last_start, buf_scanned>>
       \/ worker' = "scan" /\ Shift
    /\ UNCHANGED <<h264, worker_running, shutdown, sockfd, sending, out_pipe>>

put ==
    /\ Worker("put", "scan")
    /\ out_pipe < Slots
    /\ out_pipe' = out_pipe + 1
    /\ Shift
    /\ UNCHANGED <<h264, worker_running, shutdown, sockfd, sending, chunk>>

WorkerSteps ==
    \/ open_socket
    \/ poll
    \/ read
    \/ ScanEnds
    \/ ScanOver
    \/ decode_and_send
    \/ put

Next == start \/ GetPicture \/ Destroy \/ join \/ WorkerSteps

Spec == Init /\ [][Next]_vars

(* The worker and a destructor that began run on. *)
Fairness == WF_vars(WorkerSteps) /\ WF_vars(join)

-----------------------------------------------------------------------------
(***************************************************************************)
(* No unit is torn but for one byte: of what came over one connection,     *)
(* every chunk given to the decoder is a sequence of whole units, in which *)
(* a slice comes last, and a chunk that does not end in a slice ends in    *)
(* one zero, which the scan cut off from the start code of the next unit.  *)
(* So it is however the stream was split into reads, when the pipe made    *)
(* the worker wait, and after any number of reconnections.                 *)
(***************************************************************************)
SlicesWhole ==
    LET n == Len(chunk) IN
    /\ \A i \in 1 .. n :
         /\ chunk[i] = "1" => /\ i > 2 /\ chunk[i-2] = "0" /\ chunk[i-1] = "0"
                             /\ i < n /\ chunk[i+1] \in Types
         /\ chunk[i] \in Types => /\ i > 1 /\ chunk[i-1] = "1"
                                  /\ i < n /\ chunk[i+1] = "-"
         /\ chunk[i] = "slice" => i = n - 1
    /\ n > 0 => \/ /\ n > 1
                  /\ chunk[n] = "-" /\ chunk[n-1] = "slice"
               \/ /\ chunk[n] = "0"
                  /\ n = 1 \/ chunk[n-1] = "-"

(***************************************************************************)
(* "Accept coded frames split up by the worker thread, decode them"        *)
(* (h264_tcp_input.cpp:306-307): what is decoded has a slice in it.  It    *)
(* does not hold: in front of a slice whose start code has four bytes the  *)
(* code is found again at its second byte, when the last one passed is     *)
(* the slice's own.                                                        *)
(***************************************************************************)
CodedFramesDecoded == chunk # <<>> => \E i \in 1 .. Len(chunk) : chunk[i] = "slice"

(***************************************************************************)
(* An adapter that is deleted is deleted to the end, whatever its worker   *)
(* was doing: connecting, waiting for data or scanning.  The exception is  *)
(* a worker asleep in put, which nothing wakes.                            *)
(***************************************************************************)
WorkerStops == h264 = "join" ~> h264 = "gone" \/ (worker = "put" /\ out_pipe = Slots)
=============================================================================
