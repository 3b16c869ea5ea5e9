---------------------------- MODULE ReplayBuffer ----------------------------
(***************************************************************************)
(* The replay buffers (replay/replay_buffer.cpp, replay_buffer_index.cpp,  *)
(* common/block_set.cpp): per camera a file of frame records that only     *)
(* grows and an index in memory.  The camera's ingest thread appends a     *)
(* record to the file and then publishes it in the index; any thread reads *)
(* frames through the index, without a lock; the operator's thread aligns  *)
(* a shot of one camera with another camera by timestamp; and the offline  *)
(* converters (replay_buffer_to_mjpeg.cpp) walk a file from its beginning. *)
(*                                                                         *)
(* A record is a run of cells: one for the block headers, which tell the   *)
(* record's length, then the blocks' data.  An exception in the ingest     *)
(* thread (a full disk, a full index), as any crash, takes the whole       *)
(* program down; the files stay, and the next run of the program writes    *)
(* over them from offset 0 without truncating.                             *)
(***************************************************************************)
EXTENDS ReplayBufferIndex, FiniteSets, Sequences

CONSTANTS Setups,         \* the systems to look at, see below
          DiskSize        \* cells the disk has for a file

ASSUME BufferAssumption ==
    /\ \A s \in Setups : /\ s.sizes \subseteq Nat \ {0, 1}
                         /\ {s.frames, s.clock, s.sessions} \subseteq Nat
    /\ DiskSize \in Nat

VARIABLES
    setup,             \* which of the systems this one is
    clock,             \* clock_monotonic_msec
    session,           \* which run of the program this is
    file,              \* per buffer, its cells; Hole beyond the end
    offset,            \* the file offset of the ingest's descriptor
    n_bytes_written, n_frames_written, data,   \* the index
    wpc, wsize,        \* the ingest thread in write_frame, its record's length
    (* who reads: a thread that reads a frame or aligns a shot, or a converter; *)
    (* they change nothing that others see, so one at a time shows them all.    *)
    converts,          \* it is a converter
    rpc, rbuf,
    rframe, rstart, rsize, rgot,   \* the frame it reads
    rwritten,          \* frames published when it came
    rstamp, rfirst, rlast, rresult \* the search for a time stamp

index == <<n_bytes_written, n_frames_written, data>>
ingest == <<session, file, offset, index, wpc, wsize>>
record == <<rframe, rstart, rsize, rgot>>
search == <<rstamp, rfirst, rlast, rresult>>
reader == <<converts, rpc, rbuf, record, rwritten, search>>
vars == <<setup, clock, ingest, reader>>

Buffers == setup.buffers          \* the cameras' buffers
Sizes == setup.sizes              \* record lengths, in cells (header included)
n_frames_total == setup.frames    \* entries of the index
MaxClock == setup.clock           \* bound: the clock stops there
MaxSessions == setup.sessions     \* bound: runs of the program

Frames == 0 .. n_frames_total - 1
Offsets == 0 .. DiskSize - 1

Hole == [session |-> 0, frame |-> -1, part |-> 0, size |-> 0]
Cell(s, f, k, n) == [session |-> s, frame |-> f, part |-> k, size |-> n]
IsHeader(c) == c.part = 1

NoEntry == [start |-> 0, timestamp |-> 0]

(* The reader's locals go out of scope; the model forgets their values. *)
NoReader ==
    /\ converts' = FALSE
    /\ rpc' = "idle"
    /\ rframe' = 0 /\ rstart' = 0 /\ rsize' = 0 /\ rgot' = {}
    /\ rwritten' = 0
    /\ rstamp' = 0 /\ rfirst' = 0 /\ rlast' = 0 /\ rresult' = 0
    /\ UNCHANGED rbuf

(* A thread goes down with the program.  A converter goes on: what it was  *)
(* promised is being written over.                                         *)
ReaderAfterCrash ==
    IF converts
    THEN rwritten' = 0 /\ UNCHANGED <<converts, rpc, rbuf, record, search>>
    ELSE NoReader

Init ==
    /\ setup \in Setups
    /\ clock = 1
    /\ session = 1
    /\ file = [b \in Buffers |-> [o \in Offsets |-> Hole]]
    /\ offset = [b \in Buffers |-> 0]
    /\ n_bytes_written = [b \in Buffers |-> 0]
    /\ n_frames_written = [b \in Buffers |-> 0]
    /\ data = [b \in Buffers |-> [f \in Frames |-> NoEntry]]
    /\ wpc = [b \in Buffers |-> "idle"]
    /\ wsize = [b \in Buffers |-> 0]
    /\ converts = FALSE
    /\ rpc = "idle"
    /\ rbuf \in Buffers
    /\ rframe = 0 /\ rstart = 0 /\ rsize = 0 /\ rgot = {}
    /\ rwritten = 0
    /\ rstamp = 0 /\ rfirst = 0 /\ rlast = 0 /\ rresult = 0

Tick ==
    /\ clock < MaxClock
    /\ clock' = clock + 1
    /\ UNCHANGED <<ingest, reader>>

-----------------------------------------------------------------------------
(* The ingest thread: write_frame, write_blockset, BlockSet::write_all,    *)
(* then mark_frame.                                                        *)

(* Mutant of Restart: the file is opened for appending. *)
RestartAppends ==
    /\ session < MaxSessions
    /\ session' = session + 1
    /\ n_bytes_written' = [b \in Buffers |-> 0]
    /\ n_frames_written' = [b \in Buffers |-> 0]
    /\ data' = [b \in Buffers |-> [f \in Frames |-> NoEntry]]
    /\ wpc' = [b \in Buffers |-> "idle"]
    /\ wsize' = [b \in Buffers |-> 0]
    /\ ReaderAfterCrash
    /\ UNCHANGED <<clock, file, offset>>

(* The program went down, anywhere, or because write_all or mark_frame     *)
(* threw, and starts anew: a fresh index, the descriptor at offset 0.      *)
Restart ==
    /\ session < MaxSessions
    /\ session' = session + 1
    /\ offset' = [b \in Buffers |-> 0]
    /\ n_bytes_written' = [b \in Buffers |-> 0]
    /\ n_frames_written' = [b \in Buffers |-> 0]
    /\ data' = [b \in Buffers |-> [f \in Frames |-> NoEntry]]
    /\ wpc' = [b \in Buffers |-> "idle"]
    /\ wsize' = [b \in Buffers |-> 0]
    /\ ReaderAfterCrash
    /\ UNCHANGED <<clock, file>>

WriteHeaders(b, n) ==
    /\ wpc[b] = "idle"
    /\ offset[b] < DiskSize
    /\ file' = [file EXCEPT ![b][offset[b]] =
                    Cell(session, n_frames_written[b], 1, n)]
    /\ offset' = [offset EXCEPT ![b] = @ + 1]
    /\ wsize' = [wsize EXCEPT ![b] = n]
    /\ wpc' = [wpc EXCEPT ![b] = "blocks"]
    /\ UNCHANGED <<clock, session, index, reader>>

WriteBlocks(b) ==
    /\ wpc[b] = "blocks"
    /\ offset[b] + wsize[b] - 1 <= DiskSize
    /\ file' = [file EXCEPT ![b] =
           [o \in Offsets |->
               IF offset[b] <= o /\ o < offset[b] + wsize[b] - 1
               THEN Cell(session, n_frames_written[b], o - offset[b] + 2, wsize[b])
               ELSE @[o]]]
    /\ offset' = [offset EXCEPT ![b] = @ + wsize[b] - 1]
    /\ wpc' = [wpc EXCEPT ![b] = "mark"]
    /\ UNCHANGED <<clock, session, index, wsize, reader>>

(* Mutant of MarkFrame: the headers are not part of the record's length. *)
MarkFrameWithoutHeaders(b) ==
    /\ wpc[b] = "mark"
    /\ n_frames_written[b] < n_frames_total
    /\ data' = [data EXCEPT ![b][n_frames_written[b]] =
                    [start |-> n_bytes_written[b], timestamp |-> clock]]
    /\ n_bytes_written' = [n_bytes_written EXCEPT ![b] = @ + wsize[b] - 1]
    /\ wpc' = [wpc EXCEPT ![b] = "publish"]
    /\ UNCHANGED <<clock, session, file, offset, n_frames_written, wsize, reader>>

MarkFrame(b) ==
    /\ wpc[b] = "mark"
    /\ n_frames_written[b] < n_frames_total
    /\ data' = [data EXCEPT ![b][n_frames_written[b]] =
                    [start |-> n_bytes_written[b], timestamp |-> clock]]
    /\ n_bytes_written' = [n_bytes_written EXCEPT ![b] = @ + wsize[b]]
    /\ wpc' = [wpc EXCEPT ![b] = "publish"]
    /\ UNCHANGED <<clock, session, file, offset, n_frames_written, wsize,
                   reader>>

(* The atomic increment readers look at. *)
Publish(b) ==
    /\ wpc[b] = "publish"
    /\ n_frames_written' = [n_frames_written EXCEPT ![b] = @ + 1]
    /\ wpc' = [wpc EXCEPT ![b] = "idle"]
    /\ UNCHANGED <<clock, session, file, offset, n_bytes_written, data, wsize,
                   reader>>

-----------------------------------------------------------------------------
(* read_frame of a frame that exists: any other throws and changes nothing. *)

BeginReadFrame(b, f) ==
    /\ rpc = "idle"
    /\ Exists(n_frames_written[b], f)
    /\ rbuf' = b
    /\ rframe' = f
    /\ rstart' = get_frame_location(data[b], n_frames_written[b], f)
    /\ rpc' = "located"
    /\ UNCHANGED <<clock, ingest, converts, rsize, rgot, rwritten, search>>

(* begin_read, then the blocks that are asked for.  Either throws at the   *)
(* end of the file; what begin_read makes of bytes that are no header is   *)
(* not modelled.                                                           *)
HeaderThere == rstart < DiskSize /\ IsHeader(file[rbuf][rstart])
BlocksThere == rstart + rsize <= DiskSize /\ file[rbuf][rstart + rsize - 1] # Hole

ReadHeaders ==
    /\ rpc = "located"
    /\ HeaderThere
    /\ rgot' = {file[rbuf][rstart]}
    /\ rsize' = file[rbuf][rstart].size
    /\ rpc' = "headers"
    /\ UNCHANGED <<clock, ingest, converts, rbuf, rframe, rstart, rwritten, search>>

LoadBlocks ==
    /\ rpc = "headers"
    /\ BlocksThere
    /\ rgot' = rgot \cup {file[rbuf][o] : o \in rstart + 1 .. rstart + rsize - 1}
    /\ rpc' = "loaded"
    /\ UNCHANGED <<clock, ingest, converts, rbuf, rframe, rstart, rsize, rwritten, search>>

ReadThrows ==
    /\ \/ rpc = "located" /\ ~HeaderThere
       \/ rpc = "headers" /\ ~BlocksThere
    /\ rpc' = "threw"
    /\ UNCHANGED <<clock, ingest, converts, rbuf, record, rwritten, search>>

EndRead ==
    /\ \/ rpc \in {"threw", "aligned"}
       \/ rpc = "loaded" /\ ~converts
    /\ NoReader
    /\ UNCHANGED <<clock, ingest>>

-----------------------------------------------------------------------------
(* The converter, a program of its own: process emits record after record  *)
(* from the beginning of the file until it cannot read one; rframe counts  *)
(* those it has emitted.                                                   *)

BeginConvert(b) ==
    /\ rpc = "idle"
    /\ converts' = TRUE
    /\ rbuf' = b
    /\ rwritten' = n_frames_written[b]
    /\ rpc' = "located"
    /\ UNCHANGED <<clock, ingest, record, search>>

process ==
    /\ rpc = "loaded" /\ converts
    /\ rframe' = rframe + 1
    /\ rstart' = rstart + rsize    \* end_offset
    /\ rpc' = "located"
    /\ UNCHANGED <<clock, ingest, converts, rbuf, rsize, rgot, rwritten, search>>

-----------------------------------------------------------------------------
(* align_shot(other): the timestamp of a frame of the other buffer, then   *)
(* the frame of this buffer that goes with it.                             *)

AlignStamp(other, f, b) ==
    /\ rpc = "idle"
    /\ other # b
    /\ Exists(n_frames_written[other], f)
    /\ rstamp' = get_frame_timestamp(data[other], n_frames_written[other], f)
    /\ rbuf' = b
    /\ rpc' = "stamped"
    /\ UNCHANGED <<clock, ingest, converts, record, rwritten, rfirst, rlast, rresult>>

Found(frame) ==
    /\ rresult' = frame
    /\ rpc' = "aligned"
    /\ UNCHANGED <<rfirst, rlast>>

SearchIn(first, last) ==
    /\ rfirst' = first
    /\ rlast' = last
    /\ rpc' = "search"
    /\ UNCHANGED rresult

(* At either end the code returns the entry's timestamp, not its number.   *)
(* With an empty index it reads entries nobody wrote: any value.           *)
find_timecode ==
    LET stamp(f) == data[rbuf][f].timestamp
        end == n_frames_written[rbuf] - 1
    IN  /\ rpc = "stamped"
        /\ rwritten' = n_frames_written[rbuf]
        /\ \/ end < 0 /\ \E junk \in 0 .. MaxClock : Found(junk)
           \/ end >= 0 /\ rstamp <= stamp(0) /\ Found(stamp(0))
           \/ end >= 0 /\ rstamp > stamp(0) /\ rstamp >= stamp(end) /\ Found(stamp(end))
           \/ end >= 0 /\ rstamp > stamp(0) /\ rstamp < stamp(end) /\ SearchIn(0, end)
        /\ UNCHANGED <<clock, ingest, converts, rbuf, record, rstamp>>

(* One call of the binary search, which calls itself on a smaller range,   *)
(* while the ingest thread publishes more frames.                          *)
(* Mutant of timestamp_search: mid is excluded where it may be the answer. *)
SearchSkipsMid ==
    LET stamp(f) == data[rbuf][f].timestamp
        mid == (rfirst + rlast) \div 2
    IN  /\ rpc = "search"
        /\ IF rlast <= rfirst THEN Found(rfirst)
           ELSE IF stamp(rlast) <= rstamp THEN Found(rlast)
           ELSE IF stamp(mid) <= rstamp THEN SearchIn(mid + 1, rlast - 1)
           ELSE SearchIn(rfirst, mid - 1)
        /\ UNCHANGED <<clock, ingest, converts, rbuf, record, rwritten, rstamp>>

timestamp_search ==
    LET stamp(f) == data[rbuf][f].timestamp
        mid == (rfirst + rlast) \div 2
    IN  /\ rpc = "search"
        /\ IF rlast <= rfirst THEN Found(rfirst)
           ELSE IF stamp(rlast) <= rstamp THEN Found(rlast)
           ELSE IF stamp(mid) <= rstamp THEN SearchIn(mid, rlast - 1)
           ELSE SearchIn(rfirst, mid - 1)
        /\ UNCHANGED <<clock, ingest, converts, rbuf, record, rwritten, rstamp>>

-----------------------------------------------------------------------------

Ingest(b) ==
    \/ \E n \in Sizes : WriteHeaders(b, n)
    \/ WriteBlocks(b)
    \/ MarkFrame(b)
    \/ Publish(b)

Read ==
    \/ \E b \in Buffers, f \in Frames : BeginReadFrame(b, f)
    \/ ReadHeaders
    \/ LoadBlocks
    \/ ReadThrows
    \/ EndRead
    \/ \E b \in Buffers : BeginConvert(b)
    \/ process
    \/ \E other, b \in Buffers, f \in Frames : AlignStamp(other, f, b)
    \/ find_timecode
    \/ timestamp_search

Next ==
    /\ UNCHANGED setup
    /\ \/ Tick
       \/ \E b \in Buffers : Ingest(b)
       \/ Restart
       \/ Read

Spec == Init /\ [][Next]_vars

-----------------------------------------------------------------------------
(* Properties *)

(* The cells of a whole record of frame f, as run s of the program wrote it. *)
Record(s, f, n) == {Cell(s, f, k, n) : k \in 1 .. n}

(***************************************************************************)
(* What the index publishes is on the file: at the start of every          *)
(* published frame lies the whole record of that frame, written by this    *)
(* run of the program, before the bytes the index accounts for end.        *)
(***************************************************************************)
PublishedIsOnFile ==
    \A b \in Buffers : \A f \in 0 .. n_frames_written[b] - 1 :
        \E n \in Sizes :
            /\ data[b][f].start + n <= n_bytes_written[b]
            /\ \A k \in 1 .. n :
                  file[b][data[b][f].start + k - 1] = Cell(session, f, k, n)

(***************************************************************************)
(* A lock-free reader gets the frame it asked for, whole, although the     *)
(* ingest thread appends meanwhile and older runs left their records in    *)
(* the file; and it never meets the end of the file.                       *)
(***************************************************************************)
ReaderGetsItsFrame ==
    ~converts => /\ rpc = "loaded" => rgot = Record(session, rframe, rsize)
                 /\ rpc # "threw"

(***************************************************************************)
(* Between the two ends of the other camera's index, alignment ends at the *)
(* last frame that is not newer than the stamp, among those published when *)
(* it looked: data[mid].timestamp <= stamp, replay_buffer_index.cpp:75-79. *)
(***************************************************************************)
AsksInside ==
    /\ rpc = "aligned" /\ rwritten > 0
    /\ data[rbuf][0].timestamp < rstamp
    /\ rstamp < data[rbuf][rwritten - 1].timestamp

AlignsInside == AsksInside => rresult = LastNotAfter(data[rbuf], rwritten, rstamp)

(***************************************************************************)
(* "find the frame with largest timestamp where timestamp < stamp"         *)
(* (replay_buffer_index.h:57): the frame alignment ends at is older than   *)
(* the stamp.  It is not when a frame has the stamp itself.                *)
(***************************************************************************)
AlignedBeforeStamp == AsksInside => data[rbuf][rresult].timestamp < rstamp

(***************************************************************************)
(* align_shot gives a shot of the buffer: with at least one frame          *)
(* published, its start is a frame of the buffer.                          *)
(***************************************************************************)
AlignedShotExists ==
    rpc = "aligned" /\ rwritten > 0 => Exists(rwritten, rresult)

(***************************************************************************)
(* Whoever converts a file, while it is recorded or after any number of    *)
(* crashes, gets first every frame the last run had published when he came, *)
(* whole and in order, although that run wrote over a longer file, and     *)
(* unless the program starts anew meanwhile.  (What follows them may be    *)
(* remains of the older recording: nothing truncates the file.)            *)
(***************************************************************************)
ConvertedInOrder ==
    converts /\ rframe < rwritten =>
        /\ rpc = "loaded" => rgot = Record(session, rframe, rsize)
        /\ rpc # "threw"
=============================================================================
