-------------------------- MODULE ReplayBufferProofs --------------------------
(***************************************************************************)
(* Theorems about the replay buffers: for any cameras, lengths of records, *)
(* sizes of index and disk and numbers of runs, the index publishes only   *)
(* what is on the file, readers without a lock and converters get whole    *)
(* frames in order, and a shot is aligned with the right frame.            *)
(***************************************************************************)
EXTENDS ReplayBuffer, TLAPS

Cells == [session : Nat, frame : Int, part : Nat, size : Nat]
Entries == [start : Nat, timestamp : Nat]

SystemOK == setup \in Setups /\ clock \in Nat /\ session \in Nat /\ rbuf \in Buffers

FilesOK ==
    /\ file \in [Buffers -> [Offsets -> Cells]]
    /\ offset \in [Buffers -> Nat]

IndexOK ==
    /\ n_bytes_written \in [Buffers -> Nat]
    /\ n_frames_written \in [Buffers -> Nat]
    /\ data \in [Buffers -> [Frames -> Entries]]

IngestOK ==
    /\ wpc \in [Buffers -> {"idle", "blocks", "mark", "publish"}]
    /\ wsize \in [Buffers -> Nat]

TypeOK == SystemOK /\ FilesOK /\ IndexOK /\ IngestOK

(* The record of frame f of this run, of n cells, lies at that place.      *)
OnFile(b, f, at, n) == \A k \in 1 .. n : file[b][at + k - 1] = Cell(session, f, k, n)

(* Where the ingest thread of b is between the file and the index.  Its    *)
(* descriptor is never before what the index accounts for.                 *)
Placed(b) ==
    /\ offset[b] <= DiskSize
    /\ n_frames_written[b] <= n_frames_total
    /\ wpc[b] # "idle" => wsize[b] \in Sizes
    /\ offset[b] = n_bytes_written[b] + (IF wpc[b] = "blocks" THEN 1
                                         ELSE IF wpc[b] = "mark" THEN wsize[b] ELSE 0)
    /\ wpc[b] = "blocks" =>
          file[b][n_bytes_written[b]] = Cell(session, n_frames_written[b], 1, wsize[b])
    /\ wpc[b] = "mark" => OnFile(b, n_frames_written[b], n_bytes_written[b], wsize[b])
    /\ wpc[b] = "publish" =>
          /\ n_frames_written[b] < n_frames_total
          /\ data[b][n_frames_written[b]].start + wsize[b] <= n_bytes_written[b]
          /\ OnFile(b, n_frames_written[b], data[b][n_frames_written[b]].start, wsize[b])

Published(b, f) ==
    \E n \in Sizes : /\ data[b][f].start + n <= n_bytes_written[b]
                     /\ OnFile(b, f, data[b][f].start, n)

(* The entries made, of which the last may not be published yet: their     *)
(* records follow one another without a gap, their stamps never go back.   *)
Made(b) == n_frames_written[b] + (IF wpc[b] = "publish" THEN 1 ELSE 0)

SizeOnFile(b, f) == file[b][data[b][f].start].size

Adjoin(b) ==
    /\ Made(b) = 0 => n_bytes_written[b] = 0
    /\ Made(b) > 0 => data[b][0].start = 0
    /\ \A f \in 0 .. Made(b) - 1 :
          /\ data[b][f].start < n_bytes_written[b]
          /\ data[b][f].start + SizeOnFile(b, f)
                = IF f + 1 = Made(b) THEN n_bytes_written[b] ELSE data[b][f + 1].start

InTime(b) ==
    \A f \in 0 .. Made(b) - 1 :
        /\ data[b][f].timestamp <= clock
        /\ \A g \in 0 .. f : data[b][g].timestamp <= data[b][f].timestamp

(* The reader: its frame stays published while the ingest appends.  To a   *)
(* converter that holds for what was published when it came.               *)
ReaderOK ==
    /\ converts \in BOOLEAN /\ rframe \in Nat /\ rwritten \in Nat
    /\ rpc = "idle" => ~converts /\ rframe = 0 /\ rstart = 0
    /\ converts => /\ rpc \in {"located", "headers", "loaded", "threw"}
                   /\ rwritten <= n_frames_written[rbuf]

Promised == converts => rframe < rwritten

Reading ==
    Promised =>
      /\ rpc \in {"located", "headers", "loaded"} =>
            /\ rframe \in 0 .. n_frames_written[rbuf] - 1
            /\ rstart = data[rbuf][rframe].start
      /\ rpc \in {"headers", "loaded"} =>
            /\ rsize \in Sizes
            /\ rstart + rsize <= n_bytes_written[rbuf]
            /\ OnFile(rbuf, rframe, rstart, rsize)
      /\ rpc = "headers" => rgot = {Cell(session, rframe, 1, rsize)}
      /\ rpc = "loaded" => rgot = Record(session, rframe, rsize)
      /\ rpc # "threw"

(* The search: what it looks for is not before rfirst nor after rlast.     *)
StampOf(f) == data[rbuf][f].timestamp

IsLast(f) ==
    /\ f \in 0 .. rwritten - 1 /\ StampOf(f) <= rstamp
    /\ \A g \in 0 .. rwritten - 1 : StampOf(g) <= rstamp => g <= f

Searching ==
    /\ rstamp \in Nat
    /\ rpc \in {"search", "aligned"} => rwritten <= n_frames_written[rbuf]
    /\ rpc = "search" =>
          /\ rfirst \in Nat /\ rlast \in Nat
          /\ rfirst <= rlast /\ rlast < rwritten
          /\ StampOf(rfirst) <= rstamp
          /\ \A g \in rlast + 1 .. rwritten - 1 : StampOf(g) > rstamp
    /\ rpc = "aligned" /\ rwritten > 0 =>
          \/ StampOf(0) >= rstamp \/ rstamp >= StampOf(rwritten - 1)
          \/ IsLast(rresult)

AllAdjoin == \A b \in Buffers : Adjoin(b)
AllInTime == \A b \in Buffers : InTime(b)
AllPlaced == \A b \in Buffers : Placed(b)
AllPublished == \A b \in Buffers : \A f \in 0 .. n_frames_written[b] - 1 : Published(b, f)

BufferInv ==
    /\ TypeOK /\ AllPlaced /\ AllPublished /\ AllAdjoin /\ AllInTime
    /\ ReaderOK /\ Reading /\ Searching
-----------------------------------------------------------------------------
(* What the ingest thread leaves alone *)

LEMMA SetupFacts ==
    ASSUME setup \in Setups
    PROVE  /\ \A n \in Sizes : n \in Nat /\ n >= 2
           /\ n_frames_total \in Nat /\ DiskSize \in Nat
BY BufferAssumption DEF Sizes, n_frames_total

(* Who reads leaves the buffers alone, and the clock does. *)
LEMMA OthersLeave ==
    /\ Tick => UNCHANGED <<ingest, reader>>
    /\ Read => UNCHANGED <<clock, ingest>>
BY DEF Tick, Read, BeginReadFrame, ReadHeaders, LoadBlocks, ReadThrows, EndRead, BeginConvert,
   process, AlignStamp, find_timecode, timestamp_search

(* Nothing below the bytes the index accounts for is written again in this *)
(* run, and no published entry of the index changes.                       *)
Grows(c) ==
    /\ \A o \in Offsets : o < n_bytes_written[c] => file'[c][o] = file[c][o]
    /\ n_bytes_written'[c] \in Nat /\ n_bytes_written'[c] >= n_bytes_written[c]
    /\ n_frames_written'[c] \in Nat /\ n_frames_written'[c] >= n_frames_written[c]
    /\ \A f \in 0 .. n_frames_written[c] - 1 : data'[c][f] = data[c][f]

SameFor(c) ==
    /\ file'[c] = file[c] /\ offset'[c] = offset[c]
    /\ n_bytes_written'[c] = n_bytes_written[c]
    /\ n_frames_written'[c] = n_frames_written[c]
    /\ data'[c] = data[c] /\ wpc'[c] = wpc[c] /\ wsize'[c] = wsize[c]

LEMMA IngestLocal ==
    ASSUME TypeOK, NEW b \in Buffers, Ingest(b), NEW c \in Buffers, c # b
    PROVE  SameFor(c)
<1> USE DEF TypeOK, FilesOK, IndexOK, IngestOK
<1>1. ASSUME NEW n \in Sizes, WriteHeaders(b, n) PROVE SameFor(c)
  BY <1>1 DEF WriteHeaders, SameFor, index
<1>2. CASE WriteBlocks(b)
  BY <1>2 DEF WriteBlocks, SameFor, index
<1>3. CASE MarkFrame(b)
  BY <1>3 DEF MarkFrame, SameFor
<1>4. CASE Publish(b)
  BY <1>4 DEF Publish, SameFor
<1> QED BY <1>1, <1>2, <1>3, <1>4 DEF Ingest

LEMMA SameGrows ==
    ASSUME TypeOK, NEW c \in Buffers, SameFor(c)
    PROVE  Grows(c)
BY DEF SameFor, Grows, TypeOK, IndexOK

LEMMA IngestGrows ==
    ASSUME TypeOK, AllPlaced, NEW b \in Buffers, Ingest(b), NEW c \in Buffers
    PROVE  Grows(c)
<1>1. CASE c # b
  BY <1>1, IngestLocal, SameGrows
<1>2. CASE c = b
  <2> USE SetupFacts DEF TypeOK, SystemOK
  <2>0. Placed(b) /\ offset[b] \in Nat /\ n_bytes_written[b] \in Nat
        /\ n_frames_written[b] \in Nat /\ wsize[b] \in Nat
        /\ file[b] \in [Offsets -> Cells] /\ data[b] \in [Frames -> Entries]
    BY DEF AllPlaced, FilesOK, IndexOK, IngestOK
  <2>1. ASSUME NEW n \in Sizes, WriteHeaders(b, n) PROVE Grows(b)
    <3>1. /\ UNCHANGED index /\ wpc[b] = "idle"
          /\ file' = [file EXCEPT ![b][offset[b]] =
                          Cell(session, n_frames_written[b], 1, n)]
      BY <2>1 DEF WriteHeaders
    <3>2. offset[b] = n_bytes_written[b]
      BY <2>0, <3>1 DEF Placed
    <3>3. \A o \in Offsets : o < n_bytes_written[b] => file'[b][o] = file[b][o]
      BY <2>0, <3>1, <3>2 DEF FilesOK, Offsets
    <3> QED BY <2>0, <3>1, <3>3 DEF Grows, index
  <2>2. ASSUME WriteBlocks(b) PROVE Grows(b)
    <3>1. /\ UNCHANGED index /\ wpc[b] = "blocks"
          /\ file' = [file EXCEPT ![b] =
                 [o \in Offsets |->
                     IF offset[b] <= o /\ o < offset[b] + wsize[b] - 1
                     THEN Cell(session, n_frames_written[b], o - offset[b] + 2, wsize[b])
                     ELSE @[o]]]
      BY <2>2 DEF WriteBlocks
    <3>2. offset[b] = n_bytes_written[b] + 1
      BY <2>0, <3>1 DEF Placed
    <3>3. \A o \in Offsets : o < n_bytes_written[b] => file'[b][o] = file[b][o]
      BY <2>0, <3>1, <3>2 DEF FilesOK, Offsets
    <3> QED BY <2>0, <3>1, <3>3 DEF Grows, index
  <2>3. ASSUME MarkFrame(b) PROVE Grows(b)
    <3>1. /\ UNCHANGED <<file, n_frames_written>>
          /\ data' = [data EXCEPT ![b][n_frames_written[b]] =
                          [start |-> n_bytes_written[b], timestamp |-> clock]]
          /\ n_bytes_written' = [n_bytes_written EXCEPT ![b] = @ + wsize[b]]
      BY <2>3 DEF MarkFrame
    <3>2. n_bytes_written'[b] = n_bytes_written[b] + wsize[b]
      BY <3>1 DEF IndexOK
    <3>3. \A f \in 0 .. n_frames_written[b] - 1 : data'[b][f] = data[b][f]
      BY <2>0, <3>1 DEF IndexOK
    <3> QED BY <2>0, <3>1, <3>2, <3>3 DEF Grows
  <2>4. ASSUME Publish(b) PROVE Grows(b)
    <3>1. /\ UNCHANGED <<file, data, n_bytes_written>>
          /\ n_frames_written' = [n_frames_written EXCEPT ![b] = @ + 1]
      BY <2>4 DEF Publish
    <3>2. n_frames_written'[b] = n_frames_written[b] + 1
      BY <3>1 DEF IndexOK
    <3> QED BY <2>0, <3>1, <3>2 DEF Grows
  <2> QED BY <1>2, <2>1, <2>2, <2>3, <2>4 DEF Ingest
<1> QED BY <1>1, <1>2

(* A record on the file stays there. *)
LEMMA RecordStays ==
    ASSUME TypeOK, NEW c \in Buffers, Placed(c), Grows(c), session' = session,
           NEW f \in Nat, NEW at \in Nat, NEW n \in Nat,
           at + n <= n_bytes_written[c], OnFile(c, f, at, n)
    PROVE  \A k \in 1 .. n : file'[c][at + k - 1] = Cell(session, f, k, n)
<1> SUFFICES ASSUME NEW k \in 1 .. n
             PROVE  file'[c][at + k - 1] = Cell(session, f, k, n)
  OBVIOUS
<1>1. file[c][at + k - 1] = Cell(session, f, k, n)
  BY DEF OnFile
<1>2. n_bytes_written[c] <= DiskSize /\ n_bytes_written[c] \in Nat /\ DiskSize \in Nat
  BY SetupFacts DEF TypeOK, SystemOK, FilesOK, IndexOK, IngestOK, Placed
<1>3. at + k - 1 \in Offsets /\ at + k - 1 < n_bytes_written[c]
  BY <1>2 DEF Offsets
<1> QED BY <1>1, <1>3 DEF Grows

-----------------------------------------------------------------------------
(* The steps of the inductive invariant *)

LEMMA SetupStays ==
    ASSUME UNCHANGED setup
    PROVE  Buffers' = Buffers /\ Sizes' = Sizes /\ n_frames_total' = n_frames_total
           /\ Frames' = Frames
BY DEF Buffers, Sizes, n_frames_total, Frames

LEMMA TypeStep == TypeOK /\ AllPlaced /\ [Next]_vars => TypeOK'
<1> SUFFICES ASSUME TypeOK, AllPlaced, [Next]_vars PROVE TypeOK'
  OBVIOUS
<1> USE DEF TypeOK
<1>0. UNCHANGED setup
  BY DEF Next, vars
<1>1. CASE Tick
  BY <1>0, <1>1, SetupStays DEF Tick, ingest, index, reader, SystemOK, FilesOK, IndexOK, IngestOK
<1>2. ASSUME NEW b \in Buffers, NEW n \in Sizes, WriteHeaders(b, n) PROVE TypeOK'
  <2>1. Cell(session, n_frames_written[b], 1, n) \in Cells
    BY SetupFacts DEF Cell, Cells, SystemOK, IndexOK
  <2>2. FilesOK'
    <3>1. [file[b] EXCEPT ![offset[b]] = Cell(session, n_frames_written[b], 1, n)]
             \in [Offsets -> Cells]
      BY <2>1 DEF FilesOK
    <3>2. file' \in [Buffers -> [Offsets -> Cells]]
      BY <1>2, <3>1 DEF WriteHeaders, FilesOK
    <3>3. offset' \in [Buffers -> Nat]
      BY <1>2 DEF WriteHeaders, FilesOK
    <3> QED BY <1>0, <3>2, <3>3, SetupStays DEF FilesOK
  <2>3. SystemOK' /\ IndexOK'
    BY <1>0, <1>2, SetupStays DEF WriteHeaders, index, reader, SystemOK, IndexOK
  <2>4. IngestOK'
    BY <1>0, <1>2, SetupFacts, SetupStays DEF WriteHeaders, SystemOK, IngestOK
  <2> QED BY <2>2, <2>3, <2>4
<1>3. ASSUME NEW b \in Buffers, WriteBlocks(b) PROVE TypeOK'
  <2>0. /\ offset[b] \in Nat /\ wsize[b] \in Nat /\ wsize[b] >= 2
        /\ n_frames_written[b] \in Nat /\ file[b] \in [Offsets -> Cells]
    BY <1>3, SetupFacts DEF WriteBlocks, SystemOK, FilesOK, IndexOK, IngestOK, AllPlaced, Placed
  <2>1. ASSUME NEW o \in Offsets, offset[b] <= o
        PROVE  Cell(session, n_frames_written[b], o - offset[b] + 2, wsize[b]) \in Cells
    BY <2>0, <2>1, BufferAssumption DEF Cell, Cells, SystemOK, Offsets
  <2>2. [o \in Offsets |->
               IF offset[b] <= o /\ o < offset[b] + wsize[b] - 1
               THEN Cell(session, n_frames_written[b], o - offset[b] + 2, wsize[b])
               ELSE file[b][o]] \in [Offsets -> Cells]
    BY <2>0, <2>1
  <2>3. FilesOK'
    <3>1. file' \in [Buffers -> [Offsets -> Cells]]
      BY <1>3, <2>2 DEF WriteBlocks, FilesOK
    <3>2. offset[b] + wsize[b] - 1 \in Nat
      BY <2>0
    <3>3. offset' \in [Buffers -> Nat]
      BY <1>3, <3>2 DEF WriteBlocks, FilesOK
    <3> QED BY <1>0, <3>1, <3>3, SetupStays DEF FilesOK
  <2>4. SystemOK' /\ IndexOK' /\ IngestOK'
    BY <1>0, <1>3, SetupStays DEF WriteBlocks, index, reader, SystemOK, IndexOK, IngestOK
  <2> QED BY <2>3, <2>4
<1>4. ASSUME NEW b \in Buffers, MarkFrame(b) PROVE TypeOK'
  <2>1. [start |-> n_bytes_written[b], timestamp |-> clock] \in Entries
    BY DEF Entries, SystemOK, IndexOK
  <2>2. wsize[b] \in Nat
    BY DEF IngestOK
  <2>3. IndexOK'
    <3>1. [data[b] EXCEPT ![n_frames_written[b]] =
               [start |-> n_bytes_written[b], timestamp |-> clock]] \in [Frames -> Entries]
      BY <2>1 DEF IndexOK
    <3>2. data' \in [Buffers -> [Frames -> Entries]]
      BY <1>4, <3>1 DEF MarkFrame, IndexOK
    <3>3. n_bytes_written' \in [Buffers -> Nat]
      BY <1>4, <2>2 DEF MarkFrame, IndexOK
    <3>4. n_frames_written' = n_frames_written
      BY <1>4 DEF MarkFrame
    <3> QED BY <1>0, <3>2, <3>3, <3>4, SetupStays DEF IndexOK
  <2>4. SystemOK' /\ FilesOK' /\ IngestOK'
    BY <1>0, <1>4, SetupStays DEF MarkFrame, reader, SystemOK, FilesOK, IngestOK
  <2> QED BY <2>3, <2>4
<1>5. ASSUME NEW b \in Buffers, Publish(b) PROVE TypeOK'
  <2>1. SystemOK' /\ FilesOK'
    BY <1>0, <1>5, SetupStays DEF Publish, reader, SystemOK, FilesOK
  <2>2. IndexOK'
    <3>1. n_frames_written' \in [Buffers -> Nat]
      BY <1>5 DEF Publish, IndexOK
    <3>2. UNCHANGED <<n_bytes_written, data>>
      BY <1>5 DEF Publish
    <3> QED BY <1>0, <3>1, <3>2, SetupStays DEF IndexOK
  <2>3. IngestOK'
    BY <1>0, <1>5, SetupStays DEF Publish, IngestOK
  <2> QED BY <2>1, <2>2, <2>3
<1>6. CASE Restart
  <2>1. NoEntry \in Entries
    BY DEF NoEntry, Entries
  <2>2. IndexOK'
    BY <1>0, <1>6, <2>1, SetupStays DEF Restart, IndexOK
  <2>3. SystemOK' /\ FilesOK' /\ IngestOK'
    BY <1>0, <1>6, SetupStays
    DEF Restart, ReaderAfterCrash, NoReader, SystemOK, FilesOK, IngestOK
  <2> QED BY <2>2, <2>3
<1>7. ASSUME Read \/ UNCHANGED vars PROVE TypeOK'
  <2>1. UNCHANGED <<clock, session, file, offset, index, wpc, wsize>>
    BY <1>7, OthersLeave DEF vars, ingest
  <2>2. rbuf' \in Buffers
    BY <1>7 DEF Read, BeginReadFrame, ReadHeaders, LoadBlocks, ReadThrows, EndRead, NoReader,
       BeginConvert, process, AlignStamp, find_timecode, timestamp_search, vars, reader, SystemOK
  <2> QED
    BY <1>0, <2>1, <2>2, SetupStays DEF index, SystemOK, FilesOK, IndexOK, IngestOK
<1> QED
  BY <1>1, <1>2, <1>3, <1>4, <1>5, <1>6, <1>7 DEF Next, Ingest

(* A step that leaves the buffer, the run and the system alone. *)
LEMMA SamePlaced ==
    ASSUME UNCHANGED <<setup, session>>, NEW c \in Buffers, Placed(c), SameFor(c)
    PROVE  Placed(c)'
BY SetupStays DEF SameFor, Placed, OnFile

LEMMA IngestPlaced ==
    ASSUME TypeOK, AllPlaced, UNCHANGED setup, NEW b \in Buffers, Ingest(b)
    PROVE  Placed(b)'
<1> USE SetupStays
<1>0. /\ Placed(b) /\ offset[b] \in Nat /\ n_bytes_written[b] \in Nat
      /\ n_frames_written[b] \in Nat /\ wsize[b] \in Nat
      /\ file[b] \in [Offsets -> Cells] /\ data[b] \in [Frames -> Entries]
      /\ \A n \in Sizes : n \in Nat /\ n >= 2
      /\ n_frames_total \in Nat /\ DiskSize \in Nat
  BY SetupFacts DEF TypeOK, SystemOK, AllPlaced, FilesOK, IndexOK, IngestOK
<1> USE <1>0
<1>1. ASSUME NEW n \in Sizes, WriteHeaders(b, n) PROVE Placed(b)'
  <2>1. /\ wpc[b] = "idle" /\ wpc'[b] = "blocks" /\ wsize'[b] = n
        /\ offset[b] < DiskSize /\ offset'[b] = offset[b] + 1
        /\ UNCHANGED <<session, n_bytes_written, n_frames_written>>
    BY <1>1 DEF WriteHeaders, index, TypeOK, FilesOK, IngestOK
  <2>2. offset[b] = n_bytes_written[b]
    BY <2>1 DEF Placed
  <2>3. file'[b][offset[b]] = Cell(session, n_frames_written[b], 1, n)
    BY <1>1, <2>1 DEF WriteHeaders, TypeOK, FilesOK, Offsets
  <2> QED BY <2>1, <2>2, <2>3 DEF Placed
<1>2. CASE WriteBlocks(b)
  <2>1. /\ wpc[b] = "blocks" /\ wpc'[b] = "mark" /\ wsize'[b] = wsize[b]
        /\ offset[b] + wsize[b] - 1 <= DiskSize
        /\ offset'[b] = offset[b] + wsize[b] - 1
        /\ UNCHANGED <<session, n_bytes_written, n_frames_written>>
    BY <1>2 DEF WriteBlocks, index, TypeOK, FilesOK, IngestOK
  <2>2. /\ offset[b] = n_bytes_written[b] + 1 /\ wsize[b] \in Sizes
        /\ file[b][n_bytes_written[b]] = Cell(session, n_frames_written[b], 1, wsize[b])
    BY <2>1 DEF Placed
  <2>3. file'[b] = [o \in Offsets |->
               IF offset[b] <= o /\ o < offset[b] + wsize[b] - 1
               THEN Cell(session, n_frames_written[b], o - offset[b] + 2, wsize[b])
               ELSE file[b][o]]
    BY <1>2 DEF WriteBlocks, TypeOK, FilesOK
  <2>4. ASSUME NEW k \in 1 .. wsize[b]
        PROVE  file'[b][n_bytes_written[b] + k - 1]
                 = Cell(session, n_frames_written[b], k, wsize[b])
    <3>1. n_bytes_written[b] + k - 1 \in Offsets
      BY <2>1, <2>2 DEF Offsets
    <3>2. CASE k = 1
      BY <2>2, <2>3, <3>1, <3>2
    <3>3. CASE k > 1
      <4>1. /\ offset[b] <= n_bytes_written[b] + k - 1
            /\ n_bytes_written[b] + k - 1 < offset[b] + wsize[b] - 1
            /\ n_bytes_written[b] + k - 1 - offset[b] + 2 = k
        BY <2>2, <3>3
      <4> QED BY <2>3, <3>1, <4>1
    <3> QED BY <3>2, <3>3
  <2> QED BY <2>1, <2>2, <2>4 DEF Placed, OnFile
<1>3. CASE MarkFrame(b)
  <2>1. /\ wpc[b] = "mark" /\ wpc'[b] = "publish"
        /\ n_frames_written[b] < n_frames_total
        /\ n_bytes_written'[b] = n_bytes_written[b] + wsize[b]
        /\ UNCHANGED <<session, file, offset, wsize, n_frames_written>>
    BY <1>3 DEF MarkFrame, TypeOK, IndexOK, IngestOK
  <2>2. data'[b][n_frames_written[b]].start = n_bytes_written[b]
    BY <1>3, <2>1 DEF MarkFrame, TypeOK, IndexOK, Frames
  <2>3. /\ offset[b] = n_bytes_written[b] + wsize[b] /\ wsize[b] \in Sizes
        /\ OnFile(b, n_frames_written[b], n_bytes_written[b], wsize[b])
    BY <2>1 DEF Placed
  <2> QED BY <2>1, <2>2, <2>3 DEF Placed, OnFile
<1>4. CASE Publish(b)
  <2>1. /\ wpc[b] = "publish" /\ wpc'[b] = "idle"
        /\ n_frames_written'[b] = n_frames_written[b] + 1
        /\ UNCHANGED <<offset, n_bytes_written>>
    BY <1>4 DEF Publish, TypeOK, IndexOK, IngestOK
  <2> QED BY <2>1 DEF Placed
<1> QED BY <1>1, <1>2, <1>3, <1>4 DEF Ingest


LEMMA PlacedStep == TypeOK /\ AllPlaced /\ [Next]_vars => AllPlaced'
<1> SUFFICES ASSUME TypeOK, AllPlaced, [Next]_vars, NEW c \in Buffers'
             PROVE  Placed(c)'
  BY DEF AllPlaced
<1>0. UNCHANGED setup /\ c \in Buffers /\ Placed(c)
  BY SetupStays DEF Next, vars, AllPlaced
<1>1. ASSUME NEW b \in Buffers, Ingest(b) PROVE Placed(c)'
  <2>1. CASE c = b
    <3>1. Placed(b)'
      BY <1>0, <1>1, IngestPlaced
    <3> QED BY <2>1, <3>1
  <2>2. CASE c # b
    <3>1. SameFor(c)
      BY <1>0, <1>1, <2>2, IngestLocal
    <3>2. UNCHANGED session
      BY <1>1 DEF Ingest, WriteHeaders, WriteBlocks, MarkFrame, Publish
    <3> QED BY <1>0, <3>1, <3>2, SamePlaced
  <2> QED BY <2>1, <2>2
<1>2. CASE Restart
  <2>1. /\ offset'[c] = 0 /\ n_bytes_written'[c] = 0 /\ n_frames_written'[c] = 0
        /\ wpc'[c] = "idle"
    BY <1>0, <1>2 DEF Restart
  <2>2. n_frames_total \in Nat /\ DiskSize \in Nat
    BY SetupFacts DEF TypeOK, SystemOK
  <2> QED BY <1>0, <2>1, <2>2, SetupStays DEF Placed
<1>3. CASE Tick \/ Read \/ UNCHANGED vars
  <2>1. UNCHANGED <<session, file, offset, index, wpc, wsize>>
    BY <1>3, OthersLeave DEF vars, ingest
  <2>2. SameFor(c)
    BY <2>1 DEF SameFor, index
  <2> QED BY <1>0, <2>1, <2>2, SamePlaced
<1> QED BY <1>1, <1>2, <1>3 DEF Next

(* What grows keeps what it published. *)
LEMMA GrowsPublished ==
    ASSUME TypeOK, UNCHANGED <<setup, session>>, NEW c \in Buffers, Placed(c), Grows(c),
           NEW f \in 0 .. n_frames_written[c] - 1, Published(c, f)
    PROVE  Published(c, f)'
<1>1. PICK n \in Sizes : /\ data[c][f].start + n <= n_bytes_written[c]
                         /\ OnFile(c, f, data[c][f].start, n)
  BY DEF Published
<1>2. /\ f \in Nat /\ data[c][f].start \in Nat /\ n \in Nat
      /\ n_bytes_written[c] \in Nat /\ n_bytes_written'[c] \in Nat
      /\ data'[c][f] = data[c][f] /\ n_bytes_written'[c] >= n_bytes_written[c]
  <2>1. f \in Frames
    BY SetupFacts DEF TypeOK, SystemOK, IndexOK, Placed, Frames
  <2>2. data[c][f] \in Entries
    BY <2>1 DEF TypeOK, IndexOK
  <2>3. f \in Nat /\ n \in Nat /\ n_bytes_written[c] \in Nat
    BY SetupFacts DEF TypeOK, SystemOK, IndexOK
  <2> QED BY <2>2, <2>3 DEF Entries, Grows
<1>3. \A k \in 1 .. n : file'[c][data[c][f].start + k - 1] = Cell(session, f, k, n)
  BY <1>1, <1>2, RecordStays
<1>4. data'[c][f].start + n <= n_bytes_written'[c] /\ n \in Sizes'
  BY <1>1, <1>2, SetupStays
<1>5. OnFile(c, f, data[c][f].start, n)'
  BY <1>2, <1>3 DEF OnFile
<1> QED BY <1>4, <1>5 DEF Published

LEMMA PublishedStep ==
    ASSUME TypeOK, AllPlaced, AllPublished, [Next]_vars
    PROVE  AllPublished'
<1> SUFFICES ASSUME NEW c \in Buffers', NEW f \in 0 .. n_frames_written'[c] - 1
             PROVE  Published(c, f)'
  BY DEF AllPublished
<1>0. UNCHANGED setup /\ c \in Buffers /\ Placed(c)
  BY SetupStays DEF Next, vars, AllPlaced
<1>1. ASSUME UNCHANGED session, Grows(c), n_frames_written'[c] = n_frames_written[c]
      PROVE  Published(c, f)'
  BY <1>0, <1>1, GrowsPublished DEF AllPublished
<1>2. ASSUME NEW b \in Buffers, Ingest(b), n_frames_written'[c] # n_frames_written[c]
      PROVE  Published(c, f)'
  <2>1. c = b
    BY <1>0, <1>2, IngestLocal DEF SameFor
  <2>2. Publish(c)
    BY <1>2, <2>1 DEF Ingest, WriteHeaders, WriteBlocks, MarkFrame, index
  <2>3. /\ wpc[c] = "publish" /\ n_frames_written'[c] = n_frames_written[c] + 1
        /\ UNCHANGED <<session, file, n_bytes_written, data>>
    BY <1>0, <2>2 DEF Publish, TypeOK, IndexOK
  <2>4. CASE f = n_frames_written[c]
    BY <1>0, <2>3, <2>4, SetupStays DEF Placed, Published, OnFile
  <2>5. CASE f # n_frames_written[c]
    <3>1. f \in 0 .. n_frames_written[c] - 1
      <4>1. n_frames_written[c] \in Nat
        BY <1>0 DEF TypeOK, IndexOK
      <4>2. f \in 0 .. (n_frames_written[c] + 1) - 1
        BY <2>3
      <4> QED BY <2>5, <4>1, <4>2
    <3>2. Published(c, f) /\ Grows(c)
      BY <1>0, <1>2, <3>1, IngestGrows DEF AllPublished
    <3> QED BY <1>0, <2>3, <3>1, <3>2, GrowsPublished
  <2> QED BY <2>4, <2>5
<1>3. ASSUME NEW b \in Buffers, Ingest(b) PROVE Published(c, f)'
  <2>1. UNCHANGED session /\ Grows(c)
    BY <1>0, <1>3, IngestGrows DEF Ingest, WriteHeaders, WriteBlocks, MarkFrame, Publish
  <2> QED BY <1>1, <1>2, <1>3, <2>1
<1>4. CASE Restart
  <2>1. n_frames_written'[c] = 0
    BY <1>0, <1>4 DEF Restart
  <2> QED BY <2>1
<1>5. CASE Tick \/ Read \/ UNCHANGED vars
  <2>1. UNCHANGED <<session, file, offset, index, wpc, wsize>>
    BY <1>5, OthersLeave DEF vars, ingest
  <2>2. SameFor(c)
    BY <2>1 DEF SameFor, index
  <2> QED BY <1>0, <1>1, <2>1, <2>2, SameGrows DEF SameFor
<1> QED BY <1>3, <1>4, <1>5 DEF Next


(* The entries made *)

LEMMA MadeFacts ==
    ASSUME TypeOK, AllPlaced, AllAdjoin, NEW c \in Buffers
    PROVE  /\ Made(c) \in Nat /\ n_frames_written[c] <= Made(c)
           /\ \A f \in 0 .. Made(c) - 1 :
                 /\ f \in Frames /\ data[c][f] \in Entries
                 /\ data[c][f].start \in Offsets /\ SizeOnFile(c, f) \in Nat
<1> USE SetupFacts DEF TypeOK, SystemOK
<1>1. n_frames_written[c] \in Nat /\ n_bytes_written[c] \in Nat /\ offset[c] \in Nat
      /\ wsize[c] \in Nat
  BY DEF IndexOK, FilesOK, IngestOK
<1>2. Made(c) \in Nat /\ n_frames_written[c] <= Made(c) /\ Made(c) <= n_frames_total
  BY <1>1 DEF Made, AllPlaced, Placed
<1>3. n_bytes_written[c] <= DiskSize
  BY <1>1 DEF AllPlaced, Placed
<1>4. ASSUME NEW f \in 0 .. Made(c) - 1
      PROVE  /\ f \in Frames /\ data[c][f] \in Entries
             /\ data[c][f].start \in Offsets /\ SizeOnFile(c, f) \in Nat
  <2>1. f \in Frames
    BY <1>2 DEF Frames
  <2>2. data[c][f] \in Entries
    BY <2>1 DEF IndexOK
  <2>3. data[c][f].start \in Nat /\ data[c][f].start < n_bytes_written[c]
    BY <2>2 DEF Entries, AllAdjoin, Adjoin
  <2>4. data[c][f].start \in Offsets
    BY <1>1, <1>3, <2>3 DEF Offsets
  <2>5. file[c][data[c][f].start] \in Cells
    BY <2>4 DEF FilesOK
  <2> QED BY <2>1, <2>2, <2>4, <2>5 DEF Cells, SizeOnFile
<1> QED BY <1>2, <1>4

SameEntries(c) ==
    /\ Made(c)' = Made(c) /\ n_bytes_written'[c] = n_bytes_written[c]
    /\ \A f \in 0 .. Made(c) - 1 : data'[c][f] = data[c][f]
    /\ \A o \in Offsets : o < n_bytes_written[c] => file'[c][o] = file[c][o]

LEMMA EntriesStay ==
    ASSUME TypeOK, AllPlaced, AllAdjoin, AllInTime, UNCHANGED setup,
           clock' \in Nat, clock' >= clock, NEW c \in Buffers, SameEntries(c)
    PROVE  Adjoin(c)' /\ InTime(c)'
<1>1. /\ Made(c) \in Nat /\ Adjoin(c) /\ InTime(c)
      /\ \A f \in 0 .. Made(c) - 1 : /\ data[c][f].start \in Offsets
                                     /\ data[c][f].timestamp \in Nat
  BY MadeFacts DEF AllAdjoin, AllInTime, Entries
<1>2. \A f \in 0 .. Made(c) - 1 : SizeOnFile(c, f)' = SizeOnFile(c, f)
  BY <1>1 DEF SizeOnFile, SameEntries, Adjoin
<1>3. ASSUME NEW f \in 0 .. Made(c)' - 1
      PROVE  /\ data'[c][f].start < n_bytes_written'[c]
             /\ data'[c][f].start + SizeOnFile(c, f)'
                   = IF f + 1 = Made(c)' THEN n_bytes_written'[c] ELSE data'[c][f + 1].start
  <2>1. f \in 0 .. Made(c) - 1 /\ (f + 1 # Made(c) => f + 1 \in 0 .. Made(c) - 1)
    BY <1>1, <1>3 DEF SameEntries
  <2>2. /\ data[c][f].start < n_bytes_written[c]
        /\ data[c][f].start + SizeOnFile(c, f)
              = IF f + 1 = Made(c) THEN n_bytes_written[c] ELSE data[c][f + 1].start
    BY <1>1, <2>1 DEF Adjoin
  <2>3. /\ data'[c][f] = data[c][f] /\ SizeOnFile(c, f)' = SizeOnFile(c, f)
        /\ f + 1 # Made(c) => data'[c][f + 1] = data[c][f + 1]
    BY <1>2, <2>1 DEF SameEntries
  <2> QED BY <2>2, <2>3 DEF SameEntries
<1>4. Made(c) > 0 => data'[c][0].start = 0
  BY <1>1 DEF SameEntries, Adjoin
<1>5. Adjoin(c)'
  BY <1>1, <1>3, <1>4 DEF Adjoin, SameEntries
<1>6. ASSUME NEW f \in 0 .. Made(c)' - 1
      PROVE  /\ data'[c][f].timestamp <= clock'
             /\ \A g \in 0 .. f : data'[c][g].timestamp <= data'[c][f].timestamp
  <2>1. f \in 0 .. Made(c) - 1 /\ \A g \in 0 .. f : g \in 0 .. Made(c) - 1
    BY <1>1, <1>6 DEF SameEntries
  <2>2. data[c][f].timestamp <= clock /\ clock \in Nat
    BY <1>1, <2>1 DEF InTime, TypeOK, SystemOK
  <2>3. \A g \in 0 .. f : data[c][g].timestamp <= data[c][f].timestamp
    BY <1>1, <2>1 DEF InTime
  <2>4. \A g \in 0 .. f : data'[c][g] = data[c][g] /\ data'[c][f] = data[c][f]
    BY <2>1 DEF SameEntries
  <2>5. data'[c][f].timestamp <= clock'
    BY <1>1, <2>1, <2>2 DEF SameEntries
  <2> QED BY <2>3, <2>4, <2>5
<1> QED BY <1>5, <1>6 DEF InTime

LEMMA EntryMade ==
    ASSUME TypeOK, AllPlaced, AllAdjoin, AllInTime, UNCHANGED setup,
           NEW b \in Buffers, MarkFrame(b)
    PROVE  Adjoin(b)' /\ InTime(b)'
<1> DEFINE n == n_frames_written[b]
<1>0. /\ n \in Nat /\ n_bytes_written[b] \in Nat /\ wsize[b] \in Nat /\ clock \in Nat
      /\ wsize[b] >= 2
  BY SetupFacts DEF TypeOK, SystemOK, IndexOK, IngestOK, AllPlaced, Placed, MarkFrame
<1>1. /\ wpc[b] = "mark" /\ wpc'[b] = "publish" /\ n < n_frames_total
      /\ n_bytes_written'[b] = n_bytes_written[b] + wsize[b]
      /\ data'[b] = [data[b] EXCEPT ![n] = [start |-> n_bytes_written[b], timestamp |-> clock]]
      /\ UNCHANGED <<clock, file, n_frames_written>>
  BY DEF MarkFrame, TypeOK, IndexOK, IngestOK
<1>2. Made(b) = n /\ Made(b)' = n + 1
  BY <1>0, <1>1 DEF Made
<1>3. /\ n \in Frames /\ data[b] \in [Frames -> Entries]
      /\ \A f \in 0 .. n - 1 : f \in Frames /\ data[b][f] \in Entries /\ SizeOnFile(b, f) \in Nat
  <2>1. n \in Frames /\ data[b] \in [Frames -> Entries]
    BY <1>0, <1>1, SetupFacts DEF TypeOK, SystemOK, IndexOK, Frames
  <2>2. \A f \in 0 .. n - 1 : f \in Frames /\ data[b][f] \in Entries /\ SizeOnFile(b, f) \in Nat
    BY <1>2, MadeFacts
  <2> QED BY <2>1, <2>2
<1>4. /\ data'[b][n].start = n_bytes_written[b] /\ data'[b][n].timestamp = clock
      /\ \A f \in 0 .. n - 1 : data'[b][f] = data[b][f]
  BY <1>0, <1>1, <1>3
<1>5. SizeOnFile(b, n)' = wsize[b]
  <2>1. OnFile(b, n, n_bytes_written[b], wsize[b])
    BY <1>1 DEF AllPlaced, Placed
  <2>2. 1 \in 1 .. wsize[b] /\ n_bytes_written[b] + 1 - 1 = n_bytes_written[b]
    BY <1>0
  <2>3. file[b][n_bytes_written[b] + 1 - 1] = Cell(session, n, 1, wsize[b])
    BY <2>1, <2>2 DEF OnFile
  <2> QED BY <1>1, <1>4, <2>2, <2>3 DEF SizeOnFile, Cell
<1>6. \A f \in 0 .. n - 1 : SizeOnFile(b, f)' = SizeOnFile(b, f)
  BY <1>1, <1>4 DEF SizeOnFile
<1>7. ASSUME NEW f \in 0 .. n
      PROVE  /\ data'[b][f].start < n_bytes_written'[b]
             /\ data'[b][f].start + SizeOnFile(b, f)'
                   = IF f + 1 = n + 1 THEN n_bytes_written'[b] ELSE data'[b][f + 1].start
  <2>1. CASE f = n
    BY <1>0, <1>1, <1>4, <1>5, <2>1
  <2>2. CASE f # n
    <3>1. f \in 0 .. n - 1 /\ f + 1 \in 0 .. n /\ (f + 1 # n => f + 1 \in 0 .. n - 1)
      BY <1>0, <2>2
    <3>2. /\ data[b][f].start < n_bytes_written[b]
          /\ data[b][f].start + SizeOnFile(b, f)
                = IF f + 1 = n THEN n_bytes_written[b] ELSE data[b][f + 1].start
      BY <1>2, <3>1 DEF AllAdjoin, Adjoin
    <3>3. data[b][f].start \in Nat
      BY <1>3, <3>1 DEF Entries
    <3>4. data'[b][f + 1].start = IF f + 1 = n THEN n_bytes_written[b] ELSE data[b][f + 1].start
      BY <1>4, <3>1
    <3>5. data'[b][f].start < n_bytes_written'[b]
      BY <1>0, <1>1, <1>4, <3>1, <3>2, <3>3
    <3>6. /\ data'[b][f] = data[b][f] /\ SizeOnFile(b, f)' = SizeOnFile(b, f)
          /\ f + 1 # n + 1
      BY <1>0, <1>4, <1>6, <2>2, <3>1
    <3> QED BY <3>2, <3>4, <3>5, <3>6
  <2> QED BY <2>1, <2>2
<1>8. data'[b][0].start = 0
  <2>1. CASE n = 0
    BY <1>2, <1>4, <2>1 DEF AllAdjoin, Adjoin
  <2>2. CASE n # 0
    BY <1>0, <1>2, <1>4, <2>2 DEF AllAdjoin, Adjoin
  <2> QED BY <2>1, <2>2
<1>9. Adjoin(b)'
  <2> HIDE DEF n
  <2>1. Made(b)' # 0 /\ Made(b)' - 1 = n
    BY <1>0, <1>2
  <2> QED BY <1>2, <1>7, <1>8, <2>1 DEF Adjoin
<1>10. ASSUME NEW f \in 0 .. n
       PROVE  /\ data'[b][f].timestamp <= clock
              /\ \A g \in 0 .. f : data'[b][g].timestamp <= data'[b][f].timestamp
  <2>0. \A g \in 0 .. n - 1 : data[b][g].timestamp <= clock
                              /\ \A h \in 0 .. g : data[b][h].timestamp <= data[b][g].timestamp
    BY <1>2 DEF AllInTime, InTime
  <2>1. CASE f = n
    <3>1. ASSUME NEW g \in 0 .. f PROVE data'[b][g].timestamp <= clock
      <4>1. g = n \/ g \in 0 .. n - 1
        BY <1>0, <2>1
      <4> QED BY <1>0, <1>4, <2>0, <4>1
    <3> QED BY <1>0, <1>4, <2>1, <3>1
  <2>2. CASE f # n
    <3>1. f \in 0 .. n - 1 /\ \A g \in 0 .. f : g \in 0 .. n - 1
      BY <1>0, <2>2
    <3> QED BY <1>4, <2>0, <3>1
  <2> QED BY <2>1, <2>2
<1>11. InTime(b)'
  <2> HIDE DEF n
  <2>1. Made(b)' - 1 = n
    BY <1>0, <1>2
  <2> QED BY <1>1, <1>10, <2>1 DEF InTime
<1> QED BY <1>9, <1>11

LEMMA EntriesStep ==
    ASSUME TypeOK, AllPlaced, AllAdjoin, AllInTime, [Next]_vars
    PROVE  AllAdjoin' /\ AllInTime'
<1> SUFFICES ASSUME NEW c \in Buffers' PROVE Adjoin(c)' /\ InTime(c)'
  BY DEF AllAdjoin, AllInTime
<1>0. UNCHANGED setup /\ c \in Buffers /\ clock \in Nat
  BY SetupStays DEF Next, vars, TypeOK, SystemOK
<1>1. ASSUME NEW b \in Buffers, Ingest(b), c # b PROVE Adjoin(c)' /\ InTime(c)'
  <2>1. SameFor(c) /\ UNCHANGED clock
    BY <1>0, <1>1, IngestLocal DEF Ingest, WriteHeaders, WriteBlocks, MarkFrame, Publish
  <2>2. SameEntries(c)
    BY <2>1 DEF SameFor, SameEntries, Made
  <2> QED BY <1>0, <2>1, <2>2, EntriesStay
<1>2. ASSUME Ingest(c), ~MarkFrame(c) PROVE Adjoin(c)' /\ InTime(c)'
  <2>1. UNCHANGED <<clock, n_bytes_written, data>>
    BY <1>2 DEF Ingest, WriteHeaders, WriteBlocks, Publish, index
  <2>2. Made(c)' = Made(c)
    <3>1. CASE Publish(c)
      <4>1. n_frames_written[c] \in Nat
        BY <1>0 DEF TypeOK, IndexOK
      <4> QED BY <1>0, <3>1, <4>1 DEF Publish, Made, TypeOK, IndexOK, IngestOK
    <3>2. CASE WriteBlocks(c)
      BY <1>0, <3>2 DEF WriteBlocks, index, Made, TypeOK, IngestOK
    <3>3. ASSUME NEW n \in Sizes, WriteHeaders(c, n) PROVE Made(c)' = Made(c)
      BY <1>0, <3>3 DEF WriteHeaders, index, Made, TypeOK, IngestOK
    <3> QED BY <1>2, <3>1, <3>2, <3>3 DEF Ingest
  <2>3. SameEntries(c)
    <3>1. Grows(c)
      BY <1>0, <1>2, IngestGrows
    <3> QED BY <2>1, <2>2, <3>1 DEF SameEntries, Grows
  <2> QED BY <1>0, <2>1, <2>3, EntriesStay
<1>3. CASE Restart
  <2>1. /\ n_bytes_written'[c] = 0 /\ n_frames_written'[c] = 0 /\ wpc'[c] = "idle"
    BY <1>0, <1>3 DEF Restart
  <2> QED BY <2>1 DEF Adjoin, InTime, Made
<1>4. CASE Tick \/ Read \/ UNCHANGED vars
  <2>1. UNCHANGED <<session, file, offset, index, wpc, wsize>>
    BY <1>4, OthersLeave DEF vars, ingest
  <2>2. clock' \in Nat /\ clock' >= clock
    <3>1. clock' = clock \/ clock' = clock + 1
      BY <1>4, OthersLeave DEF Tick, vars
    <3> QED BY <1>0, <3>1
  <2>3. SameEntries(c)
    BY <2>1 DEF SameEntries, Made, index
  <2> QED BY <1>0, <2>2, <2>3, EntriesStay
<1> QED BY <1>0, <1>1, <1>2, <1>3, <1>4, EntryMade DEF Next

-----------------------------------------------------------------------------
(* The frame that is read, seen from the reader: entry, header, blocks. *)

LEMMA ReaderStep ==
    ASSUME TypeOK, AllPlaced, ReaderOK, Reading, [Next]_vars
    PROVE  ReaderOK'
<1>0. UNCHANGED setup /\ rbuf \in Buffers /\ n_frames_written \in [Buffers -> Nat]
      /\ converts \in BOOLEAN /\ rframe \in Nat /\ rwritten \in Nat
  BY DEF Next, vars, TypeOK, SystemOK, IndexOK, ReaderOK
<1>1. CASE (\E b \in Buffers : Ingest(b)) \/ Tick \/ UNCHANGED vars
  <2>1. UNCHANGED reader
    BY <1>1, OthersLeave DEF Ingest, WriteHeaders, WriteBlocks, MarkFrame, Publish, vars
  <2>2. n_frames_written'[rbuf] >= n_frames_written[rbuf]
    <3>1. CASE Tick \/ UNCHANGED vars
      <4>1. n_frames_written' = n_frames_written
        BY <3>1, OthersLeave DEF vars, ingest, index
      <4> QED BY <1>0, <4>1
    <3>2. ASSUME NEW b \in Buffers, Ingest(b)
          PROVE  n_frames_written'[rbuf] >= n_frames_written[rbuf]
      BY <1>0, <3>2, IngestGrows DEF Grows
    <3> QED BY <1>1, <3>1, <3>2
  <2>3. n_frames_written'[rbuf] \in Nat
    <3>1. TypeOK'
      BY TypeStep
    <3>2. rbuf \in Buffers'
      BY <1>0, SetupStays
    <3> QED BY <3>1, <3>2 DEF TypeOK, IndexOK
  <2>4. /\ converts' = converts /\ rpc' = rpc /\ rbuf' = rbuf /\ rframe' = rframe
        /\ rstart' = rstart /\ rwritten' = rwritten
    BY <2>1 DEF reader, record
  <2>5. converts => rwritten <= n_frames_written'[rbuf]
    BY <1>0, <2>2, <2>3 DEF ReaderOK
  <2> QED BY <2>4, <2>5 DEF ReaderOK
<1>2. CASE Restart
  <2>1. n_frames_written'[rbuf] = 0 /\ ReaderAfterCrash
    BY <1>0, <1>2 DEF Restart
  <2>2. CASE converts
    <3>1. rwritten' = 0 /\ UNCHANGED <<converts, rpc, rbuf, rframe, rstart>>
      BY <2>1, <2>2 DEF ReaderAfterCrash, record
    <3>2. rwritten' <= n_frames_written'[rbuf']
      BY <2>1, <3>1
    <3>3. rpc' \in {"located", "headers", "loaded", "threw"}
      BY <2>2, <3>1 DEF ReaderOK
    <3>4. converts' \in BOOLEAN /\ rframe' \in Nat /\ rwritten' \in Nat
      BY <1>0, <3>1
    <3>5. rpc' # "idle"
      BY <3>3
    <3> QED BY <3>2, <3>3, <3>4, <3>5, Zenon DEF ReaderOK
  <2>3. CASE ~converts
    <3>1. /\ converts' = FALSE /\ rframe' = 0 /\ rstart' = 0 /\ rwritten' = 0
      BY <2>1, <2>3 DEF ReaderAfterCrash, NoReader
    <3>2. rframe' \in Nat /\ rwritten' \in Nat
      BY <3>1
    <3> QED BY <3>1, <3>2, Zenon DEF ReaderOK
  <2> QED BY <2>2, <2>3
<1>3. ASSUME NEW b \in Buffers, NEW f \in Frames, BeginReadFrame(b, f) PROVE ReaderOK'
  <2>1. /\ rpc = "idle" /\ rpc' = "located" /\ rframe' = f /\ UNCHANGED <<converts, rwritten>>
    BY <1>3 DEF BeginReadFrame
  <2>2. f \in Nat
    BY DEF Frames
  <2> QED BY <2>1, <2>2 DEF ReaderOK
<1>4. CASE ReadHeaders \/ LoadBlocks \/ ReadThrows
  <2>1. /\ rpc \in {"located", "headers"} /\ rpc' \in {"headers", "loaded", "threw"}
        /\ UNCHANGED <<converts, rbuf, rframe, rwritten, n_frames_written>>
    BY <1>4 DEF ReadHeaders, LoadBlocks, ReadThrows, ingest, index, record
  <2> QED BY <2>1 DEF ReaderOK
<1>5. CASE EndRead
  BY <1>5 DEF EndRead, NoReader, ReaderOK
<1>6. ASSUME NEW b \in Buffers, BeginConvert(b) PROVE ReaderOK'
  <2>1. /\ rpc = "idle" /\ rpc' = "located" /\ converts' = TRUE /\ rbuf' = b
        /\ rwritten' = n_frames_written[b]
        /\ UNCHANGED <<rframe, n_frames_written>>
    BY <1>6 DEF BeginConvert, ingest, index, record
  <2> QED BY <1>0, <2>1 DEF ReaderOK
<1>7. CASE process
  <2>1. /\ converts /\ rpc' = "located" /\ rframe' = rframe + 1
        /\ UNCHANGED <<converts, rbuf, rwritten, n_frames_written>>
    BY <1>7 DEF process, ingest, index
  <2> QED BY <1>0, <2>1 DEF ReaderOK
<1>8. CASE find_timecode \/ timestamp_search
           \/ \E other, b \in Buffers, f \in Frames : AlignStamp(other, f, b)
  <2>1. /\ rpc \in {"idle", "stamped", "search"} /\ rpc' \in {"stamped", "search", "aligned"}
        /\ UNCHANGED <<converts, rframe>>
        /\ rwritten' \in {rwritten, n_frames_written[rbuf]}
    BY <1>8 DEF find_timecode, timestamp_search, AlignStamp, Found, SearchIn, record
  <2> QED BY <1>0, <2>1 DEF ReaderOK
<1> QED
  BY <1>1, <1>2, <1>3, <1>4, <1>5, <1>6, <1>7, <1>8 DEF Next, Read

(* What the promise is about lies on the file. *)
LEMMA RecordThere ==
    ASSUME TypeOK, AllPlaced, AllPublished, AllAdjoin, NEW b \in Buffers,
           NEW f \in 0 .. n_frames_written[b] - 1
    PROVE  \E n \in Sizes :
              /\ data[b][f].start \in Nat /\ n \in Nat /\ n >= 2
              /\ data[b][f].start + n <= n_bytes_written[b]
              /\ data[b][f].start + n <= DiskSize /\ DiskSize \in Nat
              /\ OnFile(b, f, data[b][f].start, n)
              /\ file[b][data[b][f].start] = Cell(session, f, 1, n)
<1> USE SetupFacts DEF TypeOK, SystemOK
<1>1. PICK n \in Sizes : /\ data[b][f].start + n <= n_bytes_written[b]
                         /\ OnFile(b, f, data[b][f].start, n)
  BY DEF AllPublished, Published
<1>2. n \in Nat /\ n >= 2 /\ DiskSize \in Nat
  OBVIOUS
<1>3. data[b][f].start \in Nat
  <2>1. n_frames_written[b] \in Nat /\ f \in 0 .. Made(b) - 1
    BY MadeFacts DEF IndexOK
  <2> QED BY <2>1, MadeFacts DEF Offsets
<1>4. n_bytes_written[b] <= DiskSize /\ n_bytes_written[b] \in Nat
  BY DEF AllPlaced, Placed, IndexOK, FilesOK, IngestOK
<1>5. file[b][data[b][f].start] = Cell(session, f, 1, n)
  <2>1. 1 \in 1 .. n /\ data[b][f].start + 1 - 1 = data[b][f].start
    BY <1>2, <1>3
  <2>2. file[b][data[b][f].start + 1 - 1] = Cell(session, f, 1, n)
    BY <1>1, <2>1 DEF OnFile
  <2> QED BY <2>1, <2>2
<1> QED BY <1>1, <1>2, <1>3, <1>4, <1>5

LEMMA ReadingStep ==
    ASSUME TypeOK, AllPlaced, AllPublished, AllAdjoin, ReaderOK, Reading, [Next]_vars
    PROVE  Reading'
<1>0. UNCHANGED setup /\ rbuf \in Buffers /\ n_frames_written[rbuf] \in Nat
      /\ n_bytes_written[rbuf] \in Nat /\ rframe \in Nat /\ rwritten \in Nat
  BY DEF Next, vars, TypeOK, SystemOK, IndexOK, ReaderOK
(* The ingest of the buffer goes on under the reader's hands. *)
<1>1. ASSUME UNCHANGED <<session, reader>>, Grows(rbuf) PROVE Reading'
  <2> SUFFICES ASSUME Promised' PROVE Reading'
    BY DEF Reading
  <2>1. UNCHANGED <<rpc, rbuf, rframe, rstart, rsize, rgot, converts, rwritten>> /\ Promised
    BY <1>1 DEF reader, record, Promised
  <2>2. ASSUME rpc \in {"located", "headers", "loaded"}
        PROVE  /\ rframe \in 0 .. n_frames_written'[rbuf] - 1
               /\ rstart = data'[rbuf][rframe].start
    BY <1>0, <1>1, <2>1, <2>2 DEF Reading, Grows
  <2>3. ASSUME rpc \in {"headers", "loaded"}
        PROVE  /\ rstart + rsize <= n_bytes_written'[rbuf]
               /\ \A k \in 1 .. rsize :
                     file'[rbuf][rstart + k - 1] = Cell(session, rframe, k, rsize)
    <3>1. /\ rsize \in Nat /\ rframe \in 0 .. n_frames_written[rbuf] - 1
          /\ rstart = data[rbuf][rframe].start
          /\ rstart + rsize <= n_bytes_written[rbuf]
          /\ OnFile(rbuf, rframe, rstart, rsize)
      BY <2>1, <2>3, SetupFacts DEF Reading, TypeOK, SystemOK
    <3>2. rstart \in Nat
      BY <1>0, <3>1, RecordThere
    <3>3. Placed(rbuf)
      BY <1>0 DEF AllPlaced
    <3>4. rstart + rsize <= n_bytes_written'[rbuf]
      BY <1>0, <1>1, <3>1, <3>2 DEF Grows
    <3>5. \A k \in 1 .. rsize : file'[rbuf][rstart + k - 1] = Cell(session, rframe, k, rsize)
      BY <1>0, <1>1, <3>1, <3>2, <3>3, RecordStays
    <3> QED BY <3>4, <3>5
  <2> QED
    BY <1>0, <1>1, <2>1, <2>2, <2>3, SetupStays DEF Reading, OnFile, Record
<1>2. ASSUME NEW b \in Buffers, Ingest(b) PROVE Reading'
  <2>1. UNCHANGED <<session, reader>>
    BY <1>2 DEF Ingest, WriteHeaders, WriteBlocks, MarkFrame, Publish
  <2> QED BY <1>0, <1>1, <1>2, <2>1, IngestGrows
<1>3. CASE Restart
  <2>1. CASE converts
    <3>1. converts' /\ rwritten' = 0 /\ rframe' = rframe
      BY <1>3, <2>1 DEF Restart, ReaderAfterCrash, record
    <3> QED BY <1>0, <3>1 DEF Reading, Promised
  <2>2. CASE ~converts
    BY <1>3, <2>2 DEF Restart, ReaderAfterCrash, NoReader, Reading
  <2> QED BY <2>1, <2>2
<1>4. CASE Tick \/ UNCHANGED vars
  <2>1. UNCHANGED <<session, file, offset, index, wpc, wsize, reader>>
    BY <1>4, OthersLeave DEF vars, ingest
  <2>2. SameFor(rbuf)
    BY <2>1 DEF SameFor, index
  <2> QED BY <1>0, <1>1, <2>1, <2>2, SameGrows
<1>5. ASSUME NEW b \in Buffers, NEW f \in Frames, BeginReadFrame(b, f) PROVE Reading'
  <2>1. /\ rpc' = "located" /\ rbuf' = b /\ rframe' = f
        /\ f < n_frames_written[b] /\ f >= 0
        /\ rstart' = data[b][f].start
        /\ UNCHANGED <<data, n_frames_written>>
    BY <1>5 DEF BeginReadFrame, get_frame_location, Exists, ingest, index
  <2>2. n_frames_written[b] \in Nat /\ f \in Int
    BY DEF TypeOK, IndexOK, Frames
  <2> QED BY <2>1, <2>2 DEF Reading
<1>6. CASE ReadHeaders
  <2> SUFFICES ASSUME Promised' PROVE Reading'
    BY DEF Reading
  <2>1. /\ rpc = "located" /\ rpc' = "headers"
        /\ rgot' = {file[rbuf][rstart]} /\ rsize' = file[rbuf][rstart].size
        /\ UNCHANGED <<session, file, n_bytes_written, n_frames_written, data,
                       rbuf, rframe, rstart, converts, rwritten>>
    BY <1>6 DEF ReadHeaders, ingest, index
  <2>2. rframe \in 0 .. n_frames_written[rbuf] - 1 /\ rstart = data[rbuf][rframe].start
    BY <2>1 DEF Reading, Promised
  <2>3. PICK n \in Sizes : /\ rstart + n <= n_bytes_written[rbuf]
                           /\ OnFile(rbuf, rframe, rstart, n)
                           /\ file[rbuf][rstart] = Cell(session, rframe, 1, n)
    BY <1>0, <2>2, RecordThere
  <2>4. rsize' = n /\ rgot' = {Cell(session, rframe, 1, n)}
    BY <2>1, <2>3 DEF Cell
  <2> QED BY <1>0, <2>1, <2>2, <2>3, <2>4, SetupStays DEF Reading, OnFile
<1>7. CASE LoadBlocks
  <2> SUFFICES ASSUME Promised' PROVE Reading'
    BY DEF Reading
  <2>1. /\ rpc = "headers" /\ rpc' = "loaded"
        /\ rgot' = rgot \cup {file[rbuf][o] : o \in rstart + 1 .. rstart + rsize - 1}
        /\ UNCHANGED <<session, file, n_bytes_written, n_frames_written, data,
                       rbuf, rframe, rstart, rsize, converts, rwritten>>
    BY <1>7 DEF LoadBlocks, ingest, index
  <2>2. /\ rsize \in Sizes
        /\ rstart + rsize <= n_bytes_written[rbuf]
        /\ OnFile(rbuf, rframe, rstart, rsize)
        /\ rgot = {Cell(session, rframe, 1, rsize)}
        /\ rframe \in 0 .. n_frames_written[rbuf] - 1
        /\ rstart = data[rbuf][rframe].start
    BY <2>1 DEF Reading, Promised
  <2>3. rstart \in Nat /\ rsize \in Nat /\ rsize >= 2
    BY <1>0, <2>2, RecordThere, SetupFacts DEF TypeOK, SystemOK
  <2>4. ASSUME NEW o \in rstart + 1 .. rstart + rsize - 1
        PROVE  /\ o - rstart + 1 \in 2 .. rsize
               /\ file[rbuf][o] = Cell(session, rframe, o - rstart + 1, rsize)
    <3>1. o - rstart + 1 \in 1 .. rsize /\ rstart + (o - rstart + 1) - 1 = o
          /\ o - rstart + 1 \in 2 .. rsize
      BY <2>3
    <3> QED BY <2>2, <3>1 DEF OnFile
  <2>5. ASSUME NEW k \in 2 .. rsize
        PROVE  /\ rstart + k - 1 \in rstart + 1 .. rstart + rsize - 1
               /\ file[rbuf][rstart + k - 1] = Cell(session, rframe, k, rsize)
    BY <2>2, <2>3 DEF OnFile
  <2>6. 1 .. rsize = {1} \cup 2 .. rsize
    BY <2>3
  <2>7. rgot' = {Cell(session, rframe, k, rsize) : k \in 1 .. rsize}
    <3>1. ASSUME NEW x \in rgot' PROVE \E k \in 1 .. rsize : x = Cell(session, rframe, k, rsize)
      BY <2>1, <2>2, <2>4, <2>6
    <3>2. ASSUME NEW k \in 1 .. rsize PROVE Cell(session, rframe, k, rsize) \in rgot'
      BY <2>1, <2>2, <2>5, <2>6
    <3> QED BY <3>1, <3>2
  <2>8. rgot' = Record(session, rframe, rsize)'
    BY <2>1, <2>7 DEF Record
  <2>9. OnFile(rbuf, rframe, rstart, rsize)'
    BY <2>1, <2>2 DEF OnFile
  <2> QED BY <1>0, <2>1, <2>2, <2>8, <2>9, SetupStays DEF Reading
(* What is promised is there to be read. *)
<1>8. CASE ReadThrows
  <2> SUFFICES ASSUME Promised' PROVE FALSE
    BY DEF Reading
  <2>1. /\ Promised
        /\ (rpc = "located" /\ ~HeaderThere) \/ (rpc = "headers" /\ ~BlocksThere)
    <3>1. UNCHANGED <<converts, rframe, rwritten>>
      BY <1>8 DEF ReadThrows, record
    <3> QED BY <1>8, <3>1 DEF ReadThrows, Promised
  <2>2. rframe \in 0 .. n_frames_written[rbuf] - 1 /\ rstart = data[rbuf][rframe].start
    BY <2>1 DEF Reading
  <2>3. PICK n \in Sizes :
           /\ rstart \in Nat /\ n \in Nat /\ n >= 2
           /\ rstart + n <= DiskSize /\ DiskSize \in Nat
           /\ OnFile(rbuf, rframe, rstart, n)
           /\ file[rbuf][rstart] = Cell(session, rframe, 1, n)
    BY <1>0, <2>2, RecordThere
  <2>4. CASE rpc = "located"
    <3>1. rstart < DiskSize
      BY <2>3
    <3> QED BY <2>1, <2>3, <2>4, <3>1 DEF HeaderThere, IsHeader, Cell
  <2>5. CASE rpc = "headers"
    <3>1. rsize \in Sizes /\ OnFile(rbuf, rframe, rstart, rsize)
          /\ rstart + rsize <= n_bytes_written[rbuf]
      BY <2>1, <2>5 DEF Reading
    <3>2. rsize \in Nat /\ rsize >= 2 /\ rstart + rsize <= DiskSize
      <4>1. n_bytes_written[rbuf] <= DiskSize
        BY <1>0, SetupFacts
        DEF AllPlaced, Placed, TypeOK, SystemOK, IndexOK, FilesOK, IngestOK
      <4>2. rsize \in Nat /\ rsize >= 2
        BY <3>1, SetupFacts DEF TypeOK, SystemOK
      <4> QED BY <1>0, <2>3, <3>1, <4>1, <4>2
    <3>3. file[rbuf][rstart + rsize - 1] = Cell(session, rframe, rsize, rsize)
      BY <3>1, <3>2 DEF OnFile
    <3>4. Cell(session, rframe, rsize, rsize) # Hole
      BY <1>0 DEF Cell, Hole
    <3> QED BY <2>1, <2>5, <3>2, <3>3, <3>4 DEF BlocksThere
  <2> QED BY <2>1, <2>4, <2>5
<1>9. ASSUME NEW b \in Buffers, BeginConvert(b) PROVE Reading'
  <2> SUFFICES ASSUME Promised' PROVE Reading'
    BY DEF Reading
  <2>1. /\ rpc' = "located" /\ converts' = TRUE /\ rbuf' = b
        /\ rwritten' = n_frames_written[b] /\ rframe' = 0 /\ rstart' = 0
        /\ UNCHANGED <<data, n_frames_written>>
    BY <1>9 DEF BeginConvert, ingest, index, record, ReaderOK
  <2>2. n_frames_written[b] \in Nat /\ n_frames_written[b] > 0
    BY <2>1 DEF TypeOK, IndexOK, Promised
  <2>3. data[b][0].start = 0
    BY <2>2, MadeFacts DEF AllAdjoin, Adjoin
  <2> QED BY <2>1, <2>2, <2>3 DEF Reading
<1>10. CASE process
  <2> SUFFICES ASSUME Promised' PROVE Reading'
    BY DEF Reading
  <2>1. /\ rpc = "loaded" /\ converts /\ rframe' = rframe + 1 /\ rstart' = rstart + rsize
        /\ rpc' = "located"
        /\ UNCHANGED <<data, n_frames_written, converts, rbuf, rwritten>>
    BY <1>10 DEF process, ingest, index
  <2>2. rframe + 1 < rwritten /\ rwritten <= n_frames_written[rbuf] /\ Promised
    BY <1>0, <2>1 DEF Promised, ReaderOK
  <2>3. /\ rstart = data[rbuf][rframe].start /\ rsize \in Sizes
        /\ OnFile(rbuf, rframe, rstart, rsize)
    BY <2>1, <2>2 DEF Reading
  <2>4. SizeOnFile(rbuf, rframe) = rsize
    <3>1. rstart \in Nat /\ rsize \in Nat /\ rsize >= 2
      <4>1. rframe \in 0 .. n_frames_written[rbuf] - 1
        BY <1>0, <2>2
      <4> QED BY <1>0, <2>3, <4>1, RecordThere, SetupFacts DEF TypeOK, SystemOK
    <3>2. 1 \in 1 .. rsize /\ rstart + 1 - 1 = rstart
      BY <3>1
    <3>3. file[rbuf][rstart + 1 - 1] = Cell(session, rframe, 1, rsize)
      BY <2>3, <3>2 DEF OnFile
    <3> QED BY <2>3, <3>2, <3>3 DEF SizeOnFile, Cell
  <2>5. rstart + rsize = data[rbuf][rframe + 1].start
    <3>1. Made(rbuf) \in Nat /\ n_frames_written[rbuf] <= Made(rbuf)
      BY <1>0, MadeFacts
    <3>2. rframe \in 0 .. Made(rbuf) - 1 /\ rframe + 1 # Made(rbuf)
      BY <1>0, <2>2, <3>1
    <3> QED BY <1>0, <2>3, <2>4, <3>2 DEF AllAdjoin, Adjoin
  <2>6. rframe + 1 \in 0 .. n_frames_written[rbuf] - 1
    BY <1>0, <2>2
  <2> QED BY <2>1, <2>5, <2>6 DEF Reading
<1>11. CASE EndRead \/ find_timecode \/ timestamp_search
            \/ \E other, b \in Buffers, f \in Frames : AlignStamp(other, f, b)
  <2>1. rpc' \in {"idle", "stamped", "search", "aligned"}
    BY <1>11 DEF EndRead, NoReader, find_timecode, timestamp_search, AlignStamp, Found, SearchIn
  <2> QED BY <2>1 DEF Reading
<1> QED
  BY <1>2, <1>3, <1>4, <1>5, <1>6, <1>7, <1>8, <1>9, <1>10, <1>11 DEF Next, Read

-----------------------------------------------------------------------------
(* The search for a time stamp *)

LEMMA StampFacts ==
    ASSUME TypeOK, AllPlaced, AllAdjoin, AllInTime
    PROVE  \A f \in 0 .. n_frames_written[rbuf] - 1 :
              /\ StampOf(f) \in Nat
              /\ \A g \in 0 .. f : StampOf(g) <= StampOf(f)
<1> SUFFICES ASSUME NEW f \in 0 .. n_frames_written[rbuf] - 1
             PROVE  StampOf(f) \in Nat /\ \A g \in 0 .. f : StampOf(g) <= StampOf(f)
  OBVIOUS
<1>1. rbuf \in Buffers /\ n_frames_written[rbuf] \in Nat
  BY DEF TypeOK, SystemOK, IndexOK
<1>2. f \in 0 .. Made(rbuf) - 1
  BY <1>1, MadeFacts
<1> QED BY <1>1, <1>2, MadeFacts DEF Entries, StampOf, AllInTime, InTime

LEMMA SearchingStep ==
    ASSUME TypeOK, AllPlaced, AllAdjoin, AllInTime, ReaderOK, Searching, [Next]_vars
    PROVE  Searching'
<1>0. /\ UNCHANGED setup /\ rbuf \in Buffers /\ rstamp \in Nat
      /\ n_frames_written[rbuf] \in Nat /\ rwritten \in Nat
  BY DEF Next, vars, TypeOK, SystemOK, IndexOK, ReaderOK, Searching
(* More entries do not change what was found among the first ones. *)
<1>1. ASSUME UNCHANGED reader, Grows(rbuf) PROVE Searching'
  <2>1. UNCHANGED <<rpc, rbuf, rwritten, rstamp, rfirst, rlast, rresult>>
    BY <1>1 DEF reader, search
  <2>2. ASSUME rwritten <= n_frames_written[rbuf]
        PROVE  /\ rwritten <= n_frames_written'[rbuf]
               /\ \A f \in 0 .. rwritten - 1 : StampOf(f)' = StampOf(f)
    BY <1>0, <1>1, <2>1, <2>2 DEF Grows, StampOf
  <2>3. CASE rpc = "search"
    <3>1. /\ rwritten <= n_frames_written[rbuf] /\ rfirst \in Nat /\ rlast \in Nat
          /\ rfirst <= rlast /\ rlast < rwritten /\ StampOf(rfirst) <= rstamp
          /\ \A g \in rlast + 1 .. rwritten - 1 : StampOf(g) > rstamp
      BY <2>3 DEF Searching
    <3>2. rfirst \in 0 .. rwritten - 1
          /\ \A g \in rlast + 1 .. rwritten - 1 : g \in 0 .. rwritten - 1
      BY <1>0, <3>1
    <3>3. StampOf(rfirst)' = data'[rbuf][rfirst].timestamp
          /\ \A f \in 0 .. rwritten - 1 : data'[rbuf][f].timestamp = StampOf(f)
      BY <2>1, <2>2, <3>1 DEF StampOf
    <3>4. StampOf(rfirst)' <= rstamp /\ \A g \in rlast + 1 .. rwritten - 1 : StampOf(g)' > rstamp
      BY <2>2, <3>1, <3>2, <3>3
    <3> QED BY <1>0, <2>1, <2>2, <2>3, <3>1, <3>4 DEF Searching
  <2>4. CASE rpc = "aligned"
    <3>1. rwritten <= n_frames_written[rbuf]
      BY <2>4 DEF Searching
    <3>2. ASSUME rwritten > 0
          PROVE  \/ StampOf(0)' >= rstamp \/ rstamp >= StampOf(rwritten - 1)'
                 \/ IsLast(rresult)'
      <4>1. 0 \in 0 .. rwritten - 1 /\ rwritten - 1 \in 0 .. rwritten - 1
        BY <1>0, <3>2
      <4>2. /\ \A f \in 0 .. rwritten - 1 : data'[rbuf][f].timestamp = StampOf(f)
            /\ StampOf(rwritten - 1)' = data'[rbuf][rwritten - 1].timestamp
            /\ StampOf(rresult)' = data'[rbuf][rresult].timestamp
        BY <2>1, <2>2, <3>1 DEF StampOf
      <4>3. StampOf(0)' = StampOf(0) /\ StampOf(rwritten - 1)' = StampOf(rwritten - 1)
        BY <2>2, <3>1, <4>1, <4>2
      <4>4. ASSUME IsLast(rresult) PROVE IsLast(rresult)'
        <5>1. rresult \in 0 .. rwritten - 1 /\ StampOf(rresult)' = StampOf(rresult)
          BY <4>2, <4>4 DEF IsLast
        <5>2. \A g \in 0 .. rwritten - 1 : StampOf(g)' <= rstamp => g <= rresult
          BY <2>2, <3>1, <4>4 DEF IsLast
        <5> QED BY <2>1, <4>4, <5>1, <5>2 DEF IsLast
      <4> QED BY <2>4, <3>2, <4>3, <4>4 DEF Searching
    <3>3. rwritten' <= n_frames_written'[rbuf'] /\ rstamp' \in Nat
      BY <1>0, <2>1, <2>2, <3>1
    <3> QED BY <2>1, <2>4, <3>2, <3>3 DEF Searching
  <2>5. CASE rpc \notin {"search", "aligned"}
    BY <1>0, <2>1, <2>5 DEF Searching
  <2> QED BY <2>3, <2>4, <2>5
<1>2. ASSUME NEW b \in Buffers, Ingest(b) PROVE Searching'
  <2>1. UNCHANGED reader
    BY <1>2 DEF Ingest, WriteHeaders, WriteBlocks, MarkFrame, Publish
  <2> QED BY <1>0, <1>1, <1>2, <2>1, IngestGrows
<1>3. CASE Tick \/ UNCHANGED vars
  <2>1. UNCHANGED <<session, file, offset, index, wpc, wsize, reader>>
    BY <1>3, OthersLeave DEF vars, ingest
  <2>2. SameFor(rbuf)
    BY <2>1 DEF SameFor, index
  <2> QED BY <1>0, <1>1, <2>1, <2>2, SameGrows
<1>4. ASSUME rpc' \notin {"search", "aligned"}, rstamp' \in Nat PROVE Searching'
  BY <1>4 DEF Searching
<1>5. CASE Restart
  <2>1. CASE converts
    <3>1. rpc' = rpc /\ rstamp' = rstamp
      BY <1>5, <2>1 DEF Restart, ReaderAfterCrash, search
    <3>2. rpc \notin {"search", "aligned"}
      BY <2>1 DEF ReaderOK
    <3> QED BY <1>0, <1>4, <3>1, <3>2
  <2>2. CASE ~converts
    <3>1. rpc' = "idle" /\ rstamp' = 0
      BY <1>5, <2>2 DEF Restart, ReaderAfterCrash, NoReader
    <3> QED BY <1>4, <3>1
  <2> QED BY <2>1, <2>2
<1>6. CASE \/ ReadHeaders \/ LoadBlocks \/ ReadThrows \/ process
           \/ \E b \in Buffers : BeginConvert(b) \/ \E f \in Frames : BeginReadFrame(b, f)
  <2>1. rpc' \in {"located", "headers", "loaded", "threw"} /\ rstamp' = rstamp
    BY <1>6 DEF ReadHeaders, LoadBlocks, ReadThrows, process, BeginConvert, BeginReadFrame, search
  <2> QED BY <1>0, <1>4, <2>1
<1>7. CASE EndRead
  <2>1. rpc' = "idle" /\ rstamp' = 0
    BY <1>7 DEF EndRead, NoReader
  <2> QED BY <1>4, <2>1
<1>8. ASSUME NEW other \in Buffers, NEW b \in Buffers, NEW f \in Frames, AlignStamp(other, f, b)
      PROVE  Searching'
  <2>1. rpc' = "stamped" /\ rstamp' = data[other][f].timestamp
    BY <1>8 DEF AlignStamp, get_frame_timestamp, Exists
  <2>2. data[other][f] \in Entries
    BY DEF TypeOK, IndexOK
  <2> QED BY <1>4, <2>1, <2>2 DEF Entries
<1>9. CASE find_timecode
  <2> DEFINE end == n_frames_written[rbuf] - 1
  <2>1. /\ rwritten' = n_frames_written[rbuf] /\ rpc' \in {"search", "aligned"}
        /\ UNCHANGED <<data, n_frames_written, rbuf, rstamp>>
    BY <1>9 DEF find_timecode, Found, SearchIn, ingest, index
  <2>2. \A f \in 0 .. end : StampOf(f)' = StampOf(f) /\ StampOf(f) \in Nat
    BY <2>1, StampFacts DEF StampOf
  <2>3. CASE rpc' = "search"
    <3>1. /\ end >= 0 /\ rstamp > StampOf(0) /\ rfirst' = 0 /\ rlast' = end
      BY <1>9, <2>3 DEF find_timecode, Found, SearchIn, StampOf
    <3>2. StampOf(0)' <= rstamp
      BY <1>0, <2>2, <3>1
    <3>3. end \in Nat /\ end < n_frames_written[rbuf]
      BY <1>0, <3>1
    <3>4. end + 1 .. rwritten' - 1 = {}
      BY <1>0, <2>1
    <3>5. StampOf(rfirst)' <= rstamp
      BY <3>1, <3>2 DEF StampOf
    <3> HIDE DEF end
    <3> QED BY <1>0, <2>1, <2>3, <3>1, <3>3, <3>4, <3>5 DEF Searching
  <2>4. CASE rpc' = "aligned"
    <3>1. \/ end < 0
          \/ end >= 0 /\ rstamp <= StampOf(0)
          \/ end >= 0 /\ rstamp >= StampOf(end)
      BY <1>9, <2>4 DEF find_timecode, Found, SearchIn, StampOf
    <3>2. ASSUME rwritten' > 0
          PROVE  StampOf(0)' >= rstamp \/ rstamp >= StampOf(end)'
      BY <1>0, <2>1, <2>2, <3>1, <3>2
    <3>3. StampOf(rwritten - 1)' = StampOf(end)'
      BY <2>1 DEF StampOf
    <3> HIDE DEF end
    <3>4. rwritten' > 0 => \/ StampOf(0)' >= rstamp' \/ rstamp' >= StampOf(rwritten - 1)'
      BY <2>1, <3>2, <3>3
    <3>5. rwritten' <= n_frames_written'[rbuf'] /\ rstamp' \in Nat
      BY <1>0, <2>1
    <3> QED BY <2>4, <3>4, <3>5 DEF Searching
  <2> QED BY <2>1, <2>3, <2>4
<1>10. CASE timestamp_search
  <2> DEFINE mid == (rfirst + rlast) \div 2
  <2>1. /\ rpc = "search" /\ rpc' \in {"search", "aligned"}
        /\ UNCHANGED <<data, n_frames_written, rbuf, rwritten, rstamp>>
    BY <1>10 DEF timestamp_search, Found, SearchIn, ingest, index
  <2>2. /\ rwritten <= n_frames_written[rbuf] /\ rfirst \in Nat /\ rlast \in Nat
        /\ rfirst <= rlast /\ rlast < rwritten /\ StampOf(rfirst) <= rstamp
        /\ \A g \in rlast + 1 .. rwritten - 1 : StampOf(g) > rstamp
    BY <2>1 DEF Searching
  <2>3. \A f \in 0 .. rwritten - 1 :
           /\ StampOf(f) \in Nat /\ StampOf(f)' = StampOf(f)
           /\ \A g \in 0 .. f : StampOf(g) <= StampOf(f)
    <3>1. \A f \in 0 .. rwritten - 1 : f \in 0 .. n_frames_written[rbuf] - 1
      BY <1>0, <2>2
    <3> QED BY <2>1, <3>1, StampFacts DEF StampOf
  <2>4. rfirst \in 0 .. rwritten - 1 /\ rlast \in 0 .. rwritten - 1
    BY <1>0, <2>2
  (* What is found is the last one that is not newer. *)
  <2>5. ASSUME rpc' = "aligned", rresult' \in 0 .. rwritten - 1, StampOf(rresult') <= rstamp,
               rresult' >= rlast
        PROVE  Searching'
    <3>1. ASSUME NEW g \in 0 .. rwritten - 1, StampOf(g) <= rstamp
          PROVE  g <= rresult'
      <4>1. g \notin rlast + 1 .. rwritten - 1
        BY <1>0, <2>2, <2>3, <3>1
      <4> QED BY <1>0, <2>2, <2>5, <4>1
    <3>2. StampOf(rresult)' = StampOf(rresult')
      BY <2>1 DEF StampOf
    <3>3. \A g \in 0 .. rwritten - 1 : StampOf(g)' = StampOf(g)
      BY <2>3
    <3>4. IsLast(rresult)'
      <4>1. StampOf(rresult)' <= rstamp'
        BY <2>1, <2>5, <3>2
      <4>2. \A g \in 0 .. rwritten' - 1 : StampOf(g)' <= rstamp' => g <= rresult'
        BY <2>1, <3>1, <3>3
      <4> QED BY <2>1, <2>5, <4>1, <4>2 DEF IsLast
    <3>5. rwritten' <= n_frames_written'[rbuf'] /\ rstamp' \in Nat
      BY <1>0, <2>1, <2>2
    <3> QED BY <2>5, <3>4, <3>5 DEF Searching
  (* The range of the call within keeps what it looks for. *)
  <2>6. ASSUME NEW first \in Nat, NEW last \in Nat, SearchIn(first, last),
               first <= last, last < rwritten, StampOf(first) <= rstamp,
               \A g \in last + 1 .. rwritten - 1 : StampOf(g) > rstamp
        PROVE  Searching'
    <3>1. rpc' = "search" /\ rfirst' = first /\ rlast' = last
      BY <2>6 DEF SearchIn
    <3>2. StampOf(rfirst)' = StampOf(first)
      BY <2>1, <3>1 DEF StampOf
    <3>3. \A g \in last + 1 .. rwritten - 1 : StampOf(g)' > rstamp
      BY <2>1, <2>6 DEF StampOf
    <3>4. rwritten' <= n_frames_written'[rbuf'] /\ rstamp' \in Nat
      BY <1>0, <2>1, <2>2
    <3> QED BY <2>1, <2>6, <3>1, <3>2, <3>3, <3>4 DEF Searching
  <2>7. CASE rlast <= rfirst
    <3>1. rresult' = rfirst /\ rpc' = "aligned"
      BY <1>10, <2>7 DEF timestamp_search, Found
    <3>2. rfirst = rlast
      BY <2>2, <2>7
    <3> QED BY <2>2, <2>4, <2>5, <3>1, <3>2
  <2>8. CASE ~(rlast <= rfirst) /\ StampOf(rlast) <= rstamp
    <3>1. rresult' = rlast /\ rpc' = "aligned"
      BY <1>10, <2>8 DEF timestamp_search, Found, StampOf
    <3> QED BY <2>2, <2>4, <2>5, <2>8, <3>1
  <2>9. CASE ~(rlast <= rfirst) /\ ~(StampOf(rlast) <= rstamp)
    <3>1. /\ mid \in Nat /\ rfirst <= mid /\ mid <= rlast - 1 /\ rlast - 1 \in Nat
          /\ mid \in 0 .. rwritten - 1
      BY <1>0, <2>2, <2>9
    <3>2. ASSUME NEW m \in Nat, NEW g \in m .. rwritten - 1, m \in 0 .. rwritten - 1,
                 ~(StampOf(m) <= rstamp)
          PROVE  StampOf(g) > rstamp
      <4>1. g \in 0 .. rwritten - 1 /\ m \in 0 .. g
        BY <1>0, <3>2
      <4>2. StampOf(m) <= StampOf(g) /\ StampOf(m) \in Nat /\ StampOf(g) \in Nat
        BY <2>3, <3>2, <4>1
      <4> QED BY <1>0, <3>2, <4>2
    <3>3. CASE StampOf(mid) <= rstamp
      <4>1. SearchIn(mid, rlast - 1)
        BY <1>10, <2>9, <3>3 DEF timestamp_search, StampOf
      <4>2. \A g \in (rlast - 1) + 1 .. rwritten - 1 : StampOf(g) > rstamp
        <5>1. (rlast - 1) + 1 = rlast
          BY <2>2
        <5> QED BY <2>2, <2>4, <2>9, <3>2, <5>1
      <4>3. rlast - 1 < rwritten
        BY <1>0, <2>2
      <4> HIDE DEF mid
      <4> QED BY <2>6, <3>1, <3>3, <4>1, <4>2, <4>3
    <3>4. CASE ~(StampOf(mid) <= rstamp)
      <4>1. SearchIn(rfirst, mid - 1)
        BY <1>10, <2>9, <3>4 DEF timestamp_search, StampOf
      <4>2. mid # rfirst
        BY <2>2, <3>4
      <4> HIDE DEF mid
      <4>3. /\ mid - 1 \in Nat /\ rfirst <= mid - 1 /\ mid - 1 < rwritten
            /\ (mid - 1) + 1 = mid
        BY <1>0, <2>2, <3>1, <4>2
      <4>4. \A g \in (mid - 1) + 1 .. rwritten - 1 : StampOf(g) > rstamp
        BY <3>1, <3>2, <3>4, <4>3
      <4> QED BY <2>2, <2>6, <4>1, <4>3, <4>4
    <3> QED BY <3>3, <3>4
  <2> QED BY <2>7, <2>8, <2>9
<1> QED
  BY <1>2, <1>3, <1>5, <1>6, <1>7, <1>8, <1>9, <1>10 DEF Next, Read

LEMMA BufferInit == Init => BufferInv
<1> SUFFICES ASSUME Init PROVE BufferInv
  OBVIOUS
<1>1. Hole \in Cells /\ NoEntry \in Entries
  BY DEF Hole, Cells, NoEntry, Entries
<1>2. TypeOK
  BY <1>1 DEF Init, TypeOK, SystemOK, FilesOK, IndexOK, IngestOK
<1>3. AllPlaced
  BY <1>2, SetupFacts DEF Init, AllPlaced, Placed, TypeOK, SystemOK
<1>4. AllPublished /\ Reading /\ Searching
  BY DEF Init, AllPublished, Reading, Searching
<1>5. AllAdjoin /\ AllInTime
  BY DEF Init, AllAdjoin, Adjoin, AllInTime, InTime, Made
<1>6. ReaderOK
  <2>1. converts = FALSE /\ rframe = 0 /\ rstart = 0 /\ rframe \in Nat /\ rwritten \in Nat
    BY DEF Init
  <2> QED BY <2>1, Zenon DEF ReaderOK
<1> QED BY <1>2, <1>3, <1>4, <1>5, <1>6 DEF BufferInv

LEMMA BufferInvHolds == Spec => []BufferInv
<1>1. BufferInv /\ [Next]_vars => BufferInv'
  BY TypeStep, PlacedStep, PublishedStep, EntriesStep, ReaderStep, ReadingStep, SearchingStep
  DEF BufferInv
<1> QED BY <1>1, BufferInit, PTL DEF Spec

(***************************************************************************)
(* Whatever the index publishes lies whole on the file, written by this    *)
(* run, in front of the bytes the index accounts for, on files that runs   *)
(* before it left at any length and cut at any place.                      *)
(***************************************************************************)
THEOREM IndexPublishesFile == Spec => []PublishedIsOnFile
<1>1. BufferInv => PublishedIsOnFile
  BY DEF BufferInv, AllPublished, Published, OnFile, PublishedIsOnFile
<1> QED BY <1>1, BufferInvHolds, PTL

(***************************************************************************)
(* A reader that takes no lock gets the whole record of the frame it asked *)
(* for, however far the ingest thread appends between entry, header and    *)
(* blocks.                                                                 *)
(***************************************************************************)
THEOREM ReadersGetTheirFrame == Spec => []ReaderGetsItsFrame
<1>1. BufferInv => ReaderGetsItsFrame
  BY DEF BufferInv, Reading, Promised, ReaderGetsItsFrame
<1> QED BY <1>1, BufferInvHolds, PTL

(***************************************************************************)
(* A converter gets every frame published when it came, whole and in       *)
(* order, while the ingest thread appends: records follow one another from *)
(* the beginning of the file without a gap, over whatever older runs left. *)
(***************************************************************************)
THEOREM ConvertersGetFramesInOrder == Spec => []ConvertedInOrder
<1>1. BufferInv => ConvertedInOrder
  BY DEF BufferInv, Reading, Promised, ConvertedInOrder
<1> QED BY <1>1, BufferInvHolds, PTL

(***************************************************************************)
(* The search for a time stamp between the ends of the index ends at the   *)
(* last frame that is not newer, for an index of any length, equal stamps, *)
(* and an ingest thread that publishes more frames during the search.      *)
(***************************************************************************)
THEOREM AlignmentFindsFrame == Spec => []AlignsInside
<1>1. BufferInv => AlignsInside
  <2> SUFFICES ASSUME BufferInv, rpc = "aligned", rwritten > 0,
                      StampOf(0) < rstamp, rstamp < StampOf(rwritten - 1)
               PROVE  rresult = LastNotAfter(data[rbuf], rwritten, rstamp)
    BY DEF AlignsInside, AsksInside, StampOf
  <2>1. rwritten \in Nat /\ rstamp \in Nat /\ rwritten <= n_frames_written[rbuf]
    BY DEF BufferInv, ReaderOK, Searching
  <2>2. n_frames_written[rbuf] \in Nat
    BY DEF BufferInv, TypeOK, SystemOK, IndexOK
  <2>3. StampOf(0) \in Nat /\ StampOf(rwritten - 1) \in Nat
    BY <2>1, <2>2, StampFacts DEF BufferInv
  <2>4. IsLast(rresult)
    <3>1. ~(StampOf(0) >= rstamp) /\ ~(rstamp >= StampOf(rwritten - 1))
      BY <2>1, <2>3
    <3> QED BY <3>1 DEF BufferInv, Searching
  <2>5. ASSUME NEW f \in 0 .. rwritten - 1, IsLast(f) PROVE f = rresult
    <3>1. f <= rresult /\ rresult <= f /\ rresult \in 0 .. rwritten - 1
      BY <2>4, <2>5 DEF IsLast
    <3> QED BY <3>1
  <2>6. LastNotAfter(data[rbuf], rwritten, rstamp)
          = CHOOSE f \in 0 .. rwritten - 1 :
               /\ StampOf(f) <= rstamp
               /\ \A g \in 0 .. rwritten - 1 : StampOf(g) <= rstamp => g <= f
    BY DEF LastNotAfter, StampOf
  <2> QED BY <2>4, <2>5, <2>6 DEF IsLast
<1> QED BY <1>1, BufferInvHolds, PTL
=============================================================================
