----------------------------- MODULE RecordFormat -----------------------------
(***************************************************************************)
(* What a record of a replay buffer looks like on the file, byte by byte,  *)
(* and how it is read back (ReplayBuffer looks at when this happens).      *)
(* write_frame of replay/replay_buffer.cpp makes a set of labelled blocks  *)
(* (common/block_set.cpp): the picture, a thumbnail, and the sound, which  *)
(* a SerializeStream (common/serialize.cpp) collects in buffers of its own *)
(* (common/buffer.cpp).  On the file are a header for every block, one     *)
(* without a label, then the blocks.  read_frame loads what it is asked    *)
(* for.                                                                    *)
(*                                                                         *)
(* A byte is known by what it belongs to and its place there; the bytes of *)
(* a number or of a header know its value.                                 *)
(***************************************************************************)
EXTENDS Integers, SequencesExt

Bytes(of, value, n) == [k \in 1 .. n |-> [of |-> of, value |-> value, at |-> k]]
SizeT == 8              \* sizeof(size_t)
HeaderSize == 16        \* sizeof(BlockHeader)
Sample == 2             \* sizeof(int16_t)
Number(v) == Bytes("number", v, SizeT)
TypeName == Bytes("17PackedAudioPacketIsE", 0, 22)

Labels == [video |-> "ReplJpeg", thumbnail |-> "ReplThum", audio |-> "ReplAuds"]

-----------------------------------------------------------------------------
(* SerializeStream: bytes written by copy go to an AppendableBuffer, bytes  *)
(* by reference to a buffer that only points to them.                       *)

FirstSize == 64         \* AppendableBuffer::AppendableBuffer

\* append may move the bytes to a larger piece of memory; data() returns the
\* address of the first one, freed by then.
Contents(buffer) ==
    IF Len(buffer) <= FirstSize THEN buffer ELSE Bytes("freed memory", 0, Len(buffer))

Flushed(str) == [str EXCEPT !.buffers = @ \o Contents(str.current), !.current = <<>>]

write_bytes(str, bytes) ==
    [str EXCEPT !.current = @ \o bytes, !.total_bytes = @ + Len(bytes)]

write_bytes_byref(str, bytes) ==
    [Flushed(str) EXCEPT !.buffers = @ \o bytes, !.total_bytes = @ + Len(bytes)]

writeout(str) == Flushed(str).buffers

NewStream == [buffers |-> <<>>, current |-> <<>>, total_bytes |-> 0]

\* PackedAudioPacket: its type, its two numbers and, by reference, its samples.
serialize(packet) ==
    write_bytes_byref(
        FoldLeft(write_bytes, NewStream,
                 <<Number(Len(TypeName)), TypeName,
                   Number(packet.samples), Number(packet.channels)>>),
        packet.data)

NoAudio == [samples |-> 0, channels |-> 0, data |-> <<>>]

read_bytes(bytes, at, n) == SubSeq(bytes, at + 1, at + n)

\* A packet of another type, or one with too few bytes, throws; read_frame
\* makes that no sound.
deserialize(bytes) ==
    LET name_end == SizeT + bytes[1].value
        samples == bytes[name_end + 1].value
        channels == bytes[name_end + SizeT + 1].value
        first == name_end + 2 * SizeT
        size == Sample * samples * channels
    IN  IF /\ Len(bytes) >= SizeT
           /\ Len(bytes) >= first
           /\ read_bytes(bytes, SizeT, name_end - SizeT) = TypeName
           /\ Len(bytes) >= first + size
        THEN [samples |-> samples, channels |-> channels,
              data |-> read_bytes(bytes, first, size)]
        ELSE NoAudio

-----------------------------------------------------------------------------
(* BlockSet: writing *)

Block(label, size, bytes) == [label |-> label, size |-> size, bytes |-> bytes]
Header(b) == Bytes(b.label, b.size, HeaderSize)
Terminator == Bytes("", 0, HeaderSize)

\* The blocks write_frame adds, each label once.  A picture without a byte
\* throws; the encoder makes none.
write_frame(f) ==
    LET optional(there, b) == IF there THEN <<b>> ELSE <<>>
        str == serialize(f.audio)
    IN  <<Block(Labels.video, Len(f.video), f.video)>>
        \o optional(f.thumbnail # <<>>,
                    Block(Labels.thumbnail, Len(f.thumbnail), f.thumbnail))
        \o optional(f.audio # NoAudio,
                    Block(Labels.audio, str.total_bytes, writeout(str)))

headers(bs) == FlattenSeq([i \in 1 .. Len(bs) |-> Header(bs[i])]) \o Terminator

SumSizes(bs) == FoldLeft(LAMBDA sum, b : sum + b.size, 0, bs)

\* What write_all returns, the record's length for mark_frame.
total_size(bs) == HeaderSize * (Len(bs) + 1) + SumSizes(bs)

-----------------------------------------------------------------------------
(* BlockSet: reading *)

\* begin_read: the headers, one after the other, up to and with the one
\* without a label, and where their blocks are.  At the end of the file it
\* throws, here an empty set.
begin_read(file, offset) ==
    LET header[o \in Nat] ==
            IF o + HeaderSize > Len(file) THEN <<>>
            ELSE LET hd == [label |-> file[o + 1].of, size |-> file[o + 1].value]
                 IN  <<hd>> \o IF hd.label = "" THEN <<>> ELSE header[o + HeaderSize]
        hds == header[offset]
        hdbase == offset + HeaderSize * Len(hds)
    IN  IF hds = <<>> \/ hds[Len(hds)].label # "" THEN <<>>
        ELSE [i \in 1 .. Len(hds) |->
                 [label |-> hds[i].label, size |-> hds[i].size,
                  offset |-> hdbase + SumSizes(SubSeq(hds, 1, i - 1))]]

end_offset(bs) == bs[Len(bs)].offset

have_block(bs, label) == \E i \in 1 .. Len(bs) : bs[i].label = label
find_block(bs, label) == bs[SelectInSeq(bs, LAMBDA b : b.label = label)]

read_data(file, b) == SubSeq(file, b.offset + 1, b.offset + b.size)
load_alloc_block(file, bs, label) == read_data(file, find_block(bs, label))

\* Sound that is not there is no error to read_frame, anything else throws.
Throws == [what |-> "throws"]

read_frame(file, start, flags) ==
    LET bs == begin_read(file, start)
        load(what) == load_alloc_block(file, bs, Labels[what])
    IN  IF \A what \in flags \ {"audio"} : have_block(bs, Labels[what])
        THEN [what \in flags |->
                 IF what # "audio" THEN load(what)
                 ELSE IF have_block(bs, Labels.audio) THEN deserialize(load("audio"))
                 ELSE NoAudio]
        ELSE Throws

-----------------------------------------------------------------------------
(* replay_buffer_to_audio.cpp walks a file without its index.  One record in *)
(* eight is turned into sound; the first that has no block of the phase      *)
(* vocoder, and the end of the file, throw and end the program.              *)
REPLAY_PVOC_BLOCK == "ReplPvoc"
hop_factor == 8

to_audio(file) ==
    LET from[current_offset, frame_count \in Nat] ==
            LET bs == begin_read(file, current_offset)
            IN  IF bs = <<>> \/ ~have_block(bs, REPLAY_PVOC_BLOCK) THEN <<>>
                ELSE (IF frame_count % hop_factor = 0
                      THEN <<load_alloc_block(file, bs, REPLAY_PVOC_BLOCK)>> ELSE <<>>)
                     \o from[end_offset(bs), frame_count + 1]
    IN  from[0, 0]

-----------------------------------------------------------------------------
(* The file and its index after one frame, then another.                    *)

write_blockset(buffer, bs) ==
    [file |-> FoldLeft(LAMBDA out, b : out \o b.bytes, buffer.file \o headers(bs), bs),
     start |-> Append(buffer.start, buffer.n_bytes_written),
     n_bytes_written |-> buffer.n_bytes_written + total_size(bs)]

Recorded(frames) ==
    FoldLeft(LAMBDA buffer, f : write_blockset(buffer, write_frame(f)),
             [file |-> <<>>, start |-> <<>>, n_bytes_written |-> 0], frames)

\* Frames with and without a thumbnail and sound, short ones throughout; n
\* tells the bytes of two frames apart.
Sound(n, samples, channels) ==
    [samples |-> samples, channels |-> channels,
     data |-> Bytes("samples", n, Sample * samples * channels)]

FramesToRecord(n) ==
    [video : {Bytes("video", n, k) : k \in {1, 2}},
     thumbnail : {Bytes("thumbnail", n, k) : k \in {0, 2}},
     audio : {NoAudio, Sound(n, 1, 2), Sound(n, 2, 1)}]

Recordings == {<<f, g>> : f \in FramesToRecord(1), g \in FramesToRecord(2)}

(***************************************************************************)
(* What read_frame returns is what write_frame was given, whatever parts   *)
(* the frame had and whichever are asked for, byte for byte through the    *)
(* headers, the offsets and the serialized sound.  It throws only for a    *)
(* thumbnail that was not recorded.  (The serialized numbers of a packet   *)
(* just fit the first piece of memory of an AppendableBuffer, which gives  *)
(* its old address once it has grown.)                                     *)
(***************************************************************************)
ASSUME FrameReadBack ==
    \A frames \in Recordings :
        LET buffer == Recorded(frames)
        IN  \A i \in DOMAIN frames, flags \in SUBSET DOMAIN Labels :
               read_frame(buffer.file, buffer.start[i], flags) =
                  IF "thumbnail" \in flags /\ frames[i].thumbnail = <<>>
                  THEN Throws
                  ELSE [what \in flags |-> frames[i][what]]

(***************************************************************************)
(* Three parts of the code know where a record ends: the index, which adds *)
(* up what write_all returns; the file, which was appended to; and         *)
(* end_offset, by which the converters walk a file without an index.  They *)
(* agree.                                                                  *)
(***************************************************************************)
ASSUME RecordsAdjoin ==
    \A frames \in Recordings :
        LET buffer == Recorded(frames)
            ends == Append(Tail(buffer.start), buffer.n_bytes_written)
        IN  /\ buffer.n_bytes_written = Len(buffer.file)
            /\ \A i \in DOMAIN frames :
                  end_offset(begin_read(buffer.file, buffer.start[i])) = ends[i]

(***************************************************************************)
(* A file of records with such a block gives the sound of the first, the   *)
(* ninth and so on.  The files this program writes have none of them, so   *)
(* replay_buffer_to_audio makes no sound of any.                           *)
(***************************************************************************)
ASSUME SoundOfEveryEighth ==
    /\ \A n \in 0 .. 17 :
          LET pvoc(k) == <<Block(REPLAY_PVOC_BLOCK, 2, Bytes("pvoc", k, 2))>>
              buffer == FoldLeft(LAMBDA b, k : write_blockset(b, pvoc(k)),
                                 [file |-> <<>>, start |-> <<>>, n_bytes_written |-> 0],
                                 [k \in 1 .. n |-> k])
          IN  to_audio(buffer.file) =
                 [i \in 1 .. (n + 7) \div 8 |-> Bytes("pvoc", 8 * i - 7, 2)]
    /\ \A frames \in Recordings : to_audio(Recorded(frames).file) = <<>>
===============================================================================
