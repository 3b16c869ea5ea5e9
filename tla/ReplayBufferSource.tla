------------------------- MODULE ReplayBufferSource -------------------------
(***************************************************************************)
(* A shot played from a buffer at a commanded speed                        *)
(* (replay/replay_playout_buffer_source.cpp, replay_frame_cache.cpp) with  *)
(* the sound of another buffer (replay_audio_buffer_playout.cpp) into      *)
(* which the sound of the camera is analysed (replay_audio_ingest.cpp),    *)
(* while both are being recorded.                                          *)
(*                                                                         *)
(* A frame is put out in three steps: a field, half a step further the     *)
(* other field, and a packet of sound.  Whatever is not recorded yet ends  *)
(* the shot.                                                               *)
(***************************************************************************)
EXTENDS Integers, Sequences, ReplayBufferIndex, Rational, AvspipeAllocator

CONSTANTS Recorded,      \* pictures and packets recorded before the roll
          MaxRecorded,   \* bound: recorded at the end
          Starts,        \* where a shot may start
          ShotSpeeds,    \* the speeds of the shuttle, rationals
          ChannelNos,    \* channels of the sound a camera may be mapped to
          MaxRead,       \* bound: frames read
          MaxChanges     \* bound: changes of the speed

fft_size == 1024
fft_hop == 128
Silent == -1             \* no channel is mapped to the camera
Uncached == -1

VARIABLES pictures,      \* recorded
          packets, samples_in, sound_index, \* ReplayAudioIngest: packets taken,
                         \* samples in its FIFO, the index of its buffer
          closing,       \* its destructor waits for the thread
          source,        \* "none", "rolling", "ended", "spinning", "terminated"
          at,            \* what read_frame does next: "first", "second", "sound"
          pos, speed,
          cached,        \* the frame in the cache
          channel, origin_timecode, pos_offset, fill_level, \* the channel mapped
          counter,       \* the allocator's
          fields,        \* the two fields of the picture
          n_read, changes,
          shot_start,    \* where the shot started
          exact          \* the position at the start of the frame, in 48ths

camera == <<pictures, packets, samples_in, sound_index, closing>>
sound == <<origin_timecode, pos_offset, fill_level, counter>>
history == <<n_read, changes, exact, shot_start>>
vars == <<camera, source, at, pos, speed, cached, channel, sound, fields, history>>

\* The card's packets: the exact rate of sound, cut to whole samples.
CardPacket(k) == (8008 * (k + 1)) \div 5 - (8008 * k) \div 5

\* The clock, when n pictures are recorded: picture p is stamped Stamp(p + 1).
Stamp(n) == 100000 + 33 * n

Emitted(n) == IF n >= fft_size THEN (n - fft_size) \div fft_hop + 1 ELSE 0

\* The number of samples, or of frames analysed, after k packets.
Heard(k) == (8008 * k) \div 5
PacketOf(h) == CHOOSE k \in 1 .. Recorded :
                  Emitted(Heard(k)) > h /\ Emitted(Heard(k - 1)) <= h

Rest(st) ==
    /\ pictures = Recorded /\ packets = Recorded
    /\ samples_in = Heard(Recorded) - fft_hop * Emitted(Heard(Recorded))
    /\ sound_index = [h \in 0 .. Emitted(Heard(Recorded)) - 1 |->
                         [timestamp |-> Stamp(PacketOf(h))]]
    /\ closing = FALSE
    /\ source = st /\ at = "first"
    /\ pos = Whole(0) /\ speed = Whole(1)
    /\ cached = Uncached
    /\ origin_timecode = 0 /\ pos_offset = Whole(0) /\ fill_level = 0
    /\ counter = 0
    /\ fields = <<>>
    /\ n_read = 0 /\ changes = 0 /\ exact = 0 /\ shot_start = 0

BufferInit == Rest("none") /\ channel \in ChannelNos \cup {Silent}
BufferAbsent == Rest("ended") /\ channel = Silent

-----------------------------------------------------------------------------
(* The camera; it is not followed when the shot is over. *)

Followed == source \in {"none", "rolling"}

RecordPicture ==
    /\ Followed
    /\ pictures < MaxRecorded /\ pictures <= packets
    /\ pictures' = pictures + 1
    /\ UNCHANGED <<packets, samples_in, sound_index, closing, source, at, pos, speed,
                   cached, channel, sound, fields, history>>

hops == Emitted(Heard(packets))

process_packet ==
    /\ Followed
    /\ packets < MaxRecorded /\ packets <= pictures
    /\ LET fill == samples_in + CardPacket(packets)
           n == Emitted(fill)
       IN  /\ samples_in' = fill - n * fft_hop
           /\ sound_index' = [h \in 0 .. hops + n - 1 |->
                 IF h < hops THEN sound_index[h] ELSE [timestamp |-> Stamp(pictures)]]
    /\ packets' = packets + 1
    /\ UNCHANGED <<pictures, closing, source, at, pos, speed, cached, channel, sound,
                   fields, history>>

(* The destructor sets stop and joins; the thread never looks at stop. *)
DestroyIngest ==
    /\ source = "none" /\ ~closing
    /\ closing' = TRUE
    /\ UNCHANGED <<pictures, packets, samples_in, sound_index, source, at, pos, speed,
                   cached, channel, sound, fields, history>>

-----------------------------------------------------------------------------
(* When the stamp lies inside the sound's index, the search finds the hop  *)
(* (AlignmentFindsFrame in ReplayBufferProofs); at an end it is a stamp.   *)
find_timecode(index, written, stamp) ==
    IF stamp <= index[0].timestamp THEN index[0].timestamp
    ELSE IF stamp >= index[written - 1].timestamp THEN index[written - 1].timestamp
    ELSE LastNotAfter(index, written, stamp)

(* The operator rolls a shot: with sound, the constructor's caller asks    *)
(* for the time of its first picture, which must exist.                    *)
Roll(start) ==
    /\ source = "none"
    /\ channel # Silent => Exists(pictures, start)
    /\ source' = "rolling"
    /\ pos' = Whole(start)
    /\ exact' = 48 * start
    /\ shot_start' = start
    /\ origin_timecode' = IF channel = Silent THEN 0
                          ELSE find_timecode(sound_index, hops, Stamp(start + 1))
    /\ UNCHANGED <<camera, at, speed, cached, channel, pos_offset, fill_level, counter,
                   fields, n_read, changes>>

FieldAt(p) ==
    [frame |-> integer_part(p),
     field |-> IF less_than_one_half(fractional_part(p)) THEN 0 ELSE 1]

(* check_cache: a miss drops what is cached, reads the record and decodes. *)
GetFrame(tc) ==
    \/ tc = cached /\ UNCHANGED cached
    \/ tc # cached /\ Exists(pictures, tc) /\ cached' = tc

FrameMissing(tc) == tc # cached /\ ~Exists(pictures, tc)

HalfStep(s) == Over(s, Whole(2))

(* The first field is the one at the position; then half a step. *)
FirstField(s) ==
    /\ source = "rolling" /\ at = "first" /\ n_read < MaxRead
    /\ GetFrame(integer_part(pos))
    /\ fields' = <<FieldAt(pos)>>
    /\ speed' = s
    /\ changes' = IF s = speed THEN changes ELSE changes + 1
    /\ changes' <= MaxChanges
    /\ pos' = Plus(pos, HalfStep(s))
    /\ at' = "second"
    /\ UNCHANGED <<camera, source, channel, sound, n_read, exact, shot_start>>

SecondField ==
    /\ source = "rolling" /\ at = "second"
    /\ GetFrame(integer_part(pos))
    /\ fields' = Append(fields, FieldAt(pos))
    /\ pos' = Plus(pos, HalfStep(speed))
    /\ at' = "sound"
    /\ UNCHANGED <<camera, source, speed, channel, sound, history>>

(* ReplayFrameNotFoundException: no picture, and the playout goes idle. *)
Ends ==
    /\ source' = "ended"
    /\ UNCHANGED <<camera, at, pos, speed, channel, sound, fields, history>>

PictureMissing ==
    /\ source = "rolling" /\ at \in {"first", "second"} /\ n_read < MaxRead
    /\ FrameMissing(integer_part(pos))
    /\ cached' = Uncached
    /\ Ends

(* A record that is no JPEG: nobody on the playout thread catches it. *)
DecodeThrows ==
    /\ source = "rolling" /\ at \in {"first", "second"} /\ n_read < MaxRead
    /\ integer_part(pos) # cached /\ Exists(pictures, integer_part(pos))
    /\ source' = "terminated"
    /\ UNCHANGED <<camera, at, pos, speed, cached, channel, sound, fields, history>>

-----------------------------------------------------------------------------
(* fill_packet: frames of fft_hop samples are synthesized at the speed of  *)
(* the picture until the FIFO holds a packet.                              *)

Needed == (allocate(counter) - fill_level + fft_hop - 1) \div fft_hop

HopAt(i) == origin_timecode + integer_part(Plus(pos_offset, Times(Whole(i), speed)))

Synthesizable == \A i \in 0 .. Needed - 1 : Exists(hops, HopAt(i))

FrameDone ==
    /\ counter' = next_frame(counter)
    /\ at' = "first"
    /\ fields' = <<>>
    /\ n_read' = n_read + 1
    /\ exact' = exact + (48 * speed.num) \div speed.denom
    /\ UNCHANGED <<camera, source, pos, speed, cached, channel, changes,
                   shot_start, origin_timecode>>

FillSilence ==
    /\ source = "rolling" /\ at = "sound" /\ channel = Silent
    /\ FrameDone
    /\ UNCHANGED <<pos_offset, fill_level>>

FillPacket ==
    /\ source = "rolling" /\ at = "sound" /\ channel \in 0 .. channels - 1
    /\ Synthesizable
    /\ pos_offset' = Plus(pos_offset, Times(Whole(Needed), speed))
    /\ fill_level' = fill_level + Needed * fft_hop - allocate(counter)
    /\ FrameDone

SoundMissing ==
    /\ source = "rolling" /\ at = "sound" /\ channel \in 0 .. channels - 1
    /\ ~Synthesizable
    /\ UNCHANGED cached
    /\ Ends

(* A channel the packet does not have is never filled: the loop goes on.  *)
Spins ==
    /\ source = "rolling" /\ at = "sound" /\ channel >= channels
    /\ source' = "spinning"
    /\ UNCHANGED <<camera, at, pos, speed, cached, channel, sound, fields, history>>

fill_packet == FillSilence \/ FillPacket \/ SoundMissing \/ Spins

BufferNext ==
    \/ RecordPicture
    \/ process_packet
    \/ DestroyIngest
    \/ \E start \in Starts : Roll(start)
    \/ \E s \in ShotSpeeds : FirstField(s)
    \/ SecondField
    \/ PictureMissing
    \/ DecodeThrows
    \/ fill_packet

-----------------------------------------------------------------------------
ExactField(x) == [frame |-> x \div 48, field |-> (x % 48) \div 24]
HalfOf(s) == (24 * s.num) \div s.denom

(***************************************************************************)
(* However the speed was changed on the way, every field put out is the    *)
(* one of the two recorded in each frame that lies at the exact position,  *)
(* half a step further for the second one: no error of the arithmetic adds *)
(* up, and a position of exactly one half belongs to the second field.     *)
(***************************************************************************)
FieldsExact ==
    source = "rolling" =>
      CASE at = "first"  -> ExactField(exact).frame = integer_part(pos)
        [] at = "second" -> fields = <<ExactField(exact)>>
        [] at = "sound"  -> fields = <<ExactField(exact),
                                       ExactField(exact + HalfOf(speed))>>

(***************************************************************************)
(* The sound is where the picture is: the place the next samples come from *)
(* is ahead of the picture by less than a frame of analysis at the highest *)
(* speed, and every change of speed, which comes while samples of the old  *)
(* speed are left in the FIFO, shifts it by no more.  Counted in 240ths of *)
(* a sample: 128 samples for a hop, 8008 / 5 for a frame.                  *)
(***************************************************************************)
OneHop == 3 * fft_hop * 240    \* at the highest speed, 3
Slack == 4 * 240               \* packets are not all of one size

SoundInStep ==
    source = "rolling" /\ at = "first" /\ channel # Silent =>
      LET heard == (240 * fft_hop * pos_offset.num) \div pos_offset.denom
          seen == 8008 * (exact - 48 * shot_start)
      IN  heard - seen \in -(OneHop * changes + Slack) .. OneHop * (changes + 1) + Slack

ShotPlayedExactly == FieldsExact /\ SoundInStep
=============================================================================
