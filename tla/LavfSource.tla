----------------------------- MODULE LavfSource -----------------------------
(***************************************************************************)
(* A rollout played from a file (replay/replay_playout_lavf_source.cpp):   *)
(* read_frame decodes packets, in the order the file has them, until there *)
(* is a picture and as many samples as go with it.  Decoded pictures wait  *)
(* in pending_video_frames, samples in pending_audio (audio/audio_fifo.cpp)*)
(* The size of the next packet of sound comes from the allocator of        *)
(* avspipe/avspipe_allocators.cpp.                                         *)
(***************************************************************************)
EXTENDS Integers, AvspipeAllocator

CONSTANTS Pictures,      \* packets of pictures in a file
          PacketSamples, \* samples in a packet of sound, 1024 for AAC
          SoundPackets,  \* packets of sound in a file
          MaxFrames      \* bound: frames read

VARIABLES lavf,          \* "none", "open", "gone", or "terminated": an exception
                         \* nobody catches ended the program
          decodable,     \* sound at 48 kHz in a format the code knows
          next_picture, next_sound,   \* packets read from the file
          pending_video, pending_audio,
          frame,         \* the allocator's
          need,          \* samples of the packet allocated, 0 outside read_frame
          video_data,    \* what the last read_frame gave: "frame" or "NULL"
          n_frames, samples_out

decoder == <<next_picture, next_sound, pending_video, pending_audio>>
output == <<need, video_data, n_frames, samples_out, frame>>
vars == <<lavf, decodable, decoder, output>>

Rest(st) ==
    /\ lavf = st
    /\ decodable \in BOOLEAN
    /\ next_picture = 0 /\ next_sound = 0
    /\ pending_video = 0 /\ pending_audio = 0
    /\ frame = 0 /\ need = 0
    /\ video_data = "frame"
    /\ n_frames = 0 /\ samples_out = 0

Absent == Rest("gone") /\ decodable
Init == Rest("none")

-----------------------------------------------------------------------------
(* AudioFIFO: how much of the front a packet takes. *)
add_packet(n) == pending_audio' = pending_audio + n
fill_packet(n) == pending_audio >= n /\ pending_audio' = pending_audio - n

-----------------------------------------------------------------------------
(* The constructor opens the file, finds both streams and both decoders, or  *)
(* throws; the wrapper of Ruby catches only ReplayFrameNotFoundException.    *)
OpenFile ==
    /\ lavf = "none"
    /\ lavf' \in {"open", "terminated"}
    /\ UNCHANGED <<decodable, decoder, output>>

(* The file goes on somewhere else; what was decoded stays pending. *)
seek(p) ==
    /\ lavf = "open" /\ need = 0
    /\ next_picture' = p
    /\ next_sound' = (p * 1602) \div PacketSamples
    /\ UNCHANGED <<lavf, decodable, pending_video, pending_audio, output>>

read_frame ==
    /\ lavf = "open" /\ need = 0
    /\ n_frames < MaxFrames
    /\ need' = allocate(frame)
    /\ frame' = next_frame(frame)
    /\ UNCHANGED <<lavf, decodable, decoder, video_data, n_frames, samples_out>>

Enough == pending_video > 0 /\ pending_audio >= need

(* One packet of run_lavc: the decoder may want more before a picture. *)
DecodePicture ==
    /\ lavf = "open" /\ need > 0 /\ ~Enough
    /\ next_picture < Pictures
    /\ next_picture' = next_picture + 1
    /\ pending_video' \in {pending_video, pending_video + 1}
    /\ UNCHANGED <<lavf, decodable, next_sound, pending_audio, output>>

DecodeSound ==
    /\ lavf = "open" /\ need > 0 /\ ~Enough
    /\ next_sound < SoundPackets
    /\ next_sound' = next_sound + 1
    /\ IF decodable
       THEN add_packet(PacketSamples) /\ UNCHANGED lavf
       ELSE lavf' = "terminated" /\ UNCHANGED pending_audio
    /\ UNCHANGED <<decodable, next_picture, pending_video, output>>

(* The end of the file: no picture, whatever is still pending. *)
EndOfFile ==
    /\ lavf = "open" /\ need > 0 /\ ~Enough
    /\ next_picture = Pictures /\ next_sound >= SoundPackets
    /\ need' = 0
    /\ video_data' = "NULL"
    /\ UNCHANGED <<lavf, decodable, decoder, n_frames, samples_out, frame>>

FinishFrame ==
    /\ lavf = "open" /\ need > 0 /\ Enough
    /\ pending_video' = pending_video - 1
    /\ fill_packet(need)
    /\ need' = 0
    /\ video_data' = "frame"
    /\ n_frames' = n_frames + 1
    /\ samples_out' = samples_out + need
    /\ UNCHANGED <<lavf, decodable, next_picture, next_sound, frame>>

(* The playout thread deletes a source that gave no picture; so does the   *)
(* queue, and a new roll deletes it between two frames.                    *)
Delete ==
    /\ lavf = "open" /\ need = 0
    /\ lavf' = "gone"
    /\ UNCHANGED <<decodable, decoder, output>>

run_lavc == DecodePicture \/ DecodeSound \/ EndOfFile \/ FinishFrame

(* lavf_playout seeks, if at all, before the first frame. *)
Next ==
    \/ OpenFile
    \/ n_frames = 0 /\ \E p \in 1 .. Pictures : seek(p)
    \/ video_data = "frame" /\ read_frame
    \/ run_lavc
    \/ Delete

-----------------------------------------------------------------------------
(***************************************************************************)
(* Picture and sound run at one rate: after any number of frames, however  *)
(* the packets of the file are interleaved and cut, the samples given are  *)
(* within half a sample of 8008 for every five pictures, the exact rate of *)
(* 30000/1001 pictures and 48000 samples a second, so the error of one     *)
(* frame never adds up.                                                    *)
(***************************************************************************)
SoundKeepsStep == 5 * samples_out - 8008 * n_frames \in -2 .. 2
=============================================================================
