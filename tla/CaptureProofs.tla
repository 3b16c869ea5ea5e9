---------------------------- MODULE CaptureProofs ----------------------------
(***************************************************************************)
(* For rings of every size: the adapter never puts on a full pipe, what it *)
(* drops shifts the sound by at most one picture, and the ingest that      *)
(* waits for sound gets it from the next callback, as does the child of    *)
(* avpinput_decklink, however long the preroll.  For buffers of every      *)
(* size: the analog, the network and the triggered input pass on what was  *)
(* sent to them whole and in order.                                        *)
(***************************************************************************)
EXTENDS MCCapture, SequenceTheorems, TLAPS

LEMMA OutPipeGrows ==
    ASSUME TypeOK, CanPut(out_pipe), PutPicture
    PROVE  /\ out_pipe' \in Seq(1 .. captured') /\ Len(out_pipe') < IN_PIPE_SIZE
           /\ audio_pipe \in Seq(0 .. captured')
           /\ captured' = captured + 1
           /\ Len(out_pipe') = Len(out_pipe) + 1
           /\ \A i \in 1 .. Len(out_pipe) : out_pipe'[i] = out_pipe[i]
           /\ out_pipe'[Len(out_pipe) + 1] = captured + 1
<1>1. captured' = captured + 1 /\ captured \in Nat
  BY DEF TypeOK, PutPicture
<1>2. 1 .. captured \subseteq 1 .. captured' /\ 0 .. captured \subseteq 0 .. captured'
  BY <1>1
<1>3. out_pipe \in Seq(1 .. captured') /\ audio_pipe \in Seq(0 .. captured')
  BY <1>2, SeqMonotonic DEF TypeOK
<1>4. captured + 1 \in 1 .. captured'
  BY <1>1
<1>5. /\ Append(out_pipe, captured + 1) \in Seq(1 .. captured')
      /\ Len(Append(out_pipe, captured + 1)) = Len(out_pipe) + 1
      /\ \A i \in 1 .. Len(out_pipe) :
            Append(out_pipe, captured + 1)[i] = out_pipe[i]
      /\ Append(out_pipe, captured + 1)[Len(out_pipe) + 1] = captured + 1
  BY <1>3, <1>4, AppendProperties
<1>6. Len(out_pipe) \in Nat
  BY <1>3, LenProperties
<1> QED BY <1>1, <1>3, <1>5, <1>6, CaptureAssumption DEF PutPicture, CanPut

(* What TypeOK says of all but the pipes and the counters *)
ControlOK ==
    /\ adapter \in Kinds /\ started \in BOOLEAN /\ encode_suspended \in BOOLEAN
    /\ callback \in {"idle", "audio"}
    /\ ingest \in {"start", "get_video", "get_audio", "encode"}

PipesOK ==
    /\ out_pipe \in Seq(1 .. captured) /\ Len(out_pipe) < IN_PIPE_SIZE
    /\ audio_pipe \in Seq(0 .. captured) /\ Len(audio_pipe) < IN_PIPE_SIZE

CountersOK ==
    /\ drop_audio \in Nat /\ avsync \in Int /\ captured \in Nat
    /\ input \in 0 .. captured /\ input_audio \in 0 .. captured
    /\ recorded \in (0 .. captured) \X (0 .. captured)

LEMMA TypeParts == TypeOK <=> ControlOK /\ PipesOK /\ CountersOK
  BY DEF TypeOK, ControlOK, PipesOK, CountersOK

LEMMA TypePartsPrime == TypeOK' <=> ControlOK' /\ PipesOK' /\ CountersOK'
  BY DEF TypeOK, ControlOK, PipesOK, CountersOK

LEMMA TypeInit == Init => TypeOK
<1> SUFFICES ASSUME Init PROVE TypeOK
  OBVIOUS
<1>1. ControlOK
  BY DEF Init, ControlOK
<1>2. <<>> \in Seq(1 .. captured) /\ <<>> \in Seq(0 .. captured) /\ Len(<<>>) = 0
  BY EmptySeq
<1>3. PipesOK
  BY <1>2, CaptureAssumption DEF Init, PipesOK
<1>4. CountersOK
  BY DEF Init, CountersOK
<1> QED BY <1>1, <1>3, <1>4, TypeParts

LEMMA Widened ==
    ASSUME CountersOK, captured' = captured + 1,
           UNCHANGED <<drop_audio, input, input_audio, recorded>>,
           avsync' \in Int
    PROVE  CountersOK'
<1>1. 0 .. captured \subseteq 0 .. captured' /\ captured' \in Nat
  BY DEF CountersOK
<1> QED BY <1>1 DEF CountersOK

LEMMA ControlNext == TypeOK /\ [Next]_vars => ControlOK'
<1> SUFFICES ASSUME TypeOK, [Next]_vars PROVE ControlOK'
  OBVIOUS
<1> USE TypeParts DEF ControlOK
<1>1. ASSUME NEW d, FrameArrived(d) PROVE ControlOK'
  BY <1>1 DEF FrameArrived, Arrival, thread
<1>2. CASE SoundArrived
  BY <1>2 DEF SoundArrived, SoundArrival, TakeSound, thread
<1>3. CASE V4L2Frame
  BY <1>3 DEF V4L2Frame, thread
<1>4. CASE Start
  BY <1>4 DEF Start, card
<1>5. CASE GetVideo
  BY <1>5 DEF GetVideo, card
<1>6. CASE GetAudio
  BY <1>6 DEF GetAudio, card
<1>7. CASE Encode
  BY <1>7 DEF Encode, card
<1>8. ASSUME NEW s \in BOOLEAN, SetSuspended(s) PROVE ControlOK'
  BY <1>8 DEF SetSuspended, card, thread
<1>9. CASE UNCHANGED vars
  BY <1>9 DEF vars, card, thread
<1> QED BY <1>1, <1>2, <1>3, <1>4, <1>5, <1>6, <1>7, <1>8, <1>9 DEF Next

LEMMA TypeNext == TypeOK /\ [Next]_vars => TypeOK'
<1> SUFFICES ASSUME TypeOK, [Next]_vars PROVE PipesOK' /\ CountersOK'
  BY ControlNext, TypePartsPrime
<1>0. ControlOK /\ PipesOK /\ CountersOK
  BY TypeParts
<1>1. ASSUME NEW d, FrameArrived(d) PROVE PipesOK' /\ CountersOK'
  <2>0. UNCHANGED <<audio_pipe, input, input_audio, recorded>>
    BY <1>1 DEF FrameArrived, Arrival, thread
  <2>1. \/ CanPut(out_pipe) /\ PutPicture /\ avsync' = avsync + 1 /\ UNCHANGED drop_audio
        \/ drop_audio' = drop_audio + 1 /\ UNCHANGED <<out_pipe, avsync, captured>>
        \/ UNCHANGED <<out_pipe, avsync, captured, drop_audio>>
    BY <1>1 DEF FrameArrived, Arrival, TakePicture
  <2>2. CASE CanPut(out_pipe) /\ PutPicture /\ avsync' = avsync + 1 /\ UNCHANGED drop_audio
    <3>1. PipesOK' /\ captured' = captured + 1
      BY <2>0, <2>2, <1>0, OutPipeGrows DEF PipesOK
    <3>2. avsync' \in Int
      BY <2>2, <1>0 DEF CountersOK
    <3> QED BY <1>0, <2>0, <2>2, <3>1, <3>2, Widened
  <2>3. CASE drop_audio' = drop_audio + 1 /\ UNCHANGED <<out_pipe, avsync, captured>>
    BY <1>0, <2>0, <2>3 DEF PipesOK, CountersOK
  <2>4. CASE UNCHANGED <<out_pipe, avsync, captured, drop_audio>>
    BY <1>0, <2>0, <2>4 DEF PipesOK, CountersOK
  <2> QED BY <2>1, <2>2, <2>3, <2>4
<1>2. CASE SoundArrived
  <2>0. UNCHANGED <<out_pipe, captured, input, input_audio, recorded>>
    BY <1>2 DEF SoundArrived, SoundArrival, TakeSound, thread
  <2>1. \/ drop_audio > 0 /\ drop_audio' = drop_audio - 1 /\ UNCHANGED <<audio_pipe, avsync>>
        \/ /\ CanPut(audio_pipe) /\ audio_pipe' = Append(audio_pipe, captured)
           /\ avsync' = avsync - 1 /\ UNCHANGED drop_audio
        \/ UNCHANGED <<audio_pipe, avsync, drop_audio>>
    BY <1>2 DEF SoundArrived, SoundArrival, TakeSound
  <2>2. CASE drop_audio > 0 /\ drop_audio' = drop_audio - 1 /\ UNCHANGED <<audio_pipe, avsync>>
    BY <1>0, <2>0, <2>2 DEF PipesOK, CountersOK
  <2>3. CASE /\ CanPut(audio_pipe) /\ audio_pipe' = Append(audio_pipe, captured)
             /\ avsync' = avsync - 1 /\ UNCHANGED drop_audio
    <3>1. captured \in 0 .. captured
      BY <1>0 DEF CountersOK
    <3>2. audio_pipe' \in Seq(0 .. captured) /\ Len(audio_pipe') = Len(audio_pipe) + 1
          /\ Len(audio_pipe) \in Nat
      BY <1>0, <2>3, <3>1, AppendProperties, LenProperties DEF PipesOK
    <3>3. PipesOK'
      BY <1>0, <2>0, <2>3, <3>2, CaptureAssumption DEF PipesOK, CanPut
    <3>4. CountersOK'
      BY <1>0, <2>0, <2>3 DEF CountersOK
    <3> QED BY <3>3, <3>4
  <2>4. CASE UNCHANGED <<audio_pipe, avsync, drop_audio>>
    BY <1>0, <2>0, <2>4 DEF PipesOK, CountersOK
  <2> QED BY <2>1, <2>2, <2>3, <2>4
<1>3. CASE V4L2Frame
  <2>1. PipesOK' /\ captured' = captured + 1
    BY <1>0, <1>3, OutPipeGrows DEF V4L2Frame, PipesOK
  <2>2. UNCHANGED <<drop_audio, avsync, input, input_audio, recorded>>
    BY <1>3 DEF V4L2Frame, thread
  <2>3. avsync' \in Int
    BY <1>0, <2>2 DEF CountersOK
  <2> QED BY <1>0, <2>1, <2>2, <2>3, Widened
<1>4. CASE Start
  BY <1>0, <1>4 DEF Start, card, PipesOK, CountersOK
<1>5. CASE GetVideo
  <2>1. /\ Head(out_pipe) \in 1 .. captured
        /\ Tail(out_pipe) \in Seq(1 .. captured)
        /\ Len(Tail(out_pipe)) = Len(out_pipe) - 1
        /\ Len(out_pipe) \in Nat
    BY <1>0, <1>5, HeadTailProperties, LenProperties DEF GetVideo, PipesOK
  <2>2. PipesOK'
    BY <1>0, <1>5, <2>1, CaptureAssumption DEF GetVideo, card, PipesOK
  <2>3. CountersOK'
    BY <1>0, <1>5, <2>1 DEF GetVideo, card, CountersOK
  <2> QED BY <2>2, <2>3
<1>6. CASE GetAudio
  <2>1. /\ Head(audio_pipe) \in 0 .. captured
        /\ Tail(audio_pipe) \in Seq(0 .. captured)
        /\ Len(Tail(audio_pipe)) = Len(audio_pipe) - 1
        /\ Len(audio_pipe) \in Nat
    BY <1>0, <1>6, HeadTailProperties, LenProperties DEF GetAudio, PipesOK
  <2>2. PipesOK'
    BY <1>0, <1>6, <2>1, CaptureAssumption DEF GetAudio, card, PipesOK
  <2>3. CountersOK'
    BY <1>0, <1>6, <2>1 DEF GetAudio, card, CountersOK
  <2> QED BY <2>2, <2>3
<1>7. CASE Encode
  <2>1. PipesOK'
    BY <1>0, <1>7 DEF Encode, card, PipesOK
  <2>2. recorded' = recorded \/ recorded' = <<input, input_audio>>
    BY <1>7 DEF Encode
  <2>3. CountersOK'
    BY <1>0, <1>7, <2>2 DEF Encode, card, CountersOK
  <2> QED BY <2>1, <2>3
<1>8. ASSUME NEW s, SetSuspended(s) PROVE PipesOK' /\ CountersOK'
  BY <1>0, <1>8 DEF SetSuspended, card, thread, PipesOK, CountersOK
<1>9. CASE UNCHANGED vars
  BY <1>0, <1>9 DEF vars, card, thread, PipesOK, CountersOK
<1> QED BY <1>1, <1>2, <1>3, <1>4, <1>5, <1>6, <1>7, <1>8, <1>9 DEF Next

(* Nothing is ever put on a full pipe and no count leaves its type,       *)
(* whatever the card delivers and whenever it does (decklink.cpp:771, 801) *)
THEOREM TypeCorrect == Spec => []TypeOK
BY TypeInit, TypeNext, PTL DEF Spec

-----------------------------------------------------------------------------
(* The pairing, for a card that brings both with every callback *)

(* how many packets the ingest has taken, given the numbering of pictures *)
Taken == captured - avsync - Len(audio_pipe)

(* What is put and not taken is counted by avsync. *)
Balance ==
    /\ ingest = "get_audio" => Len(out_pipe) + 1 - Len(audio_pipe) = avsync
    /\ ingest # "get_audio" => Len(out_pipe) - Len(audio_pipe) = avsync

(* A dropped picture's packet is owed until the other half of the callback; *)
(* otherwise the sound is behind by one packet at most.                     *)
Owed ==
    /\ callback = "idle" => drop_audio = 0 /\ avsync \in {0, 1}
    /\ callback = "audio" =>
          \/ drop_audio = 1 /\ avsync \in {0, 1}
          \/ drop_audio = 0 /\ avsync \in {1, 2}

OwedNothingOnceStarted == callback = "audio" /\ drop_audio = 0 => started

(* The pipes hold consecutive pictures, and packets that are their own or  *)
(* one picture late.                                                       *)
PicturesInOrder ==
    \A i \in 1 .. Len(out_pipe) : out_pipe[i] = captured - Len(out_pipe) + i

SoundsInOrder ==
    \A i \in 1 .. Len(audio_pipe) : audio_pipe[i] \in {Taken + i, Taken + i + 1}

Held ==
    /\ ingest \in {"get_audio", "encode"} => input = captured - Len(out_pipe)
    /\ ingest = "encode" => input_audio \in {Taken, Taken + 1}

Paired == recorded[2] \in {recorded[1], recorded[1] + 1}

PairInv ==
    /\ Balance
    /\ Owed
    /\ OwedNothingOnceStarted
    /\ PicturesInOrder
    /\ SoundsInOrder
    /\ Held
    /\ Paired

AVInv == adapter = "av" => PairInv

LEMMA PairInit == Init => AVInv
<1> SUFFICES ASSUME Init, adapter = "av" PROVE PairInv
  BY DEF AVInv
<1>1. Len(out_pipe) = 0 /\ Len(audio_pipe) = 0
  BY EmptySeq DEF Init
<1>2. Balance /\ Owed
  BY <1>1 DEF Init, Balance, Owed
<1>3. OwedNothingOnceStarted
  BY DEF Init, OwedNothingOnceStarted
<1>4. PicturesInOrder /\ SoundsInOrder
  BY <1>1 DEF PicturesInOrder, SoundsInOrder
<1>5. Held /\ Paired
  BY DEF Init, Held, Paired
<1> QED BY <1>2, <1>3, <1>4, <1>5 DEF PairInv

LEMMA Lengths ==
    ASSUME PipesOK
    PROVE  Len(out_pipe) \in Nat /\ Len(audio_pipe) \in Nat
  BY LenProperties DEF PipesOK

(* A step that leaves pipes, counters, and the ingest alone *)
LEMMA PairUnchanged ==
    ASSUME PairInv,
           UNCHANGED <<out_pipe, audio_pipe, drop_audio, avsync, callback,
                       captured, ingest, input, input_audio, recorded>>,
           started => started'
    PROVE  PairInv'
<1>1. Balance' /\ Owed' /\ PicturesInOrder' /\ SoundsInOrder' /\ Held' /\ Paired'
  BY DEF PairInv, Balance, Owed, PicturesInOrder, SoundsInOrder, Taken, Held, Paired
<1>2. OwedNothingOnceStarted'
  BY DEF PairInv, OwedNothingOnceStarted
<1> QED BY <1>1, <1>2 DEF PairInv

LEMMA PairFrameArrived ==
    ASSUME TypeOK, PairInv, adapter = "av", FrameArrived("both")
    PROVE  PairInv'
<1>0. /\ UNCHANGED <<started, audio_pipe, ingest, input, input_audio, recorded>>
      /\ callback = "idle" /\ callback' = "audio"
      /\ TakePicture(1)
  BY DEF FrameArrived, Arrival, thread, enable_video, enable_audio
<1>1. PipesOK /\ CountersOK /\ Len(out_pipe) \in Nat /\ Len(audio_pipe) \in Nat
  BY TypeParts, Lengths
<1>2. drop_audio = 0 /\ avsync \in {0, 1} /\ avsync \in Int /\ captured \in Nat
  BY <1>0, <1>1 DEF PairInv, Owed, CountersOK
<1>3. CASE /\ CanPut(out_pipe) /\ started /\ PutPicture
           /\ avsync' = avsync + 1 /\ UNCHANGED drop_audio
  <2>1. /\ captured' = captured + 1
        /\ Len(out_pipe') = Len(out_pipe) + 1
        /\ \A i \in 1 .. Len(out_pipe) : out_pipe'[i] = out_pipe[i]
        /\ out_pipe'[Len(out_pipe) + 1] = captured + 1
    BY <1>3, OutPipeGrows
  <2>2. Balance'
    BY <1>0, <1>1, <1>2, <1>3, <2>1 DEF PairInv, Balance
  <2>3. Owed'
    BY <1>0, <1>2, <1>3 DEF Owed
  <2>4. OwedNothingOnceStarted'
    BY <1>0, <1>3 DEF OwedNothingOnceStarted
  <2>5. PicturesInOrder'
    <3> SUFFICES ASSUME NEW i \in 1 .. Len(out_pipe')
                 PROVE  out_pipe'[i] = captured' - Len(out_pipe') + i
      BY DEF PicturesInOrder
    <3>1. CASE i \in 1 .. Len(out_pipe)
      BY <1>1, <1>2, <2>1, <3>1 DEF PairInv, PicturesInOrder
    <3>2. CASE i = Len(out_pipe) + 1
      BY <1>1, <1>2, <2>1, <3>2
    <3> QED BY <1>1, <2>1, <3>1, <3>2
  <2>6. Taken' = Taken
    BY <1>0, <1>1, <1>2, <1>3, <2>1 DEF Taken
  <2>7. SoundsInOrder'
    BY <1>0, <2>6 DEF PairInv, SoundsInOrder
  <2>8. Held'
    BY <1>0, <1>1, <1>2, <2>1, <2>6 DEF PairInv, Held
  <2>9. Paired'
    BY <1>0 DEF PairInv, Paired
  <2> QED BY <2>2, <2>3, <2>4, <2>5, <2>7, <2>8, <2>9 DEF PairInv
<1>4. CASE drop_audio' = drop_audio + 1 /\ UNCHANGED <<out_pipe, avsync, captured>>
  <2>1. Balance' /\ Owed'
    BY <1>0, <1>2, <1>4 DEF PairInv, Balance, Owed
  <2>2. OwedNothingOnceStarted'
    BY <1>2, <1>4 DEF OwedNothingOnceStarted
  <2>3. Taken' = Taken
    BY <1>0, <1>4 DEF Taken
  <2>4. PicturesInOrder' /\ SoundsInOrder' /\ Held' /\ Paired'
    BY <1>0, <1>4, <2>3 DEF PairInv, PicturesInOrder, SoundsInOrder, Held, Paired
  <2> QED BY <2>1, <2>2, <2>4 DEF PairInv
<1> QED BY <1>0, <1>3, <1>4 DEF TakePicture

LEMMA PairSoundArrived ==
    ASSUME TypeOK, PairInv, SoundArrived
    PROVE  PairInv'
<1>0. /\ UNCHANGED <<started, out_pipe, captured, ingest, input, input_audio, recorded>>
      /\ callback = "audio" /\ callback' = "idle"
  BY DEF SoundArrived, SoundArrival, TakeSound, thread
<1>1. PipesOK /\ CountersOK /\ Len(out_pipe) \in Nat /\ Len(audio_pipe) \in Nat
  BY TypeParts, Lengths
<1>2. /\ avsync \in Int /\ captured \in Nat
      /\ \/ drop_audio = 1 /\ avsync \in {0, 1}
         \/ drop_audio = 0 /\ avsync \in {1, 2}
  BY <1>0, <1>1 DEF PairInv, Owed, CountersOK
<1>3. OwedNothingOnceStarted'
  BY <1>0 DEF OwedNothingOnceStarted
<1>4. CASE /\ drop_audio = 0 /\ CanPut(audio_pipe)
           /\ audio_pipe' = Append(audio_pipe, captured)
           /\ avsync' = avsync - 1 /\ UNCHANGED drop_audio
  <2>1. /\ Len(audio_pipe') = Len(audio_pipe) + 1
        /\ \A i \in 1 .. Len(audio_pipe) : audio_pipe'[i] = audio_pipe[i]
        /\ audio_pipe'[Len(audio_pipe) + 1] = captured
    <3>1. captured \in 0 .. captured /\ audio_pipe \in Seq(0 .. captured)
      BY <1>1, <1>2 DEF PipesOK
    <3> QED BY <1>4, <3>1, AppendProperties
  <2>2. Balance' /\ Owed'
    BY <1>0, <1>1, <1>2, <1>4, <2>1 DEF PairInv, Balance, Owed
  <2>3. Taken' = Taken /\ Taken \in Int /\ captured \in {Taken + Len(audio_pipe) + 1, Taken + Len(audio_pipe) + 2}
    BY <1>0, <1>1, <1>2, <1>4, <2>1 DEF Taken
  <2>4. SoundsInOrder'
    <3> SUFFICES ASSUME NEW i \in 1 .. Len(audio_pipe) + 1
                 PROVE  audio_pipe'[i] \in {Taken + i, Taken + i + 1}
      BY <2>1, <2>3 DEF SoundsInOrder
    <3>1. CASE i \in 1 .. Len(audio_pipe)
      BY <2>1, <3>1 DEF PairInv, SoundsInOrder
    <3>2. CASE i = Len(audio_pipe) + 1
      BY <1>1, <2>1, <2>3, <3>2
    <3> QED BY <1>1, <3>1, <3>2
  <2>5. PicturesInOrder' /\ Held' /\ Paired'
    BY <1>0, <2>3 DEF PairInv, PicturesInOrder, Held, Paired
  <2> QED BY <1>3, <2>2, <2>4, <2>5 DEF PairInv
<1>5. CASE /\ UNCHANGED <<audio_pipe, avsync>>
           /\ \/ drop_audio > 0 /\ drop_audio' = drop_audio - 1
              \/ drop_audio = 0 /\ ~CanPut(audio_pipe) /\ UNCHANGED drop_audio
  <2>1. Owed'
    <3>1. CASE drop_audio > 0 /\ drop_audio' = drop_audio - 1
      BY <1>0, <1>2, <1>5, <3>1 DEF Owed
    <3>2. CASE drop_audio = 0 /\ ~CanPut(audio_pipe) /\ UNCHANGED drop_audio
      <4>1. Len(audio_pipe) = IN_PIPE_SIZE - 1 /\ Len(out_pipe) =< IN_PIPE_SIZE - 1
        BY <1>1, <3>2, CaptureAssumption DEF PipesOK, CanPut
      <4>2. avsync =< 1
        BY <1>1, <1>2, <4>1, CaptureAssumption DEF PairInv, Balance
      <4> QED BY <1>0, <1>2, <1>5, <3>2, <4>2 DEF Owed
    <3> QED BY <1>5, <3>1, <3>2
  <2>2. Taken' = Taken
    BY <1>0, <1>5 DEF Taken
  <2>3. Balance' /\ PicturesInOrder' /\ SoundsInOrder' /\ Held' /\ Paired'
    BY <1>0, <1>5, <2>2 DEF PairInv, Balance, PicturesInOrder, SoundsInOrder, Held, Paired
  <2> QED BY <1>3, <2>1, <2>3 DEF PairInv
<1>6. drop_audio = 0 => started
  BY <1>0 DEF PairInv, OwedNothingOnceStarted
<1> QED BY <1>4, <1>5, <1>6 DEF SoundArrived, SoundArrival, TakeSound

LEMMA PairGetVideo ==
    ASSUME TypeOK, PairInv, adapter = "av", GetVideo
    PROVE  PairInv'
<1>0. /\ UNCHANGED <<started, audio_pipe, drop_audio, avsync, callback, captured,
                     input_audio, recorded>>
      /\ ingest = "get_video" /\ ingest' = "get_audio"
      /\ out_pipe # <<>> /\ out_pipe' = Tail(out_pipe) /\ input' = Head(out_pipe)
  BY DEF GetVideo, card, enable_audio
<1>1. PipesOK /\ CountersOK /\ Len(out_pipe) \in Nat /\ Len(audio_pipe) \in Nat
  BY TypeParts, Lengths
<1>2. /\ Len(out_pipe') = Len(out_pipe) - 1
      /\ \A i \in 1 .. Len(out_pipe') : out_pipe'[i] = out_pipe[i + 1]
      /\ Len(out_pipe) > 0 /\ input' = out_pipe[1]
  BY <1>0, <1>1, HeadTailProperties, LenProperties, EmptySeq DEF PipesOK
<1>3. avsync \in Int /\ captured \in Nat
  BY <1>1 DEF CountersOK
<1>4. Balance'
  BY <1>0, <1>1, <1>2, <1>3 DEF PairInv, Balance
<1>5. Owed' /\ Paired' /\ Taken' = Taken
  BY <1>0 DEF PairInv, Owed, Paired, Taken
<1>6. OwedNothingOnceStarted'
  BY <1>0 DEF PairInv, OwedNothingOnceStarted
<1>7. PicturesInOrder'
  BY <1>0, <1>1, <1>2, <1>3 DEF PairInv, PicturesInOrder
<1>8. SoundsInOrder'
  BY <1>0, <1>5 DEF PairInv, SoundsInOrder
<1>9. Held'
  BY <1>0, <1>1, <1>2, <1>3 DEF PairInv, PicturesInOrder, Held
<1> QED BY <1>4, <1>5, <1>6, <1>7, <1>8, <1>9 DEF PairInv

LEMMA PairGetAudio ==
    ASSUME TypeOK, PairInv, GetAudio
    PROVE  PairInv'
<1>0. /\ UNCHANGED <<started, out_pipe, drop_audio, avsync, callback, captured,
                     input, recorded>>
      /\ ingest = "get_audio" /\ ingest' = "encode"
      /\ audio_pipe # <<>> /\ audio_pipe' = Tail(audio_pipe)
      /\ input_audio' = Head(audio_pipe)
  BY DEF GetAudio, card
<1>1. PipesOK /\ CountersOK /\ Len(out_pipe) \in Nat /\ Len(audio_pipe) \in Nat
  BY TypeParts, Lengths
<1>2. /\ Len(audio_pipe') = Len(audio_pipe) - 1
      /\ \A i \in 1 .. Len(audio_pipe') : audio_pipe'[i] = audio_pipe[i + 1]
      /\ Len(audio_pipe) > 0 /\ input_audio' = audio_pipe[1]
  BY <1>0, <1>1, HeadTailProperties, LenProperties, EmptySeq DEF PipesOK
<1>3. avsync \in Int /\ captured \in Nat
  BY <1>1 DEF CountersOK
<1>4. Balance'
  BY <1>0, <1>1, <1>2, <1>3 DEF PairInv, Balance
<1>5. Owed' /\ Paired' /\ PicturesInOrder'
  BY <1>0 DEF PairInv, Owed, Paired, PicturesInOrder
<1>6. OwedNothingOnceStarted'
  BY <1>0 DEF PairInv, OwedNothingOnceStarted
<1>7. Taken' = Taken + 1 /\ Taken \in Int
  BY <1>0, <1>1, <1>2, <1>3 DEF Taken
<1>8. SoundsInOrder'
  <2> SUFFICES ASSUME NEW i \in 1 .. Len(audio_pipe')
               PROVE  audio_pipe'[i] \in {Taken' + i, Taken' + i + 1}
    BY DEF SoundsInOrder
  <2>1. i + 1 \in 1 .. Len(audio_pipe) /\ audio_pipe'[i] = audio_pipe[i + 1]
    BY <1>1, <1>2
  <2>2. audio_pipe[i + 1] \in {Taken + (i + 1), Taken + (i + 1) + 1}
    BY <2>1 DEF PairInv, SoundsInOrder
  <2> QED BY <1>7, <2>1, <2>2
<1>9. Held'
  <2>1. 1 \in 1 .. Len(audio_pipe)
    BY <1>1, <1>2
  <2>2. audio_pipe[1] \in {Taken + 1, Taken + 1 + 1}
    BY <2>1 DEF PairInv, SoundsInOrder
  <2> QED BY <1>0, <1>2, <1>7, <2>2 DEF PairInv, Held
<1> QED BY <1>4, <1>5, <1>6, <1>8, <1>9 DEF PairInv

LEMMA PairEncode ==
    ASSUME TypeOK, PairInv, adapter = "av", Encode
    PROVE  PairInv'
<1>0. /\ UNCHANGED <<started, out_pipe, audio_pipe, drop_audio, avsync, callback,
                     captured>>
      /\ ingest = "encode" /\ ingest' = "get_video"
      /\ recorded' \in {recorded, <<input, input_audio>>}
  BY DEF Encode, card, enable_video
<1>1. PipesOK /\ CountersOK /\ Len(out_pipe) \in Nat /\ Len(audio_pipe) \in Nat
  BY TypeParts, Lengths
<1>2. Balance' /\ Owed' /\ PicturesInOrder' /\ Held'
  BY <1>0 DEF PairInv, Balance, Owed, PicturesInOrder, Held
<1>3. OwedNothingOnceStarted'
  BY <1>0 DEF PairInv, OwedNothingOnceStarted
<1>4. SoundsInOrder' /\ Taken = captured - Len(out_pipe)
  <2>1. Taken' = Taken
    BY <1>0 DEF Taken
  <2>2. Taken = captured - Len(out_pipe)
    BY <1>0, <1>1 DEF PairInv, Balance, Taken, CountersOK
  <2> QED BY <1>0, <2>1, <2>2 DEF PairInv, SoundsInOrder
<1>5. input_audio \in {input, input + 1}
  BY <1>0, <1>4 DEF PairInv, Held
<1>6. Paired'
  BY <1>0, <1>5 DEF PairInv, Paired
<1> QED BY <1>2, <1>3, <1>4, <1>6 DEF PairInv

LEMMA PairNext ==
    ASSUME Deliveries["av"] = {"both"}
    PROVE  TypeOK /\ AVInv /\ [Next]_vars => AVInv'
<1> SUFFICES ASSUME TypeOK, AVInv, [Next]_vars, adapter' = "av" PROVE PairInv'
  BY DEF AVInv
<1>0. adapter = "av"
  BY DEF Next, vars, FrameArrived, Arrival, SoundArrived, SoundArrival, TakeSound, V4L2Frame, Start,
         GetVideo, GetAudio, Encode, SetSuspended
<1>1. PairInv
  BY <1>0 DEF AVInv
<1>2. ASSUME NEW d \in Deliveries[adapter], FrameArrived(d) PROVE PairInv'
  <2>1. d = "both"
    BY <1>0
  <2> QED BY <1>0, <1>1, <1>2, <2>1, PairFrameArrived
<1>3. CASE SoundArrived
  BY <1>1, <1>3, PairSoundArrived
<1>4. CASE V4L2Frame
  BY <1>0, <1>4 DEF V4L2Frame
<1>5. CASE Start
  <2>1. /\ UNCHANGED <<out_pipe, audio_pipe, drop_audio, avsync, callback,
                       captured, input, input_audio, recorded>>
        /\ ingest = "start" /\ ingest' = "get_video"
    BY <1>0, <1>5 DEF Start, card, enable_video
  <2>2. Balance' /\ Owed' /\ PicturesInOrder' /\ SoundsInOrder' /\ Held' /\ Paired'
    BY <1>1, <2>1 DEF PairInv, Balance, Owed, PicturesInOrder, SoundsInOrder, Taken, Held, Paired
  <2>3. OwedNothingOnceStarted'
    BY <1>5 DEF Start, OwedNothingOnceStarted
  <2> QED BY <2>2, <2>3 DEF PairInv
<1>6. CASE GetVideo
  BY <1>0, <1>1, <1>6, PairGetVideo
<1>7. CASE GetAudio
  BY <1>1, <1>7, PairGetAudio
<1>8. CASE Encode
  BY <1>0, <1>1, <1>8, PairEncode
<1>9. ASSUME NEW s, SetSuspended(s) PROVE PairInv'
  BY <1>1, <1>9, PairUnchanged DEF SetSuspended, card, thread
<1>10. CASE UNCHANGED vars
  BY <1>1, <1>10, PairUnchanged DEF vars, card, thread
<1> QED BY <1>2, <1>3, <1>4, <1>5, <1>6, <1>7, <1>8, <1>9, <1>10 DEF Next

LEMMA PairAlways ==
    ASSUME Deliveries["av"] = {"both"}
    PROVE  Spec => [](TypeOK /\ AVInv)
<1>1. Init => TypeOK /\ AVInv
  BY TypeInit, PairInit
<1>2. TypeOK /\ AVInv /\ [Next]_vars => (TypeOK /\ AVInv)'
  BY TypeNext, PairNext
<1> QED BY <1>1, <1>2, PTL DEF Spec

(* The sound recorded with a picture is its own or the next picture's, for *)
(* rings of every size, provided every callback brings both                *)
(* (decklink.cpp:767-807, replay_ingest.cpp:59-61).                        *)
THEOREM SoundStaysWithinOne ==
    ASSUME Deliveries["av"] = {"both"}
    PROVE  Spec => []SoundWithinOne
<1>1. AVInv => SoundWithinOne
  BY DEF AVInv, PairInv, Paired, SoundWithinOne
<1> QED BY <1>1, PairAlways, PTL

(* The ingest that holds a picture gets its sound from the next callback: *)
(* nothing is owed then, and there is room (decklink.cpp:771, 797-801).    *)
THEOREM SoundWillAlwaysCome ==
    ASSUME Deliveries["av"] = {"both"}
    PROVE  Spec => []SoundWillCome
<1>1. TypeOK /\ AVInv => SoundWillCome
  <2> SUFFICES ASSUME TypeOK, AVInv, adapter = "av", callback = "idle",
                      ingest = "get_audio", audio_pipe = <<>>
               PROVE  drop_audio = 0 /\ CanPut(out_pipe)
    BY DEF SoundWillCome
  <2>1. Balance /\ Owed
    BY DEF AVInv, PairInv
  <2>2. Len(out_pipe) \in Nat /\ Len(audio_pipe) = 0
    BY TypeParts, Lengths, EmptySeq
  <2>3. drop_audio = 0 /\ Len(out_pipe) = 0
    BY <2>1, <2>2 DEF Balance, Owed
  <2> QED BY <2>3, CaptureAssumption DEF CanPut
<1> QED BY <1>1, PairAlways, PTL

-----------------------------------------------------------------------------
(***************************************************************************)
(* The child of avpinput_decklink.  What it has read is counted by what    *)
(* it asked for; what it was sent is what it read and what is in its pipe; *)
(* what was sent was prerolled or taken from the card's pipe.              *)
(***************************************************************************)

PrerollOf(s) == IF preroll /\ ~(jpeg /\ s = "video") THEN Preroll ELSE 0
Prerolled(s) == PrerollOf(s) - preroll_frames[s]
InHand(s) == IF sender[s] \in {"filter", "write"} THEN 1 ELSE 0

(* Pictures read minus packets read *)
ReadLead == CASE avp_child = "video" -> avp_lead - 1
              [] avp_child = "audio" -> avp_lead + 1
              [] OTHER -> avp_lead

(* Pictures taken minus packets taken, by what became of them *)
TakenLead == ReadLead + kernel["video"] - kernel["audio"]
               + InHand("video") - InHand("audio")
               + Prerolled("audio") - Prerolled("video")

AvpTypeOK ==
    /\ sender \in [Streams -> {"none", "preroll", "get", "filter", "write", "preview"}]
    /\ preroll_frames \in [Streams -> Nat]
    /\ kernel \in [Streams -> Nat] /\ kernel["video"] = 0
    /\ avp_child \in {"video", "audio", "free", "ended"}
    /\ avp_lead \in -AvpLead .. AvpLead
    /\ ReadLead \in -AvpLead .. AvpLead
    /\ preroll \in BOOLEAN /\ jpeg \in BOOLEAN

PrerollFirst ==
    \A s \in Streams : /\ sender[s] = "preroll" <=> preroll_frames[s] > 0
                       /\ preroll_frames[s] <= PrerollOf(s)

(* What is put and not taken is counted by avsync; no picture is taken     *)
(* before the preroll is written.                                          *)
Passed ==
    /\ avsync = Len(out_pipe) - Len(audio_pipe) + TakenLead
    /\ preroll_frames["video"] > 0 => TakenLead <= 0

(* The most packets that can be lost: compressed pictures are not prerolled, *)
(* and the prerolled sound fills the pipes in their place.                   *)
MostLost == 1 + AvpLead + (IF jpeg THEN Prerolled("audio") ELSE 0)

Lost ==
    /\ callback = "idle" => drop_audio = 0 /\ avsync <= MostLost
    /\ callback = "audio" => \/ drop_audio = 1 /\ avsync <= MostLost
                             \/ drop_audio = 0 /\ started /\ avsync - 1 <= MostLost

NotYetStarted ==
    /\ started = FALSE /\ avsync = 0 /\ out_pipe = <<>> /\ audio_pipe = <<>>
    /\ kernel = [s \in Streams |-> 0] /\ avp_lead = 0
    /\ preroll \in BOOLEAN /\ jpeg \in BOOLEAN
    /\ IF callback = "idle" THEN drop_audio = 0 ELSE drop_audio = 1

AvpInv ==
    /\ TypeOK
    /\ avp # "none" => program # "ingest" /\ adapter = "av"
    /\ avp = "main" => NotYetStarted
    /\ Runs => AvpTypeOK /\ PrerollFirst /\ Passed /\ Lost

LEMMA AvpFirst == MCInit => AvpInv
<1> SUFFICES ASSUME NEW p, OnlyRuns(p) PROVE AvpInv
  BY DEF MCInit
<1>1. Init /\ program = p
  BY DEF OnlyRuns, AvpInit
<1>2. TypeOK
  BY <1>1, TypeInit
<1>3. CASE p = "avpinput"
  BY <1>1, <1>2, <1>3 DEF OnlyRuns, AvpInit, AvpRest, AvpInv, Runs, NotYetStarted, Init
<1>4. CASE p # "avpinput"
  BY <1>2, <1>4 DEF OnlyRuns, AvpAbsent, AvpRest, AvpInv, Runs
<1> QED BY <1>3, <1>4

(* The senders, stream by stream *)
LEMMA AvpTypes ==
    ASSUME AvpTypeOK
    PROVE  /\ preroll_frames["video"] \in Nat /\ preroll_frames["audio"] \in Nat
           /\ kernel["video"] = 0 /\ kernel["audio"] \in Nat
           /\ avp_lead \in Int /\ ReadLead \in Int
           /\ PrerollOf("video") \in Nat /\ PrerollOf("audio") \in Nat
           /\ Prerolled("video") \in Int /\ Prerolled("audio") \in Int
           /\ InHand("video") \in {0, 1} /\ InHand("audio") \in {0, 1}
           /\ TakenLead \in Int
<1>1. /\ preroll_frames["video"] \in Nat /\ preroll_frames["audio"] \in Nat
      /\ kernel["video"] = 0 /\ kernel["audio"] \in Nat
      /\ avp_lead \in Int /\ ReadLead \in Int
  BY AvpAssumption DEF AvpTypeOK, Streams
<1>2. PrerollOf("video") \in Nat /\ PrerollOf("audio") \in Nat
  BY AvpAssumption DEF PrerollOf
<1>3. Prerolled("video") \in Int /\ Prerolled("audio") \in Int
  BY <1>1, <1>2 DEF Prerolled
<1>4. InHand("video") \in {0, 1} /\ InHand("audio") \in {0, 1}
  BY DEF InHand
<1>5. TakenLead \in Int
  BY <1>1, <1>3, <1>4 DEF TakenLead
<1> QED BY <1>1, <1>2, <1>3, <1>4, <1>5

(* A picture that finds no place after the preroll cannot be further ahead  *)
(* of the sound taken than the child's reading, and one in the sender.      *)
LEMMA TakenLeadBound ==
    ASSUME AvpTypeOK, PrerollFirst, Passed
    PROVE  TakenLead <= MostLost
<1>1. CASE preroll_frames["video"] > 0
  <2>1. PrerollOf("audio") - preroll_frames["audio"] >= 0
    BY AvpTypes DEF PrerollFirst, Streams
  <2> QED BY <1>1, <2>1, AvpTypes, AvpAssumption DEF Passed, MostLost, Prerolled
<1>2. CASE preroll_frames["video"] = 0
  <2>1. TakenLead <= AvpLead + 1 + Prerolled("audio") - Prerolled("video")
    <3>1. ReadLead <= AvpLead
      BY AvpAssumption DEF AvpTypeOK
    <3>2. TakenLead <= ReadLead + 1 + Prerolled("audio") - Prerolled("video")
      BY AvpTypes DEF TakenLead
    <3> QED BY <3>1, <3>2, AvpTypes, AvpAssumption
  <2>2. Prerolled("video") = PrerollOf("video")
    BY <1>2, AvpTypes DEF Prerolled
  <2>3. CASE jpeg
    <3>1. PrerollOf("video") >= 0
      BY AvpTypes
    <3> QED BY <2>1, <2>2, <2>3, <3>1, AvpTypes, AvpAssumption DEF MostLost
  <2>4. CASE ~jpeg
    <3>1. PrerollOf("video") = PrerollOf("audio")
      BY <2>4 DEF PrerollOf
    <3>2. Prerolled("audio") <= PrerollOf("audio")
      BY AvpTypes DEF Prerolled
    <3> QED BY <2>1, <2>2, <2>4, <3>1, <3>2, AvpTypes, AvpAssumption DEF MostLost
  <2> QED BY <2>3, <2>4
<1> QED BY <1>1, <1>2, AvpTypes

SenderInv == AvpTypeOK /\ PrerollFirst /\ Passed /\ Lost

(* A step of the card leaves the senders and the child alone. *)
LEMMA SendersRest ==
    ASSUME UNCHANGED avpVars
    PROVE  /\ AvpTypeOK' <=> AvpTypeOK
           /\ PrerollFirst' <=> PrerollFirst
           /\ TakenLead' = TakenLead /\ MostLost' = MostLost
           /\ preroll_frames' = preroll_frames /\ Runs' = Runs /\ avp' = avp
<1>1. /\ UNCHANGED <<avp, preroll, jpeg, sender, preroll_frames, kernel,
                     avp_child, avp_lead>>
  BY DEF avpVars, options, senders
<1>2. ReadLead' = ReadLead
  BY <1>1 DEF ReadLead
<1>3. \A s : Prerolled(s)' = Prerolled(s) /\ PrerollOf(s)' = PrerollOf(s)
  BY <1>1 DEF Prerolled, PrerollOf
<1>4. \A s : InHand(s)' = InHand(s)
  BY <1>1 DEF InHand
<1>5. AvpTypeOK' <=> AvpTypeOK
  BY <1>1, <1>2 DEF AvpTypeOK
<1>6. PrerollFirst' <=> PrerollFirst
  BY <1>1, <1>3 DEF PrerollFirst
<1>7. TakenLead' = TakenLead
  BY <1>1, <1>2, <1>3, <1>4 DEF TakenLead
<1>8. MostLost' = MostLost
  BY <1>1, <1>3 DEF MostLost
<1> QED BY <1>1, <1>5, <1>6, <1>7, <1>8 DEF Runs

LEMMA AvpFrameArrived ==
    ASSUME TypeOK, SenderInv, UNCHANGED avpVars, adapter = "av", FrameArrived("both")
    PROVE  SenderInv'
<1>0. /\ UNCHANGED <<started, audio_pipe>>
      /\ callback = "idle" /\ callback' = "audio"
      /\ TakePicture(1)
  BY DEF FrameArrived, Arrival, enable_video, enable_audio
<1>1. CountersOK /\ Len(out_pipe) \in Nat /\ Len(audio_pipe) \in Nat
  BY TypeParts, Lengths
<1>2. drop_audio = 0 /\ avsync <= MostLost /\ avsync \in Int
  BY <1>0, <1>1 DEF SenderInv, Lost, CountersOK
<1>3. AvpTypeOK' /\ PrerollFirst'
  BY SendersRest DEF SenderInv
<1>4. TakenLead \in Int /\ TakenLead' = TakenLead /\ MostLost' = MostLost
      /\ preroll_frames' = preroll_frames
  BY SendersRest, AvpTypes DEF SenderInv
<1>5. MostLost \in Int
  BY AvpTypes, AvpAssumption DEF MostLost, SenderInv
<1>6. CASE /\ CanPut(out_pipe) /\ started /\ PutPicture
           /\ avsync' = avsync + 1 /\ UNCHANGED drop_audio
  <2>1. Len(out_pipe') = Len(out_pipe) + 1
    BY <1>6, OutPipeGrows
  <2>2. Passed'
    BY <1>0, <1>1, <1>2, <1>4, <1>6, <2>1 DEF SenderInv, Passed
  <2>3. Lost'
    BY <1>0, <1>2, <1>4, <1>5, <1>6 DEF Lost
  <2> QED BY <1>3, <2>2, <2>3 DEF SenderInv
<1>7. CASE drop_audio' = drop_audio + 1 /\ UNCHANGED <<out_pipe, avsync, captured>>
  <2>1. Passed'
    BY <1>0, <1>4, <1>7 DEF SenderInv, Passed
  <2>2. Lost'
    BY <1>0, <1>2, <1>4, <1>7 DEF Lost
  <2> QED BY <1>3, <2>1, <2>2 DEF SenderInv
<1> QED BY <1>0, <1>6, <1>7 DEF TakePicture

LEMMA AvpSoundArrived ==
    ASSUME TypeOK, SenderInv, UNCHANGED avpVars, SoundArrived
    PROVE  SenderInv'
<1>0. /\ UNCHANGED <<started, out_pipe>>
      /\ callback = "audio" /\ callback' = "idle"
  BY DEF SoundArrived, SoundArrival, TakeSound
<1>1. PipesOK /\ CountersOK /\ Len(out_pipe) \in Nat /\ Len(audio_pipe) \in Nat
  BY TypeParts, Lengths
<1>2. /\ avsync \in Int
      /\ \/ drop_audio = 1 /\ avsync <= MostLost
         \/ drop_audio = 0 /\ started /\ avsync - 1 <= MostLost
  BY <1>0, <1>1 DEF SenderInv, Lost, CountersOK
<1>3. AvpTypeOK' /\ PrerollFirst'
  BY SendersRest DEF SenderInv
<1>4. TakenLead \in Int /\ TakenLead' = TakenLead /\ MostLost' = MostLost
      /\ preroll_frames' = preroll_frames
  BY SendersRest, AvpTypes DEF SenderInv
<1>5. MostLost \in Int
  BY AvpTypes, AvpAssumption DEF MostLost, SenderInv
<1>6. CASE /\ drop_audio = 0 /\ CanPut(audio_pipe)
           /\ audio_pipe' = Append(audio_pipe, captured)
           /\ avsync' = avsync - 1 /\ UNCHANGED drop_audio
  <2>1. Len(audio_pipe') = Len(audio_pipe) + 1
    <3>1. captured \in 0 .. captured /\ audio_pipe \in Seq(0 .. captured)
      BY <1>1 DEF PipesOK, CountersOK
    <3> QED BY <1>6, <3>1, AppendProperties
  <2>2. Passed'
    BY <1>0, <1>1, <1>2, <1>4, <1>6, <2>1 DEF SenderInv, Passed
  <2>3. Lost'
    BY <1>0, <1>2, <1>4, <1>5, <1>6 DEF Lost
  <2> QED BY <1>3, <2>2, <2>3 DEF SenderInv
<1>7. CASE /\ UNCHANGED <<audio_pipe, avsync>>
           /\ \/ drop_audio > 0 /\ drop_audio' = drop_audio - 1
              \/ drop_audio = 0 /\ ~CanPut(audio_pipe) /\ UNCHANGED drop_audio
  <2>1. Passed'
    BY <1>0, <1>4, <1>7 DEF SenderInv, Passed
  <2>2. Lost'
    <3>1. CASE drop_audio > 0 /\ drop_audio' = drop_audio - 1
      BY <1>0, <1>2, <1>4, <1>7, <3>1 DEF Lost
    <3>2. CASE drop_audio = 0 /\ ~CanPut(audio_pipe) /\ UNCHANGED drop_audio
      <4>1. Len(audio_pipe) = IN_PIPE_SIZE - 1 /\ Len(out_pipe) =< IN_PIPE_SIZE - 1
        BY <1>1, <3>2, CaptureAssumption DEF PipesOK, CanPut
      <4>2. avsync =< TakenLead
        BY <1>1, <1>2, <1>4, <4>1, CaptureAssumption DEF SenderInv, Passed
      <4>3. avsync =< MostLost
        BY <1>2, <1>4, <1>5, <4>2, TakenLeadBound DEF SenderInv
      <4> QED BY <1>0, <1>4, <1>7, <3>2, <4>3 DEF Lost
    <3> QED BY <1>7, <3>1, <3>2
  <2> QED BY <1>3, <2>1, <2>2 DEF SenderInv
<1>8. drop_audio = 0 => started
  BY <1>2
<1> QED BY <1>6, <1>7, <1>8 DEF SoundArrived, SoundArrival, TakeSound

(* What a sender's or the child's step must show, when the card rests *)
LEMMA SenderKeeps ==
    ASSUME SenderInv, AvpTypeOK', PrerollFirst',
           UNCHANGED <<out_pipe, audio_pipe, avsync, drop_audio, callback, started, jpeg>>,
           TakenLead' = TakenLead, Prerolled("audio")' >= Prerolled("audio"),
           preroll_frames'["video"] > 0 => preroll_frames["video"] > 0,
           avsync \in Int
    PROVE  SenderInv'
<1>1. Passed'
  BY DEF SenderInv, Passed
<1>2. MostLost \in Int /\ MostLost' \in Int /\ MostLost <= MostLost'
  <2>1. Prerolled("audio") \in Int
    BY AvpTypes DEF SenderInv
  <2>2. Prerolled("audio")' \in Int
    <3>1. preroll_frames'["audio"] \in Nat
      BY DEF AvpTypeOK, Streams
    <3>2. PrerollOf("audio")' \in Nat
      BY AvpAssumption DEF PrerollOf
    <3> QED BY <3>1, <3>2 DEF Prerolled
  <2> QED BY <2>1, <2>2, AvpAssumption DEF MostLost
<1>3. Lost'
  BY <1>2 DEF SenderInv, Lost
<1> QED BY <1>1, <1>3 DEF SenderInv

LEMMA AvpMain ==
    ASSUME TypeOK, NotYetStarted, main, avp' = "waits"
    PROVE  SenderInv'
<1>1. /\ UNCHANGED <<out_pipe, audio_pipe, drop_audio, avsync, callback,
                     preroll, jpeg, kernel, avp_lead>>
      /\ started' = TRUE /\ avp_child' = "free"
      /\ preroll_frames' = [s \in Streams |->
                             IF preroll /\ ~(jpeg /\ s = "video") THEN Preroll ELSE 0]
      /\ sender' = [s \in Streams |->
                     IF preroll_frames'[s] > 0 THEN "preroll" ELSE "get"]
  BY DEF main, card, options
<1>2. /\ PrerollOf("video")' = preroll_frames'["video"]
      /\ PrerollOf("audio")' = preroll_frames'["audio"]
      /\ preroll_frames' \in [Streams -> Nat]
  <2>1. \A s \in Streams : PrerollOf(s)' = preroll_frames'[s]
    BY <1>1 DEF PrerollOf
  <2>2. \A s \in Streams : preroll_frames'[s] \in Nat
    BY <1>1, AvpAssumption
  <2> QED BY <1>1, <2>1, <2>2 DEF Streams
<1>3. /\ Prerolled("video")' = 0 /\ Prerolled("audio")' = 0
  BY <1>2 DEF Prerolled, Streams
<1>4. /\ InHand("video")' = 0 /\ InHand("audio")' = 0
  BY <1>1 DEF InHand, Streams
<1>5. ReadLead' = 0 /\ kernel'["video"] = 0 /\ kernel'["audio"] = 0
  BY <1>1 DEF ReadLead, NotYetStarted, Streams
<1>6. TakenLead' = 0
  BY <1>3, <1>4, <1>5 DEF TakenLead
<1>7. Passed'
  <2>1. Len(out_pipe') = 0 /\ Len(audio_pipe') = 0
    BY <1>1, EmptySeq DEF NotYetStarted
  <2> QED BY <1>1, <1>6, <2>1 DEF Passed, NotYetStarted
<1>8. AvpTypeOK'
  <2>1. sender' \in [Streams -> {"none", "preroll", "get", "filter", "write", "preview"}]
    BY <1>1
  <2>2. kernel' \in [Streams -> Nat]
    BY <1>1 DEF NotYetStarted
  <2> QED BY <1>1, <1>2, <1>5, <2>1, <2>2, AvpAssumption DEF AvpTypeOK, NotYetStarted
<1>9. PrerollFirst'
  <2> SUFFICES ASSUME NEW s \in Streams
               PROVE  /\ sender'[s] = "preroll" <=> preroll_frames'[s] > 0
                      /\ preroll_frames'[s] <= PrerollOf(s)'
    BY DEF PrerollFirst
  <2>1. sender'[s] = "preroll" <=> preroll_frames'[s] > 0
    BY <1>1
  <2>2. s = "video" \/ s = "audio"
    BY DEF Streams
  <2>3. preroll_frames'[s] = PrerollOf(s)' /\ preroll_frames'[s] \in Nat
    BY <1>2, <2>2
  <2> QED BY <2>1, <2>3
<1>10. Lost'
  <2>1. MostLost' >= 0 /\ MostLost' \in Int
    BY <1>3, AvpAssumption DEF MostLost
  <2>2. callback' \in {"idle", "audio"} /\ avsync' = 0
    BY <1>1, TypeParts DEF ControlOK, NotYetStarted
  <2> QED BY <1>1, <2>1, <2>2 DEF Lost, NotYetStarted
<1> QED BY <1>7, <1>8, <1>9, <1>10 DEF SenderInv

LEMMA AvpGet ==
    ASSUME TypeOK, SenderInv, NEW s \in Streams, GetThing(s)
    PROVE  TypeOK' /\ SenderInv'
<1>0. /\ UNCHANGED <<started, drop_audio, avsync, callback, captured, preroll, jpeg,
                     preroll_frames, kernel, avp_child, avp_lead>>
      /\ sender[s] = "get" /\ sender' = [sender EXCEPT ![s] = "filter"]
  BY DEF GetThing, card, options
<1>1. PipesOK /\ CountersOK /\ ControlOK /\ Len(out_pipe) \in Nat /\ Len(audio_pipe) \in Nat
  BY TypeParts, Lengths
<1>2. \/ /\ s = "video" /\ UNCHANGED audio_pipe
         /\ out_pipe' \in Seq(1 .. captured) /\ Len(out_pipe') = Len(out_pipe) - 1
      \/ /\ s = "audio" /\ UNCHANGED out_pipe
         /\ audio_pipe' \in Seq(0 .. captured) /\ Len(audio_pipe') = Len(audio_pipe) - 1
  BY <1>1, HeadTailProperties DEF GetThing, PipesOK
<1>3. TypeOK'
  <2>1. PipesOK'
    BY <1>0, <1>1, <1>2, CaptureAssumption DEF PipesOK
  <2>2. ControlOK' /\ CountersOK'
    BY <1>1 DEF GetThing, card, thread, ControlOK, CountersOK
  <2> QED BY <2>1, <2>2, TypePartsPrime
<1>4. ReadLead' = ReadLead /\ \A t : Prerolled(t)' = Prerolled(t)
  BY <1>0 DEF ReadLead, Prerolled, PrerollOf
<1>5. AvpTypeOK'
  BY <1>0, <1>4 DEF SenderInv, AvpTypeOK
<1>6. PrerollFirst'
  <2>1. \A t : PrerollOf(t)' = PrerollOf(t)
    BY <1>0 DEF PrerollOf
  <2>2. \A t \in Streams : sender'[t] = "preroll" <=> sender[t] = "preroll"
    BY <1>0 DEF SenderInv, AvpTypeOK
  <2> QED BY <1>0, <2>1, <2>2 DEF SenderInv, PrerollFirst
<1>7. Lost'
  BY <1>0, <1>4 DEF SenderInv, Lost, MostLost
<1>8. InHand(s) = 0 /\ InHand(s)' = 1 /\ \A t \in Streams \ {s} : InHand(t)' = InHand(t)
  BY <1>0 DEF InHand, SenderInv, AvpTypeOK
<1>9. Passed'
  <2>0. TakenLead \in Int /\ avsync \in Int /\ ReadLead \in Int
        /\ kernel["video"] = 0 /\ kernel["audio"] \in Nat
        /\ Prerolled("video") \in Int /\ Prerolled("audio") \in Int
        /\ InHand("video") \in {0, 1} /\ InHand("audio") \in {0, 1}
    BY <1>1, AvpTypes DEF SenderInv, CountersOK
  <2>1. CASE s = "video"
    <3>1. InHand("audio")' = InHand("audio")
      BY <1>8, <2>1 DEF Streams
    <3>2. TakenLead' = TakenLead + 1
      BY <1>0, <1>4, <1>8, <2>0, <2>1, <3>1 DEF TakenLead
    <3>3. ~(preroll_frames["video"] > 0)
      BY <1>0, <2>1 DEF SenderInv, PrerollFirst
    <3> QED BY <1>0, <1>1, <1>2, <2>0, <2>1, <3>2, <3>3 DEF SenderInv, Passed
  <2>2. CASE s = "audio"
    <3>1. InHand("video")' = InHand("video")
      BY <1>8, <2>2 DEF Streams
    <3>2. TakenLead' = TakenLead - 1
      BY <1>0, <1>4, <1>8, <2>0, <2>2, <3>1 DEF TakenLead
    <3> QED BY <1>0, <1>1, <1>2, <2>0, <2>2, <3>2 DEF SenderInv, Passed
  <2> QED BY <2>1, <2>2 DEF Streams
<1> QED BY <1>3, <1>5, <1>6, <1>7, <1>9 DEF SenderInv

(* A step of a sender that writes nothing *)
LEMMA AvpFilters ==
    ASSUME TypeOK, SenderInv, UNCHANGED vars, NEW s \in Streams,
           filter(s) \/ PutPreview(s) \/ PreviewTakes(s)
    PROVE  SenderInv'
<1>0. /\ UNCHANGED <<preroll, jpeg, preroll_frames, kernel, avp_child, avp_lead>>
      /\ \/ sender[s] = "filter" /\ sender' = [sender EXCEPT ![s] = "write"]
         \/ sender[s] = "preview" /\ sender' = [sender EXCEPT ![s] = "get"]
         \/ sender' = sender
  BY DEF filter, PutPreview, PreviewTakes, options
<1>1. ReadLead' = ReadLead /\ \A t : /\ Prerolled(t)' = Prerolled(t)
                                     /\ PrerollOf(t)' = PrerollOf(t)
  BY <1>0 DEF ReadLead, Prerolled, PrerollOf
<1>2. AvpTypeOK'
  BY <1>0, <1>1 DEF SenderInv, AvpTypeOK
<1>3. \A t \in Streams : /\ sender'[t] = "preroll" <=> sender[t] = "preroll"
                         /\ InHand(t)' = InHand(t)
  BY <1>0 DEF SenderInv, AvpTypeOK, InHand
<1>4. PrerollFirst'
  BY <1>0, <1>1, <1>3 DEF SenderInv, PrerollFirst
<1>5. TakenLead' = TakenLead
  BY <1>0, <1>1, <1>3 DEF TakenLead, Streams
<1>6. avsync \in Int /\ UNCHANGED <<out_pipe, audio_pipe, avsync, drop_audio, callback, started>>
  BY TypeParts DEF vars, card, CountersOK
<1>7. Prerolled("audio")' >= Prerolled("audio")
  BY <1>1, AvpTypes DEF SenderInv
<1> QED BY <1>0, <1>2, <1>4, <1>5, <1>6, <1>7, SenderKeeps

LEMMA AvpAsks ==
    ASSUME TypeOK, SenderInv, UNCHANGED vars,
           ChildAsks \/ AvpChildEnds
    PROVE  SenderInv'
<1>0. UNCHANGED <<preroll, jpeg, sender, preroll_frames, kernel>>
      /\ avp_child = "free"
  BY DEF ChildAsks, AvpChildEnds, options, senders
<1>1. \/ /\ avp_child' = "video" /\ avp_lead < AvpLead /\ avp_lead' = avp_lead + 1
      \/ /\ avp_child' = "audio" /\ avp_lead > -AvpLead /\ avp_lead' = avp_lead - 1
      \/ avp_child' = "ended" /\ avp_lead' = avp_lead
  BY AvpTypes DEF ChildAsks, AvpChildEnds, SenderInv
<1>2. ReadLead' = ReadLead /\ avp_lead' \in -AvpLead .. AvpLead
  BY <1>0, <1>1, AvpAssumption DEF ReadLead, SenderInv, AvpTypeOK
<1>3. \A t : /\ Prerolled(t)' = Prerolled(t) /\ PrerollOf(t)' = PrerollOf(t)
             /\ InHand(t)' = InHand(t)
  BY <1>0 DEF Prerolled, PrerollOf, InHand
<1>4. AvpTypeOK'
  BY <1>0, <1>1, <1>2 DEF SenderInv, AvpTypeOK
<1>5. PrerollFirst'
  BY <1>0, <1>3 DEF SenderInv, PrerollFirst
<1>6. TakenLead' = TakenLead
  BY <1>0, <1>2, <1>3 DEF TakenLead
<1>7. avsync \in Int /\ UNCHANGED <<out_pipe, audio_pipe, avsync, drop_audio, callback, started>>
  BY TypeParts DEF vars, card, CountersOK
<1>8. Prerolled("audio")' >= Prerolled("audio")
  BY <1>3, AvpTypes DEF SenderInv
<1> QED BY <1>0, <1>4, <1>5, <1>6, <1>7, <1>8, SenderKeeps

(* A record written is a prerolled one, or the one in hand. *)
LEMMA AvpWritten ==
    ASSUME AvpTypeOK, PrerollFirst, UNCHANGED <<preroll, jpeg>>,
           NEW s \in Streams, Writes(s), Written(s)
    PROVE  /\ sender' \in [Streams -> {"none", "preroll", "get", "filter", "write", "preview"}]
           /\ preroll_frames' \in [Streams -> Nat]
           /\ PrerollFirst'
           /\ \A t \in Streams \ {s} : /\ InHand(t)' = InHand(t)
                                       /\ Prerolled(t)' = Prerolled(t)
           /\ Prerolled(s)' - InHand(s)' = Prerolled(s) - InHand(s) + 1
           /\ Prerolled(s)' >= Prerolled(s)
           /\ preroll_frames'["video"] > 0 => preroll_frames["video"] > 0
<1>0. /\ preroll_frames' = [preroll_frames EXCEPT ![s] = IF @ > 0 THEN @ - 1 ELSE 0]
      /\ sender' = [sender EXCEPT ![s] =
                      IF preroll_frames'[s] > 0 THEN "preroll"
                      ELSE IF @ = "write" /\ preview /\ ~(jpeg /\ s = "video")
                           THEN "preview" ELSE "get"]
      /\ sender[s] \in {"preroll", "write"}
  BY DEF Written, Writes
<1>1. preroll_frames \in [Streams -> Nat] /\ preroll_frames[s] \in Nat
      /\ sender \in [Streams -> {"none", "preroll", "get", "filter", "write", "preview"}]
  BY DEF AvpTypeOK
<1>2. /\ preroll_frames'[s] = IF preroll_frames[s] > 0 THEN preroll_frames[s] - 1 ELSE 0
      /\ \A t \in Streams \ {s} : preroll_frames'[t] = preroll_frames[t] /\ sender'[t] = sender[t]
      /\ sender'[s] \in {"preroll", "preview", "get"}
      /\ sender'[s] = "preroll" <=> preroll_frames'[s] > 0
      /\ preroll_frames'[s] \in Nat
  BY <1>0, <1>1
<1>3. preroll_frames' \in [Streams -> Nat]
  BY <1>0, <1>1, <1>2
<1>4. sender' \in [Streams -> {"none", "preroll", "get", "filter", "write", "preview"}]
  BY <1>0, <1>1
<1>5. \A t : PrerollOf(t)' = PrerollOf(t)
  BY DEF PrerollOf
<1>6. PrerollOf(s) \in Nat
  BY AvpAssumption DEF PrerollOf
<1>7. PrerollFirst'
  <2> SUFFICES ASSUME NEW t \in Streams
               PROVE  /\ sender'[t] = "preroll" <=> preroll_frames'[t] > 0
                      /\ preroll_frames'[t] <= PrerollOf(t)'
    BY DEF PrerollFirst
  <2>1. CASE t = s
    <3>1. preroll_frames'[s] <= PrerollOf(s)
      BY <1>1, <1>2, <1>6 DEF PrerollFirst
    <3> QED BY <1>2, <1>5, <2>1, <3>1
  <2>2. CASE t # s
    BY <1>2, <1>5, <2>2 DEF PrerollFirst
  <2> QED BY <2>1, <2>2
<1>8. \A t \in Streams \ {s} : InHand(t)' = InHand(t) /\ Prerolled(t)' = Prerolled(t)
  BY <1>2, <1>5 DEF InHand, Prerolled
<1>9. InHand(s)' = 0
  BY <1>2 DEF InHand
<1>10. CASE sender[s] = "preroll"
  <2>1. preroll_frames[s] > 0 /\ InHand(s) = 0
    BY <1>10 DEF PrerollFirst, InHand
  <2>2. Prerolled(s)' = Prerolled(s) + 1 /\ Prerolled(s) \in Int
    BY <1>1, <1>2, <1>5, <1>6, <2>1 DEF Prerolled
  <2>3. preroll_frames'["video"] > 0 => preroll_frames["video"] > 0
    BY <1>2, <2>1 DEF Streams
  <2> QED BY <1>3, <1>4, <1>7, <1>8, <1>9, <2>1, <2>2, <2>3
<1>11. CASE sender[s] = "write"
  <2>1. preroll_frames[s] = 0 /\ InHand(s) = 1
    BY <1>1, <1>11 DEF PrerollFirst, InHand
  <2>2. Prerolled(s)' = Prerolled(s) /\ Prerolled(s) \in Int
    BY <1>1, <1>2, <1>5, <1>6, <2>1 DEF Prerolled
  <2>3. preroll_frames'["video"] > 0 => preroll_frames["video"] > 0
    BY <1>2, <2>1 DEF Streams
  <2> QED BY <1>3, <1>4, <1>7, <1>8, <1>9, <2>1, <2>2, <2>3
<1> QED BY <1>0, <1>10, <1>11

LEMMA AvpWrites ==
    ASSUME TypeOK, SenderInv, UNCHANGED vars, NEW s \in Streams, write_to_fd(s)
    PROVE  SenderInv'
<1>0. /\ UNCHANGED <<preroll, jpeg, avp_child, avp_lead>>
      /\ kernel' = [kernel EXCEPT ![s] = @ + 1]
      /\ s = "video" => kernel["video"] < 0
      /\ Writes(s) /\ Written(s)
  BY DEF write_to_fd, options, Room
<1>1. s = "audio"
  <2>1. ~(kernel["video"] < 0)
    BY AvpTypes DEF SenderInv
  <2> QED BY <1>0, <2>1 DEF Streams
<1>2. /\ sender' \in [Streams -> {"none", "preroll", "get", "filter", "write", "preview"}]
      /\ preroll_frames' \in [Streams -> Nat]
      /\ PrerollFirst'
      /\ InHand("video")' = InHand("video") /\ Prerolled("video")' = Prerolled("video")
      /\ Prerolled("audio")' - InHand("audio")' = Prerolled("audio") - InHand("audio") + 1
      /\ Prerolled("audio")' >= Prerolled("audio")
      /\ preroll_frames'["video"] > 0 => preroll_frames["video"] > 0
  BY <1>0, <1>1, AvpWritten DEF SenderInv, Streams
<1>3. /\ kernel' \in [Streams -> Nat]
      /\ kernel'["video"] = kernel["video"] /\ kernel'["audio"] = kernel["audio"] + 1
  BY <1>0, <1>1 DEF SenderInv, AvpTypeOK, Streams
<1>4. ReadLead' = ReadLead
  BY <1>0 DEF ReadLead
<1>5. AvpTypeOK'
  BY <1>0, <1>2, <1>3, <1>4 DEF SenderInv, AvpTypeOK
<1>6. TakenLead' = TakenLead
  <2>1. Prerolled("audio")' \in Int /\ InHand("audio")' \in Int
    BY <1>5, AvpAssumption DEF AvpTypeOK, Prerolled, PrerollOf, InHand, Streams
  <2> QED BY <1>2, <1>3, <1>4, <2>1, AvpTypes DEF SenderInv, TakenLead
<1>7. avsync \in Int /\ UNCHANGED <<out_pipe, audio_pipe, avsync, drop_audio, callback, started>>
  BY TypeParts DEF vars, card, CountersOK
<1> QED BY <1>0, <1>2, <1>5, <1>6, <1>7, SenderKeeps

LEMMA AvpReads ==
    ASSUME TypeOK, SenderInv, UNCHANGED vars, NEW s \in Streams, ChildReads(s)
    PROVE  SenderInv'
<1>0. /\ UNCHANGED <<preroll, jpeg, avp_lead>>
      /\ avp_child = s /\ avp_child' = "free"
      /\ \/ /\ kernel[s] > 0 /\ kernel' = [kernel EXCEPT ![s] = @ - 1]
            /\ UNCHANGED <<sender, preroll_frames>>
         \/ /\ kernel[s] = 0 /\ Writes(s) /\ Written(s) /\ UNCHANGED kernel
  BY DEF ChildReads, options
<1>1. /\ ReadLead' = avp_lead /\ ReadLead' \in -AvpLead .. AvpLead
      /\ s = "video" => ReadLead' = ReadLead + 1
      /\ s = "audio" => ReadLead' = ReadLead - 1
  BY <1>0, AvpTypes DEF ReadLead, SenderInv, AvpTypeOK
<1>2. avsync \in Int /\ UNCHANGED <<out_pipe, audio_pipe, avsync, drop_audio, callback, started>>
  BY TypeParts DEF vars, card, CountersOK
<1>3. CASE /\ kernel[s] > 0 /\ kernel' = [kernel EXCEPT ![s] = @ - 1]
           /\ UNCHANGED <<sender, preroll_frames>>
  <2>1. s = "audio"
    BY <1>3, AvpTypes DEF SenderInv, Streams
  <2>2. /\ kernel' \in [Streams -> Nat]
        /\ kernel'["video"] = kernel["video"] /\ kernel'["audio"] = kernel["audio"] - 1
    BY <1>3, <2>1 DEF SenderInv, AvpTypeOK, Streams
  <2>3. \A t : /\ Prerolled(t)' = Prerolled(t) /\ PrerollOf(t)' = PrerollOf(t)
               /\ InHand(t)' = InHand(t)
    BY <1>0, <1>3 DEF Prerolled, PrerollOf, InHand
  <2>4. AvpTypeOK'
    BY <1>0, <1>1, <1>3, <2>2 DEF SenderInv, AvpTypeOK
  <2>5. PrerollFirst'
    BY <1>3, <2>3 DEF SenderInv, PrerollFirst
  <2>6. TakenLead' = TakenLead
    BY <1>1, <2>1, <2>2, <2>3, AvpTypes DEF SenderInv, TakenLead
  <2>7. Prerolled("audio")' >= Prerolled("audio")
    BY <2>3, AvpTypes DEF SenderInv
  <2> QED BY <1>0, <1>2, <1>3, <2>4, <2>5, <2>6, <2>7, SenderKeeps
<1>4. CASE kernel[s] = 0 /\ Writes(s) /\ Written(s) /\ UNCHANGED kernel
  <2>1. /\ sender' \in [Streams -> {"none", "preroll", "get", "filter", "write", "preview"}]
        /\ preroll_frames' \in [Streams -> Nat]
        /\ PrerollFirst'
        /\ \A t \in Streams \ {s} : /\ InHand(t)' = InHand(t)
                                    /\ Prerolled(t)' = Prerolled(t)
        /\ Prerolled(s)' - InHand(s)' = Prerolled(s) - InHand(s) + 1
        /\ Prerolled(s)' >= Prerolled(s)
        /\ preroll_frames'["video"] > 0 => preroll_frames["video"] > 0
    BY <1>0, <1>4, AvpWritten DEF SenderInv
  <2>2. AvpTypeOK'
    BY <1>0, <1>1, <1>4, <2>1 DEF SenderInv, AvpTypeOK
  <2>3. /\ Prerolled("audio")' \in Int /\ InHand("audio")' \in Int
        /\ Prerolled("video")' \in Int /\ InHand("video")' \in Int
    BY <2>2, AvpAssumption DEF AvpTypeOK, Prerolled, PrerollOf, InHand, Streams
  <2>4. CASE s = "video"
    <3>1. /\ InHand("audio")' = InHand("audio") /\ Prerolled("audio")' = Prerolled("audio")
          /\ Prerolled("video")' - InHand("video")' = Prerolled("video") - InHand("video") + 1
      BY <2>1, <2>4 DEF Streams
    <3>2. TakenLead' = TakenLead
      BY <1>1, <1>4, <2>3, <2>4, <3>1, AvpTypes DEF SenderInv, TakenLead
    <3>3. Prerolled("audio")' >= Prerolled("audio")
      BY <3>1, AvpTypes DEF SenderInv
    <3> QED BY <1>0, <1>2, <2>1, <2>2, <3>2, <3>3, SenderKeeps
  <2>5. CASE s = "audio"
    <3>1. /\ InHand("video")' = InHand("video") /\ Prerolled("video")' = Prerolled("video")
          /\ Prerolled("audio")' - InHand("audio")' = Prerolled("audio") - InHand("audio") + 1
          /\ Prerolled("audio")' >= Prerolled("audio")
      BY <2>1, <2>5 DEF Streams
    <3>2. TakenLead' = TakenLead
      BY <1>1, <1>4, <2>3, <2>5, <3>1, AvpTypes DEF SenderInv, TakenLead
    <3> QED BY <1>0, <1>2, <2>1, <2>2, <3>1, <3>2, SenderKeeps
  <2> QED BY <2>4, <2>5 DEF Streams
<1> QED BY <1>0, <1>3, <1>4

(* Before the card is told to start, what it brings is dropped, and owed. *)
LEMMA AvpBeforeStart ==
    ASSUME TypeOK, NotYetStarted, adapter = "av", UNCHANGED avpVars,
           FrameArrived("both") \/ SoundArrived
    PROVE  NotYetStarted'
<1>1. CASE FrameArrived("both")
  <2>1. /\ UNCHANGED <<started, audio_pipe>> /\ callback = "idle" /\ callback' = "audio"
        /\ TakePicture(1)
    BY <1>1 DEF FrameArrived, Arrival, enable_video, enable_audio
  <2>2. drop_audio' = drop_audio + 1 /\ UNCHANGED <<out_pipe, avsync>>
    BY <2>1 DEF TakePicture, NotYetStarted
  <2> QED BY <2>1, <2>2 DEF NotYetStarted, avpVars, options, senders
<1>2. CASE SoundArrived
  <2>1. /\ UNCHANGED <<started, out_pipe>> /\ callback = "audio" /\ callback' = "idle"
    BY <1>2 DEF SoundArrived, SoundArrival, TakeSound
  <2>2. drop_audio = 1
    BY <2>1 DEF NotYetStarted
  <2>3. drop_audio' = 0 /\ UNCHANGED <<audio_pipe, avsync>>
    BY <1>2, <2>2 DEF SoundArrived, SoundArrival, TakeSound
  <2> QED BY <2>1, <2>3 DEF NotYetStarted, avpVars, options, senders
<1> QED BY <1>1, <1>2

LEMMA AvpRested ==
    ASSUME AvpInv, UNCHANGED <<program, captureVars>>
    PROVE  AvpInv'
<1>1. /\ UNCHANGED <<program, adapter, started, out_pipe, audio_pipe, drop_audio,
                     avsync, callback, captured, ingest, input, input_audio,
                     encode_suspended, recorded>>
      /\ UNCHANGED avpVars
  BY DEF captureVars, vars, card, thread
<1>2. TypeOK'
  BY <1>1 DEF AvpInv, TypeOK
<1>3. NotYetStarted => NotYetStarted'
  BY <1>1 DEF NotYetStarted, avpVars, options, senders
<1>4. SenderInv => SenderInv'
  BY <1>1, SendersRest DEF SenderInv, Passed, Lost
<1>5. avp' = avp /\ Runs' = Runs
  BY <1>1, SendersRest
<1> QED BY <1>1, <1>2, <1>3, <1>4, <1>5 DEF AvpInv, SenderInv

LEMMA AvpNextOfAll ==
    ASSUME Deliveries["av"] = {"both"}
    PROVE  AvpInv /\ [MCNext]_allVars => AvpInv'
<1> SUFFICES ASSUME AvpInv, [MCNext]_allVars PROVE AvpInv'
  OBVIOUS
<1>0. TypeOK /\ (avp # "none" => program # "ingest" /\ adapter = "av")
      /\ (avp = "main" => NotYetStarted) /\ (Runs => SenderInv)
      /\ program' = program
  BY DEF AvpInv, SenderInv, MCNext, allVars
<1>1. CASE program = "ingest" /\ Next /\ UNCHANGED avpVars
  <2>1. avp = "none" /\ avp' = "none"
    BY <1>0, <1>1 DEF avpVars
  <2>2. TypeOK'
    BY <1>0, <1>1, TypeNext
  <2> QED BY <2>1, <2>2 DEF AvpInv, Runs
<1>2. CASE AvpNext
  <2>0. avp # "none" /\ program # "ingest" /\ adapter = "av" /\ adapter' = "av"
    <3>1. avp # "none"
      BY <1>2 DEF AvpNext, main, ChildIsGone, CardSteps, ChildAsks, AvpChildEnds, SenderSteps,
         GetThing, filter, write_to_fd, Writes, PutPreview, PreviewTakes, ChildReads, Runs
    <3>2. adapter' = adapter
      BY <1>2 DEF AvpNext, main, ChildIsGone, CardSteps, ChildAsks, AvpChildEnds, SenderSteps,
         GetThing, filter, write_to_fd, PutPreview, PreviewTakes, ChildReads, vars,
         SoundArrived, SoundArrival, TakeSound, FrameArrived, Arrival
    <3> QED BY <1>0, <3>1, <3>2
  <2>1. SUFFICES ASSUME TRUE
                 PROVE  /\ TypeOK'
                        /\ avp' = "main" => NotYetStarted'
                        /\ Runs' => SenderInv'
    BY <1>0, <2>0 DEF AvpInv, SenderInv
  <2>2. ASSUME UNCHANGED vars PROVE TypeOK'
    BY <1>0, <2>2 DEF TypeOK, vars, card, thread
  <2>3. CASE main
    <3>1. TypeOK'
      BY <1>0, <2>3 DEF main, TypeOK, card, thread
    <3>2. avp' # "main"
      BY <2>3 DEF main
    <3>3. Runs' => SenderInv'
      BY <1>0, <2>3, AvpMain DEF main, Runs
    <3> QED BY <3>1, <3>2, <3>3
  <2>4. CASE ChildIsGone
    BY <2>2, <2>4 DEF ChildIsGone, Runs
  <2>5. CASE CardSteps
    <3>1. UNCHANGED avpVars /\ (SoundArrived \/ FrameArrived("both"))
      BY <1>0, <2>0, <2>5 DEF CardSteps
    <3>2. Next
      BY <2>0, <3>1 DEF Next
    <3>3. TypeOK'
      BY <1>0, <3>2, TypeNext
    <3>4. avp' = avp /\ Runs' = Runs
      BY <3>1, SendersRest
    <3>5. avp = "main" => NotYetStarted'
      BY <1>0, <2>0, <3>1, AvpBeforeStart
    <3>6. Runs => SenderInv'
      BY <1>0, <2>0, <3>1, AvpFrameArrived, AvpSoundArrived
    <3> QED BY <3>3, <3>4, <3>5, <3>6
  <2>6. CASE ChildAsks \/ AvpChildEnds
    <3>1. UNCHANGED vars /\ Runs /\ avp' = avp
      BY <2>6 DEF ChildAsks, AvpChildEnds
    <3>2. SenderInv'
      BY <1>0, <2>6, <3>1, AvpAsks
    <3> QED BY <2>2, <3>1, <3>2 DEF Runs
  <2>7. ASSUME NEW s \in Streams, SenderSteps(s) \/ PreviewTakes(s) \/ ChildReads(s)
        PROVE  /\ TypeOK'
               /\ avp' = "main" => NotYetStarted'
               /\ Runs' => SenderInv'
    <3>1. Runs /\ avp' = avp
      BY <2>7 DEF SenderSteps, GetThing, filter, write_to_fd, Writes, PutPreview,
                  PreviewTakes, ChildReads
    <3>2. CASE GetThing(s)
      BY <1>0, <3>1, <3>2, AvpGet DEF Runs
    <3>3. CASE filter(s) \/ PutPreview(s) \/ PreviewTakes(s)
      <4>1. UNCHANGED vars
        BY <3>3 DEF filter, PutPreview, PreviewTakes
      <4> QED BY <1>0, <2>2, <3>1, <3>3, <4>1, AvpFilters DEF Runs
    <3>4. CASE write_to_fd(s)
      <4>1. UNCHANGED vars
        BY <3>4 DEF write_to_fd
      <4> QED BY <1>0, <2>2, <3>1, <3>4, <4>1, AvpWrites DEF Runs
    <3>5. CASE ChildReads(s)
      <4>1. UNCHANGED vars
        BY <3>5 DEF ChildReads
      <4> QED BY <1>0, <2>2, <3>1, <3>5, <4>1, AvpReads DEF Runs
    <3> QED BY <2>7, <3>2, <3>3, <3>4, <3>5 DEF SenderSteps
  <2> QED BY <1>2, <2>3, <2>4, <2>5, <2>6, <2>7 DEF AvpNext
<1>3. CASE UNCHANGED <<program, captureVars>>
  BY <1>3, AvpRested
<1>4. \/ program = "ingest" /\ Next /\ UNCHANGED avpVars
      \/ AvpNext
      \/ UNCHANGED <<program, captureVars>>
  BY DEF MCNext, allVars
<1> QED BY <1>1, <1>2, <1>3, <1>4

(* What is lost is less than what the picture pipe and its sender hold. *)
LEMMA AvpNotStarved ==
    ASSUME 2 * AvpLead + 1 <= IN_PIPE_SIZE
    PROVE  AvpInv => ChildNotStarved
<1> SUFFICES ASSUME TypeOK, SenderInv, SoundAwaited, callback = "idle",
                    Len(out_pipe) >= IN_PIPE_SIZE - 1, Writes("video")
             PROVE  FALSE
  BY Lengths, TypeParts, CaptureAssumption
  DEF AvpInv, SenderInv, ChildNotStarved, SoundAwaited, CanPut, Lost
<1>1. /\ sender["audio"] = "get" /\ kernel["audio"] = 0 /\ avp_child = "audio"
      /\ Len(audio_pipe) = 0 /\ Len(out_pipe) \in Nat
  BY TypeParts, Lengths, EmptySeq DEF SoundAwaited
<1>2. avsync <= MostLost /\ avsync \in Int
  BY TypeParts DEF SenderInv, Lost, CountersOK
<1>3. ReadLead = avp_lead + 1 /\ ReadLead >= 1 - AvpLead
  BY <1>1, AvpAssumption DEF ReadLead, SenderInv, AvpTypeOK
<1>4. InHand("audio") = 0 /\ preroll_frames["audio"] = 0
  BY <1>1, AvpTypes DEF InHand, SenderInv, PrerollFirst, Streams
<1>5. Prerolled("audio") = PrerollOf("audio")
  BY <1>4, AvpTypes DEF SenderInv, Prerolled
<1>6. InHand("video") + preroll_frames["video"] >= 1
  BY AvpTypes DEF SenderInv, PrerollFirst, InHand, Writes, Streams
<1>7. InHand("video") - Prerolled("video") >= 1 - PrerollOf("video")
  BY <1>6, AvpTypes DEF SenderInv, Prerolled
<1>8. TakenLead >= 2 - AvpLead + PrerollOf("audio") - PrerollOf("video")
  <2>1. TakenLead = ReadLead + InHand("video") + Prerolled("audio") - Prerolled("video")
    BY <1>1, <1>4, AvpTypes DEF SenderInv, TakenLead
  <2> QED BY <1>3, <1>5, <1>7, <2>1, AvpTypes, AvpAssumption DEF SenderInv
<1>9. avsync >= IN_PIPE_SIZE + 1 - AvpLead + PrerollOf("audio") - PrerollOf("video")
  BY <1>1, <1>2, <1>8, AvpTypes, AvpAssumption, CaptureAssumption DEF SenderInv, Passed
<1>10. CASE jpeg
  <2>1. PrerollOf("video") = 0
    BY <1>10 DEF PrerollOf
  <2>2. MostLost = 1 + AvpLead + PrerollOf("audio")
    BY <1>5, <1>10 DEF MostLost
  <2> QED BY <1>2, <1>9, <2>1, <2>2, AvpTypes, AvpAssumption, CaptureAssumption DEF SenderInv
<1>11. CASE ~jpeg
  <2>1. PrerollOf("video") = PrerollOf("audio")
    BY <1>11 DEF PrerollOf
  <2>2. MostLost = 1 + AvpLead
    BY <1>11, AvpAssumption DEF MostLost
  <2> QED BY <1>2, <1>9, <2>1, <2>2, AvpTypes, AvpAssumption, CaptureAssumption DEF SenderInv
<1> QED BY <1>10, <1>11

(* The child of avpinput_decklink that waits for sound finds the card with  *)
(* nothing owed and the pictures moving, for rings of every size, however   *)
(* long the preroll, provided every callback brings both and the child's    *)
(* reading of one stream is ahead of the other by less than half of a ring  *)
(* (decklink.cpp:767-807, avpinput_decklink.cpp:294-326).                   *)
THEOREM ChildIsNotStarved ==
    ASSUME Deliveries["av"] = {"both"}, 2 * AvpLead + 1 <= IN_PIPE_SIZE
    PROVE  MCSpec => []ChildNotStarved
<1>1. AvpInv => ChildNotStarved
  BY AvpNotStarved
<1>2. AvpInv /\ [MCNext]_allVars => AvpInv'
  BY AvpNextOfAll
<1> QED BY <1>1, <1>2, AvpFirst, PTL DEF MCSpec

-----------------------------------------------------------------------------
(***************************************************************************)
(* The analog input.  Every buffer is in one place: with the driver,       *)
(* filled, or in the thread's hands (Separate); what is filled or in hand  *)
(* is whole and newer than all that left (Newer).                          *)
(***************************************************************************)
Fields == [1 .. 2 -> Nat]
HoldsBuffer == v4l2_worker \in {"even", "odd", "put", "queue"}

BuffersOK ==
    /\ queued \in Seq(V4L2!Buffers) /\ filled \in Seq(V4L2!Buffers)
    /\ content \in [V4L2!Buffers -> Fields]
    /\ HoldsBuffer => bufno \in V4L2!Buffers

PicturesOK ==
    /\ shot \in Nat /\ taken \in Nat
    /\ filling \in {"idle", "odd"}
    /\ out \in Fields
    /\ v4l2_pipe \in Seq(Fields)
    /\ v4l2 = "new" => v4l2_worker = "none" /\ filled = <<>> /\ filling = "idle"

Separate ==
    /\ \A i, j \in 1 .. Len(queued) : queued[i] = queued[j] => i = j
    /\ \A i, j \in 1 .. Len(filled) : filled[i] = filled[j] => i = j
    /\ \A i \in 1 .. Len(queued), j \in 1 .. Len(filled) : queued[i] # filled[j]
    /\ HoldsBuffer => /\ \A i \in 1 .. Len(queued) : queued[i] # bufno
                 /\ \A j \in 1 .. Len(filled) : filled[j] # bufno

(* The number of the picture that is being filled, or is filled next. *)
NextShot == IF filling = "odd" THEN shot ELSE shot + 1

Above(n) == n > taken /\ \A i \in 1 .. Len(v4l2_pipe) : v4l2_pipe[i][1] < n

Half == filling = "odd" => queued # <<>> /\ content[queued[1]][1] = shot

FilledNewer ==
    /\ Above(NextShot)
    /\ \A j \in 1 .. Len(filled) :
          /\ content[filled[j]][1] = content[filled[j]][2]
          /\ content[filled[j]][1] < NextShot
          /\ Above(content[filled[j]][1])
    /\ \A i, j \in 1 .. Len(filled) :
          i < j => content[filled[i]][1] < content[filled[j]][1]

HandNewer ==
    /\ v4l2_worker \in {"even", "odd", "put"} =>
          /\ content[bufno][1] = content[bufno][2]
          /\ content[bufno][1] < NextShot
          /\ Above(content[bufno][1])
          /\ \A j \in 1 .. Len(filled) : content[bufno][1] < content[filled[j]][1]
    /\ v4l2_worker \in {"odd", "put"} => out[1] = content[bufno][1]
    /\ v4l2_worker = "put" => out[2] = content[bufno][2]

PipeNewer ==
    /\ \A i \in 1 .. Len(v4l2_pipe) :
          v4l2_pipe[i][1] = v4l2_pipe[i][2] /\ v4l2_pipe[i][1] > taken
    /\ \A i, j \in 1 .. Len(v4l2_pipe) : i < j => v4l2_pipe[i][1] < v4l2_pipe[j][1]

AnalogInv == BuffersOK /\ PicturesOK /\ Separate /\ Half /\ FilledNewer /\ HandNewer /\ PipeNewer

LEMMA AnalogInit == MCInit => AnalogInv
<1> SUFFICES ASSUME MCInit PROVE AnalogInv
  OBVIOUS
<1>1. /\ queued = <<>> /\ filled = <<>> /\ v4l2_pipe = <<>>
      /\ content = [b \in V4L2!Buffers |-> <<0, 0>>]
      /\ shot = 0 /\ taken = 0 /\ filling = "idle" /\ v4l2_worker = "none"
      /\ out = <<0, 0>>
  BY DEF MCInit, OnlyRuns, V4L2!Init, V4L2!Absent, V4L2!Rest
<1>2. <<0, 0>> \in Fields
  BY DEF Fields
<1>3. BuffersOK /\ PicturesOK
  BY <1>1, <1>2 DEF BuffersOK, PicturesOK, HoldsBuffer
<1>4. Separate /\ Half /\ FilledNewer /\ HandNewer /\ PipeNewer
  BY <1>1 DEF Separate, Half, FilledNewer, HandNewer, PipeNewer, NextShot, Above, HoldsBuffer
<1> QED BY <1>3, <1>4 DEF AnalogInv

LEMMA AnalogConstruct ==
    ASSUME AnalogInv, V4L2!Construct
    PROVE  AnalogInv'
<1> USE DEF AnalogInv
<1>1. /\ v4l2 = "new" /\ v4l2_worker = "none" /\ filled = <<>> /\ filling = "idle"
      /\ v4l2' # "new" /\ v4l2_worker' \in {"none", "dequeue"}
      /\ queued' = queued \/ queued' = [i \in 1 .. n_buffers |-> i]
      /\ UNCHANGED <<filled, content, shot, filling, bufno, out, v4l2_pipe, taken>>
  BY DEF V4L2!Construct, PicturesOK
<1>2. CASE queued' = queued
  BY <1>1, <1>2 DEF BuffersOK, PicturesOK, Separate, Half, FilledNewer, HandNewer,
     PipeNewer, NextShot, Above, HoldsBuffer
<1>3. CASE queued' = [i \in 1 .. n_buffers |-> i]
  <2>1. /\ queued' \in Seq(V4L2!Buffers) /\ Len(queued') = n_buffers
        /\ \A i \in 1 .. n_buffers : queued'[i] = i
    BY <1>3, InputAssumption DEF V4L2!Buffers
  <2>2. BuffersOK' /\ PicturesOK'
    BY <1>1, <2>1 DEF BuffersOK, PicturesOK, HoldsBuffer
  <2>3. Separate'
    <3>1. ~HoldsBuffer' /\ Len(filled') = 0
      BY <1>1 DEF HoldsBuffer
    <3> QED BY <2>1, <3>1 DEF Separate
  <2>4. Half' /\ FilledNewer' /\ HandNewer' /\ PipeNewer'
    BY <1>1 DEF Half, FilledNewer, HandNewer, PipeNewer, NextShot, Above
  <2> QED BY <2>2, <2>3, <2>4
<1> QED BY <1>1, <1>2, <1>3

(* The first field: the picture becomes the one that is filled. *)
LEMMA AnalogFillEven ==
    ASSUME AnalogInv, V4L2!FillEven
    PROVE  AnalogInv'
<1> USE DEF AnalogInv
<1>1. /\ filling = "idle" /\ shot' = shot + 1 /\ shot \in Nat /\ v4l2 = "on"
      /\ UNCHANGED <<v4l2, queued, filled, v4l2_worker, bufno, out, v4l2_pipe, taken>>
      /\ NextShot = shot + 1
  BY DEF V4L2!FillEven, V4L2!thread, PicturesOK, NextShot
<1>2. CASE queued = <<>>
  <2>1. UNCHANGED <<content, filling>> /\ NextShot' = shot + 2 /\ NextShot = shot + 1
    BY <1>1, <1>2 DEF V4L2!FillEven, NextShot
  <2>2. BuffersOK' /\ PicturesOK' /\ Separate' /\ Half' /\ PipeNewer'
    BY <1>1, <2>1 DEF BuffersOK, PicturesOK, Separate, Half, PipeNewer, HoldsBuffer
  <2>3. ASSUME NEW n, n \in Nat, Above(n) PROVE Above(n)' /\ Above(n + 1)
    BY <1>1, <2>3 DEF Above, PicturesOK, Fields
  <2>4. FilledNewer' /\ HandNewer'
    <3>1. Above(NextShot)'
      BY <1>1, <2>1 DEF FilledNewer, Above, PicturesOK, Fields
    <3>2. ASSUME NEW b \in V4L2!Buffers PROVE content[b][1] \in Nat
      BY DEF BuffersOK, Fields
    <3>3. ASSUME NEW j \in 1 .. Len(filled)
          PROVE  /\ content[filled[j]][1] = content[filled[j]][2]
                 /\ content[filled[j]][1] < shot + 2
                 /\ content[filled[j]][1] > taken
                 /\ \A i \in 1 .. Len(v4l2_pipe) : v4l2_pipe[i][1] < content[filled[j]][1]
      BY <1>1, <3>2 DEF FilledNewer, Above, BuffersOK
    <3>4. FilledNewer'
      BY <1>1, <2>1, <3>1, <3>3 DEF FilledNewer, Above
    <3>5. HandNewer'
      BY <1>1, <2>1, <3>2 DEF HandNewer, Above, BuffersOK, HoldsBuffer
    <3> QED BY <3>4, <3>5
  <2> QED BY <2>2, <2>4
<1>3. CASE queued # <<>>
  <2> DEFINE h == queued[1]
  <2>1. /\ content' = [content EXCEPT ![h][1] = shot + 1]
        /\ filling' = "odd" /\ NextShot' = NextShot
        /\ h \in V4L2!Buffers /\ 1 \in 1 .. Len(queued)
    BY <1>1, <1>3 DEF V4L2!FillEven, NextShot, BuffersOK
  <2>2. /\ \A b \in V4L2!Buffers : b # h => content'[b] = content[b]
        /\ content'[h][1] = shot + 1 /\ content' \in [V4L2!Buffers -> Fields]
    <3>1. [content[h] EXCEPT ![1] = shot + 1] \in Fields
          /\ [content[h] EXCEPT ![1] = shot + 1][1] = shot + 1
      BY <1>1, <2>1 DEF BuffersOK, Fields
    <3> QED BY <2>1, <3>1 DEF BuffersOK
  <2>3. /\ \A j \in 1 .. Len(filled) : content'[filled[j]] = content[filled[j]]
        /\ HoldsBuffer => content'[bufno] = content[bufno]
    BY <2>1, <2>2 DEF Separate, BuffersOK
  <2> HIDE DEF h
  <2>4. BuffersOK' /\ PicturesOK' /\ Separate' /\ PipeNewer'
    BY <1>1, <2>1, <2>2 DEF BuffersOK, PicturesOK, Separate, PipeNewer, HoldsBuffer
  <2>5. Half'
    BY <1>1, <1>3, <2>2 DEF Half, h
  <2>6. FilledNewer'
    BY <1>1, <2>1, <2>3 DEF FilledNewer, Above
  <2>7. HandNewer'
    BY <1>1, <2>1, <2>3 DEF HandNewer, HoldsBuffer, Above
  <2> QED BY <2>4, <2>5, <2>6, <2>7
<1> QED BY <1>2, <1>3

(* The second field: the picture is filled, whole and the newest. *)
LEMMA AnalogFillOdd ==
    ASSUME AnalogInv, V4L2!FillOdd
    PROVE  AnalogInv'
<1> USE DEF AnalogInv
<1> DEFINE h == Head(queued)
<1>1. /\ filling = "odd" /\ filling' = "idle" /\ shot \in Nat /\ v4l2 = "on"
      /\ content' = [content EXCEPT ![h][2] = shot]
      /\ filled' = Append(filled, h) /\ queued' = Tail(queued)
      /\ UNCHANGED <<v4l2, shot, v4l2_worker, bufno, out, v4l2_pipe, taken>>
  BY DEF V4L2!FillOdd, V4L2!thread, PicturesOK
<1>2. /\ queued # <<>> /\ h = queued[1] /\ h \in V4L2!Buffers /\ content[h][1] = shot
      /\ 1 \in 1 .. Len(queued)
  BY <1>1 DEF Half, BuffersOK
<1>3. /\ \A b \in V4L2!Buffers : b # h => content'[b] = content[b]
      /\ content'[h][1] = shot /\ content'[h][2] = shot
      /\ content' \in [V4L2!Buffers -> Fields]
  <2>1. [content[h] EXCEPT ![2] = shot] \in Fields
        /\ [content[h] EXCEPT ![2] = shot][1] = shot
        /\ [content[h] EXCEPT ![2] = shot][2] = shot
    BY <1>1, <1>2 DEF BuffersOK, Fields
  <2> QED BY <1>1, <1>2, <2>1 DEF BuffersOK
<1>4. /\ \A j \in 1 .. Len(filled) : filled[j] # h /\ content'[filled[j]] = content[filled[j]]
      /\ HoldsBuffer => bufno # h /\ content'[bufno] = content[bufno]
  BY <1>2, <1>3 DEF Separate, BuffersOK
<1>5. /\ filled' \in Seq(V4L2!Buffers) /\ Len(filled') = Len(filled) + 1
      /\ \A j \in 1 .. Len(filled) : filled'[j] = filled[j]
      /\ filled'[Len(filled) + 1] = h
      /\ queued' \in Seq(V4L2!Buffers) /\ Len(queued') = Len(queued) - 1
      /\ \A i \in 1 .. Len(queued') : queued'[i] = queued[i + 1] /\ i + 1 \in 1 .. Len(queued)
      /\ Len(filled) \in Nat /\ Len(queued) \in Nat
  BY <1>1, <1>2 DEF BuffersOK
<1> HIDE DEF h
<1>6. NextShot = shot /\ NextShot' = shot + 1
  BY <1>1 DEF NextShot
<1>7. BuffersOK' /\ PicturesOK' /\ PipeNewer'
  BY <1>1, <1>3, <1>5 DEF BuffersOK, PicturesOK, PipeNewer, HoldsBuffer
<1>8. Separate' /\ Half'
  BY <1>1, <1>2, <1>4, <1>5 DEF Separate, Half, HoldsBuffer
<1>9. ASSUME NEW j \in 1 .. Len(filled'), j # Len(filled) + 1
      PROVE  j \in 1 .. Len(filled) /\ filled'[j] = filled[j]
  BY <1>5, <1>9
<1>10. \A j \in 1 .. Len(filled) : content[filled[j]][1] \in Nat
  BY DEF BuffersOK, Fields
<1>11. FilledNewer'
  <2>1. Above(NextShot)'
    BY <1>1, <1>6 DEF FilledNewer, Above, PicturesOK, Fields
  <2>2. ASSUME NEW j \in 1 .. Len(filled')
        PROVE  /\ content'[filled'[j]][1] = content'[filled'[j]][2]
               /\ content'[filled'[j]][1] < shot + 1
               /\ content'[filled'[j]][1] > taken
               /\ \A i \in 1 .. Len(v4l2_pipe) : v4l2_pipe[i][1] < content'[filled'[j]][1]
    <3>1. CASE j = Len(filled) + 1
      BY <1>1, <1>3, <1>5, <1>6, <3>1 DEF FilledNewer, Above
    <3>2. CASE j # Len(filled) + 1
      BY <1>1, <1>4, <1>6, <1>9, <1>10, <3>2 DEF FilledNewer, Above
    <3> QED BY <3>1, <3>2
  <2>3. ASSUME NEW i \in 1 .. Len(filled'), NEW j \in 1 .. Len(filled'), i < j
        PROVE  content'[filled'[i]][1] < content'[filled'[j]][1]
    <3>1. i # Len(filled) + 1
      BY <1>5, <2>3
    <3>2. CASE j = Len(filled) + 1
      BY <1>3, <1>4, <1>5, <1>6, <1>9, <3>1, <3>2 DEF FilledNewer
    <3>3. CASE j # Len(filled) + 1
      BY <1>4, <1>9, <2>3, <3>1, <3>3 DEF FilledNewer
    <3> QED BY <3>2, <3>3
  <2> QED BY <1>1, <1>6, <2>1, <2>2, <2>3 DEF FilledNewer, Above
<1>12. HandNewer'
  <2>1. ASSUME v4l2_worker \in {"even", "odd", "put"}
        PROVE  /\ content'[bufno] = content[bufno]
               /\ content[bufno][1] < shot /\ content[bufno][1] \in Nat
               /\ \A j \in 1 .. Len(filled') : content'[bufno][1] < content'[filled'[j]][1]
    <3>1. content'[bufno] = content[bufno] /\ content[bufno][1] < shot
          /\ content[bufno][1] \in Nat
      BY <1>4, <1>6, <2>1 DEF HandNewer, HoldsBuffer, BuffersOK, Fields
    <3>2. ASSUME NEW j \in 1 .. Len(filled')
          PROVE  content'[bufno][1] < content'[filled'[j]][1]
      <4>1. CASE j = Len(filled) + 1
        BY <1>3, <1>5, <3>1, <4>1
      <4>2. CASE j # Len(filled) + 1
        BY <1>4, <1>9, <2>1, <3>1, <4>2 DEF HandNewer
      <4> QED BY <4>1, <4>2
    <3> QED BY <3>1, <3>2
  <2> QED BY <1>1, <1>6, <2>1 DEF HandNewer, Above
<1> QED BY <1>7, <1>8, <1>11, <1>12

(* Nothing but the state of the input changes: it stops or dies. *)
LEMMA AnalogRests ==
    ASSUME AnalogInv, v4l2' = v4l2 \/ v4l2' # "new",
           UNCHANGED <<queued, filled, content, shot, filling, v4l2_worker, bufno, out,
                       v4l2_pipe, taken>>
    PROVE  AnalogInv'
<1> USE DEF AnalogInv
<1>1. BuffersOK' /\ PicturesOK'
  BY DEF BuffersOK, PicturesOK, HoldsBuffer
<1>2. Separate'
  BY DEF Separate, HoldsBuffer
<1>3. Half'
  BY DEF Half
<1>4. FilledNewer' /\ HandNewer' /\ PipeNewer'
  BY DEF FilledNewer, HandNewer, PipeNewer, NextShot, Above
<1> QED BY <1>1, <1>2, <1>3, <1>4

(* The oldest filled buffer comes into the thread's hands. *)
LEMMA AnalogDequeue ==
    ASSUME AnalogInv, V4L2!dequeue_buffer
    PROVE  AnalogInv'
<1> USE DEF AnalogInv
<1>1. /\ v4l2 = "on" /\ filled # <<>> /\ bufno' = Head(filled) /\ filled' = Tail(filled)
      /\ v4l2_worker' = "even"
      /\ UNCHANGED <<v4l2, queued, content, shot, filling, out, v4l2_pipe, taken>>
  BY DEF V4L2!dequeue_buffer
<1>2. /\ bufno' = filled[1] /\ bufno' \in V4L2!Buffers /\ filled' \in Seq(V4L2!Buffers)
      /\ Len(filled') = Len(filled) - 1 /\ Len(filled) \in Nat /\ 1 \in 1 .. Len(filled)
      /\ \A j \in 1 .. Len(filled') : filled'[j] = filled[j + 1] /\ j + 1 \in 1 .. Len(filled)
  BY <1>1 DEF BuffersOK
<1>3. NextShot' = NextShot /\ HoldsBuffer' /\ \A n : Above(n)' <=> Above(n)
  BY <1>1 DEF NextShot, HoldsBuffer, Above
<1>4. BuffersOK' /\ PicturesOK'
  BY <1>1, <1>2 DEF BuffersOK, PicturesOK
<1>5. Separate'
  BY <1>1, <1>2, <1>3 DEF Separate
<1>6. Half' /\ PipeNewer'
  BY <1>1 DEF Half, PipeNewer
<1>7. FilledNewer'
  <2>1. Above(NextShot)'
    BY <1>1, <1>3 DEF FilledNewer, Above
  <2>2. ASSUME NEW j \in 1 .. Len(filled')
        PROVE  /\ content'[filled'[j]][1] = content'[filled'[j]][2]
               /\ content'[filled'[j]][1] < NextShot'
               /\ Above(content[filled[j + 1]][1])
    BY <1>1, <1>2, <1>3 DEF FilledNewer
  <2>3. \A i, j \in 1 .. Len(filled') :
           i < j => content'[filled'[i]][1] < content'[filled'[j]][1]
    BY <1>1, <1>2 DEF FilledNewer
  <2> QED BY <1>1, <1>2, <2>1, <2>2, <2>3 DEF FilledNewer, Above
<1>8. HandNewer'
  <2>1. /\ content'[bufno'][1] = content'[bufno'][2] /\ content'[bufno'][1] < NextShot'
        /\ Above(content[filled[1]][1])
    BY <1>1, <1>2, <1>3 DEF FilledNewer
  <2>2. \A j \in 1 .. Len(filled') : content'[bufno'][1] < content'[filled'[j]][1]
    BY <1>1, <1>2 DEF FilledNewer
  <2> QED BY <1>1, <1>2, <2>1, <2>2 DEF HandNewer, Above
<1> QED BY <1>4, <1>5, <1>6, <1>7, <1>8

(* A field is scaled from the buffer in hand, which nothing else writes. *)
LEMMA AnalogUpscale ==
    ASSUME AnalogInv, V4L2!do_upscale
    PROVE  AnalogInv'
<1> USE DEF AnalogInv
<1>1. /\ v4l2 = "on" /\ v4l2_worker \in {"even", "odd"}
      /\ UNCHANGED <<v4l2, queued, filled, content, shot, filling, bufno, v4l2_pipe, taken>>
  BY DEF V4L2!do_upscale, V4L2!driver
<1>2. /\ content[bufno] \in Fields /\ out \in Fields /\ HoldsBuffer /\ bufno \in V4L2!Buffers
  BY <1>1 DEF BuffersOK, PicturesOK, HoldsBuffer
<1>3. /\ v4l2_worker' \in {"odd", "put", "queue"} /\ out' \in Fields
      /\ v4l2_worker' \in {"odd", "put"} => out'[1] = content[bufno][1]
      /\ v4l2_worker' = "put" => out'[2] = content[bufno][2]
  <2>1. CASE v4l2_worker = "even"
    BY <1>2, <2>1 DEF V4L2!do_upscale, Fields
  <2>2. CASE v4l2_worker = "odd"
    <3>1. out[1] = content[bufno][1]
      BY <2>2 DEF HandNewer
    <3>2. v4l2_worker' = "put" /\ out' = [out EXCEPT ![2] = content[bufno][2]]
      BY <2>2 DEF V4L2!do_upscale
    <3> QED BY <1>2, <3>1, <3>2 DEF Fields
  <2> QED BY <1>1, <2>1, <2>2
<1>4. NextShot' = NextShot /\ HoldsBuffer' /\ Above(NextShot)' = Above(NextShot)
  BY <1>1, <1>3 DEF NextShot, HoldsBuffer, Above
<1>5. BuffersOK' /\ PicturesOK'
  BY <1>1, <1>2, <1>3 DEF BuffersOK, PicturesOK
<1>6. Separate'
  BY <1>1, <1>2, <1>4 DEF Separate
<1>7. Half' /\ PipeNewer'
  BY <1>1 DEF Half, PipeNewer
<1>8. FilledNewer'
  BY <1>1, <1>4 DEF FilledNewer, Above
<1>9. HandNewer'
  BY <1>1, <1>3, <1>4 DEF HandNewer, Above
<1> QED BY <1>5, <1>6, <1>7, <1>8, <1>9

(* The scaled picture goes on the pipe, behind all that were taken before. *)
LEMMA AnalogPut ==
    ASSUME AnalogInv, V4L2!put
    PROVE  AnalogInv'
<1> USE DEF AnalogInv
<1> DEFINE n == Len(v4l2_pipe) + 1
<1>1. /\ v4l2 = "on" /\ v4l2_worker = "put" /\ v4l2_worker' = "queue"
      /\ v4l2_pipe' = Append(v4l2_pipe, out)
      /\ UNCHANGED <<v4l2, queued, filled, content, shot, filling, bufno, out, taken>>
  BY DEF V4L2!put, V4L2!driver
<1>2. /\ v4l2_pipe' \in Seq(Fields) /\ Len(v4l2_pipe') = n /\ n \in Nat \ {0}
      /\ \A i \in 1 .. Len(v4l2_pipe) : v4l2_pipe'[i] = v4l2_pipe[i]
      /\ v4l2_pipe'[n] = out
  BY <1>1 DEF PicturesOK
<1>3. /\ out[1] = content[bufno][1] /\ out[2] = content[bufno][2]
      /\ content[bufno][1] = content[bufno][2] /\ content[bufno][1] < NextShot
      /\ Above(content[bufno][1])
      /\ \A j \in 1 .. Len(filled) : content[bufno][1] < content[filled[j]][1]
  BY <1>1 DEF HandNewer
<1>4. out[1] = out[2] /\ out[1] > taken
      /\ \A i \in 1 .. Len(v4l2_pipe) : v4l2_pipe[i][1] < out[1]
  BY <1>3 DEF Above
<1>5. ASSUME NEW i \in 1 .. Len(v4l2_pipe'), i # n PROVE i \in 1 .. Len(v4l2_pipe)
  BY <1>2, <1>5
<1> HIDE DEF n
<1>6. ASSUME NEW m, Above(m), out[1] < m
      PROVE  m > taken' /\ \A i \in 1 .. Len(v4l2_pipe') : v4l2_pipe'[i][1] < m
  <2>1. ASSUME NEW i \in 1 .. Len(v4l2_pipe') PROVE v4l2_pipe'[i][1] < m
    BY <1>2, <1>5, <1>6 DEF Above
  <2> QED BY <1>1, <1>6, <2>1 DEF Above
<1>7. NextShot' = NextShot /\ HoldsBuffer /\ HoldsBuffer'
  BY <1>1 DEF NextShot, HoldsBuffer
<1>8. BuffersOK' /\ PicturesOK'
  BY <1>1, <1>2, <1>7 DEF BuffersOK, PicturesOK
<1>9. Separate' /\ Half'
  BY <1>1, <1>7 DEF Separate, Half
<1>10. FilledNewer'
  <2>1. NextShot > taken' /\ \A i \in 1 .. Len(v4l2_pipe') : v4l2_pipe'[i][1] < NextShot
    BY <1>3, <1>6 DEF FilledNewer
  <2>2. ASSUME NEW j \in 1 .. Len(filled)
        PROVE  /\ content[filled[j]][1] > taken'
               /\ \A i \in 1 .. Len(v4l2_pipe') : v4l2_pipe'[i][1] < content[filled[j]][1]
    <3>1. Above(content[filled[j]][1]) /\ out[1] < content[filled[j]][1]
      BY <1>3 DEF FilledNewer
    <3> QED BY <1>6, <3>1
  <2> QED BY <1>1, <1>7, <2>1, <2>2 DEF FilledNewer, Above
<1>11. HandNewer'
  BY <1>1 DEF HandNewer
<1>12. PipeNewer'
  <2>1. ASSUME NEW i \in 1 .. Len(v4l2_pipe')
        PROVE  v4l2_pipe'[i][1] = v4l2_pipe'[i][2] /\ v4l2_pipe'[i][1] > taken'
    BY <1>1, <1>2, <1>4, <1>5 DEF PipeNewer
  <2>2. ASSUME NEW i \in 1 .. Len(v4l2_pipe'), NEW j \in 1 .. Len(v4l2_pipe'), i < j
        PROVE  v4l2_pipe'[i][1] < v4l2_pipe'[j][1]
    <3>1. i # n
      BY <1>2, <2>2 DEF n
    <3> QED BY <1>2, <1>4, <1>5, <2>2, <3>1 DEF PipeNewer
  <2> QED BY <2>1, <2>2 DEF PipeNewer
<1> QED BY <1>8, <1>9, <1>10, <1>11, <1>12

(* The buffer goes back to the driver, behind those it has. *)
LEMMA AnalogQueue ==
    ASSUME AnalogInv, V4L2!queue_buffer
    PROVE  AnalogInv'
<1> USE DEF AnalogInv
<1>1. /\ v4l2 = "on" /\ v4l2_worker = "queue" /\ v4l2_worker' = "dequeue"
      /\ queued' = Append(queued, bufno)
      /\ UNCHANGED <<v4l2, filled, content, shot, filling, bufno, out, v4l2_pipe, taken>>
  BY DEF V4L2!queue_buffer
<1>2. HoldsBuffer /\ ~HoldsBuffer' /\ bufno \in V4L2!Buffers
  BY <1>1 DEF HoldsBuffer, BuffersOK
<1>3. /\ queued' \in Seq(V4L2!Buffers) /\ Len(queued') = Len(queued) + 1 /\ Len(queued) \in Nat
      /\ \A i \in 1 .. Len(queued) : queued'[i] = queued[i]
      /\ queued'[Len(queued) + 1] = bufno
  BY <1>1, <1>2 DEF BuffersOK
<1>4. BuffersOK' /\ PicturesOK'
  BY <1>1, <1>2, <1>3 DEF BuffersOK, PicturesOK
<1>5. Separate'
  BY <1>1, <1>2, <1>3 DEF Separate
<1>6. Half'
  <2>1. queued # <<>> => 1 \in 1 .. Len(queued)
    BY DEF BuffersOK
  <2>2. queued' # <<>>
    BY <1>3
  <2> QED BY <1>1, <1>3, <2>1, <2>2 DEF Half
<1>7. FilledNewer' /\ HandNewer' /\ PipeNewer'
  BY <1>1 DEF FilledNewer, HandNewer, PipeNewer, NextShot, Above
<1> QED BY <1>4, <1>5, <1>6, <1>7

(* The reader takes the oldest picture: all that is left is newer. *)
LEMMA AnalogGet ==
    ASSUME AnalogInv, V4L2!get
    PROVE  AnalogInv'
<1> USE DEF AnalogInv
<1>1. /\ v4l2 = "on" /\ v4l2_pipe # <<>> /\ taken' = Head(v4l2_pipe)[1]
      /\ v4l2_pipe' = Tail(v4l2_pipe)
      /\ UNCHANGED <<v4l2, queued, filled, content, shot, filling, v4l2_worker, bufno, out>>
  BY DEF V4L2!get, V4L2!driver, V4L2!thread
<1>2. /\ taken' = v4l2_pipe[1][1] /\ taken' \in Nat /\ v4l2_pipe' \in Seq(Fields)
      /\ 1 \in 1 .. Len(v4l2_pipe)
      /\ \A i \in 1 .. Len(v4l2_pipe') :
            v4l2_pipe'[i] = v4l2_pipe[i + 1] /\ i + 1 \in 1 .. Len(v4l2_pipe)
  BY <1>1 DEF PicturesOK, Fields
<1>3. ASSUME NEW m, Above(m) PROVE Above(m)'
  BY <1>2, <1>3 DEF Above
<1>4. NextShot' = NextShot /\ HoldsBuffer' = HoldsBuffer
  BY <1>1 DEF NextShot, HoldsBuffer
<1>5. BuffersOK' /\ PicturesOK'
  BY <1>1, <1>2, <1>4 DEF BuffersOK, PicturesOK
<1>6. Separate' /\ Half'
  BY <1>1, <1>4 DEF Separate, Half
<1>7. FilledNewer'
  <2>1. \A m : Above(m) => m > taken' /\ \A i \in 1 .. Len(v4l2_pipe') : v4l2_pipe'[i][1] < m
    BY <1>2 DEF Above
  <2> QED BY <1>1, <1>4, <2>1 DEF FilledNewer, Above
<1>8. HandNewer'
  <2>1. \A m : Above(m) => m > taken' /\ \A i \in 1 .. Len(v4l2_pipe') : v4l2_pipe'[i][1] < m
    BY <1>2 DEF Above
  <2> QED BY <1>1, <1>4, <2>1 DEF HandNewer, Above
<1>9. PipeNewer'
  <2>1. ASSUME NEW i \in 1 .. Len(v4l2_pipe')
        PROVE  v4l2_pipe'[i][1] = v4l2_pipe'[i][2] /\ v4l2_pipe'[i][1] > taken'
    <3>1. /\ i + 1 \in 1 .. Len(v4l2_pipe) /\ 1 < i + 1
          /\ v4l2_pipe'[i] = v4l2_pipe[i + 1] /\ v4l2_pipe[i + 1] \in Fields
      BY <1>2 DEF PicturesOK
    <3>2. v4l2_pipe[1][1] < v4l2_pipe[i + 1][1]
      BY <1>2, <3>1 DEF PipeNewer
    <3>3. v4l2_pipe'[i][1] > taken'
      BY <1>2, <3>1, <3>2
    <3> QED BY <3>1, <3>3 DEF PipeNewer
  <2>2. ASSUME NEW i \in 1 .. Len(v4l2_pipe'), NEW j \in 1 .. Len(v4l2_pipe'), i < j
        PROVE  v4l2_pipe'[i][1] < v4l2_pipe'[j][1]
    <3>1. i + 1 < j + 1
      BY <2>2
    <3> QED BY <1>2, <3>1 DEF PipeNewer
  <2> QED BY <2>1, <2>2 DEF PipeNewer
<1> QED BY <1>5, <1>6, <1>7, <1>8, <1>9

LEMMA AnalogNext == AnalogInv /\ [MCNext]_allVars => AnalogInv'
<1> SUFFICES ASSUME AnalogInv, [MCNext]_allVars PROVE AnalogInv'
  OBVIOUS
<1>1. UNCHANGED v4l2Vars \/ V4L2!Next
  BY DEF MCNext, allVars
<1>2. CASE UNCHANGED v4l2Vars
  BY <1>2, AnalogRests DEF v4l2Vars
<1>3. CASE V4L2!stream_off \/ V4L2!Terminates
  BY <1>3, AnalogRests DEF V4L2!stream_off, V4L2!Terminates, V4L2!driver, V4L2!thread
<1> QED BY <1>1, <1>2, <1>3, AnalogConstruct, AnalogFillEven, AnalogFillOdd, AnalogDequeue,
           AnalogUpscale, AnalogPut, AnalogQueue, AnalogGet DEF V4L2!Next

(* Every picture of the analog input leaves whole, and later than all that *)
(* left before, for every number of buffers the driver and the thread      *)
(* share, and however late the thread is (v4l2_input.cpp:323-343).         *)
THEOREM AnalogPicturesWhole == MCSpec => []PicturesWhole
<1>1. AnalogInv => PicturesWhole
  <2> SUFFICES ASSUME PicturesOK, PipeNewer, NEW i \in 1 .. Len(v4l2_pipe)
               PROVE  /\ v4l2_pipe[i][1] = v4l2_pipe[i][2]
                      /\ v4l2_pipe[i][1] > IF i = 1 THEN taken ELSE v4l2_pipe[i - 1][1]
    BY DEF AnalogInv, PicturesWhole, V4L2!PicturesWhole
  <2>1. i # 1 => i - 1 \in 1 .. Len(v4l2_pipe) /\ i - 1 < i
    BY DEF PicturesOK
  <2> QED BY <2>1 DEF PipeNewer, PicturesOK, Fields
<1> QED BY <1>1, AnalogInit, AnalogNext, PTL DEF MCSpec

-----------------------------------------------------------------------------
(***************************************************************************)
(* The network input.  What is in the buffer and what the peer still owes  *)
(* of its unit make one stream, whole behind the bytes of an earlier       *)
(* connection (Whole), and the scan stands at most at the end of the unit  *)
(* it passed last, whose start it remembers (Scanned).                     *)
(***************************************************************************)
Bytes == H264!Types \cup {"0", "1", "-"}

Flow == buf \o sending

Whole(f, s) ==
    \A i \in s + 1 .. Len(f) :
      /\ f[i] = "0" => i < Len(f) /\ f[i+1] \in {"0", "1"}
      /\ f[i] = "1" => /\ i - 2 > s /\ f[i-2] = "0" /\ f[i-1] = "0"
                       /\ i < Len(f) /\ f[i+1] \in H264!Types
      /\ f[i] \in H264!Types => /\ i - 1 > s /\ f[i-1] = "1"
                                /\ i < Len(f) /\ f[i+1] = "-"
      /\ f[i] = "-" => /\ i - 1 > s /\ f[i-1] \in H264!Types
                       /\ i < Len(f) => f[i+1] = "0"
      /\ i + 2 <= Len(f) /\ f[i] = "0" /\ f[i+1] = "0" /\ f[i+2] = "0" => f[i+3] = "1"

Ends ==
    /\ stale \in Nat /\ stale <= Len(buf)
    /\ last_start \in Nat /\ buf_scanned \in Nat
    /\ buf_scanned = 0 \/ buf_scanned + 4 <= Len(buf)

Scanned ==
    \A t \in stale + 1 .. Len(Flow) :
      Flow[t] \in H264!Types /\ t - 3 <= buf_scanned =>
        /\ buf_scanned <= t + 1 => last_start = t - 4
        /\ Flow[t] = "slice" => buf_scanned <= t + 1

CanCut == H264!MoreToScan /\ H264!is_nal_start(buf_scanned)

StreamInv ==
    /\ buf \in Seq(Bytes) /\ sending \in Seq(Bytes) /\ Ends
    /\ Whole(Flow, stale) /\ Scanned
    /\ h264_worker = "put" => CanCut

(* A unit follows a whole stream. *)
LEMMA UnitsWhole ==
    ASSUME NEW u \in H264!Units
    PROVE  u \in Seq(Bytes) /\ Len(u) \in 5 .. 6 /\ Whole(u, 0) /\ u[1] = "0"
<1>1. CASE \E type \in H264!Types : u = <<"0", "0", "1", type, "-">>
  BY <1>1 DEF Whole, Bytes, H264!Types
<1>2. CASE \E type \in H264!Types : u = <<"0", "0", "0", "1", type, "-">>
  BY <1>2 DEF Whole, Bytes, H264!Types
<1> QED BY <1>1, <1>2 DEF H264!Units

LEMMA WholeEnds ==
    ASSUME NEW f, NEW s \in Nat, f \in Seq(Bytes), s < Len(f), Whole(f, s)
    PROVE  f[Len(f)] = "-"
<1>1. Len(f) \in s + 1 .. Len(f) /\ Len(f) \in 1 .. Len(f)
  OBVIOUS
<1>2. f[Len(f)] \in Bytes
  BY <1>1
<1> QED BY <1>1, <1>2 DEF Whole, Bytes

LEMMA WholeJoined ==
    ASSUME NEW f, NEW g, NEW h, NEW s \in Nat,
           f \in Seq(Bytes), g \in Seq(Bytes), h \in Seq(Bytes), s <= Len(f),
           Len(h) = Len(f) + Len(g), Len(g) > 0, g[1] = "0",
           \A i \in 1 .. Len(f) : h[i] = f[i],
           \A i \in 1 .. Len(g) : h[Len(f) + i] = g[i],
           Whole(f, s), Whole(g, 0)
    PROVE  Whole(h, s)
<1> DEFINE m == Len(f)
           n == Len(g)
<1>1. m \in Nat /\ n \in Nat /\ n > 0 /\ Len(h) = m + n /\ s <= m
  OBVIOUS
<1>2. m > s => f[m] = "-"
  BY WholeEnds
<1>3. \A i \in m + 1 .. m + n : i - m \in 1 .. n /\ h[i] = g[i - m]
  <2> TAKE i \in m + 1 .. m + n
  <2>1. i - m \in 1 .. n /\ m + (i - m) = i
    BY <1>1
  <2> QED BY <2>1
<1>4. /\ \A i \in 1 .. m : h[i] = f[i]
      /\ Whole(f, s) /\ Whole(g, 0) /\ g[1] = "0"
  OBVIOUS
<1> SUFFICES ASSUME NEW i \in s + 1 .. m + n
             PROVE  /\ h[i] = "0" => i < m + n /\ h[i+1] \in {"0", "1"}
                    /\ h[i] = "1" => /\ i - 2 > s /\ h[i-2] = "0" /\ h[i-1] = "0"
                                     /\ i < m + n /\ h[i+1] \in H264!Types
                    /\ h[i] \in H264!Types => /\ i - 1 > s /\ h[i-1] = "1"
                                              /\ i < m + n /\ h[i+1] = "-"
                    /\ h[i] = "-" => /\ i - 1 > s /\ h[i-1] \in H264!Types
                                     /\ i < m + n => h[i+1] = "0"
                    /\ i + 2 <= m + n /\ h[i] = "0" /\ h[i+1] = "0" /\ h[i+2] = "0"
                         => h[i+3] = "1"
  BY <1>1 DEF Whole
<1>5. CASE i <= m
  <2>1. i \in s + 1 .. m /\ Len(f) = m
    BY <1>1, <1>5
  <2> HIDE DEF m, n
  <2>2. /\ f[i] = "0" => i < m /\ f[i+1] \in {"0", "1"}
        /\ f[i] = "1" => /\ i - 2 > s /\ f[i-2] = "0" /\ f[i-1] = "0"
                         /\ i < m /\ f[i+1] \in H264!Types
        /\ f[i] \in H264!Types => /\ i - 1 > s /\ f[i-1] = "1"
                                  /\ i < m /\ f[i+1] = "-"
        /\ f[i] = "-" => /\ i - 1 > s /\ f[i-1] \in H264!Types
                         /\ i < m => f[i+1] = "0"
        /\ i + 2 <= m /\ f[i] = "0" /\ f[i+1] = "0" /\ f[i+2] = "0" => f[i+3] = "1"
    BY <1>4, <2>1 DEF Whole
  <2>3. f[i] = "0" /\ f[i+1] = "0" => i + 2 <= m
    <3>1. f[i] = "0" => i + 1 \in s + 1 .. m
      BY <1>1, <2>1, <2>2
    <3>2. f[i] = "0" /\ f[i+1] = "0" => i + 1 < m
      BY <1>4, <2>1, <3>1 DEF Whole
    <3> QED BY <1>1, <3>1, <3>2
  <2>4. f[i] = "0" /\ f[i+1] = "0" /\ f[i+2] = "0" => i + 3 <= m
    <3>1. f[i] = "0" /\ f[i+1] = "0" => i + 2 \in s + 1 .. m
      BY <1>1, <2>1, <2>3
    <3>2. f[i] = "0" /\ f[i+1] = "0" /\ f[i+2] = "0" => i + 2 < m
      BY <1>4, <2>1, <3>1 DEF Whole
    <3> QED BY <1>1, <3>1, <3>2
  <2>5. i = m => h[i+1] = "0" /\ f[i] = "-"
    <3>1. m + 1 \in m + 1 .. m + n /\ (m + 1) - m = 1
      BY <1>1
    <3>2. h[m + 1] = g[1]
      BY <1>3, <3>1
    <3> QED BY <1>1, <1>2, <1>4, <2>1, <3>2
  <2>6. /\ h[i] = f[i] /\ (i < m => h[i+1] = f[i+1])
        /\ i + 2 <= m => h[i+2] = f[i+2]
        /\ i + 3 <= m => h[i+3] = f[i+3]
        /\ i - 1 > s => h[i-1] = f[i-1]
        /\ i - 2 > s => h[i-2] = f[i-2]
    BY <1>1, <1>4, <2>1
  <2> QED BY <1>1, <2>1, <2>2, <2>3, <2>4, <2>5, <2>6 DEF H264!Types
<1>6. CASE i > m
  <2> DEFINE k == i - m
  <2>1. /\ k \in 1 .. n /\ Len(g) = n /\ i = m + k /\ s <= m /\ m \in Nat /\ n \in Nat
        /\ i - 1 > m => i - 1 \in m + 1 .. m + n
        /\ i - 2 > m => i - 2 \in m + 1 .. m + n
        /\ i + 1 <= m + n => i + 1 \in m + 1 .. m + n
        /\ i + 2 <= m + n => i + 2 \in m + 1 .. m + n
        /\ i + 3 <= m + n => i + 3 \in m + 1 .. m + n
        /\ (i-1)-m = k-1 /\ (i-2)-m = k-2 /\ (i+1)-m = k+1 /\ (i+2)-m = k+2 /\ (i+3)-m = k+3
    BY <1>1, <1>6
  <2> HIDE DEF k, m, n
  <2>2. /\ h[i] = g[k]
        /\ k - 1 > 0 => i - 1 > s /\ h[i-1] = g[k-1]
        /\ k - 2 > 0 => i - 2 > s /\ h[i-2] = g[k-2]
        /\ k < n => h[i+1] = g[k+1]
        /\ k + 2 <= n => h[i+2] = g[k+2]
        /\ k + 3 <= n => h[i+3] = g[k+3]
    <3>1. i \in m + 1 .. m + n /\ i - m = k
      BY <2>1
    <3>2. k - 1 > 0 => i - 1 > s /\ i - 1 \in m + 1 .. m + n
      BY <2>1
    <3>3. k - 2 > 0 => i - 2 > s /\ i - 2 \in m + 1 .. m + n
      BY <2>1
    <3>4. /\ k < n => i + 1 \in m + 1 .. m + n
          /\ k + 2 <= n => i + 2 \in m + 1 .. m + n
          /\ k + 3 <= n => i + 3 \in m + 1 .. m + n
      BY <2>1
    <3>5. /\ (i-1)-m = k-1 /\ (i-2)-m = k-2
          /\ (i+1)-m = k+1 /\ (i+2)-m = k+2 /\ (i+3)-m = k+3
      BY <2>1
    <3>6. /\ k - 1 > 0 => h[i-1] = g[(i-1)-m]
          /\ k - 2 > 0 => h[i-2] = g[(i-2)-m]
          /\ k < n => h[i+1] = g[(i+1)-m]
          /\ k + 2 <= n => h[i+2] = g[(i+2)-m]
          /\ k + 3 <= n => h[i+3] = g[(i+3)-m]
      BY <1>3, <3>2, <3>3, <3>4
    <3>7. h[i] = g[k]
      BY <1>3, <3>1
    <3> QED BY <3>2, <3>3, <3>5, <3>6, <3>7
  <2>3. /\ g[k] = "0" => k < n /\ g[k+1] \in {"0", "1"}
        /\ g[k] = "1" => /\ k - 2 > 0 /\ g[k-2] = "0" /\ g[k-1] = "0"
                         /\ k < n /\ g[k+1] \in H264!Types
        /\ g[k] \in H264!Types => /\ k - 1 > 0 /\ g[k-1] = "1"
                                  /\ k < n /\ g[k+1] = "-"
        /\ g[k] = "-" => /\ k - 1 > 0 /\ g[k-1] \in H264!Types
                         /\ k < n => g[k+1] = "0"
        /\ k + 2 <= n /\ g[k] = "0" /\ g[k+1] = "0" /\ g[k+2] = "0" => g[k+3] = "1"
    BY <1>4, <2>1 DEF Whole
  <2>4. k + 2 <= n /\ g[k+2] = "0" => k + 3 <= n
    <3>1. k + 2 <= n => k + 2 \in 0 + 1 .. Len(g)
      BY <2>1
    <3>2. k + 2 <= n /\ g[k+2] = "0" => k + 2 < n
      BY <1>4, <2>1, <3>1 DEF Whole
    <3> QED BY <2>1, <3>2
  <2>5. (i < m + n <=> k < n) /\ (i + 2 <= m + n => k + 2 <= n)
    BY <2>1
  <2>6. /\ h[i] = "0" => i < m + n /\ h[i+1] \in {"0", "1"}
        /\ h[i] = "1" => /\ i - 2 > s /\ h[i-2] = "0" /\ h[i-1] = "0"
                         /\ i < m + n /\ h[i+1] \in H264!Types
    <3>1. k - 2 > 0 => k - 1 > 0
      BY <2>1
    <3> QED BY <2>2, <2>3, <2>5, <3>1
  <2>7. /\ h[i] \in H264!Types => /\ i - 1 > s /\ h[i-1] = "1"
                                  /\ i < m + n /\ h[i+1] = "-"
        /\ h[i] = "-" => /\ i - 1 > s /\ h[i-1] \in H264!Types
                         /\ i < m + n => h[i+1] = "0"
    BY <2>2, <2>3, <2>5
  <2>8. i + 2 <= m + n /\ h[i] = "0" /\ h[i+1] = "0" /\ h[i+2] = "0" => h[i+3] = "1"
    <3>1. k + 2 <= n => k < n
      BY <2>1
    <3> QED BY <2>2, <2>3, <2>4, <2>5, <3>1
  <2> QED BY <2>6, <2>7, <2>8
<1> QED BY <1>1, <1>5, <1>6

LEMMA WholeBehindCut ==
    ASSUME NEW f, NEW g, NEW s \in Nat, NEW c \in Nat, NEW r,
           f \in Seq(Bytes), g \in Seq(Bytes), c + 2 <= Len(f),
           Len(g) = Len(f) - c, \A i \in 1 .. Len(g) : g[i] = f[i + c],
           r = IF s > c THEN s - c ELSE 0,
           f[c+1] = "0", f[c+2] = "0", Whole(f, s)
    PROVE  Whole(g, r)
<1> DEFINE n == Len(g)
<1>1. n \in Nat /\ Len(f) = n + c /\ r \in Nat /\ r + c >= s /\ (r > 0 => r + c = s)
  OBVIOUS
<1>2. /\ \A i \in 1 .. n : g[i] = f[i + c]
      /\ f[c+1] = "0" /\ f[c+2] = "0" /\ Whole(f, s)
  OBVIOUS
<1> SUFFICES ASSUME NEW i \in r + 1 .. n
             PROVE  /\ g[i] = "0" => i < n /\ g[i+1] \in {"0", "1"}
                    /\ g[i] = "1" => /\ i - 2 > r /\ g[i-2] = "0" /\ g[i-1] = "0"
                                     /\ i < n /\ g[i+1] \in H264!Types
                    /\ g[i] \in H264!Types => /\ i - 1 > r /\ g[i-1] = "1"
                                              /\ i < n /\ g[i+1] = "-"
                    /\ g[i] = "-" => /\ i - 1 > r /\ g[i-1] \in H264!Types
                                     /\ i < n => g[i+1] = "0"
                    /\ i + 2 <= n /\ g[i] = "0" /\ g[i+1] = "0" /\ g[i+2] = "0"
                         => g[i+3] = "1"
  BY <1>1 DEF Whole
<1> DEFINE k == i + c
<1>3. /\ k \in s + 1 .. Len(f) /\ i \in 1 .. n /\ k = i + c
      /\ i - 1 > 0 => i - 1 \in 1 .. n
      /\ i - 2 > 0 => i - 2 \in 1 .. n
      /\ i + 1 <= n => i + 1 \in 1 .. n
      /\ i + 2 <= n => i + 2 \in 1 .. n
      /\ i + 3 <= n => i + 3 \in 1 .. n
      /\ (i-1)+c = k-1 /\ (i-2)+c = k-2 /\ (i+1)+c = k+1 /\ (i+2)+c = k+2 /\ (i+3)+c = k+3
  BY <1>1
<1> HIDE DEF k, n
<1>4. /\ g[i] = f[k]
      /\ i - 1 > 0 => g[i-1] = f[k-1]
      /\ i - 2 > 0 => g[i-2] = f[k-2]
      /\ i < n => g[i+1] = f[k+1]
      /\ i + 2 <= n => g[i+2] = f[k+2]
      /\ i + 3 <= n => g[i+3] = f[k+3]
  <2>1. i < n => i + 1 <= n
    BY <1>1, <1>3
  <2>2. /\ i - 1 > 0 => g[i-1] = f[(i-1)+c]
        /\ i - 2 > 0 => g[i-2] = f[(i-2)+c]
        /\ i < n => g[i+1] = f[(i+1)+c]
        /\ i + 2 <= n => g[i+2] = f[(i+2)+c]
        /\ i + 3 <= n => g[i+3] = f[(i+3)+c]
    BY <1>2, <1>3, <2>1
  <2>3. g[i] = f[i+c]
    BY <1>2, <1>3
  <2> QED BY <1>3, <2>2, <2>3
<1>5. /\ i = 1 => f[k] = "0"
      /\ i = 2 => f[k] = "0"
  BY <1>2, <1>3
<1>6. /\ f[k] = "0" => k < Len(f) /\ f[k+1] \in {"0", "1"}
      /\ f[k] = "1" => /\ k - 2 > s /\ f[k-2] = "0" /\ f[k-1] = "0"
                       /\ k < Len(f) /\ f[k+1] \in H264!Types
      /\ f[k] \in H264!Types => /\ k - 1 > s /\ f[k-1] = "1"
                                /\ k < Len(f) /\ f[k+1] = "-"
      /\ f[k] = "-" => /\ k - 1 > s /\ f[k-1] \in H264!Types
                       /\ k < Len(f) => f[k+1] = "0"
      /\ k + 2 <= Len(f) /\ f[k] = "0" /\ f[k+1] = "0" /\ f[k+2] = "0" => f[k+3] = "1"
  BY <1>2, <1>3 DEF Whole
<1>7. k + 2 <= Len(f) /\ f[k+2] = "0" => k + 3 <= Len(f)
  <2>1. k + 2 <= Len(f) => k + 2 \in s + 1 .. Len(f)
    BY <1>1, <1>3
  <2>2. k + 2 <= Len(f) /\ f[k+2] = "0" => k + 2 < Len(f)
    BY <1>2, <2>1 DEF Whole
  <2> QED BY <1>1, <1>3, <2>2
<1>8. /\ i < n <=> k < Len(f)
      /\ i + 2 <= n => k + 2 <= Len(f) /\ i < n
      /\ k + 3 <= Len(f) => i + 3 <= n
      /\ k - 1 > s /\ i # 1 => i - 1 > r
      /\ k - 2 > s /\ i # 1 /\ i # 2 => i - 2 > r
      /\ i - 1 > r => i - 1 > 0
      /\ i - 2 > r => i - 2 > 0 /\ i - 1 > r
  BY <1>1, <1>3
<1>9. /\ g[i] = "0" => i < n /\ g[i+1] \in {"0", "1"}
      /\ g[i] = "1" => /\ i - 2 > r /\ g[i-2] = "0" /\ g[i-1] = "0"
                       /\ i < n /\ g[i+1] \in H264!Types
  BY <1>4, <1>5, <1>6, <1>8
<1>10. /\ g[i] \in H264!Types => /\ i - 1 > r /\ g[i-1] = "1"
                                /\ i < n /\ g[i+1] = "-"
       /\ g[i] = "-" => /\ i - 1 > r /\ g[i-1] \in H264!Types
                        /\ i < n => g[i+1] = "0"
  BY <1>4, <1>5, <1>6, <1>8 DEF H264!Types
<1>11. i + 2 <= n /\ g[i] = "0" /\ g[i+1] = "0" /\ g[i+2] = "0" => g[i+3] = "1"
  BY <1>4, <1>6, <1>7, <1>8
<1> QED BY <1>9, <1>10, <1>11

LEMMA BytesJoined ==
    \A f, g \in Seq(Bytes) :
       /\ f \o g \in Seq(Bytes) /\ Len(f \o g) = Len(f) + Len(g)
       /\ \A i \in 1 .. Len(f) : (f \o g)[i] = f[i]
       /\ \A i \in 1 .. Len(g) : (f \o g)[Len(f) + i] = g[i]
OBVIOUS

LEMMA Counts ==
    ASSUME StreamInv
    PROVE  /\ stale \in Nat /\ buf_scanned \in Nat /\ last_start \in Nat
           /\ Len(buf) \in Nat /\ Len(sending) \in Nat /\ stale <= Len(buf)
           /\ buf_scanned = 0 \/ buf_scanned + 4 <= Len(buf)
           /\ Flow \in Seq(Bytes) /\ Len(Flow) = Len(buf) + Len(sending)
           /\ \A i \in 1 .. Len(buf) : Flow[i] = buf[i]
<1>1. buf \in Seq(Bytes) /\ sending \in Seq(Bytes)
  BY DEF StreamInv
<1> QED BY <1>1 DEF StreamInv, Ends, Flow

(* Two zeros in a row, of the same connection, begin a start code or are   *)
(* the last two of one.                                                    *)
LEMMA StartsFound ==
    ASSUME StreamInv, H264!MoreToScan
    PROVE  /\ H264!is_nal_start(buf_scanned)
                => Flow[buf_scanned + 1] = "0" /\ Flow[buf_scanned + 2] = "0"
           /\ buf_scanned >= stale /\ Flow[buf_scanned + 1] = "0" /\ Flow[buf_scanned + 2] = "0"
                => H264!is_nal_start(buf_scanned)
<1> DEFINE s == buf_scanned
<1>1. s \in Nat /\ stale \in Nat /\ Len(buf) \in Nat /\ s + 4 < Len(buf) /\ Len(buf) <= Len(Flow)
      /\ Len(Flow) \in Nat
  BY Counts DEF H264!MoreToScan
<1>2. /\ buf[s+1] = Flow[s+1] /\ buf[s+2] = Flow[s+2] /\ buf[s+3] = Flow[s+3] /\ buf[s+4] = Flow[s+4]
  <2>1. {s+1, s+2, s+3, s+4} \subseteq 1 .. Len(buf)
    BY <1>1
  <2> HIDE DEF s
  <2>2. \A i \in {s+1, s+2, s+3, s+4} : buf[i] = Flow[i]
    BY <2>1, Counts
  <2> QED BY <2>2
<1>3. H264!is_nal_start(s) <=>
        /\ buf[s+1] = "0" /\ buf[s+2] = "0"
        /\ buf[s+3] = "1" \/ (buf[s+3] = "0" /\ buf[s+4] = "1")
  BY <1>1 DEF H264!is_nal_start, H264!At
<1>4. ASSUME s >= stale, Flow[s+1] = "0", Flow[s+2] = "0"
      PROVE  Flow[s+3] = "1" \/ (Flow[s+3] = "0" /\ Flow[s+4] = "1")
  <2> HIDE DEF s
  <2>1. s+1 \in stale + 1 .. Len(Flow) /\ s+2 \in stale + 1 .. Len(Flow)
        /\ (s+1)+1 = s+2 /\ (s+1)+2 = s+3 /\ (s+1)+3 = s+4 /\ (s+2)+1 = s+3 /\ s+3 <= Len(Flow)
    BY <1>1, <1>4
  <2>2. Whole(Flow, stale)
    BY DEF StreamInv
  <2>3. Flow[(s+2)+1] \in {"0", "1"}
    BY <1>4, <2>1, <2>2 DEF Whole
  <2>4. (s+1)+2 <= Len(Flow) /\ Flow[s+1] = "0" /\ Flow[(s+1)+1] = "0" /\ Flow[(s+1)+2] = "0"
          => Flow[(s+1)+3] = "1"
    BY <2>1, <2>2 DEF Whole
  <2> QED BY <1>4, <2>1, <2>3, <2>4
<1> QED BY <1>2, <1>3, <1>4

(* What stands before a type byte, and after it. *)
LEMMA AroundType ==
    ASSUME StreamInv, NEW t \in stale + 1 .. Len(Flow), Flow[t] \in H264!Types
    PROVE  /\ t \in Nat /\ t - 4 >= stale
           /\ Flow[t-3] = "0" /\ Flow[t-2] = "0" /\ Flow[t-1] = "1"
           /\ t < Len(Flow) /\ Flow[t+1] = "-"
           /\ t + 2 <= Len(Flow) => Flow[t+2] = "0"
           /\ t + 3 <= Len(Flow) => Flow[t+3] = "0"
<1> DEFINE n == Len(Flow)
<1>1. t \in Nat /\ stale \in Nat /\ n \in Nat /\ t \in stale + 1 .. n /\ Whole(Flow, stale)
  BY Counts DEF StreamInv
<1>2. t - 1 > stale /\ Flow[t-1] = "1" /\ t < n /\ Flow[t+1] = "-"
  BY <1>1 DEF Whole
<1>3. t - 1 \in stale + 1 .. n /\ t + 1 \in stale + 1 .. n
      /\ (t-1)-1 = t-2 /\ (t-1)-2 = t-3 /\ (t+1)+1 = t+2 /\ (t+2)+1 = t+3 /\ (t+3)-2 = t+1
  BY <1>1, <1>2
<1> HIDE DEF n
<1>4. (t-1)-2 > stale /\ Flow[(t-1)-2] = "0" /\ Flow[(t-1)-1] = "0"
  BY <1>1, <1>2, <1>3 DEF Whole, n
<1>5. t + 2 <= n => Flow[t+2] = "0"
  <2>1. t + 1 < n => Flow[(t+1)+1] = "0"
    BY <1>1, <1>2, <1>3 DEF Whole, n
  <2> QED BY <1>1, <1>3, <2>1
<1>6. t + 3 <= n => Flow[t+3] = "0"
  <2> SUFFICES ASSUME t + 3 <= n PROVE Flow[t+3] = "0"
    OBVIOUS
  <2>1. t + 2 \in stale + 1 .. n /\ t + 3 \in stale + 1 .. n /\ t + 2 <= n
    BY <1>1, <1>2
  <2>2. Flow[(t+2)+1] \in {"0", "1"}
    BY <1>1, <1>5, <2>1 DEF Whole, n
  <2>3. Flow[t+3] = "1" => Flow[(t+3)-2] = "0"
    BY <1>1, <2>1 DEF Whole, n
  <2> QED BY <1>2, <1>3, <2>2, <2>3
<1> QED BY <1>1, <1>2, <1>3, <1>4, <1>5, <1>6 DEF n

LEMMA TypeOfLast ==
    ASSUME StreamInv, NEW t \in stale + 1 .. Len(buf), Flow[t] \in H264!Types, last_start = t - 4
    PROVE  H264!nal_type(last_start) = Flow[t]
<1>1. t \in stale + 1 .. Len(Flow)
  BY Counts
<1>2. Flow[t-1] = "1" /\ t - 4 >= stale /\ t \in Nat
  BY <1>1, AroundType
<1>3. t - 1 \in 1 .. Len(buf) /\ t \in 1 .. Len(buf)
      /\ (last_start + 2) + 1 = t - 1 /\ (last_start + 3) + 1 = t
  BY <1>2, Counts
<1>4. buf[(last_start + 2) + 1] = "1" /\ buf[(last_start + 3) + 1] = Flow[t]
  BY <1>2, <1>3, Counts
<1> QED BY <1>4 DEF H264!nal_type, H264!At

LEMMA StreamInit == MCInit => StreamInv /\ SlicesWhole
<1> SUFFICES ASSUME MCInit PROVE StreamInv /\ SlicesWhole
  OBVIOUS
<1>1. /\ buf = <<>> /\ sending = <<>> /\ stale = 0 /\ buf_scanned = 0 /\ last_start = 0
      /\ chunk = <<>> /\ h264_worker = "none"
  BY DEF MCInit, OnlyRuns, H264!Init, H264!Absent, H264!Rest
<1>2. Len(Flow) = 0 /\ buf \in Seq(Bytes) /\ sending \in Seq(Bytes) /\ Len(chunk) = 0
  BY <1>1 DEF Flow
<1>3. Whole(Flow, stale) /\ Scanned
  BY <1>1, <1>2 DEF Whole, Scanned
<1> QED BY <1>1, <1>2, <1>3 DEF StreamInv, Ends, SlicesWhole, H264!SlicesWhole

LEMMA StreamRests ==
    ASSUME StreamInv, UNCHANGED <<sending, buf, last_start, buf_scanned, stale>>,
           h264_worker' = "put" => h264_worker = "put"
    PROVE  StreamInv'
<1>1. UNCHANGED Flow
  BY DEF Flow
<1> QED BY <1>1 DEF StreamInv, Ends, Whole, Scanned, CanCut, H264!At, H264!is_nal_start,
                    H264!MoreToScan

(* What is in the buffer when a connection is made is of an earlier one. *)
LEMMA StreamOpen ==
    ASSUME StreamInv, H264!open_socket
    PROVE  StreamInv'
<1>1. UNCHANGED <<buf, last_start, buf_scanned>> /\ h264_worker' # "put"
  BY DEF H264!open_socket, H264!Worker
<1>2. CASE UNCHANGED <<sending, stale>>
  BY <1>1, <1>2, StreamRests
<1>3. CASE sending' = <<>> /\ stale' = Len(buf)
  <2>1. Len(Flow') = Len(buf) /\ sending' \in Seq(Bytes)
    BY <1>1, <1>3 DEF Flow, StreamInv
  <2>2. Whole(Flow, stale)' /\ Scanned'
    BY <1>1, <1>3, <2>1, Counts DEF Whole, Scanned
  <2> QED BY <1>1, <1>3, <2>1, <2>2, Counts DEF StreamInv, Ends
<1> QED BY <1>2, <1>3 DEF H264!open_socket

(* However much a read brings, it goes on where the stream was. *)
LEMMA StreamRead ==
    ASSUME StreamInv, H264!read
    PROVE  StreamInv'
<1>1. UNCHANGED <<last_start, buf_scanned, stale>> /\ h264_worker' # "put"
  BY DEF H264!read, H264!Worker
<1>2. CASE UNCHANGED <<buf, sending>>
  BY <1>1, <1>2, StreamRests
<1>3. ASSUME NEW n \in 1 .. MaxRead, NEW more \in {<<>>} \cup H264!Units,
             more = <<>> <=> n <= Len(sending), n <= Len(sending \o more),
             buf' = buf \o SubSeq(sending \o more, 1, n),
             sending' = SubSeq(sending \o more, n + 1, Len(sending \o more))
      PROVE  StreamInv'
  <2> DEFINE coming == sending \o more
             k == Len(coming)
  <2>1. n \in Nat /\ n >= 1
    BY InputAssumption
  <2>2. more \in Seq(Bytes)
    <3>1. more \in H264!Units => more \in Seq(Bytes)
      BY UnitsWhole
    <3>2. more = <<>> => more \in Seq(Bytes)
      OBVIOUS
    <3> QED BY <1>3, <3>1, <3>2
  <2>3. /\ buf \in Seq(Bytes) /\ sending \in Seq(Bytes) /\ coming \in Seq(Bytes)
        /\ k \in Nat /\ n <= k /\ k = Len(sending) + Len(more)
    BY <1>3, <2>2 DEF StreamInv
  <2>4. /\ buf' = buf \o SubSeq(coming, 1, n) /\ sending' = SubSeq(coming, n + 1, k)
    BY <1>3
  <2>5. /\ SubSeq(coming, 1, n) \in Seq(Bytes) /\ Len(SubSeq(coming, 1, n)) = n
        /\ \A i \in 1 .. n : SubSeq(coming, 1, n)[i] = coming[i]
        /\ sending' \in Seq(Bytes) /\ Len(sending') = k - n
        /\ \A i \in 1 .. k - n : sending'[i] = coming[i + n]
    <3> HIDE DEF coming, k
    <3>1. coming \in Seq(Bytes) /\ k = Len(coming) /\ k \in Nat
      BY <2>3 DEF k
    <3> QED BY <2>1, <2>3, <2>4, <3>1
  <2>6. /\ buf' \in Seq(Bytes) /\ Len(buf') = Len(buf) + n
        /\ \A i \in 1 .. Len(buf) : buf'[i] = buf[i]
        /\ \A i \in 1 .. n : buf'[Len(buf) + i] = coming[i]
    <3> HIDE DEF coming, k
    <3> DEFINE first == SubSeq(coming, 1, n)
    <3>1. first \in Seq(Bytes) /\ Len(first) = n /\ buf' = buf \o first
          /\ \A i \in 1 .. n : first[i] = coming[i]
      BY <2>4, <2>5
    <3> HIDE DEF first
    <3>2. /\ buf' \in Seq(Bytes) /\ Len(buf') = Len(buf) + Len(first)
          /\ \A i \in 1 .. Len(buf) : buf'[i] = buf[i]
          /\ \A i \in 1 .. Len(first) : buf'[Len(buf) + i] = first[i]
      BY <2>3, <3>1, BytesJoined
    <3> QED BY <3>1, <3>2
  <2> DEFINE m == Len(buf)
             l == Len(sending)
  <2>7. /\ \A i \in 1 .. l : coming[i] = sending[i]
        /\ \A i \in 1 .. Len(more) : coming[l + i] = more[i]
    BY <2>2, <2>3
  <2>8. /\ Flow' \in Seq(Bytes) /\ Len(Flow') = m + k
        /\ \A i \in 1 .. m + k : Flow'[i] = IF i <= m THEN buf[i] ELSE coming[i - m]
    <3>1. /\ Flow' \in Seq(Bytes) /\ Len(Flow') = m + k
          /\ \A i \in 1 .. m + n : Flow'[i] = buf'[i]
          /\ \A i \in 1 .. k - n : Flow'[m + n + i] = sending'[i]
      <4> HIDE DEF coming, k
      <4>1. Len(buf') = m + n /\ m \in Nat /\ Len(sending') = k - n
        BY <2>3, <2>5, <2>6
      <4>2. Flow' = buf' \o sending' /\ buf' \in Seq(Bytes) /\ sending' \in Seq(Bytes)
        BY <2>5, <2>6 DEF Flow
      <4> HIDE DEF m
      <4>3. /\ Flow' \in Seq(Bytes) /\ Len(Flow') = Len(buf') + Len(sending')
            /\ \A i \in 1 .. Len(buf') : Flow'[i] = buf'[i]
            /\ \A i \in 1 .. Len(sending') : Flow'[Len(buf') + i] = sending'[i]
        BY <4>2, BytesJoined
      <4>4. (m + n) + (k - n) = m + k
        BY <2>1, <2>3, <4>1
      <4> QED BY <4>1, <4>3, <4>4
    <3>2. m \in Nat /\ k \in Nat /\ n \in Nat /\ n <= k
      BY <2>1, <2>3
    <3> HIDE DEF coming, k, m
    <3>3. ASSUME NEW i \in 1 .. m + k, i <= m PROVE Flow'[i] = buf[i]
      <4>1. i \in 1 .. m + n /\ i \in 1 .. m
        BY <3>2, <3>3
      <4> QED BY <2>6, <3>1, <4>1 DEF m
    <3>4. ASSUME NEW i \in 1 .. m + k, i > m, i <= m + n PROVE Flow'[i] = coming[i - m]
      <4>1. i \in 1 .. m + n /\ i - m \in 1 .. n /\ m + (i - m) = i
        BY <3>2, <3>4
      <4>2. buf'[m + (i - m)] = coming[i - m]
        BY <2>6, <4>1 DEF m
      <4> QED BY <3>1, <4>1, <4>2
    <3>5. ASSUME NEW i \in 1 .. m + k, i > m + n PROVE Flow'[i] = coming[i - m]
      <4>1. i - m - n \in 1 .. k - n /\ m + n + (i - m - n) = i /\ (i - m - n) + n = i - m
        BY <3>2, <3>5
      <4>2. Flow'[m + n + (i - m - n)] = sending'[i - m - n]
            /\ sending'[i - m - n] = coming[(i - m - n) + n]
        BY <2>5, <3>1, <4>1
      <4> QED BY <4>1, <4>2
    <3> QED BY <3>1, <3>2, <3>3, <3>4, <3>5
  <2>9. /\ m + l = Len(Flow) /\ m \in Nat /\ l \in Nat /\ k = l + Len(more) /\ Len(more) \in Nat
        /\ \A i \in 1 .. m : Flow[i] = buf[i]
        /\ \A i \in 1 .. l : Flow[m + i] = sending[i]
    BY <2>2, <2>3 DEF Flow
  <2> HIDE DEF coming, k, m, l
  <2>10. \A i \in 1 .. Len(Flow) : Flow'[i] = Flow[i]
    <3> SUFFICES ASSUME NEW i \in 1 .. m + l PROVE Flow'[i] = Flow[i]
      BY <2>9
    <3>1. i \in 1 .. m + k /\ (i <= m => i \in 1 .. m)
          /\ (i > m => i - m \in 1 .. l /\ m + (i - m) = i)
      BY <2>9
    <3>2. i > m => Flow[m + (i - m)] = coming[i - m]
      BY <2>7, <2>9, <3>1
    <3> QED BY <2>8, <2>9, <3>1, <3>2
  <2>11. \A i \in 1 .. Len(more) : Flow'[Len(Flow) + i] = more[i]
    <3> TAKE i \in 1 .. Len(more)
    <3>1. (m + l) + i \in 1 .. m + k /\ ~((m + l) + i <= m) /\ ((m + l) + i) - m = l + i
      BY <2>9
    <3> QED BY <2>7, <2>8, <2>9, <3>1
  <2>12. Whole(Flow, stale)'
    <3>1. CASE more = <<>>
      <4>1. Len(Flow') = Len(Flow) /\ Len(Flow) \in Nat
        BY <2>8, <2>9, <3>1
      <4>2. Flow' = Flow
        BY <2>8, <2>10, <4>1, Counts
      <4> QED BY <1>1, <4>2 DEF StreamInv
    <3>2. CASE more \in H264!Units
      <4>1. Len(more) > 0 /\ more[1] = "0" /\ Whole(more, 0)
        BY <3>2, UnitsWhole
      <4>2. Len(Flow') = Len(Flow) + Len(more)
        BY <2>8, <2>9
      <4>3. Flow \in Seq(Bytes) /\ stale \in Nat /\ stale <= Len(Flow) /\ Whole(Flow, stale)
        BY Counts DEF StreamInv
      <4>4. Whole(Flow', stale)
        BY <2>2, <2>8, <2>10, <2>11, <4>1, <4>2, <4>3, WholeJoined
      <4> QED BY <1>1, <4>4
    <3> QED BY <3>1, <3>2
  <2>13. Scanned'
    <3> SUFFICES ASSUME NEW t \in stale + 1 .. Len(Flow'),
                        Flow'[t] \in H264!Types, t - 3 <= buf_scanned
                 PROVE  /\ buf_scanned <= t + 1 => last_start = t - 4
                        /\ Flow'[t] = "slice" => buf_scanned <= t + 1
      BY <1>1 DEF Scanned
    <3>1. CASE t <= Len(Flow)
      <4>1. t \in stale + 1 .. Len(Flow) /\ Flow'[t] = Flow[t]
        BY <2>10, <3>1, Counts
      <4> QED BY <4>1 DEF StreamInv, Scanned
    <3>2. CASE t > Len(Flow)
      <4>1. Whole(Flow', stale) /\ t - 1 > stale
        BY <1>1, <2>12 DEF Whole
      <4>2. Flow'[t-1] = "1" /\ t - 1 \in stale + 1 .. Len(Flow')
        BY <1>1, <2>8, <4>1, Counts DEF Whole
      <4>3. (t-1) - 2 > stale
        BY <4>1, <4>2 DEF Whole
      <4> QED BY <3>2, <4>3, Counts
    <3> QED BY <3>1, <3>2, <2>9
  <2>14. Ends'
    BY <1>1, <2>1, <2>6, Counts DEF Ends
  <2> QED BY <1>1, <2>5, <2>6, <2>12, <2>13, <2>14 DEF StreamInv
<1> QED BY <1>2, <1>3 DEF H264!read

(* The scan passes a byte: the first of a start code only when the last    *)
(* type it passed is no slice.                                             *)
LEMMA StreamScanOver ==
    ASSUME StreamInv, H264!ScanOver
    PROVE  StreamInv'
<1>1. /\ H264!MoreToScan /\ buf_scanned' = buf_scanned + 1
      /\ ~(H264!is_nal_start(buf_scanned) /\ H264!nal_type(last_start) \in H264!SliceTypes)
      /\ last_start' = IF H264!is_nal_start(buf_scanned) THEN buf_scanned ELSE last_start
      /\ UNCHANGED <<sending, buf, stale, Flow>> /\ h264_worker' # "put"
  BY DEF H264!ScanOver, H264!Worker, H264!CutsHere, Flow
<1>2. /\ buf_scanned \in Nat /\ stale \in Nat /\ last_start \in Nat /\ Len(buf) \in Nat
      /\ buf_scanned + 4 < Len(buf) /\ Len(buf) <= Len(Flow) /\ Len(Flow) \in Nat
  BY <1>1, Counts DEF H264!MoreToScan
<1>3. Ends'
  BY <1>1, <1>2 DEF StreamInv, Ends
<1>4. Scanned'
  <2> SUFFICES ASSUME NEW t \in stale + 1 .. Len(Flow),
                      Flow[t] \in H264!Types, t - 3 <= buf_scanned + 1
               PROVE  /\ buf_scanned + 1 <= t + 1 => last_start' = t - 4
                      /\ Flow[t] = "slice" => buf_scanned + 1 <= t + 1
    BY <1>1 DEF Scanned
  <2>1. /\ t \in Nat /\ t - 4 >= stale
        /\ Flow[t-3] = "0" /\ Flow[t-2] = "0" /\ Flow[t-1] = "1"
        /\ t < Len(Flow) /\ Flow[t+1] = "-"
        /\ t + 2 <= Len(Flow) => Flow[t+2] = "0"
        /\ t + 3 <= Len(Flow) => Flow[t+3] = "0"
    BY AroundType
  <2>2. CASE t - 3 = buf_scanned + 1
    <3>1. buf_scanned >= stale /\ buf_scanned + 1 = t - 3 /\ buf_scanned + 2 = t - 2
      BY <1>2, <2>1, <2>2
    <3>2. H264!is_nal_start(buf_scanned)
      BY <1>1, <2>1, <3>1, StartsFound
    <3> QED BY <1>1, <1>2, <2>1, <3>1, <3>2
  <2>3. CASE t - 3 <= buf_scanned
    <3>1. /\ buf_scanned <= t + 1 => last_start = t - 4
          /\ Flow[t] = "slice" => buf_scanned <= t + 1
      BY <2>3 DEF StreamInv, Scanned
    <3>2. buf_scanned <= t => ~H264!is_nal_start(buf_scanned)
      <4>1. buf_scanned <= t =>
               \/ buf_scanned + 2 = t - 1
               \/ buf_scanned + 1 = t - 1
               \/ buf_scanned + 1 = t
               \/ buf_scanned + 1 = t + 1
        BY <1>2, <2>1, <2>3
      <4> QED BY <1>1, <2>1, <4>1, StartsFound DEF H264!Types
    <3>3. Flow[t] = "slice" => buf_scanned # t + 1
      <4> SUFFICES ASSUME Flow[t] = "slice", buf_scanned = t + 1 PROVE FALSE
        OBVIOUS
      <4>1. /\ buf_scanned >= stale /\ buf_scanned + 1 = t + 2 /\ buf_scanned + 2 = t + 3
            /\ t + 3 <= Len(Flow) /\ t \in stale + 1 .. Len(buf)
        BY <1>2, <2>1
      <4>2. Flow[t+2] = "0" /\ Flow[t+3] = "0"
        BY <1>2, <2>1, <4>1
      <4>3. H264!is_nal_start(buf_scanned)
        BY <1>1, <4>1, <4>2, StartsFound
      <4>4. H264!nal_type(last_start) = "slice"
        BY <3>1, <2>1, <4>1, TypeOfLast
      <4> QED BY <1>1, <4>3, <4>4 DEF H264!SliceTypes
    <3> QED BY <1>1, <1>2, <2>1, <3>1, <3>2, <3>3
  <2> QED BY <1>2, <2>1, <2>2, <2>3
<1> QED BY <1>1, <1>3, <1>4 DEF StreamInv

(* A type has a start code before it. *)
LEMMA FirstType ==
    ASSUME NEW f, NEW s \in Nat, f \in Seq(Bytes), Whole(f, s),
           NEW t \in s + 1 .. Len(f), f[t] \in H264!Types, t - 3 <= 1
    PROVE  t = 4
<1>1. t \in Nat /\ t - 1 \in s + 1 .. Len(f) /\ f[t-1] = "1"
  BY DEF Whole
<1>2. (t - 1) - 2 > s
  BY <1>1 DEF Whole
<1> QED BY <1>1, <1>2

(* What lies behind a cut is whole, for the cut is at a start code. *)
LEMMA StreamShift ==
    ASSUME StreamInv, CanCut, H264!Shift, sending' = sending, h264_worker' # "put"
    PROVE  StreamInv'
<1>1. /\ buf' = SubSeq(buf, buf_scanned + 1, Len(buf))
      /\ stale' = IF stale > buf_scanned THEN stale - buf_scanned ELSE 0
      /\ last_start' = 0 /\ buf_scanned' = 1 /\ buf_scanned + 4 < Len(buf)
  BY DEF H264!Shift, CanCut, H264!MoreToScan
<1>2. /\ buf \in Seq(Bytes) /\ sending \in Seq(Bytes) /\ buf_scanned \in Nat /\ stale \in Nat
      /\ Len(buf) \in Nat /\ Len(sending) \in Nat /\ stale <= Len(buf)
      /\ Flow \in Seq(Bytes) /\ Len(Flow) = Len(buf) + Len(sending)
  BY Counts DEF StreamInv
<1>3. /\ buf' \in Seq(Bytes) /\ Len(buf') = Len(buf) - buf_scanned
      /\ \A i \in 1 .. Len(buf') : buf'[i] = buf[i + buf_scanned]
  BY <1>1, <1>2
<1>0. /\ Len(buf') = Len(buf) - buf_scanned /\ Len(buf') \in Nat
      /\ stale' \in Nat /\ stale' <= Len(buf')
  BY <1>1, <1>2, <1>3
<1>4. /\ Flow' \in Seq(Bytes) /\ Len(Flow') = Len(Flow) - buf_scanned
      /\ \A i \in 1 .. Len(Flow') : Flow'[i] = Flow[i + buf_scanned]
  <2>1. Flow' = buf' \o sending
    BY DEF Flow
  <2>2. /\ Flow' \in Seq(Bytes) /\ Len(Flow') = Len(buf') + Len(sending)
        /\ \A i \in 1 .. Len(buf') : Flow'[i] = buf'[i]
        /\ \A i \in 1 .. Len(sending) : Flow'[Len(buf') + i] = sending[i]
    BY <1>2, <1>3, <2>1, BytesJoined
  <2>3. /\ \A i \in 1 .. Len(buf) : Flow[i] = buf[i]
        /\ \A i \in 1 .. Len(sending) : Flow[Len(buf) + i] = sending[i]
    BY <1>2, BytesJoined DEF Flow
  <2>4. ASSUME NEW i \in 1 .. Len(Flow') PROVE Flow'[i] = Flow[i + buf_scanned]
    <3>1. CASE i <= Len(buf')
      <4>1. i \in 1 .. Len(buf') /\ i + buf_scanned \in 1 .. Len(buf)
        BY <1>1, <1>2, <1>3, <2>2, <3>1
      <4> QED BY <1>3, <2>2, <2>3, <4>1
    <3>2. CASE i > Len(buf')
      <4> DEFINE k == i - Len(buf')
      <4>1. k \in 1 .. Len(sending) /\ i = Len(buf') + k /\ i + buf_scanned = Len(buf) + k
        <5>1. /\ i \in Nat /\ i > Len(buf') /\ i <= Len(buf') + Len(sending)
              /\ Len(buf') \in Nat /\ Len(buf') = Len(buf) - buf_scanned
          BY <1>0, <2>2, <3>2
        <5> QED BY <1>2, <5>1
      <4> HIDE DEF k
      <4>2. Flow'[Len(buf') + k] = sending[k] /\ Flow[Len(buf) + k] = sending[k]
        BY <2>2, <2>3, <4>1
      <4> QED BY <4>1, <4>2
    <3> QED BY <1>1, <1>2, <1>3, <2>2, <3>1, <3>2
  <2> QED BY <1>1, <1>2, <1>3, <2>2, <2>4
<1>5. Whole(Flow', stale')
  <2>1. H264!MoreToScan /\ H264!is_nal_start(buf_scanned) /\ Whole(Flow, stale)
    BY DEF CanCut, StreamInv
  <2>2. Flow[buf_scanned + 1] = "0" /\ Flow[buf_scanned + 2] = "0"
    BY <2>1, StartsFound
  <2>3. buf_scanned + 2 <= Len(Flow)
    BY <1>1, <1>2
  <2> QED BY <1>1, <1>2, <1>4, <2>1, <2>2, <2>3, WholeBehindCut
<1>6. Ends'
  BY <1>1, <1>2, <1>3 DEF Ends
<1>7. Scanned'
  <2> SUFFICES ASSUME NEW t \in stale' + 1 .. Len(Flow'), Flow'[t] \in H264!Types, t - 3 <= 1
               PROVE  t = 4
    BY <1>1 DEF Scanned
  <2> QED BY <1>0, <1>4, <1>5, FirstType
<1> QED BY <1>2, <1>3, <1>5, <1>6, <1>7 DEF StreamInv

(* What is cut off ends at a slice's end, or one byte into a start code. *)
LEMMA ChunkWhole ==
    ASSUME StreamInv, H264!decode_and_send
    PROVE  SlicesWhole'
<1>1. /\ chunk' = SubSeq(buf, stale + 1, buf_scanned)
      /\ H264!MoreToScan /\ H264!is_nal_start(buf_scanned)
      /\ H264!nal_type(last_start) \in {"slice", "1"}
  BY DEF H264!decode_and_send, H264!CutsHere, H264!SliceTypes
<1> DEFINE s == buf_scanned
           n == Len(chunk')
<1>2. /\ s \in Nat /\ stale \in Nat /\ Len(buf) \in Nat /\ Len(Flow) \in Nat
      /\ s + 4 < Len(buf) /\ Len(buf) <= Len(Flow) /\ buf \in Seq(Bytes)
  BY <1>1, Counts DEF H264!MoreToScan, StreamInv
<1>3. CASE s <= stale
  <2>1. chunk' = <<>>
    BY <1>1, <1>2, <1>3
  <2> QED BY <2>1 DEF SlicesWhole, H264!SlicesWhole
<1>4. CASE s > stale
  <2>1. n = s - stale /\ \A k \in 1 .. n : chunk'[k] = buf[stale + k]
    BY <1>1, <1>2, <1>4
  <2>2. Flow[s+1] = "0" /\ Flow[s+2] = "0"
    BY <1>1, StartsFound
  <2>3. \A k \in 1 .. n : chunk'[k] = Flow[stale + k]
    <3> TAKE k \in 1 .. n
    <3>1. stale + k \in 1 .. Len(buf)
      BY <1>2, <2>1
    <3> QED BY <2>1, <3>1, Counts
  <2> HIDE DEF s, n
  <2>4. Whole(Flow, stale) /\ Scanned
    BY DEF StreamInv
  <2>5. ASSUME NEW i \in 1 .. n
        PROVE  /\ chunk'[i] = "1" => /\ i > 2 /\ chunk'[i-2] = "0" /\ chunk'[i-1] = "0"
                                     /\ i < n /\ chunk'[i+1] \in H264!Types
               /\ chunk'[i] \in H264!Types => /\ i > 1 /\ chunk'[i-1] = "1"
                                              /\ i < n /\ chunk'[i+1] = "-"
               /\ chunk'[i] = "slice" => i = n - 1
    <3> DEFINE j == stale + i
    <3>1. /\ j \in stale + 1 .. Len(Flow) /\ j \in Nat /\ j <= s /\ i \in Nat /\ n \in Nat
          /\ j = stale + i /\ s = stale + n
      BY <1>2, <1>4, <2>1
    <3> HIDE DEF j
    <3>2. /\ chunk'[i] = Flow[j]
          /\ j - 1 > stale => i > 1 /\ chunk'[i-1] = Flow[j-1]
          /\ j - 2 > stale => i > 2 /\ chunk'[i-2] = Flow[j-2]
          /\ j < s => i < n /\ chunk'[i+1] = Flow[j+1]
      <4>1. /\ j - 1 > stale => i > 1 /\ i - 1 \in 1 .. n /\ stale + (i - 1) = j - 1
            /\ j - 2 > stale => i > 2 /\ i - 2 \in 1 .. n /\ stale + (i - 2) = j - 2
            /\ j < s => i < n /\ i + 1 \in 1 .. n /\ stale + (i + 1) = j + 1
        BY <1>2, <3>1
      <4>2. /\ j - 1 > stale => chunk'[i-1] = Flow[stale + (i-1)]
            /\ j - 2 > stale => chunk'[i-2] = Flow[stale + (i-2)]
            /\ j < s => chunk'[i+1] = Flow[stale + (i+1)]
        BY <2>3, <4>1
      <4>3. chunk'[i] = Flow[j]
        BY <2>3, <3>1
      <4> QED BY <4>1, <4>2, <4>3
    <3>3. /\ Flow[j] = "1" => /\ j - 2 > stale /\ Flow[j-2] = "0" /\ Flow[j-1] = "0"
                              /\ Flow[j+1] \in H264!Types
          /\ Flow[j] \in H264!Types => /\ j - 1 > stale /\ Flow[j-1] = "1" /\ Flow[j+1] = "-"
      BY <2>4, <3>1 DEF Whole
    <3>4. Flow[j] = "1" \/ Flow[j] \in H264!Types => j < s
      <4>1. j = s => Flow[j+1] = "0"
        BY <2>2
      <4> QED BY <1>2, <3>1, <3>3, <4>1 DEF H264!Types
    <3>5. Flow[j] = "slice" => j = s - 1
      <4> SUFFICES ASSUME Flow[j] = "slice" PROVE j = s - 1
        OBVIOUS
      <4>1. Flow[j] \in H264!Types /\ j - 3 <= s
        BY <1>2, <3>1 DEF H264!Types
      <4>2. s <= j + 1
        BY <2>4, <3>1, <4>1 DEF Scanned, s
      <4> QED BY <1>2, <3>1, <3>4, <4>1, <4>2
    <3>6. j - 2 > stale => j - 1 > stale
      BY <1>2, <3>1
    <3>7. j = s - 1 => i = n - 1
      BY <1>2, <3>1
    <3> QED BY <3>2, <3>3, <3>4, <3>5, <3>6, <3>7 DEF H264!Types
  <2>6. \/ n > 1 /\ chunk'[n] = "-" /\ chunk'[n-1] = "slice"
        \/ chunk'[n] = "0" /\ (n = 1 \/ chunk'[n-1] = "-")
    <3>1. /\ n \in 1 .. n /\ stale + n = s /\ s \in stale + 1 .. Len(Flow) /\ s \in 1 .. Len(Flow)
          /\ s + 1 \in stale + 1 .. Len(Flow) /\ n \in Nat
          /\ n > 1 => n - 1 \in 1 .. n /\ stale + (n - 1) = s - 1 /\ s - 1 \in stale + 1 .. Len(Flow)
          /\ s - 1 > stale => n > 1
      BY <1>2, <1>4, <2>1
    <3>2. chunk'[n] = Flow[s] /\ (n > 1 => chunk'[n-1] = Flow[s-1])
      BY <2>3, <3>1
    <3>3. Flow[s] \in {"-", "0"}
      <4>1. Flow[s] \in Bytes
        BY <3>1, Counts
      <4> QED BY <2>2, <2>4, <3>1, <4>1 DEF Whole, Bytes, H264!Types
    <3>4. CASE Flow[s] = "-"
      <4>1. s - 1 > stale /\ Flow[s-1] \in H264!Types
        BY <2>4, <3>1, <3>4 DEF Whole
      <4> DEFINE t == s - 1
      <4>2. t \in stale + 1 .. Len(buf) /\ t \in stale + 1 .. Len(Flow) /\ t - 3 <= s /\ s <= t + 1
        BY <1>2, <4>1
      <4>3. last_start = t - 4
        BY <2>4, <4>1, <4>2 DEF Scanned, s
      <4> HIDE DEF t
      <4>4. H264!nal_type(last_start) = Flow[t]
        BY <4>1, <4>2, <4>3, TypeOfLast DEF t
      <4>5. Flow[s-1] = "slice"
        BY <1>1, <4>1, <4>4 DEF t, H264!Types
      <4> QED BY <3>1, <3>2, <3>4, <4>1, <4>5
    <3>5. CASE Flow[s] = "0"
      <4> SUFFICES ASSUME n > 1 PROVE Flow[s-1] = "-"
        BY <3>1, <3>2, <3>5
      <4>1. /\ s - 1 \in stale + 1 .. Len(Flow) /\ Flow[s-1] \in Bytes
            /\ (s-1)+1 = s /\ (s-1)+2 = s+1 /\ (s-1)+3 = s+2 /\ s + 1 <= Len(Flow)
        <5>1. s - 1 \in 1 .. Len(Flow) /\ (s-1)+1 = s /\ (s-1)+2 = s+1 /\ (s-1)+3 = s+2
          BY <1>2, <3>1
        <5>2. Flow[s-1] \in Bytes
          BY <5>1, Counts
        <5> QED BY <1>2, <3>1, <5>1, <5>2
      <4>2. Flow[s-1] # "0"
        <5>1. (s-1)+2 <= Len(Flow) /\ Flow[s-1] = "0" /\ Flow[(s-1)+1] = "0" /\ Flow[(s-1)+2] = "0"
                => Flow[(s-1)+3] = "1"
          BY <2>4, <4>1 DEF Whole
        <5> QED BY <2>2, <3>5, <4>1, <5>1
      <4>3. Flow[s-1] = "1" => Flow[(s-1)+1] \in H264!Types
        BY <2>4, <4>1 DEF Whole
      <4>4. Flow[s-1] \in H264!Types => Flow[(s-1)+1] = "-"
        BY <2>4, <4>1 DEF Whole
      <4> QED BY <3>5, <4>1, <4>2, <4>3, <4>4 DEF Bytes, H264!Types
    <3> QED BY <3>3, <3>4, <3>5
  <2> QED BY <2>5, <2>6 DEF SlicesWhole, H264!SlicesWhole, n
<1> QED BY <1>2, <1>3, <1>4

LEMMA StreamDecode ==
    ASSUME StreamInv, H264!decode_and_send
    PROVE  StreamInv'
<1>1. CanCut /\ sending' = sending
  BY DEF H264!decode_and_send, CanCut, H264!CutsHere
<1>2. CASE h264_worker' = "put" /\ UNCHANGED <<buf, stale, last_start, buf_scanned>>
  <2>1. UNCHANGED Flow
    BY <1>1, <1>2 DEF Flow
  <2> QED BY <1>1, <1>2, <2>1 DEF StreamInv, Ends, Whole, Scanned, CanCut, H264!At,
                                  H264!is_nal_start, H264!MoreToScan
<1>3. CASE h264_worker' = "scan" /\ H264!Shift
  BY <1>1, <1>3, StreamShift
<1> QED BY <1>2, <1>3 DEF H264!decode_and_send

LEMMA StreamNext ==
    StreamInv /\ SlicesWhole /\ [MCNext]_allVars => (StreamInv /\ SlicesWhole)'
<1> SUFFICES ASSUME StreamInv, SlicesWhole, [MCNext]_allVars
             PROVE  StreamInv' /\ SlicesWhole'
  OBVIOUS
<1>1. UNCHANGED h264Vars \/ H264!Next
  BY DEF MCNext, allVars
<1>2. ASSUME chunk' = chunk PROVE SlicesWhole'
  BY <1>2 DEF SlicesWhole, H264!SlicesWhole
<1>3. CASE UNCHANGED h264Vars
  BY <1>2, <1>3, StreamRests DEF h264Vars
<1>4. CASE H264!start \/ H264!GetPicture \/ H264!Destroy \/ H264!join
  BY <1>2, <1>4, StreamRests
     DEF H264!start, H264!GetPicture, H264!Destroy, H264!join, H264!stream
<1>5. CASE H264!open_socket
  BY <1>2, <1>5, StreamOpen DEF H264!open_socket
<1>6. CASE H264!poll \/ H264!ScanEnds
  BY <1>2, <1>6, StreamRests DEF H264!poll, H264!ScanEnds, H264!Worker, H264!stream
<1>7. CASE H264!read
  BY <1>2, <1>7, StreamRead DEF H264!read
<1>8. CASE H264!ScanOver
  BY <1>2, <1>8, StreamScanOver DEF H264!ScanOver
<1>9. CASE H264!decode_and_send
  BY <1>9, StreamDecode, ChunkWhole
<1>10. CASE H264!put
  <2>1. CanCut /\ H264!Shift /\ sending' = sending /\ chunk' = chunk /\ h264_worker' # "put"
    BY <1>10 DEF H264!put, H264!Worker, StreamInv
  <2> QED BY <1>2, <2>1, StreamShift
<1> QED BY <1>1, <1>3, <1>4, <1>5, <1>6, <1>7, <1>8, <1>9, <1>10
        DEF H264!Next, H264!WorkerSteps

(* The decoder is given whole units, a slice only as the last of them; a   *)
(* chunk without one ends in the zero that a start code of four bytes      *)
(* lost.  For every size of the buffer and of the reads, however often the *)
(* connection is lost (h264_tcp_input.cpp:271-298).                        *)
THEOREM DecoderGetsWholeSlices == MCSpec => []SlicesWhole
BY StreamInit, StreamNext, PTL DEF MCSpec

-----------------------------------------------------------------------------
(***************************************************************************)
(* The triggered ingest.  The image cut out last, what is in the buffer    *)
(* and what is in the kernel's pipe are one unbroken piece of what the     *)
(* child sent, whatever is read and cut: InTurn.                           *)
(***************************************************************************)

ImageTokens == [at : 0 .. 5, image : Nat]

\* What may come after a token before the next image is over.
Reach(t) ==
    IF t.at \in {0, 5}
    THEN {Mjpeg!Token(0, t.image)} \cup {Mjpeg!Token(p, t.image + 1) : p \in 1 .. 5}
    ELSE {Mjpeg!Token(p, t.image) : p \in t.at + 1 .. 5}

Adjacent(s) == \A i \in 1 .. Len(s) - 1 : s[i + 1] \in Mjpeg!After(s[i])

NoEndBetween(s, i, j) == \A k \in i + 1 .. j - 1 : s[k].at # 5

Reaches(s) ==
    \A i, j \in 1 .. Len(s) : i < j /\ NoEndBetween(s, i, j) => s[j] \in Reach(s[i])

InTurn(s) == s \in Seq(ImageTokens) /\ Adjacent(s) /\ Reaches(s)

Coming == jpegbuf \o image_pipe
Window == dest \o Coming

NothingYet == dest = <<>> /\ written = <<>> /\ mjpeg_thread # "write"

CutOut ==
    \E k \in Nat \ {0} :
       /\ dest = Mjpeg!Image(k)
       /\ written = IF mjpeg_thread # "write" THEN dest
                    ELSE IF k = 1 THEN <<>> ELSE Mjpeg!Image(k - 1)

ImagesOK == NothingYet \/ CutOut

SentLast == sent \in ImageTokens /\ (Window # <<>> => sent = Window[Len(Window)])

\* Before the first image is cut out, nothing of a whole image was thrown away.
FromTheFirst ==
    dest = <<>> =>
      IF Coming = <<>> THEN sent.image = 0
      ELSE \/ Coming[1] = Mjpeg!Token(1, 1)
           \/ Coming[1].image = 0 /\ Coming[1].at # 1

DumpInv ==
    /\ jpegbuf \in Seq(ImageTokens) /\ image_pipe \in Seq(ImageTokens)
    /\ Len(jpegbuf) <= BUFSIZE
    /\ InTurn(Window)
    /\ ImagesOK
    /\ SentLast
    /\ FromTheFirst

(* A token and the one before it. *)
LEMMA OneBefore ==
    ASSUME NEW t \in ImageTokens, NEW u \in ImageTokens, u \in Mjpeg!After(t)
    PROVE  /\ u.at > 1 => t.at = u.at - 1 /\ t.image = u.image
           /\ u.at = 1 => t.at \in {0, 5} /\ t.image = u.image - 1
           /\ u.at = 0 => t.at \in {0, 5} /\ t.image = u.image
           /\ t.at \in 1 .. 4 => u.at = t.at + 1
BY DEF ImageTokens, Mjpeg!After, Mjpeg!Token

LEMMA ImageParts ==
    ASSUME NEW k \in Nat
    PROVE  /\ Mjpeg!Image(k) \in Seq(ImageTokens) /\ Len(Mjpeg!Image(k)) = 5
           /\ \A p \in 1 .. 5 : Mjpeg!Image(k)[p] = Mjpeg!Token(p, k)
           /\ Mjpeg!Image(k) # <<>>
<1>1. Mjpeg!Image(k) \in [1 .. 5 -> ImageTokens]
  BY DEF Mjpeg!Image, Mjpeg!Token, ImageTokens
<1> QED BY <1>1 DEF Mjpeg!Image

(* Whatever is cut off in front, the rest is still in turn. *)
LEMMA TurnSuffix ==
    ASSUME NEW s, InTurn(s), NEW m \in 1 .. Len(s) + 1
    PROVE  InTurn(SubSeq(s, m, Len(s)))
<1> DEFINE t == SubSeq(s, m, Len(s))
<1>1. /\ s \in Seq(ImageTokens) /\ Len(s) \in Nat
      /\ t \in Seq(ImageTokens) /\ Len(t) = Len(s) - m + 1
      /\ \A i \in 1 .. Len(t) : t[i] = s[i + m - 1]
  BY DEF InTurn
<1> HIDE DEF t
<1>2. Adjacent(t)
  <2> SUFFICES ASSUME NEW i \in 1 .. Len(t) - 1 PROVE t[i + 1] \in Mjpeg!After(t[i])
    BY DEF Adjacent
  <2>1. t[i] = s[i + m - 1] /\ t[i + 1] = s[(i + m - 1) + 1]
    <3>1. i \in 1 .. Len(t) /\ i + 1 \in 1 .. Len(t) /\ (i + 1) + m - 1 = (i + m - 1) + 1
      BY <1>1
    <3> QED BY <1>1, <3>1
  <2>2. i + m - 1 \in 1 .. Len(s) - 1
    BY <1>1
  <2> QED BY <2>1, <2>2 DEF InTurn, Adjacent
<1>3. Reaches(t)
  <2> SUFFICES ASSUME NEW i \in 1 .. Len(t), NEW j \in 1 .. Len(t), i < j,
                      NoEndBetween(t, i, j)
               PROVE  t[j] \in Reach(t[i])
    BY DEF Reaches
  <2>1. /\ i + m - 1 \in 1 .. Len(s) /\ j + m - 1 \in 1 .. Len(s)
        /\ i + m - 1 < j + m - 1
    BY <1>1
  <2>2. ASSUME NEW k \in (i + m - 1) + 1 .. (j + m - 1) - 1 PROVE s[k].at # 5
    <3>1. k - m + 1 \in i + 1 .. j - 1 /\ k - m + 1 \in 1 .. Len(t)
          /\ (k - m + 1) + m - 1 = k
      BY <1>1, <2>2
    <3>2. t[k - m + 1].at # 5
      BY <3>1 DEF NoEndBetween
    <3> QED BY <1>1, <3>1, <3>2
  <2>3. NoEndBetween(s, i + m - 1, j + m - 1)
    BY <2>2 DEF NoEndBetween
  <2> QED BY <1>1, <2>1, <2>3 DEF InTurn, Reaches
<1> QED BY <1>1, <1>2, <1>3 DEF InTurn, t

(* One more token at the end. *)
LEMMA TurnAppend ==
    ASSUME NEW s, InTurn(s), NEW t \in ImageTokens,
           s # <<>> => t \in Mjpeg!After(s[Len(s)])
    PROVE  InTurn(Append(s, t))
<1> DEFINE n == Len(s)
           r == Append(s, t)
<1>1. /\ s \in Seq(ImageTokens) /\ n \in Nat
      /\ r \in Seq(ImageTokens) /\ Len(r) = n + 1
      /\ r[n + 1] = t /\ \A i \in 1 .. n : r[i] = s[i]
      /\ n > 0 => s # <<>>
  BY DEF InTurn
<1> HIDE DEF n, r
<1>2. \A i \in 1 .. n : s[i] \in ImageTokens
  BY <1>1 DEF n
<1>3. n > 0 => t \in Mjpeg!After(s[n])
  BY <1>1 DEF n
<1>4. Adjacent(r)
  <2> SUFFICES ASSUME NEW i \in 1 .. n PROVE r[i + 1] \in Mjpeg!After(r[i])
    BY <1>1 DEF Adjacent
  <2>1. CASE i = n
    BY <1>1, <1>3, <2>1
  <2>2. CASE i # n
    <3>1. i \in 1 .. n - 1 /\ i + 1 \in 1 .. n
      BY <1>1, <2>2
    <3> QED BY <1>1, <3>1 DEF InTurn, Adjacent, n
  <2> QED BY <2>1, <2>2
<1>5. Reaches(r)
  <2> SUFFICES ASSUME NEW i \in 1 .. n + 1, NEW j \in 1 .. n + 1, i < j,
                      NoEndBetween(r, i, j)
               PROVE  r[j] \in Reach(r[i])
    BY <1>1 DEF Reaches
  <2>1. CASE j \in 1 .. n
    <3>1. i \in 1 .. n /\ NoEndBetween(s, i, j)
      BY <1>1, <2>1 DEF NoEndBetween
    <3> QED BY <1>1, <2>1, <3>1 DEF InTurn, Reaches, n
  <2>2. CASE j = n + 1
    <3>1. i \in 1 .. n /\ n > 0 /\ n \in 1 .. n /\ r[j] = t /\ r[i] = s[i] /\ r[n] = s[n]
      BY <1>1, <2>2
    <3>2. s[i] \in ImageTokens /\ s[n] \in ImageTokens /\ t \in Mjpeg!After(s[n])
      BY <1>2, <1>3, <3>1
    <3>3. CASE i = n
      BY <3>1, <3>2, <3>3 DEF Reach, Mjpeg!After, Mjpeg!Token, ImageTokens
    <3>4. CASE i < n
      <4>1. s[n].at # 5 /\ NoEndBetween(s, i, n)
        <5>1. ASSUME NEW k \in i + 1 .. n PROVE s[k].at # 5
          <6>1. k \in i + 1 .. j - 1 /\ k \in 1 .. n
            BY <1>1, <2>2, <3>1, <5>1
          <6> QED BY <1>1, <6>1 DEF NoEndBetween
        <5>2. n \in i + 1 .. n /\ \A k \in i + 1 .. n - 1 : k \in i + 1 .. n
          BY <3>1, <3>4
        <5> QED BY <5>1, <5>2 DEF NoEndBetween
      <4>2. s[n] \in Reach(s[i])
        BY <3>1, <3>4, <4>1 DEF InTurn, Reaches, n
      <4>3. CASE s[i].at \in {0, 5}
        <5>1. CASE s[n] = Mjpeg!Token(0, s[i].image)
          BY <3>1, <3>2, <4>3, <5>1 DEF Reach, Mjpeg!After, Mjpeg!Token, ImageTokens
        <5>2. ASSUME NEW p \in 1 .. 5, s[n] = Mjpeg!Token(p, s[i].image + 1)
              PROVE  r[j] \in Reach(r[i])
          <6>1. p # 5 /\ t = Mjpeg!Token(p + 1, s[i].image + 1) /\ p + 1 \in 1 .. 5
            BY <3>2, <4>1, <5>2 DEF Mjpeg!After, Mjpeg!Token, ImageTokens
          <6> QED BY <3>1, <4>3, <6>1 DEF Reach
        <5> QED BY <4>2, <4>3, <5>1, <5>2 DEF Reach
      <4>4. CASE s[i].at \notin {0, 5}
        <5>1. PICK p \in s[i].at + 1 .. 5 : s[n] = Mjpeg!Token(p, s[i].image)
          BY <4>2, <4>4 DEF Reach
        <5>2. s[i].at \in 1 .. 4
          BY <3>2, <4>4 DEF ImageTokens
        <5>3. p # 5 /\ t = Mjpeg!Token(p + 1, s[i].image) /\ p + 1 \in s[i].at + 1 .. 5
          BY <3>2, <4>1, <5>1, <5>2 DEF Mjpeg!After, Mjpeg!Token, ImageTokens
        <5> QED BY <3>1, <4>4, <5>3 DEF Reach
      <4> QED BY <4>3, <4>4
    <3> QED BY <3>1, <3>3, <3>4
  <2> QED BY <1>1, <2>1, <2>2
<1> QED BY <1>1, <1>4, <1>5 DEF InTurn, r

LEMMA Joined ==
    ASSUME NEW s \in Seq(ImageTokens), NEW t \in Seq(ImageTokens)
    PROVE  /\ s \o t \in Seq(ImageTokens)
           /\ Len(s) \in Nat /\ Len(t) \in Nat /\ Len(s \o t) = Len(s) + Len(t)
           /\ \A i \in 1 .. Len(s) : (s \o t)[i] = s[i]
           /\ \A i \in 1 .. Len(t) : (s \o t)[Len(s) + i] = t[i]
OBVIOUS

(* The window as the image cut out last, the buffer and the pipe. *)
LEMMA WindowParts ==
    ASSUME dest \in Seq(ImageTokens), jpegbuf \in Seq(ImageTokens),
           image_pipe \in Seq(ImageTokens)
    PROVE  /\ Coming \in Seq(ImageTokens) /\ Window \in Seq(ImageTokens)
           /\ Len(Coming) = Len(jpegbuf) + Len(image_pipe)
           /\ Len(Window) = Len(dest) + Len(Coming)
           /\ Len(dest) \in Nat /\ Len(jpegbuf) \in Nat /\ Len(image_pipe) \in Nat
           /\ \A i \in 1 .. Len(jpegbuf) : Coming[i] = jpegbuf[i]
           /\ \A i \in 1 .. Len(image_pipe) : Coming[Len(jpegbuf) + i] = image_pipe[i]
           /\ \A i \in 1 .. Len(dest) : Window[i] = dest[i]
           /\ \A i \in 1 .. Len(Coming) : Window[Len(dest) + i] = Coming[i]
BY Joined DEF Coming, Window

LEMMA DestIsTokens == ImagesOK => dest \in Seq(ImageTokens)
<1>1. <<>> \in Seq(ImageTokens)
  OBVIOUS
<1>2. CutOut => dest \in Seq(ImageTokens)
  BY ImageParts DEF CutOut
<1> QED BY <1>1, <1>2 DEF ImagesOK, NothingYet

LEMMA DumpInit == MCInit => DumpInv
<1> SUFFICES ASSUME MCInit PROVE DumpInv
  OBVIOUS
<1>1. /\ \E p \in 0 .. 4 : sent = Mjpeg!Token(p, 0)
      /\ image_pipe = <<>> /\ jpegbuf = <<>> /\ dest = <<>> /\ written = <<>>
      /\ mjpeg_thread = "none"
  BY DEF MCInit, OnlyRuns, Mjpeg!Init, Mjpeg!Absent, Mjpeg!Rest
<1>2. Window = <<>> /\ Coming = <<>>
  BY <1>1 DEF Window, Coming
<1>3. InTurn(Window)
  BY <1>2 DEF InTurn, Adjacent, Reaches
<1>5. Len(jpegbuf) <= BUFSIZE /\ <<>> \in Seq(ImageTokens)
  BY <1>1, InputAssumption
<1>4. sent \in ImageTokens /\ sent.image = 0
  BY <1>1 DEF ImageTokens, Mjpeg!Token
<1> QED BY <1>1, <1>2, <1>3, <1>4, <1>5
        DEF DumpInv, ImagesOK, NothingYet, SentLast, FromTheFirst

(* Steps that leave the stream alone. *)
LEMMA DumpRests ==
    ASSUME DumpInv, UNCHANGED <<sent, image_pipe, jpegbuf, dest>>,
           \/ mjpeg_thread = "write" /\ written' = dest
           \/ mjpeg_thread # "write" /\ written' = written
           \/ mjpeg_thread' = mjpeg_thread /\ written' = written,
           mjpeg_thread' # "write" \/ (mjpeg_thread' = mjpeg_thread /\ written' = written)
    PROVE  DumpInv'
<1>1. Window' = Window /\ Coming' = Coming
  BY DEF Window, Coming
<1>2. ImagesOK'
  <2>1. CASE NothingYet
    BY <2>1 DEF NothingYet, ImagesOK
  <2>2. CASE CutOut
    BY <2>2 DEF CutOut, ImagesOK
  <2> QED BY <2>1, <2>2 DEF DumpInv, ImagesOK
<1>3. InTurn(Window)'
  BY <1>1 DEF DumpInv
<1>4. SentLast' /\ FromTheFirst'
  BY <1>1 DEF DumpInv, SentLast, FromTheFirst
<1> QED BY <1>2, <1>3, <1>4 DEF DumpInv

LEMMA DumpSends ==
    ASSUME DumpInv, Mjpeg!Sends
    PROVE  DumpInv'
<1>1. /\ sent' \in Mjpeg!After(sent)
      /\ image_pipe' = Append(image_pipe, sent')
      /\ UNCHANGED <<mjpeg_thread, jpegbuf, dest, written>>
  BY DEF Mjpeg!Sends
<1>2. /\ jpegbuf \in Seq(ImageTokens) /\ image_pipe \in Seq(ImageTokens)
      /\ dest \in Seq(ImageTokens) /\ sent \in ImageTokens
  BY DestIsTokens DEF DumpInv, SentLast
<1>3. sent' \in ImageTokens
  BY <1>1, <1>2 DEF Mjpeg!After, Mjpeg!Token, ImageTokens
<1>4. image_pipe' \in Seq(ImageTokens)
  BY <1>1, <1>2, <1>3
<1>5. Coming' = Append(Coming, sent') /\ Coming \in Seq(ImageTokens)
  BY <1>1, <1>2, <1>3 DEF Coming
<1>6. Window' = Append(Window, sent') /\ Window \in Seq(ImageTokens)
  BY <1>1, <1>2, <1>3, <1>5 DEF Window
<1>7. InTurn(Window)'
  <2>1. Window # <<>> => sent' \in Mjpeg!After(Window[Len(Window)])
    BY <1>1 DEF DumpInv, SentLast
  <2> QED BY <1>3, <1>6, <2>1, TurnAppend DEF DumpInv
<1>8. SentLast'
  BY <1>3, <1>6 DEF SentLast
<1>9. ImagesOK'
  BY <1>1 DEF DumpInv, ImagesOK, NothingYet, CutOut
<1>10. FromTheFirst'
  <2> SUFFICES ASSUME dest' = <<>>
               PROVE  /\ Coming' # <<>>
                      /\ \/ Coming'[1] = Mjpeg!Token(1, 1)
                         \/ Coming'[1].image = 0 /\ Coming'[1].at # 1
    BY DEF FromTheFirst
  <2>1. dest = <<>>
    BY <1>1
  <2>2. CASE Coming = <<>>
    <3>1. sent.image = 0 /\ Coming'[1] = sent' /\ Coming' # <<>>
      BY <1>5, <2>1, <2>2 DEF DumpInv, FromTheFirst
    <3> QED BY <1>1, <1>2, <3>1 DEF Mjpeg!After, Mjpeg!Token, ImageTokens
  <2>3. CASE Coming # <<>>
    <3>1. Coming'[1] = Coming[1] /\ Coming' # <<>>
      BY <1>5, <2>3
    <3> QED BY <2>1, <2>3, <3>1 DEF DumpInv, FromTheFirst
  <2> QED BY <2>2, <2>3
<1> QED BY <1>1, <1>2, <1>4, <1>7, <1>8, <1>9, <1>10 DEF DumpInv

(* What is read goes from the front of the pipe to the end of the buffer. *)
LEMMA DumpRead ==
    ASSUME DumpInv, Mjpeg!ReadMore, Mjpeg!Read
    PROVE  DumpInv'
<1> DEFINE n == IF Len(image_pipe) < BUFSIZE - Len(jpegbuf) THEN Len(image_pipe)
                ELSE BUFSIZE - Len(jpegbuf)
           m == Len(jpegbuf)
           l == Len(image_pipe)
<1>1. /\ jpegbuf' = jpegbuf \o SubSeq(image_pipe, 1, n)
      /\ image_pipe' = SubSeq(image_pipe, n + 1, l)
      /\ mjpeg_thread = "read" /\ mjpeg_thread' = "scan"
      /\ UNCHANGED <<sent, dest, written>>
  BY DEF Mjpeg!Read, Mjpeg!ReadMore
<1>2. /\ jpegbuf \in Seq(ImageTokens) /\ image_pipe \in Seq(ImageTokens)
      /\ m \in Nat /\ l \in Nat /\ m <= BUFSIZE /\ BUFSIZE \in Nat
  BY InputAssumption DEF DumpInv
<1>3. n \in 0 .. l /\ m + n <= BUFSIZE
  BY <1>2
<1> HIDE DEF n
<1>4. /\ jpegbuf' \in Seq(ImageTokens) /\ image_pipe' \in Seq(ImageTokens)
      /\ Len(jpegbuf') = m + n /\ Len(image_pipe') = l - n
      /\ \A i \in 1 .. m : jpegbuf'[i] = jpegbuf[i]
      /\ \A i \in 1 .. n : jpegbuf'[m + i] = image_pipe[i]
      /\ \A i \in 1 .. l - n : image_pipe'[i] = image_pipe[n + i]
  BY <1>1, <1>2, <1>3
<1>5. Coming' = Coming
  <2>1. /\ Coming \in Seq(ImageTokens) /\ Len(Coming) = m + l
        /\ \A i \in 1 .. m : Coming[i] = jpegbuf[i]
        /\ \A i \in 1 .. l : Coming[m + i] = image_pipe[i]
    BY <1>2 DEF Coming
  <2>2. /\ Coming' \in Seq(ImageTokens) /\ Len(Coming') = m + l
        /\ \A i \in 1 .. m + n : Coming'[i] = jpegbuf'[i]
        /\ \A i \in 1 .. l - n : Coming'[(m + n) + i] = image_pipe'[i]
    <3>1. Len(jpegbuf') + Len(image_pipe') = m + l
      BY <1>2, <1>3, <1>4
    <3> QED BY <1>4, <3>1, Joined DEF Coming
  <2>3. ASSUME NEW i \in 1 .. m + l PROVE Coming'[i] = Coming[i]
    <3>1. CASE i \in 1 .. m
      BY <1>2, <1>3, <1>4, <2>1, <2>2, <3>1
    <3>2. CASE i \in m + 1 .. m + n
      <4>1. i - m \in 1 .. n /\ i - m \in 1 .. l /\ i \in 1 .. m + n /\ m + (i - m) = i
        BY <1>2, <1>3, <3>2
      <4> QED BY <1>4, <2>1, <2>2, <4>1
    <3>3. CASE i \in m + n + 1 .. m + l
      <4>1. /\ i - m - n \in 1 .. l - n /\ i - m \in 1 .. l
            /\ (m + n) + (i - m - n) = i /\ m + (i - m) = i /\ n + (i - m - n) = i - m
        BY <1>2, <1>3, <3>3
      <4>2. Coming'[i] = image_pipe'[i - m - n]
        BY <2>2, <4>1
      <4>3. image_pipe'[i - m - n] = image_pipe[i - m]
        BY <1>4, <4>1
      <4>4. Coming[i] = image_pipe[i - m]
        BY <2>1, <4>1
      <4> QED BY <4>2, <4>3, <4>4
    <3> QED BY <1>2, <1>3, <3>1, <3>2, <3>3
  <2> QED BY <2>1, <2>2, <2>3
<1>6. Window' = Window
  BY <1>1, <1>5 DEF Window
<1>7. InTurn(Window)'
  BY <1>6 DEF DumpInv
<1>8. SentLast' /\ FromTheFirst'
  BY <1>1, <1>5, <1>6 DEF DumpInv, SentLast, FromTheFirst
<1>9. ImagesOK'
  BY <1>1 DEF DumpInv, ImagesOK, NothingYet, CutOut
<1> QED BY <1>3, <1>4, <1>7, <1>8, <1>9 DEF DumpInv

LEMMA ImageBytes ==
    ASSUME NEW t \in ImageTokens
    PROVE  /\ Mjpeg!Byte(t) = "ff" <=> t.at \in {1, 4}
           /\ Mjpeg!Byte(t) = "d8" <=> t.at = 2
           /\ Mjpeg!Byte(t) = "d9" <=> t.at = 5
BY DEF ImageTokens, Mjpeg!Byte

(* What the buffer shows of the stream: the markers found are the images'. *)
LEMMA BufferInTurn ==
    ASSUME DumpInv
    PROVE  /\ \A i \in 1 .. Len(jpegbuf) : jpegbuf[i] \in ImageTokens
           /\ \A i \in 1 .. Len(jpegbuf) - 1 : jpegbuf[i + 1] \in Mjpeg!After(jpegbuf[i])
           /\ \A i \in 1 .. Len(jpegbuf) - 1 :
                 /\ i \in Mjpeg!Places("d9") <=> jpegbuf[i + 1].at = 5
                 /\ i \in Mjpeg!Places("d8") <=> jpegbuf[i].at = 1
<1>1. /\ jpegbuf \in Seq(ImageTokens) /\ image_pipe \in Seq(ImageTokens)
      /\ dest \in Seq(ImageTokens)
  BY DestIsTokens DEF DumpInv
<1>2. \A i \in 1 .. Len(jpegbuf) : jpegbuf[i] \in ImageTokens
  BY <1>1
<1>3. ASSUME NEW i \in 1 .. Len(jpegbuf) - 1
      PROVE  jpegbuf[i + 1] \in Mjpeg!After(jpegbuf[i])
  <2>1. /\ i \in 1 .. Len(jpegbuf) /\ i + 1 \in 1 .. Len(jpegbuf)
        /\ i \in 1 .. Len(Coming) /\ i + 1 \in 1 .. Len(Coming)
        /\ Len(dest) + i \in 1 .. Len(Window) - 1
        /\ Len(dest) + (i + 1) = (Len(dest) + i) + 1
    BY <1>1, WindowParts
  <2>2. Window[Len(dest) + i] = jpegbuf[i] /\ Window[(Len(dest) + i) + 1] = jpegbuf[i + 1]
    BY <1>1, <2>1, WindowParts
  <2> QED BY <2>1, <2>2 DEF DumpInv, InTurn, Adjacent
<1>4. ASSUME NEW i \in 1 .. Len(jpegbuf) - 1
      PROVE  /\ i \in Mjpeg!Places("d9") <=> jpegbuf[i + 1].at = 5
             /\ i \in Mjpeg!Places("d8") <=> jpegbuf[i].at = 1
  <2>1. jpegbuf[i] \in ImageTokens /\ jpegbuf[i + 1] \in ImageTokens
    BY <1>1, <1>2
  <2>2. /\ jpegbuf[i + 1].at = 5 => jpegbuf[i].at = 4
        /\ jpegbuf[i + 1].at = 2 => jpegbuf[i].at = 1
        /\ jpegbuf[i].at = 1 => jpegbuf[i + 1].at = 2
    BY <1>3, <2>1, OneBefore
  <2>3. /\ Mjpeg!Byte(jpegbuf[i]) = "ff" <=> jpegbuf[i].at \in {1, 4}
        /\ Mjpeg!Byte(jpegbuf[i + 1]) = "d8" <=> jpegbuf[i + 1].at = 2
        /\ Mjpeg!Byte(jpegbuf[i + 1]) = "d9" <=> jpegbuf[i + 1].at = 5
    BY <2>1, ImageBytes
  <2> QED BY <2>2, <2>3 DEF Mjpeg!Places, Mjpeg!Marker
<1> QED BY <1>2, <1>3, <1>4

FirstEnd(e) == e \in Mjpeg!Places("d9") /\ \A i \in Mjpeg!Places("d9") : e <= i

\* The end marker belongs to an image that lies whole in the buffer, ...
WholeAt(e) ==
    /\ e >= 4 /\ Mjpeg!Start(e) = e - 3
    /\ \A p \in 1 .. 5 : jpegbuf[(e - 4) + p] = Mjpeg!Token(p, jpegbuf[e - 3].image)

\* ... or to one whose start was never in it.
TornAt(e) ==
    /\ e <= 3 /\ Mjpeg!Start(e) = 0
    /\ jpegbuf[1].at = 5 - e
    /\ jpegbuf[e + 1] = Mjpeg!Token(5, jpegbuf[1].image)

LEMMA AtTheEnd ==
    ASSUME DumpInv, NEW e, FirstEnd(e)
    PROVE  /\ e \in 1 .. Len(jpegbuf) - 1
           /\ \A i \in 2 .. e : jpegbuf[i].at # 5
           /\ WholeAt(e) \/ TornAt(e)
<1>1. e \in 1 .. Len(jpegbuf) - 1 /\ Len(jpegbuf) \in Nat
  BY DEF FirstEnd, Mjpeg!Places, DumpInv
<1>2. ASSUME NEW i \in 2 .. e PROVE jpegbuf[i].at # 5
  <2>1. i - 1 \in 1 .. Len(jpegbuf) - 1 /\ (i - 1) + 1 = i /\ i - 1 < e
    BY <1>1
  <2>2. jpegbuf[(i - 1) + 1].at = 5 => i - 1 \in Mjpeg!Places("d9")
    BY <2>1, BufferInTurn
  <2>3. i - 1 \notin Mjpeg!Places("d9")
    BY <1>1, <2>1 DEF FirstEnd
  <2> QED BY <2>1, <2>2, <2>3
<1> DEFINE im == jpegbuf[e + 1].image
<1>3. ASSUME NEW i \in 1 .. e, NEW p \in 2 .. 5, NEW q \in 1 .. 4, p = q + 1,
             jpegbuf[i + 1] = Mjpeg!Token(p, im)
      PROVE  jpegbuf[i] = Mjpeg!Token(q, im)
  <2>1. /\ jpegbuf[i] \in ImageTokens /\ jpegbuf[i + 1] \in ImageTokens
        /\ jpegbuf[i + 1] \in Mjpeg!After(jpegbuf[i])
    BY <1>1, BufferInTurn
  <2>2. jpegbuf[i].at = q /\ jpegbuf[i].image = im
    BY <1>3, <2>1, OneBefore DEF Mjpeg!Token
  <2> HIDE DEF im
  <2> QED BY <2>1, <2>2 DEF ImageTokens, Mjpeg!Token
<1>4. jpegbuf[e + 1] = Mjpeg!Token(5, im)
  <2>1. jpegbuf[e + 1] \in ImageTokens /\ jpegbuf[e + 1].at = 5
    BY <1>1, BufferInTurn DEF FirstEnd
  <2> QED BY <2>1 DEF ImageTokens, Mjpeg!Token
<1> HIDE DEF im
<1>5. jpegbuf[e] = Mjpeg!Token(4, im)
  <2>1. e \in 1 .. e /\ 5 \in 2 .. 5 /\ 4 \in 1 .. 4 /\ 5 = 4 + 1
    BY <1>1
  <2> QED BY <1>3, <1>4, <2>1
<1>6. e >= 2 => jpegbuf[e - 1] = Mjpeg!Token(3, im)
  <2> SUFFICES ASSUME e >= 2 PROVE jpegbuf[e - 1] = Mjpeg!Token(3, im)
    OBVIOUS
  <2>1. /\ e - 1 \in 1 .. e /\ (e - 1) + 1 = e
        /\ 4 \in 2 .. 5 /\ 3 \in 1 .. 4 /\ 4 = 3 + 1 /\ e >= 1
    BY <1>1
  <2>2. jpegbuf[(e - 1) + 1] = Mjpeg!Token(4, im)
    BY <1>5, <2>1
  <2> QED BY <1>3, <2>1, <2>2
<1>7. e >= 3 => jpegbuf[e - 2] = Mjpeg!Token(2, im)
  <2> SUFFICES ASSUME e >= 3 PROVE jpegbuf[e - 2] = Mjpeg!Token(2, im)
    OBVIOUS
  <2>1. /\ e - 2 \in 1 .. e /\ (e - 2) + 1 = e - 1
        /\ 3 \in 2 .. 5 /\ 2 \in 1 .. 4 /\ 3 = 2 + 1 /\ e >= 2
    BY <1>1
  <2>2. jpegbuf[(e - 2) + 1] = Mjpeg!Token(3, im)
    BY <1>6, <2>1
  <2> QED BY <1>3, <2>1, <2>2
<1>8. e >= 4 => jpegbuf[e - 3] = Mjpeg!Token(1, im)
  <2> SUFFICES ASSUME e >= 4 PROVE jpegbuf[e - 3] = Mjpeg!Token(1, im)
    OBVIOUS
  <2>1. /\ e - 3 \in 1 .. e /\ (e - 3) + 1 = e - 2
        /\ 2 \in 2 .. 5 /\ 1 \in 1 .. 4 /\ 2 = 1 + 1 /\ e >= 3
    BY <1>1
  <2>2. jpegbuf[(e - 3) + 1] = Mjpeg!Token(2, im)
    BY <1>7, <2>1
  <2> QED BY <1>3, <2>1, <2>2
<1>9. /\ jpegbuf[e].at = 4 /\ jpegbuf[e].image = im
      /\ e >= 2 => jpegbuf[e - 1].at = 3 /\ jpegbuf[e - 1].image = im
      /\ e >= 3 => jpegbuf[e - 2].at = 2 /\ jpegbuf[e - 2].image = im
      /\ e >= 4 => jpegbuf[e - 3].at = 1 /\ jpegbuf[e - 3].image = im
  BY <1>5, <1>6, <1>7, <1>8 DEF Mjpeg!Token
<1>10. CASE e >= 4
  <2>1. e - 3 \in Mjpeg!Places("d8") /\ e - 3 < e
    BY <1>1, <1>9, <1>10, BufferInTurn
  <2>2. ASSUME NEW i \in Mjpeg!Places("d8"), i < e PROVE i <= e - 3
    <3>1. i \in 1 .. Len(jpegbuf) - 1
      BY DEF Mjpeg!Places
    <3>2. jpegbuf[i].at = 1
      BY <3>1, BufferInTurn
    <3>3. i # e - 1 /\ i # e - 2
      BY <1>1, <1>9, <1>10, <3>2
    <3> QED BY <1>1, <2>2, <3>1, <3>3
  <2>3. Mjpeg!Start(e) = e - 3
    <3> DEFINE before == {i \in Mjpeg!Places("d8") : i < e}
    <3>1. e - 3 \in before /\ \A i \in before : i <= e - 3 /\ i \in Int
      BY <2>1, <2>2 DEF Mjpeg!Places
    <3>2. ASSUME NEW i \in before, \A j \in before : j <= i PROVE i = e - 3
      <4>1. i <= e - 3 /\ e - 3 <= i /\ i \in Int /\ e - 3 \in Int
        BY <3>1, <3>2
      <4> QED BY <4>1
    <3> HIDE DEF before
    <3>3. (CHOOSE i \in before : \A j \in before : j <= i) = e - 3
      BY <3>1, <3>2
    <3> QED BY <3>1, <3>3 DEF Mjpeg!Start, before
  <2>4. ASSUME NEW p \in 1 .. 5
        PROVE  jpegbuf[(e - 4) + p] = Mjpeg!Token(p, jpegbuf[e - 3].image)
    <3>1. /\ (e - 4) + 1 = e - 3 /\ (e - 4) + 2 = e - 2 /\ (e - 4) + 3 = e - 1
          /\ (e - 4) + 4 = e /\ (e - 4) + 5 = e + 1
      BY <1>1
    <3>2. e >= 2 /\ e >= 3
      BY <1>1, <1>10
    <3>3. jpegbuf[(e - 4) + p] = Mjpeg!Token(p, im)
      <4>1. CASE p = 1
        BY <1>8, <1>10, <3>1, <4>1
      <4>2. CASE p = 2
        BY <1>7, <3>1, <3>2, <4>2
      <4>3. CASE p = 3
        BY <1>6, <3>1, <3>2, <4>3
      <4>4. CASE p = 4
        BY <1>5, <3>1, <4>4
      <4>5. CASE p = 5
        BY <1>4, <3>1, <4>5
      <4> QED BY <4>1, <4>2, <4>3, <4>4, <4>5
    <3> QED BY <1>9, <1>10, <3>3
  <2> QED BY <1>1, <1>2, <1>10, <2>3, <2>4 DEF WholeAt
<1>11. CASE ~(e >= 4)
  <2>1. e \in 1 .. 3
    BY <1>1, <1>11
  <2>2. jpegbuf[1].at = 5 - e /\ jpegbuf[1].image = im
    BY <1>9, <2>1
  <2>3. ASSUME NEW i \in Mjpeg!Places("d8"), i < e PROVE FALSE
    <3>1. i \in 1 .. Len(jpegbuf) - 1
      BY DEF Mjpeg!Places
    <3>2. jpegbuf[i].at = 1
      BY <3>1, BufferInTurn
    <3>3. i = e - 1 \/ i = e - 2
      BY <2>1, <2>3, <3>1
    <3> QED BY <1>9, <2>1, <3>1, <3>2, <3>3
  <2>4. Mjpeg!Start(e) = 0
    BY <2>3 DEF Mjpeg!Start
  <2>5. jpegbuf[e + 1] = Mjpeg!Token(5, jpegbuf[1].image) /\ e <= 3
    BY <1>4, <2>1, <2>2
  <2> QED BY <1>1, <1>2, <2>2, <2>4, <2>5 DEF TornAt
<1> QED BY <1>1, <1>2, <1>10, <1>11

(* Once a first image is cut out, the next end in the buffer is its successor's. *)
LEMMA NextOfAll ==
    ASSUME DumpInv, mjpeg_thread = "scan", NEW e, FirstEnd(e)
    PROVE  /\ WholeAt(e) =>
                LET k == jpegbuf[e - 3].image
                IN  k \in Nat \ {0} /\ written = IF k = 1 THEN <<>> ELSE Mjpeg!Image(k - 1)
           /\ TornAt(e) => dest = <<>> /\ written = <<>> /\ jpegbuf[1].image = 0
<1> DEFINE d == Len(dest)
           f == d + (e - 3)
<1>1. /\ jpegbuf \in Seq(ImageTokens) /\ image_pipe \in Seq(ImageTokens)
      /\ dest \in Seq(ImageTokens)
  BY DestIsTokens DEF DumpInv
<1>2. /\ d \in Nat /\ Len(jpegbuf) \in Nat
      /\ e \in 1 .. Len(jpegbuf) - 1
      /\ \A i \in 2 .. e : jpegbuf[i].at # 5
      /\ \A i \in 1 .. Len(jpegbuf) : jpegbuf[i] \in ImageTokens
  BY <1>1, WindowParts, AtTheEnd, BufferInTurn
<1>3. /\ Len(Window) \in Nat /\ d + Len(jpegbuf) <= Len(Window)
      /\ \A i \in 1 .. Len(jpegbuf) : Window[d + i] = jpegbuf[i]
      /\ \A i \in 1 .. d : Window[i] = dest[i]
  BY <1>1, WindowParts
<1>4. Len(Coming) > 0 /\ Coming[1] = jpegbuf[1]
  BY <1>1, <1>2, WindowParts
<1> HIDE DEF d
<1>5. CASE NothingYet
  <2>1. dest = <<>> /\ d = 0 /\ written = <<>>
    BY <1>5 DEF NothingYet, d
  <2>2. jpegbuf[1] = Mjpeg!Token(1, 1) \/ (jpegbuf[1].image = 0 /\ jpegbuf[1].at # 1)
    <3>1. Coming # <<>>
      BY <1>4
    <3> QED BY <1>4, <2>1, <3>1 DEF DumpInv, FromTheFirst
  <2>3. ASSUME WholeAt(e) PROVE jpegbuf[e - 3].image = 1
    <3>1. e >= 4 /\ jpegbuf[e - 3].at = 1 /\ jpegbuf[e - 3] \in ImageTokens
      <4>1. e >= 4 /\ (e - 4) + 1 = e - 3
        BY <1>2, <2>3 DEF WholeAt
      <4>2. jpegbuf[(e - 4) + 1] = Mjpeg!Token(1, jpegbuf[e - 3].image)
        BY <2>3 DEF WholeAt
      <4>3. e - 3 \in 1 .. Len(jpegbuf)
        BY <1>2, <4>1
      <4> QED BY <1>2, <4>1, <4>2, <4>3 DEF Mjpeg!Token
    <3>2. CASE e = 4
      <4>1. e - 3 = 1
        BY <3>2
      <4> QED BY <2>2, <3>1, <4>1 DEF Mjpeg!Token
    <3>3. CASE e # 4
      <4>1. /\ 1 \in 1 .. Len(Window) /\ e - 3 \in 1 .. Len(Window) /\ 1 < e - 3
            /\ 1 \in 1 .. Len(jpegbuf) /\ e - 3 \in 1 .. Len(jpegbuf)
        BY <1>2, <1>3, <2>1, <3>1, <3>3
      <4>2. \A i \in 1 .. Len(jpegbuf) : Window[i] = jpegbuf[i]
        BY <1>2, <1>3, <2>1
      <4>3. NoEndBetween(Window, 1, e - 3)
        BY <1>2, <4>1, <4>2 DEF NoEndBetween
      <4>4. jpegbuf[e - 3] \in Reach(jpegbuf[1])
        BY <4>1, <4>2, <4>3 DEF DumpInv, InTurn, Reaches
      <4>5. jpegbuf[1] \in ImageTokens
        BY <1>2, <4>1
      <4>6. CASE jpegbuf[1].at \in {0, 5}
        <5>1. jpegbuf[1].image = 0
          BY <2>2, <4>6 DEF Mjpeg!Token
        <5> QED BY <3>1, <4>4, <4>6, <5>1 DEF Reach, Mjpeg!Token
      <4>7. CASE jpegbuf[1].at \notin {0, 5}
        <5>1. PICK p \in jpegbuf[1].at + 1 .. 5 : jpegbuf[e - 3] = Mjpeg!Token(p, jpegbuf[1].image)
          BY <4>4, <4>7 DEF Reach
        <5>2. p > 1
          BY <4>5, <4>7 DEF ImageTokens
        <5> QED BY <3>1, <5>1, <5>2 DEF Mjpeg!Token
      <4> QED BY <4>6, <4>7
    <3> QED BY <3>2, <3>3
  <2>4. ASSUME TornAt(e) PROVE jpegbuf[1].image = 0
    <3>1. jpegbuf[1].at # 1
      BY <1>2, <2>4 DEF TornAt
    <3> QED BY <2>2, <3>1 DEF Mjpeg!Token
  <2> QED BY <2>1, <2>3, <2>4
<1>6. CASE CutOut
  <2>1. PICK k \in Nat \ {0} : dest = Mjpeg!Image(k) /\ written = Mjpeg!Image(k)
    BY <1>6 DEF CutOut
  <2>2. d = 5 /\ Window[5] = Mjpeg!Token(5, k) /\ dest # <<>>
    <3>1. d = 5 /\ dest[5] = Mjpeg!Token(5, k) /\ dest # <<>>
      BY <2>1, ImageParts DEF d
    <3> QED BY <1>3, <3>1
  <2>3. /\ 5 \in 1 .. Len(Window) - 1
        /\ Window[5 + 1] = jpegbuf[1] /\ 1 \in 1 .. Len(jpegbuf)
    BY <1>2, <1>3, <2>2
  <2>4. jpegbuf[1].at \in {0, 1}
    <3>1. jpegbuf[1] \in Mjpeg!After(Mjpeg!Token(5, k))
      BY <2>2, <2>3 DEF DumpInv, InTurn, Adjacent
    <3> QED BY <3>1 DEF Mjpeg!After, Mjpeg!Token
  <2>5. ~TornAt(e)
    BY <1>2, <2>4 DEF TornAt
  <2>6. ASSUME WholeAt(e) PROVE jpegbuf[e - 3].image = k + 1
    <3>1. /\ e >= 4 /\ jpegbuf[e - 3].at = 1
      <4>1. e >= 4 /\ (e - 4) + 1 = e - 3
        BY <1>2, <2>6 DEF WholeAt
      <4>2. jpegbuf[(e - 4) + 1] = Mjpeg!Token(1, jpegbuf[e - 3].image)
        BY <2>6 DEF WholeAt
      <4> QED BY <4>1, <4>2 DEF Mjpeg!Token
    <3>2. /\ 5 \in 1 .. Len(Window) /\ 5 + (e - 3) \in 1 .. Len(Window) /\ 5 < 5 + (e - 3)
          /\ e - 3 \in 1 .. Len(jpegbuf)
          /\ Window[5 + (e - 3)] = jpegbuf[e - 3]
      BY <1>2, <1>3, <2>2, <3>1
    <3>3. ASSUME NEW i \in 5 + 1 .. 5 + (e - 3) - 1 PROVE Window[i].at # 5
      <4>1. i - 5 \in 1 .. e /\ i - 5 \in 1 .. Len(jpegbuf) /\ 5 + (i - 5) = i
        BY <1>2, <3>1, <3>3
      <4>2. Window[i] = jpegbuf[i - 5]
        BY <1>3, <2>2, <4>1
      <4>3. i - 5 = 1 \/ i - 5 \in 2 .. e
        BY <1>2, <4>1
      <4> QED BY <1>2, <2>4, <4>2, <4>3
    <3>4. NoEndBetween(Window, 5, 5 + (e - 3))
      BY <1>2, <3>3 DEF NoEndBetween
    <3>5. jpegbuf[e - 3] \in Reach(Mjpeg!Token(5, k))
      BY <2>2, <3>2, <3>4 DEF DumpInv, InTurn, Reaches
    <3> QED BY <3>1, <3>5 DEF Reach, Mjpeg!Token
  <2>7. k + 1 \in Nat \ {0} /\ k + 1 # 1 /\ (k + 1) - 1 = k
    BY <2>1
  <2> QED BY <2>1, <2>5, <2>6, <2>7
<1> QED BY <1>5, <1>6 DEF DumpInv, ImagesOK

LEMMA DumpCut ==
    ASSUME DumpInv, Mjpeg!Scan, NEW e \in Mjpeg!Places("d9"), Mjpeg!CutAt(e)
    PROVE  DumpInv'
<1> DEFINE d == Len(dest)
           l == Len(Coming)
           b == Len(jpegbuf)
<1>1. /\ mjpeg_thread = "scan" /\ FirstEnd(e)
      /\ jpegbuf' = SubSeq(jpegbuf, e + 2, b)
      /\ UNCHANGED <<sent, image_pipe, written>>
      /\ IF Mjpeg!Start(e) = 0
         THEN mjpeg_thread' = "read" /\ dest' = dest
         ELSE mjpeg_thread' = "write" /\ dest' = SubSeq(jpegbuf, Mjpeg!Start(e), e + 1)
  BY DEF Mjpeg!Scan, Mjpeg!CutAt, Mjpeg!MoveDown, FirstEnd
<1>2. /\ jpegbuf \in Seq(ImageTokens) /\ image_pipe \in Seq(ImageTokens)
      /\ dest \in Seq(ImageTokens) /\ InTurn(Window)
  BY DestIsTokens DEF DumpInv
<1>3. e \in 1 .. b - 1 /\ b \in Nat /\ b <= BUFSIZE /\ BUFSIZE \in Nat
      /\ (WholeAt(e) \/ TornAt(e))
  BY <1>1, <1>2, AtTheEnd, InputAssumption DEF DumpInv
<1>4. /\ jpegbuf' \in Seq(ImageTokens) /\ Len(jpegbuf') = b - (e + 1)
      /\ \A i \in 1 .. b - (e + 1) : jpegbuf'[i] = jpegbuf[(e + 1) + i]
  <2>1. /\ SubSeq(jpegbuf, e + 2, b) \in Seq(ImageTokens)
        /\ Len(SubSeq(jpegbuf, e + 2, b)) = b - (e + 1)
        /\ \A i \in 1 .. b - (e + 1) :
              SubSeq(jpegbuf, e + 2, b)[i] = jpegbuf[(e + 1) + i]
    BY <1>2, <1>3
  <2> QED BY <1>1, <2>1
<1>5. /\ Coming \in Seq(ImageTokens) /\ Window \in Seq(ImageTokens)
      /\ l = b + Len(image_pipe) /\ Len(Window) = d + l
      /\ d \in Nat /\ Len(image_pipe) \in Nat /\ l \in Nat
      /\ \A i \in 1 .. b : Coming[i] = jpegbuf[i]
      /\ \A i \in 1 .. Len(image_pipe) : Coming[b + i] = image_pipe[i]
      /\ \A i \in 1 .. d : Window[i] = dest[i]
      /\ \A i \in 1 .. l : Window[d + i] = Coming[i]
  BY <1>2, WindowParts
<1>6. /\ Coming' \in Seq(ImageTokens) /\ Len(Coming') = l - (e + 1)
      /\ \A i \in 1 .. l - (e + 1) : Coming'[i] = Coming[(e + 1) + i]
  <2>1. /\ Coming' \in Seq(ImageTokens)
        /\ Len(Coming') = (b - (e + 1)) + Len(image_pipe)
        /\ \A i \in 1 .. b - (e + 1) : Coming'[i] = jpegbuf'[i]
        /\ \A i \in 1 .. Len(image_pipe) : Coming'[(b - (e + 1)) + i] = image_pipe[i]
    BY <1>1, <1>2, <1>4, Joined DEF Coming
  <2>2. (b - (e + 1)) + Len(image_pipe) = l - (e + 1)
    BY <1>3, <1>5
  <2>3. ASSUME NEW i \in 1 .. l - (e + 1) PROVE Coming'[i] = Coming[(e + 1) + i]
    <3>1. CASE i <= b - (e + 1)
      <4>1. i \in 1 .. b - (e + 1) /\ (e + 1) + i \in 1 .. b
        BY <1>3, <1>5, <3>1
      <4> QED BY <1>4, <1>5, <2>1, <4>1
    <3>2. CASE ~(i <= b - (e + 1))
      <4> DEFINE j == i - (b - (e + 1))
      <4>1. j \in 1 .. Len(image_pipe) /\ (b - (e + 1)) + j = i /\ b + j = (e + 1) + i
        BY <1>3, <1>5, <3>2
      <4> HIDE DEF j
      <4>2. Coming'[i] = image_pipe[j]
        BY <2>1, <4>1
      <4>3. Coming[(e + 1) + i] = image_pipe[j]
        BY <1>5, <4>1
      <4> QED BY <4>2, <4>3
    <3> QED BY <3>1, <3>2
  <2> QED BY <2>1, <2>2, <2>3
<1>7. sent \in ImageTokens /\ Len(Window) > 0 /\ sent = Window[Len(Window)]
  <2>1. Len(Window) > 0 /\ Window # <<>>
    BY <1>3, <1>5
  <2> QED BY <2>1 DEF DumpInv, SentLast
<1> HIDE DEF d, l, b
<1>10. /\ e \in Nat /\ e >= 1 /\ e < b /\ b \in Nat /\ l \in Nat /\ d \in Nat
       /\ Len(image_pipe) \in Nat /\ l = b + Len(image_pipe) /\ Len(Window) = d + l
  BY <1>3, <1>5
<1>8. CASE WholeAt(e)
  <2> DEFINE k == jpegbuf[e - 3].image
             m == d + (e - 3)
  <2>1. /\ e >= 4 /\ Mjpeg!Start(e) = e - 3
        /\ \A p \in 1 .. 5 : jpegbuf[(e - 4) + p] = Mjpeg!Token(p, k)
    BY <1>8 DEF WholeAt
  <2>2. k \in Nat \ {0} /\ written = IF k = 1 THEN <<>> ELSE Mjpeg!Image(k - 1)
    BY <1>1, <1>8, NextOfAll
  <2> HIDE DEF k
  <2>3. mjpeg_thread' = "write" /\ dest' = SubSeq(jpegbuf, e - 3, e + 1)
    <3>1. Mjpeg!Start(e) # 0
      BY <1>3, <2>1
    <3> QED BY <1>1, <2>1, <3>1
  <2>4. /\ dest' \in Seq(ImageTokens) /\ Len(dest') = 5
        /\ \A p \in 1 .. 5 : dest'[p] = jpegbuf[(e - 4) + p]
    <3>1. /\ SubSeq(jpegbuf, e - 3, e + 1) \in Seq(ImageTokens)
          /\ Len(SubSeq(jpegbuf, e - 3, e + 1)) = 5
          /\ \A p \in 1 .. 5 :
                SubSeq(jpegbuf, e - 3, e + 1)[p] = jpegbuf[(e - 4) + p]
      BY <1>2, <1>3, <2>1 DEF b
    <3> QED BY <2>3, <3>1
  <2>5. dest' = Mjpeg!Image(k)
    <3>1. Mjpeg!Image(k) \in Seq(ImageTokens) /\ Len(Mjpeg!Image(k)) = 5
          /\ \A p \in 1 .. 5 : Mjpeg!Image(k)[p] = Mjpeg!Token(p, k)
      BY <2>2, ImageParts
    <3>2. \A p \in 1 .. 5 : dest'[p] = Mjpeg!Image(k)[p]
      BY <2>1, <2>4, <3>1
    <3> QED BY <2>4, <3>1, <3>2
  <2>6. ImagesOK'
    BY <1>1, <2>2, <2>3, <2>5 DEF ImagesOK, CutOut
  <2>7. /\ m \in 1 .. Len(Window) + 1 /\ m \in Nat
        /\ Len(Window) - m + 1 = 5 + (l - (e + 1))
    <3>1. e >= 4
      BY <2>1
    <3> QED BY <1>10, <3>1
  <2>8. /\ Window' \in Seq(ImageTokens) /\ Len(Window') = 5 + (l - (e + 1))
        /\ \A i \in 1 .. 5 : Window'[i] = dest'[i]
        /\ \A i \in 1 .. l - (e + 1) : Window'[5 + i] = Coming'[i]
    <3>1. Window' = dest' \o Coming'
      BY DEF Window
    <3>2. /\ dest' \o Coming' \in Seq(ImageTokens)
          /\ Len(dest' \o Coming') = Len(dest') + Len(Coming')
          /\ \A i \in 1 .. Len(dest') : (dest' \o Coming')[i] = dest'[i]
          /\ \A i \in 1 .. Len(Coming') : (dest' \o Coming')[Len(dest') + i] = Coming'[i]
      BY <1>6, <2>4, Joined
    <3> QED BY <1>6, <2>4, <3>1, <3>2
  <2>9. ASSUME NEW i \in 1 .. 5 + (l - (e + 1)) PROVE Window'[i] = Window[i + m - 1]
    <3>1. CASE i <= 5
      <4>1. /\ i \in 1 .. 5 /\ (e - 4) + i \in 1 .. b /\ (e - 4) + i \in 1 .. l
            /\ d + ((e - 4) + i) = i + m - 1
        <5>1. e >= 4
          BY <2>1
        <5> QED BY <1>10, <3>1, <5>1
      <4> HIDE DEF m
      <4> QED BY <1>5, <2>4, <2>8, <4>1
    <3>2. CASE ~(i <= 5)
      <4>1. /\ i - 5 \in 1 .. l - (e + 1) /\ 5 + (i - 5) = i
            /\ (e + 1) + (i - 5) \in 1 .. l
            /\ d + ((e + 1) + (i - 5)) = i + m - 1
        <5>1. e >= 4
          BY <2>1
        <5> QED BY <1>10, <3>2, <5>1
      <4> HIDE DEF m
      <4>2. Window'[i] = Coming'[i - 5]
        BY <2>8, <4>1
      <4>3. Coming'[i - 5] = Coming[(e + 1) + (i - 5)]
        BY <1>6, <4>1
      <4>4. Window[i + m - 1] = Coming[(e + 1) + (i - 5)]
        BY <1>5, <4>1
      <4> QED BY <4>2, <4>3, <4>4
    <3> QED BY <3>1, <3>2
  <2> HIDE DEF m
  <2>10. Window' = SubSeq(Window, m, Len(Window))
    <3>1. /\ SubSeq(Window, m, Len(Window)) \in Seq(ImageTokens)
          /\ Len(SubSeq(Window, m, Len(Window))) = Len(Window) - m + 1
          /\ \A i \in 1 .. Len(Window) - m + 1 :
                SubSeq(Window, m, Len(Window))[i] = Window[i + m - 1]
      BY <1>5, <2>7
    <3> DEFINE t == SubSeq(Window, m, Len(Window))
               n == 5 + (l - (e + 1))
    <3>2. t \in Seq(ImageTokens) /\ Len(t) = n /\ \A i \in 1 .. n : t[i] = Window'[i]
      BY <2>7, <2>9, <3>1
    <3>3. Window' \in Seq(ImageTokens) /\ Len(Window') = n
      BY <2>8
    <3> HIDE DEF t, n
    <3>4. Window' = t
      BY <3>2, <3>3
    <3> QED BY <3>4 DEF t
  <2>11. InTurn(Window')
    BY <1>2, <2>7, <2>10, TurnSuffix
  <2>12. SentLast'
    <3>1. Len(Window') \in 1 .. 5 + (l - (e + 1)) /\ Len(Window') + m - 1 = Len(Window)
      BY <1>3, <1>5, <2>1, <2>7, <2>8
    <3>2. Window'[Len(Window')] = Window[Len(Window)]
      BY <2>8, <2>9, <3>1
    <3> QED BY <1>1, <1>7, <3>2 DEF SentLast
  <2>13. FromTheFirst'
    BY <2>4 DEF FromTheFirst
  <2>14. Len(jpegbuf') <= BUFSIZE
    BY <1>3, <1>4
  <2> QED BY <1>1, <1>2, <1>4, <2>6, <2>11, <2>12, <2>13, <2>14 DEF DumpInv
<1>9. CASE TornAt(e)
  <2>1. /\ dest = <<>> /\ written = <<>> /\ jpegbuf[1].image = 0
        /\ Mjpeg!Start(e) = 0 /\ jpegbuf[e + 1] = Mjpeg!Token(5, 0)
    <3>1. dest = <<>> /\ written = <<>> /\ jpegbuf[1].image = 0
      BY <1>1, <1>9, NextOfAll
    <3> QED BY <1>9, <3>1 DEF TornAt
  <2>2. mjpeg_thread' = "read" /\ dest' = <<>> /\ written' = <<>>
    BY <1>1, <2>1
  <2>3. Window = Coming /\ Window' = Coming'
    BY <1>5, <1>6, <2>1, <2>2 DEF Window
  <2>4. ImagesOK'
    BY <2>2 DEF ImagesOK, NothingYet
  <2>5. e + 2 \in 1 .. l + 1
    BY <1>3, <1>5
  <2>6. Coming' = SubSeq(Coming, e + 2, l)
    <3>1. /\ SubSeq(Coming, e + 2, l) \in Seq(ImageTokens)
          /\ Len(SubSeq(Coming, e + 2, l)) = l - (e + 1)
          /\ \A i \in 1 .. l - (e + 1) :
                SubSeq(Coming, e + 2, l)[i] = Coming[(e + 1) + i]
      <4>1. /\ l = Len(Coming) /\ Coming \in Seq(ImageTokens)
            /\ l - (e + 2) + 1 = l - (e + 1)
            /\ \A i \in 1 .. l - (e + 1) : (e + 2) + i - 1 = (e + 1) + i
        BY <1>5, <1>10 DEF l
      <4> QED BY <1>10, <2>5, <4>1
    <3> DEFINE t == SubSeq(Coming, e + 2, l)
               n == l - (e + 1)
    <3>2. t \in Seq(ImageTokens) /\ Len(t) = n /\ \A i \in 1 .. n : t[i] = Coming'[i]
      BY <1>6, <3>1
    <3>3. Coming' \in Seq(ImageTokens) /\ Len(Coming') = n
      BY <1>6
    <3> HIDE DEF t, n
    <3>4. Coming' = t
      BY <3>2, <3>3
    <3> QED BY <3>4 DEF t
  <2>7. InTurn(Window')
    BY <1>2, <2>3, <2>5, <2>6, TurnSuffix DEF l
  <2>8. /\ e + 1 \in 1 .. b /\ e + 1 \in 1 .. l
        /\ Coming[e + 1] = Mjpeg!Token(5, 0) /\ sent = Coming[l]
    <3>1. e + 1 \in 1 .. b /\ e + 1 \in 1 .. l
      BY <1>3, <1>5
    <3> QED BY <1>5, <1>7, <2>1, <2>3, <3>1 DEF l
  <2>9. SentLast'
    <3> SUFFICES ASSUME Coming' # <<>> PROVE sent = Coming'[Len(Coming')]
      BY <1>1, <1>7, <2>3 DEF SentLast
    <3>1. Len(Coming') \in 1 .. l - (e + 1) /\ (e + 1) + Len(Coming') = l
      BY <1>3, <1>5, <1>6
    <3> QED BY <1>6, <2>8, <3>1
  <2>10. FromTheFirst'
    <3>1. CASE Coming' = <<>>
      <4>1. l = e + 1
        BY <1>3, <1>5, <1>6, <3>1
      <4>2. sent = Mjpeg!Token(5, 0)
        BY <2>8, <4>1
      <4> QED BY <1>1, <3>1, <4>2 DEF FromTheFirst, Mjpeg!Token
    <3>2. CASE Coming' # <<>>
      <4>1. 1 \in 1 .. l - (e + 1) /\ e + 1 \in 1 .. l - 1
        BY <1>3, <1>5, <1>6, <3>2
      <4>2. Coming'[1] = Coming[(e + 1) + 1]
        BY <1>6, <4>1
      <4>3. Coming[(e + 1) + 1] \in Mjpeg!After(Coming[e + 1])
        BY <1>2, <2>3, <4>1 DEF InTurn, Adjacent, l
      <4>4. Coming'[1] \in {Mjpeg!Token(0, 0), Mjpeg!Token(1, 1)}
        BY <2>8, <4>2, <4>3 DEF Mjpeg!After, Mjpeg!Token
      <4> QED BY <3>2, <4>4 DEF FromTheFirst, Mjpeg!Token
    <3> QED BY <3>1, <3>2
  <2>11. Len(jpegbuf') <= BUFSIZE
    BY <1>3, <1>4
  <2> QED BY <1>1, <1>2, <1>4, <2>4, <2>7, <2>9, <2>10, <2>11 DEF DumpInv
<1> QED BY <1>3, <1>8, <1>9

IdleBefore == mjpeg = "new" => mjpeg_thread = "none"

LEMMA IdleNext == IdleBefore /\ [MCNext]_allVars => IdleBefore'
<1> SUFFICES ASSUME IdleBefore, [MCNext]_allVars PROVE IdleBefore'
  OBVIOUS
<1>1. UNCHANGED mjpegVars \/ Mjpeg!Next
  BY DEF MCNext, allVars
<1>2. CASE UNCHANGED mjpegVars
  BY <1>2 DEF mjpegVars, IdleBefore
<1>3. CASE Mjpeg!Sends \/ Mjpeg!trigger \/ Mjpeg!DumpEnds \/ Mjpeg!Destruct
  BY <1>3 DEF IdleBefore, Mjpeg!Sends, Mjpeg!trigger, Mjpeg!DumpEnds, Mjpeg!Destruct
<1>4. CASE Mjpeg!Construct
  BY <1>4 DEF IdleBefore, Mjpeg!Construct
<1>5. CASE Mjpeg!ReadMore \/ Mjpeg!Scan \/ Mjpeg!WriteFrame
  <2>1. mjpeg_thread # "none" /\ mjpeg' = mjpeg
    BY <1>5 DEF Mjpeg!ReadMore, Mjpeg!Scan, Mjpeg!WriteFrame
  <2> QED BY <2>1 DEF IdleBefore
<1> QED BY <1>1, <1>2, <1>3, <1>4, <1>5 DEF Mjpeg!Next

LEMMA DumpNext == DumpInv /\ IdleBefore /\ [MCNext]_allVars => DumpInv'
<1> SUFFICES ASSUME DumpInv, IdleBefore, [MCNext]_allVars PROVE DumpInv'
  OBVIOUS
<1>1. UNCHANGED mjpegVars \/ Mjpeg!Next
  BY DEF MCNext, allVars
<1>2. CASE UNCHANGED mjpegVars
  BY <1>2, DumpRests DEF mjpegVars
<1>3. CASE Mjpeg!Sends
  BY <1>3, DumpSends
<1>4. CASE Mjpeg!trigger \/ Mjpeg!DumpEnds \/ Mjpeg!Destruct
  <2>1. UNCHANGED <<sent, image_pipe, mjpeg_thread, jpegbuf, dest, written>>
    BY <1>4 DEF Mjpeg!trigger, Mjpeg!DumpEnds, Mjpeg!Destruct
  <2> QED BY <2>1, DumpRests
<1>5. CASE Mjpeg!Construct
  <2>1. /\ UNCHANGED <<sent, image_pipe, jpegbuf, dest, written>>
        /\ mjpeg_thread # "write" /\ mjpeg_thread' # "write"
    BY <1>5 DEF Mjpeg!Construct, IdleBefore
  <2> QED BY <2>1, DumpRests
<1>6. CASE Mjpeg!ReadMore
  <2>1. CASE Mjpeg!Read
    BY <1>6, <2>1, DumpRead
  <2>2. CASE Mjpeg!EndOfFile \/ Mjpeg!ReadError
    <3>1. /\ UNCHANGED <<sent, image_pipe, jpegbuf, dest, written>>
          /\ mjpeg_thread # "write" /\ mjpeg_thread' # "write"
      BY <1>6, <2>2 DEF Mjpeg!ReadMore, Mjpeg!EndOfFile, Mjpeg!ReadError
    <3> QED BY <3>1, DumpRests
  <2> QED BY <1>6, <2>1, <2>2 DEF Mjpeg!ReadMore
<1>7. CASE Mjpeg!Scan
  <2>1. CASE Mjpeg!NoEnd
    <3>1. /\ UNCHANGED <<sent, image_pipe, jpegbuf, dest, written>>
          /\ mjpeg_thread # "write" /\ mjpeg_thread' # "write"
      BY <1>7, <2>1 DEF Mjpeg!Scan, Mjpeg!NoEnd
    <3> QED BY <3>1, DumpRests
  <2> QED BY <1>7, <2>1, DumpCut DEF Mjpeg!Scan
<1>8. CASE Mjpeg!WriteFrame
  <2>1. /\ UNCHANGED <<sent, image_pipe, jpegbuf, dest>>
        /\ mjpeg_thread = "write" /\ mjpeg_thread' # "write" /\ written' = dest
    BY <1>8 DEF Mjpeg!WriteFrame
  <2> QED BY <2>1, DumpRests
<1> QED BY <1>1, <1>2, <1>3, <1>4, <1>5, <1>6, <1>7, <1>8 DEF Mjpeg!Next

LEMMA RecordedNext ==
    ASSUME DumpInv, mjpeg_thread = "write"
    PROVE  Mjpeg!Follows(written, dest)
<1>1. PICK k \in Nat \ {0} :
         /\ dest = Mjpeg!Image(k)
         /\ written = IF k = 1 THEN <<>> ELSE Mjpeg!Image(k - 1)
  BY DEF DumpInv, ImagesOK, NothingYet, CutOut
<1>2. dest[1].image = k
  BY <1>1 DEF Mjpeg!Image, Mjpeg!Token
<1> QED BY <1>1, <1>2 DEF Mjpeg!Follows

(* The triggered ingest records every image once and whole, in the order   *)
(* of the dumps from the first one on, for every size of its buffer and of *)
(* the kernel's pipe (replay_mjpeg_ingest.cpp:122-181).                    *)
THEOREM EveryImageRecorded == MCSpec => ImagesRecordedInOrder
<1>1. MCInit => IdleBefore
  BY DEF MCInit, OnlyRuns, Mjpeg!Init, Mjpeg!Absent, Mjpeg!Rest, IdleBefore
<1>2. DumpInv /\ [MCNext]_allVars =>
        [mjpeg_thread = "write" /\ mjpeg_thread' = "read"
            => Mjpeg!Follows(written, dest)]_(Mjpeg!vars)
  BY RecordedNext
<1> QED BY <1>1, <1>2, DumpInit, DumpNext, IdleNext, PTL
        DEF MCSpec, ImagesRecordedInOrder, Mjpeg!ImagesRecordedInOrder
==============================================================================
