# Verification of exacore

exacore is a slow-motion replay server and a multi-channel keyer for live
video: C++ threads that move pictures and sound between cards, files, pipes and
child processes, driven by Ruby through SWIG and by pages in a browser. This
directory holds TLA+ models of its concurrent core, the TLC runs that check
them and TLAPS proofs about them. `PROJECT.json` lists components, runs,
theorems, hazards, and the source lines behind every definition.

## How to run it

    tlc -config Transport.cfg MCTransport  # any run: its cfg and its module
    tlapm PipeProofs.tla                   # any proof module

## The system's parts

| Part | State it keeps | Operations | Hard behaviour |
|---|---|---|---|
| `thread/pipe.h` `Pipe` | ring of pointers, two indices, two "done" flags, one mutex, two conditions | put, get, done_reading, done_writing, can_put, data_ready | lost wakeups, closing one end while the other sleeps, polling and then acting |
| `ipc/shm_double_buffer` | page of state, two pictures, semaphore, all shared between processes | begin/end_write, begin/end_read | the copy runs outside the semaphore; the child dies anywhere |
| `replay/replay_buffer`, `replay_buffer_index`, `common/block_set` | one growing file and one index per camera | write_frame, read_frame, make_shot, align_shot | lock-free readers, crashes, no truncation |
| `replay/replay_playout` | active source, slots for the next source and speed, idle picture | roll, stop, set_speed, one frame per round | raw pointers owned by two threads; two bounded output pipes |
| the sources it plays: a shot, a file, a subprocess | rational position, cached frame, FIFO of sound; decoder queues; child, pipes and readers | read_frame, seek, teardown | accumulated rounding, cadences of sound, readers blocked at teardown |
| `replay/replay_preview`, `common/async_port.h`, `replay_multiviewer`, `rollout_preview` | a shot (or file) and a position; a port of one picture | change_shot, seek, mark_in, mark_out; load_file; put, get | positions without a frame, corrections that race with edits, pictures freed while drawn |
| `replay/replay_ingest`, `replay_mjpeg_ingest`, `replay_audio_ingest` | pipes of pictures and sound, a receive buffer, a FIFO of samples | suspend/resume, trigger, teardown | drops that shift sound against pictures, images cut anywhere |
| inputs in `drivers/` | counters of what was dropped, mapped buffers, a parse buffer | card callbacks, polling, reconnecting | a callback in two halves, buffers shared with a driver, units cut anywhere |
| `drivers/decklink` output | pipes, the last picture, sound owed | card callbacks | a counter changed by two threads, start-up by busy wait |
| `avspipe/avpinput_decklink` | two senders, a child | preroll, filter, write, preview | the child waits for the stream that is dropped |
| `keyer/` | layers, levels, generators, clean and dirty outputs | one output loop; HTTP requests; fades | polled generators, level and picture that travel separately |
| `replay/*.rb`, `replay/public_html`, `input/` | event list, preview source, shuttle; lists in browsers | buttons, wheel, web requests | several operators on one preview and one program |
| `raw_frame/`, `mjpeg/`, `graphics/`, `display_surface/` | none beyond a call | pixels | arithmetic in bytes and 16 bits |

How they meet: an input adapter's thread or callback puts pictures and sound on
two `Pipe`s; an ingest thread takes one of each, writes a record to its
`ReplayBuffer` and a small picture to an `AsyncPort`. The operator's thread
(Ruby holds its lock during every call, so there is one) edits the shot of
`ReplayPreview`, whose thread reads the buffer and puts pictures on another
port, and hands sources and speeds to `ReplayPlayout`, whose thread reads the
buffers through its active source and feeds the output adapter through two
more `Pipe`s. The multiviewer's thread draws what the ports hold. The keyer
has one loop between an input adapter, character generators (threads with child
processes behind them, one kind through `ShmDoubleBuffer`) and its outputs. An
exception that leaves a thread ends the program.

## The modules

**Between threads.** `Channel` is the abstract specification of a pipe: a
bounded FIFO whose two ends can be closed. `Pipe` models `PipeLocked` at the
granularity of its mutex: what a thread does between two waits is one action.
`pc` says where a thread is in put or get, the two wait sets who sleeps on which
condition; `Condition::signal` wakes any one of them, and a woken thread
competes for the mutex again. `polled` remembers that can_put or data_ready said
yes. `ShmDoubleBuffer` has a producer process and a consumer thread around the
semaphore; taking it, working and posting it are three steps each, so that
`ProducerDies` can come between any two. A picture is written and copied in two
halves, each stamped with its number. `AsyncPort` is the one-place port with its
two exchanges and two deletes as separate steps.

**Recording.** `ReplayBufferIndex` is the index as a value with its lookups, and
`ReplayBuffer` the writer, the file, a reader, alignment, restart and the
converter, which walks a file record by record. The reader, the converter and each
call of the binary search are steps between which the ingest goes on.
`RecordFormat` is one record byte by byte: headers, blocks, the serialized sound
and how `read_frame` and the converter to sound find them again. In `ReplayBuffer`
a file is an array of cells; a record is a header cell, which knows the record's
length, and data cells. Headers, data, the index entry and its publication are
separate steps. `Restart` is a crash at any point, an exception out of write_all
or mark_frame included, followed by a run of the program that starts at offset 0
of the old file.

**Program and preview.** `ReplayPlayout` has the operator's thread (`set_source`
is the exchange, then the delete of what it displaced), the playout thread (one
action per step of `run_thread` that another thread can observe) and the
output. A source is a list of clip lengths there. `ReplayPreview` extends
`AsyncPort` with the shot, the preview thread, its locked sections, the
multiviewer and recordings that grow. `Overlays` is what the multiviewer draws on
a picture: the scopes, the names, the timecode, the text of a font.

**What a source does inside.** `ReplayBufferSource` plays a shot: two fields at
rational positions (`Rational`, with the code's reductions), the cache of one
frame, then a packet of sound from samples analysed in hops of 128, while
recording goes on. `LavfSource` plays a file: packets are decoded in the file's
order until there is a picture and the sound of one. `AvspipeSource` plays what
a child writes: kernel pipes, two reader threads, two `Pipe`s (counted), the
playout thread, the destructor. `AvspipeAllocator` has the cadence of 1602 and
1601 samples all three use.

**Inputs.** `Capture` has the DeckLink callback in two halves, because the ingest
runs between them, with what is dropped and what is owed; the polling V4L2
adapter; and the ingest thread with its two gets. `adapter` is chosen once: with
sound, without, sound only, or V4L2. Pictures are numbered as they are put, and a
packet carries the number of the last one. The two pipes are plain bounded
sequences, which is what `PipeImplementsChannel` allows. `Deliveries` says what a
callback may bring: for an adapter that uses both, a picture and its sound
together. `AvpInput` puts avpinput_decklink behind the same adapter. `V4L2Input`
is the inside of the analog input: buffers between the driver and the thread, a
field at a time (`Upscale` has its arithmetic). `H264Tcp` is the network input, byte by byte: the peer sends units behind
start codes of three or four bytes, a read returns any piece of them, and
`is_nal_start` and `nal_type` look at the bytes at the offsets where the code does, so
a code of four bytes is found twice. How much of the buffer came over an earlier
connection is remembered (`stale`), since nothing clears it. `MjpegIngest` scans
tokens, which a child puts one by one into the kernel's pipe; a token knows its place
and its image, the code sees `Byte` of it. `CommandLine` is parse_command, which puts
descriptor numbers into a child's command.

**Output and keyer.** `DecklinkOutput` is the playing card with its two
callbacks; `Keyer` extends it with the output loop, the generators' threads and
child processes, and the operator. Reading and writing `audio_adjust` are two
steps on both sides. It assumes, as a matter of 33 ms against microseconds, that
at most one picture is completed during one loop of the sound callback.
`AlphaKey` is the arithmetic of drawing an overlay.

**Operators.** `ReplayControl` has the panel with its event list and the
server's commands from other operators; `ReplayBrowser` one browser's list and
its marks in a shot; `RolloutPreview`, which extends `LavfSource`, the cue
screen.

`MC...` modules give the constants small values. `MCTransport`, `MCReplay`,
`MCCapture` and `MCControl` hold several independent systems, one of which runs in a
behaviour (the others rest; `Absent` states the ones whose fairness would ask for
steps): this keeps one run for one place in the system. `MCTransport` and `MCReplay`
also state the fairness of what they hold, each under the condition that it runs. `...Proofs` hold the
theorems. `RecordFormat`, `Overlays`, `Rational`, `AlphaKey`, `Upscale`,
`CommandLine` and the dials of `ReplayControl` are pure: named ASSUMEs compare
them with a reference definition over bounded inputs, and TLC evaluates them on
the runs `buffer`, `replay`, `control`, `keyer` and `capture`. `RecordFormat`
records two frames with every combination of thumbnail and sound and asks for
every set of parts: what is read is what was written (an `AppendableBuffer` that
outgrew its 64 bytes would be read at its old address; name and numbers of a
packet take 46), and the index, the file and the converters agree where a record
ends. No file this program writes has the block that `replay_buffer_to_audio`
turns into sound.

## The runs

| Run | Bounds | What it shows |
|---|---|---|
| transport | a pipe: ring of 4, one thread per end, 2 objects; or the double buffer: 4 pictures, 2 tries | FIFO refinement, no lost wakeup, polls keep their word, every call returns. Four slots are enough for every relation of the two indices; objects are never compared, two show reordering. Of the double buffer: no torn picture, exact flip report, order, nothing completed is lost. Four pictures use each buffer twice on either side of a flip; the number of tries only bounds a loop that is the same every time. |
| buffer | either 1 camera, lengths 2 and 3, 3 index entries, 8 cells, 3 runs of the program; or 2 cameras of 4 frames, clock to 4 | published records are whole on the file for readers and converters: records of a later run end inside those of an earlier one, the disk fills in mid-record, the index fills; a converter meets all this while recording goes on. Between the ends of the index, which grows meanwhile, the binary search ends at the last frame not newer than the stamp: four frames reach each branch with equal and distinct stamps. The two cameras are symmetric. |
| align_ends, align_equal | 2 cameras, 3 frames | violations, see below |
| replay | playout: 3 sources of one clip or a queue of three with an empty one, pipes of 2, 1 speed; or preview: 2 cameras of 2 frames, 3 commands, 6 pictures | ownership, order, sound with picture, speed before roll, still picture, commands take effect; three sources fill slot, active and operator at once. Port ownership and order, no lost update, the preview settles; seeks of -2, 1 and 3 overshoot both ends. |
| playout_stop | 2 sources, impatient operator | violation, see below |
| capture | rings of 3 slots (two places), 7 pictures | Sound one picture off at most, no starvation; the child of avpinput is fed, and the stream it waits for is never the one dropped (1 packet in the kernel's pipe, preroll of 1, 5 pictures; it reads ahead by one). V4L2 with 2 buffers, 2 places, 5 pictures: the driver laps the thread, pictures are dropped on both sides. H264 with a buffer of 15 bytes, reads of up to 3, units of 5 and 6 bytes: two units and the start of a third in the buffer, both kinds of start codes, a buffer that fills up, reads and reconnections inside every unit. M-JPEG with 11 tokens, 5 in the kernel's pipe, 4 images: two images of five in the buffer, every split of a marker, a buffer that fills up. |
| capture_chunks | the same | violation, see below |
| keyer | three programs (sound; two cards and a child that chooses its level; a script), pipes of one place, preroll of 1, debt up to 2, dissolves over 0 and 2 pictures, levels 0 and 1 | the debt of silence never wraps, level and overlay are one apart at most, every picture goes out, every dissolve ends |
| keyer_levels | the same | violation, see below |
| control | 2 events, 2 cameras, 2 clicks; 8 pictures with 13 packets of 1024 samples; 3 loads; child ahead by 3, pipes of 1; 4 to 6 frames recorded, 4 read, 5 speeds, 2 changes | the local operator hears the camera he rolls; shots are played field by field at the exact position, with their sound; a file's sound keeps step; lists and the cue screen catch up; the playout thread and the child never wait for one another at different pipes, and the subprocess source always returns (a child ahead by 4 breaks the former) |
| control_queue | the same | violation, see below |

Some constants mean: `Leftover`, what the card may leave in its FIFO; `MaxAdjust`,
the packets of silence owed after which no further picture is repeated; `Levels`,
the dirty levels an operator chooses, kept below the number of outputs;
`MaxRead`, the frames read of a shot. The speeds of `control` are five of the
thirteen of the shuttle: slow, 1, faster, a denominator that does not divide the
next one's.

Deadlock is checked in `replay` and `playout_stop`. In the others
the model really stops: the threads of a pipe leave, the consumer waits for
ever on a semaphore a dead child holds, bounded clocks, disks and pictures run
out, the process ends, sources are deleted.

What the runs show beyond their properties:

* `drop_audio` balances every dropped picture, also when `started` is set
  between the two halves of a callback. The packet dropped because the sound
  pipe alone is full (`decklink.cpp:804-807`) is not balanced: every later
  picture is recorded with the next picture's sound. It happens once at most.
* avpinput feeds its child only while the child reads less far ahead than half
  the pipe: 2 * AvpLead + 1 <= IN_PIPE_SIZE. With compression, `-f` prerolls
  sound and no pictures, which shifts the one against the other for good.
* A subprocess source needs the child to write at most Slots + 2 pictures before
  their sound; the destructor may wait for a child of a later rollout.
* The prerolled pictures are counted as silence owed (`decklink.cpp:624`) although
  the sound of the preroll was silence already.
* A shot's sound has no error that grows with time: at a change of speed what is
  left in the FIFO moves it by less than a hop at the highest speed. With the
  answer of `align_ends` at an end of the sound's index the shot ends at once.
* An exception of the playout thread that is not a missing frame ends the
  program; so does a source that does not open or decode. The operator's panel
  rescues `Exception`, which loses the reset of the shift key.
* In drawing, a transparent pixel has alpha 1 (the background moves by one at
  most), a composite of two transparent pixels divides zero by zero, keying in
  pairs writes a pixel past an odd space, and a width from an origin outside the
  picture wraps in 16 bits (`CutToBoth` and `WrapsOutside`). The routines modelled are the
  ones in C++, not those for vector instructions.

### Fairness

A thread that can run does run (weak fairness for the steps of one thread): the
programs' threads are ordinary or real-time threads of one process, none of
which is ever suspended on purpose. In `Pipe` a consumer comes back for the next
object until it leaves, as its loop does; no producer has to produce, nobody
has to close an end, and spurious wakeups are never relied on. A semaphore that
is released again and again is taken by whoever waits for it (strong fairness
on taking it: Linux wakes a waiter). `ReplayPlayout`, `Keyer` and `AvpInput`
assume that cards go on calling back. `AvspipeSource` and `AvpInput` assume of a
child only that it goes on to write, or read, one stream or the other until it
ends; `Keyer` that an http_keyer answers. `ReplayBrowser` assumes the timer, a
server that answers and a browser that handles the answer, in any order.
`H264Tcp` assumes of the peer no progress, only that a payload does not look like
a start code, as the standard has it. The operators, the cameras and
the drivers owe nothing.

### Six disagreements

* **align_ends**: `find_timecode` answers a stamp at or beyond an end of the
  index with the end's *timestamp*, where the caller takes a frame number
  (`replay_buffer_index.cpp:59` and `:61`, `replay_buffer.cpp:109`).
* **align_equal**: between the ends `timestamp_search` looks for the last frame that
  is not newer than the stamp (`<=`, `replay_buffer_index.cpp:75` and `:77`), where
  the comment at `replay_buffer_index.h:57` says "find the frame with largest
  timestamp where timestamp < stamp". They differ when a frame has the stamp
  itself. `AlignsInside` states what the code means and does;
  `AlignedBeforeStamp` what the comment says.
* **capture_chunks**: a start code of four bytes is found at its first byte and at
  its second (`h264_tcp_input.cpp:196-203`); the second time `last_start` stands on
  the code itself, and `nal_type` gives the type of the unit that begins
  (`:278`, `:294`). Before a slice the scan therefore cuts one byte into its code:
  parameter sets and one zero go to the decoder without their slice, or the zero
  alone, although `decode_and_send` is to "accept coded frames split up by the worker
  thread" (`:306-307`). The slice follows with a code of three bytes, so nothing but
  that zero is torn: this is `SlicesWhole`.
* **playout_stop**: `set_source` deletes whatever it displaces, the idle source
  too when a stop has not been taken yet (`replay_playout.cpp:130`). A second
  command within one frame time of a stop frees the idle source, which the
  playout thread then uses. `replay` checks everything else for an operator
  who lets a stop be taken first (`Patient`).
* **keyer_levels**: a generator's level is stored when its next header is read,
  while its previous overlay still waits in the pipe; `KeyerApp::run` tests the
  one and draws the other, so an overlay of level one can reach the output that
  `keyer/README.md:77-81` keeps clean. `KeyedWithinOneOverlay` is what remains.
* **control_queue**: `/roll_queue.json` calls `program.queue_shot`, which does
  not exist: the first shot rolls, the request fails, the rest never rolls
  (`replay_server.rb:331` and `:336`).

## What is proved

Each theorem holds for every value of the constants that satisfies the named
ASSUME of its module. The type invariants `TypeOK` of `Pipe`, `ShmDoubleBuffer`
and `Capture`, and `RingConsistent`, are proved and not run again by TLC.

* `PipeProofs`. `TypeCorrect` by induction, with the wait sets tied to the
  program counters (two lemmas say what a signal does to them).
  `RingIsConsistent` needs no strengthening beyond the types.
  `PipeImplementsChannel` reads the ring as a sequence (`ContentsView`): a store
  appends, a take drops the head, every other step leaves it alone.
  `PolledThreadsDoNotSleep` adds the hypothesis that there is one thread at each
  end, and the invariant that a polled thread still has its place or its object,
  because only the other end can change the ring and it can only help.
  `NoWakeupIsLost` holds for any number of threads at each end: a signal is not
  addressed to anybody, and who is woken may find that another was faster, so what
  is invariant is a count. While one consumer sleeps, at least as many are awake as
  there are objects; likewise for producers and places.
* `ShmDoubleBufferProofs`. `NoTornFrame` is not inductive. The invariant adds
  that the semaphore is held by whoever is in a section, that the producer's
  and the consumer's buffers are different whenever both are in use, and that
  the half copied so far agrees with the buffer. `FlipReportExact` needs to know
  where the report stands between the flip and the next `begin_write`
  (`Reported`); `FramesInOrder`, an action property, that every picture the
  consumer can still reach is at least as new as the one it gave last (`Ordered`).
* `ReplayPreviewProofs`. The port alone keeps every object in one place
  (`Apart`: no two of the four pointers are equal unless null, and none is
  freed); the preview system implements the port, so it inherits this; and the
  preview thread never sleeps on work, because whoever creates work clears
  `asleep` in the same locked section.
* `ReplayBufferProofs`. `PublishedIsOnFile` is inductive once it is known where the
  ingest thread stands between the file and the index (`Placed`: its descriptor is
  ahead of `n_bytes_written` by exactly what it has written of the record), because
  then every cell it writes lies behind all the published ones. A reader's entry,
  header and blocks are of the same published record (`Reading`), from which
  `ReaderGetsItsFrame` follows without a lock. `ConvertedInOrder` needs that the
  records of a run follow one another on the file without a gap (`Adjoin`), so that
  a converter that is at a record's end is at the next one's start; what it was
  promised when it came lapses when the program starts anew, which writes over the
  file. `AlignsInside` is the loop invariant of the binary search (`Searching`: the
  answer lies between the two ends of the range), and holds while the index grows
  because stamps never go back (`InTime`).
* `ReplayPlayoutProofs`. `Ownership` says in which of the slot, the two threads'
  hands and the two pointers each source made is (`OwnedOnce`) and that sources in
  later places were made later; `SourceOwnedOnce` follows. `Program` adds what has
  gone to air: a source's frames up to `rolled`, nothing of a source that is still to
  come. From it follow `ProgramInOrder` and the action property
  `StillContinuesProgram`. `SpeedSetBeforeRollApplies` rests on the last speed being in
  the slot or in force; `SoundFollowsPicture` on the two pipes being equally far but
  for the step between the two writes (`SoundOK`).
* `CaptureProofs`. `SoundWithinOne` needs the whole bookkeeping as its invariant:
  `avsync` counts what is in the pipes (`Balance`), a dropped picture's packet is
  owed only within its callback (`Owed`), and each pipe holds consecutive
  numbers (`PicturesInOrder`, `SoundsInOrder`). That a packet is lost at most
  once follows from `Balance` and the pipes' equal capacity. The two pairing
  theorems assume `Deliveries["av"] = {"both"}`; `TypeCorrect` assumes nothing
  about the card. `ChildIsNotStarved` (avpinput) needs the same hypothesis and
  `2 * AvpLead + 1 <= IN_PIPE_SIZE`, under `AvpAssumption`: `avsync`, the
  packets lost, is what the card's pipes differ by plus what the senders took of
  pictures more than of sound (`Passed`), which bounds the losses by how far the child
  reads ahead and, with compression, by the preroll (`Lost`). So when it waits for
  sound and none is on the way, the pipe of pictures has room.
  For the other inputs (`MCCapture`, assumption `InputAssumption`): `PicturesWhole`
  of the analog input, because each buffer is in one place (`Separate`), the frames
  come out of it in the order the driver filled them, and the worker keeps its half
  while the other is awaited (`Half`); `SlicesWhole` of the network input, because
  the buffer behind its stale bytes and the rest of the unit the peer is sending make
  one stream of whole units (`Whole`), and `last_start` is the place of the unit the
  scan stands in or has just passed, a slice only as long as it is the last
  (`Scanned`); for any size of the buffer, any
  split of the stream in reads and any number of lost connections;
  `ImagesRecordedInOrder` of the triggered ingest, because the image cut out last, the
  buffer and the kernel's pipe are together one unbroken piece of what the child sent
  (`InTurn`): an end marker has its start three tokens before it, or never had one in
  the buffer, and then no image was cut out before (`FromTheFirst`).
* `ControlProofs`. `SoundGoesWithPicture` needs the relation of the three copies
  of a camera's number, on the preview, chosen and mapped, unless `align_shot` refused
  the last choice (`SoundMapped`). `SoundKeepsStep` holds because the allocator's
  counter tells at every step how far the samples are off (`SoundPace`).
  `RotationIsTheTurn` is the jog dial for every size.
  `WaitsAreNotCrossed` counts, for a child between its start and its end, what lies
  between it and the playout thread: the two streams differ there by what the child
  wrote, less the picture taken without its sound (`SourceHeld`). It assumes
  `Lead <= Slots + 2` and at least one packet in the kernel's pipe
  (`SourceAssumption`); with a larger lead TLC finds the wait.
  `ShotsPlayedExactly` (`ShotAssumption`: the speeds are the shuttle's) puts every
  position in 48ths of a frame, which every speed divides. It rests on
  `RationalArithmeticExact`: `reduce` yields the one fraction in lowest terms, so a
  sum or a product is exact. The `gcd` of `Rational` is recursive; that it divides
  both numbers and is a combination of them is proved from the least pair for which
  it would not. The sound is then bounded by what is left in the FIFO, at the present
  speed, and at most one hop at the highest speed for every change of it.
* `KeyerProofs`. `TypeOK` says that `audio_adjust`, unsigned and shared without a
  lock, is never taken below zero. It is inductive only with what the sound
  callback holds (`DebtOK`): the debt it read and is about to write back less one
  was not zero, and the other callback's write cannot change what was read.
  `KeyedWithinOneOverlay` needs to know how far a CG's thread can get while the
  loop stands between the test of the level and the taking of the overlay: the
  overlay made last carries the CG's level (`FreshLevel`), and a level tested
  stays that of the next overlay or of a neighbour (`Near`), because the pipe
  holds one overlay and the thread blocks with the second in its hands. That a
  pipe holds at most one is proved with the types. Both hold for any program,
  preroll, pipe size, dissolve and set of levels.
  `DrawingStaysInBytes`, `TransparentPixelMovesByOne` and `OverlaysAreCut` say for
  every byte and size what `AlphaKey` checks on samples.

Model-checked only: the liveness properties, which are out of the prover's reach,
and what the pure modules check by their ASSUMEs, but for `Rational`, the jog dial
and the bytes and widths of `AlphaKey`. For `Upscale` and the shuttle TLC's
answer is complete, because the inputs are; for `RecordFormat`, `CommandLine` and
`Overlays`, which fold over sequences, it is not: a theorem about every sequence needs induction over data, and the library's induction theorems
cannot be instantiated. (For `gcd` a least counterexample took its place.)
`ReplayBufferSource` takes the frame its search finds from the theorem
`AlignmentFindsFrame`.

## Plan

1. Refinement: the pipes of `ReplayPlayout`, `Keyer` and `AvspipeSource`, which are
   plain bounded sequences or counts, as instances of `Channel`, so that the theorem
   about `Pipe` reaches them formally.
2. Several mapped channels of sound; the filters of the playout as steps of the
   source; the rollout server.

## Not modelled

Codecs, most of the pixel conversions, SWIG glue, configuration and test programs:
they keep no state that two threads share. `PipeLF`, the lock-free pipe, is
instantiated nowhere in the program. Of the analysis of sound only which samples
are needed and made is modelled, with one mapped channel; `process_packet` is one
step: who comes between two of its hops finds the sound a few hops shorter, as he
would just before it. A recording is not followed after the shot.
The cue screen's seek always succeeds (`replay_playout_lavf_source.cpp:142-146` is
where it may not), and what the M-JPEG library throws out of `WriteFrame` ends the
program like any other exception, without a step of its own.
A callback of an adapter that uses pictures and sound brings both (`Deliveries`); the
code's branches for a missing half run only in adapters that ignore one. The values of
pixels and the contents of JPEG and H.264 data are tokens. `PROJECT.json` gives
the reason for every part that is left out, and a note for every hazard no
property covers.
