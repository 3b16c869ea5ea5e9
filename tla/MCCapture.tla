------------------------------ MODULE MCCapture ------------------------------
(***************************************************************************)
(* Everything pictures and sound come in by.  One program runs at a time:  *)
(* an adapter with its ingest, avpinput_decklink, or an input that Capture *)
(* only knows as a source of pictures, in its own detail.                  *)
(***************************************************************************)
EXTENDS AvpInput, CommandLine, Upscale

CONSTANTS PARSE_BUF_SIZE, Slots, MaxRead,
          BUFSIZE, KernelRoom, MaxImages,
          n_buffers, PipeSlots, MaxShots

ASSUME InputAssumption ==
    {n_buffers, PipeSlots, PARSE_BUF_SIZE, MaxRead, Slots, BUFSIZE} \subseteq Nat \ {0}

VARIABLES program,       \* the one that runs
          h264, h264_worker, worker_running, shutdown, sockfd, sending, buf,
          last_start, buf_scanned, stale, chunk, h264_pipe,
          mjpeg, camera, sent, image_pipe, mjpeg_thread, jpegbuf, dest, written,
          v4l2, queued, filled, content, shot, filling, v4l2_worker, bufno, out,
          v4l2_pipe, taken

H264 == INSTANCE H264Tcp WITH worker <- h264_worker, out_pipe <- h264_pipe
Mjpeg == INSTANCE MjpegIngest WITH ingest <- mjpeg_thread
V4L2 == INSTANCE V4L2Input WITH worker <- v4l2_worker, out_pipe <- v4l2_pipe

captureVars == <<vars, avpVars>>
h264Vars == <<h264, h264_worker, worker_running, shutdown, sockfd, sending, buf,
              last_start, buf_scanned, stale, chunk, h264_pipe>>
mjpegVars == <<mjpeg, camera, sent, image_pipe, mjpeg_thread, jpegbuf, dest, written>>
v4l2Vars == <<v4l2, queued, filled, content, shot, filling, v4l2_worker, bufno, out,
              v4l2_pipe, taken>>
allVars == <<program, captureVars, h264Vars, mjpegVars, v4l2Vars>>

(* A card set up for both brings both; where one half is ignored, anything. *)
Any == {"both", "video", "audio"}
MCDeliveries == [kind \in Kinds |-> IF kind = "av" THEN {"both"} ELSE Any]

OnlyRuns(p) ==
    /\ program = p
    /\ IF p = "avpinput" THEN AvpInit
       ELSE AvpAbsent /\ Init /\ (p = "ingest" \/ adapter = "v4l2")
    /\ IF p = "h264" THEN H264!Init ELSE H264!Absent
    /\ IF p = "mjpeg" THEN Mjpeg!Init ELSE Mjpeg!Absent
    /\ IF p = "v4l2" THEN V4L2!Init ELSE V4L2!Absent

MCInit == \E p \in {"ingest", "avpinput", "h264", "mjpeg", "v4l2"} : OnlyRuns(p)

MCNext ==
    /\ UNCHANGED program
    /\ \/ program = "ingest" /\ Next
          /\ UNCHANGED <<avpVars, h264Vars, mjpegVars, v4l2Vars>>
       \/ AvpNext /\ UNCHANGED <<h264Vars, mjpegVars, v4l2Vars>>
       \/ H264!Next /\ UNCHANGED <<captureVars, mjpegVars, v4l2Vars>>
       \/ Mjpeg!Next /\ UNCHANGED <<captureVars, h264Vars, v4l2Vars>>
       \/ V4L2!Next /\ UNCHANGED <<captureVars, h264Vars, mjpegVars>>

MCSpec == MCInit /\ [][MCNext]_allVars /\ AvpFairness /\ H264!Fairness

SlicesWhole == H264!SlicesWhole
CodedFramesDecoded == H264!CodedFramesDecoded
WorkerStops == H264!WorkerStops
ImagesRecordedInOrder == Mjpeg!ImagesRecordedInOrder
PicturesWhole == V4L2!PicturesWhole
==============================================================================
