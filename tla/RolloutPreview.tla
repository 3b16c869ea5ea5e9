--------------------------- MODULE RolloutPreview ---------------------------
(***************************************************************************)
(* The cue screen of the rollout program (replay/rollout_preview.cpp,      *)
(* driven by replay/rollout_cue.rb): the operator names a file and moves   *)
(* in it, a thread opens the file, seeks and shows one picture on the      *)
(* monitor port.  A source that the thread has open is a LavfSource.       *)
(*                                                                         *)
(* The thread never sleeps once a file was named: wait_update waits for a  *)
(* file, not for a change.  Positions are counted in pictures.             *)
(***************************************************************************)
EXTENDS LavfSource

CONSTANTS CueFiles,     \* the files the operator may name
          MaxLoads      \* bound: calls of load_file

VARIABLES filename, pos,              \* what the operator wants; "" is no file
          cue,                        \* run_thread: "wait", "open", "seek",
                                      \* "read", "show"
          new_file, new_pos,          \* what wait_update gave
          current_file, current_pos,  \* what the thread has open, and where
          do_update,
          monitor,                    \* what the port was given last
          loads

operator == <<filename, pos, loads>>
thread == <<cue, new_file, new_pos, current_file, current_pos, do_update, monitor>>
cueVars == <<vars, operator, thread>>

CueRest(w) ==
    /\ filename = "" /\ pos = 0 /\ loads = 0
    /\ cue = w
    /\ new_file = "" /\ new_pos = 0
    /\ current_file = "" /\ current_pos = 0
    /\ do_update = FALSE
    /\ monitor = <<"", 0>>

\* No screen, and no file or a file on the program; the screen before a file.
CueAbsent == Absent /\ CueRest("none")
FileInit == Init /\ CueRest("none")
CueInit == Rest("gone") /\ decodable /\ CueRest("wait")

-----------------------------------------------------------------------------
(* The operator *)

load_file(f) ==
    /\ cue # "none" /\ loads < MaxLoads
    /\ filename' = f
    /\ pos' = 0
    /\ loads' = loads + 1
    /\ UNCHANGED <<vars, thread>>

(* The two arrow keys; nothing keeps the position inside the file. *)
seek_by(delta) ==
    /\ cue # "none" /\ loads < MaxLoads
    /\ loads' = loads + 1
    /\ pos' = IF pos + delta < 0 THEN 0 ELSE pos + delta
    /\ UNCHANGED <<filename, vars, thread>>

-----------------------------------------------------------------------------
(* run_thread *)

(* Mutant of wait_update: the file is copied, the position is not. *)
WaitUpdateFileOnly ==
    /\ cue = "wait" /\ filename # ""
    /\ new_file' = filename /\ UNCHANGED new_pos
    /\ do_update' = FALSE
    /\ cue' = "open"
    /\ UNCHANGED <<vars, operator, current_file, current_pos, monitor>>

wait_update ==
    /\ cue = "wait" /\ filename # ""
    /\ new_file' = filename /\ new_pos' = pos
    /\ do_update' = FALSE
    /\ cue' = "open"
    /\ UNCHANGED <<vars, operator, current_file, current_pos, monitor>>

(* Another file: the old source is deleted, the new one opened, or an      *)
(* exception leaves the thread.                                            *)
OpenNewFile ==
    /\ cue = "open"
    /\ cue' = "seek"
    /\ IF new_file = current_file
       THEN UNCHANGED <<vars, current_file, current_pos, do_update>>
       ELSE /\ lavf' \in {"open", "terminated"}
            /\ next_picture' = 0 /\ next_sound' = 0
            /\ pending_video' = 0 /\ pending_audio' = 0 /\ frame' = 0
            /\ n_frames' = 0 /\ samples_out' = 0
            /\ current_file' = new_file /\ current_pos' = 0
            /\ do_update' = TRUE
            /\ UNCHANGED <<decodable, need, video_data>>
    /\ UNCHANGED <<operator, new_file, new_pos, monitor>>

SeekToPosition ==
    /\ cue = "seek" /\ lavf = "open"
    /\ cue' = IF do_update \/ new_pos # current_pos THEN "read" ELSE "wait"
    /\ IF new_pos = current_pos
       THEN UNCHANGED <<vars, current_pos, do_update>>
       ELSE /\ seek(IF new_pos > Pictures THEN Pictures ELSE new_pos)
            /\ current_pos' = new_pos
            /\ do_update' = TRUE
    /\ UNCHANGED <<operator, new_file, new_pos, current_file, monitor>>

CallReadFrame ==
    /\ cue = "read"
    /\ read_frame
    /\ cue' = "show"
    /\ UNCHANGED <<operator, new_file, new_pos, current_file, current_pos,
                   do_update, monitor>>

(* Without a picture, past the end of the file, img is the null pointer. *)
Show ==
    /\ cue = "show" /\ lavf = "open" /\ need = 0
    /\ IF video_data = "NULL"
       THEN lavf' = "terminated" /\ UNCHANGED <<cue, monitor>>
       ELSE /\ cue' = "wait"
            /\ monitor' = <<current_file, current_pos>>
            /\ UNCHANGED lavf
    /\ UNCHANGED <<decodable, decoder, output, operator, new_file, new_pos,
                   current_file, current_pos, do_update>>

ThreadSteps ==
    \/ wait_update
    \/ OpenNewFile
    \/ SeekToPosition
    \/ CallReadFrame
    \/ run_lavc /\ cue = "show" /\ UNCHANGED <<operator, thread>>
    \/ Show

CueNext ==
    \/ \E f \in CueFiles : load_file(f)
    \/ \E d \in {-1, 1} : seek_by(d)
    \/ ThreadSteps

(* A file on the program's own playout, without the screen. *)
FileNext == cue = "none" /\ Next /\ UNCHANGED <<operator, thread>>

CueFairness == WF_cueVars(ThreadSteps)

-----------------------------------------------------------------------------
(***************************************************************************)
(* When the operator stops, the screen shows the file and the position he  *)
(* named last: a position set while the thread opened another file or      *)
(* decoded is not lost.  The program may end instead, by a file that does  *)
(* not open or decode, or a position without a picture.  The picture shown *)
(* is the first one read after the seek there, which may be an older one:  *)
(* seek leaves what was decoded before in the source's queues.             *)
(***************************************************************************)
CueSettles ==
    <>[](\/ cue = "none" \/ filename = ""
         \/ monitor = <<filename, pos>>
         \/ lavf = "terminated")
=============================================================================
