---------------------------- MODULE ReplayBrowser ----------------------------
(***************************************************************************)
(* A browser of the replay program (replay/public_html/js/replay.js) and   *)
(* the answers of the server (replay/replay_server.rb): the list of shots, *)
(* asked for twice a second, and the marks the operator sets in one shot.  *)
(* Requests and answers are under way at the same time and may arrive in   *)
(* any order.                                                              *)
(***************************************************************************)
EXTENDS Integers

CONSTANTS MaxSent,      \* bound: events the local operator captures
          MaxClicks,    \* bound: updates and clears of the list
          SeekStep,     \* frames of one seek, 15
          MaxFrame      \* bound: position in a shot

VARIABLES page,         \* what is open: "list", "shot", "none"
          served, events,  \* the server's list, not there before the first event
          sent,         \* events captured so far
          shown,        \* events in the browser's list
          request,      \* what the browser waits for
          clicks,
          start, length, offset   \* of the shot

list == <<served, events, sent, shown, request, clicks>>
shot == <<start, length, offset>>
vars == <<page, list, shot>>

Requests == {"poll", "next poll", "update", "clear", "other browser"}
Clears == {"clear", "other browser"}
Idle == -2   \* no request,
Asked == -1  \* sent; then the number of events in the answer

Rest(p) ==
    /\ page = p
    /\ served = FALSE /\ events = 0 /\ sent = 0
    /\ shown = 0 /\ request = [r \in Requests |-> Idle] /\ clicks = 0
    /\ length = 0 /\ offset = 0

Absent == Rest("none") /\ start = 0

\* A shot captured before its camera had a frame starts at -1.
Init == \/ Rest("list") /\ start = 0
        \/ Rest("shot") /\ start \in -1 .. SeekStep

-----------------------------------------------------------------------------
(* The server and the list *)

send_event ==
    /\ page = "list" /\ sent < MaxSent
    /\ served' = TRUE /\ events' = events + 1
    /\ sent' = sent + 1
    /\ UNCHANGED <<page, shown, request, clicks, shot>>

(* The timer, or a click: an update empties the list at once. *)
Ask(r) ==
    /\ page = "list" /\ request[r] = Idle
    /\ request' = [request EXCEPT ![r] = Asked]
    /\ IF r \in Clears \cup {"update"}
       THEN clicks < MaxClicks /\ clicks' = clicks + 1
       ELSE UNCHANGED clicks
    /\ shown' = IF r = "update" THEN 0 ELSE shown
    /\ UNCHANGED <<page, served, events, sent, shot>>

clear_events(r) ==
    /\ r \in Clears /\ request[r] = Asked
    /\ served' = TRUE /\ events' = 0
    /\ request' = [request EXCEPT ![r] = IF r = "clear" THEN 0 ELSE Idle]
    /\ UNCHANGED <<page, sent, shown, clicks, shot>>

(* Before the first event there is no list, and no answer either. *)
shots_json(r) ==
    /\ r \notin Clears /\ request[r] = Asked
    /\ request' = [request EXCEPT ![r] = IF served THEN events ELSE Idle]
    /\ UNCHANGED <<page, served, events, sent, shown, clicks, shot>>

(* Mutant of doRefreshMaybe: only a longer list is taken. *)
RefreshIfLonger(count) == IF shown < count THEN count ELSE shown

doRefreshMaybe(count) == IF shown # count THEN count ELSE shown

(* The answer to a click on the update button is appended; the handler of  *)
(* clear_events renders nothing, and its callback may not be called.       *)
Callback(r) ==
    /\ request[r] >= 0
    /\ request' = [request EXCEPT ![r] = Idle]
    /\ \/ r = "clear" /\ shown' \in {0, shown}
       \/ r = "update" /\ shown' = shown + request[r]
       \/ r \in {"poll", "next poll"} /\ shown' = doRefreshMaybe(request[r])
    /\ UNCHANGED <<page, served, events, sent, clicks, shot>>

-----------------------------------------------------------------------------
(* One shot *)

doSeekBack ==
    LET new_offset == offset - SeekStep
        new_start == start + new_offset
    IN IF new_start < 0 THEN new_offset - new_start ELSE new_offset

Seek(new_offset) ==
    /\ page = "shot"
    /\ start + new_offset <= MaxFrame
    /\ offset' = new_offset
    /\ UNCHANGED <<page, list, start, length>>

markIn ==
    /\ page = "shot"
    /\ start' = IF start + offset < 0 THEN 0 ELSE start + offset
    /\ length' = IF start + length < start' THEN 0 ELSE start + length - start'
    /\ offset' = 0
    /\ UNCHANGED <<page, list>>

(* Before the start it calls markIn, which throws: it looks for the shot   *)
(* at its own "this".                                                      *)
markOut ==
    /\ page = "shot" /\ offset >= 0
    /\ length' = offset
    /\ UNCHANGED <<page, list, start, offset>>

Next ==
    \/ send_event
    \/ \E r \in Requests : Ask(r)
    \/ \E r \in Requests : clear_events(r)
    \/ \E r \in Requests : shots_json(r)
    \/ \E r \in Requests : Callback(r)
    \/ Seek(doSeekBack)
    \/ Seek(offset + SeekStep)
    \/ markIn
    \/ markOut

(* The timer goes on, the server answers, the browser handles the answer. *)
Fairness ==
    /\ WF_vars(Ask("poll"))
    /\ \A r \in Requests :
          WF_vars(clear_events(r) \/ shots_json(r)) /\ WF_vars(Callback(r))

-----------------------------------------------------------------------------
(***************************************************************************)
(* When nobody captures and clicks any more, the browser comes to list as  *)
(* many events as the server has: after late answers, answers out of       *)
(* order, lists cleared by this browser or another.  It compares only the  *)
(* numbers, so it need not be the same events.                             *)
(***************************************************************************)
ListCatchesUp == <>[](shown = events)
==============================================================================
