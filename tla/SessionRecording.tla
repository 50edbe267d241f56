-------------------------- MODULE SessionRecording --------------------------
(***************************************************************************)
(* The recording of a session by the gateway: the two relay tasks of its   *)
(* handler (gateway.py), which record a frame once it is passed on, and    *)
(* SessionRecorder (gateway_modules/session_recording.py), which numbers   *)
(* the frames on the event loop and leaves the writing to a pool of        *)
(* threads.                                                                *)
(*                                                                         *)
(* A frame is <<direction, n>>, the n-th of its direction; the first one   *)
(* down is session.created.  Every frame up carries one blob (its sound),  *)
(* those down none.  Errors of the writing are swallowed; here the only    *)
(* one is that the directory is gone.                                      *)
(***************************************************************************)
EXTENDS Naturals, Sequences, SequencesExt

CONSTANTS
  MaxUp,    \* bound on the frames of the client
  MaxDown,  \* bound on the frames of the worker
  Threads   \* max_workers of _io_pool

ASSUME RecordingAssumption == {MaxUp, MaxDown, Threads} \subseteq Nat \ {0}

VARIABLES
  relay,     \* the handler: on, over (its finally clause has run), crashed
  sent,      \* frames passed on, per direction
  inHand,    \* the directions whose last frame is passed on, not recorded yet
  recorder,  \* none, on, closed
  buffer,    \* pending_record_frames
  log,       \* the frames in the order of seq
  jobs,      \* what the pool has not finished, in the order of submission
  dir,       \* the session's directory is there
  lines,     \* stream.jsonl: the seq of each line
  blobs,     \* the seq of the frames whose blob is there
  meta       \* meta.json: none, open, ended

recVars == <<relay, sent, inHand, recorder, buffer, log, jobs, dir, lines, blobs,
             meta>>

Directions == {"up", "down"}
Bound(d) == IF d = "up" THEN MaxUp ELSE MaxDown

RecordingInit ==
  /\ relay = "on"
  /\ sent = [d \in Directions |-> 0]
  /\ inHand = {}
  /\ recorder = "none"
  /\ buffer = <<>>
  /\ log = <<>>
  /\ jobs = <<>>
  /\ dir = FALSE
  /\ lines = <<>>
  /\ blobs = {}
  /\ meta = "none"

(* record: the number and the blob under the lock, then the line, each a   *)
(* job of the pool.                                                        *)
JobsOf(frame, seq) ==
  IF frame[1] = "up" THEN <<<<"blob", seq>>, <<"line", seq>>>> ELSE <<<<"line", seq>>>>

Record(frames) ==
  /\ log' = log \o frames
  /\ jobs' = jobs \o FlattenSeq([i \in DOMAIN frames |->
                                   JobsOf(frames[i], Len(log) + i)])

(* Mutant: what was buffered is not recorded. *)
EnsureRecorderEmpty ==
  \/ /\ recorder' = "on"
     /\ dir' = TRUE
     /\ meta' = "open"
     /\ UNCHANGED <<buffer, log, jobs>>
  \/ UNCHANGED <<recorder, dir, meta, buffer, log, jobs>>

(* ensure_recorder, at session.created: the directory and meta.json are    *)
(* made and what was buffered is recorded; if they cannot be made, the     *)
(* session goes on without a recorder.                                     *)
EnsureRecorder ==
  \/ /\ recorder' = "on"
     /\ dir' = TRUE
     /\ meta' = "open"
     /\ Record(buffer)
     /\ buffer' = <<>>
  \/ UNCHANGED <<recorder, dir, meta, buffer, log, jobs>>

(* A frame is handed to the other socket; the task awaits that and the     *)
(* other task runs.                                                        *)
Pass(d) ==
  /\ relay = "on"
  /\ d \notin inHand
  /\ sent[d] < Bound(d)
  /\ d = "down" => sent.up > 0
  /\ sent' = [sent EXCEPT ![d] = @ + 1]
  /\ inHand' = inHand \cup {d}
  /\ IF d = "down" /\ sent.down = 0 THEN EnsureRecorder
     ELSE UNCHANGED <<recorder, dir, meta, buffer, log, jobs>>
  /\ UNCHANGED <<relay, lines, blobs>>

(* record_or_buffer. *)
RecordOrBuffer(d) ==
  /\ relay = "on"
  /\ d \in inHand
  /\ inHand' = inHand \ {d}
  /\ LET frame == <<<<d, sent[d]>>>>
     IN  \/ recorder = "on" /\ Record(frame) /\ UNCHANGED buffer
         \/ recorder = "none" /\ buffer' = buffer \o frame /\ UNCHANGED <<log, jobs>>
  /\ UNCHANGED <<relay, sent, recorder, dir, lines, blobs, meta>>

(* Mutant: the end of a session gives up what the pool has not written. *)
FinishAtOnce ==
  /\ relay = "on"
  /\ relay' = "over"
  /\ inHand' = {}
  /\ recorder' = IF recorder = "on" THEN "closed" ELSE recorder
  /\ jobs' = IF recorder = "on" THEN <<<<"meta", 0>>>> ELSE <<>>
  /\ UNCHANGED <<sent, buffer, log, dir, lines, blobs, meta>>

(* One relay task ends, the other one is cancelled: a frame in hand is not *)
(* recorded.  The recorder is closed, which writes meta.json once more.    *)
Finish ==
  /\ relay = "on"
  /\ relay' = "over"
  /\ inHand' = {}
  /\ recorder' = IF recorder = "on" THEN "closed" ELSE recorder
  /\ jobs' = IF recorder = "on" THEN Append(jobs, <<"meta", 0>>) ELSE jobs
  /\ UNCHANGED <<sent, buffer, log, dir, lines, blobs, meta>>

(* The gateway dies with what its pool had not written. *)
Crash ==
  /\ relay # "crashed"
  /\ relay' = "crashed"
  /\ inHand' = {}
  /\ jobs' = <<>>
  /\ UNCHANGED <<sent, recorder, buffer, log, dir, lines, blobs, meta>>

(* _append_line, _write_audio_blob or _flush_meta ends in one of the       *)
(* threads, which took the oldest jobs.                                    *)
JobEnds(i) ==
  /\ i \in 1..Threads /\ i <= Len(jobs)
  /\ jobs' = RemoveAt(jobs, i)
  /\ lines' = IF dir /\ jobs[i][1] = "line" THEN Append(lines, jobs[i][2]) ELSE lines
  /\ blobs' = IF dir /\ jobs[i][1] = "blob" THEN blobs \cup {jobs[i][2]} ELSE blobs
  /\ meta' = IF dir /\ jobs[i][1] = "meta" THEN "ended" ELSE meta
  /\ UNCHANGED <<relay, sent, inHand, recorder, buffer, log, dir>>

RecorderStep ==
  \/ \E d \in Directions : Pass(d) \/ RecordOrBuffer(d)
  \/ Finish \/ Crash
  \/ \E i \in 1..Threads : JobEnds(i)
-----------------------------------------------------------------------------
(* The frames of one direction are the first n, in their order. *)
Numbered(d, frames, n) ==
  LET mine == {i \in DOMAIN frames : frames[i][1] = d}
  IN  /\ {frames[i][2] : i \in mine} = 1..n
      /\ \A i, j \in mine : i < j => frames[i][2] < frames[j][2]

(* Those of the frames passed on that are with the recorder *)
Settled(d) == sent[d] - IF d \in inHand THEN 1 ELSE 0

(* The numbers of a recording tell the order of each direction, and no     *)
(* frame is missing, although both tasks record after an await and the     *)
(* first frames wait in a buffer: a recording that is on holds all that    *)
(* was passed on but the frame in hand, a finished one all but the last.   *)
RecordedInOrder ==
  \A d \in Directions :
    /\ recorder = "on" /\ relay = "on" => Numbered(d, log, Settled(d))
    /\ recorder # "none" =>
         \/ Numbered(d, log, sent[d])
         \/ sent[d] > 0 /\ Numbered(d, log, sent[d] - 1)
=============================================================================
