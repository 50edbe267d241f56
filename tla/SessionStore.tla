---------------------------- MODULE SessionStore ----------------------------
(***************************************************************************)
(* The directories under data/sessions: the one the gateway is recording   *)
(* (SessionRecording), those of an earlier recorder that wrote created_at  *)
(* as text, the comments users leave in any of them (gateway.py,           *)
(* save_session_comment), and the clean-up of session_cleanup.py, a thread *)
(* that works beside the event loop.                                       *)
(*                                                                         *)
(* Sizes are numbers of files and ages are days.                           *)
(***************************************************************************)
EXTENDS SessionRecording, FiniteSets, FiniteSetsExt

CONSTANTS
  Live,       \* the directory of the session being recorded
  Old,        \* those of the earlier recorder
  Born,       \* the day on which each of them was created
  Retention,  \* retention_days
  MaxSize,    \* max_storage_gb
  Noted,      \* bound on the directories users comment on
  LastDay,    \* bound on the days
  MaxPasses   \* bound on the passes

Dirs == Old \cup {Live}

ASSUME StoreAssumption ==
  /\ Live \notin Old /\ Noted \subseteq Dirs
  /\ Born \in [Old -> Nat]
  /\ {Retention, MaxSize} \subseteq Nat \ {0}  \* both rules are on
  /\ {LastDay, MaxPasses} \subseteq Nat

VARIABLES
  day,       \* the date
  bornLive,  \* the day the recording began
  there,     \* the old directories that are there
  readable,  \* those of them with a meta.json
  notes,     \* the directories with a comment.txt
  pc,        \* the pass: sleep, read, expire, capacity
  passes,    \* passes so far
  cutoff,    \* the date of the pass
  todo,      \* the directories it has not read yet
  known,     \* sessions and remaining: what it read, [dir, size]
  kept,      \* in the loop over sessions: those found young enough
  total,     \* total_size, from the capacity loop on
  victim,    \* the directories rmtree is at work on, one at most
  gone,      \* history: removed in this pass
  failed     \* history: rmtree failed in this pass

storeVars == <<day, bornLive, there, readable, notes, pc, passes, cutoff, todo,
               known, kept, total, victim, gone, failed>>
vars == <<recVars, storeVars>>

Init ==
  /\ RecordingInit
  /\ day = 2 /\ bornLive = 2
  /\ there = Old /\ readable = Old /\ notes = {}
  /\ pc = "sleep" /\ passes = 0 /\ cutoff = 0
  /\ todo = {} /\ known = {} /\ kept = {} /\ total = 0
  /\ victim = {} /\ gone = {} /\ failed = {}

There(d) == IF d = Live THEN dir ELSE d \in there
BornOn(d) == IF d = Live THEN bornLive ELSE Born[d]

One(b) == IF b THEN 1 ELSE 0

Size(d) ==
  One(d \in notes)
    + IF d = Live THEN One(meta # "none") + One(lines # <<>>) + Cardinality(blobs)
      ELSE One(d \in readable)

(* Mutant: a created_at that is a number is read as one. *)
ReadableToo(d) == IF d = Live THEN meta # "none" ELSE d \in readable

(* get_session_info raises without meta.json, and for a created_at that is *)
(* a number, as SessionRecorder writes it: fromisoformat takes text only.  *)
Readable(d) == d \in readable

-----------------------------------------------------------------------------
Recording ==
  /\ RecorderStep
  /\ bornLive' = IF dir' /\ ~dir THEN day ELSE bornLive
  /\ UNCHANGED <<day, there, readable, notes, pc, passes, cutoff, todo, known, kept,
                 total, victim, gone, failed>>

Tick ==
  /\ day < LastDay
  /\ day' = day + 1
  /\ UNCHANGED <<recVars, bornLive, there, readable, notes, pc, passes, cutoff, todo,
                 known, kept, total, victim, gone, failed>>

(* save_session_comment makes the directory if it has to; an empty comment *)
(* takes the file away.                                                    *)
Comment(d) ==
  /\ d = Live => dir
  /\ \/ notes' = notes \cup {d} \/ notes' = notes \ {d}
  /\ there' = there \cup ({d} \ {Live})
  /\ UNCHANGED <<recVars, day, bornLive, readable, pc, passes, cutoff, todo, known,
                 kept, total, victim, gone, failed>>

(* A pass begins: the date and the listing. *)
Begin ==
  /\ pc = "sleep"
  /\ passes < MaxPasses
  /\ passes' = passes + 1
  /\ pc' = "read"
  /\ cutoff' = day
  /\ todo' = {d \in Dirs : There(d)}
  /\ known' = {} /\ kept' = {} /\ total' = 0
  /\ gone' = {} /\ failed' = {}
  /\ UNCHANGED <<recVars, day, bornLive, there, readable, notes, victim>>

(* get_session_info of one entry; one it cannot read is noted and left. *)
ReadInfo(d) ==
  /\ pc = "read"
  /\ d \in todo
  /\ todo' = todo \ {d}
  /\ known' = IF Readable(d) THEN known \cup {[dir |-> d, size |-> Size(d)]} ELSE known
  /\ UNCHANGED <<recVars, day, bornLive, there, readable, notes, pc, passes, cutoff,
                 kept, total, victim, gone, failed>>

(* The loops take the oldest first: pop(0) of the sorted list. *)
Oldest(set) == {s \in set : \A t \in set : BornOn(s.dir) <= BornOn(t.dir)}

(* Mutant: pop() instead of pop(0). *)
NextOutLast(set) == {s \in set : \A t \in set : BornOn(s.dir) >= BornOn(t.dir)}

NextOut(set) == Oldest(set)

(* The files of a directory go first, then the directory, if no file came  *)
(* between; a failure is noted and the pass goes on.                       *)
Unlink(d) ==
  /\ notes' = notes \ {d}
  /\ readable' = readable \ {d}
  /\ IF d = Live THEN meta' = "none" /\ lines' = <<>> /\ blobs' = {}
     ELSE UNCHANGED <<meta, lines, blobs>>
  /\ UNCHANGED <<relay, sent, inHand, recorder, buffer, log, jobs, dir>>

(* The loop over sessions: the expired ones are removed. *)
Expire(s) ==
  /\ pc = "expire" /\ victim = {}
  /\ s \in Oldest(known)
  /\ known' = known \ {s}
  /\ IF BornOn(s.dir) + Retention < cutoff
     THEN Unlink(s.dir) /\ victim' = {s} /\ UNCHANGED kept
     ELSE kept' = kept \cup {s} /\ UNCHANGED <<recVars, notes, readable, victim>>
  /\ UNCHANGED <<day, bornLive, there, pc, passes, cutoff, todo, total, gone, failed>>

(* The loop over remaining while it takes too much room. *)
Evict(s) ==
  /\ pc = "capacity" /\ victim = {}
  /\ total > MaxSize
  /\ s \in NextOut(kept)
  /\ kept' = kept \ {s}
  /\ Unlink(s.dir)
  /\ victim' = {s}
  /\ UNCHANGED <<day, bornLive, there, pc, passes, cutoff, todo, known, total, gone,
                 failed>>

Rmdir ==
  /\ victim # {}
  /\ victim' = {}
  /\ \E s \in victim :
       IF Size(s.dir) = 0
       THEN /\ gone' = gone \cup {s.dir}
            /\ there' = there \ {s.dir}
            /\ dir' = (dir /\ s.dir # Live)
            /\ total' = IF pc = "capacity" THEN total - s.size ELSE total
            /\ UNCHANGED failed
       ELSE /\ failed' = failed \cup {s.dir}
            /\ UNCHANGED <<gone, there, dir, total>>
  /\ UNCHANGED <<relay, sent, inHand, recorder, buffer, log, jobs, lines, blobs, meta,
                 day, bornLive, readable, notes, pc, passes, cutoff, todo, known, kept>>

(* From one loop to the next. *)
NextLoop ==
  /\ victim = {}
  /\ \/ /\ pc = "read" /\ todo = {}
        /\ pc' = "expire"
        /\ UNCHANGED total
     \/ /\ pc = "expire" /\ known = {}
        /\ pc' = "capacity"
        /\ total' = FoldSet(LAMBDA s, sum : s.size + sum, 0, kept)
     \/ /\ pc = "capacity"
        /\ total <= MaxSize \/ kept = {}
        /\ pc' = "sleep"
        /\ UNCHANGED total
  /\ UNCHANGED <<recVars, day, bornLive, there, readable, notes, passes, cutoff, todo,
                 known, kept, victim, gone, failed>>

CleanupStep ==
  \/ \E d \in Dirs : ReadInfo(d)
  \/ \E s \in known : Expire(s)
  \/ \E s \in kept : Evict(s)
  \/ Rmdir \/ NextLoop

Next ==
  \/ Recording \/ Tick
  \/ \E d \in Noted : Comment(d)
  \/ Begin \/ CleanupStep

Spec == Init /\ [][Next]_vars

(* The threads of the pool and of the clean-up run to their end. *)
FairSpec ==
  /\ Spec
  /\ WF_vars(JobEnds(1) /\ UNCHANGED storeVars)
  /\ WF_vars(CleanupStep)
-----------------------------------------------------------------------------
(* A pass never cuts away the directory of a session that is being         *)
(* recorded, or whose last lines are on their way, although nothing tells  *)
(* it that the session is live and room is made without a look at ages: it *)
(* cannot read the created_at of a recording (Readable), which is all that *)
(* stands between them.                                                    *)
RecordingIsNotCut ==
  recorder = "on" \/ jobs # <<>> => relay = "crashed" \/ (dir /\ meta # "none")

(* A young session makes room only after all older ones that the pass      *)
(* could read: each of them was removed, or its removal failed.            *)
OldestFirst ==
  \A s \in kept : \A d \in gone : BornOn(d) <= BornOn(s.dir)

(* Every line gets into the file, unless the gateway dies first. *)
EveryLineIsWritten ==
  \A n \in 1..(MaxUp + MaxDown) :
    (Len(log) >= n) ~> (relay = "crashed" \/ n \in ToSet(lines))

=============================================================================
