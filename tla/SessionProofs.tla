--------------------------- MODULE SessionProofs ---------------------------
(***************************************************************************)
(* Proofs about what a session leaves and what is said in it.              *)
(*                                                                         *)
(* SessionStore: its three invariants.  The recorder's log is what was     *)
(* passed on, direction by direction, but for what is in hand or waits in  *)
(* the buffer (RecInv); the cleanup knows only directories that were there *)
(* before (KnowsTheOld); and at every place of a pass, what it has removed *)
(* is no younger than what it keeps (PassInv).                             *)
(*                                                                         *)
(* AnswerVoice: its three invariants.  What the client has, what is        *)
(* buffered for it and what the voice still owes make up what was thought  *)
(* (SaidInv).  The cache of the voice is, entry by entry, the chunks that  *)
(* the rule of its window keeps (Kept), and what is fed of the chunk that  *)
(* is spoken stands behind those it may look at (Base, Speaks, CacheInv).  *)
(***************************************************************************)
EXTENDS SessionStore, AnswerVoice, WellFoundedInduction, SequenceTheorems,
        FiniteSetTheorems, TLAPS

Frames == Directions \X Nat
-----------------------------------------------------------------------------
(* A recording's frames, one after the other *)

LEMMA NothingNumbered ==
  ASSUME NEW d PROVE Numbered(d, <<>>, 0)
BY DEF Numbered

(* The next frame of a direction is recorded behind those before it. *)
LEMMA NumberedNext ==
  ASSUME NEW frames \in Seq(Frames), NEW n \in Nat, NEW d \in Directions,
         Numbered(d, frames, n)
  PROVE  Numbered(d, frames \o <<<<d, n + 1>>>>, n + 1)
<1> DEFINE more == frames \o <<<<d, n + 1>>>>
           k == Len(frames) + 1
           old == {i \in DOMAIN frames : frames[i][1] = d}
           mine == {i \in DOMAIN more : more[i][1] = d}
<1>1. /\ Len(frames) \in Nat /\ DOMAIN frames = 1..Len(frames) /\ DOMAIN more = 1..k
      /\ more[k] = <<d, n + 1>> /\ \A i \in DOMAIN frames : more[i] = frames[i]
  OBVIOUS
<1> HIDE DEF more
<1>2. mine = old \cup {k} /\ k \notin old
  BY <1>1
<1>3. {frames[i][2] : i \in old} = 1..n
      /\ \A i, j \in old : i < j => frames[i][2] < frames[j][2]
  BY DEF Numbered
<1>4. \A i \in old : i < k /\ more[i][2] = frames[i][2] /\ frames[i][2] \in 1..n
  BY <1>1, <1>3
<1>5. more[k][2] = n + 1
  BY <1>1
<1>6. {more[i][2] : i \in mine} = {frames[i][2] : i \in old} \cup {n + 1}
  BY <1>2, <1>4, <1>5
<1>7. {more[i][2] : i \in mine} = 1..(n + 1)
  <2>1. (1..n) \cup {n + 1} = 1..(n + 1)
    OBVIOUS
  <2> QED BY <1>3, <1>6, <2>1, Zenon
<1>8. ASSUME NEW i \in mine, NEW j \in mine, i < j PROVE more[i][2] < more[j][2]
  <2>1. CASE j = k
    BY <1>1, <1>2, <1>4, <1>5, <1>8, <2>1
  <2>2. CASE j # k
    BY <1>1, <1>2, <1>3, <1>4, <1>8, <2>2
  <2> QED BY <2>1, <2>2
<1> QED BY <1>7, <1>8 DEF Numbered, more

(* A frame of the other direction does not disturb the count. *)
LEMMA NumberedOther ==
  ASSUME NEW frames \in Seq(Frames), NEW n \in Nat, NEW d \in Directions,
         NEW e \in Directions \ {d}, NEW m, Numbered(d, frames, n)
  PROVE  Numbered(d, frames \o <<<<e, m>>>>, n)
<1> DEFINE more == frames \o <<<<e, m>>>>
           k == Len(frames) + 1
<1>1. /\ Len(frames) \in Nat /\ DOMAIN frames = 1..Len(frames) /\ DOMAIN more = 1..k
      /\ more[k] = <<e, m>> /\ \A i \in DOMAIN frames : more[i] = frames[i]
  OBVIOUS
<1> HIDE DEF more
<1>2. {i \in DOMAIN more : more[i][1] = d} = {i \in DOMAIN frames : frames[i][1] = d}
  BY <1>1
<1>3. \A i \in {j \in DOMAIN frames : frames[j][1] = d} : more[i][2] = frames[i][2]
  BY <1>1
<1> QED BY <1>2, <1>3 DEF Numbered, more

(* Up to session.created there is no recorder and what passes is buffered; *)
(* from then on the recorder is on until the handler ends.                 *)
RecordingTyped ==
  /\ sent \in [Directions -> Nat] /\ inHand \subseteq Directions
  /\ buffer \in Seq(Frames) /\ log \in Seq(Frames)
  /\ recorder \in {"none", "on", "closed"}

(* Without a recorder the buffer is numbered as the recording will be, so  *)
(* that the recording is in order from its first line on.                  *)
RecInv ==
  /\ RecordingTyped
  /\ \A d \in inHand : sent[d] > 0
  /\ recorder = "none" => log = <<>>
  /\ recorder = "closed" => relay # "on"
  /\ sent.down = 0 => recorder = "none"
  /\ recorder = "none" /\ relay = "on" =>
       \A d \in Directions : Numbered(d, buffer, Settled(d))
  /\ RecordedInOrder

(* Nothing has passed and nothing is recorded. *)
LEMMA RecInit == RecordingInit => RecInv
<1> SUFFICES ASSUME RecordingInit PROVE RecInv
  OBVIOUS
<1>1. \A d \in Directions : Settled(d) = 0
  BY DEF RecordingInit, Settled
<1>2. \A d \in Directions : Numbered(d, buffer, Settled(d))
  BY <1>1, NothingNumbered DEF RecordingInit
<1> QED BY <1>2 DEF RecordingInit, RecInv, RecordingTyped, RecordedInOrder, Directions

(* A frame passes: it is buffered or in hand, and the first one from the   *)
(* worker makes the recorder.                                              *)
LEMMA RecPass ==
  ASSUME RecInv, NEW d \in Directions, Pass(d)
  PROVE  RecInv'
<1>1. /\ relay = "on" /\ relay' = relay /\ d \notin inHand
      /\ sent' = [sent EXCEPT ![d] = sent[d] + 1] /\ inHand' = inHand \cup {d}
  BY DEF Pass
<1>2. RecordingTyped /\ recorder # "closed"
  BY <1>1 DEF RecInv
<1>3. /\ sent' \in [Directions -> Nat] /\ inHand' \subseteq Directions
      /\ \A e \in inHand' : sent'[e] > 0
  BY <1>1, <1>2 DEF RecInv, RecordingTyped
<1>4. ASSUME NEW e \in Directions
      PROVE  Settled(e)' = Settled(e) /\ Settled(e) \in Nat
             /\ Settled(e)' \in {sent'[e], sent'[e] - 1} /\ (sent'[e] = 0 => Settled(e)' = 0)
  <2>1. CASE e = d
    BY <1>1, <1>2, <2>1 DEF Settled, RecordingTyped
  <2>2. CASE e # d
    BY <1>1, <1>2, <2>2 DEF Settled, RecordingTyped, RecInv
  <2> QED BY <2>1, <2>2
<1>5. CASE UNCHANGED <<recorder, buffer, log>> /\ ~(d = "down" /\ sent.down = 0)
  <2>1. sent'.down = 0 => sent.down = 0
    BY <1>1, <1>2 DEF RecordingTyped, Directions
  <2>2. recorder' = "none" => \A e \in Directions : Numbered(e, buffer', Settled(e)')
    BY <1>1, <1>4, <1>5 DEF RecInv
  <2>3. recorder' # "none" => \A e \in Directions : Numbered(e, log', Settled(e)')
    BY <1>1, <1>2, <1>4, <1>5 DEF RecInv, RecordingTyped, RecordedInOrder
  <2> QED BY <1>1, <1>2, <1>3, <1>4, <1>5, <2>1, <2>2, <2>3
             DEF RecInv, RecordingTyped, RecordedInOrder
<1>6. CASE d = "down" /\ sent.down = 0 /\ EnsureRecorder
  <2>1. recorder = "none" /\ log = <<>>
    BY <1>6 DEF RecInv
  <2>2. \A e \in Directions : Numbered(e, buffer, Settled(e)')
    BY <1>1, <1>4, <2>1 DEF RecInv
  <2>3. sent'.down # 0
    BY <1>1, <1>2, <1>6 DEF RecordingTyped, Directions
  <2>4. CASE recorder' = "on" /\ Record(buffer) /\ buffer' = <<>>
    <3>1. log' = buffer /\ buffer' \in Seq(Frames)
      BY <1>2, <2>1, <2>4 DEF Record, RecordingTyped
    <3> QED BY <1>1, <1>2, <1>3, <1>4, <2>2, <2>3, <2>4, <3>1
               DEF RecInv, RecordingTyped, RecordedInOrder
  <2>5. CASE UNCHANGED <<recorder, buffer, log>>
    BY <1>1, <1>2, <1>3, <1>4, <2>1, <2>2, <2>3, <2>5
       DEF RecInv, RecordingTyped, RecordedInOrder
  <2> QED BY <1>6, <2>4, <2>5 DEF EnsureRecorder
<1> QED BY <1>5, <1>6 DEF Pass

(* A frame in hand is recorded, or buffered while there is no recorder. *)
LEMMA RecRecord ==
  ASSUME RecInv, NEW d \in Directions, RecordOrBuffer(d)
  PROVE  RecInv'
<1> DEFINE frame == <<<<d, sent[d]>>>>
<1>1. /\ relay = "on" /\ d \in inHand /\ inHand' = inHand \ {d}
      /\ UNCHANGED <<relay, sent, recorder>>
  BY DEF RecordOrBuffer
<1>2. RecordingTyped /\ recorder # "closed" /\ sent[d] > 0 /\ sent[d] \in Nat
  BY <1>1 DEF RecInv, RecordingTyped
<1>3. frame \in Seq(Frames)
  BY <1>2 DEF Frames
<1>4. Settled(d) \in Nat /\ sent[d] = Settled(d) + 1 /\ Settled(d)' = Settled(d) + 1
  BY <1>1, <1>2 DEF Settled, RecordingTyped
<1>5. ASSUME NEW e \in Directions \ {d}
      PROVE  Settled(e)' = Settled(e) /\ Settled(e) \in Nat
  BY <1>1, <1>2 DEF Settled, RecInv, RecordingTyped
<1>6. ASSUME NEW e \in Directions
      PROVE  Settled(e)' \in {sent'[e], sent'[e] - 1} /\ (sent'[e] = 0 => Settled(e)' = 0)
  BY <1>1, <1>2 DEF Settled, RecInv, RecordingTyped
<1>7. ASSUME NEW frames \in Seq(Frames),
             \A e \in Directions : Numbered(e, frames, Settled(e))
      PROVE  /\ frames \o frame \in Seq(Frames)
             /\ \A e \in Directions : Numbered(e, frames \o frame, Settled(e)')
  <2>1. frames \o frame \in Seq(Frames)
    BY <1>3
  <2>2. Numbered(d, frames \o frame, Settled(d)')
    BY <1>4, <1>7, NumberedNext
  <2>3. ASSUME NEW e \in Directions \ {d} PROVE Numbered(e, frames \o frame, Settled(e)')
    <3>1. d \in Directions \ {e} /\ Numbered(e, frames, Settled(e))
      BY <1>7
    <3>2. Numbered(e, frames \o frame, Settled(e))
      BY <1>5, <3>1, NumberedOther
    <3> QED BY <1>5, <3>2
  <2> QED BY <2>1, <2>2, <2>3
<1> HIDE DEF frame
<1>8. CASE recorder = "on" /\ Record(frame) /\ UNCHANGED buffer
  <2>1. \A e \in Directions : Numbered(e, log, Settled(e))
    BY <1>1, <1>8 DEF RecInv, RecordedInOrder
  <2>2. log' = log \o frame
    BY <1>8 DEF Record
  <2>3. log' \in Seq(Frames) /\ \A e \in Directions : Numbered(e, log', Settled(e)')
    BY <1>2, <1>7, <2>1, <2>2 DEF RecordingTyped
  <2> QED BY <1>1, <1>2, <1>6, <1>8, <2>3 DEF RecInv, RecordingTyped, RecordedInOrder
<1>9. CASE recorder = "none" /\ buffer' = buffer \o frame /\ UNCHANGED log
  <2>1. \A e \in Directions : Numbered(e, buffer, Settled(e))
    BY <1>1, <1>9 DEF RecInv
  <2>2. buffer' \in Seq(Frames) /\ \A e \in Directions : Numbered(e, buffer', Settled(e)')
    BY <1>2, <1>7, <1>9, <2>1 DEF RecordingTyped
  <2> QED BY <1>1, <1>2, <1>9, <2>2 DEF RecInv, RecordingTyped, RecordedInOrder
<1> QED BY <1>8, <1>9 DEF RecordOrBuffer, frame

(* The relay ends. *)
LEMMA RecOver ==
  ASSUME RecInv, relay' # "on", inHand' = {}, UNCHANGED <<sent, buffer, log>>,
         recorder' \in {recorder, "closed"}, recorder = "none" => recorder' = "none"
  PROVE  RecInv'
<1>1. \A d \in Directions : sent[d] \in Nat
  BY DEF RecInv, RecordingTyped
<1> QED BY <1>1 DEF RecInv, RecordingTyped, RecordedInOrder

(* Steps of the cleanup leave the relay and its recorder alone. *)
LEMMA RecSame ==
  RecInv /\ UNCHANGED <<relay, sent, inHand, recorder, buffer, log>> => RecInv'
BY DEF RecInv, RecordingTyped, RecordedInOrder, Settled

(* The recorder's steps *)
LEMMA RecStep == RecInv /\ RecorderStep => RecInv'
<1> SUFFICES ASSUME RecInv, RecorderStep PROVE RecInv'
  OBVIOUS
<1>1. ASSUME NEW d \in Directions, Pass(d) PROVE RecInv'
  BY <1>1, RecPass
<1>2. ASSUME NEW d \in Directions, RecordOrBuffer(d) PROVE RecInv'
  BY <1>2, RecRecord
<1>3. CASE Finish
  BY <1>3, RecOver DEF Finish
<1>4. CASE Crash
  <2>1. recorder' \in {recorder, "closed"}
    BY <1>4 DEF Crash
  <2> QED BY <1>4, <2>1, RecOver DEF Crash
<1>5. ASSUME NEW i \in 1..Threads, JobEnds(i) PROVE RecInv'
  BY <1>5, RecSame DEF JobEnds
<1> QED BY <1>1, <1>2, <1>3, <1>4, <1>5 DEF RecorderStep
-----------------------------------------------------------------------------
(* The directory of the recording is there and says so, from the start of  *)
(* the recorder on: a pass only ever removes old directories, since it     *)
(* knows no others.                                                        *)
DirsOf(set) == {s.dir : s \in set}

Recorded ==
  relay # "crashed" => IF recorder = "none" THEN jobs = <<>> ELSE dir /\ meta # "none"

KnowsTheOld ==
  /\ readable \subseteq Old /\ gone \subseteq Old
  /\ DirsOf(known) \subseteq Old /\ DirsOf(kept) \subseteq Old /\ DirsOf(victim) \subseteq Old

(* The pass knows of no session yet. *)
LEMMA KnowsInit == Init => KnowsTheOld
BY DEF Init, KnowsTheOld, DirsOf

(* Whatever the cleanup takes for a session is an old one. *)
LEMMA KnowsStep == KnowsTheOld /\ [Next]_vars => KnowsTheOld'
<1> SUFFICES ASSUME KnowsTheOld, [Next]_vars PROVE KnowsTheOld'
  OBVIOUS
<1>1. CASE Recording \/ Tick \/ UNCHANGED vars
  BY <1>1 DEF Recording, Tick, vars, storeVars, KnowsTheOld
<1>2. ASSUME NEW d \in Noted, Comment(d) PROVE KnowsTheOld'
  BY <1>2 DEF Comment, KnowsTheOld
<1>3. CASE Begin
  BY <1>3 DEF Begin, KnowsTheOld, DirsOf
<1>4. ASSUME NEW d \in Dirs, ReadInfo(d) PROVE KnowsTheOld'
  <2>1. DirsOf(known') \subseteq Old
    BY <1>4 DEF ReadInfo, KnowsTheOld, DirsOf, Readable
  <2> QED BY <1>4, <2>1 DEF ReadInfo, KnowsTheOld
<1>5. ASSUME NEW s \in known, Expire(s) PROVE KnowsTheOld'
  <2>1. s.dir \in Old /\ readable' \subseteq readable /\ known' \subseteq known
    BY <1>5 DEF Expire, Unlink, KnowsTheOld, DirsOf
  <2>2. kept' \subseteq kept \cup {s} /\ victim' \subseteq victim \cup {s} /\ gone' = gone
    BY <1>5 DEF Expire
  <2> QED BY <2>1, <2>2 DEF KnowsTheOld, DirsOf
<1>6. ASSUME NEW s \in kept, Evict(s) PROVE KnowsTheOld'
  <2>1. s.dir \in Old /\ readable' \subseteq readable
    BY <1>6 DEF Evict, Unlink, KnowsTheOld, DirsOf
  <2>2. kept' \subseteq kept /\ victim' = {s} /\ gone' = gone /\ known' = known
    BY <1>6 DEF Evict
  <2> QED BY <2>1, <2>2 DEF KnowsTheOld, DirsOf
<1>7. CASE Rmdir
  <2>1. PICK s \in victim : gone' \subseteq gone \cup {s.dir}
    BY <1>7 DEF Rmdir
  <2>2. victim' = {} /\ UNCHANGED <<readable, known, kept>>
    BY <1>7 DEF Rmdir
  <2> QED BY <2>1, <2>2 DEF KnowsTheOld, DirsOf
<1>8. CASE NextLoop
  BY <1>8 DEF NextLoop, KnowsTheOld
<1> QED BY <1>1, <1>2, <1>3, <1>4, <1>5, <1>6, <1>7, <1>8 DEF Next, CleanupStep

(* Nothing is asked of the live session's directory yet. *)
LEMMA RecordedInit == RecordingInit => Recorded
BY DEF RecordingInit, Recorded

(* What the recorder writes goes to a directory that it made. *)
LEMMA RecordedRecorder ==
  ASSUME RecInv, Recorded, RecorderStep
  PROVE  Recorded'
<1>0. recorder \in {"none", "on", "closed"}
  BY DEF RecInv, RecordingTyped
<1>1. ASSUME NEW d \in Directions, Pass(d) PROVE Recorded'
  BY <1>1 DEF Pass, EnsureRecorder, Recorded
<1>2. ASSUME NEW d \in Directions, RecordOrBuffer(d) PROVE Recorded'
  BY <1>2 DEF RecordOrBuffer, Recorded
<1>3. CASE Finish
  BY <1>0, <1>3 DEF Finish, Recorded
<1>4. CASE Crash
  BY <1>4 DEF Crash, Recorded
<1>5. ASSUME NEW i \in 1..Threads, JobEnds(i) PROVE Recorded'
  <2>1. jobs # <<>>
    <3> SUFFICES ASSUME jobs = <<>> PROVE FALSE
      OBVIOUS
    <3>1. i \in Nat /\ i >= 1 /\ i <= 0
      BY <1>5, RecordingAssumption DEF JobEnds
    <3> QED BY <3>1
  <2>2. UNCHANGED <<relay, recorder, dir>> /\ meta' \in {meta, "ended"}
    BY <1>5 DEF JobEnds
  <2> QED BY <2>1, <2>2 DEF Recorded
<1> QED BY <1>1, <1>2, <1>3, <1>4, <1>5 DEF RecorderStep

(* What a pass removes of an old directory is no part of the recording. *)
LEMMA RecordedAside ==
  ASSUME Recorded, UNCHANGED <<relay, recorder, jobs, dir, meta>>
  PROVE  Recorded'
BY DEF Recorded

(* The pass deletes nothing of the live session. *)
LEMMA UnlinkOld ==
  ASSUME NEW d \in Old, Unlink(d)
  PROVE  UNCHANGED <<relay, sent, inHand, recorder, buffer, log, jobs, dir, meta>>
BY StoreAssumption DEF Unlink

StoreInv == RecInv /\ Recorded /\ KnowsTheOld

(* The invariant of the store holds at first. *)
LEMMA StoreInit == Init => StoreInv
BY RecInit, RecordedInit, KnowsInit DEF Init, StoreInv

(* Every step of the relay, of the recorder and of the cleanup keeps it. *)
LEMMA StoreStep == StoreInv /\ [Next]_vars => StoreInv'
<1> SUFFICES ASSUME StoreInv, [Next]_vars PROVE (RecInv /\ Recorded)'
  BY KnowsStep DEF StoreInv
<1> DEFINE Aside == UNCHANGED <<relay, sent, inHand, recorder, buffer, log, jobs, dir, meta>>
<1>0. ASSUME Aside PROVE (RecInv /\ Recorded)'
  BY <1>0, RecSame, RecordedAside DEF StoreInv
<1>1. CASE Recording
  BY <1>1, RecStep, RecordedRecorder DEF Recording, StoreInv
<1>2. CASE Tick \/ Begin \/ NextLoop \/ UNCHANGED vars
  <2>1. Aside
    BY <1>2 DEF Tick, Begin, NextLoop, vars, recVars
  <2> QED BY <1>0, <2>1
<1>3. ASSUME NEW d \in Noted, Comment(d) PROVE (RecInv /\ Recorded)'
  BY <1>0, <1>3 DEF Comment, recVars
<1>4. ASSUME NEW d \in Dirs, ReadInfo(d) PROVE (RecInv /\ Recorded)'
  BY <1>0, <1>4 DEF ReadInfo, recVars
<1>5. ASSUME NEW s \in known, Expire(s) PROVE (RecInv /\ Recorded)'
  <2>1. s.dir \in Old
    BY DEF StoreInv, KnowsTheOld, DirsOf
  <2>2. Aside
    BY <1>5, <2>1, UnlinkOld DEF Expire, recVars
  <2> QED BY <1>0, <2>2
<1>6. ASSUME NEW s \in kept, Evict(s) PROVE (RecInv /\ Recorded)'
  <2>1. s.dir \in Old
    BY DEF StoreInv, KnowsTheOld, DirsOf
  <2>2. Aside
    BY <1>6, <2>1, UnlinkOld DEF Evict
  <2> QED BY <1>0, <2>2
<1>7. CASE Rmdir
  <2>1. \A s \in victim : s.dir # Live
    BY StoreAssumption DEF StoreInv, KnowsTheOld, DirsOf
  <2>2. UNCHANGED <<relay, sent, inHand, recorder, buffer, log, jobs, meta>>
    BY <1>7 DEF Rmdir
  <2>3. dir => dir'
    BY <1>7, <2>1 DEF Rmdir
  <2>4. RecInv'
    BY <2>2, RecSame DEF StoreInv
  <2> QED BY <2>2, <2>3, <2>4 DEF StoreInv, Recorded
<1> QED BY <1>1, <1>2, <1>3, <1>4, <1>5, <1>6, <1>7 DEF Next, CleanupStep

(* A recording holds the frames of each direction in order and misses none *)
(* that was passed on, but for the one in hand or, when the handler ended  *)
(* before it was recorded, the last: whenever the recorder is made between *)
(* the two tasks of the relay, and whatever waits in the buffer then.      *)
THEOREM RecordingTellsTheOrder == Spec => []RecordedInOrder
<1>1. StoreInv => RecordedInOrder
  BY DEF StoreInv, RecInv
<1> QED BY <1>1, StoreInit, StoreStep, PTL DEF Spec

(* No pass of the cleanup takes the directory of a session that is being   *)
(* recorded or that has lines left to write, for any number of sessions,   *)
(* any retention and any capacity.                                         *)
THEOREM CleanupSparesTheLive == Spec => []RecordingIsNotCut
<1>1. StoreInv => RecordingIsNotCut
  BY DEF StoreInv, Recorded, RecordingIsNotCut
<1> QED BY <1>1, StoreInit, StoreStep, PTL DEF Spec
-----------------------------------------------------------------------------
(* The order of a pass *)

Days ==
  /\ day \in Nat /\ cutoff \in Nat
  /\ pc \in {"sleep", "read", "expire", "capacity"}

Leaving == gone \cup DirsOf(victim)

(* What is kept while the pass looks at ages is young enough, and what     *)
(* goes is too old; what goes later is the oldest of those kept.           *)
PassInv ==
  /\ Days
  /\ KnowsTheOld
  /\ pc = "sleep" => victim = {}
  /\ pc = "read" => Leaving = {} /\ kept = {}
  /\ pc = "expire" =>
       /\ \A s \in kept : cutoff <= BornOn(s.dir) + Retention
       /\ \A d \in Leaving : BornOn(d) + Retention < cutoff
  /\ \A s \in kept : \A d \in Leaving : BornOn(d) <= BornOn(s.dir)

(* The old sessions have their days. *)
LEMMA BornOld ==
  /\ Retention \in Nat
  /\ \A d \in Old : BornOn(d) \in Nat /\ BornOn(d)' = BornOn(d)
BY StoreAssumption DEF BornOn

(* Before the first pass nothing is kept or gone. *)
LEMMA PassInit == Init => PassInv
BY KnowsInit DEF Init, PassInv, Days, Leaving, DirsOf

(* A step that neither moves the pass on nor adds to what is leaving *)
LEMMA PassAside ==
  ASSUME PassInv, KnowsTheOld', Days', UNCHANGED <<pc, cutoff>>,
         kept' \subseteq kept, Leaving' \subseteq Leaving, victim' \subseteq victim
  PROVE  PassInv'
<1>1. \A s \in kept : s.dir \in Old
  BY DEF PassInv, KnowsTheOld, DirsOf
<1>2. Leaving \subseteq Old
  BY DEF PassInv, KnowsTheOld, Leaving
<1> QED BY <1>1, <1>2, BornOld DEF PassInv

(* A session that is looked at for its age is kept or becomes a victim. *)
LEMMA PassExpire ==
  ASSUME PassInv, KnowsTheOld', NEW s \in known, Expire(s)
  PROVE  PassInv'
<1>1. /\ pc = "expire" /\ victim = {} /\ pc' = pc /\ cutoff' = cutoff /\ gone' = gone
      /\ Days' /\ s.dir \in Old
  BY DEF Expire, PassInv, Days, KnowsTheOld, DirsOf
<1>2. /\ \A t \in kept : t.dir \in Old
      /\ Leaving = gone /\ gone \subseteq Old
  BY <1>1 DEF PassInv, KnowsTheOld, DirsOf, Leaving
<1>3. cutoff \in Nat
  BY DEF PassInv, Days
<1>4. CASE BornOn(s.dir) + Retention < cutoff
  <2>1. kept' = kept /\ Leaving' = Leaving \cup {s.dir}
    BY <1>1, <1>2, <1>4 DEF Expire, Leaving, DirsOf
  <2>2. /\ \A t \in kept' : cutoff <= BornOn(t.dir)' + Retention
        /\ \A d \in Leaving' : BornOn(d)' + Retention < cutoff
    BY <1>1, <1>2, <1>4, <2>1, BornOld DEF PassInv
  <2>3. \A t \in kept' : \A d \in Leaving' : BornOn(d)' <= BornOn(t.dir)'
    BY <1>1, <1>2, <1>3, <2>1, <2>2, BornOld
  <2> QED BY <1>1, <2>2, <2>3 DEF PassInv
<1>5. CASE ~(BornOn(s.dir) + Retention < cutoff)
  <2>1. kept' = kept \cup {s} /\ Leaving' = Leaving
    BY <1>1, <1>2, <1>5 DEF Expire, Leaving, DirsOf
  <2>2. /\ \A t \in kept' : cutoff <= BornOn(t.dir)' + Retention
        /\ \A d \in Leaving' : BornOn(d)' + Retention < cutoff
    BY <1>1, <1>2, <1>3, <1>5, <2>1, BornOld DEF PassInv
  <2>3. \A t \in kept' : \A d \in Leaving' : BornOn(d)' <= BornOn(t.dir)'
    BY <1>1, <1>2, <1>3, <2>1, <2>2, BornOld
  <2> QED BY <1>1, <2>2, <2>3 DEF PassInv
<1> QED BY <1>4, <1>5

(* The session that goes to make room is the oldest of those kept. *)
LEMMA PassEvict ==
  ASSUME PassInv, KnowsTheOld', NEW s \in kept, Evict(s)
  PROVE  PassInv'
<1>1. /\ pc = "capacity" /\ victim = {} /\ pc' = pc /\ cutoff' = cutoff /\ gone' = gone
      /\ Days' /\ kept' = kept \ {s}
  BY DEF Evict, PassInv, Days
<1>2. \A t \in kept : t.dir \in Old
  BY DEF PassInv, KnowsTheOld, DirsOf
<1>3. Leaving = gone /\ gone \subseteq Old /\ Leaving' = gone \cup {s.dir}
  BY <1>1 DEF Evict, PassInv, KnowsTheOld, DirsOf, Leaving
<1>4. \A t \in kept : BornOn(s.dir) <= BornOn(t.dir)
  BY DEF Evict, NextOut, Oldest
<1>5. \A t \in kept' : \A d \in Leaving' : BornOn(d)' <= BornOn(t.dir)'
  BY <1>1, <1>2, <1>3, <1>4, BornOld DEF PassInv
<1> QED BY <1>1, <1>5 DEF PassInv

(* Every step keeps the order of the pass. *)
LEMMA PassStep == PassInv /\ [Next]_vars => PassInv'
<1> SUFFICES ASSUME PassInv, [Next]_vars PROVE PassInv'
  OBVIOUS
<1>0. KnowsTheOld'
  BY KnowsStep DEF PassInv
<1>1. CASE Recording \/ Tick \/ (\E d \in Noted : Comment(d)) \/ (\E d \in Dirs : ReadInfo(d))
           \/ UNCHANGED vars
  <2>1. UNCHANGED <<pc, cutoff, kept, gone, victim>> /\ day' \in {day, day + 1}
    BY <1>1 DEF Recording, Tick, Comment, ReadInfo, vars, storeVars
  <2>2. Days' /\ Leaving' = Leaving
    BY <2>1 DEF PassInv, Days, Leaving, DirsOf
  <2> QED BY <1>0, <2>1, <2>2, PassAside
<1>2. CASE Begin
  BY <1>0, <1>2 DEF Begin, PassInv, Days, Leaving, DirsOf
<1>3. ASSUME NEW s \in known, Expire(s) PROVE PassInv'
  BY <1>0, <1>3, PassExpire
<1>4. ASSUME NEW s \in kept, Evict(s) PROVE PassInv'
  BY <1>0, <1>4, PassEvict
<1>5. CASE Rmdir
  <2>1. UNCHANGED <<pc, cutoff, kept, day>> /\ victim' = {}
    BY <1>5 DEF Rmdir
  <2>2. Leaving' \subseteq Leaving
    BY <1>5 DEF Rmdir, Leaving, DirsOf
  <2>3. Days'
    BY <2>1 DEF PassInv, Days
  <2> QED BY <1>0, <2>1, <2>2, <2>3, PassAside
<1>6. CASE NextLoop
  <2>1. UNCHANGED <<cutoff, kept, gone, day>> /\ victim = {} /\ victim' = {}
    BY <1>6 DEF NextLoop
  <2>2. /\ pc' \in {"sleep", "expire", "capacity"}
        /\ pc' = "expire" => pc = "read"
    BY <1>6 DEF NextLoop
  <2>3. Leaving' = Leaving /\ Days'
    BY <2>1, <2>2 DEF PassInv, Days, Leaving, DirsOf
  <2>4. \A t \in kept' : \A d \in Leaving' : BornOn(d)' <= BornOn(t.dir)'
    <3>1. (\A t \in kept : t.dir \in Old) /\ Leaving \subseteq Old
      BY DEF PassInv, KnowsTheOld, DirsOf, Leaving
    <3> QED BY <2>1, <2>3, <3>1, BornOld DEF PassInv
  <2>5. pc' = "expire" => kept' = {} /\ Leaving' = {}
    BY <2>1, <2>2, <2>3 DEF PassInv
  <2> QED BY <1>0, <2>1, <2>2, <2>3, <2>4, <2>5 DEF PassInv
<1> QED BY <1>1, <1>2, <1>3, <1>4, <1>5, <1>6 DEF Next, CleanupStep

(* Whatever a pass removes is no younger than what it keeps, of those that *)
(* it could read: first by age, then to make room, also when a removal     *)
(* fails or a session is added in between.                                 *)
THEOREM OldSessionsGoFirst == Spec => []OldestFirst
<1>1. PassInv => OldestFirst
  BY DEF PassInv, OldestFirst, Leaving
<1> QED BY <1>1, PassInit, PassStep, PTL DEF Spec
-----------------------------------------------------------------------------
(* An answer.  The proofs of what FlattenSeq joins and of what the cache   *)
(* holds climb through the naturals and the sequences by a well-founded    *)
(* minimum: a counterexample would have a least one.                       *)
(* Whatever holds of 0 and goes from a number to the next holds of all.    *)
LEMMA Climb ==
  ASSUME NEW S, 0 \in S, \A n \in Nat : n \in S => n + 1 \in S
  PROVE  Nat \subseteq S
<1> DEFINE T == Nat \ S
<1> SUFFICES ASSUME T # {} PROVE FALSE
  OBVIOUS
<1>1. PICK x \in T : \A y \in T : ~(<<y, x>> \in OpToRel(<, Nat))
  <2>1. IsWellFoundedOn(OpToRel(<, Nat), Nat) /\ T \subseteq Nat
    BY NatLessThanWellFounded
  <2> HIDE DEF T
  <2> QED BY <2>1, WFMin
<1>2. x \in Nat /\ x # 0 /\ x - 1 \in Nat /\ x - 1 \in T
  OBVIOUS
<1>3. <<x - 1, x>> \in OpToRel(<, Nat)
  BY <1>2 DEF OpToRel
<1> QED BY <1>1, <1>2, <1>3

(* What holds of the empty sequence and goes on with every element holds   *)
(* of all sequences.                                                       *)
LEMMA SeqClimb ==
  ASSUME NEW X, NEW S, <<>> \in S, \A h \in Seq(X), x \in X : h \in S => Append(h, x) \in S
  PROVE  Seq(X) \subseteq S
<1> DEFINE N == {n \in Nat : \A h \in Seq(X) : Len(h) = n => h \in S}
<1>1. 0 \in N
  <2>1. \A h \in Seq(X) : Len(h) = 0 => h = <<>>
    OBVIOUS
  <2> QED BY <2>1
<1>2. ASSUME NEW n \in Nat, n \in N PROVE n + 1 \in N
  <2> SUFFICES ASSUME NEW h \in Seq(X), Len(h) = n + 1 PROVE h \in S
    OBVIOUS
  <2>1. /\ SubSeq(h, 1, n) \in Seq(X) /\ h[n + 1] \in X /\ Len(SubSeq(h, 1, n)) = n
        /\ h = Append(SubSeq(h, 1, n), h[n + 1])
    OBVIOUS
  <2>2. SubSeq(h, 1, n) \in S
    BY <1>2, <2>1
  <2>3. Append(SubSeq(h, 1, n), h[n + 1]) \in S
    BY <2>1, <2>2
  <2> QED BY <2>1, <2>3
<1>3. Nat \subseteq N
  <2> HIDE DEF N
  <2> QED BY <1>1, <1>2, Climb
<1>4. ASSUME NEW h \in Seq(X) PROVE h \in S
  <2>1. Len(h) \in Nat
    OBVIOUS
  <2> QED BY <1>3, <2>1
<1> QED BY <1>4

(* Appending to a concatenation. *)
LEMMA AppendJoins ==
  ASSUME NEW X, NEW e \in X
  PROVE  \A s, t \in Seq(X) : Append(s \o t, e) = s \o Append(t, e)
<1> SUFFICES ASSUME NEW s \in Seq(X), NEW t \in Seq(X)
             PROVE  Append(s \o t, e) = s \o Append(t, e)
  OBVIOUS
<1> DEFINE p == Append(s \o t, e)
           q == s \o Append(t, e)
<1>1. /\ p \in Seq(X) /\ q \in Seq(X) /\ Len(p) = Len(q)
      /\ \A i \in 1..Len(q) : p[i] = q[i]
  OBVIOUS
<1> HIDE DEF p, q
<1>2. p = q
  <2>1. \A x \in Seq(X) : x = [i \in 1..Len(x) |-> x[i]]
    OBVIOUS
  <2>2. [i \in 1..Len(p) |-> p[i]] = [i \in 1..Len(q) |-> q[i]]
    BY <1>1
  <2>3. p = [i \in 1..Len(p) |-> p[i]] /\ q = [i \in 1..Len(q) |-> q[i]]
    BY <1>1, <2>1
  <2> QED BY <2>2, <2>3
<1> QED BY <1>2 DEF p, q

(* Parts of a concatenation. *)
LEMMA FrontOf ==
  ASSUME NEW X, NEW a \in Seq(X), NEW b \in Seq(X)
  PROVE  SubSeq(a \o b, 1, Len(a)) = a
<1> DEFINE c == a \o b
           p == SubSeq(c, 1, Len(a))
<1>1. c \in Seq(X) /\ Len(c) = Len(a) + Len(b) /\ Len(a) \in Nat /\ Len(b) \in Nat
      /\ \A i \in 1..Len(a) : c[i] = a[i]
  OBVIOUS
<1> HIDE DEF c
<1>2. p \in Seq(X) /\ Len(p) = Len(a) /\ \A i \in 1..Len(a) : p[i] = c[i]
  BY <1>1
<1> HIDE DEF p
<1>3. p = a
  BY <1>1, <1>2, SeqEqual
<1> QED BY <1>3 DEF p, c

(* A sequence taken apart at n. *)
LEMMA Parted ==
  ASSUME NEW X, NEW s \in Seq(X), NEW n \in 0..Len(s)
  PROVE  /\ SubSeq(s, 1, n) \in Seq(X) /\ SubSeq(s, n + 1, Len(s)) \in Seq(X)
         /\ Len(SubSeq(s, 1, n)) = n
         /\ s = SubSeq(s, 1, n) \o SubSeq(s, n + 1, Len(s))
<1> DEFINE a == SubSeq(s, 1, n)
           b == SubSeq(s, n + 1, Len(s))
<1>0. Len(s) \in Nat /\ n \in Nat /\ n <= Len(s)
  OBVIOUS
<1>1. a \in Seq(X) /\ Len(a) = n /\ \A i \in 1..n : a[i] = s[i]
  BY <1>0
<1>2. b \in Seq(X) /\ Len(b) = Len(s) - n /\ \A i \in 1..(Len(s) - n) : b[i] = s[n + i]
  BY <1>0
<1> HIDE DEF a, b
<1>3. a \o b \in Seq(X) /\ Len(a \o b) = Len(s)
      /\ \A i \in 1..Len(s) : (a \o b)[i] = IF i <= n THEN a[i] ELSE b[i - n]
  <2>1. \A i \in 1..(Len(a) + Len(b)) : (a \o b)[i] = IF i <= Len(a) THEN a[i] ELSE b[i - Len(a)]
    BY <1>1, <1>2, ConcatProperties
  <2>2. a \o b \in Seq(X) /\ Len(a \o b) = Len(a) + Len(b)
    BY <1>1, <1>2, ConcatProperties
  <2>3. Len(a) + Len(b) = Len(s)
    BY <1>0, <1>1, <1>2
  <2> QED BY <1>1, <2>1, <2>2, <2>3
<1>4. ASSUME NEW i \in 1..Len(s) PROVE (a \o b)[i] = s[i]
  <2>1. CASE i <= n
    <3>1. i \in 1..n
      BY <1>0, <2>1
    <3> QED BY <1>1, <1>3, <2>1, <3>1
  <2>2. CASE ~(i <= n)
    <3>1. i - n \in 1..(Len(s) - n) /\ n + (i - n) = i
      BY <1>0, <2>2
    <3> QED BY <1>2, <1>3, <2>2, <3>1
  <2> QED BY <2>1, <2>2
<1>5. s = a \o b
  BY <1>3, <1>4, SeqEqual
<1> QED BY <1>1, <1>2, <1>5 DEF a, b

(* Three sequences, joined. *)
Three(p, q, r, X) ==
  /\ p \o q \in Seq(X) /\ q \o r \in Seq(X) /\ (p \o q) \o r \in Seq(X)
  /\ (p \o q) \o r = p \o (q \o r)
  /\ Len((p \o q) \o r) = Len(p \o q) + Len(r)
  /\ Len(p \o q) = Len(p) + Len(q)

(* Concatenation is associative, with the types and the lengths that go    *)
(* with it.                                                                *)
LEMMA JoinThree == \A X : \A p, q, r \in Seq(X) : Three(p, q, r, X)
<1> SUFFICES ASSUME NEW X, NEW p \in Seq(X), NEW q \in Seq(X), NEW r \in Seq(X)
             PROVE  Three(p, q, r, X)
  OBVIOUS
<1>1. p \o q \in Seq(X) /\ q \o r \in Seq(X) /\ Len(p \o q) = Len(p) + Len(q)
  BY ConcatProperties
<1>2. (p \o q) \o r \in Seq(X) /\ Len((p \o q) \o r) = Len(p \o q) + Len(r)
  BY <1>1, ConcatProperties
<1>3. (p \o q) \o r = p \o (q \o r)
  <2>1. \A a, b, c \in Seq(X) : (a \o b) \o c = a \o (b \o c)
    BY ConcatAssociative, SMTT(30)
  <2> QED BY <2>1, Zenon
<1> QED BY <1>1, <1>2, <1>3 DEF Three

(* FlattenSeq joins its sequences from the first on. *)
Joins(f, s) == f = [i \in 1..Len(s) |-> IF i = 1 THEN s[i] ELSE f[i - 1] \o s[i]]

(* The partial joins of a sequence of sequences exist. *)
LEMMA JoinExists ==
  ASSUME NEW X
  PROVE  \A s \in Seq(Seq(X)) : \E f : Joins(f, s)
<1> DEFINE S == {s \in Seq(Seq(X)) : \E f : Joins(f, s)}
<1>1. <<>> \in S
  <2>1. <<>> \in Seq(Seq(X)) /\ 1..Len(<<>>) = {}
    OBVIOUS
  <2>2. Joins([i \in {} |-> i], <<>>)
    BY <2>1 DEF Joins
  <2> QED BY <2>1, <2>2
<1>2. ASSUME NEW s \in Seq(Seq(X)), NEW x \in Seq(X), s \in S PROVE Append(s, x) \in S
  <2> DEFINE c == Append(s, x)
             n == Len(s)
  <2>1. /\ c \in Seq(Seq(X)) /\ Len(c) = n + 1 /\ n \in Nat /\ c[n + 1] = x
        /\ \A i \in 1..n : c[i] = s[i]
    OBVIOUS
  <2>2. PICK f : Joins(f, s)
    BY <1>2
  <2> HIDE DEF c, n
  <2> DEFINE g == [i \in 1..(n + 1) |-> IF i = n + 1 THEN (IF n = 0 THEN x ELSE f[n] \o x) ELSE f[i]]
  <2>3. \A i \in 1..n : f[i] = IF i = 1 THEN s[i] ELSE f[i - 1] \o s[i]
    BY <2>2, Zenon DEF Joins, n
  <2>4. \A i \in 1..n : g[i] = f[i]
    BY <2>1
  <2>5. ASSUME NEW i \in 1..(n + 1) PROVE g[i] = IF i = 1 THEN c[i] ELSE g[i - 1] \o c[i]
    <3>1. CASE i = n + 1
      <4>1. CASE n = 0
        BY <2>1, <3>1, <4>1
      <4>2. CASE n # 0
        <5>1. i # 1 /\ i - 1 = n /\ n \in 1..n
          BY <2>1, <3>1, <4>2
        <5> QED BY <2>1, <2>4, <3>1, <4>2, <5>1
      <4> QED BY <4>1, <4>2
    <3>2. CASE i # n + 1
      <4>1. i \in 1..n /\ (i # 1 => i - 1 \in 1..n)
        BY <2>1, <3>2
      <4>2. g[i] = f[i] /\ c[i] = s[i] /\ (i # 1 => g[i - 1] = f[i - 1])
        BY <2>1, <2>4, <4>1
      <4> HIDE DEF g
      <4> QED BY <2>3, <4>1, <4>2
    <3> QED BY <3>1, <3>2
  <2>6. g = [i \in 1..(n + 1) |-> g[i]]
    OBVIOUS
  <2> HIDE DEF g
  <2>7. g = [i \in 1..(n + 1) |-> IF i = 1 THEN c[i] ELSE g[i - 1] \o c[i]]
    BY <2>5, <2>6
  <2>8. Joins(g, c)
    BY <2>1, <2>7 DEF Joins
  <2> QED BY <2>1, <2>8 DEF c
<1>3. Seq(Seq(X)) \subseteq S
  <2> HIDE DEF S
  <2> QED BY <1>1, <1>2, SeqClimb
<1> QED BY <1>3

(* FlattenSeq is the last of the partial joins. *)
LEMMA JoinedSo ==
  ASSUME NEW X, NEW s \in Seq(Seq(X))
  PROVE  \E f : Joins(f, s) /\ (s # <<>> => FlattenSeq(s) = f[Len(s)])
<1>1. PICK g : Joins(g, s)
  BY JoinExists
<1>2. CASE s = <<>>
  BY <1>1, <1>2
<1>3. CASE s # <<>>
  <2>1. Len(s) # 0
    BY <1>3
  <2> QED BY <1>1, <2>1 DEF FlattenSeq, Joins
<1> QED BY <1>2, <1>3

(* FlattenSeq joins one sequence after the other. *)
LEMMA FlattenSteps ==
  ASSUME NEW X
  PROVE  /\ FlattenSeq(<<>>) = <<>>
         /\ \A s \in Seq(Seq(X)), x \in Seq(X) :
              /\ FlattenSeq(s) \in Seq(X)
              /\ FlattenSeq(Append(s, x)) = FlattenSeq(s) \o x
<1>1. FlattenSeq(<<>>) = <<>>
  BY DEF FlattenSeq
<1> DEFINE S == {s \in Seq(Seq(X)) : FlattenSeq(s) \in Seq(X)}
<1>2. ASSUME NEW s \in Seq(Seq(X)), NEW x \in Seq(X)
      PROVE  FlattenSeq(Append(s, x)) = IF s = <<>> THEN x ELSE FlattenSeq(s) \o x
  <2> DEFINE c == Append(s, x)
             n == Len(s)
  <2>1. /\ c \in Seq(Seq(X)) /\ Len(c) = n + 1 /\ n \in Nat /\ c[n + 1] = x /\ c # <<>>
        /\ (s = <<>> <=> n = 0)
        /\ \A i \in 1..n : c[i] = s[i]
    OBVIOUS
  <2>2. PICK f : Joins(f, s) /\ (s # <<>> => FlattenSeq(s) = f[n])
    BY JoinedSo
  <2> HIDE DEF c
  <2>3. PICK g : Joins(g, c) /\ (c # <<>> => FlattenSeq(c) = g[Len(c)])
    BY <2>1, JoinedSo
  <2>4. FlattenSeq(c) = g[n + 1]
    BY <2>1, <2>3
  <2>5. \A i \in 1..n : f[i] = IF i = 1 THEN s[i] ELSE f[i - 1] \o s[i]
    BY <2>2, Zenon DEF Joins
  <2> HIDE DEF n
  <2>6. \A i \in 1..(n + 1) : g[i] = IF i = 1 THEN c[i] ELSE g[i - 1] \o c[i]
    BY <2>1, <2>3, Zenon DEF Joins
  <2> DEFINE K == {k \in Nat : k \in 1..n => g[k] = f[k]}
  <2>7. 0 \in K
    OBVIOUS
  <2>8. ASSUME NEW k \in Nat, k \in K PROVE k + 1 \in K
    <3> SUFFICES ASSUME k + 1 \in 1..n PROVE g[k + 1] = f[k + 1]
      OBVIOUS
    <3>1. k + 1 \in 1..(n + 1) /\ c[k + 1] = s[k + 1] /\ (k + 1) - 1 = k
      BY <2>1
    <3>2. k + 1 # 1 => k \in 1..n /\ g[k] = f[k]
      BY <2>1, <2>8
    <3> QED BY <2>5, <2>6, <3>1, <3>2
  <2>9. n \in K
    <3> HIDE DEF K
    <3> QED BY <2>1, <2>7, <2>8, Climb
  <2>10. CASE s = <<>>
    <3>1. n = 0
      BY <2>1, <2>10
    <3>2. g[1] = c[1]
      BY <2>6, <3>1
    <3> QED BY <2>1, <2>4, <2>10, <3>1, <3>2 DEF c
  <2>11. CASE s # <<>>
    <3>1. n \in 1..n /\ n + 1 \in 1..(n + 1) /\ n + 1 # 1 /\ (n + 1) - 1 = n
      BY <2>1, <2>11
    <3>2. g[n + 1] = g[n] \o x /\ g[n] = f[n]
      BY <2>1, <2>6, <2>9, <3>1
    <3> QED BY <2>2, <2>4, <2>11, <3>2 DEF c
  <2> QED BY <2>10, <2>11
<1>3. <<>> \in S
  <2>1. <<>> \in Seq(Seq(X)) /\ <<>> \in Seq(X)
    OBVIOUS
  <2> QED BY <1>1, <2>1
<1>4. ASSUME NEW s \in Seq(Seq(X)), NEW x \in Seq(X), s \in S PROVE Append(s, x) \in S
  <2>1. Append(s, x) \in Seq(Seq(X)) /\ FlattenSeq(s) \o x \in Seq(X)
    <3>1. FlattenSeq(s) \in Seq(X)
      BY <1>4
    <3> HIDE DEF S
    <3> QED BY <3>1, ConcatProperties
  <2> QED BY <1>2, <2>1
<1>5. Seq(Seq(X)) \subseteq S
  <2> HIDE DEF S
  <2> QED BY <1>3, <1>4, SeqClimb
<1>6. ASSUME NEW s \in Seq(Seq(X)), NEW x \in Seq(X)
      PROVE  FlattenSeq(s) \in Seq(X) /\ FlattenSeq(Append(s, x)) = FlattenSeq(s) \o x
  <2>1. FlattenSeq(s) \in Seq(X)
    BY <1>5
  <2>2. <<>> \o x = x
    BY ConcatEmptySeq
  <2> QED BY <1>1, <1>2, <2>1, <2>2
<1> QED BY <1>1, <1>6
-----------------------------------------------------------------------------
(* What is left of a sequence, and runs of numbers *)

LEMMA BackOf ==
  ASSUME NEW X, NEW a \in Seq(X), NEW b \in Seq(X)
  PROVE  Drop(a \o b, Len(a)) = b
<1> DEFINE c == a \o b
           p == SubSeq(c, Len(a) + 1, Len(c))
<1>1. c \in Seq(X) /\ Len(c) = Len(a) + Len(b) /\ Len(a) \in Nat /\ Len(b) \in Nat
      /\ \A i \in 1..Len(b) : c[Len(a) + i] = b[i]
  OBVIOUS
<1> HIDE DEF c
<1>2. p \in Seq(X) /\ Len(p) = Len(b) /\ \A i \in 1..Len(b) : p[i] = c[Len(a) + i]
  BY <1>1
<1> HIDE DEF p
<1>3. p = b
  BY <1>1, <1>2, SeqEqual
<1> QED BY <1>3 DEF p, c, Drop

(* A sequence and the parts that n cuts it into *)
Cut(s, n, X) ==
  /\ SubSeq(s, 1, n) \in Seq(X) /\ Len(SubSeq(s, 1, n)) = n
  /\ Drop(s, n) \in Seq(X) /\ Len(Drop(s, n)) = Len(s) - n
  /\ SubSeq(s, 1, n) \o Drop(s, n) = s

(* The two parts of a sequence make it up again. *)
LEMMA CutAt == \A X : \A s \in Seq(X) : \A n \in 0..Len(s) : Cut(s, n, X)
<1> SUFFICES ASSUME NEW X, NEW s \in Seq(X), NEW n \in 0..Len(s) PROVE Cut(s, n, X)
  OBVIOUS
<1>1. /\ SubSeq(s, 1, n) \in Seq(X) /\ SubSeq(s, n + 1, Len(s)) \in Seq(X)
      /\ Len(SubSeq(s, 1, n)) = n
      /\ s = SubSeq(s, 1, n) \o SubSeq(s, n + 1, Len(s))
  BY Parted
<1>2. Len(SubSeq(s, n + 1, Len(s))) = Len(s) - n
  OBVIOUS
<1> QED BY <1>1, <1>2, Zenon DEF Cut, Drop

(* What a run of numbers is made of *)
IsRun(lo, hi) ==
  /\ Numbers(lo, hi) \in Seq(Nat)
  /\ hi + 1 >= lo => Len(Numbers(lo, hi)) = (hi + 1) - lo
  /\ hi < lo => Numbers(lo, hi) = <<>>
  /\ \A i \in 1..((hi + 1) - lo) : Numbers(lo, hi)[i] = (lo + i) - 1

LEMMA NumbersAre == \A lo \in Nat \ {0}, hi \in Nat : IsRun(lo, hi)
<1> SUFFICES ASSUME NEW lo \in Nat \ {0}, NEW hi \in Nat PROVE IsRun(lo, hi)
  OBVIOUS
<1>1. CASE hi + 1 >= lo
  <2>1. (hi + 1) - lo \in Nat /\ \A i \in 1..((hi + 1) - lo) : (lo + i) - 1 \in Nat
    BY <1>1
  <2>2. hi < lo => 1..((hi + 1) - lo) = {}
    BY <1>1
  <2> QED BY <1>1, <2>1, <2>2 DEF Numbers, IsRun
<1>2. CASE ~(hi + 1 >= lo)
  <2>1. 1..((hi + 1) - lo) = {}
    BY <1>2
  <2>2. Numbers(lo, hi) = <<>>
    BY <2>1 DEF Numbers
  <2> QED BY <1>2, <2>1, <2>2 DEF IsRun
<1> QED BY <1>1, <1>2

(* Two runs that touch are one. *)
RunsJoin(lo, mid, hi) ==
  lo <= mid + 1 /\ mid <= hi => Numbers(lo, mid) \o Numbers(mid + 1, hi) = Numbers(lo, hi)

LEMMA NumbersJoin == \A lo \in Nat \ {0}, mid, hi \in Nat : RunsJoin(lo, mid, hi)
<1> SUFFICES ASSUME NEW lo \in Nat \ {0}, NEW mid \in Nat, NEW hi \in Nat, lo <= mid + 1, mid <= hi
             PROVE  Numbers(lo, mid) \o Numbers(mid + 1, hi) = Numbers(lo, hi)
  BY DEF RunsJoin
<1> DEFINE a == Numbers(lo, mid)
           b == Numbers(mid + 1, hi)
           c == Numbers(lo, hi)
<1>1. /\ a \in Seq(Nat) /\ Len(a) = (mid + 1) - lo
      /\ \A i \in 1..((mid + 1) - lo) : a[i] = (lo + i) - 1
  <2>1. IsRun(lo, mid)
    BY NumbersAre, Zenon
  <2> QED BY <2>1 DEF IsRun
<1>2. /\ b \in Seq(Nat) /\ Len(b) = hi - mid
      /\ \A i \in 1..(hi - mid) : b[i] = mid + i
  <2>1. mid + 1 \in Nat \ {0} /\ (hi + 1) - (mid + 1) = hi - mid
    OBVIOUS
  <2>2. IsRun(mid + 1, hi)
    BY <2>1, NumbersAre, Zenon
  <2>3. hi + 1 >= mid + 1
    OBVIOUS
  <2>4. \A i \in 1..(hi - mid) : ((mid + 1) + i) - 1 = mid + i
    OBVIOUS
  <2> QED BY <2>1, <2>2, <2>3, <2>4 DEF IsRun
<1>3. /\ c \in Seq(Nat) /\ Len(c) = (hi + 1) - lo
      /\ \A i \in 1..((hi + 1) - lo) : c[i] = (lo + i) - 1
  <2>1. IsRun(lo, hi)
    BY NumbersAre, Zenon
  <2>2. hi + 1 >= lo
    OBVIOUS
  <2> QED BY <2>1, <2>2 DEF IsRun
<1> HIDE DEF a, b, c
<1>4. /\ a \o b \in Seq(Nat) /\ Len(a \o b) = Len(a) + Len(b)
      /\ \A i \in 1..(Len(a) + Len(b)) : (a \o b)[i] = IF i <= Len(a) THEN a[i] ELSE b[i - Len(a)]
  BY <1>1, <1>2, ConcatProperties
<1>5. Len(a) + Len(b) = Len(c)
  BY <1>1, <1>2, <1>3
<1>6. ASSUME NEW i \in 1..Len(c) PROVE (a \o b)[i] = c[i]
  <2>1. CASE i <= Len(a)
    BY <1>1, <1>3, <1>4, <1>5, <2>1
  <2>2. CASE ~(i <= Len(a))
    <3>1. i - Len(a) \in 1..(hi - mid) /\ mid + (i - Len(a)) = (lo + i) - 1
      BY <1>1, <1>3, <2>2
    <3>2. b[i - Len(a)] = (lo + i) - 1
      BY <1>2, <3>1
    <3> QED BY <1>3, <1>4, <1>5, <2>2, <3>2
  <2> QED BY <2>1, <2>2
<1>7. a \o b = c
  BY <1>3, <1>4, <1>5, <1>6, SeqEqual
<1> QED BY <1>7 DEF a, b, c

(* A run is prolonged by its next number. *)
LEMMA NumbersAppend ==
  ASSUME NEW n \in Nat
  PROVE  /\ Numbers(1, n) \in Seq(Nat) /\ Len(Numbers(1, n)) = n
         /\ Numbers(1, n + 1) = Append(Numbers(1, n), n + 1)
<1>0. n + 1 \in Nat \ {0} /\ 1 \in Nat \ {0}
  OBVIOUS
<1>1. Numbers(n + 1, n + 1) = <<n + 1>>
  <2>1. IsRun(n + 1, n + 1)
    BY <1>0, NumbersAre, Zenon
  <2>2. /\ Numbers(n + 1, n + 1) \in Seq(Nat) /\ Len(Numbers(n + 1, n + 1)) = 1
        /\ Numbers(n + 1, n + 1)[1] = n + 1
    BY <2>1 DEF IsRun
  <2> QED BY <2>2
<1>2. Numbers(1, n) \o Numbers(n + 1, n + 1) = Numbers(1, n + 1)
  <2>1. RunsJoin(1, n, n + 1)
    BY <1>0, NumbersJoin, Zenon
  <2> QED BY <2>1 DEF RunsJoin
<1>3. Numbers(1, n) \in Seq(Nat) /\ Len(Numbers(1, n)) = n
  <2>1. IsRun(1, n)
    BY <1>0, NumbersAre, Zenon
  <2> QED BY <2>1 DEF IsRun
<1>4. Numbers(1, n + 1) = Append(Numbers(1, n), n + 1)
  <2> DEFINE front == Numbers(1, n)
             all == Numbers(1, n + 1)
             one == Numbers(n + 1, n + 1)
  <2>1. front \o one = all /\ one = <<n + 1>> /\ front \in Seq(Nat)
    BY <1>1, <1>2, <1>3
  <2> HIDE DEF front, all, one
  <2>2. Append(front, n + 1) = front \o <<n + 1>>
    BY <1>0, <2>1, AppendIsConcat
  <2>3. all = Append(front, n + 1)
    BY <2>1, <2>2
  <2> QED BY <2>3 DEF front, all
<1> QED BY <1>3, <1>4
-----------------------------------------------------------------------------
(* What the client has, and what is on its way to it *)
Outs == [rest : Seq(Nat), wave : Seq(Nat), sound : Seq(Nat), lasts : Nat, text : Seq(Nat)]
Line(o) == (o.sound \o o.wave) \o o.rest
Tells(o, n) == o.text = Numbers(1, Len(o.text)) /\ Len(o.text) <= n
Speech(m) == Copies(Silence, 0) \o Numbers(1, m)

(* Between two tokens the buffer of the vocoder holds what it looked at,   *)
(* and that of the generator is not full.                                  *)
Flowing(o, m) ==
  /\ Len(o.wave) = Lookahead /\ Len(o.rest) < VoiceChunk
  /\ Line(o) = Speech(m)
  /\ o.lasts = 0

(* The sizes, one by one *)
LEMMA Sizes ==
  /\ TextChunk \in Nat \ {0} /\ MaxChunks \in Nat \ {0} /\ VoiceChunk \in Nat \ {0}
  /\ Lookahead \in Nat \ {0} /\ Silence = Lookahead /\ MaxVoice \in Nat \ {0}
  /\ TokenWindow \in Nat \ {0} /\ Recomputed \in Nat \ {0} /\ Window \in Nat
  /\ Recomputed < Window
BY VoiceAssumption

(* What is to be heard behind the silence, and how it grows *)
LEMMA SpeechIs ==
  \A m \in Nat : /\ Speech(m) \in Seq(Nat)
                 /\ Speech(m + 1) = Append(Speech(m), m + 1)
                 /\ Speech(m) # <<>>
<1> SUFFICES ASSUME NEW m \in Nat
             PROVE  /\ Speech(m) \in Seq(Nat)
                    /\ Speech(m + 1) = Append(Speech(m), m + 1)
                    /\ Speech(m) # <<>>
  OBVIOUS
<1> DEFINE c == Copies(Silence, 0)
<1>1. c \in Seq(Nat) /\ Len(c) = Silence /\ Silence \in Nat \ {0}
  BY Sizes DEF Copies
<1>2. /\ Numbers(1, m) \in Seq(Nat) /\ Numbers(1, m + 1) = Append(Numbers(1, m), m + 1)
      /\ m + 1 \in Nat
  <2>1. m + 1 \in Nat
    OBVIOUS
  <2> QED BY <2>1, NumbersAppend, Zenon
<1> HIDE DEF c
<1>3. Append(c \o Numbers(1, m), m + 1) = c \o Append(Numbers(1, m), m + 1)
  BY <1>1, <1>2, AppendJoins, Zenon
<1>4. c \o Numbers(1, m) \in Seq(Nat) /\ c \o Numbers(1, m) # <<>>
  BY <1>1, <1>2
<1> QED BY <1>2, <1>3, <1>4 DEF Speech, c

(* Text is shown up to a token, or stays when it is beyond it. *)
Shown(o, n) ==
  /\ Show(o, n) = [o EXCEPT !.text = Numbers(1, Most(Len(o.text), n))]
  /\ Show(o, n) \in Outs
  /\ Len(Show(o, n).text) = Most(Len(o.text), n)
  /\ Show(o, n).text = Numbers(1, Len(Show(o, n).text))

(* New text up to a token continues the text there is. *)
LEMMA ShowsUpTo ==
  \A o \in Outs, n \in Nat : o.text = Numbers(1, Len(o.text)) => Shown(o, n)
<1> SUFFICES ASSUME NEW o \in Outs, NEW n \in Nat, o.text = Numbers(1, Len(o.text))
             PROVE  Shown(o, n)
  OBVIOUS
<1> DEFINE k == Len(o.text)
           most == Most(k, n)
<1>1. o.text \in Seq(Nat) /\ k \in Nat /\ k + 1 \in Nat \ {0} /\ 1 \in Nat \ {0}
  BY DEF Outs
<1>2. most \in Nat /\ most >= k /\ most >= n
  BY <1>1 DEF Most
<1>3. o.text \o Numbers(k + 1, n) = Numbers(1, most)
  <2>1. CASE k <= n
    <3>1. RunsJoin(1, k, n)
      BY <1>1, NumbersJoin, Zenon
    <3>2. most = n
      BY <1>1, <2>1 DEF Most
    <3>3. 1 <= k + 1
      BY <1>1
    <3>4. o.text = Numbers(1, k)
      OBVIOUS
    <3> HIDE DEF k, most
    <3> QED BY <2>1, <3>1, <3>2, <3>3, <3>4, Zenon DEF RunsJoin
  <2>2. CASE ~(k <= n)
    <3>1. IsRun(k + 1, n)
      BY <1>1, NumbersAre, Zenon
    <3>2. Numbers(k + 1, n) = <<>> /\ most = k
      BY <1>1, <2>2, <3>1 DEF IsRun, Most
    <3>3. o.text \o <<>> = o.text
      BY <1>1
    <3> QED BY <3>2, <3>3
  <2> QED BY <2>1, <2>2
<1>4. Numbers(1, most) \in Seq(Nat) /\ Len(Numbers(1, most)) = most
  BY <1>2, NumbersAppend
<1>5. Show(o, n) = [o EXCEPT !.text = Numbers(1, most)]
  BY <1>3 DEF Show
<1> HIDE DEF k, most
<1>6. Show(o, n) \in Outs /\ Show(o, n).text = Numbers(1, most)
  BY <1>4, <1>5 DEF Outs
<1> QED BY <1>4, <1>5, <1>6 DEF Shown, k, most

(* A token of the voice goes on its way. *)
LEMMA BufferedFlows ==
  ASSUME NEW o \in Outs, NEW m \in Nat, Flowing(o, m), Tells(o, Handed),
         Handed \in Nat, Safe \in Nat, Safe <= Handed
  PROVE  /\ Buffered(o, m + 1) \in Outs
         /\ Flowing(Buffered(o, m + 1), m + 1)
         /\ Tells(Buffered(o, m + 1), Handed)
<1> DEFINE rest == Append(o.rest, m + 1)
           full == o.wave \o rest
<1>1. /\ o.rest \in Seq(Nat) /\ o.wave \in Seq(Nat) /\ o.sound \in Seq(Nat)
      /\ o.text \in Seq(Nat) /\ m + 1 \in Nat
  BY DEF Outs
<1>2. rest \in Seq(Nat) /\ Len(rest) = Len(o.rest) + 1 /\ Len(o.rest) \in Nat
  BY <1>1
<1>3. /\ Len(o.wave) = Lookahead /\ Len(o.rest) < VoiceChunk /\ o.lasts = 0
      /\ Line(o) = Speech(m) /\ Lookahead \in Nat \ {0} /\ VoiceChunk \in Nat \ {0}
  BY Sizes DEF Flowing
<1>4. (o.sound \o o.wave) \o rest = Speech(m + 1)
  <2>1. o.sound \o o.wave \in Seq(Nat)
    BY <1>1
  <2>2. Append((o.sound \o o.wave) \o o.rest, m + 1) = (o.sound \o o.wave) \o rest
    BY <1>1, <2>1, AppendJoins, Zenon
  <2> QED BY <1>3, <2>2, SpeechIs DEF Line
<1>5. full \in Seq(Nat) /\ Len(full) = Lookahead + Len(rest)
  <2>1. rest \in Seq(Nat) /\ o.wave \in Seq(Nat) /\ Len(o.wave) = Lookahead
    BY <1>1, <1>2, <1>3
  <2> HIDE DEF rest
  <2>2. full \in Seq(Nat) /\ Len(full) = Len(o.wave) + Len(rest)
    BY <2>1, ConcatProperties, Zenon
  <2> QED BY <2>1, <2>2, Zenon
<1> HIDE DEF rest, full
<1>6. CASE Len(rest) < VoiceChunk
  <2>1. Buffered(o, m + 1) = [o EXCEPT !.rest = rest]
    BY <1>6 DEF Buffered, rest
  <2> DEFINE b == [o EXCEPT !.rest = rest]
  <2>2. /\ b \in Outs /\ b.rest = rest /\ b.wave = o.wave /\ b.sound = o.sound
        /\ b.lasts = o.lasts /\ b.text = o.text
    BY <1>2 DEF Outs
  <2> HIDE DEF b
  <2>3. Flowing(b, m + 1) /\ Tells(b, Handed)
    BY <1>3, <1>4, <1>6, <2>2 DEF Flowing, Tells, Line
  <2> QED BY <2>1, <2>2, <2>3 DEF b
<1>7. CASE ~(Len(rest) < VoiceChunk)
  <2> DEFINE heard == SubSeq(full, 1, VoiceChunk)
             left == Drop(full, VoiceChunk)
  <2>1. Len(rest) = VoiceChunk /\ Len(full) = VoiceChunk + Lookahead
    <3>1. Len(rest) = VoiceChunk
      BY <1>2, <1>3, <1>7
    <3> QED BY <1>3, <1>5, <3>1
  <2>2. Drop(rest, VoiceChunk) = <<>> /\ SubSeq(rest, 1, VoiceChunk) = rest
    BY <1>2, <1>3, <2>1 DEF Drop
  <2>3. SubSeq(full, 1, Len(full)) = full /\ Len(full) - Lookahead = VoiceChunk
    BY <1>3, <1>5, <2>1
  <2>4. Cut(full, VoiceChunk, Nat)
    <3>1. VoiceChunk \in 0..Len(full)
      BY <1>3, <2>1
    <3> QED BY <1>5, <3>1, CutAt
  <2>5. heard \in Seq(Nat) /\ left \in Seq(Nat) /\ Len(left) = Lookahead /\ heard \o left = full
    <3>1. Len(full) - VoiceChunk = Lookahead
      BY <1>3, <2>1
    <3> QED BY <2>4, <3>1 DEF Cut
  <2> DEFINE a == [o EXCEPT !.rest = <<>>, !.wave = left, !.sound = o.sound \o heard]
  <2>6. Buffered(o, m + 1) = Show(a, Safe)
    <3>1. Buffered(o, m + 1) = Hear([o EXCEPT !.rest = <<>>], rest, FALSE)
      BY <1>7, <2>2 DEF Buffered, rest
    <3> DEFINE e == [o EXCEPT !.rest = <<>>]
    <3>2. /\ e.wave = o.wave /\ e.sound = o.sound /\ e.lasts = o.lasts
          /\ [e EXCEPT !.wave = left] = [o EXCEPT !.rest = <<>>, !.wave = left]
      BY DEF Outs
    <3>3. Hear(e, rest, FALSE) = Yielded([e EXCEPT !.wave = left], full, FALSE, Safe)
      <4>1. ~(Len(full) < VoiceChunk + Lookahead)
        BY <1>3, <2>1
      <4>2. e.wave \o rest = full
        BY <3>2 DEF full
      <4> HIDE DEF e
      <4> QED BY <2>1, <2>3, <4>1, <4>2 DEF Hear
    <3>4. Heard(full, FALSE) = heard
      BY <2>3 DEF Heard
    <3>5. Stream([e EXCEPT !.wave = left], full, FALSE) = a
      BY <3>2, <3>4 DEF Stream, Outs
    <3> QED BY <3>1, <3>3, <3>5 DEF Yielded
  <2>7. /\ a \in Outs /\ a.rest = <<>> /\ a.wave = left /\ a.sound = o.sound \o heard
        /\ a.lasts = o.lasts /\ a.text = o.text
    <3>1. heard \in Seq(Nat) /\ <<>> \in Seq(Nat)
      BY <2>5
    <3> HIDE DEF heard, left
    <3>2. o.sound \o heard \in Seq(Nat)
      BY <1>1, <3>1, ConcatProperties, Zenon
    <3> QED BY <2>5, <3>1, <3>2 DEF Outs
  <2> HIDE DEF heard, left, a
  <2>8. Line(a) = Speech(m + 1)
    <3>1. Three(o.sound, heard, left, Nat) /\ Three(o.sound, o.wave, rest, Nat)
      BY <1>1, <1>2, <2>5, JoinThree, Zenon
    <3>2. (o.sound \o heard) \o left = Speech(m + 1)
      BY <1>4, <2>5, <3>1 DEF Three, full
    <3>3. Speech(m + 1) \o <<>> = Speech(m + 1)
      BY <1>1, SpeechIs
    <3> QED BY <2>7, <3>2, <3>3 DEF Line
  <2>9. Shown(a, Safe)
    BY <2>7, ShowsUpTo DEF Tells
  <2>10. /\ Show(a, Safe).rest = <<>> /\ Show(a, Safe).wave = left
         /\ Show(a, Safe).sound = a.sound /\ Show(a, Safe).lasts = 0
    BY <1>3, <2>7, <2>9 DEF Shown, Outs
  <2>11. Line(Show(a, Safe)) = Line(a)
    BY <2>7, <2>10 DEF Line
  <2>12. Tells(Show(a, Safe), Handed)
    BY <1>1, <2>7, <2>9 DEF Shown, Tells, Most
  <2>13. Flowing(Show(a, Safe), m + 1)
    BY <1>3, <2>5, <2>8, <2>10, <2>11 DEF Flowing
  <2> QED BY <2>6, <2>9, <2>12, <2>13 DEF Shown
<1> QED BY <1>6, <1>7

(* What comes first in a concatenation is a prefix of it. *)
LEMMA PrefixOf ==
  \A s, t \in Seq(Nat) : IsPrefix(s, s \o t)
<1> SUFFICES ASSUME NEW s \in Seq(Nat), NEW t \in Seq(Nat) PROVE IsPrefix(s, s \o t)
  OBVIOUS
<1>1. SubSeq(s \o t, 1, Len(s)) = s /\ SubSeq(s, 1, Len(s)) = s
  <2>1. SubSeq(s \o t, 1, Len(s)) = s
    BY FrontOf
  <2>2. SubSeq(s, 1, Len(s)) = s
    OBVIOUS
  <2> QED BY <2>1, <2>2
<1>2. Len(s) <= Len(s \o t)
  OBVIOUS
<1> QED BY <1>1, <1>2 DEF IsPrefix

(* What was heard is the beginning of what is on the line. *)
LEMMA FlowingIsPrefix ==
  ASSUME NEW o \in Outs, NEW m \in Nat, Flowing(o, m)
  PROVE  IsPrefix(o.sound, Speech(m))
<1>1. o.sound \in Seq(Nat) /\ o.wave \in Seq(Nat) /\ o.rest \in Seq(Nat)
  BY DEF Outs
<1>2. Three(o.sound, o.wave, o.rest, Nat)
  BY <1>1, JoinThree, Zenon
<1>3. o.wave \o o.rest \in Seq(Nat) /\ o.sound \o (o.wave \o o.rest) = Speech(m)
  BY <1>2 DEF Three, Flowing, Line
<1> QED BY <1>1, <1>3, PrefixOf, Zenon

(* What is left in the generator's buffer is too little for a call. *)
LEMMA EmptiedIs ==
  ASSUME NEW o \in Outs, NEW m \in Nat, Flowing(o, m)
  PROVE  Emptied(o) = [o EXCEPT !.rest = <<>>, !.wave = o.wave \o o.rest]
<1>1. o.rest \in Seq(Nat) /\ o.wave \in Seq(Nat)
  BY DEF Outs
<1>2. Len(o.wave \o o.rest) = Len(o.wave) + Len(o.rest)
  BY <1>1
<1>3. Len(o.wave \o o.rest) < VoiceChunk + Lookahead
  BY <1>1, <1>2, Sizes DEF Flowing
<1> DEFINE e == [o EXCEPT !.rest = <<>>]
<1>4. e.wave = o.wave /\ [e EXCEPT !.wave = o.wave \o o.rest] = [o EXCEPT !.rest = <<>>, !.wave = o.wave \o o.rest]
  BY DEF Outs
<1>5. Emptied(o) = Hear(e, o.rest, TRUE)
  BY DEF Emptied
<1> HIDE DEF e
<1> QED BY <1>3, <1>4, <1>5 DEF Hear

(* The last call voices all there is. *)
LEMMA StreamEnds ==
  ASSUME NEW o \in Outs, NEW m \in Nat, Flowing(o, m), Tells(o, Handed), Handed \in Nat,
         NEW e \in {o, Emptied(o)}, NEW f, f = Flushed(IF e.rest = <<>> THEN e ELSE Emptied(e))
  PROVE  /\ f \in Outs /\ f.sound = Speech(m) /\ f.lasts = 1
         /\ Tells(f, Handed) /\ Len(f.text) = Handed
<1> DEFINE all == o.wave \o o.rest
           x == [o EXCEPT !.rest = <<>>, !.wave = all]
<1>1. /\ o.rest \in Seq(Nat) /\ o.wave \in Seq(Nat) /\ o.sound \in Seq(Nat)
      /\ o.text \in Seq(Nat) /\ <<>> \in Seq(Nat) /\ o.lasts = 0
  BY DEF Outs, Flowing
<1>2. all \in Seq(Nat) /\ Len(all) = Len(o.wave) + Len(o.rest)
  <2>1. Three(o.wave, o.rest, <<>>, Nat)
    BY <1>1, JoinThree, Zenon
  <2> QED BY <2>1 DEF Three
<1>3. all # <<>>
  <2>1. Len(o.rest) \in Nat
    BY <1>1
  <2>2. Len(o.wave) \in Nat \ {0}
    BY Sizes DEF Flowing
  <2>3. \A p \in Nat \ {0}, q \in Nat : p + q # 0
    OBVIOUS
  <2>4. Len(o.wave) + Len(o.rest) # 0
    BY <2>1, <2>2, <2>3, Zenon
  <2>5. Len(all) # 0
    BY <1>2, <2>4, Zenon
  <2> HIDE DEF all
  <2> QED BY <2>5
<1>4. Emptied(o) = x
  BY EmptiedIs
<1>5. x.rest = <<>> /\ x.wave = all /\ x.sound = o.sound /\ x.lasts = 0 /\ x.text = o.text
  BY <1>1 DEF Outs
<1>6. o.rest = <<>> => o = x
  <2> HAVE o.rest = <<>>
  <2>1. all = o.wave
    BY <1>1
  <2>2. o = [o EXCEPT !.rest = <<>>, !.wave = o.wave]
    BY DEF Outs
  <2> QED BY <2>1, <2>2
<1>7. f = Flushed(x)
  BY <1>4, <1>5, <1>6
<1> DEFINE y == [o EXCEPT !.rest = <<>>, !.wave = <<>>, !.sound = o.sound \o all, !.lasts = 1]
<1>8. Flushed(x) = Show(y, Handed)
  <2>1. Flushed(x) = Show(Stream([x EXCEPT !.wave = <<>>], all, TRUE), Handed)
    BY <1>3, <1>5 DEF Flushed, Yielded
  <2>2. Stream([x EXCEPT !.wave = <<>>], all, TRUE) = y
    <3> DEFINE z == [x EXCEPT !.wave = <<>>]
    <3>1. z = [o EXCEPT !.rest = <<>>, !.wave = <<>>] /\ z.sound = o.sound /\ z.lasts = 0
      BY <1>1 DEF Outs
    <3> HIDE DEF all, z
    <3>2. Heard(all, TRUE) = all /\ 0 + 1 = 1
      BY DEF Heard
    <3>3. Stream(z, all, TRUE) = [z EXCEPT !.sound = z.sound \o all, !.lasts = z.lasts + 1]
      BY <3>2, Zenon DEF Stream
    <3>4. Stream(z, all, TRUE) = [z EXCEPT !.sound = o.sound \o all, !.lasts = 1]
      BY <3>1, <3>2, <3>3, Zenon
    <3> QED BY <3>1, <3>4 DEF Outs, z
  <2> QED BY <2>1, <2>2
<1>9. /\ y \in Outs /\ y.sound = o.sound \o all /\ y.lasts = 1 /\ y.text = o.text
  <2> HIDE DEF all
  <2>1. o.sound \o all \in Seq(Nat)
    BY <1>1, <1>2, ConcatProperties, Zenon
  <2> QED BY <1>1, <2>1 DEF Outs
<1>10. o.sound \o all = Speech(m)
  <2>1. Three(o.sound, o.wave, o.rest, Nat)
    BY <1>1, JoinThree, Zenon
  <2> QED BY <2>1 DEF Three, Flowing, Line
<1> HIDE DEF all, x, y
<1>11. Shown(y, Handed)
  BY <1>9, ShowsUpTo DEF Tells
<1>12. /\ Show(y, Handed).sound = y.sound /\ Show(y, Handed).lasts = 1
       /\ Show(y, Handed) \in Outs
  BY <1>9, <1>11 DEF Shown, Outs
<1>13. Len(Show(y, Handed).text) = Handed
  BY <1>1, <1>9, <1>11 DEF Shown, Most, Tells
<1>14. Tells(Show(y, Handed), Handed)
  BY <1>11, <1>13 DEF Shown, Tells
<1> QED BY <1>7, <1>8, <1>9, <1>10, <1>12, <1>13, <1>14
-----------------------------------------------------------------------------
(* The calls of the vocoder for an answer made as a whole *)
Start(i) == VoiceChunk * (i - 1)
Seconds(k) == [i \in 1..k |-> Numbers(Start(i) + 1, Start(i + 1))]

(* Where the calls of the vocoder's loop begin *)
LEMMA StartIs ==
  /\ Start(1) = 0
  /\ \A i \in Nat \ {0} : Start(i) \in Nat /\ Start(i + 1) = Start(i) + VoiceChunk
<1>1. VoiceChunk \in Nat
  BY Sizes
<1>2. Start(1) = 0
  BY <1>1 DEF Start
<1>3. ASSUME NEW i \in Nat \ {0} PROVE Start(i) \in Nat /\ Start(i + 1) = Start(i) + VoiceChunk
  <2>1. i - 1 \in Nat /\ (i + 1) - 1 = (i - 1) + 1
    OBVIOUS
  <2>2. \A a, b \in Nat : a * b \in Nat /\ a * (b + 1) = a * b + a
    BY SMT
  <2>3. VoiceChunk * (i - 1) \in Nat /\ VoiceChunk * ((i - 1) + 1) = VoiceChunk * (i - 1) + VoiceChunk
    BY <1>1, <2>1, <2>2
  <2> QED BY <2>1, <2>3 DEF Start
<1> QED BY <1>2, <1>3

(* The calls begin one behind the other. *)
LEMMA StartsGrow ==
  \A i, j \in Nat \ {0} : i <= j => Start(i) <= Start(j)
<1> SUFFICES ASSUME NEW i \in Nat \ {0} PROVE \A j \in Nat \ {0} : i <= j => Start(i) <= Start(j)
  OBVIOUS
<1> DEFINE S == {d \in Nat : Start(i) <= Start(i + d)}
<1>1. 0 \in S
  <2>1. i + 0 = i /\ Start(i) \in Nat
    BY StartIs
  <2> QED BY <2>1
<1>2. ASSUME NEW d \in Nat, d \in S PROVE d + 1 \in S
  <2>1. i + d \in Nat \ {0} /\ i + (d + 1) = (i + d) + 1 /\ VoiceChunk \in Nat
    BY Sizes
  <2>2. Start(i + (d + 1)) = Start(i + d) + VoiceChunk /\ Start(i + d) \in Nat /\ Start(i) \in Nat
    BY <2>1, StartIs
  <2>3. Start(i) <= Start(i + d)
    BY <1>2
  <2>4. Start(i) <= Start(i + (d + 1))
    BY <2>1, <2>2, <2>3
  <2> QED BY <2>4
<1>3. Nat \subseteq S
  <2> HIDE DEF S
  <2> QED BY <1>1, <1>2, Climb
<1>4. ASSUME NEW j \in Nat \ {0}, i <= j PROVE Start(i) <= Start(j)
  <2>1. j - i \in Nat /\ i + (j - i) = j
    BY <1>4
  <2>2. Start(i) <= Start(i + (j - i))
    BY <1>3, <2>1
  <2> QED BY <2>1, <2>2
<1> QED BY <1>4

(* Seconds of voice, one after the other, are the voice so far. *)
Voiced(k) ==
  /\ Seconds(k) \in Seq(Seq(Nat)) /\ Len(Seconds(k)) = k
  /\ FlattenSeq(Seconds(k)) = Numbers(1, Start(k + 1))
  /\ Seconds(k + 1) = Append(Seconds(k), Numbers(Start(k + 1) + 1, Start(k + 2)))

(* The calls heard one after the other are one run of tokens. *)
LEMMA SecondsAre == \A k \in Nat : Voiced(k)
<1> DEFINE Piece(i) == Numbers(Start(i) + 1, Start(i + 1))
<1>1. \A i \in Nat \ {0} : Piece(i) \in Seq(Nat)
  <2> SUFFICES ASSUME NEW i \in Nat \ {0} PROVE Piece(i) \in Seq(Nat)
    OBVIOUS
  <2>0. i + 1 \in Nat \ {0}
    OBVIOUS
  <2>1. Start(i) \in Nat /\ Start(i + 1) \in Nat
    BY <2>0, StartIs, Zenon
  <2>a. Start(i) + 1 \in Nat \ {0}
    BY <2>1
  <2>2. IsRun(Start(i) + 1, Start(i + 1))
    BY <2>1, <2>a, NumbersAre, Zenon
  <2> QED BY <2>2 DEF IsRun
<1>2. \A k \in Nat : Seconds(k) \in Seq(Seq(Nat)) /\ Len(Seconds(k)) = k
  BY <1>1 DEF Seconds
<1>3. ASSUME NEW k \in Nat
      PROVE  Seconds(k + 1) = Append(Seconds(k), Numbers(Start(k + 1) + 1, Start(k + 2)))
  <2>1. (k + 1) + 1 = k + 2 /\ k + 1 \in Nat
    OBVIOUS
  <2> DEFINE a == Seconds(k + 1)
             b == Append(Seconds(k), Piece(k + 1))
  <2>2. a \in Seq(Seq(Nat)) /\ Len(a) = k + 1 /\ \A i \in 1..(k + 1) : a[i] = Piece(i)
    BY <1>2, <2>1 DEF Seconds
  <2>3. Piece(k + 1) \in Seq(Nat) /\ Seconds(k) \in Seq(Seq(Nat)) /\ Len(Seconds(k)) = k
    BY <1>1, <1>2, <2>1
  <2>4. \A i \in 1..k : Seconds(k)[i] = Piece(i)
    BY DEF Seconds
  <2>5. b \in Seq(Seq(Nat)) /\ Len(b) = k + 1 /\ \A i \in 1..(k + 1) : b[i] = Piece(i)
    <3> HIDE DEF Piece
    <3> QED BY <2>3, <2>4
  <2>6. a = b
    <3> HIDE DEF a, b, Piece
    <3> QED BY <2>2, <2>5, SeqEqual
  <2> QED BY <2>1, <2>6
<1> DEFINE S == {k \in Nat : FlattenSeq(Seconds(k)) = Numbers(1, Start(k + 1))}
<1>4. 0 \in S
  <2>1. Seconds(0) = <<>>
    BY DEF Seconds
  <2>2. FlattenSeq(<<>>) = <<>>
    BY FlattenSteps
  <2>3. Numbers(1, Start(0 + 1)) = <<>>
    <3>1. Start(0 + 1) = 0
      BY StartIs
    <3>2. IsRun(1, 0)
      BY NumbersAre
    <3> QED BY <3>1, <3>2 DEF IsRun
  <2> QED BY <2>1, <2>2, <2>3
<1>5. ASSUME NEW k \in Nat, k \in S PROVE k + 1 \in S
  <2>0. (k + 1) + 1 = k + 2 /\ k + 1 \in Nat \ {0} /\ k + 2 \in Nat \ {0} /\ 1 \in Nat \ {0}
    OBVIOUS
  <2> DEFINE x == Numbers(Start(k + 1) + 1, Start(k + 2))
  <2>1. x \in Seq(Nat)
    BY <1>1, <2>0
  <2>2. FlattenSeq(Append(Seconds(k), x)) = FlattenSeq(Seconds(k)) \o x
    <3>1. Seconds(k) \in Seq(Seq(Nat))
      BY <1>2
    <3> HIDE DEF x
    <3> QED BY <2>1, <3>1, FlattenSteps, Zenon
  <2>3. Start(k + 1) \in Nat /\ Start(k + 2) = Start(k + 1) + VoiceChunk /\ VoiceChunk \in Nat
        /\ Start(k + 2) \in Nat
    <3>1. Start((k + 1) + 1) = Start(k + 1) + VoiceChunk /\ Start(k + 1) \in Nat /\ Start(k + 2) \in Nat
      BY <2>0, StartIs, Zenon
    <3> QED BY <2>0, <3>1, Sizes
  <2>4. Numbers(1, Start(k + 1)) \o x = Numbers(1, Start(k + 2))
    <3>1. RunsJoin(1, Start(k + 1), Start(k + 2))
      BY <2>0, <2>3, NumbersJoin, Zenon
    <3>2. 1 <= Start(k + 1) + 1 /\ Start(k + 1) <= Start(k + 2)
      BY <2>3
    <3> QED BY <3>1, <3>2, Zenon DEF RunsJoin
  <2>5. FlattenSeq(Seconds(k)) = Numbers(1, Start(k + 1))
    BY <1>5
  <2>6. FlattenSeq(Seconds(k + 1)) = Numbers(1, Start((k + 1) + 1))
    BY <1>3, <2>0, <2>2, <2>4, <2>5
  <2> QED BY <2>0, <2>6
<1>6. Nat \subseteq S
  <2> HIDE DEF S
  <2> QED BY <1>4, <1>5, Climb
<1>7. \A k \in Nat : FlattenSeq(Seconds(k)) = Numbers(1, Start(k + 1))
  BY <1>6
<1> QED BY <1>2, <1>3, <1>7 DEF Voiced

(* What division leaves *)
LEMMA Division ==
  \A a \in Nat, v \in Nat \ {0} :
    /\ a \div v \in Nat /\ v * (a \div v) \in Nat
    /\ v * (a \div v) <= a /\ a < v * (a \div v) + v
    /\ a % v = 0 <=> v * (a \div v) = a
BY SMT

(* How often the loop goes round, and that a call is left to do behind it *)
Rounds(n, q) ==
  /\ q \in Nat
  /\ Start(q + 1) < n /\ n < Start(q + 1) + VoiceChunk + Lookahead
  /\ q > 0 => Start(q) + VoiceChunk + Lookahead <= n
  /\ (n >= VoiceChunk + Lookahead /\ (n - VoiceChunk - Lookahead) % VoiceChunk = 0)
       <=> (q > 0 /\ Start(q) + VoiceChunk + Lookahead = n)

(* How many calls the loop makes, and which of them is told to be the last *)
CallOf(n, i) ==
  [tokens |-> Numbers(Start(i) + 1, Start(i) + VoiceChunk + Lookahead),
   last |-> Start(i) + VoiceChunk + Lookahead >= n]

LEMMA RoundsAre ==
  \A n \in Nat \ {0} :
    \E q : /\ Rounds(n, q)
           /\ VocoderCalls(n) =
                [i \in 1..q |-> CallOf(n, i)]
                  \o <<[tokens |-> Numbers(Start(q + 1) + 1, n), last |-> TRUE]>>
<1> SUFFICES ASSUME NEW n \in Nat \ {0}
             PROVE  \E q : /\ Rounds(n, q)
                           /\ VocoderCalls(n) =
                                [i \in 1..q |-> CallOf(n, i)]
                                  \o <<[tokens |-> Numbers(Start(q + 1) + 1, n), last |-> TRUE]>>
  OBVIOUS
<1> DEFINE size == VoiceChunk + Lookahead
           q == IF n < size THEN 0 ELSE (n - size) \div VoiceChunk + 1
<1>0. VoiceChunk \in Nat \ {0} /\ Lookahead \in Nat \ {0} /\ size \in Nat
      /\ n - VoiceChunk - Lookahead = n - size
  BY Sizes
<1>1. Rounds(n, q)
  <2>1. CASE n < size
    <3>1. q = 0 /\ Start(0 + 1) = 0
      BY <2>1, StartIs
    <3> QED BY <1>0, <2>1, <3>1 DEF Rounds
  <2>2. CASE ~(n < size)
    <3> DEFINE a == n - size
               d == a \div VoiceChunk
    <3>1. a \in Nat /\ n = a + size
      BY <1>0, <2>2
    <3>2. /\ d \in Nat /\ VoiceChunk * d \in Nat
          /\ VoiceChunk * d <= a /\ a < VoiceChunk * d + VoiceChunk
          /\ a % VoiceChunk = 0 <=> VoiceChunk * d = a
      BY <1>0, <3>1, Division
    <3>3. q = d + 1
      BY <2>2
    <3> HIDE DEF d
    <3>4. d + 1 \in Nat \ {0} /\ (d + 1) - 1 = d
      BY <3>2
    <3>5. Start(d + 1) = VoiceChunk * d /\ Start((d + 1) + 1) = Start(d + 1) + VoiceChunk
      BY <3>4, StartIs, Zenon DEF Start
    <3> HIDE DEF a, q
    <3> QED BY <1>0, <3>1, <3>2, <3>3, <3>4, <3>5 DEF Rounds, a
  <2> QED BY <2>1, <2>2
<1>2. VocoderCalls(n) =
        [i \in 1..q |-> CallOf(n, i)]
          \o <<[tokens |-> Numbers(Start(q + 1) + 1, n), last |-> TRUE]>>
  <2>1. q \in Nat /\ (q + 1) - 1 = q /\ Start(q + 1) < n
    <3> HIDE DEF q
    <3> QED BY <1>1 DEF Rounds
  <2>2. VoiceChunk * q = Start(q + 1)
    <3> HIDE DEF q
    <3> QED BY <2>1 DEF Start
  <2>3. ~(VoiceChunk * q >= n)
    <3> HIDE DEF q
    <3>1. Start(q + 1) \in Nat
      BY <2>1, StartIs
    <3> QED BY <2>1, <2>2, <3>1
  <2>4. \A i \in 1..q : CallOf(n, i) =
          [tokens |-> Numbers(VoiceChunk * (i - 1) + 1, VoiceChunk * (i - 1) + size),
           last |-> VoiceChunk * (i - 1) + size >= n]
    <3> HIDE DEF q
    <3> SUFFICES ASSUME NEW i \in 1..q
                 PROVE  CallOf(n, i) =
                          [tokens |-> Numbers(VoiceChunk * (i - 1) + 1, VoiceChunk * (i - 1) + size),
                           last |-> VoiceChunk * (i - 1) + size >= n]
      OBVIOUS
    <3>0. i \in Nat \ {0}
      BY <2>1
    <3>a. Start(i) \in Nat
      BY <3>0, StartIs
    <3>1. Start(i) \in Nat /\ Start(i) = VoiceChunk * (i - 1)
      BY <3>a, Zenon DEF Start
    <3>2. (Start(i) + VoiceChunk) + Lookahead = Start(i) + size
      BY <1>0, <3>1
    <3> QED BY <3>1, <3>2, Zenon DEF CallOf
  <2> DEFINE Short(i) == [tokens |-> Numbers(VoiceChunk * (i - 1) + 1, VoiceChunk * (i - 1) + size),
                          last |-> VoiceChunk * (i - 1) + size >= n]
  <2>5. VocoderCalls(n) =
          [i \in 1..q |-> Short(i)]
            \o (IF VoiceChunk * q >= n THEN <<>>
                ELSE <<[tokens |-> Numbers(VoiceChunk * q + 1, n), last |-> TRUE]>>)
    BY Zenon DEF VocoderCalls
  <2>6. [i \in 1..q |-> Short(i)] = [i \in 1..q |-> CallOf(n, i)]
    <3> HIDE DEF q
    <3> QED BY <2>4, Zenon
  <2> HIDE DEF q, Short
  <2> QED BY <2>2, <2>3, <2>5, <2>6
<1> QED BY <1>1, <1>2

Twice(n) == n >= VoiceChunk + Lookahead /\ (n - VoiceChunk - Lookahead) % VoiceChunk = 0

(* What is heard of a call that is not the last one *)
LEMMA HeardRun ==
  ASSUME NEW a \in Nat
  PROVE  Heard(Numbers(a + 1, (a + VoiceChunk) + Lookahead), FALSE) = Numbers(a + 1, a + VoiceChunk)
<1> DEFINE p == Numbers(a + 1, a + VoiceChunk)
           r == Numbers((a + VoiceChunk) + 1, (a + VoiceChunk) + Lookahead)
<1>1. /\ VoiceChunk \in Nat \ {0} /\ Lookahead \in Nat \ {0}
      /\ a + 1 \in Nat \ {0} /\ a + VoiceChunk \in Nat /\ (a + VoiceChunk) + Lookahead \in Nat
      /\ (a + VoiceChunk) + 1 \in Nat \ {0}
  BY Sizes
<1>2. p \in Seq(Nat) /\ Len(p) = VoiceChunk
  <2>1. IsRun(a + 1, a + VoiceChunk)
    BY <1>1, NumbersAre, Zenon
  <2>2. (a + VoiceChunk) + 1 >= a + 1 /\ ((a + VoiceChunk) + 1) - (a + 1) = VoiceChunk
    BY <1>1
  <2> QED BY <2>1, <2>2 DEF IsRun
<1>3. r \in Seq(Nat) /\ Len(r) = Lookahead
  <2>1. IsRun((a + VoiceChunk) + 1, (a + VoiceChunk) + Lookahead)
    BY <1>1, NumbersAre, Zenon
  <2>2. /\ ((a + VoiceChunk) + Lookahead) + 1 >= (a + VoiceChunk) + 1
        /\ (((a + VoiceChunk) + Lookahead) + 1) - ((a + VoiceChunk) + 1) = Lookahead
    BY <1>1
  <2> QED BY <2>1, <2>2 DEF IsRun
<1>4. Numbers(a + 1, (a + VoiceChunk) + Lookahead) = p \o r
  <2>1. RunsJoin(a + 1, a + VoiceChunk, (a + VoiceChunk) + Lookahead)
    BY <1>1, NumbersJoin, Zenon
  <2>2. a + 1 <= (a + VoiceChunk) + 1 /\ a + VoiceChunk <= (a + VoiceChunk) + Lookahead
    BY <1>1
  <2> QED BY <2>1, <2>2, Zenon DEF RunsJoin
<1> HIDE DEF p, r
<1>5. Len(p \o r) - Lookahead = Len(p)
  BY <1>1, <1>2, <1>3
<1>6. SubSeq(p \o r, 1, Len(p)) = p
  BY <1>2, <1>3, FrontOf, Zenon
<1>7. Heard(p \o r, FALSE) = p
  BY <1>5, <1>6 DEF Heard
<1> QED BY <1>4, <1>7 DEF p

(* What the vocoder makes of a whole answer *)
LEMMA WholeIsVoiced ==
  ASSUME NEW o \in Outs, NEW n \in Nat \ {0}
  PROVE  LET all == Numbers(1, n)
         IN  VocodedWhole(o, n) =
               [o EXCEPT !.sound = IF Twice(n) THEN all \o Drop(all, n - Lookahead) ELSE all,
                         !.lasts = IF Twice(n) THEN 2 ELSE 1]
<1> DEFINE calls == VocoderCalls(n)
           pieces == [i \in DOMAIN calls |-> Heard(calls[i].tokens, calls[i].last)]
           lasts == {i \in DOMAIN calls : calls[i].last}
           all == Numbers(1, n)
<1>1. PICK q : /\ Rounds(n, q)
               /\ calls = [i \in 1..q |-> CallOf(n, i)]
                            \o <<[tokens |-> Numbers(Start(q + 1) + 1, n), last |-> TRUE]>>
  BY RoundsAre
<1>2. /\ q \in Nat /\ q + 1 \in Nat \ {0} /\ Start(q + 1) \in Nat
      /\ Start(q + 1) < n /\ n < Start(q + 1) + VoiceChunk + Lookahead
      /\ q > 0 => Start(q) \in Nat /\ Start(q) + VoiceChunk + Lookahead <= n
                  /\ Start(q + 1) = Start(q) + VoiceChunk
      /\ Twice(n) <=> (q > 0 /\ Start(q) + VoiceChunk + Lookahead = n)
      /\ VoiceChunk \in Nat \ {0} /\ Lookahead \in Nat \ {0}
  <2>1. q \in Nat /\ q + 1 \in Nat \ {0} /\ (q > 0 => q \in Nat \ {0})
    BY <1>1 DEF Rounds
  <2>2. Start(q + 1) \in Nat /\ (q > 0 => Start(q) \in Nat /\ Start(q + 1) = Start(q) + VoiceChunk)
    BY <2>1, StartIs
  <2> QED BY <1>1, <2>1, <2>2, Sizes DEF Rounds, Twice
<1> DEFINE first == [i \in 1..q |-> CallOf(n, i)]
           rest == Numbers(Start(q + 1) + 1, n)
<1>3. /\ DOMAIN calls = 1..(q + 1)
      /\ \A i \in 1..q : calls[i] = CallOf(n, i)
      /\ calls[q + 1] = [tokens |-> rest, last |-> TRUE]
  <2> DEFINE C == [tokens : {Numbers(a, b) : a, b \in Nat}, last : BOOLEAN]
             end == [tokens |-> rest, last |-> TRUE]
  <2>1. first \in Seq(C) /\ Len(first) = q
    <3>1. \A i \in 1..q : CallOf(n, i) \in C
      <4> SUFFICES ASSUME NEW i \in 1..q PROVE CallOf(n, i) \in C
        OBVIOUS
      <4>0. i \in Nat \ {0}
        BY <1>2
      <4>1. Start(i) \in Nat
        BY <4>0, StartIs
      <4>2. Start(i) + 1 \in Nat /\ Start(i) + VoiceChunk + Lookahead \in Nat
        BY <1>2, <4>1
      <4> QED BY <4>2 DEF CallOf
    <3> HIDE DEF C
    <3> QED BY <1>2, <3>1
  <2>2. end \in C
    <3>1. Start(q + 1) + 1 \in Nat
      BY <1>2
    <3> QED BY <3>1
  <2> HIDE DEF C, end
  <2>3. \A i \in 1..q : first[i] = CallOf(n, i)
    OBVIOUS
  <2> HIDE DEF first
  <2>4. calls = first \o <<end>>
    BY <1>1 DEF first, end
  <2>5. /\ DOMAIN (first \o <<end>>) = 1..(q + 1)
        /\ \A i \in 1..q : (first \o <<end>>)[i] = first[i]
        /\ (first \o <<end>>)[q + 1] = end
    BY <1>2, <2>1, <2>2
  <2> HIDE DEF calls
  <2> QED BY <2>3, <2>4, <2>5, Zenon DEF end
<1> HIDE DEF calls, first
<1>4. /\ DOMAIN pieces = 1..(q + 1)
      /\ pieces[q + 1] = rest
      /\ \A i \in 1..q : pieces[i] = Heard(CallOf(n, i).tokens, CallOf(n, i).last)
  <2>1. \A i \in 1..q : i \in 1..(q + 1)
    BY <1>2
  <2>2. q + 1 \in 1..(q + 1)
    BY <1>2
  <2>3. Heard(rest, TRUE) = rest
    BY Zenon DEF Heard
  <2>4. pieces[q + 1] = Heard(calls[q + 1].tokens, calls[q + 1].last)
    BY <1>3, <2>2, Zenon
  <2> HIDE DEF rest
  <2>5. calls[q + 1].tokens = rest /\ calls[q + 1].last = TRUE
    BY <1>3
  <2> QED BY <1>3, <2>1, <2>3, <2>4, <2>5, Zenon
<1>5. /\ rest \in Seq(Nat)
      /\ Numbers(1, Start(q + 1)) \o rest = all
      /\ Numbers(1, Start(q + 1)) \in Seq(Nat) /\ Len(Numbers(1, Start(q + 1))) = Start(q + 1)
  <2>1. RunsJoin(1, Start(q + 1), n) /\ IsRun(Start(q + 1) + 1, n)
    <3>1. Start(q + 1) + 1 \in Nat \ {0} /\ 1 \in Nat \ {0}
      BY <1>2
    <3> QED BY <1>2, <3>1, NumbersJoin, NumbersAre, Zenon
  <2>2. 1 <= Start(q + 1) + 1 /\ Start(q + 1) <= n
    BY <1>2
  <2>3. Numbers(1, Start(q + 1)) \in Seq(Nat) /\ Len(Numbers(1, Start(q + 1))) = Start(q + 1)
    BY <1>2, NumbersAppend, Zenon
  <2> QED BY <2>1, <2>2, <2>3, Zenon DEF RunsJoin, IsRun
<1>6. ASSUME NEW i \in 1..q, Start(i) + VoiceChunk + Lookahead < n
      PROVE  ~CallOf(n, i).last /\ pieces[i] = Numbers(Start(i) + 1, Start(i + 1))
  <2>1. i \in Nat \ {0}
    BY <1>2
  <2>2. Start(i) \in Nat /\ Start(i + 1) = Start(i) + VoiceChunk
    BY <2>1, StartIs
  <2>3. CallOf(n, i).last = FALSE
        /\ CallOf(n, i).tokens = Numbers(Start(i) + 1, (Start(i) + VoiceChunk) + Lookahead)
    <3>1. ~((Start(i) + VoiceChunk) + Lookahead >= n)
      BY <1>2, <1>6, <2>2
    <3> DEFINE ends == (Start(i) + VoiceChunk) + Lookahead >= n
    <3>2. ends = FALSE
      BY <3>1
    <3>3. CallOf(n, i) = [tokens |-> Numbers(Start(i) + 1, (Start(i) + VoiceChunk) + Lookahead),
                          last |-> ends]
      BY Zenon DEF CallOf
    <3> HIDE DEF ends
    <3> QED BY <3>2, <3>3
  <2> QED BY <1>4, <2>2, <2>3, HeardRun
<1>7. ASSUME NEW i \in 1..q, i < q PROVE Start(i) + VoiceChunk + Lookahead < n
  <2>1. i \in Nat \ {0} /\ i + 1 \in Nat \ {0} /\ q \in Nat \ {0} /\ i + 1 <= q /\ q > 0
    BY <1>2, <1>7
  <2>2. Start(i) \in Nat /\ Start(i + 1) = Start(i) + VoiceChunk
    BY <2>1, StartIs
  <2>3. Start(i + 1) <= Start(q)
    BY <2>1, StartsGrow
  <2> QED BY <1>2, <2>1, <2>2, <2>3
<1>8. CASE ~Twice(n)
  <2>1. \A i \in 1..q : Start(i) + VoiceChunk + Lookahead < n
    <3> SUFFICES ASSUME NEW i \in 1..q PROVE Start(i) + VoiceChunk + Lookahead < n
      OBVIOUS
    <3>1. CASE i < q
      BY <1>7, <3>1
    <3>2. CASE ~(i < q)
      <4>1. i = q /\ q > 0
        BY <1>2, <3>2
      <4> QED BY <1>2, <1>8, <4>1
    <3> QED BY <3>1, <3>2
  <2>2. \A i \in 1..q : ~calls[i].last /\ pieces[i] = Seconds(q)[i]
    BY <1>3, <1>6, <2>1 DEF Seconds
  <2>3. pieces = Append(Seconds(q), rest)
    <3> DEFINE a == Append(Seconds(q), rest)
    <3>0. Voiced(q)
      BY <1>2, SecondsAre
    <3>1. a \in Seq(Seq(Nat)) /\ DOMAIN a = 1..(q + 1) /\ a[q + 1] = rest
          /\ \A i \in 1..q : a[i] = Seconds(q)[i]
      <4> DEFINE s == Seconds(q)
      <4>1. rest \in Seq(Nat)
        BY <1>5
      <4>2. s \in Seq(Seq(Nat)) /\ Len(s) = q /\ q \in Nat
        BY <1>2, <3>0 DEF Voiced
      <4> HIDE DEF rest, s
      <4>3. Append(s, rest) \in Seq(Seq(Nat)) /\ DOMAIN Append(s, rest) = 1..(q + 1)
            /\ Append(s, rest)[q + 1] = rest
            /\ \A i \in 1..q : Append(s, rest)[i] = s[i]
        BY <4>1, <4>2
      <4> QED BY <4>3 DEF s
    <3>2. a = [i \in 1..(q + 1) |-> a[i]]
      <4> HIDE DEF a
      <4> QED BY <3>1
    <3>3. pieces = [i \in 1..(q + 1) |-> pieces[i]]
      BY <1>4
    <3>4. \A i \in 1..(q + 1) : a[i] = pieces[i]
      <4>1. \A i \in 1..(q + 1) : i \in 1..q \/ i = q + 1
        BY <1>2
      <4> HIDE DEF a, pieces, rest
      <4> QED BY <1>4, <2>2, <3>1, <4>1, Zenon
    <3> HIDE DEF a, pieces, rest
    <3>5. a = pieces
      BY <3>2, <3>3, <3>4
    <3> QED BY <3>5 DEF a
  <2>4. FlattenSeq(pieces) = all
    <3>0. Voiced(q)
      BY <1>2, SecondsAre
    <3> HIDE DEF pieces, rest, all
    <3>1. Seconds(q) \in Seq(Seq(Nat)) /\ FlattenSeq(Seconds(q)) = Numbers(1, Start(q + 1))
      BY <3>0 DEF Voiced
    <3>2. FlattenSeq(Append(Seconds(q), rest)) = FlattenSeq(Seconds(q)) \o rest
      BY <1>5, <3>1, FlattenSteps, Zenon
    <3> QED BY <1>5, <2>3, <3>1, <3>2
  <2>5. Cardinality(lasts) = 1
    <3>1. lasts = {q + 1}
      <4>1. \A i \in 1..(q + 1) : i \in 1..q \/ i = q + 1
        BY <1>2
      <4>2. q + 1 \in 1..(q + 1) /\ calls[q + 1].last = TRUE
        BY <1>2, <1>3
      <4> QED BY <1>3, <2>2, <4>1, <4>2
    <3> QED BY <3>1, FS_Singleton
  <2> HIDE DEF lasts, pieces, all
  <2> QED BY <1>8, <2>4, <2>5 DEF VocodedWhole, lasts, pieces, all, calls
<1>9. CASE Twice(n)
  <2>0. q > 0 /\ (Start(q) + VoiceChunk) + Lookahead = n /\ Start(q) \in Nat
        /\ Start(q + 1) = n - Lookahead /\ q - 1 \in Nat /\ (q - 1) + 1 = q /\ q \in 1..q
    BY <1>2, <1>9
  <2>1. \A i \in 1..(q - 1) : i \in 1..q /\ i < q
    BY <1>2
  <2>2. \A i \in 1..(q - 1) : ~calls[i].last /\ pieces[i] = Seconds(q - 1)[i]
    BY <1>3, <1>6, <1>7, <2>1 DEF Seconds
  <2> DEFINE end == Numbers(Start(q) + 1, n)
  <2>3. calls[q].last = TRUE /\ pieces[q] = end
    <3>1. CallOf(n, q).last = TRUE /\ CallOf(n, q).tokens = end
      BY <1>2, <2>0 DEF CallOf
    <3> QED BY <1>3, <1>4, <2>0, <3>1 DEF Heard
  <2>4. /\ end \in Seq(Nat)
        /\ Numbers(1, Start(q)) \o end = all
        /\ Numbers(1, Start(q)) \in Seq(Nat)
    <3>1. RunsJoin(1, Start(q), n) /\ IsRun(Start(q) + 1, n)
      <4>1. Start(q) + 1 \in Nat \ {0} /\ 1 \in Nat \ {0}
        BY <2>0
      <4> QED BY <2>0, <4>1, NumbersJoin, NumbersAre, Zenon
    <3>2. 1 <= Start(q) + 1 /\ Start(q) <= n
      BY <1>2, <2>0
    <3>3. Numbers(1, Start(q)) \in Seq(Nat)
      BY <2>0, NumbersAppend, Zenon
    <3> QED BY <3>1, <3>2, <3>3, Zenon DEF RunsJoin, IsRun
  <2>5. pieces = Append(Append(Seconds(q - 1), end), rest)
    <3> DEFINE b == Append(Seconds(q - 1), end)
               a == Append(b, rest)
    <3>0. Voiced(q - 1)
      BY <2>0, SecondsAre
    <3>1. b \in Seq(Seq(Nat)) /\ Len(b) = q /\ b[q] = end
          /\ \A i \in 1..(q - 1) : b[i] = Seconds(q - 1)[i]
      <4> HIDE DEF end
      <4> QED BY <2>0, <2>4, <3>0 DEF Voiced
    <3> HIDE DEF b
    <3>2. a \in Seq(Seq(Nat)) /\ DOMAIN a = 1..(q + 1) /\ a[q + 1] = rest
          /\ \A i \in 1..q : a[i] = b[i]
      <4>1. rest \in Seq(Nat)
        BY <1>5
      <4>2. b \in Seq(Seq(Nat)) /\ Len(b) = q /\ q \in Nat
        BY <1>2, <3>1
      <4> HIDE DEF rest
      <4> QED BY <4>1, <4>2
    <3>3. a = [i \in 1..(q + 1) |-> a[i]]
      <4> HIDE DEF a
      <4> QED BY <3>2
    <3>4. pieces = [i \in 1..(q + 1) |-> pieces[i]]
      BY <1>4
    <3>5. \A i \in 1..(q + 1) : a[i] = pieces[i]
      <4>1. \A i \in 1..(q + 1) : i \in 1..(q - 1) \/ i = q \/ i = q + 1
        BY <1>2
      <4>2. \A i \in 1..(q - 1) : i \in 1..q
        BY <1>2
      <4>3. q \in 1..q
        BY <1>2, <2>0
      <4> HIDE DEF a, pieces, rest, end
      <4>4. a[q + 1] = pieces[q + 1]
        BY <1>4, <3>2, Zenon
      <4>5. a[q] = pieces[q]
        <5>1. a[q] = b[q]
          BY <3>2, <4>3, Zenon
        <5> QED BY <2>3, <3>1, <5>1, Zenon
      <4>6. ASSUME NEW i \in 1..(q - 1) PROVE a[i] = pieces[i]
        <5>1. a[i] = b[i]
          BY <3>2, <4>2, Zenon
        <5>2. b[i] = Seconds(q - 1)[i]
          BY <3>1, Zenon
        <5>3. pieces[i] = Seconds(q - 1)[i]
          BY <2>2, Zenon
        <5> QED BY <5>1, <5>2, <5>3, Zenon
      <4> QED BY <4>1, <4>4, <4>5, <4>6, Zenon
    <3> HIDE DEF a, pieces, rest, end
    <3>6. a = pieces
      BY <3>3, <3>4, <3>5
    <3> QED BY <3>6 DEF a, b
  <2>6. rest = Drop(all, n - Lookahead)
    <3> DEFINE front == Numbers(1, Start(q + 1))
    <3>1. front \in Seq(Nat) /\ Len(front) = n - Lookahead /\ front \o rest = all
      BY <1>5, <2>0
    <3> HIDE DEF front, rest, all
    <3>2. Drop(front \o rest, Len(front)) = rest
      BY <1>5, <3>1, BackOf, Zenon
    <3> QED BY <3>1, <3>2
  <2>7. FlattenSeq(pieces) = all \o Drop(all, n - Lookahead)
    <3>0. Voiced(q - 1)
      BY <2>0, SecondsAre
    <3> HIDE DEF pieces, rest, all, end
    <3>1. Seconds(q - 1) \in Seq(Seq(Nat)) /\ FlattenSeq(Seconds(q - 1)) = Numbers(1, Start(q))
      BY <2>0, <3>0 DEF Voiced
    <3>2. Append(Seconds(q - 1), end) \in Seq(Seq(Nat))
      BY <2>4, <3>1
    <3>3. FlattenSeq(Append(Seconds(q - 1), end)) = all
      <4>1. FlattenSeq(Append(Seconds(q - 1), end)) = FlattenSeq(Seconds(q - 1)) \o end
        BY <2>4, <3>1, FlattenSteps, Zenon
      <4> QED BY <2>4, <3>1, <4>1
    <3>4. FlattenSeq(pieces) = all \o rest
      <4>1. FlattenSeq(Append(Append(Seconds(q - 1), end), rest))
              = FlattenSeq(Append(Seconds(q - 1), end)) \o rest
        BY <1>5, <3>2, FlattenSteps, Zenon
      <4> QED BY <2>5, <3>3, <4>1
    <3> QED BY <2>6, <3>4
  <2>8. Cardinality(lasts) = 2
    <3>1. lasts = {q} \cup {q + 1}
      <4>1. \A i \in 1..(q + 1) : i \in 1..(q - 1) \/ i = q \/ i = q + 1
        BY <1>2
      <4>2. q + 1 \in 1..(q + 1) /\ calls[q + 1].last = TRUE /\ q \in 1..(q + 1)
        BY <1>2, <1>3, <2>0
      <4> QED BY <1>3, <2>2, <2>3, <4>1, <4>2
    <3>a. q + 1 \notin {q}
      BY <1>2
    <3>2. IsFiniteSet({q}) /\ Cardinality({q}) = 1 /\ q + 1 \notin {q}
      BY <3>a, FS_Singleton, Zenon
    <3>3. Cardinality({q} \cup {q + 1}) = 1 + 1
      BY <3>2, FS_AddElement, Zenon
    <3> HIDE DEF lasts
    <3>4. Cardinality(lasts) = 1 + 1
      BY <3>1, <3>3, Zenon
    <3> QED BY <3>4
  <2> HIDE DEF lasts, pieces, all
  <2> QED BY <1>9, <2>7, <2>8 DEF VocodedWhole, lasts, pieces, all, calls
<1> QED BY <1>8, <1>9
-----------------------------------------------------------------------------
(* The words of an answer, and the books of what was said *)
Chunk == [lo : Nat, hi : Nat, feltLo : Nat, feltHi : Nat]

InOrder(chunks) ==
  \A i \in DOMAIN chunks :
    LET w == chunks[i] IN
    /\ w.lo = w.feltLo /\ w.hi = w.feltHi /\ w.lo <= w.hi
    /\ w.lo = IF i = 1 THEN 1 ELSE chunks[i - 1].hi + 1

AnswerTyped ==
  /\ path \in {"stream", "text", "whole"} /\ phase \in {"think", "voice", "done", "failed"}
  /\ thought \in Nat /\ made \in Nat /\ finished \in BOOLEAN /\ split \in BOOLEAN
  /\ words \in Seq(Chunk) /\ out \in Outs

(* While an answer that is streamed goes on, one token is left over. *)
WordsInv ==
  /\ InOrder(words)
  /\ words = <<>> => thought = 0 /\ ~finished /\ ~split
  /\ words # <<>> => thought = Handed + IF Streamed /\ ~finished THEN 1 ELSE 0
  /\ phase = "think" => ~finished
  /\ phase = "voice" => words # <<>> /\ path # "text"

TextInv ==
  /\ Tells(out, Handed)
  /\ path = "text" => Len(out.text) = IF finished THEN Handed ELSE Safe
  /\ phase = "done" /\ path # "text" => Len(out.text) = Handed

SpeechInv ==
  /\ path = "stream" /\ phase # "done" => Flowing(out, made)
  /\ path = "stream" /\ phase = "done" => out.sound = Speech(made) /\ out.lasts = 1
  /\ path = "text" => made = 0 /\ out.sound = <<>> /\ out.lasts = 0
  /\ path = "whole" /\ phase # "done" => out.sound = <<>> /\ out.lasts = 0
  /\ path = "whole" /\ phase = "done" /\ made > 0 =>
       LET all == Numbers(1, made)
       IN  /\ out.sound = IF Twice(made) THEN all \o Drop(all, made - Lookahead) ELSE all
           /\ out.lasts = IF Twice(made) THEN 2 ELSE 1

(* The words, the text and the sound keep the same books. *)
SaidInv == AnswerTyped /\ WordsInv /\ TextInv /\ SpeechInv

(* The number of tokens handed on, and of those that are shown *)
LEMMA HandedIs ==
  ASSUME AnswerTyped, WordsInv
  PROVE  /\ Handed \in Nat
         /\ words # <<>> => /\ Handed > 0 /\ Safe \in Nat /\ Safe <= Handed /\ Safe >= Handed - 1
                            /\ Handed = words[Len(words)].hi
         /\ words = <<>> => Handed = 0 /\ Safe = 0
<1>1. CASE words = <<>>
  BY <1>1 DEF Handed, Safe, WordsInv
<1>2. CASE words # <<>>
  <2> DEFINE n == Len(words)
  <2>1. n \in DOMAIN words /\ words[n] \in Chunk
    BY <1>2 DEF AnswerTyped
  <2>2. Handed = words[n].hi /\ words[n].hi \in Nat /\ words[n].lo \in Nat
    BY <1>2, <2>1 DEF Handed, Chunk
  <2>3. words[n].lo <= words[n].hi
    BY <2>1 DEF WordsInv, InOrder
  <2>4. words[n].lo > 0
    <3>1. CASE n = 1
      BY <2>1, <3>1 DEF WordsInv, InOrder
    <3>2. CASE n # 1
      <4>1. n - 1 \in DOMAIN words /\ words[n - 1] \in Chunk
        <5>1. words \in Seq(Chunk) /\ n \in Nat /\ n \in 1..n /\ DOMAIN words = 1..n
          BY <2>1 DEF AnswerTyped
        <5> HIDE DEF n
        <5>2. n - 1 \in 1..n
          BY <3>2, <5>1
        <5> QED BY <5>1, <5>2
      <4>2. words[n - 1].hi \in Nat
        BY <4>1 DEF Chunk
      <4>3. words[n].lo = words[n - 1].hi + 1
        BY <2>1, <3>2 DEF WordsInv, InOrder
      <4> HIDE DEF n
      <4> QED BY <4>2, <4>3
    <3> QED BY <3>1, <3>2
  <2> HIDE DEF n
  <2>5. Handed > 0
    BY <2>2, <2>3, <2>4
  <2>6. Safe \in Nat /\ Safe <= Handed /\ Safe >= Handed - 1
    BY <2>2, <2>5 DEF Safe
  <2> QED BY <1>2, <2>2, <2>5, <2>6 DEF n
<1> QED BY <1>1, <1>2

(* A chunk is what comes behind those that were handed on. *)
Follows(chunk, k, fin) ==
  /\ chunk \in Chunk
  /\ chunk.lo = chunk.feltLo /\ chunk.hi = chunk.feltHi /\ chunk.lo <= chunk.hi
  /\ chunk.lo = Handed + 1
  /\ thought + k = chunk.hi + IF Streamed /\ ~fin THEN 1 ELSE 0

(* Whichever generator made it, a chunk follows those before it. *)
LEMMA ChunkFollows ==
  ASSUME AnswerTyped, WordsInv, ~finished, NEW fin \in BOOLEAN,
         NEW k \in 0..(TextChunk + 1), k \in ChunkSizes(fin)
  PROVE  Follows(IF Streamed THEN Generated(k, fin) ELSE Sliced(k), k, fin)
<1>1. Handed \in Nat /\ thought \in Nat /\ k \in Nat /\ TextChunk \in Nat \ {0}
  BY HandedIs, Sizes DEF AnswerTyped
<1>2. CASE ~Streamed
  <2>1. k > 0
    BY <1>1, <1>2 DEF ChunkSizes, Streamed
  <2>2. thought = Handed
    BY <1>1, <1>2, HandedIs DEF WordsInv
  <2> QED BY <1>1, <1>2, <2>1, <2>2 DEF Follows, Sliced, Chunk
<1>3. CASE Streamed /\ words = <<>>
  <2>1. thought = 0 /\ Handed = 0
    BY <1>3, HandedIs DEF WordsInv
  <2>2. IF fin THEN k > 0 ELSE k > 1
    BY <1>1, <1>3 DEF ChunkSizes, Streamed
  <2>3. Generated(k, fin) = [lo |-> 1, hi |-> IF fin THEN k ELSE k - 1,
                             feltLo |-> 1, feltHi |-> IF fin THEN k ELSE k - 1]
    BY <1>1, <1>3, <2>1, <2>2 DEF Generated
  <2> QED BY <1>1, <1>3, <2>1, <2>2, <2>3 DEF Follows, Chunk
<1>4. CASE Streamed /\ words # <<>>
  <2>1. thought = Handed + 1
    BY <1>4 DEF WordsInv
  <2>2. fin \/ k > 0
    BY <1>1, <1>4 DEF ChunkSizes, Streamed
  <2>3. Generated(k, fin) = [lo |-> thought, hi |-> IF fin THEN thought + k ELSE (thought + k) - 1,
                             feltLo |-> thought, feltHi |-> IF fin THEN thought + k ELSE (thought + k) - 1]
    BY <1>1, <1>4, <2>1, <2>2 DEF Generated
  <2> QED BY <1>1, <1>4, <2>1, <2>2, <2>3 DEF Follows, Chunk
<1> QED BY <1>2, <1>3, <1>4

(* A chunk that follows keeps the chunks in order. *)
LEMMA WordsAppend ==
  ASSUME AnswerTyped, WordsInv, NEW fin \in BOOLEAN, NEW k \in Nat, NEW chunk,
         Follows(chunk, k, fin), words' = Append(words, chunk), thought' = thought + k,
         finished' = fin, split' \in BOOLEAN, path' = path
  PROVE  /\ words' \in Seq(Chunk) /\ words' # <<>> /\ InOrder(words')
         /\ Handed' = chunk.hi /\ Handed < chunk.hi /\ chunk.hi \in Nat
         /\ thought' = Handed' + IF Streamed' /\ ~fin THEN 1 ELSE 0
<1> DEFINE n == Len(words)
<1>1. chunk \in Chunk /\ chunk.hi \in Nat /\ chunk.lo \in Nat /\ Handed \in Nat
  BY HandedIs DEF Follows, Chunk
<1>2. /\ words' \in Seq(Chunk) /\ words' # <<>> /\ Len(words') = n + 1 /\ n \in Nat
      /\ words'[n + 1] = chunk /\ \A i \in 1..n : words'[i] = words[i]
      /\ DOMAIN words = 1..n /\ DOMAIN words' = 1..(n + 1)
  BY <1>1 DEF AnswerTyped
<1>3. Handed' = chunk.hi
  BY <1>2 DEF Handed
<1>4. Handed < chunk.hi
  BY <1>1 DEF Follows
<1>5. ASSUME NEW i \in 1..(n + 1)
      PROVE  /\ words'[i].lo = words'[i].feltLo /\ words'[i].hi = words'[i].feltHi
             /\ words'[i].lo <= words'[i].hi
             /\ words'[i].lo = IF i = 1 THEN 1 ELSE words'[i - 1].hi + 1
  <2>1. CASE i = n + 1
    <3>1. CASE n = 0
      <4>1. Handed = 0
        <5>1. words = <<>>
          BY <1>2, <3>1 DEF AnswerTyped
        <5> QED BY <5>1, HandedIs
      <4>2. words'[i] = chunk /\ i = 1
        BY <1>2, <2>1, <3>1
      <4>3. /\ chunk.lo = chunk.feltLo /\ chunk.hi = chunk.feltHi /\ chunk.lo <= chunk.hi
            /\ chunk.lo = 1
        BY <4>1 DEF Follows
      <4> HIDE DEF n
      <4> QED BY <4>2, <4>3
    <3>2. CASE n # 0
      <4>1. words # <<>> /\ n \in 1..n /\ i - 1 = n /\ i # 1
        BY <1>2, <2>1, <3>2
      <4>2. Handed = words[n].hi
        BY <4>1, HandedIs
      <4> QED BY <1>2, <2>1, <4>1, <4>2 DEF Follows
    <3> QED BY <3>1, <3>2
  <2>2. CASE i # n + 1
    <3>1. i \in 1..n /\ (i # 1 => i - 1 \in 1..n)
      BY <1>2, <2>2
    <3>2. words'[i] = words[i] /\ (i # 1 => words'[i - 1] = words[i - 1]) /\ i \in DOMAIN words
      BY <1>2, <3>1
    <3> HIDE DEF n
    <3>3. /\ words[i].lo = words[i].feltLo /\ words[i].hi = words[i].feltHi
          /\ words[i].lo <= words[i].hi
          /\ words[i].lo = IF i = 1 THEN 1 ELSE words[i - 1].hi + 1
      BY <3>2, Zenon DEF WordsInv, InOrder
    <3>4. CASE i = 1
      BY <3>2, <3>3, <3>4
    <3>5. CASE i # 1
      BY <3>2, <3>3, <3>5
    <3> QED BY <3>4, <3>5
  <2> QED BY <2>1, <2>2
<1>6. InOrder(words')
  BY <1>2, <1>5 DEF InOrder
<1>7. Streamed' = Streamed
  BY DEF Streamed
<1>8. thought' = Handed' + IF Streamed' /\ ~fin THEN 1 ELSE 0
  BY <1>3, <1>7 DEF Follows
<1> QED BY <1>1, <1>2, <1>3, <1>4, <1>6, <1>8

(* An answer that has not begun has said nothing. *)
LEMMA SaidInit == AnswerInit => SaidInv
<1> SUFFICES ASSUME AnswerInit PROVE SaidInv
  OBVIOUS
<1>1. Silence \in Nat \ {0} /\ Silence = Lookahead /\ VoiceChunk \in Nat \ {0}
  BY Sizes
<1>2. Copies(Silence, 0) \in Seq(Nat) /\ Len(Copies(Silence, 0)) = Lookahead
  BY <1>1 DEF Copies
<1>3. /\ path \in {"stream", "text", "whole"} /\ phase = "think" /\ thought = 0 /\ words = <<>>
      /\ finished = FALSE /\ split = FALSE /\ made = 0
      /\ out = [rest |-> <<>>, wave |-> IF path = "stream" THEN Copies(Silence, 0) ELSE <<>>,
                sound |-> <<>>, lasts |-> 0, text |-> <<>>]
  BY Zenon DEF AnswerInit
<1>4. out \in Outs
  <2> HIDE DEF AnswerInit
  <2> QED BY <1>2, <1>3 DEF Outs
<1>5. /\ out.rest = <<>> /\ out.sound = <<>> /\ out.lasts = 0 /\ out.text = <<>>
      /\ path = "stream" => out.wave = Copies(Silence, 0)
  BY <1>3
<1>6. Numbers(1, 0) = <<>>
  BY NumbersAre DEF IsRun
<1>7. path = "stream" => Flowing(out, made)
  <2> HAVE path = "stream"
  <2> DEFINE c == Copies(Silence, 0)
  <2>1. Line(out) = (<<>> \o c) \o <<>>
    BY <1>5 DEF Line
  <2>2. (<<>> \o c) \o <<>> = c /\ c \o <<>> = c
    <3>1. c \in Seq(Nat)
      BY <1>2
    <3> HIDE DEF c
    <3> QED BY <3>1
  <2>3. Speech(0) = c
    BY <1>6, <2>2 DEF Speech
  <2> QED BY <1>1, <1>2, <1>3, <1>5, <2>1, <2>2, <2>3 DEF Flowing
<1>8. AnswerTyped
  <2>1. finished \in BOOLEAN /\ split \in BOOLEAN
    BY <1>3, Zenon
  <2>2. words \in Seq(Chunk) /\ thought \in Nat /\ made \in Nat
    <3>1. <<>> \in Seq(Chunk)
      OBVIOUS
    <3> QED BY <1>3, <3>1
  <2>3. phase \in {"think", "voice", "done", "failed"} /\ path \in {"stream", "text", "whole"}
    BY <1>3
  <2> QED BY <1>4, <2>1, <2>2, <2>3, Zenon DEF AnswerTyped
<1>9. WordsInv
  BY <1>3 DEF WordsInv, InOrder
<1>10. TextInv
  BY <1>3, <1>5, <1>6 DEF TextInv, Tells, Handed, Safe
<1>11. SpeechInv
  BY <1>3, <1>5, <1>7 DEF SpeechInv
<1> QED BY <1>8, <1>9, <1>10, <1>11 DEF SaidInv
-----------------------------------------------------------------------------
(* One action after the other *)
LEMMA SaidThink ==
  ASSUME SaidInv, NEW k \in 0..(TextChunk + 1), NEW fin \in BOOLEAN, NEW splits \in BOOLEAN,
         Think(k, fin, splits)
  PROVE  SaidInv'
<1> DEFINE chunk == IF Streamed THEN Generated(k, fin) ELSE Sliced(k)
           n == IF splits /\ ~fin THEN chunk.hi - 1 ELSE chunk.hi
<1>1. AnswerTyped /\ WordsInv /\ TextInv /\ SpeechInv
  BY DEF SaidInv
<1>2. /\ phase = "think" /\ ~finished /\ k \in ChunkSizes(fin)
      /\ words' = Append(words, chunk) /\ thought' = thought + k
      /\ finished' = fin /\ split' = splits /\ path' = path /\ made' = made
  BY <1>1 DEF Think, WordsInv
<1>3. IF path = "text"
      THEN out' = Decoded(out, chunk.hi, splits, fin) /\ phase' = IF LastChunk' THEN "done" ELSE "think"
      ELSE out' = out /\ phase' = "voice"
  BY DEF Think
<1>4. Follows(chunk, k, fin)
  BY <1>1, <1>2, ChunkFollows
<1>5. k \in Nat
  BY Sizes
<1> HIDE DEF chunk
<1>6. /\ words' \in Seq(Chunk) /\ words' # <<>> /\ InOrder(words')
      /\ Handed' = chunk.hi /\ Handed < chunk.hi /\ chunk.hi \in Nat
      /\ thought' = Handed' + IF Streamed' /\ ~fin THEN 1 ELSE 0
  BY <1>1, <1>2, <1>4, <1>5, WordsAppend
<1>7. Handed \in Nat /\ Safe \in Nat /\ Safe <= Handed
  BY <1>1, HandedIs
<1>8. Safe' = IF splits THEN chunk.hi - 1 ELSE chunk.hi
  BY <1>2, <1>6 DEF Safe
<1>9. out \in Outs /\ Tells(out, Handed) /\ Len(out.text) \in Nat
  BY <1>1 DEF AnswerTyped, TextInv, Outs
<1>10. thought' \in Nat /\ made' \in Nat /\ finished' \in BOOLEAN /\ split' \in BOOLEAN
       /\ path' \in {"stream", "text", "whole"}
  BY <1>1, <1>2, <1>5 DEF AnswerTyped
<1>11. CASE path = "text"
  <2>1. n \in Nat /\ n >= Handed /\ n <= chunk.hi
    BY <1>6, <1>7
  <2>2. Len(out.text) <= n
    BY <1>7, <1>9, <2>1 DEF Tells
  <2>3. out' = Show(out, n)
    BY <1>3, <1>11 DEF Decoded
  <2>4. Shown(out, n)
    BY <1>9, <2>1, ShowsUpTo DEF Tells
  <2>5. Most(Len(out.text), n) = n
    BY <1>9, <2>1, <2>2 DEF Most
  <2>6. out' \in Outs /\ Len(out'.text) = n /\ out'.text = Numbers(1, n)
    BY <2>3, <2>4, <2>5 DEF Shown
  <2>7. out'.sound = out.sound /\ out'.lasts = out.lasts
    BY <1>9, <2>3, <2>4 DEF Shown, Outs
  <2>8. phase' \in {"done", "think"} /\ (phase' = "think" => ~finished')
    BY <1>3, <1>11 DEF LastChunk
  <2>9. n = IF fin THEN Handed' ELSE Safe'
    BY <1>6, <1>8
  <2> HIDE DEF n
  <2>10. AnswerTyped'
    BY <1>6, <1>10, <2>6, <2>8 DEF AnswerTyped
  <2>11. WordsInv'
    BY <1>2, <1>6, <2>8 DEF WordsInv
  <2>12. TextInv'
    BY <1>2, <1>6, <1>11, <2>1, <2>6, <2>9 DEF TextInv, Tells
  <2>13. SpeechInv'
    BY <1>1, <1>2, <1>11, <2>7 DEF SpeechInv
  <2> QED BY <2>10, <2>11, <2>12, <2>13 DEF SaidInv
<1>12. CASE path # "text"
  <2>1. out' = out /\ phase' = "voice"
    BY <1>3, <1>12
  <2>2. AnswerTyped'
    BY <1>6, <1>9, <1>10, <2>1 DEF AnswerTyped
  <2>3. WordsInv'
    BY <1>2, <1>6, <1>12, <2>1 DEF WordsInv
  <2>4. TextInv'
    BY <1>2, <1>6, <1>7, <1>9, <1>12, <2>1 DEF TextInv, Tells
  <2>5. SpeechInv'
    BY <1>1, <1>2, <1>12, <2>1 DEF SpeechInv
  <2> QED BY <2>2, <2>3, <2>4, <2>5 DEF SaidInv
<1> QED BY <1>11, <1>12

(* An answer that fails has said nothing, either. *)
LEMMA SaidFails ==
  ASSUME SaidInv, ThinkFails
  PROVE  SaidInv'
<1>1. /\ path' = path /\ thought' = thought /\ words' = words /\ finished' = finished
      /\ split' = split /\ made' = made /\ out' = out /\ phase' = "failed" /\ phase = "think"
  BY DEF ThinkFails
<1>2. Handed' = Handed /\ Safe' = Safe /\ Streamed' = Streamed
  BY <1>1 DEF Handed, Safe, Streamed
<1>3. AnswerTyped'
  BY <1>1 DEF SaidInv, AnswerTyped
<1>4. WordsInv'
  BY <1>1, <1>2 DEF SaidInv, WordsInv
<1>5. TextInv'
  BY <1>1, <1>2 DEF SaidInv, TextInv
<1>6. SpeechInv'
  BY <1>1 DEF SaidInv, SpeechInv
<1> QED BY <1>3, <1>4, <1>5, <1>6 DEF SaidInv

(* A voice token goes through the buffers and the vocoder. *)
LEMMA SaidToken ==
  ASSUME SaidInv, VoiceToken
  PROVE  SaidInv'
<1>1. /\ path' = path /\ thought' = thought /\ words' = words /\ finished' = finished
      /\ split' = split /\ made' = made + 1 /\ phase' = phase /\ phase = "voice"
      /\ out' = IF Streamed THEN Buffered(out, made + 1) ELSE out
  BY DEF VoiceToken
<1>2. Handed' = Handed /\ Safe' = Safe /\ Streamed' = Streamed
  BY <1>1 DEF Handed, Safe, Streamed
<1>3. /\ AnswerTyped /\ WordsInv /\ TextInv /\ SpeechInv /\ path # "text"
      /\ made \in Nat /\ out \in Outs /\ Tells(out, Handed)
  BY <1>1 DEF SaidInv, WordsInv, AnswerTyped, TextInv
<1>4. Handed \in Nat /\ Safe \in Nat /\ Safe <= Handed
  BY <1>3, HandedIs
<1>5. CASE path = "stream"
  <2>1. Flowing(out, made) /\ Streamed
    BY <1>1, <1>3, <1>5 DEF SpeechInv, Streamed
  <2>2. out' \in Outs /\ Flowing(out', made') /\ Tells(out', Handed')
    BY <1>1, <1>2, <1>3, <1>4, <2>1, BufferedFlows
  <2>3. AnswerTyped'
    BY <1>1, <1>3, <2>2 DEF AnswerTyped
  <2>4. WordsInv'
    BY <1>1, <1>2, <1>3 DEF WordsInv
  <2>5. TextInv'
    BY <1>1, <1>5, <2>2 DEF TextInv
  <2>6. SpeechInv'
    BY <1>1, <1>5, <2>2 DEF SpeechInv
  <2> QED BY <2>3, <2>4, <2>5, <2>6 DEF SaidInv
<1>6. CASE path = "whole"
  <2>1. out' = out
    BY <1>1, <1>6 DEF Streamed
  <2>2. AnswerTyped'
    BY <1>1, <1>3, <2>1 DEF AnswerTyped
  <2>3. WordsInv'
    BY <1>1, <1>2, <1>3 DEF WordsInv
  <2>4. TextInv'
    BY <1>1, <1>2, <1>3, <1>6, <2>1 DEF TextInv
  <2>5. SpeechInv'
    BY <1>1, <1>3, <1>6, <2>1 DEF SpeechInv
  <2> QED BY <2>2, <2>3, <2>4, <2>5 DEF SaidInv
<1> QED BY <1>3, <1>5, <1>6 DEF AnswerTyped

(* An answer made as a whole that has no voice token: there is no call. *)
LEMMA NothingVoiced ==
  ASSUME NEW o \in Outs
  PROVE  VocodedWhole(o, 0) = [o EXCEPT !.sound = <<>>, !.lasts = 0]
<1> DEFINE calls == VocoderCalls(0)
<1>1. VoiceChunk \in Nat \ {0} /\ Lookahead \in Nat \ {0}
  BY Sizes
<1>2. calls = <<>>
  <2>1. 0 < VoiceChunk + Lookahead /\ VoiceChunk * 0 >= 0 /\ 1..0 = {}
    BY <1>1
  <2> HIDE DEF calls
  <2> QED BY <2>1 DEF VocoderCalls, calls
<1>3. DOMAIN calls = {}
  <2>1. DOMAIN <<>> = {}
    OBVIOUS
  <2> HIDE DEF calls
  <2> QED BY <1>2, <2>1
<1> HIDE DEF calls
<1>4. {i \in DOMAIN calls : calls[i].last} = {}
  BY <1>3
<1>5. [i \in DOMAIN calls |-> Heard(calls[i].tokens, calls[i].last)] = <<>>
  BY <1>3
<1>6. FlattenSeq(<<>>) = <<>> /\ Cardinality({}) = 0
  BY FS_EmptySet DEF FlattenSeq
<1> QED BY <1>4, <1>5, <1>6, Zenon DEF VocodedWhole, calls

(* What the vocoder made of the whole answer *)
LEMMA WholeIs ==
  ASSUME NEW o \in Outs, NEW n \in Nat
  PROVE  /\ VocodedWhole(o, n) \in Outs /\ VocodedWhole(o, n).text = o.text
         /\ n > 0 => LET all == Numbers(1, n)
                     IN  /\ VocodedWhole(o, n).sound =
                              IF Twice(n) THEN all \o Drop(all, n - Lookahead) ELSE all
                         /\ VocodedWhole(o, n).lasts = IF Twice(n) THEN 2 ELSE 1
<1>1. CASE n = 0
  <2> DEFINE b == [o EXCEPT !.sound = <<>>, !.lasts = 0]
  <2>1. VocodedWhole(o, 0) = b
    BY NothingVoiced
  <2>2. <<>> \in Seq(Nat)
    OBVIOUS
  <2>3. b \in Outs /\ b.text = o.text
    BY <2>2 DEF Outs
  <2> HIDE DEF b
  <2>4. VocodedWhole(o, n) = b /\ ~(n > 0)
    BY <1>1, <2>1
  <2> QED BY <2>3, <2>4
<1>2. CASE n # 0
  <2> DEFINE all == Numbers(1, n)
             s == IF Twice(n) THEN all \o Drop(all, n - Lookahead) ELSE all
             l == IF Twice(n) THEN 2 ELSE 1
             b == [o EXCEPT !.sound = s, !.lasts = l]
  <2>1. VocodedWhole(o, n) = b
    BY <1>2, WholeIsVoiced
  <2>2. all \in Seq(Nat) /\ Len(all) = n
    BY NumbersAppend
  <2>3. s \in Seq(Nat)
    <3>1. CASE Twice(n)
      <4>1. n - Lookahead \in 0..n
        BY <3>1, Sizes DEF Twice
      <4>2. Cut(all, n - Lookahead, Nat)
        BY <2>2, <4>1, CutAt
      <4>3. Drop(all, n - Lookahead) \in Seq(Nat)
        BY <4>2 DEF Cut
      <4> HIDE DEF all
      <4> QED BY <2>2, <3>1, <4>3, ConcatProperties
    <3>2. CASE ~Twice(n)
      BY <2>2, <3>2
    <3> QED BY <3>1, <3>2
  <2>4. l \in Nat
    OBVIOUS
  <2> HIDE DEF s, l
  <2>5. b \in Outs /\ b.text = o.text /\ b.sound = s /\ b.lasts = l
    BY <2>3, <2>4 DEF Outs
  <2> QED BY <2>1, <2>5 DEF s, l
<1> QED BY <1>1, <1>2

(* At the end of a chunk the buffers are kept, or emptied for good. *)
LEMMA SaidEnded ==
  ASSUME SaidInv, NEW closed, NEW o \in {out, Emptied(out)}, ~LastChunk \/ ~Streamed => o = out,
         Ended(closed, o)
  PROVE  SaidInv'
<1>1. /\ path' = path /\ thought' = thought /\ words' = words /\ finished' = finished
      /\ split' = split /\ made' = made /\ phase = "voice"
      /\ phase' = IF LastChunk THEN "done" ELSE "think"
  BY DEF Ended
<1>2. out' = IF ~LastChunk THEN o
             ELSE IF Streamed THEN Flushed(IF o.rest = <<>> THEN o ELSE Emptied(o))
             ELSE Show(VocodedWhole(o, made), Handed)
  BY DEF Ended
<1>3. Handed' = Handed /\ Safe' = Safe /\ Streamed' = Streamed
  BY <1>1 DEF Handed, Safe, Streamed
<1>4. /\ AnswerTyped /\ WordsInv /\ TextInv /\ SpeechInv /\ path # "text"
      /\ made \in Nat /\ out \in Outs /\ Tells(out, Handed) /\ words # <<>>
  BY <1>1 DEF SaidInv, WordsInv, AnswerTyped, TextInv
<1>5. Handed \in Nat /\ Safe \in Nat /\ Safe <= Handed
  BY <1>4, HandedIs
<1>6. phase' = "think" => ~finished'
  BY <1>1 DEF LastChunk
<1>7. phase' \in {"done", "think"} /\ (phase' = "done" <=> LastChunk)
  BY <1>1
<1>8. WordsInv'
  BY <1>1, <1>3, <1>4, <1>6, <1>7 DEF WordsInv
<1>9. CASE ~LastChunk
  <2>1. out' = out
    BY <1>2, <1>9
  <2>2. phase' = "think"
    BY <1>1, <1>9
  <2>3. AnswerTyped'
    BY <1>1, <1>4, <2>1, <2>2 DEF AnswerTyped
  <2>4. TextInv'
    BY <1>1, <1>3, <1>4, <2>1, <2>2 DEF TextInv
  <2>5. SpeechInv'
    BY <1>1, <1>4, <2>1, <2>2 DEF SpeechInv
  <2> QED BY <1>8, <2>3, <2>4, <2>5 DEF SaidInv
<1>10. CASE LastChunk /\ path = "stream"
  <2>1. out' = Flushed(IF o.rest = <<>> THEN o ELSE Emptied(o)) /\ phase' = "done"
    BY <1>1, <1>2, <1>10 DEF Streamed
  <2>2. Flowing(out, made)
    BY <1>1, <1>4, <1>10 DEF SpeechInv
  <2>3. /\ out' \in Outs /\ out'.sound = Speech(made) /\ out'.lasts = 1
        /\ Tells(out', Handed) /\ Len(out'.text) = Handed
    BY <1>4, <1>5, <2>1, <2>2, StreamEnds
  <2>4. AnswerTyped'
    BY <1>1, <1>4, <2>1, <2>3 DEF AnswerTyped
  <2>5. TextInv'
    BY <1>1, <1>3, <1>10, <2>3 DEF TextInv
  <2>6. SpeechInv'
    BY <1>1, <1>10, <2>1, <2>3 DEF SpeechInv
  <2> QED BY <1>8, <2>4, <2>5, <2>6 DEF SaidInv
<1>11. CASE LastChunk /\ path = "whole"
  <2> DEFINE v == VocodedWhole(out, made)
             n == Handed
  <2>1. out' = Show(v, n) /\ phase' = "done"
    BY <1>1, <1>2, <1>11 DEF Streamed
  <2>2. /\ v \in Outs /\ v.text = out.text
        /\ made > 0 => LET all == Numbers(1, made)
                       IN  /\ v.sound = IF Twice(made) THEN all \o Drop(all, made - Lookahead) ELSE all
                           /\ v.lasts = IF Twice(made) THEN 2 ELSE 1
    BY <1>4, WholeIs
  <2> HIDE DEF v
  <2>3. Shown(v, n)
    BY <1>4, <1>5, <2>2, ShowsUpTo DEF Tells
  <2>4. out' \in Outs /\ out'.text = Numbers(1, Len(out'.text)) /\ Len(out'.text) = Most(Len(v.text), n)
    BY <2>1, <2>3 DEF Shown
  <2>5. out'.sound = v.sound /\ out'.lasts = v.lasts
    BY <2>1, <2>2, <2>3 DEF Shown, Outs
  <2>6. Len(out'.text) = Handed
    <3>1. Len(v.text) <= n /\ Len(v.text) \in Nat
      BY <1>4, <2>2 DEF Tells, Outs
    <3> QED BY <1>5, <2>4, <3>1 DEF Most
  <2>7. AnswerTyped'
    BY <1>1, <1>4, <2>1, <2>4 DEF AnswerTyped
  <2>8. TextInv'
    BY <1>1, <1>3, <1>5, <1>11, <2>4, <2>6 DEF TextInv, Tells
  <2>9. SpeechInv'
    BY <1>1, <1>11, <2>1, <2>2, <2>5 DEF SpeechInv
  <2> QED BY <1>8, <2>7, <2>8, <2>9 DEF SaidInv
<1> QED BY <1>4, <1>9, <1>10, <1>11 DEF AnswerTyped

(* Every step of an answer keeps the books of what was said. *)
LEMMA SaidStep == SaidInv /\ [AnswerNext]_answerVars => SaidInv'
<1> SUFFICES ASSUME SaidInv, [AnswerNext]_answerVars PROVE SaidInv'
  OBVIOUS
<1>1. ASSUME NEW k \in 0..(TextChunk + 1), NEW fin \in BOOLEAN, NEW splits \in BOOLEAN,
             Think(k, fin, splits)
      PROVE  SaidInv'
  BY <1>1, SaidThink
<1>2. CASE ThinkFails
  BY <1>2, SaidFails
<1>3. CASE VoiceToken
  BY <1>3, SaidToken
<1>4. CASE VoiceEnds
  <2>1. CASE Streamed
    <3> DEFINE o == IF finished THEN Emptied(out) ELSE out
               closed == Closed(FeedDrawn(tts))
    <3>1. Ended(closed, o)
      BY <1>4, <2>1 DEF VoiceEnds
    <3>2. o \in {out, Emptied(out)} /\ (~LastChunk \/ ~Streamed => o = out)
      BY <2>1 DEF LastChunk
    <3> HIDE DEF o, closed
    <3> QED BY <3>1, <3>2, SaidEnded
  <2>2. CASE ~Streamed
    <3>1. Ended(ClosedInterleaved(FeedDrawn(tts)), out)
      BY <1>4, <2>2 DEF VoiceEnds
    <3> QED BY <3>1, SaidEnded
  <2> QED BY <2>1, <2>2
<1>5. CASE VoiceLimit
  <2>1. Ended(Closed(tts), out)
    BY <1>5 DEF VoiceLimit
  <2> QED BY <2>1, SaidEnded
<1>6. CASE UNCHANGED answerVars
  <2>1. /\ path' = path /\ thought' = thought /\ words' = words /\ finished' = finished
        /\ split' = split /\ made' = made /\ out' = out /\ phase' = phase
    BY <1>6 DEF answerVars
  <2>2. Handed' = Handed /\ Safe' = Safe /\ Streamed' = Streamed
    BY <2>1 DEF Handed, Safe, Streamed
  <2>3. AnswerTyped'
    BY <2>1 DEF SaidInv, AnswerTyped
  <2>4. WordsInv'
    BY <2>1, <2>2 DEF SaidInv, WordsInv
  <2>5. TextInv'
    BY <2>1, <2>2 DEF SaidInv, TextInv
  <2>6. SpeechInv'
    BY <2>1 DEF SaidInv, SpeechInv
  <2> QED BY <2>3, <2>4, <2>5, <2>6 DEF SaidInv
<1> QED BY <1>1, <1>2, <1>3, <1>4, <1>5, <1>6 DEF AnswerNext

(* Every chunk of words goes to the voice once, in order and with its own  *)
(* hidden states; the client's text is a beginning of them at all times,   *)
(* and at the end all of them, but for the character that the limit of an  *)
(* answer in text cuts.                                                    *)
THEOREM WordsAreSaid == AnswerSpec => []SaidAsThought
<1>1. SaidInv => SaidAsThought
  <2> SUFFICES ASSUME SaidInv PROVE SaidAsThought
    OBVIOUS
  <2>1. AnswerTyped /\ WordsInv /\ TextInv
    BY DEF SaidInv
  <2>2. \A i \in DOMAIN words :
          LET w == words[i] IN
          /\ w.lo = w.feltLo /\ w.hi = w.feltHi /\ w.lo <= w.hi
          /\ w.lo = IF i = 1 THEN 1 ELSE words[i - 1].hi + 1
    BY <2>1, Zenon DEF WordsInv, InOrder
  <2>3. out.text = Numbers(1, Len(out.text)) /\ Len(out.text) <= Handed
    BY <2>1 DEF TextInv, Tells
  <2>4. phase = "done" =>
          Len(out.text) = IF path = "text" /\ ~finished THEN Safe ELSE Handed
    BY <2>1 DEF TextInv
  <2> QED BY <2>2, <2>3, <2>4, Zenon DEF SaidAsThought
<1> QED BY <1>1, SaidInit, SaidStep, PTL DEF AnswerSpec

(* The client hears every voice token in order and once, behind the        *)
(* silence, and the last call of the vocoder, alone, is told that it is    *)
(* the last: on every path, whatever the sizes of the chunks, but for the  *)
(* end of a whole answer whose tokens fill the loop's last call.           *)
THEOREM VoiceIsHeardOnce == AnswerSpec => []SpokenOnce
<1>1. SaidInv => SpokenOnce
  <2> SUFFICES ASSUME SaidInv PROVE SpokenOnce
    OBVIOUS
  <2>1. /\ path \in {"stream", "text", "whole"} /\ made \in Nat /\ out \in Outs /\ SpeechInv
        /\ Lookahead \in Nat \ {0}
    BY Sizes DEF SaidInv, AnswerTyped
  <2>2. Numbers(1, made) \in Seq(Nat) /\ Len(Numbers(1, made)) = made
    BY <2>1, NumbersAppend
  <2>3. CASE path = "stream"
    <3>1. Spoken = Speech(made) /\ ~HeardTwice
      BY <2>3 DEF Spoken, Speech, HeardTwice
    <3>2. phase # "done" => out.lasts = 0 /\ IsPrefix(out.sound, Spoken)
      <4>1. phase # "done" => Flowing(out, made)
        BY <2>1, <2>3 DEF SpeechInv
      <4> QED BY <2>1, <3>1, <4>1, FlowingIsPrefix DEF Flowing
    <3>3. phase = "done" => out.sound = Spoken /\ out.lasts = 1
      BY <2>1, <2>3, <3>1 DEF SpeechInv
    <3> QED BY <3>1, <3>2, <3>3 DEF SpokenOnce
  <2>4. CASE path # "stream"
    <3>1. Spoken = Numbers(1, made)
      <4>1. <<>> \o Numbers(1, made) = Numbers(1, made)
        BY <2>2
      <4> QED BY <2>4, <4>1 DEF Spoken
    <3>2. IsPrefix(<<>>, Spoken)
      <4>1. <<>> \o Numbers(1, made) = Numbers(1, made) /\ <<>> \in Seq(Nat)
        BY <2>2
      <4>2. IsPrefix(<<>>, <<>> \o Numbers(1, made))
        BY <2>2, <4>1, PrefixOf, Zenon
      <4> QED BY <3>1, <4>1, <4>2
    <3>3. phase # "done" => out.lasts = 0 /\ IsPrefix(out.sound, Spoken)
      BY <2>1, <2>4, <3>2 DEF SpeechInv
    <3>4. HeardTwice <=> path = "whole" /\ Twice(made)
      BY <2>1 DEF HeardTwice, Twice
    <3>5. ASSUME phase = "done", path = "whole", Spoken # <<>>
          PROVE  IF HeardTwice
                 THEN out.lasts = 2 /\ out.sound = Spoken \o Drop(Spoken, Len(Spoken) - Lookahead)
                 ELSE out.lasts = 1 /\ out.sound = Spoken
      <4>1. made > 0
        BY <2>1, <2>2, <3>1, <3>5
      <4>2. /\ out.sound = IF Twice(made) THEN Spoken \o Drop(Spoken, made - Lookahead) ELSE Spoken
            /\ out.lasts = IF Twice(made) THEN 2 ELSE 1
        BY <2>1, <3>1, <3>5, <4>1 DEF SpeechInv
      <4>3. Len(Spoken) = made
        BY <2>2, <3>1
      <4> QED BY <3>4, <3>5, <4>2, <4>3
    <3> QED BY <2>1, <2>4, <3>3, <3>5 DEF SpokenOnce
  <2> QED BY <2>3, <2>4
<1> QED BY <1>1, SaidInit, SaidStep, PTL DEF AnswerSpec
-----------------------------------------------------------------------------
(* The cache of the voice's model: items at their positions *)
Item == Nat \X {"text", "audio"}
Spot == [item : Item, at : Nat]

(* Copies of an item, and one more *)
CopiesSo(x, n, X) ==
  /\ Copies(n, x) \in Seq(X) /\ Len(Copies(n, x)) = n
  /\ Copies(n, x) \o Copies(1, x) = Copies(n + 1, x)

LEMMA CopiesAre == \A X : \A x \in X : \A n \in Nat : CopiesSo(x, n, X)
<1> SUFFICES ASSUME NEW X, NEW x \in X, NEW n \in Nat PROVE CopiesSo(x, n, X)
  OBVIOUS
<1>1. \A m \in Nat : /\ Copies(m, x) \in Seq(X) /\ Len(Copies(m, x)) = m
                     /\ \A i \in 1..m : Copies(m, x)[i] = x
  BY DEF Copies
<1> DEFINE a == Copies(n, x)
           b == Copies(1, x)
           c == Copies(n + 1, x)
<1>2. /\ a \in Seq(X) /\ Len(a) = n /\ \A i \in 1..n : a[i] = x
      /\ b \in Seq(X) /\ Len(b) = 1 /\ b[1] = x
      /\ c \in Seq(X) /\ Len(c) = n + 1 /\ \A i \in 1..(n + 1) : c[i] = x
  <2>1. a \in Seq(X) /\ Len(a) = n /\ \A i \in 1..n : a[i] = x
    BY <1>1
  <2>2. b \in Seq(X) /\ Len(b) = 1 /\ b[1] = x
    BY DEF Copies
  <2>3. c \in Seq(X) /\ Len(c) = n + 1 /\ \A i \in 1..(n + 1) : c[i] = x
    <3>1. n + 1 \in Nat
      OBVIOUS
    <3> QED BY <1>1, <3>1, Zenon
  <2> QED BY <2>1, <2>2, <2>3
<1> HIDE DEF a, b, c
<1>3. /\ a \o b \in Seq(X) /\ Len(a \o b) = n + 1
      /\ \A i \in 1..(n + 1) : (a \o b)[i] = x
  <2>1. /\ a \o b \in Seq(X) /\ Len(a \o b) = Len(a) + Len(b)
        /\ \A i \in 1..(Len(a) + Len(b)) : (a \o b)[i] = IF i <= Len(a) THEN a[i] ELSE b[i - Len(a)]
    BY <1>2, ConcatProperties
  <2>2. ASSUME NEW i \in 1..(n + 1) PROVE (a \o b)[i] = x
    <3>1. (a \o b)[i] = IF i <= n THEN a[i] ELSE b[i - n]
      BY <1>2, <2>1
    <3>2. i <= n => i \in 1..n
      OBVIOUS
    <3>3. ~(i <= n) => i - n = 1
      OBVIOUS
    <3> QED BY <1>2, <3>1, <3>2, <3>3
  <2> QED BY <1>2, <2>1, <2>2
<1>4. a \o b = c
  BY <1>2, <1>3, SeqEqual
<1> QED BY <1>2, <1>4, Zenon DEF CopiesSo, a, b, c

(* Items at their positions *)
PlacedSo(s, a) ==
  /\ Placed(s, a) \in Seq(Spot) /\ Len(Placed(s, a)) = Len(s)
  /\ \A i \in 1..Len(s) : Placed(s, a)[i] = [item |-> s[i], at |-> a + i - 1]

LEMMA PlacedAre == \A s \in Seq(Item) : \A a \in Nat : PlacedSo(s, a)
<1> SUFFICES ASSUME NEW s \in Seq(Item), NEW a \in Nat PROVE PlacedSo(s, a)
  OBVIOUS
<1>1. DOMAIN s = 1..Len(s) /\ Len(s) \in Nat /\ \A i \in 1..Len(s) : s[i] \in Item
  OBVIOUS
<1>2. \A i \in 1..Len(s) : a + i - 1 \in Nat
  BY <1>1
<1>3. \A i \in 1..Len(s) : [item |-> s[i], at |-> a + i - 1] \in Spot
  BY <1>1, <1>2, Zenon DEF Spot
<1> QED BY <1>1, <1>3 DEF Placed, PlacedSo

(* Items placed behind others are placed with them. *)
LEMMA PlacedJoin ==
  \A s, u \in Seq(Item) : \A a \in Nat :
    Placed(s, a) \o Placed(u, a + Len(s)) = Placed(s \o u, a)
<1> SUFFICES ASSUME NEW s \in Seq(Item), NEW u \in Seq(Item), NEW a \in Nat
             PROVE  Placed(s, a) \o Placed(u, a + Len(s)) = Placed(s \o u, a)
  OBVIOUS
<1> DEFINE v == s \o u
           p == Placed(s, a)
           q == Placed(u, a + Len(s))
           r == Placed(v, a)
           n == Len(s)
           m == Len(u)
<1>1. /\ v \in Seq(Item) /\ Len(v) = n + m /\ n \in Nat /\ m \in Nat
      /\ \A i \in 1..n : v[i] = s[i]
      /\ \A i \in 1..m : v[n + i] = u[i]
  OBVIOUS
<1> HIDE DEF v, n, m
<1>2. a + n \in Nat
  BY <1>1
<1>3. PlacedSo(s, a) /\ PlacedSo(u, a + n) /\ PlacedSo(v, a)
  BY <1>1, <1>2, PlacedAre, Zenon
<1>4. /\ p \in Seq(Spot) /\ Len(p) = n
      /\ \A i \in 1..n : p[i] = [item |-> s[i], at |-> a + i - 1]
  BY <1>3 DEF PlacedSo, n
<1>5. /\ q \in Seq(Spot) /\ Len(q) = m
      /\ \A i \in 1..m : q[i] = [item |-> u[i], at |-> (a + n) + i - 1]
  BY <1>3 DEF PlacedSo, n, m
<1>6. /\ r \in Seq(Spot) /\ Len(r) = n + m
      /\ \A i \in 1..(n + m) : r[i] = [item |-> v[i], at |-> a + i - 1]
  BY <1>1, <1>3 DEF PlacedSo
<1> HIDE DEF p, q, r
<1>7. /\ p \o q \in Seq(Spot) /\ Len(p \o q) = n + m
      /\ \A i \in 1..(n + m) : (p \o q)[i] = IF i <= n THEN p[i] ELSE q[i - n]
  BY <1>1, <1>4, <1>5
<1>8. ASSUME NEW i \in 1..(n + m) PROVE (p \o q)[i] = r[i]
  <2>1. CASE i <= n
    <3>1. i \in 1..n
      BY <1>1, <2>1
    <3>2. (p \o q)[i] = p[i]
      BY <1>7, <2>1
    <3>3. p[i] = [item |-> s[i], at |-> a + i - 1]
      BY <1>4, <3>1
    <3>4. r[i] = [item |-> v[i], at |-> a + i - 1]
      BY <1>6
    <3>5. v[i] = s[i]
      BY <1>1, <3>1
    <3> QED BY <3>2, <3>3, <3>4, <3>5
  <2>2. CASE ~(i <= n)
    <3>1. i - n \in 1..m /\ n + (i - n) = i /\ (a + n) + (i - n) - 1 = a + i - 1
      BY <1>1, <2>2
    <3>2. q[i - n] = [item |-> u[i - n], at |-> a + i - 1]
      BY <1>5, <3>1
    <3>3. u[i - n] = v[i]
      BY <1>1, <3>1
    <3>4. (p \o q)[i] = q[i - n]
      BY <1>7, <2>2
    <3>5. r[i] = [item |-> v[i], at |-> a + i - 1]
      BY <1>6
    <3> QED BY <3>2, <3>3, <3>4, <3>5
  <2> QED BY <2>1, <2>2
<1>9. p \o q = r
  BY <1>6, <1>7, <1>8, SeqEqual
<1> QED BY <1>9 DEF p, q, r, v, n

(* Parts of placed items are placed parts. *)
PlacedCut(s, a, n) ==
  /\ Drop(Placed(s, a), n) = Placed(Drop(s, n), a + n)
  /\ SubSeq(Placed(s, a), 1, n) = Placed(SubSeq(s, 1, n), a)

LEMMA PlacedParts == \A s \in Seq(Item) : \A a \in Nat : \A n \in 0..Len(s) : PlacedCut(s, a, n)
<1> SUFFICES ASSUME NEW s \in Seq(Item), NEW a \in Nat, NEW n \in 0..Len(s)
             PROVE  PlacedCut(s, a, n)
  OBVIOUS
<1> DEFINE f == SubSeq(s, 1, n)
           b == Drop(s, n)
           p == Placed(f, a)
           q == Placed(b, a + n)
<1>1. f \in Seq(Item) /\ Len(f) = n /\ b \in Seq(Item) /\ Len(b) = Len(s) - n /\ f \o b = s
  <2>1. Cut(s, n, Item)
    BY CutAt, Zenon
  <2> QED BY <2>1 DEF Cut
<1> HIDE DEF f, b
<1>2. n \in Nat /\ a + n \in Nat
  BY <1>1
<1>3. p \o q = Placed(s, a)
  BY <1>1, PlacedJoin
<1>4. p \in Seq(Spot) /\ Len(p) = n /\ q \in Seq(Spot)
  <2>1. PlacedSo(f, a) /\ PlacedSo(b, a + n)
    BY <1>1, <1>2, PlacedAre, Zenon
  <2> QED BY <1>1, <2>1 DEF PlacedSo
<1> HIDE DEF p, q
<1>5. Drop(p \o q, n) = q /\ SubSeq(p \o q, 1, n) = p
  <2>1. Drop(p \o q, Len(p)) = q
    BY <1>4, BackOf, Zenon
  <2>2. SubSeq(p \o q, 1, Len(p)) = p
    BY <1>4, FrontOf, Zenon
  <2> QED BY <1>4, <2>1, <2>2
<1> QED BY <1>3, <1>5 DEF PlacedCut, p, q, f, b

(* Dropped twice is dropped once, also with something joined in between. *)
DropsOnce(s, u, n, m) == Drop(Drop(s, n) \o u, m) = Drop(s \o u, n + m)

(* Dropping goes on where it ended. *)
LEMMA DropTwice ==
  \A X : \A s, u \in Seq(X) : \A n \in 0..Len(s) : \A m \in 0..(Len(s) + Len(u) - n) :
    DropsOnce(s, u, n, m)
<1> SUFFICES ASSUME NEW X, NEW s \in Seq(X), NEW u \in Seq(X), NEW n \in 0..Len(s),
                    NEW m \in 0..(Len(s) + Len(u) - n)
             PROVE  Drop(Drop(s, n) \o u, m) = Drop(s \o u, n + m)
  BY DEF DropsOnce
<1> DEFINE f == SubSeq(s, 1, n)
           d == Drop(s, n)
           w == d \o u
           g == SubSeq(w, 1, m)
           e == Drop(w, m)
<1>0. Len(s) \in Nat /\ Len(u) \in Nat /\ n \in Nat /\ m \in Nat /\ n <= Len(s)
      /\ m <= (Len(s) + Len(u)) - n
  OBVIOUS
<1>1. f \in Seq(X) /\ Len(f) = n /\ d \in Seq(X) /\ Len(d) = Len(s) - n /\ f \o d = s
  <2>1. Cut(s, n, X)
    BY CutAt, Zenon
  <2> QED BY <2>1 DEF Cut
<1> HIDE DEF f, d
<1>2. w \in Seq(X) /\ Len(w) = (Len(s) - n) + Len(u)
  BY <1>1, ConcatProperties
<1>3. f \o w = s \o u
  <2>1. Three(f, d, u, X)
    BY <1>1, JoinThree, Zenon
  <2> QED BY <1>1, <2>1 DEF Three
<1> HIDE DEF w
<1>4. g \in Seq(X) /\ Len(g) = m /\ e \in Seq(X) /\ g \o e = w
  <2>1. m \in 0..Len(w)
    BY <1>0, <1>2
  <2>2. Cut(w, m, X)
    BY <1>2, <2>1, CutAt, Zenon
  <2> QED BY <2>2 DEF Cut
<1> HIDE DEF g, e
<1>5. f \o g \in Seq(X) /\ Len(f \o g) = n + m /\ (f \o g) \o e = s \o u
  <2>1. Three(f, g, e, X)
    BY <1>1, <1>4, JoinThree, Zenon
  <2> QED BY <1>1, <1>3, <1>4, <2>1 DEF Three
<1>6. Drop((f \o g) \o e, Len(f \o g)) = e
  <2> DEFINE h == f \o g
  <2>1. h \in Seq(X)
    BY <1>5
  <2> HIDE DEF h
  <2>2. Drop(h \o e, Len(h)) = e
    BY <1>4, <2>1, BackOf, Zenon
  <2> QED BY <2>2 DEF h
<1>7. Drop(s \o u, n + m) = e
  BY <1>5, <1>6
<1> QED BY <1>7 DEF e, w, d
-----------------------------------------------------------------------------
(* A cache that slides keeps the end of what it was fed. *)
Lengths == [condition : Nat, audio : Nat]
Voices == [attention : Attentions, told : Seq(Lengths), cache : Seq(Spot), start : Nat,
           condition : Nat, prefill : Nat, drawn : Nat]

Slides(t) == t.attention = "sliding_window" /\ Streamed
Gone(v) == Most(0, Len(v) - TokenWindow)
Seen(v, a, slides) == IF slides THEN Drop(Placed(v, a), Gone(v)) ELSE Placed(v, a)

(* Dropping nothing *)
LEMMA DropNone == \A X : \A s \in Seq(X) : Drop(s, 0) = s
<1> SUFFICES ASSUME NEW X, NEW s \in Seq(X) PROVE SubSeq(s, 0 + 1, Len(s)) = s
  BY DEF Drop
<1>1. 0 + 1 = 1 /\ SubSeq(s, 1, Len(s)) = s
  OBVIOUS
<1> QED BY <1>1

(* No more than there is slides out of the window. *)
LEMMA GoneIs == \A v \in Seq(Item) : Gone(v) \in 0..Len(v)
<1> SUFFICES ASSUME NEW v \in Seq(Item) PROVE Gone(v) \in 0..Len(v)
  OBVIOUS
<1>1. Len(v) \in Nat
  OBVIOUS
<1> QED BY <1>1, Sizes DEF Gone, Most

(* What is seen of the items fed is placed where it was fed. *)
SeenSo(v, a, slides) ==
  /\ Seen(v, a, slides) \in Seq(Spot)
  /\ Seen(v, a, slides) =
       IF slides THEN Placed(Drop(v, Gone(v)), a + Gone(v)) ELSE Placed(v, a)

LEMMA SeenAre ==
  \A v \in Seq(Item) : \A a \in Nat : \A slides \in BOOLEAN : SeenSo(v, a, slides)
<1> SUFFICES ASSUME NEW v \in Seq(Item), NEW a \in Nat, NEW slides \in BOOLEAN
             PROVE  SeenSo(v, a, slides)
  OBVIOUS
<1>1. PlacedSo(v, a)
  BY PlacedAre, Zenon
<1>2. Gone(v) \in 0..Len(v)
  BY GoneIs
<1>3. PlacedCut(v, a, Gone(v))
  BY <1>2, PlacedParts, Zenon
<1>4. Cut(Placed(v, a), Gone(v), Spot)
  <2>1. Placed(v, a) \in Seq(Spot) /\ Len(Placed(v, a)) = Len(v)
    BY <1>1 DEF PlacedSo
  <2>2. Gone(v) \in 0..Len(Placed(v, a))
    BY <1>2, <2>1
  <2> QED BY <2>1, <2>2, CutAt, Zenon
<1> QED BY <1>1, <1>3, <1>4 DEF Seen, SeenSo, PlacedSo, PlacedCut, Cut

(* Feeding a cache feeds what it has seen, window or not. *)
LEMMA FedSees ==
  ASSUME NEW t \in Voices, NEW v \in Seq(Item), NEW u \in Seq(Item), NEW a \in Nat,
         t.cache = Seen(v, a, Slides(t))
  PROVE  Fed(t, u, a + Len(v)) = [t EXCEPT !.cache = Seen(v \o u, a, Slides(t))]
<1> DEFINE w == v \o u
           s == Placed(v, a)
           r == Placed(u, a + Len(v))
           x == t.cache \o r
           z == [t EXCEPT !.cache = x]
<1>1. w \in Seq(Item) /\ Len(w) = Len(v) + Len(u) /\ Len(v) \in Nat /\ Len(u) \in Nat
  BY ConcatProperties
<1>2. s \o r = Placed(w, a)
  BY PlacedJoin, Zenon
<1>3. s \in Seq(Spot) /\ Len(s) = Len(v) /\ r \in Seq(Spot) /\ Len(r) = Len(u)
  <2>1. a + Len(v) \in Nat
    BY <1>1
  <2>2. PlacedSo(v, a) /\ PlacedSo(u, a + Len(v))
    BY <2>1, PlacedAre, Zenon
  <2> QED BY <2>2 DEF PlacedSo
<1> HIDE DEF w, s, r
<1>4. Fed(t, u, a + Len(v)) = Truncated(z)
  BY DEF Fed, r
<1>5. /\ z.attention = t.attention /\ z.cache = x
      /\ \A y : [z EXCEPT !.cache = y] = [t EXCEPT !.cache = y]
  BY DEF Voices
<1> HIDE DEF x, z
<1>6. CASE ~Slides(t)
  <2>1. x = Placed(w, a)
    BY <1>2, <1>6 DEF Seen, x, s
  <2>2. Truncated(z) = z
    BY <1>5, <1>6 DEF Truncated, Slides
  <2> QED BY <1>4, <1>6, <2>1, <2>2 DEF Seen, w, z
<1>7. CASE Slides(t)
  <2> DEFINE g == Gone(v)
             n == Len(v)
             m == Len(u)
  <2>1. g \in 0..n
    BY GoneIs
  <2>2. x = Drop(s, g) \o r
    BY <1>7 DEF Seen, x, s
  <2>3. Drop(s, g) \in Seq(Spot) /\ Len(Drop(s, g)) = n - g
    <3>1. Cut(s, g, Spot)
      BY <1>3, <2>1, CutAt, Zenon
    <3> QED BY <1>3, <3>1 DEF Cut
  <2>4. x \in Seq(Spot) /\ Len(x) = (n - g) + m
    <3> DEFINE d == Drop(s, g)
    <3>1. d \in Seq(Spot) /\ Len(d) = n - g /\ Len(r) = m
      BY <1>3, <2>3
    <3> HIDE DEF d, g, n, m
    <3>2. d \o r \in Seq(Spot) /\ Len(d \o r) = Len(d) + Len(r)
      BY <1>3, <3>1, ConcatProperties
    <3> QED BY <2>2, <3>1, <3>2 DEF d
  <2>5. g = Most(0, n - TokenWindow) /\ Gone(w) = Most(0, (n + m) - TokenWindow)
        /\ TokenWindow \in Nat /\ n \in Nat /\ m \in Nat
    BY <1>1, Sizes DEF Gone
  <2>a. Len(s) = n /\ Len(r) = m
    BY <1>3
  <2> HIDE DEF g, n, m
  <2>6. CASE Len(x) > TokenWindow
    <3> DEFINE k == Len(x) - TokenWindow
    <3>1. k \in 0..(n + m - g) /\ g + k = Gone(w)
      BY <2>1, <2>4, <2>5, <2>6 DEF Most
    <3>2. Truncated(z) = [z EXCEPT !.cache = Drop(x, k)]
      BY <1>5, <1>7, <2>6 DEF Truncated, Slides
    <3> HIDE DEF k
    <3>3. Drop(Drop(s, g) \o r, k) = Drop(s \o r, g + k)
      <4>1. g \in 0..Len(s) /\ k \in 0..(Len(s) + Len(r) - g)
        BY <2>1, <2>a, <3>1
      <4>2. DropsOnce(s, r, g, k)
        BY <1>3, <4>1, DropTwice, Zenon
      <4> QED BY <4>2 DEF DropsOnce
    <3>4. Drop(x, k) = Seen(w, a, TRUE)
      BY <1>2, <2>2, <3>1, <3>3 DEF Seen
    <3> QED BY <1>4, <1>5, <1>7, <3>2, <3>4 DEF w
  <2>7. CASE ~(Len(x) > TokenWindow)
    <3>1. 0 \in 0..(n + m - g) /\ g + 0 = Gone(w)
      BY <2>1, <2>4, <2>5, <2>7 DEF Most
    <3>2. Truncated(z) = z
      BY <1>5, <2>7 DEF Truncated
    <3>3. Drop(Drop(s, g) \o r, 0) = Drop(s \o r, g + 0)
      <4>1. g \in 0..Len(s) /\ 0 \in 0..(Len(s) + Len(r) - g)
        BY <2>1, <2>a, <3>1
      <4>2. DropsOnce(s, r, g, 0)
        BY <1>3, <4>1, DropTwice, Zenon
      <4> QED BY <4>2 DEF DropsOnce
    <3>4. x = Drop(x, 0)
      BY <2>4, DropNone, Zenon
    <3>5. x = Seen(w, a, TRUE)
      BY <1>2, <2>2, <3>1, <3>3, <3>4 DEF Seen
    <3> QED BY <1>4, <1>7, <3>2, <3>5 DEF w, z
  <2> QED BY <2>6, <2>7
<1> QED BY <1>6, <1>7
-----------------------------------------------------------------------------
(* The chunks that were spoken, one after the other *)
Both(told, c) == Words(c, told[c].condition) \o Sounds(c, told[c].audio)
Hist(told, lo, hi) == FlattenSeq([i \in 1..(hi + 1 - lo) |-> Both(told, lo + i - 1)])

(* The words and the sounds of a chunk are copies of one item each. *)
LEMMA WordsAre ==
  \A c, n \in Nat : /\ CopiesSo(<<c, "text">>, n, Item)
                    /\ CopiesSo(<<c, "audio">>, n, Item)
<1> SUFFICES ASSUME NEW c \in Nat, NEW n \in Nat
             PROVE  CopiesSo(<<c, "text">>, n, Item) /\ CopiesSo(<<c, "audio">>, n, Item)
  OBVIOUS
<1>1. <<c, "text">> \in Item /\ <<c, "audio">> \in Item
  BY DEF Item
<1> QED BY <1>1, CopiesAre, Zenon

(* The views of the model depend on the books only. *)
LEMMA WholeBoth ==
  ASSUME NEW t
  PROVE  /\ \A c : Whole(t, c) = Both(t.told, c)
         /\ \A lo, hi : Joined(t, lo, hi) = Hist(t.told, lo, hi)
BY DEF Whole, Joined, Both, Hist

BothSo(told, c) == Both(told, c) \in Seq(Item) /\ Len(Both(told, c)) = Entries(told[c])

(* A chunk has as many entries as the books say. *)
LEMMA BothAre == \A told \in Seq(Lengths) : \A c \in 1..Len(told) : BothSo(told, c)
<1> SUFFICES ASSUME NEW told \in Seq(Lengths), NEW c \in 1..Len(told) PROVE BothSo(told, c)
  OBVIOUS
<1> DEFINE n == told[c].condition
           m == told[c].audio
<1>1. c \in Nat /\ told[c] \in Lengths
  OBVIOUS
<1>2. n \in Nat /\ m \in Nat
  BY <1>1 DEF Lengths
<1> HIDE DEF n, m
<1>3. CopiesSo(<<c, "text">>, n, Item) /\ CopiesSo(<<c, "audio">>, m, Item)
  BY <1>1, <1>2, WordsAre, Zenon
<1>4. /\ Words(c, n) \in Seq(Item) /\ Len(Words(c, n)) = n
      /\ Sounds(c, m) \in Seq(Item) /\ Len(Sounds(c, m)) = m
  BY <1>3 DEF CopiesSo, Words, Sounds
<1>5. Words(c, n) \o Sounds(c, m) \in Seq(Item) /\ Len(Words(c, n) \o Sounds(c, m)) = n + m
  BY <1>4, ConcatProperties
<1> QED BY <1>5 DEF BothSo, Both, Entries, n, m

(* A history grows by its next chunk and is not changed by later ones. *)
HistSo(told, lo, hi) ==
  /\ Hist(told, lo, hi) \in Seq(Item)
  /\ lo = hi + 1 => Hist(told, lo, hi) = <<>>
  /\ hi < Len(told) => Hist(told, lo, hi + 1) = Hist(told, lo, hi) \o Both(told, hi + 1)
  /\ \A x \in Lengths : Hist(Append(told, x), lo, hi) = Hist(told, lo, hi)

LEMMA HistAre ==
  \A told \in Seq(Lengths) : \A hi \in 0..Len(told) : \A lo \in 1..(hi + 1) :
    HistSo(told, lo, hi)
<1> SUFFICES ASSUME NEW told \in Seq(Lengths), NEW hi \in 0..Len(told), NEW lo \in 1..(hi + 1)
             PROVE  HistSo(told, lo, hi)
  OBVIOUS
<1> DEFINE P(h) == [i \in 1..(h + 1 - lo) |-> Both(told, lo + i - 1)]
           p == P(hi)
           n == (hi + 1) - lo
<1>0. Len(told) \in Nat /\ hi \in Nat /\ lo \in Nat /\ n \in Nat /\ hi <= Len(told) /\ lo >= 1
      /\ hi + 1 - lo = n
  OBVIOUS
<1>1. \A c \in 1..Len(told) : Both(told, c) \in Seq(Item)
  BY BothAre DEF BothSo
<1>2. \A i \in 1..n : lo + i - 1 \in 1..hi
  BY <1>0
<1>3. p \in Seq(Seq(Item)) /\ Len(p) = n /\ \A i \in 1..n : p[i] = Both(told, lo + i - 1)
  <2>1. \A i \in 1..n : Both(told, lo + i - 1) \in Seq(Item)
    <3>1. \A i \in 1..n : lo + i - 1 \in 1..Len(told)
      BY <1>0, <1>2
    <3> QED BY <1>1, <3>1
  <2> HIDE DEF n
  <2>2. p = [i \in 1..n |-> Both(told, lo + i - 1)]
    BY <1>0
  <2> HIDE DEF p
  <2> QED BY <1>0, <2>1, <2>2
<1>4. Hist(told, lo, hi) = FlattenSeq(p)
  BY DEF Hist
<1> HIDE DEF p, n
<1>5. FlattenSeq(p) \in Seq(Item) /\ \A x \in Seq(Item) : FlattenSeq(Append(p, x)) = FlattenSeq(p) \o x
  BY <1>3, FlattenSteps
<1>6. lo = hi + 1 => FlattenSeq(p) = <<>>
  <2> HAVE lo = hi + 1
  <2>1. p = <<>>
    BY <1>0, <1>3 DEF n
  <2> QED BY <2>1, FlattenSteps
<1>7. ASSUME hi < Len(told)
      PROVE  Hist(told, lo, hi + 1) = FlattenSeq(p) \o Both(told, hi + 1)
  <2> DEFINE b == Both(told, hi + 1)
             q == P(hi + 1)
  <2>1. b \in Seq(Item)
    <3>1. hi + 1 \in 1..Len(told)
      BY <1>0, <1>7
    <3> QED BY <1>1, <3>1
  <2>2. \A i \in 1..(n + 1) : lo + i - 1 = IF i = n + 1 THEN hi + 1 ELSE lo + i - 1
    BY <1>0 DEF n
  <2>3. (hi + 1) + 1 - lo = n + 1
    BY <1>0 DEF n
  <2>4. q = [i \in 1..(n + 1) |-> Both(told, lo + i - 1)]
    BY <2>3
  <2> HIDE DEF b, q
  <2>5. ASSUME NEW i \in 1..(n + 1)
        PROVE  Both(told, lo + i - 1) = IF i = n + 1 THEN b ELSE p[i]
    <3>1. CASE i = n + 1
      <4>1. lo + i - 1 = hi + 1
        BY <2>2, <3>1
      <4> QED BY <3>1, <4>1 DEF b
    <3>2. CASE i # n + 1
      <4>1. i \in 1..n
        BY <1>0, <3>2
      <4> QED BY <1>3, <3>2, <4>1
    <3> QED BY <3>1, <3>2
  <2>6. q = [i \in 1..(n + 1) |-> IF i = n + 1 THEN b ELSE p[i]]
    BY <2>4, <2>5
  <2>7. /\ Append(p, b) \in Seq(Seq(Item)) /\ Len(Append(p, b)) = n + 1
        /\ \A i \in 1..(n + 1) : Append(p, b)[i] = IF i = n + 1 THEN b ELSE p[i]
    BY <1>0, <1>3, <2>1
  <2>8. q \in Seq(Seq(Item)) /\ Len(q) = n + 1
        /\ \A i \in 1..(n + 1) : q[i] = IF i = n + 1 THEN b ELSE p[i]
    BY <1>0, <1>3, <2>1, <2>6
  <2>9. q = Append(p, b)
    <3> DEFINE r == Append(p, b)
    <3>1. r \in Seq(Seq(Item)) /\ Len(q) = Len(r) /\ \A i \in 1..Len(q) : q[i] = r[i]
      BY <2>7, <2>8
    <3> HIDE DEF r
    <3>2. q = r
      BY <2>8, <3>1, SeqEqual
    <3> QED BY <3>2 DEF r
  <2>10. Hist(told, lo, hi + 1) = FlattenSeq(q)
    BY DEF Hist, q
  <2> QED BY <1>5, <2>1, <2>9, <2>10 DEF b
<1>8. ASSUME NEW x \in Lengths PROVE Hist(Append(told, x), lo, hi) = FlattenSeq(p)
  <2> DEFINE more == Append(told, x)
  <2>1. \A c \in 1..Len(told) : more[c] = told[c]
    BY <1>0
  <2>2. \A i \in 1..n : more[lo + i - 1] = told[lo + i - 1]
    <3>1. \A i \in 1..n : lo + i - 1 \in 1..Len(told)
      BY <1>0, <1>2
    <3> HIDE DEF more
    <3> QED BY <2>1, <3>1
  <2> HIDE DEF more
  <2>3. \A i \in 1..n : Both(more, lo + i - 1) = Both(told, lo + i - 1)
    BY <2>2, Zenon DEF Both
  <2>4. [i \in 1..(hi + 1 - lo) |-> Both(more, lo + i - 1)] = p
    BY <1>0, <2>3 DEF p
  <2> QED BY <2>4 DEF Hist, more
<1> QED BY <1>4, <1>5, <1>6, <1>7, <1>8 DEF HistSo
-----------------------------------------------------------------------------
(* The first chunk that is still in view when an answer is made as a whole *)
(* and its window is recomputed from time to time                          *)
Again(c) == c - 1 >= Window /\ (c - 1 - Recomputed) % (Window - Recomputed) = 0
First(c) ==
  IF c - 1 < Recomputed THEN 1
  ELSE (Window - Recomputed) * ((c - 1 - Recomputed) \div (Window - Recomputed)) + 1

(* The quotient stays between two multiples. *)
LEMMA DivisionSteps ==
  \A a \in Nat, v \in Nat \ {0} :
    /\ a < v => a \div v = 0
    /\ (a + 1) % v # 0 => a \div v = (a + 1) \div v
BY SMT

(* The first chunk in view stays until the window is full, and moves then  *)
(* to the first of those recomputed; the window never holds more than it   *)
(* may.                                                                    *)
FirstSo(c) ==
  /\ First(c) \in 1..c
  /\ First(c) \in Most(1, c + 1 - Window)..Most(1, c - Recomputed)
  /\ Again(c) => First(c) = c - Recomputed /\ c > 1
  /\ c > 1 /\ ~Again(c) => First(c - 1) = First(c)

LEMMA FirstAre == First(1) = 1 /\ \A c \in Nat \ {0} : FirstSo(c)
<1> DEFINE P == Window - Recomputed
           Q(d) == P * (d \div P)
<1>1. /\ P \in Nat \ {0} /\ Recomputed \in Nat \ {0} /\ Window = Recomputed + P /\ Window \in Nat
      /\ 1 - 1 < Recomputed
  BY Sizes
<1>2. \A d \in Nat : /\ Q(d) \in Nat /\ Q(d) <= d /\ d < Q(d) + P
                     /\ d % P = 0 <=> Q(d) = d
  <2> HIDE DEF P
  <2> QED BY <1>1, Division
<1>3. \A d \in Nat : /\ d < P => Q(d) = 0
                     /\ (d + 1) % P # 0 => Q(d) = Q(d + 1)
  <2> HIDE DEF P
  <2>1. P * 0 = 0
    BY <1>1
  <2> QED BY <1>1, <2>1, DivisionSteps
<1>4. \A c : First(c) = IF c - 1 < Recomputed THEN 1 ELSE Q(c - 1 - Recomputed) + 1
  BY DEF First
<1>5. \A c : Again(c) <=> c - 1 >= Window /\ (c - 1 - Recomputed) % P = 0
  BY DEF Again
<1> HIDE DEF P, Q
<1>6. ASSUME NEW c \in Nat \ {0} PROVE FirstSo(c)
  <2>1. CASE c - 1 < Recomputed
    <3>1. First(c) = 1 /\ ~Again(c) /\ (c > 1 => First(c - 1) = 1)
      BY <1>1, <1>4, <1>5, <2>1
    <3>2. Most(1, c + 1 - Window) = 1 /\ Most(1, c - Recomputed) = 1
      BY <1>1, <2>1 DEF Most
    <3> QED BY <3>1, <3>2 DEF FirstSo
  <2>2. CASE ~(c - 1 < Recomputed)
    <3> DEFINE d == c - 1 - Recomputed
    <3>1. d \in Nat /\ c = (d + Recomputed) + 1 /\ c > 1
      BY <1>1, <2>2
    <3>2. First(c) = Q(d) + 1 /\ (Again(c) <=> d >= P /\ d % P = 0)
      <4>1. c - 1 >= Window <=> d >= P
        BY <1>1, <3>1
      <4> QED BY <1>4, <1>5, <2>2, <4>1
    <3>3. First(c - 1) = IF d = 0 THEN 1 ELSE Q(d - 1) + 1
      <4>1. (c - 1) - 1 < Recomputed <=> d = 0
        BY <1>1, <3>1
      <4>2. d # 0 => (c - 1) - 1 - Recomputed = d - 1
        BY <1>1, <3>1
      <4>3. First(c - 1) = IF (c - 1) - 1 < Recomputed THEN 1 ELSE Q((c - 1) - 1 - Recomputed) + 1
        BY <1>4
      <4> HIDE DEF d
      <4> QED BY <4>1, <4>2, <4>3
    <3> HIDE DEF d
    <3>4. Q(d) \in Nat /\ Q(d) <= d /\ d < Q(d) + P /\ (d % P = 0 <=> Q(d) = d)
      BY <1>2, <3>1
    <3>5. First(c) \in 1..c
      BY <1>1, <3>1, <3>2, <3>4
    <3>6. First(c) \in Most(1, c + 1 - Window)..Most(1, c - Recomputed)
      BY <1>1, <3>1, <3>2, <3>4 DEF Most
    <3>7. Again(c) => First(c) = c - Recomputed
      BY <1>1, <3>1, <3>2, <3>4
    <3>8. ASSUME ~Again(c) PROVE First(c - 1) = First(c)
      <4>1. CASE d = 0
        <5>1. Q(d) = 0
          BY <3>4, <4>1
        <5> QED BY <3>2, <3>3, <4>1, <5>1
      <4>2. CASE d # 0
        <5>1. d - 1 \in Nat /\ (d - 1) + 1 = d
          BY <3>1, <4>2
        <5>2. CASE d < P
          <6>1. Q(d) = 0 /\ Q(d - 1) = 0
            BY <1>1, <1>3, <3>1, <5>1, <5>2
          <6> QED BY <3>2, <3>3, <4>2, <6>1
        <5>3. CASE ~(d < P)
          <6>1. d % P # 0
            BY <1>1, <3>1, <3>2, <3>8, <5>3
          <6>2. Q(d - 1) = Q((d - 1) + 1)
            BY <1>3, <5>1, <6>1
          <6> QED BY <3>2, <3>3, <4>2, <5>1, <6>2
        <5> QED BY <5>2, <5>3
      <4> QED BY <4>1, <4>2
    <3> QED BY <3>1, <3>5, <3>6, <3>7, <3>8 DEF FirstSo
  <2> QED BY <2>1, <2>2
<1>7. First(1) = 1
  BY <1>1, <1>4
<1> QED BY <1>6, <1>7
-----------------------------------------------------------------------------
(* What is in view in front of the chunk that is spoken (Base), and what   *)
(* the cache keeps behind the one that was (Kept)                          *)
BaseFrom(attention, n) ==
  IF attention = "sliding_recompute" THEN IF Streamed THEN Most(1, n) ELSE First(n + 1)
  ELSE IF attention = "sliding_window" /\ ~Streamed THEN Most(1, n) ELSE 1
KeptFrom(attention, n) ==
  IF attention = "sliding_recompute" THEN First(Most(1, n))
  ELSE IF attention = "sliding_window" /\ ~Streamed THEN Most(1, n) ELSE 1

(* The views begin with a chunk there is. *)
Base(attention, told) ==
  IF attention = "reindex" /\ Streamed /\ Len(told) > 1
  THEN Both(told, 1) \o Hist(told, Len(told), Len(told))
  ELSE Hist(told, BaseFrom(attention, Len(told)), Len(told))
Kept(attention, told) ==
  IF attention = "reindex" /\ Streamed /\ Len(told) > 2
  THEN Both(told, 1) \o Hist(told, Len(told) - 1, Len(told))
  ELSE Hist(told, KeptFrom(attention, Len(told)), Len(told))

LEMMA FromsAre ==
  \A n \in Nat : \A attention \in Attentions :
    BaseFrom(attention, n) \in 1..(n + 1) /\ KeptFrom(attention, n) \in 1..(n + 1)
<1> SUFFICES ASSUME NEW n \in Nat, NEW attention \in Attentions
             PROVE  BaseFrom(attention, n) \in 1..(n + 1) /\ KeptFrom(attention, n) \in 1..(n + 1)
  OBVIOUS
<1>1. Most(1, n) \in Nat \ {0} /\ Most(1, n) <= n + 1 /\ n + 1 \in Nat \ {0}
  BY DEF Most
<1> DEFINE m == Most(1, n)
<1> HIDE DEF m
<1>2. FirstSo(m) /\ FirstSo(n + 1)
  BY <1>1, FirstAre, Zenon DEF m
<1>3. First(m) \in 1..(n + 1) /\ First(n + 1) \in 1..(n + 1)
  BY <1>1, <1>2 DEF FirstSo, m
<1> QED BY <1>1, <1>3 DEF BaseFrom, KeptFrom, m

(* The history of one chunk *)
LEMMA HistOne ==
  \A told \in Seq(Lengths) : \A c \in 1..Len(told) : Hist(told, c, c) = Both(told, c)
<1> SUFFICES ASSUME NEW told \in Seq(Lengths), NEW c \in 1..Len(told)
             PROVE  Hist(told, c, c) = Both(told, c)
  OBVIOUS
<1>1. c - 1 \in 0..Len(told) /\ c \in 1..((c - 1) + 1) /\ (c - 1) + 1 = c /\ c - 1 < Len(told)
  OBVIOUS
<1>2. HistSo(told, c, c - 1)
  BY <1>1, HistAre, Zenon
<1>3. Hist(told, c, c - 1) = <<>> /\ Hist(told, c, c) = Hist(told, c, c - 1) \o Both(told, c)
  BY <1>1, <1>2 DEF HistSo
<1>4. BothSo(told, c)
  BY BothAre, Zenon
<1>5. <<>> \o Both(told, c) = Both(told, c)
  BY <1>4, ConcatEmptySeq DEF BothSo
<1> QED BY <1>3, <1>5

(* The views are sequences of items. *)
LEMMA ViewsAre ==
  ASSUME NEW told \in Seq(Lengths), NEW attention \in Attentions
  PROVE  Base(attention, told) \in Seq(Item) /\ Kept(attention, told) \in Seq(Item)
<1> DEFINE n == Len(told)
<1>1. n \in Nat
  OBVIOUS
<1>2. \A lo \in 1..(n + 1) : Hist(told, lo, n) \in Seq(Item)
  <2>1. n \in 0..Len(told)
    BY <1>1
  <2>2. \A lo \in 1..(n + 1) : HistSo(told, lo, n)
    BY <2>1, HistAre, Zenon
  <2> QED BY <2>2, Zenon DEF HistSo
<1>3. \A c \in 1..n : Both(told, c) \in Seq(Item)
  BY BothAre DEF BothSo
<1> HIDE DEF n
<1>4. BaseFrom(attention, n) \in 1..(n + 1) /\ KeptFrom(attention, n) \in 1..(n + 1)
  BY <1>1, FromsAre
<1>5. ASSUME NEW lo \in 1..(n + 1), n > 1
      PROVE  Both(told, 1) \o Hist(told, lo, n) \in Seq(Item)
  <2>1. Both(told, 1) \in Seq(Item) /\ Hist(told, lo, n) \in Seq(Item)
    BY <1>1, <1>2, <1>3, <1>5
  <2> QED BY <2>1, ConcatProperties, Zenon
<1>6. n > 1 => n \in 1..(n + 1) /\ n - 1 \in 1..(n + 1)
  BY <1>1
<1>7. Base(attention, told) \in Seq(Item)
  BY <1>1, <1>2, <1>4, <1>5, <1>6 DEF Base, n
<1>8. Kept(attention, told) \in Seq(Item)
  BY <1>1, <1>2, <1>4, <1>5, <1>6 DEF Kept, n
<1> QED BY <1>7, <1>8
-----------------------------------------------------------------------------
(* What the cache keeps is what the next chunk is to have in view, unless  *)
(* it is recomputed or re-indexed.                                         *)
KeptSo(attention, told) ==
  LET n == Len(told) IN
  /\ n = 0 => Base(attention, told) = <<>> /\ Kept(attention, told) = <<>>
  /\ attention # "sliding_recompute" /\ ~(attention = "reindex" /\ Streamed /\ n > 1) =>
       Kept(attention, told) = Base(attention, told)
  /\ attention = "sliding_recompute" /\ ~Streamed /\ ~Again(n + 1) =>
       Kept(attention, told) = Base(attention, told)
  /\ attention = "sliding_recompute" /\ ~Streamed /\ Again(n + 1) =>
       Base(attention, told) = Hist(told, n + 1 - Recomputed, n)
  /\ attention = "sliding_recompute" /\ Streamed /\ n > 0 =>
       Base(attention, told) = Both(told, n)

LEMMA KeptIsBase ==
  ASSUME NEW told \in Seq(Lengths), NEW attention \in Attentions
  PROVE  KeptSo(attention, told)
<1> DEFINE n == Len(told)
           b == BaseFrom(attention, n)
           k == KeptFrom(attention, n)
<1>1. n \in Nat /\ n + 1 \in Nat \ {0} /\ n \in 0..n
  OBVIOUS
<1>2. b \in 1..(n + 1) /\ k \in 1..(n + 1)
  BY <1>1, FromsAre
<1>3. /\ \A lo \in 1..(n + 1) : HistSo(told, lo, n)
      /\ \A c \in 1..n : Hist(told, c, c) = Both(told, c)
  BY HistAre, HistOne
<1>4. /\ Base(attention, told) = IF attention = "reindex" /\ Streamed /\ n > 1
                                 THEN Both(told, 1) \o Hist(told, n, n) ELSE Hist(told, b, n)
      /\ Kept(attention, told) = IF attention = "reindex" /\ Streamed /\ n > 2
                                 THEN Both(told, 1) \o Hist(told, n - 1, n) ELSE Hist(told, k, n)
  BY DEF Base, Kept
<1> HIDE DEF n
<1>5. n = 0 => Base(attention, told) = <<>> /\ Kept(attention, told) = <<>>
  <2> HAVE n = 0
  <2>1. b = n + 1 /\ k = n + 1 /\ n + 1 \in 1..(n + 1)
    BY <1>2
  <2>2. HistSo(told, n + 1, n)
    BY <1>3, <2>1
  <2>3. Hist(told, n + 1, n) = <<>>
    BY <2>2 DEF HistSo
  <2> HIDE DEF b, k
  <2> QED BY <1>4, <2>1, <2>3
<1>6. ASSUME attention # "sliding_recompute", ~(attention = "reindex" /\ Streamed /\ n > 1)
      PROVE  Kept(attention, told) = Base(attention, told)
  <2>1. b = k
    BY <1>6 DEF BaseFrom, KeptFrom
  <2>2. ~(attention = "reindex" /\ Streamed /\ n > 2)
    BY <1>1, <1>6
  <2> HIDE DEF b, k
  <2> QED BY <1>4, <1>6, <2>1, <2>2
<1>7. ASSUME attention = "sliding_recompute", ~Streamed, ~Again(n + 1)
      PROVE  Kept(attention, told) = Base(attention, told)
  <2>1. CASE n = 0
    BY <1>5, <2>1
  <2>2. CASE n # 0
    <3>1. FirstSo(n + 1)
      BY <1>1, FirstAre, Zenon
    <3>2. First((n + 1) - 1) = First(n + 1)
      BY <1>1, <1>7, <2>2, <3>1 DEF FirstSo
    <3>3. (n + 1) - 1 = n /\ Most(1, n) = n
      BY <1>1, <2>2 DEF Most
    <3>4. k = First(Most(1, n)) /\ b = First(n + 1)
      BY <1>7 DEF BaseFrom, KeptFrom
    <3>5. b = k
      BY <3>2, <3>3, <3>4
    <3> HIDE DEF b, k
    <3> QED BY <1>4, <1>7, <3>5
  <2> QED BY <2>1, <2>2
<1>8. ASSUME attention = "sliding_recompute", ~Streamed, Again(n + 1)
      PROVE  Base(attention, told) = Hist(told, n + 1 - Recomputed, n)
  <2>1. FirstSo(n + 1)
    BY <1>1, FirstAre, Zenon
  <2>2. First(n + 1) = (n + 1) - Recomputed
    BY <1>8, <2>1 DEF FirstSo
  <2>3. b = First(n + 1) /\ (n + 1) - Recomputed = n + 1 - Recomputed
    BY <1>1, <1>8, Sizes DEF BaseFrom
  <2> HIDE DEF b
  <2> QED BY <1>4, <1>8, <2>2, <2>3
<1>9. ASSUME attention = "sliding_recompute", Streamed, n > 0
      PROVE  Base(attention, told) = Both(told, n)
  <2>1. b = n /\ n \in 1..n
    BY <1>1, <1>9 DEF BaseFrom, Most
  <2>2. Hist(told, n, n) = Both(told, n)
    BY <1>3, <2>1
  <2> HIDE DEF b
  <2> QED BY <1>4, <1>9, <2>1, <2>2
<1> QED BY <1>5, <1>6, <1>7, <1>8, <1>9 DEF KeptSo, n

(* What was in view and the chunk that was spoken are what the cache       *)
(* keeps, but for a window of one chunk.                                   *)
GrowsSo(attention, told, x) ==
  LET n == Len(told)
      more == Append(told, x)
  IN  /\ Both(more, n + 1) \in Seq(Item) /\ Len(Both(more, n + 1)) = Entries(x)
      /\ ~(attention = "sliding_recompute" /\ Streamed)
         /\ ~(attention = "sliding_window" /\ ~Streamed /\ n > 0) =>
           Base(attention, told) \o Both(more, n + 1) = Kept(attention, more)
      /\ attention = "sliding_window" /\ ~Streamed /\ n > 0 =>
           /\ Base(attention, told) = Both(told, n)
           /\ Kept(attention, more) = Both(more, n + 1)

LEMMA BaseGrows ==
  ASSUME NEW told \in Seq(Lengths), NEW attention \in Attentions, NEW x \in Lengths
  PROVE  GrowsSo(attention, told, x)
<1> DEFINE n == Len(told)
           more == Append(told, x)
           y == Both(more, n + 1)
<1>1. /\ n \in Nat /\ n + 1 \in 1..(n + 1) /\ more \in Seq(Lengths) /\ Len(more) = n + 1
      /\ more[n + 1] = x /\ \A c \in 1..n : more[c] = told[c]
  OBVIOUS
<1>2. y \in Seq(Item) /\ Len(y) = Entries(x)
  <2>1. n + 1 \in 1..Len(more)
    BY <1>1
  <2> HIDE DEF more, n
  <2>2. BothSo(more, n + 1)
    BY <1>1, <2>1, BothAre, Zenon
  <2> QED BY <1>1, <2>2 DEF BothSo
<1>3. ASSUME NEW lo \in 1..(n + 1)
      PROVE  /\ Hist(more, lo, n + 1) = Hist(told, lo, n) \o y
             /\ Hist(told, lo, n) \in Seq(Item)
  <2>1. n \in 0..Len(told) /\ n \in 0..Len(more) /\ n < Len(more)
    BY <1>1
  <2>2. HistSo(told, lo, n)
    BY <2>1, HistAre, Zenon
  <2> HIDE DEF n
  <2>3. HistSo(more, lo, n)
    <3> HIDE DEF more
    <3> QED BY <1>1, <2>1, HistAre, Zenon
  <2>4. Hist(more, lo, n) = Hist(told, lo, n) /\ Hist(told, lo, n) \in Seq(Item)
    BY <2>2 DEF HistSo
  <2>5. Hist(more, lo, n + 1) = Hist(more, lo, n) \o y
    <3> HIDE DEF more, y
    <3> QED BY <2>1, <2>3 DEF HistSo, y
  <2> QED BY <2>4, <2>5
<1>4. \A c \in 1..n : Both(more, c) = Both(told, c) /\ Both(told, c) \in Seq(Item)
                      /\ Hist(told, c, c) = Both(told, c)
  <2>1. \A c \in 1..n : Both(more, c) = Both(told, c)
    <3> HIDE DEF more
    <3> QED BY <1>1 DEF Both
  <2> QED BY <2>1, BothAre, HistOne DEF BothSo
<1>a. \A c \in 1..(n + 1) : Hist(more, c, c) = Both(more, c)
  <2> HIDE DEF more, n
  <2> QED BY <1>1, HistOne
<1> HIDE DEF n, more, y
<1>5. ASSUME ~(attention = "sliding_recompute" /\ Streamed),
             ~(attention = "sliding_window" /\ ~Streamed /\ n > 0)
      PROVE  Base(attention, told) \o y = Kept(attention, more)
  <2>1. CASE attention = "reindex" /\ Streamed /\ n > 1
    <3>1. /\ Base(attention, told) = Both(told, 1) \o Hist(told, n, n)
          /\ Kept(attention, more) = Both(more, 1) \o Hist(more, n, n + 1)
      <4>1. n + 1 > 2 /\ (n + 1) - 1 = n
        BY <1>1, <2>1
      <4> QED BY <1>1, <2>1, <4>1 DEF Base, Kept, n
    <3>2. n \in 1..(n + 1) /\ 1 \in 1..n
      BY <1>1, <2>1
    <3>3. /\ Hist(more, n, n + 1) = Hist(told, n, n) \o y /\ Hist(told, n, n) \in Seq(Item)
          /\ Both(more, 1) = Both(told, 1) /\ Both(told, 1) \in Seq(Item)
      BY <1>3, <1>4, <3>2
    <3>4. Three(Both(told, 1), Hist(told, n, n), y, Item)
      BY <1>2, <3>3, JoinThree, Zenon
    <3> QED BY <3>1, <3>3, <3>4 DEF Three
  <2>2. CASE ~(attention = "reindex" /\ Streamed /\ n > 1)
    <3> DEFINE b == BaseFrom(attention, n)
    <3>1. b \in 1..(n + 1)
      BY <1>1, FromsAre
    <3>2. KeptFrom(attention, n + 1) = b
      <4>1. Most(1, n + 1) = n + 1
        BY <1>1 DEF Most
      <4>2. n = 0 => Most(1, n) = 1 /\ Most(1, n + 1) = 1
        BY DEF Most
      <4>3. CASE attention = "sliding_recompute"
        BY <1>5, <4>1, <4>3 DEF BaseFrom, KeptFrom
      <4>4. CASE attention # "sliding_recompute" /\ ~(attention = "sliding_window" /\ ~Streamed)
        BY <4>4 DEF BaseFrom, KeptFrom
      <4>5. CASE attention = "sliding_window" /\ ~Streamed
        BY <1>1, <1>5, <4>2, <4>5 DEF BaseFrom, KeptFrom
      <4> QED BY <4>3, <4>4, <4>5
    <3> HIDE DEF b
    <3>3. ~(attention = "reindex" /\ Streamed /\ n + 1 > 2)
      BY <1>1, <2>2
    <3>4. /\ Base(attention, told) = Hist(told, b, n)
          /\ Kept(attention, more) = Hist(more, b, n + 1)
      BY <1>1, <2>2, <3>2, <3>3 DEF Base, Kept, b, n
    <3> QED BY <1>3, <3>1, <3>4
  <2> QED BY <2>1, <2>2
<1>6. ASSUME attention = "sliding_window", ~Streamed, n > 0
      PROVE  Base(attention, told) = Both(told, n) /\ Kept(attention, more) = y
  <2>1. Most(1, n) = n /\ Most(1, n + 1) = n + 1 /\ n \in 1..n
    BY <1>1, <1>6 DEF Most
  <2>2. Base(attention, told) = Hist(told, n, n)
    BY <1>6, <2>1 DEF Base, BaseFrom, n
  <2>3. Kept(attention, more) = Hist(more, n + 1, n + 1)
    BY <1>1, <1>6, <2>1 DEF Kept, KeptFrom
  <2> QED BY <1>1, <1>4, <1>a, <2>1, <2>2, <2>3 DEF y
<1> QED BY <1>2, <1>5, <1>6 DEF GrowsSo, n, more, y
-----------------------------------------------------------------------------
(* The cache between two chunks, before the chunk that is spoken is fed,   *)
(* and with m of its tokens                                                *)
Placing(t, a) == a # 0 => t.attention = "sliding_window" /\ ~Streamed

Holds(t, v, a) ==
  /\ Placing(t, a)
  /\ t.cache = Seen(v, a, Slides(t))

Remembers(t) ==
  \E a \in Nat :
    LET v == Kept(t.attention, t.told)
    IN  Holds(t, v, a) /\ t.start = a + Len(v)

Spoke(t, m) == Words(Len(t.told) + 1, t.condition) \o Sounds(Len(t.told) + 1, m)

(* What is fed of the chunk that is spoken *)
Speaks(t, m) ==
  \E a \in Nat :
    LET b == Base(t.attention, t.told)
    IN  /\ Holds(t, b \o Spoke(t, m), a)
        /\ t.start + t.prefill = a + (Len(b) + t.condition)

LEMMA SpokeIs ==
  ASSUME NEW t \in Voices, NEW m \in Nat
  PROVE  /\ Spoke(t, m) \in Seq(Item) /\ Len(Spoke(t, m)) = t.condition + m
         /\ Spoke(t, m) \o Sounds(Len(t.told) + 1, 1) = Spoke(t, m + 1)
         /\ Spoke(t, 0) = Words(Len(t.told) + 1, t.condition)
         /\ Words(Len(t.told) + 1, t.condition) \in Seq(Item)
         /\ Len(Words(Len(t.told) + 1, t.condition)) = t.condition
         /\ Sounds(Len(t.told) + 1, 1) \in Seq(Item)
<1> DEFINE c == Len(t.told) + 1
           w == Words(c, t.condition)
           s == Sounds(c, m)
           o == Sounds(c, 1)
<1>1. c \in Nat /\ t.condition \in Nat
  BY DEF Voices
<1> HIDE DEF c
<1>2. /\ CopiesSo(<<c, "text">>, t.condition, Item) /\ CopiesSo(<<c, "audio">>, m, Item)
      /\ CopiesSo(<<c, "audio">>, 1, Item)
  BY <1>1, WordsAre, Zenon
<1>3. /\ w \in Seq(Item) /\ Len(w) = t.condition /\ s \in Seq(Item) /\ Len(s) = m
      /\ o \in Seq(Item) /\ s \o o = Sounds(c, m + 1)
  BY <1>2 DEF CopiesSo, Words, Sounds
<1>4. Sounds(c, 0) = <<>>
  <2>1. 1..0 = {}
    OBVIOUS
  <2> QED BY <2>1 DEF Sounds, Copies
<1> HIDE DEF w, s, o
<1>5. w \o <<>> = w
  BY <1>3
<1>6. w \o s \in Seq(Item) /\ Len(w \o s) = t.condition + m
  <2>1. w \o s \in Seq(Item) /\ Len(w \o s) = Len(w) + Len(s)
    BY <1>3, ConcatProperties, Zenon
  <2> QED BY <1>3, <2>1
<1>7. (w \o s) \o o = w \o (s \o o)
  <2>1. Three(w, s, o, Item)
    BY <1>3, JoinThree, Zenon
  <2> QED BY <2>1 DEF Three
<1> QED BY <1>3, <1>4, <1>5, <1>6, <1>7 DEF Spoke, c, w, s, o

(* The fields of a chunk that is opened *)
OpensSo(k, f, n, t) ==
  /\ t \in Voices /\ t.drawn = 0 /\ t.told = k.told /\ t.attention = k.attention
  /\ t.cache = f /\ t.start = k.start /\ t.prefill = n
  /\ t.condition = k.condition /\ k.condition \in Nat

LEMMA OpensAs ==
  \A k \in Voices : \A f \in Seq(Spot) : \A n \in Nat :
    OpensSo(k, f, n, [k EXCEPT !.cache = f, !.prefill = n, !.drawn = 0])
<1> SUFFICES ASSUME NEW k \in Voices, NEW f \in Seq(Spot), NEW n \in Nat,
                    NEW t, t = [k EXCEPT !.cache = f, !.prefill = n, !.drawn = 0]
             PROVE  OpensSo(k, f, n, t)
  OBVIOUS
<1>1. k.condition \in Nat /\ 0 \in Nat
  BY DEF Voices
<1>2. t \in Voices
  BY <1>1 DEF Voices
<1>3. /\ t.drawn = 0 /\ t.told = k.told /\ t.attention = k.attention
      /\ t.cache = f /\ t.start = k.start /\ t.prefill = n
      /\ t.condition = k.condition
  BY DEF Voices
<1> QED BY <1>1, <1>2, <1>3 DEF OpensSo

OpenedSo(f, t) ==
  f \in Voices /\ Speaks(f, 0) /\ f.drawn = 0 /\ f.told = t.told /\ f.attention = t.attention

(* The chunk is opened with b in the cache, and the rest of what is to be  *)
(* in view in front of its words.                                          *)
LEMMA Opens ==
  ASSUME NEW k \in Voices, NEW b \in Seq(Item), NEW back \in Seq(Item), NEW a \in Nat,
         Holds(k, b, a), k.start = a + Len(b),
         b \o back = Base(k.attention, k.told),
         NEW input, input = back \o Words(Len(k.told) + 1, k.condition),
         NEW t, t = [Fed(k, input, k.start) EXCEPT !.prefill = Len(input), !.drawn = 0]
  PROVE  OpenedSo(t, k)
<1> DEFINE w == Words(Len(k.told) + 1, k.condition)
           x == b \o back
           f == Seen(b \o input, a, Slides(k))
<1>1. w \in Seq(Item) /\ Len(w) = k.condition /\ Spoke(k, 0) = w
  BY SpokeIs
<1>2. input \in Seq(Item) /\ Len(input) = Len(back) + k.condition /\ Len(back) \in Nat
  <2> HIDE DEF w
  <2> QED BY <1>1, ConcatProperties DEF w
<1> HIDE DEF w
<1>3. b \o input = x \o w /\ Len(x) = Len(b) + Len(back) /\ x \in Seq(Item) /\ Len(b) \in Nat
  <2>1. Three(b, back, w, Item)
    BY <1>1, JoinThree, Zenon
  <2>2. input = back \o w
    BY DEF w
  <2>3. Len(b) \in Nat
    OBVIOUS
  <2>4. b \o input = x \o w
    BY <2>1, <2>2 DEF Three
  <2> QED BY <2>1, <2>3, <2>4, Zenon DEF Three
<1>4. Fed(k, input, k.start) = [k EXCEPT !.cache = f]
  <2>1. k.cache = Seen(b, a, Slides(k))
    BY DEF Holds
  <2>2. Fed(k, input, a + Len(b)) = [k EXCEPT !.cache = f]
    BY <1>2, <2>1, FedSees
  <2> QED BY <2>2
<1>5. f \in Seq(Spot)
  <2>1. b \o input \in Seq(Item)
    BY <1>2, ConcatProperties, Zenon
  <2>2. Slides(k) \in BOOLEAN
    BY DEF Slides
  <2>3. SeenSo(b \o input, a, Slides(k))
    BY <2>1, <2>2, SeenAre, Zenon
  <2> QED BY <2>3 DEF SeenSo
<1> HIDE DEF f, x
<1>6. t = [k EXCEPT !.cache = f, !.prefill = Len(input), !.drawn = 0]
  BY <1>4 DEF Voices
<1>7. /\ t \in Voices /\ t.drawn = 0 /\ t.told = k.told /\ t.attention = k.attention
      /\ t.cache = f /\ t.start = k.start /\ t.prefill = Len(input)
      /\ t.condition = k.condition /\ k.condition \in Nat
  <2> DEFINE n == Len(input)
  <2>1. n \in Nat
    BY <1>2
  <2> HIDE DEF n
  <2>2. t = [k EXCEPT !.cache = f, !.prefill = n, !.drawn = 0]
    BY <1>6 DEF n
  <2>3. OpensSo(k, f, n, [k EXCEPT !.cache = f, !.prefill = n, !.drawn = 0])
    BY <1>5, <2>1, OpensAs, Zenon
  <2>4. OpensSo(k, f, n, t)
    BY <2>2, <2>3, Zenon
  <2> QED BY <2>4 DEF n, OpensSo
<1>8. Slides(t) = Slides(k) /\ Spoke(t, 0) = w
  BY <1>1, <1>7 DEF Slides, Spoke
<1>9. Base(t.attention, t.told) = x
  BY <1>7 DEF x
<1>10. Holds(t, x \o w, a)
  BY <1>3, <1>7, <1>8 DEF Holds, Placing, f
<1>11. t.start + t.prefill = a + (Len(x) + t.condition)
  <2> DEFINE p == Len(b)
             q == Len(back)
             n == k.condition
  <2>1. p \in Nat /\ q \in Nat /\ n \in Nat /\ a \in Nat
    BY <1>2, <1>3, <1>7
  <2>2. t.start = a + p /\ t.prefill = q + n /\ Len(x) = p + q /\ t.condition = n
    BY <1>2, <1>3, <1>7
  <2> HIDE DEF p, q, n
  <2>3. (a + p) + (q + n) = a + ((p + q) + n)
    BY <2>1
  <2> QED BY <2>2, <2>3
<1>12. Speaks(t, 0)
  BY <1>8, <1>9, <1>10, <1>11, Zenon DEF Speaks
<1> QED BY <1>7, <1>12 DEF OpenedSo

(* The token drawn last is fed. *)
LEMMA Feeds ==
  ASSUME NEW t \in Voices, Speaks(t, IF t.drawn = 0 THEN 0 ELSE t.drawn - 1),
         NEW f, f = FeedDrawn(t)
  PROVE  /\ f \in Voices /\ Speaks(f, f.drawn)
         /\ f = [t EXCEPT !.cache = f.cache]
<1>1. CASE t.drawn = 0
  <2>1. f = t
    BY <1>1 DEF FeedDrawn
  <2>2. t = [t EXCEPT !.cache = t.cache]
    BY DEF Voices
  <2> QED BY <1>1, <2>1, <2>2
<1>2. CASE t.drawn # 0
  <2> DEFINE m == t.drawn - 1
             c == Len(t.told) + 1
             b == Base(t.attention, t.told)
             v == b \o Spoke(t, m)
             o == Sounds(c, 1)
  <2>1. m \in Nat /\ t.drawn = m + 1 /\ t.told \in Seq(Lengths) /\ t.attention \in Attentions
        /\ t.start \in Nat /\ t.prefill \in Nat /\ t.condition \in Nat
    BY <1>2 DEF Voices
  <2>2. Speaks(t, m)
    BY <1>2
  <2> HIDE DEF m
  <2>3. PICK a \in Nat : Holds(t, v, a) /\ t.start + t.prefill = a + (Len(b) + t.condition)
    BY <2>2 DEF Speaks
  <2>4. b \in Seq(Item)
    BY <2>1, ViewsAre
  <2>5. /\ Spoke(t, m) \in Seq(Item) /\ Len(Spoke(t, m)) = t.condition + m
        /\ Spoke(t, m) \o o = Spoke(t, m + 1) /\ o \in Seq(Item)
    BY <2>1, SpokeIs
  <2> HIDE DEF b, c, o
  <2>6. v \in Seq(Item) /\ Len(v) = Len(b) + (t.condition + m) /\ Len(b) \in Nat
    <3>1. Spoke(t, m) \in Seq(Item)
      BY <2>5
    <3>2. v \in Seq(Item) /\ Len(v) = Len(b) + Len(Spoke(t, m))
      BY <2>4, <3>1, ConcatProperties, Zenon
    <3>3. Len(b) \in Nat
      BY <2>4, LenProperties, Zenon
    <3>4. Len(Spoke(t, m)) = t.condition + m
      BY <2>5
    <3> QED BY <3>2, <3>3, <3>4, Zenon
  <2>7. v \o o = b \o Spoke(t, m + 1)
    <3>1. Three(b, Spoke(t, m), o, Item)
      BY <2>4, <2>5, JoinThree, Zenon
    <3> QED BY <2>5, <3>1 DEF Three
  <2> HIDE DEF v
  <2>8. t.start + t.prefill + t.drawn - 1 = a + Len(v)
    BY <2>1, <2>3, <2>6
  <2> DEFINE x == Seen(v \o o, a, Slides(t))
  <2>9. f = [t EXCEPT !.cache = x]
    <3>1. f = Fed(t, o, t.start + t.prefill + t.drawn - 1)
      BY <1>2 DEF FeedDrawn, o, c
    <3> QED BY <2>3, <2>5, <2>6, <2>8, <3>1, FedSees DEF Holds
  <2>10. x \in Seq(Spot)
    <3>1. v \o o \in Seq(Item)
      BY <2>5, <2>6, ConcatProperties, Zenon
    <3>2. Slides(t) \in BOOLEAN
      BY DEF Slides
    <3>3. SeenSo(v \o o, a, Slides(t))
      BY <3>1, <3>2, SeenAre, Zenon
    <3> QED BY <3>3 DEF SeenSo
  <2> HIDE DEF x
  <2>11. /\ f \in Voices /\ f.cache = x /\ f.drawn = t.drawn /\ f.told = t.told
         /\ f.attention = t.attention /\ f.start = t.start /\ f.prefill = t.prefill
         /\ f.condition = t.condition /\ f = [t EXCEPT !.cache = f.cache]
    BY <2>9, <2>10 DEF Voices
  <2>12. Slides(f) = Slides(t) /\ Spoke(f, f.drawn) = Spoke(t, m + 1)
    BY <2>1, <2>11 DEF Slides, Spoke
  <2>13. Base(f.attention, f.told) = b
    BY <2>11 DEF b
  <2>14. Holds(f, b \o Spoke(f, f.drawn), a)
    BY <2>3, <2>7, <2>11, <2>12 DEF Holds, Placing, x
  <2>15. f.start + f.prefill = a + (Len(b) + f.condition)
    BY <2>3, <2>11
  <2>16. Speaks(f, f.drawn)
    BY <2>13, <2>14, <2>15, Zenon DEF Speaks
  <2> QED BY <2>11, <2>16
<1> QED BY <1>1, <1>2
-----------------------------------------------------------------------------
(* The first chunk x and the last one y stay, and y moves up to x. *)
ReindexSo(t, x, y) ==
  LET k == Reindexed(t)
  IN  /\ k \in Voices /\ k.cache = Placed(x \o y, 0) /\ k.start = Len(x \o y)
      /\ k.told = t.told /\ k.attention = t.attention /\ k.condition = t.condition

(* With the first chunk x, the last chunk y and whatever lies between them *)
(* in the cache, _reindex_kv_cache leaves x and y without a gap.           *)
LEMMA Reindexes ==
  ASSUME NEW t \in Voices, NEW x \in Seq(Item), NEW m \in Seq(Item), NEW y \in Seq(Item),
         Len(t.told) > 1, Len(x) = Entries(t.told[1]), Len(y) = Entries(t.told[Len(t.told)]),
         t.cache = Placed((x \o m) \o y, 0), t.start = Len((x \o m) \o y)
  PROVE  ReindexSo(t, x, y)
<1> DEFINE sink == Len(x)
           last == Len(y)
           by == Len(m)
           all == (x \o m) \o y
           size == Len(t.cache)
           tail == Drop(t.cache, size - last)
           moved == [i \in DOMAIN tail |-> [tail[i] EXCEPT !.at = @ - (size - last - sink)]]
<1>1. sink \in Nat /\ last \in Nat /\ by \in Nat
  OBVIOUS
<1>2. /\ x \o m \in Seq(Item) /\ Len(x \o m) = sink + by
      /\ all \in Seq(Item) /\ Len(all) = (sink + by) + last
      /\ all = x \o (m \o y) /\ m \o y \in Seq(Item)
  <2>1. Three(x, m, y, Item)
    BY JoinThree, Zenon
  <2>2. x \o m \in Seq(Item)
    BY ConcatProperties, Zenon
  <2> QED BY <2>1, <2>2, Zenon DEF Three
<1>3. PlacedSo(all, 0)
  BY <1>2, PlacedAre
<1> HIDE DEF all
<1>4. t.cache = Placed(all, 0) /\ size = (sink + by) + last
  BY <1>2, <1>3 DEF PlacedSo, all
<1>5. Reindexed(t) =
        IF size <= sink + last THEN t
        ELSE [t EXCEPT !.cache = SubSeq(t.cache, 1, sink) \o moved, !.start = sink + last]
  <2>1. ~(Len(t.told) < 2)
    <3>1. Len(t.told) \in Nat
      BY DEF Voices
    <3> QED BY <3>1
  <2> QED BY <2>1 DEF Reindexed
<1>6. x \o y \in Seq(Item) /\ Len(x \o y) = sink + last
  BY ConcatProperties
<1>7. CASE by = 0
  <2>1. m = <<>>
    BY <1>7
  <2>2. x \o m = x
    BY <2>1
  <2>3. all = x \o y
    BY <2>2 DEF all
  <2>4. Reindexed(t) = t
    BY <1>1, <1>4, <1>5, <1>7
  <2> QED BY <2>3, <2>4 DEF ReindexSo, all
<1>8. CASE by # 0
  <2>1. /\ size - last = sink + by /\ size - last - sink = by /\ ~(size <= sink + last)
        /\ sink \in 0..Len(all) /\ sink + by \in 0..Len(all) /\ 0 + sink = sink
        /\ 0 + (sink + by) = sink + by /\ sink + by \in Nat
    <3>1. Len(all) = (sink + by) + last
      BY <1>2
    <3> HIDE DEF sink, last, by, size
    <3> QED BY <1>1, <1>4, <1>8, <3>1
  <2>2. SubSeq(t.cache, 1, sink) = Placed(x, 0)
    <3>1. PlacedCut(all, 0, sink)
      BY <1>2, <2>1, PlacedParts, Zenon
    <3>2. SubSeq(x \o (m \o y), 1, sink) = x
      BY <1>2, FrontOf, Zenon
    <3> QED BY <1>2, <1>4, <3>1, <3>2 DEF PlacedCut
  <2>3. tail = Placed(y, sink + by)
    <3>1. PlacedCut(all, 0, sink + by)
      BY <1>2, <2>1, PlacedParts, Zenon
    <3>2. Drop((x \o m) \o y, Len(x \o m)) = y
      BY <1>2, BackOf, Zenon
    <3>3. Drop(all, sink + by) = y
      BY <1>2, <3>2 DEF all
    <3> QED BY <1>4, <2>1, <3>1, <3>3 DEF PlacedCut
  <2>4. moved = Placed(y, sink)
    <3>1. moved = [i \in DOMAIN tail |-> [tail[i] EXCEPT !.at = @ - by]]
      BY <2>1
    <3>2. DOMAIN tail = DOMAIN y /\ DOMAIN y = 1..last
      <4>1. DOMAIN Placed(y, sink + by) = DOMAIN y
        BY DEF Placed
      <4>2. DOMAIN y = 1..last
        OBVIOUS
      <4> HIDE DEF tail, last
      <4> QED BY <2>3, <4>1, <4>2
    <3>3. ASSUME NEW i \in DOMAIN y
          PROVE  [tail[i] EXCEPT !.at = @ - by] = [item |-> y[i], at |-> sink + i - 1]
      <4>1. tail[i] = [item |-> y[i], at |-> (sink + by) + i - 1]
        BY <2>3 DEF Placed
      <4>2. ((sink + by) + i - 1) - by = sink + i - 1
        BY <1>1, <3>2
      <4> HIDE DEF tail, sink, by
      <4> QED BY <4>1, <4>2
    <3> HIDE DEF tail, moved, sink, by
    <3> QED BY <3>1, <3>2, <3>3 DEF Placed
  <2> HIDE DEF moved, tail
  <2>5. Placed(x, 0) \o Placed(y, sink) = Placed(x \o y, 0)
    <3>1. Placed(x, 0) \o Placed(y, 0 + Len(x)) = Placed(x \o y, 0)
      <4>1. x \in Seq(Item) /\ y \in Seq(Item) /\ 0 \in Nat
        OBVIOUS
      <4> QED BY <4>1, PlacedJoin, Zenon
    <3> QED BY <2>1, <3>1
  <2> DEFINE c == Placed(x \o y, 0)
             n == sink + last
  <2>6. Reindexed(t) = [t EXCEPT !.cache = c, !.start = n]
    BY <1>5, <2>1, <2>2, <2>4, <2>5
  <2>7. c \in Seq(Spot) /\ n \in Nat
    <3>1. PlacedSo(x \o y, 0)
      BY <1>6, PlacedAre
    <3> QED BY <1>1, <3>1 DEF PlacedSo
  <2> HIDE DEF c, n
  <2> DEFINE k == [t EXCEPT !.cache = c, !.start = n]
  <2>8. /\ k \in Voices /\ k.cache = c /\ k.start = n
        /\ k.told = t.told /\ k.attention = t.attention /\ k.condition = t.condition
    BY <2>7 DEF Voices
  <2> HIDE DEF k
  <2>9. Reindexed(t) = k
    BY <2>6 DEF k
  <2> QED BY <1>6, <2>8, <2>9 DEF ReindexSo, c, n
<1> QED BY <1>7, <1>8

(* What a chunk is opened with: the cache is kept, or re-indexed *)
Opener(k, t, b) ==
  /\ k \in Voices /\ Holds(k, b, 0) /\ k.start = Len(b)
  /\ k.told = t.told /\ k.attention = t.attention /\ k.condition = t.condition

(* A re-indexed cache holds what the next chunk is to have in view. *)
LEMMA ReindexedOpens ==
  ASSUME NEW t \in Voices, t.attention = "reindex", Streamed, t.told # <<>>, Remembers(t)
  PROVE  Opener(Reindexed(t), t, Base(t.attention, t.told))
<1> DEFINE told == t.told
           n == Len(told)
           v == Kept("reindex", told)
<1>1. told \in Seq(Lengths) /\ "reindex" \in Attentions /\ n \in Nat /\ n > 0
  BY DEF Voices, Attentions
<1>2. ~Slides(t)
  BY DEF Slides
<1>3. t.cache = Placed(v, 0) /\ t.start = Len(v)
  <2>1. PICK a \in Nat : Holds(t, v, a) /\ t.start = a + Len(v)
    BY DEF Remembers
  <2>2. a = 0
    BY <2>1 DEF Holds, Placing
  <2>3. Len(v) \in Nat
    BY <1>1, ViewsAre
  <2> HIDE DEF v
  <2> QED BY <1>2, <2>1, <2>2, <2>3 DEF Holds, Seen
<1>4. CASE n = 1
  <2>1. Kept("reindex", told) = Base("reindex", told)
    <3>1. KeptSo("reindex", told)
      BY <1>1, KeptIsBase, Zenon
    <3>2. ~(n > 1)
      BY <1>4
    <3> QED BY <3>1, <3>2 DEF KeptSo
  <2>2. Reindexed(t) = t
    BY <1>4 DEF Reindexed
  <2>3. Holds(t, v, 0)
    BY <1>2, <1>3 DEF Holds, Placing, Seen
  <2> HIDE DEF v
  <2>4. Opener(t, t, v)
    BY <1>3, <2>3 DEF Opener
  <2> QED BY <2>1, <2>2, <2>4 DEF v
<1>5. CASE n > 1
  <2> DEFINE x == Both(told, 1)
             y == Both(told, n)
  <2>1. /\ x \in Seq(Item) /\ Len(x) = Entries(told[1])
        /\ y \in Seq(Item) /\ Len(y) = Entries(told[n])
        /\ Hist(told, n, n) = y
    <3>1. 1 \in 1..Len(told) /\ n \in 1..Len(told)
      BY <1>1, <1>5
    <3>2. BothSo(told, 1) /\ BothSo(told, n)
      BY <1>1, <3>1, BothAre, Zenon
    <3> QED BY <1>1, <3>1, <3>2, HistOne DEF BothSo
  <2>2. Base("reindex", told) = x \o y
    BY <1>5, <2>1 DEF Base
  <2>3. \E m \in Seq(Item) : v = (x \o m) \o y
    <3>1. n - 1 \in 0..n /\ n - 1 \in 1..((n - 1) + 1) /\ n - 1 < n /\ (n - 1) + 1 = n
          /\ n - 1 \in 1..n
      BY <1>1, <1>5
    <3> DEFINE p == n - 1
    <3>2. HistSo(told, p, p)
      BY <1>1, <3>1, HistAre, Zenon
    <3>3. Hist(told, p, p) = Both(told, p) /\ Both(told, p) \in Seq(Item)
      <4>1. BothSo(told, p)
        BY <1>1, <3>1, BothAre, Zenon
      <4> QED BY <1>1, <3>1, <4>1, HistOne DEF BothSo
    <3>4. Hist(told, p, n) = Both(told, p) \o y
      <4>1. Hist(told, p, p + 1) = Hist(told, p, p) \o Both(told, p + 1)
        BY <3>1, <3>2 DEF HistSo
      <4>2. p + 1 = n
        BY <3>1
      <4> HIDE DEF p, n
      <4> QED BY <3>3, <4>1, <4>2
    <3>5. CASE n > 2
      <4>1. v = x \o Hist(told, p, n)
        BY <3>5 DEF Kept
      <4>2. Three(x, Both(told, p), y, Item)
        BY <2>1, <3>3, JoinThree, Zenon
      <4>3. v = (x \o Both(told, p)) \o y
        BY <3>4, <4>1, <4>2 DEF Three
      <4> HIDE DEF v, x, y, p
      <4> QED BY <3>3, <4>3
    <3>6. CASE ~(n > 2)
      <4>1. p = 1 /\ n = 2
        <5> HIDE DEF n
        <5> QED BY <1>1, <1>5, <3>6
      <4>2. v = Hist(told, 1, n)
        BY <3>6 DEF Kept, KeptFrom
      <4>3. x \o <<>> = x /\ <<>> \in Seq(Item)
        BY <2>1
      <4>4. v = (x \o <<>>) \o y
        <5> HIDE DEF v
        <5> QED BY <3>4, <4>1, <4>2, <4>3
      <4> HIDE DEF v, x, y
      <4> QED BY <4>3, <4>4
    <3> QED BY <3>5, <3>6
  <2>4. PICK m \in Seq(Item) : v = (x \o m) \o y
    BY <2>3
  <2> HIDE DEF v, x, y
  <2>5. ReindexSo(t, x, y)
    BY <1>3, <1>5, <2>1, <2>4, Reindexes
  <2> DEFINE k == Reindexed(t)
             b == x \o y
  <2>6. /\ k \in Voices /\ k.cache = Placed(b, 0) /\ k.start = Len(b)
        /\ k.told = t.told /\ k.attention = t.attention /\ k.condition = t.condition
    BY <2>5 DEF ReindexSo
  <2> HIDE DEF k, b
  <2>7. ~Slides(k)
    BY <2>6 DEF Slides
  <2>8. Holds(k, b, 0)
    BY <2>6, <2>7 DEF Holds, Placing, Seen
  <2>9. Opener(k, t, b)
    BY <2>6, <2>8 DEF Opener
  <2>10. Opener(Reindexed(t), t, Base("reindex", told))
    BY <2>2, <2>9 DEF k, b
  <2> QED BY <2>10
<1>6. n = 1 \/ n > 1
  <2> HIDE DEF n
  <2> QED BY <1>1
<1> QED BY <1>4, <1>5, <1>6
-----------------------------------------------------------------------------
(* A chunk is opened, spoken and closed. *)
Opened(t, c) == IF Streamed THEN OpenStreamed(t, c) ELSE OpenInterleaved(t, c)

(* A chunk opened on another cache, with something put in front *)
LEMMA OpensChunk ==
  ASSUME NEW t \in Voices, NEW k \in Voices, NEW b \in Seq(Item), NEW back \in Seq(Item),
         NEW a \in Nat, Holds(k, b, a), k.start = a + Len(b),
         k.told = t.told, k.attention = t.attention, k.condition = t.condition,
         b \o back = Base(t.attention, t.told),
         NEW c, c = Len(t.told) + 1,
         NEW input, input = back \o Words(c, t.condition),
         NEW f, f = [Fed(k, input, k.start) EXCEPT !.prefill = Len(input), !.drawn = 0]
  PROVE  OpenedSo(f, t)
<1>1. b \o back = Base(k.attention, k.told) /\ input = back \o Words(Len(k.told) + 1, k.condition)
  OBVIOUS
<1>2. OpenedSo(f, k)
  BY <1>1, Opens, Zenon
<1> QED BY <1>2 DEF OpenedSo

(* An emptied cache *)
LEMMA EmptiedOpens ==
  ASSUME NEW t \in Voices, t.attention = "sliding_recompute"
  PROVE  Opener([t EXCEPT !.cache = <<>>, !.start = 0], t, <<>>)
<1> DEFINE k == [t EXCEPT !.cache = <<>>, !.start = 0]
<1>1. <<>> \in Seq(Spot) /\ 0 \in Nat
  OBVIOUS
<1>2. /\ k \in Voices /\ k.cache = <<>> /\ k.start = 0
      /\ k.told = t.told /\ k.attention = t.attention /\ k.condition = t.condition
  BY <1>1 DEF Voices
<1> HIDE DEF k
<1>3. ~Slides(k)
  BY <1>2 DEF Slides
<1>4. Placed(<<>>, 0) = <<>>
  BY DEF Placed
<1>5. Holds(k, <<>>, 0)
  BY <1>2, <1>3, <1>4 DEF Holds, Placing, Seen
<1>6. Len(<<>>) = 0
  OBVIOUS
<1>7. Opener(k, t, <<>>)
  BY <1>2, <1>5, <1>6 DEF Opener
<1> QED BY <1>7 DEF k

(* However a chunk is opened, it is opened with the right view. *)
LEMMA OpenedSpeaks ==
  ASSUME NEW t \in Voices,
         Remembers(t) \/ (t.attention = "sliding_recompute" /\ Streamed /\ t.told # <<>>)
  PROVE  OpenedSo(Opened(t, Len(t.told) + 1), t)
<1> DEFINE told == t.told
           n == Len(told)
           c == n + 1
           w == Words(c, t.condition)
           b == Base(t.attention, told)
           f == Opened(t, c)
           FedWith(k, input) == [Fed(k, input, k.start) EXCEPT !.prefill = Len(input), !.drawn = 0]
<1> SUFFICES OpenedSo(f, t)
  OBVIOUS
<1>1. told \in Seq(Lengths) /\ t.attention \in Attentions /\ n \in Nat
  BY DEF Voices
<1>2. KeptSo(t.attention, told) /\ b \in Seq(Item) /\ <<>> \in Seq(Item)
  BY <1>1, KeptIsBase, ViewsAre
<1>3. w \in Seq(Item) /\ <<>> \o w = w /\ b \o <<>> = b /\ <<>> \o b = b
  <2>1. w \in Seq(Item)
    BY SpokeIs
  <2> HIDE DEF w, b
  <2> QED BY <1>2, <2>1
<1>4. /\ c = 1 <=> n = 0
      /\ c > 1 <=> n > 0
      /\ c - 1 = n /\ (n = 0 <=> told = <<>>)
  <2>1. n = 0 <=> told = <<>>
    BY <1>1
  <2> HIDE DEF n
  <2> QED BY <1>1, <2>1
(* The cache starts anew with what is put in front of the words. *)
<1>5. ASSUME t.attention = "sliding_recompute",
             f = FedWith([t EXCEPT !.cache = <<>>, !.start = 0], b \o w)
      PROVE  OpenedSo(f, t)
  <2> DEFINE k == [t EXCEPT !.cache = <<>>, !.start = 0]
             input == b \o w
  <2>1. Opener(k, t, <<>>)
    BY <1>5, EmptiedOpens
  <2>2. f = [Fed(k, input, k.start) EXCEPT !.prefill = Len(input), !.drawn = 0]
    BY <1>5
  <2>3. input = b \o Words(c, t.condition)
    OBVIOUS
  <2>4. <<>> \o b = Base(t.attention, t.told)
    BY <1>3
  <2>5. 0 \in Nat /\ 0 + Len(<<>>) = Len(<<>>)
    OBVIOUS
  <2> HIDE DEF f, k, input, b
  <2> QED BY <1>2, <2>1, <2>2, <2>3, <2>4, <2>5, OpensChunk DEF Opener
(* The cache is kept. *)
<1>6. ASSUME Remembers(t), Kept(t.attention, told) = b, f = FedWith(t, w)
      PROVE  OpenedSo(f, t)
  <2>1. PICK a \in Nat : Holds(t, b, a) /\ t.start = a + Len(b)
    BY <1>6 DEF Remembers
  <2>2. f = [Fed(t, w, t.start) EXCEPT !.prefill = Len(w), !.drawn = 0]
    BY <1>6
  <2>3. w = <<>> \o Words(c, t.condition)
    BY <1>3
  <2>4. b \o <<>> = Base(t.attention, t.told)
    BY <1>3
  <2> HIDE DEF f, w, b
  <2> QED BY <1>2, <2>1, <2>2, <2>3, <2>4, OpensChunk
<1>7. CASE Streamed
  <2>1. f = OpenStreamed(t, c)
    BY <1>7 DEF Opened
  <2>2. CASE t.attention = "sliding_recompute" /\ n > 0
    <3>1. Whole(t, c - 1) = b
      BY <1>2, <1>4, <1>7, <2>2, WholeBoth DEF KeptSo
    <3>2. f = FedWith([t EXCEPT !.cache = <<>>, !.start = 0], b \o w)
      <4>1. c > 1 /\ c # 1
        BY <1>4, <2>2
      <4> HIDE DEF c, b, n
      <4> QED BY <2>1, <2>2, <3>1, <4>1 DEF OpenStreamed
    <3> HIDE DEF f, b, w
    <3> QED BY <1>5, <2>2, <3>2
  <2>3. CASE t.attention = "reindex" /\ n > 0
    <3> DEFINE k == Reindexed(t)
    <3>1. Opener(k, t, b)
      <4>1. Remembers(t) /\ t.told # <<>>
        BY <1>4, <2>3
      <4> QED BY <1>7, <2>3, <4>1, ReindexedOpens
    <3>2. f = [Fed(k, w, k.start) EXCEPT !.prefill = Len(w), !.drawn = 0]
      <4>1. c > 1 /\ c # 1
        BY <1>4, <2>3
      <4> HIDE DEF c, n, k
      <4> QED BY <1>3, <2>1, <2>3, <4>1 DEF OpenStreamed, k
    <3>3. w = <<>> \o Words(c, t.condition)
      BY <1>3
    <3>4. b \o <<>> = Base(t.attention, t.told)
      BY <1>3
    <3>5. 0 \in Nat /\ 0 + Len(b) = Len(b)
      <4> HIDE DEF b
      <4> QED BY <1>2
    <3> HIDE DEF f, k, w, b
    <3> QED BY <1>2, <3>1, <3>2, <3>3, <3>4, <3>5, OpensChunk DEF Opener
  <2>4. CASE n = 0 \/ t.attention \notin {"sliding_recompute", "reindex"}
    <3>1. f = FedWith(t, w)
      <4>1. c = 1 \/ t.attention \notin {"sliding_recompute", "reindex"}
        BY <1>4, <2>4
      <4>2. ~(t.attention = "sliding_recompute" /\ c > 1)
        BY <1>4, <2>4
      <4> HIDE DEF c, n
      <4> QED BY <1>3, <2>1, <4>1, <4>2 DEF OpenStreamed
    <3>2. Remembers(t)
      BY <1>4, <2>4
    <3>3. Kept(t.attention, told) = b
      BY <1>2, <2>4 DEF KeptSo
    <3> HIDE DEF f, b, w
    <3> QED BY <1>6, <3>1, <3>2, <3>3
  <2>5. n > 0 \/ n = 0
    <3> HIDE DEF n
    <3> QED BY <1>1
  <2> QED BY <2>2, <2>3, <2>4, <2>5
<1>8. CASE ~Streamed
  <2> DEFINE again == t.attention = "sliding_recompute" /\ Again(c)
  <2>1. f = OpenInterleaved(t, c)
    BY <1>8 DEF Opened
  <2>2. again <=> /\ t.attention = "sliding_recompute" /\ c - 1 >= Window
                  /\ (c - 1 - Recomputed) % (Window - Recomputed) = 0
    BY DEF Again
  <2>3. Remembers(t)
    BY <1>8
  <2>4. CASE again
    <3>1. Joined(t, c - Recomputed, c - 1) = b
      <4>1. b = Hist(told, c - Recomputed, n)
        <5>1. b = Hist(told, n + 1 - Recomputed, n)
          BY <1>2, <1>8, <2>4 DEF KeptSo
        <5>2. c - Recomputed = n + 1 - Recomputed
          <6>1. Recomputed \in Nat
            BY Sizes
          <6> HIDE DEF n
          <6> QED BY <1>1, <6>1
        <5> HIDE DEF b, c, n
        <5> QED BY <5>1, <5>2
      <4> HIDE DEF b
      <4> QED BY <1>4, <4>1, WholeBoth
    <3>2. f = FedWith([t EXCEPT !.cache = <<>>, !.start = 0], b \o w)
      <4> HIDE DEF c, b, n
      <4> QED BY <2>1, <2>2, <2>4, <3>1 DEF OpenInterleaved
    <3> HIDE DEF f, b, w
    <3> QED BY <1>5, <2>4, <3>2
  <2>5. CASE ~again
    <3>1. f = FedWith(t, w)
      <4> HIDE DEF c, n
      <4> QED BY <1>3, <2>1, <2>2, <2>5 DEF OpenInterleaved
    <3>2. Kept(t.attention, told) = b
      BY <1>2, <1>8, <2>5 DEF KeptSo
    <3> HIDE DEF f, b, w
    <3> QED BY <1>6, <2>3, <3>1, <3>2
  <2> QED BY <2>4, <2>5
<1> QED BY <1>7, <1>8
-----------------------------------------------------------------------------
(* Whatever the cache holds, a chunk leaves the books of the ones before. *)
Fields == {"attention", "told", "cache", "start", "condition", "prefill", "drawn"}

(* Feeding leaves the books alone. *)
Kin(f, t) ==
  /\ DOMAIN f = Fields /\ f.attention = t.attention /\ f.told = t.told
  /\ f.condition = t.condition

LEMMA KinFed ==
  ASSUME NEW t, DOMAIN t = Fields, NEW items, NEW at
  PROVE  Kin(Fed(t, items, at), t) /\ Fed(t, items, at).drawn = t.drawn
<1> DEFINE z == [t EXCEPT !.cache = t.cache \o Placed(items, at)]
           d == Drop(z.cache, Len(z.cache) - TokenWindow)
           y == [z EXCEPT !.cache = d]
<1>1. Fed(t, items, at) = z \/ Fed(t, items, at) = y
  BY DEF Fed, Truncated
<1>2. Kin(z, t) /\ z.drawn = t.drawn
  BY DEF Kin, Fields
<1> HIDE DEF z, d
<1>3. Kin(y, t) /\ y.drawn = t.drawn
  BY <1>2 DEF Kin, Fields
<1> HIDE DEF y
<1> QED BY <1>1, <1>2, <1>3

(* So does re-indexing. *)
LEMMA KinReindexed ==
  ASSUME NEW t, DOMAIN t = Fields
  PROVE  Kin(Reindexed(t), t)
<1>1. PICK x, y : Reindexed(t) = t \/ Reindexed(t) = [t EXCEPT !.cache = x, !.start = y]
  <2> DEFINE sink == Entries(t.told[1])
             last == Entries(t.told[Len(t.told)])
             by == Len(t.cache) - last - sink
             tail == Drop(t.cache, Len(t.cache) - last)
             x == SubSeq(t.cache, 1, sink) \o [i \in DOMAIN tail |-> [tail[i] EXCEPT !.at = @ - by]]
  <2>1. Reindexed(t) = t \/ Reindexed(t) = [t EXCEPT !.cache = x, !.start = sink + last]
    BY DEF Reindexed
  <2> HIDE DEF x, sink, last
  <2> QED BY <2>1
<1>2. Kin(t, t) /\ Kin([t EXCEPT !.cache = x, !.start = y], t)
  BY DEF Kin, Fields
<1> QED BY <1>1, <1>2

(* So does the opening of a chunk. *)
LEMMA KinOpened ==
  ASSUME NEW t, DOMAIN t = Fields, NEW c
  PROVE  Kin(Opened(t, c), t) /\ Opened(t, c).drawn = 0
<1> DEFINE e == [t EXCEPT !.cache = <<>>, !.start = 0]
           FedWith(k, input) == [Fed(k, input, k.start) EXCEPT !.prefill = Len(input), !.drawn = 0]
<1>1. Kin(e, t) /\ Kin(t, t)
  BY DEF Kin, Fields
<1> HIDE DEF e
<1>2. Kin(Reindexed(t), t)
  BY KinReindexed
<1>3. \E k \in {t, e, Reindexed(t)} : \E input : Opened(t, c) = FedWith(k, input)
  <2> DEFINE b1 == IF t.attention = "sliding_recompute" /\ c > 1 THEN Whole(t, c - 1) ELSE <<>>
             i1 == b1 \o Words(c, t.condition)
             k1 == IF c = 1 THEN t
                   ELSE IF t.attention = "sliding_recompute" THEN e
                   ELSE IF t.attention = "reindex" THEN Reindexed(t) ELSE t
             again == /\ t.attention = "sliding_recompute" /\ c - 1 >= Window
                      /\ (c - 1 - Recomputed) % (Window - Recomputed) = 0
             i2 == (IF again THEN Joined(t, c - Recomputed, c - 1) ELSE <<>>) \o Words(c, t.condition)
             k2 == IF again THEN e ELSE t
  <2>1. OpenStreamed(t, c) = FedWith(k1, i1)
    BY DEF OpenStreamed, e
  <2>2. OpenInterleaved(t, c) = FedWith(k2, i2)
    BY DEF OpenInterleaved, e
  <2>3. k1 \in {t, e, Reindexed(t)} /\ k2 \in {t, e, Reindexed(t)}
    BY Zenon
  <2> HIDE DEF k1, i1, k2, i2
  <2>4. Opened(t, c) = FedWith(k1, i1) \/ Opened(t, c) = FedWith(k2, i2)
    BY <2>1, <2>2 DEF Opened
  <2> QED BY <2>3, <2>4
<1>3a. PICK k \in {t, e, Reindexed(t)} : \E input : Opened(t, c) = FedWith(k, input)
  BY <1>3
<1>4. PICK input : Opened(t, c) = FedWith(k, input)
  BY <1>3a
<1>5. Kin(k, t)
  BY <1>1, <1>2
<1> DEFINE g == Fed(k, input, k.start)
<1>6. Kin(g, k)
  <2>1. DOMAIN k = Fields
    BY <1>5 DEF Kin
  <2> QED BY <2>1, KinFed
<1> HIDE DEF g
<1>7. Opened(t, c) = [g EXCEPT !.prefill = Len(input), !.drawn = 0]
  BY <1>4 DEF g
<1>8. Kin([g EXCEPT !.prefill = Len(input), !.drawn = 0], g)
      /\ [g EXCEPT !.prefill = Len(input), !.drawn = 0].drawn = 0
  <2>1. DOMAIN g = Fields
    BY <1>6 DEF Kin
  <2> QED BY <2>1 DEF Kin, Fields
<1> QED BY <1>5, <1>6, <1>7, <1>8 DEF Kin

(* So does the token that was drawn last. *)
LEMMA KinFeedDrawn ==
  ASSUME NEW t, DOMAIN t = Fields
  PROVE  Kin(FeedDrawn(t), t) /\ FeedDrawn(t).drawn = t.drawn
<1>1. Kin(t, t)
  BY DEF Kin
<1> QED BY <1>1, KinFed DEF FeedDrawn

ClosedOf(f) == IF Streamed THEN Closed(f) ELSE ClosedInterleaved(f)

(* A chunk that is closed enters the books. *)
ClosedKin(k, f) ==
  /\ DOMAIN k = Fields /\ k.attention = f.attention
  /\ k.told = Append(f.told, [condition |-> f.condition, audio |-> f.drawn])
  /\ k.condition = f.condition /\ k.drawn = f.drawn

LEMMA KinClosed ==
  ASSUME NEW f, DOMAIN f = Fields
  PROVE  ClosedKin(Closed(f), f) /\ ClosedKin(ClosedInterleaved(f), f)
<1>1. ClosedKin(Closed(f), f)
  BY DEF Closed, ClosedKin, Fields
<1>2. PICK x : ClosedInterleaved(f) = [Closed(f) EXCEPT !.cache = x]
  <2> DEFINE c == Len(f.told) + 1
             old == IF f.attention = "sliding_window" /\ c > 1 THEN Entries(f.told[c - 1]) ELSE 0
             x == Drop(Closed(f).cache, old)
  <2>1. ClosedInterleaved(f) = [Closed(f) EXCEPT !.cache = x]
    BY DEF ClosedInterleaved
  <2> HIDE DEF x
  <2> QED BY <2>1
<1> DEFINE g == Closed(f)
<1>3. ClosedKin(g, f)
  BY <1>1
<1> HIDE DEF g
<1>4. ClosedKin([g EXCEPT !.cache = x], f)
  BY <1>3 DEF ClosedKin, Fields
<1> QED BY <1>1, <1>2, <1>4 DEF g

(* A chunk that was fed to its last token leaves in the cache what is to   *)
(* be kept.                                                                *)
LEMMA Closes ==
  ASSUME NEW f \in Voices, Speaks(f, f.drawn), NEW k, k = ClosedOf(f)
  PROVE  /\ k \in Voices
         /\ ~(f.attention = "sliding_recompute" /\ Streamed) => Remembers(k)
<1> DEFINE told == f.told
           n == Len(told)
           x == [condition |-> f.condition, audio |-> f.drawn]
           more == Append(told, x)
           b == Base(f.attention, told)
           y == Both(more, n + 1)
           g == Closed(f)
           s == f.start + f.prefill + f.drawn
<1>1. /\ told \in Seq(Lengths) /\ f.attention \in Attentions /\ n \in Nat
      /\ f.start \in Nat /\ f.prefill \in Nat /\ f.drawn \in Nat /\ f.condition \in Nat
      /\ f.cache \in Seq(Spot)
  BY DEF Voices
<1>2. x \in Lengths /\ x.condition = f.condition /\ x.audio = f.drawn
  BY <1>1 DEF Lengths
<1> HIDE DEF x
<1>3. /\ more \in Seq(Lengths) /\ Len(more) = n + 1 /\ more[n + 1] = x
  BY <1>1, <1>2
<1>4. GrowsSo(f.attention, told, x)
  BY <1>1, <1>2, BaseGrows, Zenon
<1>5. y = Spoke(f, f.drawn)
  <2> HIDE DEF more
  <2> QED BY <1>2, <1>3 DEF Both, Spoke
<1>6. b \in Seq(Item)
  BY <1>1, ViewsAre
<1>7. y \in Seq(Item) /\ Len(y) = f.condition + f.drawn
  BY <1>1, <1>5, SpokeIs
<1> HIDE DEF more, y, b
<1>8. PICK a \in Nat : Holds(f, b \o y, a) /\ f.start + f.prefill = a + (Len(b) + f.condition)
  BY <1>5 DEF Speaks, b
<1>9. Len(b) \in Nat /\ b \o y \in Seq(Item) /\ Len(b \o y) = Len(b) + (f.condition + f.drawn)
  <2>1. b \o y \in Seq(Item) /\ Len(b \o y) = Len(b) + Len(y)
    BY <1>6, <1>7, ConcatProperties, Zenon
  <2>2. Len(b) \in Nat
    BY <1>6
  <2> QED BY <1>7, <2>1, <2>2
<1>10. s \in Nat /\ s = a + Len(b \o y)
  <2> DEFINE p == Len(b)
  <2>1. p \in Nat /\ f.start + f.prefill = a + (p + f.condition)
        /\ Len(b \o y) = p + (f.condition + f.drawn)
    BY <1>8, <1>9
  <2> HIDE DEF p
  <2>2. (a + (p + f.condition)) + f.drawn = a + (p + (f.condition + f.drawn))
    BY <1>1, <2>1
  <2>3. a + (p + (f.condition + f.drawn)) \in Nat
    <3>1. f.condition \in Nat /\ f.drawn \in Nat /\ a \in Nat
      BY DEF Voices
    <3> QED BY <2>1, <3>1
  <2>4. s = (f.start + f.prefill) + f.drawn
    OBVIOUS
  <2> HIDE DEF s
  <2> QED BY <2>1, <2>2, <2>3, <2>4
<1>11. /\ g \in Voices /\ g.attention = f.attention /\ g.told = more /\ g.cache = f.cache
       /\ g.start = s /\ g.drawn = f.drawn /\ g.condition = f.condition
  <2>1. g = [f EXCEPT !.told = more, !.start = s]
    BY DEF Closed, more, x
  <2> HIDE DEF g, s
  <2> QED BY <1>1, <1>3, <1>10, <2>1 DEF Voices
<1> HIDE DEF g, s
<1>12. ASSUME k = g, ~(f.attention = "sliding_window" /\ ~Streamed /\ n > 0)
       PROVE  /\ k \in Voices
              /\ ~(f.attention = "sliding_recompute" /\ Streamed) => Remembers(k)
  <2>1. ASSUME ~(f.attention = "sliding_recompute" /\ Streamed) PROVE Remembers(k)
    <3>1. Kept(k.attention, k.told) = b \o y
      BY <1>4, <1>11, <1>12, <2>1 DEF GrowsSo, b, y, more, n
    <3>2. Holds(k, b \o y, a)
      BY <1>8, <1>11, <1>12 DEF Holds, Placing, Slides
    <3>3. k.start = a + Len(b \o y)
      BY <1>10, <1>11, <1>12
    <3> QED BY <3>1, <3>2, <3>3, Zenon DEF Remembers
  <2> QED BY <1>11, <1>12, <2>1
<1>13. CASE Streamed
  BY <1>12, <1>13 DEF ClosedOf, g
<1>14. CASE ~Streamed /\ ~(f.attention = "sliding_window" /\ n > 0)
  <2>1. ~(f.attention = "sliding_window" /\ n + 1 > 1)
    <3> HIDE DEF n
    <3> QED BY <1>1, <1>14
  <2>2. Drop(g.cache, 0) = g.cache
    BY <1>1, <1>11, DropNone, Zenon
  <2>3. ClosedInterleaved(f) = [g EXCEPT !.cache = Drop(@, 0)]
    BY <2>1 DEF ClosedInterleaved, g
  <2>4. [g EXCEPT !.cache = g.cache] = g
    BY <1>11 DEF Voices
  <2>5. k = g
    BY <1>14, <2>2, <2>3, <2>4 DEF ClosedOf
  <2> QED BY <1>12, <1>14, <2>5
<1>15. CASE ~Streamed /\ f.attention = "sliding_window" /\ n > 0
  <2> DEFINE old == Entries(told[n])
             d == Drop(g.cache, old)
  <2>1. /\ n \in 1..n /\ n + 1 > 1 /\ (n + 1) - 1 = n
    <3> HIDE DEF n
    <3> QED BY <1>1, <1>15
  <2>2. /\ b = Both(told, n) /\ Kept(f.attention, more) = y
    BY <1>4, <1>15 DEF GrowsSo, b, y, more, n
  <2>3. Len(b) = old
    <3>1. BothSo(told, n)
      BY <1>1, <2>1, BothAre, Zenon
    <3> QED BY <2>2, <3>1 DEF BothSo
  <2>4. ClosedInterleaved(f) = [g EXCEPT !.cache = d]
    <3>1. f.attention = "sliding_window" /\ Len(f.told) + 1 > 1
          /\ Entries(f.told[Len(f.told) + 1 - 1]) = old
      BY <1>15, <2>1
    <3> QED BY <3>1 DEF ClosedInterleaved, g
  <2>5. k = [g EXCEPT !.cache = d]
    BY <1>15, <2>4 DEF ClosedOf
  <2>6. d = Placed(y, a + old) /\ a + old \in Nat
    <3>1. g.cache = Placed(b \o y, a)
      <4>1. ~Slides(f)
        BY <1>15 DEF Slides
      <4> QED BY <1>8, <1>11, <4>1 DEF Holds, Seen
    <3>2. Len(b) \in 0..Len(b \o y)
      BY <1>1, <1>9
    <3>3. PlacedCut(b \o y, a, Len(b))
      BY <1>9, <3>2, PlacedParts, Zenon
    <3>4. Drop(b \o y, Len(b)) = y
      BY <1>6, <1>7, BackOf, Zenon
    <3>5. Drop(Placed(b \o y, a), Len(b)) = Placed(y, a + Len(b))
      BY <3>3, <3>4 DEF PlacedCut
    <3> QED BY <1>9, <2>3, <3>1, <3>5
  <2>7. d \in Seq(Spot)
    <3>1. PlacedSo(y, a + old)
      BY <1>7, <2>6, PlacedAre, Zenon
    <3> QED BY <2>6, <3>1 DEF PlacedSo
  <2> HIDE DEF d, old
  <2>8. /\ k \in Voices /\ k.attention = f.attention /\ k.told = more /\ k.cache = d
        /\ k.start = s
    BY <1>11, <2>5, <2>7 DEF Voices
  <2>9. Remembers(k)
    <3>1. Kept(k.attention, k.told) = y
      BY <2>2, <2>8
    <3>2. Holds(k, y, a + old)
      BY <1>15, <2>6, <2>8 DEF Holds, Placing, Slides, Seen
    <3>3. k.start = (a + old) + Len(y)
      <4>1. s = a + (old + (f.condition + f.drawn))
        BY <1>9, <1>10, <2>3
      <4>2. old \in Nat
        BY <1>9, <2>3
      <4> QED BY <1>1, <1>7, <2>8, <4>1, <4>2
    <3> QED BY <2>6, <3>1, <3>2, <3>3, Zenon DEF Remembers
  <2> QED BY <2>8, <2>9
<1>16. n > 0 \/ ~(n > 0)
  OBVIOUS
<1> QED BY <1>13, <1>14, <1>15, <1>16
-----------------------------------------------------------------------------
(* Between two chunks the cache is what the ones before leave in it, unless *)
(* it is put together again for the next one; and while a chunk is spoken   *)
(* it is fed up to the token before the last.                               *)
Fit == path # "text" /\ (Capped => tts.attention = "sliding_recompute")

BooksInv ==
  /\ DOMAIN tts = Fields /\ tts.told \in Seq(Lengths) /\ tts.attention \in Attentions
  /\ tts.condition \in Nat /\ tts.drawn \in Nat
  /\ path # "text" => Len(tts.told) = IF phase = "voice" THEN Len(words) - 1 ELSE Len(words)

MemoryInv ==
  Fit =>
    /\ tts \in Voices
    /\ phase = "think" => \/ tts.attention = "sliding_recompute" /\ Streamed /\ tts.told # <<>>
                          \/ Remembers(tts)
    /\ phase = "voice" => Speaks(tts, IF tts.drawn = 0 THEN 0 ELSE tts.drawn - 1)

CacheInv == BooksInv /\ MemoryInv

(* The first cache is empty. *)
LEMMA CacheInit == AnswerInit => CacheInv
<1> SUFFICES ASSUME AnswerInit PROVE CacheInv
  OBVIOUS
<1>1. PICK a \in Attentions :
        tts = [attention |-> a, told |-> <<>>, cache |-> <<>>, start |-> 0,
               condition |-> 0, prefill |-> 0, drawn |-> 0]
  BY DEF AnswerInit
<1>2. phase = "think" /\ words = <<>>
  BY DEF AnswerInit
<1> HIDE DEF AnswerInit
<1>3. <<>> \in Seq(Lengths) /\ <<>> \in Seq(Spot) /\ 0 \in Nat /\ Len(<<>>) = 0
  OBVIOUS
<1>4. tts \in Voices
  BY <1>1, <1>3 DEF Voices
<1>5. BooksInv
  BY <1>1, <1>2, <1>3 DEF BooksInv, Fields
<1>6. tts.attention = a /\ tts.told = <<>> /\ tts.cache = <<>> /\ tts.start = 0
  BY <1>1
<1>7. Remembers(tts)
  <2>1. KeptSo(a, <<>>)
    BY <1>3, KeptIsBase, Zenon
  <2>2. Kept(a, <<>>) = <<>>
    BY <1>3, <2>1 DEF KeptSo
  <2>3. Seen(<<>>, 0, Slides(tts)) = <<>>
    <3>1. Placed(<<>>, 0) = <<>>
      BY DEF Placed
    <3>2. Gone(<<>>) = 0
      <4>1. <<>> \in Seq(Item)
        OBVIOUS
      <4>2. Gone(<<>>) \in 0..Len(<<>>)
        BY <4>1, GoneIs, Zenon
      <4> QED BY <1>3, <4>2
    <3>3. Drop(<<>>, 0) = <<>>
      BY <1>3, DropNone
    <3> QED BY <3>1, <3>2, <3>3 DEF Seen
  <2>4. Holds(tts, <<>>, 0)
    BY <1>6, <2>3 DEF Holds, Placing
  <2>5. tts.start = 0 + Len(<<>>)
    BY <1>3, <1>6
  <2> QED BY <1>6, <2>2, <2>4, <2>5 DEF Remembers
<1>8. MemoryInv
  BY <1>2, <1>4, <1>7 DEF MemoryInv
<1> QED BY <1>5, <1>8 DEF CacheInv

(* The invariant of the next state, from what holds of its cache *)
LEMMA MemoryNext ==
  ASSUME path' = path, NEW z, z = tts',
         Fit' =>
           /\ z \in Voices
           /\ phase' = "think" => \/ z.attention = "sliding_recompute" /\ Streamed /\ z.told # <<>>
                                  \/ Remembers(z)
           /\ phase' = "voice" => Speaks(z, IF z.drawn = 0 THEN 0 ELSE z.drawn - 1)
  PROVE  MemoryInv'
<1>1. Streamed' = Streamed
  BY DEF Streamed
<1>2. Remembers(z) => Remembers(tts)'
  BY <1>1 DEF Remembers, Holds, Placing, Seen, Slides, Kept, KeptFrom
<1>3. Speaks(z, IF z.drawn = 0 THEN 0 ELSE z.drawn - 1) =>
        Speaks(tts, IF tts.drawn = 0 THEN 0 ELSE tts.drawn - 1)'
  BY <1>1 DEF Speaks, Spoke, Holds, Placing, Seen, Slides, Base, BaseFrom
<1> QED BY <1>1, <1>2, <1>3 DEF MemoryInv

(* The language model's chunk opens one of the voice. *)
LEMMA CacheThink ==
  ASSUME SaidInv, CacheInv, NEW k \in 0..(TextChunk + 1), NEW fin \in BOOLEAN,
         NEW splits \in BOOLEAN, Think(k, fin, splits)
  PROVE  CacheInv'
<1> DEFINE chunk == IF Streamed THEN Generated(k, fin) ELSE Sliced(k)
           q == chunk.hi + 1 - chunk.lo + (IF fin THEN 2 ELSE 1)
           t == [tts EXCEPT !.condition = q]
           c == Len(words) + 1
           z == Opened(t, c)
<1>1. /\ phase = "think" /\ words' = Append(words, chunk) /\ path' = path
      /\ IF path = "text" THEN phase' \in {"done", "think"} /\ tts' = tts
         ELSE phase' = "voice" /\ tts' = z
  BY DEF Think, Opened
<1>2. AnswerTyped /\ WordsInv /\ BooksInv /\ MemoryInv /\ ~finished
  BY <1>1 DEF SaidInv, CacheInv, WordsInv
<1>3. k \in ChunkSizes(fin)
  BY DEF Think
<1>4. Follows(chunk, k, fin)
  BY <1>2, <1>3, ChunkFollows
<1> HIDE DEF chunk
<1>5. chunk \in Chunk /\ q \in Nat
  BY <1>4 DEF Follows, Chunk
<1>6. Len(words) \in Nat /\ Len(words') = Len(words) + 1
  BY <1>1, <1>2, <1>5 DEF AnswerTyped
<1> HIDE DEF q
<1>7. DOMAIN t = Fields /\ t.told = tts.told /\ t.attention = tts.attention /\ t.condition = q
  BY <1>2 DEF BooksInv, Fields
<1> HIDE DEF t
<1>8. Kin(z, t) /\ z.drawn = 0
  BY <1>7, KinOpened
<1> HIDE DEF z
<1>9. CASE path = "text"
  <2>1. BooksInv'
    BY <1>1, <1>2, <1>9 DEF BooksInv
  <2>2. MemoryInv'
    BY <1>1, <1>9 DEF MemoryInv, Fit
  <2> QED BY <2>1, <2>2 DEF CacheInv
<1>10. CASE path # "text"
  <2>1. tts' = z /\ phase' = "voice"
    BY <1>1, <1>10
  <2>2. BooksInv'
    BY <1>1, <1>2, <1>5, <1>6, <1>7, <1>8, <1>10, <2>1 DEF BooksInv, Kin
  <2>3. Fit' => Fit
    BY <1>1, <1>7, <1>8, <2>1 DEF Fit, Capped, Streamed, Kin
  <2>4. ASSUME Fit' PROVE z \in Voices /\ Speaks(z, 0)
    <3>1. /\ tts \in Voices
          /\ \/ tts.attention = "sliding_recompute" /\ Streamed /\ tts.told # <<>>
             \/ Remembers(tts)
      BY <1>1, <1>2, <2>3, <2>4 DEF MemoryInv
    <3>2. t \in Voices /\ t.cache = tts.cache /\ t.start = tts.start
      BY <1>5, <3>1 DEF Voices, t
    <3>3. Remembers(tts) => Remembers(t)
      BY <1>7, <3>2 DEF Remembers, Holds, Placing, Slides
    <3>4. c = Len(t.told) + 1
      BY <1>1, <1>2, <1>7, <1>10 DEF BooksInv
    <3>5. OpenedSo(z, t)
      BY <1>7, <3>1, <3>2, <3>3, <3>4, OpenedSpeaks DEF z
    <3> QED BY <3>5 DEF OpenedSo
  <2>5. MemoryInv'
    BY <1>1, <1>8, <2>1, <2>4, MemoryNext
  <2> QED BY <2>2, <2>5 DEF CacheInv
<1> QED BY <1>9, <1>10

(* The token drawn before is fed, and the next one is drawn. *)
LEMMA CacheToken ==
  ASSUME SaidInv, CacheInv, VoiceToken
  PROVE  CacheInv'
<1> DEFINE f == FeedDrawn(tts)
           z == [f EXCEPT !.drawn = f.drawn + 1]
<1>1. /\ phase = "voice" /\ phase' = phase /\ path' = path /\ words' = words /\ tts' = z
  BY DEF VoiceToken
<1>2. BooksInv /\ MemoryInv
  BY DEF CacheInv
<1>3. Kin(f, tts) /\ f.drawn = tts.drawn /\ tts.drawn \in Nat
  BY <1>2, KinFeedDrawn DEF BooksInv
<1> HIDE DEF f
<1>4. Kin(z, tts) /\ z.drawn = tts.drawn + 1
  BY <1>3 DEF Kin, Fields
<1>5. BooksInv'
  <2> HIDE DEF z
  <2> QED BY <1>1, <1>2, <1>3, <1>4 DEF BooksInv, Kin
<1>6. Fit' => Fit
  <2> HIDE DEF z
  <2> QED BY <1>1, <1>4 DEF Fit, Capped, Streamed, Kin
<1>7. ASSUME Fit' PROVE z \in Voices /\ Speaks(z, tts.drawn)
  <2>1. tts \in Voices /\ Speaks(tts, IF tts.drawn = 0 THEN 0 ELSE tts.drawn - 1)
    BY <1>1, <1>2, <1>6, <1>7 DEF MemoryInv
  <2>2. f \in Voices /\ Speaks(f, f.drawn)
    BY <2>1, Feeds DEF f
  <2>3. /\ z \in Voices /\ z.cache = f.cache /\ z.told = f.told /\ z.attention = f.attention
        /\ z.start = f.start /\ z.prefill = f.prefill /\ z.condition = f.condition
    BY <2>2 DEF Voices
  <2> HIDE DEF z
  <2>4. Speaks(z, f.drawn)
    BY <2>2, <2>3 DEF Speaks, Holds, Placing, Slides, Spoke
  <2> QED BY <1>3, <2>3, <2>4
<1> HIDE DEF z
<1>8. (IF z.drawn = 0 THEN 0 ELSE z.drawn - 1) = tts.drawn
  BY <1>3, <1>4
<1>9. MemoryInv'
  BY <1>1, <1>7, <1>8, MemoryNext
<1> QED BY <1>5, <1>9 DEF CacheInv

(* A chunk that is over *)
LEMMA BooksClosed ==
  ASSUME SaidInv, BooksInv, phase = "voice", phase' \in {"done", "think"},
         path' = path, words' = words, NEW f, Kin(f, tts), f.drawn = tts.drawn,
         ClosedKin(tts', f)
  PROVE  /\ BooksInv' /\ tts'.told # <<>> /\ (Fit' => Fit)
         /\ Streamed /\ tts.drawn = MaxVoice => Capped'
<1> DEFINE x == [condition |-> f.condition, audio |-> f.drawn]
           n == Len(tts.told)
<1>1. x \in Lengths /\ x.audio = tts.drawn
  BY DEF Kin, BooksInv, Lengths
<1>2. tts'.told = Append(tts.told, x) /\ tts.told \in Seq(Lengths)
  BY DEF Kin, ClosedKin, BooksInv
<1> HIDE DEF x
<1>3. /\ tts'.told \in Seq(Lengths) /\ Len(tts'.told) = n + 1 /\ tts'.told # <<>> /\ n \in Nat
      /\ tts'.told[n + 1] = x /\ n + 1 \in DOMAIN tts'.told
      /\ \A i \in DOMAIN tts.told : i \in DOMAIN tts'.told /\ tts'.told[i] = tts.told[i]
  BY <1>1, <1>2
<1>4. Len(words) \in Nat
  BY DEF SaidInv, AnswerTyped
<1> HIDE DEF n
<1>5. path # "text" => Len(tts'.told) = Len(words')
  BY <1>3, <1>4 DEF BooksInv, n
<1>6. /\ DOMAIN tts' = Fields /\ tts'.attention \in Attentions /\ tts'.condition \in Nat
      /\ tts'.drawn \in Nat /\ tts'.attention = tts.attention
  BY DEF BooksInv, Kin, ClosedKin
<1>7. BooksInv'
  BY <1>3, <1>5, <1>6 DEF BooksInv
<1>8. Streamed' = Streamed
  BY DEF Streamed
<1>9. Capped => Capped'
  BY <1>3, <1>8 DEF Capped
<1>10. Fit' => Fit
  BY <1>6, <1>9 DEF Fit
<1>11. Streamed /\ tts.drawn = MaxVoice => Capped'
  BY <1>1, <1>3, <1>8 DEF Capped
<1> QED BY <1>3, <1>7, <1>10, <1>11

(* The end token is drawn from a pass that feeds the token before it. *)
LEMMA CacheEnds ==
  ASSUME SaidInv, CacheInv, VoiceEnds
  PROVE  CacheInv'
<1> DEFINE f == FeedDrawn(tts)
           k == ClosedOf(f)
<1>1. /\ phase = "voice" /\ phase' \in {"done", "think"} /\ path' = path /\ words' = words
      /\ tts' = k
  BY DEF VoiceEnds, Ended, ClosedOf
<1>2. BooksInv /\ MemoryInv
  BY DEF CacheInv
<1>3. Kin(f, tts) /\ f.drawn = tts.drawn
  BY <1>2, KinFeedDrawn DEF BooksInv
<1> HIDE DEF f
<1>4. ClosedKin(k, f)
  BY <1>3, KinClosed DEF Kin, ClosedOf
<1> HIDE DEF k
<1>5. BooksInv' /\ tts'.told # <<>> /\ (Fit' => Fit)
  BY <1>1, <1>2, <1>3, <1>4, BooksClosed
<1>6. ASSUME Fit'
      PROVE  /\ k \in Voices
             /\ \/ k.attention = "sliding_recompute" /\ Streamed /\ k.told # <<>>
                \/ Remembers(k)
  <2>1. tts \in Voices /\ Speaks(tts, IF tts.drawn = 0 THEN 0 ELSE tts.drawn - 1)
    BY <1>1, <1>2, <1>5, <1>6 DEF MemoryInv
  <2>2. f \in Voices /\ Speaks(f, f.drawn)
    BY <2>1, Feeds DEF f
  <2>3. k \in Voices /\ (~(f.attention = "sliding_recompute" /\ Streamed) => Remembers(k))
    BY <2>2, Closes DEF k
  <2>4. k.attention = f.attention /\ k.told # <<>>
    BY <1>1, <1>4, <1>5 DEF ClosedKin
  <2> QED BY <2>3, <2>4
<1>7. MemoryInv'
  BY <1>1, <1>6, MemoryNext
<1> QED BY <1>5, <1>7 DEF CacheInv

(* A streamed chunk in its limit lacks its last token: only the cache that *)
(* is put together anew is right again.                                    *)
LEMMA CacheLimit ==
  ASSUME SaidInv, CacheInv, VoiceLimit
  PROVE  CacheInv'
<1> DEFINE k == Closed(tts)
<1>1. /\ phase = "voice" /\ phase' \in {"done", "think"} /\ path' = path /\ words' = words
      /\ tts' = k /\ Streamed /\ tts.drawn = MaxVoice
  BY DEF VoiceLimit, Ended
<1>2. BooksInv /\ MemoryInv
  BY DEF CacheInv
<1>3. Kin(tts, tts) /\ DOMAIN tts = Fields
  BY <1>2 DEF Kin, BooksInv
<1>4. ClosedKin(k, tts)
  BY <1>3, KinClosed
<1>5. BooksInv' /\ tts'.told # <<>> /\ (Fit' => Fit) /\ Capped'
  <2> HIDE DEF k
  <2> QED BY <1>1, <1>2, <1>3, <1>4, BooksClosed
<1>6. ASSUME Fit'
      PROVE  k \in Voices /\ k.attention = "sliding_recompute" /\ k.told # <<>>
  <2>1. tts \in Voices
    BY <1>2, <1>5, <1>6 DEF MemoryInv
  <2> DEFINE s == tts.start + tts.prefill + tts.drawn
             x == [condition |-> tts.condition, audio |-> tts.drawn]
             more == Append(tts.told, x)
  <2>2. s \in Nat
    BY <2>1 DEF Voices
  <2>3. x \in Lengths /\ tts.told \in Seq(Lengths)
    BY <2>1 DEF Voices, Lengths
  <2>4. more \in Seq(Lengths)
    <3> HIDE DEF x
    <3> QED BY <2>3
  <2>5. k = [tts EXCEPT !.told = more, !.start = s]
    BY DEF Closed
  <2> HIDE DEF k, s, more
  <2>6. k \in Voices
    BY <2>1, <2>2, <2>4, <2>5 DEF Voices
  <2>7. k.attention = "sliding_recompute" /\ k.told # <<>>
    BY <1>1, <1>5, <1>6 DEF Fit
  <2> QED BY <2>6, <2>7
<1> HIDE DEF k
<1>7. MemoryInv'
  BY <1>1, <1>6, MemoryNext
<1> QED BY <1>5, <1>7 DEF CacheInv

(* Steps that leave the voice's model alone *)
LEMMA CacheSame ==
  ASSUME CacheInv, tts' = tts, path' = path, words' = words,
         phase' = phase \/ (phase = "think" /\ phase' = "failed")
  PROVE  CacheInv'
<1>1. BooksInv /\ MemoryInv
  BY DEF CacheInv
<1>2. BooksInv'
  BY <1>1 DEF BooksInv
<1>3. Fit' <=> Fit
  BY DEF Fit, Capped, Streamed
<1>4. MemoryInv'
  BY <1>1, <1>3, MemoryNext DEF MemoryInv
<1> QED BY <1>2, <1>4 DEF CacheInv

(* Every step of an answer keeps the cache right. *)
LEMMA CacheStep == SaidInv /\ CacheInv /\ [AnswerNext]_answerVars => CacheInv'
<1> SUFFICES ASSUME SaidInv, CacheInv, [AnswerNext]_answerVars PROVE CacheInv'
  OBVIOUS
<1>1. ASSUME NEW k \in 0..(TextChunk + 1), NEW fin \in BOOLEAN, NEW splits \in BOOLEAN,
             Think(k, fin, splits)
      PROVE  CacheInv'
  BY <1>1, CacheThink
<1>2. CASE ThinkFails
  <2>1. /\ tts' = tts /\ path' = path /\ words' = words /\ phase = "think"
        /\ phase' = "failed"
    BY <1>2 DEF ThinkFails
  <2> QED BY <2>1, CacheSame
<1>3. CASE VoiceToken
  BY <1>3, CacheToken
<1>4. CASE VoiceEnds
  BY <1>4, CacheEnds
<1>5. CASE VoiceLimit
  BY <1>5, CacheLimit
<1>6. CASE UNCHANGED answerVars
  <2>1. tts' = tts /\ path' = path /\ words' = words /\ phase' = phase
    BY <1>6 DEF answerVars
  <2> QED BY <2>1, CacheSame
<1> QED BY <1>1, <1>2, <1>3, <1>4, <1>5, <1>6 DEF AnswerNext
-----------------------------------------------------------------------------
(* What the cache shows of the items it was fed *)
Shows(cache, s, at) ==
  /\ [i \in DOMAIN cache |-> cache[i].item] = s
  /\ \A i \in DOMAIN cache : cache[i].at = at + i - 1

(* Placed items show themselves and their positions. *)
LEMMA PlacedShows ==
  ASSUME NEW s \in Seq(Item), NEW at \in Nat
  PROVE  Shows(Placed(s, at), s, at)
<1> DEFINE p == Placed(s, at)
<1>1. DOMAIN p = DOMAIN s /\ \A i \in DOMAIN s : p[i] = [item |-> s[i], at |-> at + i - 1]
  BY DEF Placed
<1>2. s = [i \in DOMAIN s |-> s[i]]
  OBVIOUS
<1> HIDE DEF p
<1>3. [i \in DOMAIN p |-> p[i].item] = [i \in DOMAIN s |-> s[i]]
  BY <1>1
<1>4. \A i \in DOMAIN p : p[i].at = at + i - 1
  BY <1>1
<1>5. Shows(p, s, at)
  BY <1>2, <1>3, <1>4 DEF Shows
<1> QED BY <1>5 DEF p

(* The views that InView names, in the words of Base *)
ViewFrom(t, lo, m) ==
  Joined(t, lo, Len(t.told)) \o Words(Len(t.told) + 1, t.condition)
    \o Sounds(Len(t.told) + 1, m)

(* A view is a history and what is fed of the chunk behind it. *)
LEMMA ViewIs ==
  ASSUME NEW t \in Voices, NEW m \in Nat, NEW lo \in 1..(Len(t.told) + 1)
  PROVE  /\ ViewFrom(t, lo, m) = Hist(t.told, lo, Len(t.told)) \o Spoke(t, m)
         /\ Hist(t.told, lo, Len(t.told)) \in Seq(Item) /\ Spoke(t, m) \in Seq(Item)
<1> DEFINE n == Len(t.told)
           h == Hist(t.told, lo, n)
           w == Words(n + 1, t.condition)
           s == Sounds(n + 1, m)
<1>1. t.told \in Seq(Lengths) /\ n \in 0..n /\ t.condition \in Nat /\ n \in Nat
  BY DEF Voices
<1>2. h \in Seq(Item)
  <2>1. HistSo(t.told, lo, n)
    BY <1>1, HistAre, Zenon
  <2> QED BY <2>1 DEF HistSo
<1>3. w \in Seq(Item) /\ s \in Seq(Item) /\ Spoke(t, m) = w \o s
  <2>1. CopiesSo(<<n + 1, "text">>, t.condition, Item) /\ CopiesSo(<<n + 1, "audio">>, m, Item)
    <3>1. n + 1 \in Nat
      BY <1>1
    <3> HIDE DEF n
    <3> QED BY <1>1, <3>1, WordsAre, Zenon
  <2> QED BY <2>1 DEF CopiesSo, Words, Sounds, Spoke
<1>4. Joined(t, lo, n) = h
  BY WholeBoth
<1> HIDE DEF h, w, s
<1>5. Three(h, w, s, Item)
  BY <1>2, <1>3, JoinThree, Zenon
<1>6. w \o s \in Seq(Item)
  BY <1>3, ConcatProperties, Zenon
<1>7. ViewFrom(t, lo, m) = (h \o w) \o s
  BY <1>4 DEF ViewFrom, w, s, n
<1> QED BY <1>2, <1>3, <1>5, <1>6, <1>7 DEF Three, h, n

Viewed == IF tts.drawn = 0 THEN 0 ELSE tts.drawn - 1
Sighted(v) == IF Slides(tts) THEN Drop(v, Gone(v)) ELSE v

(* What is in view is one of the views the code builds. *)
LEMMA InViewIs ==
  ASSUME tts \in Voices
  PROVE  Sighted(Base(tts.attention, tts.told) \o Spoke(tts, Viewed)) \in InView
<1> DEFINE told == tts.told
           n == Len(told)
           c == n + 1
           m == Viewed
           From(lo) == Joined(tts, lo, c - 1) \o Words(c, tts.condition) \o Sounds(c, m)
           o == Spoke(tts, m)
           b == Base(tts.attention, told)
           v == b \o o
<1>1. /\ told \in Seq(Lengths) /\ tts.attention \in Attentions /\ n \in Nat /\ m \in Nat
      /\ c - 1 = n /\ c \in Nat \ {0}
  BY DEF Voices, Viewed
<1>2. \A lo \in 1..c : From(lo) = Hist(told, lo, n) \o o
  <2> TAKE lo \in 1..c
  <2>1. ViewFrom(tts, lo, m) = Hist(told, lo, n) \o o
    BY <1>1, ViewIs
  <2>2. From(lo) = ViewFrom(tts, lo, m)
    <3> HIDE DEF m
    <3> QED BY <1>1 DEF ViewFrom
  <2> QED BY <2>1, <2>2
<1>3. BaseFrom(tts.attention, n) \in 1..c
  BY <1>1, FromsAre
<1>4. InView =
        IF tts.attention = "sliding_recompute"
        THEN IF Streamed THEN {From(Most(1, c - 1))}
             ELSE {From(lo) : lo \in Most(1, c + 1 - Window)..Most(1, c - Recomputed)}
        ELSE IF tts.attention = "sliding_window"
        THEN {IF Streamed THEN Drop(From(1), Gone(From(1))) ELSE From(Most(1, c - 1))}
        ELSE IF tts.attention = "reindex" /\ Streamed /\ c > 2
        THEN {Whole(tts, 1) \o From(c - 1)}
        ELSE {From(1)}
  BY DEF InView, Viewed, Gone
<1>5. CASE tts.attention = "reindex" /\ Streamed /\ n > 1
  <2>1. b = Both(told, 1) \o Hist(told, n, n)
    BY <1>5 DEF Base
  <2>2. c > 2 /\ n \in 1..c /\ 1 \in 1..n /\ n \in 1..(n + 1)
    <3> HIDE DEF n
    <3> QED BY <1>1, <1>5
  <2>3. Both(told, 1) \in Seq(Item)
    BY <1>1, <2>2, BothAre DEF BothSo
  <2>4. Hist(told, n, n) \in Seq(Item) /\ o \in Seq(Item)
    BY <1>1, <2>2, ViewIs
  <2>5. Three(Both(told, 1), Hist(told, n, n), o, Item)
    BY <2>3, <2>4, JoinThree, Zenon
  <2>6. From(n) = Hist(told, n, n) \o o /\ Whole(tts, 1) = Both(told, 1)
    BY <1>2, <2>2, WholeBoth
  <2>7. v = Whole(tts, 1) \o From(c - 1)
    <3>1. From(c - 1) = From(n)
      BY <1>1
    <3> HIDE DEF o, n, b, From
    <3> QED BY <2>1, <2>5, <2>6, <3>1 DEF Three
  <2>8. ~Slides(tts)
    BY <1>5 DEF Slides
  <2> HIDE DEF v, c, From
  <2> QED BY <1>4, <1>5, <2>2, <2>7, <2>8 DEF Sighted, v
<1>6. CASE ~(tts.attention = "reindex" /\ Streamed /\ n > 1)
  <2> DEFINE lo == BaseFrom(tts.attention, n)
  <2>1. v = From(lo)
    <3>1. b = Hist(told, lo, n)
      BY <1>6 DEF Base
    <3> HIDE DEF b, lo, o, From
    <3> QED BY <1>2, <1>3, <3>1 DEF lo
  <2>2. ~(tts.attention = "reindex" /\ Streamed /\ c > 2)
    <3> HIDE DEF n
    <3> QED BY <1>1, <1>6
  <2> HIDE DEF v, From
  <2>3. CASE tts.attention = "sliding_recompute"
    <3>1. ~Slides(tts)
      BY <2>3 DEF Slides
    <3>2. CASE Streamed
      <4>1. lo = Most(1, c - 1)
        BY <1>1, <2>3, <3>2 DEF BaseFrom
      <4> QED BY <1>4, <2>1, <2>3, <3>1, <3>2, <4>1 DEF Sighted, v
    <3>3. CASE ~Streamed
      <4>1. lo = First(c)
        BY <2>3, <3>3 DEF BaseFrom
      <4>2. FirstSo(c)
        BY <1>1, FirstAre, Zenon
      <4>3. lo \in Most(1, c + 1 - Window)..Most(1, c - Recomputed)
        BY <4>1, <4>2 DEF FirstSo
      <4> HIDE DEF lo, c
      <4> QED BY <1>4, <2>1, <2>3, <3>1, <3>3, <4>3 DEF Sighted, v
    <3> QED BY <3>2, <3>3
  <2>4. CASE tts.attention = "sliding_window" /\ Streamed
    <3>1. lo = 1 /\ Slides(tts)
      BY <2>4 DEF BaseFrom, Slides
    <3> HIDE DEF lo, c
    <3> QED BY <1>4, <2>1, <2>4, <3>1 DEF Sighted, v
  <2>5. CASE tts.attention = "sliding_window" /\ ~Streamed
    <3>1. lo = Most(1, c - 1) /\ ~Slides(tts)
      BY <1>1, <2>5 DEF BaseFrom, Slides
    <3> HIDE DEF lo, c
    <3> QED BY <1>4, <2>1, <2>5, <3>1 DEF Sighted, v
  <2>6. CASE tts.attention \notin {"sliding_recompute", "sliding_window"}
    <3>1. lo = 1 /\ ~Slides(tts)
      BY <2>6 DEF BaseFrom, Slides
    <3> HIDE DEF lo, c
    <3> QED BY <1>4, <2>1, <2>2, <2>6, <3>1 DEF Sighted, v
  <2> QED BY <2>3, <2>4, <2>5, <2>6
<1> QED BY <1>5, <1>6

(* Whatever the lengths of the chunks of words and of sound, however many  *)
(* there are and however the window is cut, recomputed or re-indexed, the  *)
(* chunk that is spoken has whole chunks in view, the right ones, in their *)
(* order and at positions without a gap.                                   *)
THEOREM ChunksStayWhole == AnswerSpec => []WholeChunksInView
<1>1. SaidInv /\ CacheInv => WholeChunksInView
  <2> SUFFICES ASSUME SaidInv, CacheInv, phase = "voice",
                      Capped => tts.attention = "sliding_recompute"
               PROVE  /\ [i \in DOMAIN tts.cache |-> tts.cache[i].item] \in InView
                      /\ \A i \in DOMAIN tts.cache :
                           tts.cache[i].at =
                             i - 1 + (IF tts.attention = "sliding_window"
                                      THEN tts.cache[1].at ELSE 0)
    BY DEF WholeChunksInView
  <2> DEFINE v == Base(tts.attention, tts.told) \o Spoke(tts, Viewed)
             s == Sighted(v)
  <2>1. Fit
    BY DEF Fit, SaidInv, WordsInv
  <2>2. tts \in Voices /\ Speaks(tts, Viewed)
    BY <2>1 DEF CacheInv, MemoryInv, Viewed
  <2>3. PICK a \in Nat : Holds(tts, v, a)
    BY <2>2 DEF Speaks
  <2>4. v \in Seq(Item)
    <3>1. Base(tts.attention, tts.told) \in Seq(Item)
      BY <2>2, ViewsAre DEF Voices
    <3>2. Viewed \in Nat
      BY <2>2 DEF Viewed, Voices
    <3>3. Spoke(tts, Viewed) \in Seq(Item)
      BY <2>2, <3>2, SpokeIs
    <3> QED BY <3>1, <3>3, ConcatProperties, Zenon
  <2>5. s \in InView
    BY <2>2, InViewIs
  <2> HIDE DEF v
  <2>6. PICK at \in Nat : /\ tts.cache = Placed(s, at) /\ s \in Seq(Item)
                          /\ at # 0 => tts.attention = "sliding_window"
    <3>1. a # 0 => tts.attention = "sliding_window"
      BY <2>3 DEF Holds, Placing
    <3>2. CASE ~Slides(tts)
      BY <2>3, <2>4, <3>1, <3>2 DEF Holds, Seen, Sighted
    <3>3. CASE Slides(tts)
      <4>1. SeenSo(v, a, TRUE)
        BY <2>4, SeenAre, Zenon
      <4>2. tts.cache = Placed(s, a + Gone(v))
        BY <2>3, <3>3, <4>1 DEF Holds, SeenSo, Sighted
      <4>3. Gone(v) \in 0..Len(v)
        BY <2>4, GoneIs
      <4>4. Cut(v, Gone(v), Item)
        BY <2>4, <4>3, CutAt, Zenon
      <4>5. a + Gone(v) \in Nat /\ s \in Seq(Item)
        BY <3>3, <4>3, <4>4 DEF Cut, Sighted
      <4>6. tts.attention = "sliding_window"
        BY <3>3 DEF Slides
      <4> HIDE DEF s
      <4> QED BY <4>2, <4>5, <4>6
    <3> QED BY <3>2, <3>3
  <2> HIDE DEF s
  <2>7. Shows(tts.cache, s, at)
    BY <2>6, PlacedShows, Zenon
  <2>8. [i \in DOMAIN tts.cache |-> tts.cache[i].item] \in InView
    BY <2>5, <2>7 DEF Shows
  <2>9. ASSUME NEW i \in DOMAIN tts.cache
        PROVE  tts.cache[i].at =
                 i - 1 + (IF tts.attention = "sliding_window" THEN tts.cache[1].at ELSE 0)
    <3>1. i \in 1..Len(s) /\ Len(s) \in Nat /\ 1 \in DOMAIN tts.cache
      <4>1. DOMAIN Placed(s, at) = DOMAIN s
        BY DEF Placed
      <4>2. DOMAIN tts.cache = DOMAIN s
        BY <2>6, <4>1
      <4>3. DOMAIN s = 1..Len(s) /\ Len(s) \in Nat
        BY <2>6
      <4> QED BY <4>2, <4>3
    <3>2. tts.cache[i].at = at + i - 1 /\ tts.cache[1].at = at + 1 - 1
      BY <2>7, <3>1 DEF Shows
    <3>3. at + i - 1 = (i - 1) + at /\ at + 1 - 1 = at /\ i \in Nat
      BY <3>1
    <3> QED BY <2>6, <3>2, <3>3
  <2> QED BY <2>8, <2>9
<1>2. AnswerInit => SaidInv /\ CacheInv
  BY SaidInit, CacheInit
<1>3. (SaidInv /\ CacheInv) /\ [AnswerNext]_answerVars => (SaidInv /\ CacheInv)'
  BY SaidStep, CacheStep
<1> QED BY <1>1, <1>2, <1>3, PTL DEF AnswerSpec
=============================================================================
