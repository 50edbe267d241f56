----------------------------- MODULE SoundProofs -----------------------------
(***************************************************************************)
(* Theorems about DuplexSound: no sample of a session is lost on the way   *)
(* to the language model (NoSampleIsLost), and every token of the voice is *)
(* voiced once, in its order and in its turn (VoicedInOrder).              *)
(***************************************************************************)
EXTENDS DuplexSound, WellFoundedInduction, TLAPS

Mels == [base : Nat, len : Nat, last : Nat]
Encoders == [len : Nat, of : SUBSET Nat]

EarTyped ==
  /\ session \in Nat /\ audio \in Nat /\ seconds \in Nat
  /\ received \in Nat /\ padded \in Nat
  /\ mel \in Mels /\ encoder \in Encoders

(* What the processor keeps reaches as far behind the second to come as    *)
(* the first call put it, and as far before it as the margin goes.         *)
Reach ==
  /\ seconds = 0 => mel = NewMel
  /\ seconds > 0 =>
       /\ mel.base + mel.len = mel.last + FirstFrames - ChunkFrames
       /\ mel.len > 0 /\ mel.last >= ChunkFrames
       /\ mel.base = 0 \/ mel.len >= FirstFrames + Redundancy

(* Between two sessions the encoder is empty. *)
SoundInv ==
  /\ EarTyped
  /\ EverySecondHeard
  /\ phase # "off" => Reach
  /\ phase = "off" => encoder = NewEncoder

(* Frames and seconds are counted one after the other. *)
LEMMA Distributes ==
  \A a, b, c \in Nat : (a + b) * c = a * c + b * c
BY SMT

(* A window that slides keeps its end, and enough before it. *)
LEMMA SlideKeeps ==
  ASSUME NEW m \in Mels, m.len > 0,
         m.base = 0 \/ m.len >= FirstFrames + Redundancy
  PROVE  /\ Slide(m) \in Mels
         /\ Slide(m).base + Slide(m).len = m.base + m.len
         /\ Slide(m).last = m.last
         /\ Slide(m).len > 0
         /\ Slide(m).base = 0 \/ Slide(m).len >= FirstFrames + Redundancy
<1> DEFINE drop == Least(Stride, Most(0, m.len - Least(MinKeep, m.len - Stride)))
<1>1. {FirstFrames, Redundancy, Trigger, Stride, MinKeep} \subseteq Nat \ {0}
      /\ Trigger - Stride >= FirstFrames + Redundancy
  BY MelAssumption
<1>2. CASE m.len < Trigger
  BY <1>2 DEF Slide
<1>3. CASE m.len >= Trigger
  <2>1. m.len \in Nat /\ m.base \in Nat /\ m.last \in Nat
    BY DEF Mels
  <2>2. drop \in Nat /\ drop <= Stride
    BY <1>1, <1>3, <2>1 DEF Least, Most
  <2>3. Slide(m) = [m EXCEPT !.base = @ + drop, !.len = @ - drop]
    BY <1>1, <1>3, <2>1 DEF Slide
  <2> HIDE DEF drop
  <2>4. Slide(m) = [base |-> m.base + drop, len |-> m.len - drop, last |-> m.last]
    BY <2>3 DEF Mels
  <2> QED
    BY <1>1, <1>3, <2>1, <2>2, <2>4 DEF Mels
<1> QED
  BY <1>1, <1>2, <1>3 DEF Mels

(* The next second is always ready: the first call takes just enough for   *)
(* the margin of every later one.  What is handed out has its margins.     *)
LEMMA SecondIsReady ==
  ASSUME SoundInv, phase # "off",
         NEW m, m = Pushed(mel, Need(mel))
  PROVE  /\ m \in Mels
         /\ m.last = mel.last
         /\ m.len > 0
         /\ m.base = 0 \/ m.len >= FirstFrames + Redundancy
         /\ m.base + m.len = mel.base + mel.len + Need(mel)
         /\ m.base + m.len = mel.last + FirstFrames
         /\ Ready(m)
         /\ Window(m).from = Most(0, mel.last - Redundancy)
         /\ Window(m).to = mel.last + ChunkFrames + Redundancy
<1> DEFINE p == [mel EXCEPT !.len = @ + Need(mel)]
<1>1. {ChunkFrames, FirstFrames, Redundancy, Lookahead} \subseteq Nat \ {0}
      /\ FirstFrames >= ChunkFrames + Redundancy + Lookahead - 1
  BY MelAssumption
<1>2. mel \in Mels /\ mel.len \in Nat /\ mel.base \in Nat /\ mel.last \in Nat /\ seconds \in Nat
  BY DEF SoundInv, EarTyped, Mels
<1>3. Reach
  BY DEF SoundInv
<1>4. /\ p = [base |-> mel.base, len |-> mel.len + Need(mel), last |-> mel.last]
      /\ Need(mel) \in Nat /\ Need(mel) > 0
  BY <1>1, <1>2 DEF Mels, Need
<1>5. /\ p \in Mels /\ p.len > 0
      /\ p.base = 0 \/ p.len >= FirstFrames + Redundancy
      /\ p.base + p.len = mel.last + FirstFrames
  <2>1. CASE seconds = 0
    BY <1>1, <1>2, <1>3, <1>4, <2>1 DEF Mels, Need, NewMel, Reach
  <2>2. CASE seconds > 0
    BY <1>1, <1>2, <1>3, <1>4, <2>2 DEF Mels, Need, Reach
  <2> QED
    BY <1>2, <2>1, <2>2
<1>6. m = Slide(p)
  BY DEF Pushed
<1>7. /\ m \in Mels /\ m.len > 0 /\ m.last = mel.last
      /\ m.base = 0 \/ m.len >= FirstFrames + Redundancy
      /\ m.base + m.len = p.base + p.len
  BY <1>4, <1>5, <1>6, SlideKeeps
<1> HIDE DEF p
<1>8. m.len \in Nat /\ m.base \in Nat /\ m.base + m.len = mel.last + FirstFrames
  BY <1>5, <1>7 DEF Mels
<1>9. Ready(m)
  BY <1>1, <1>2, <1>7, <1>8 DEF Ready, Stable, Most
<1>10. Window(m).from = Most(0, mel.last - Redundancy)
  BY <1>1, <1>2, <1>7, <1>8 DEF Window, Most
<1>11. Window(m).to = mel.last + ChunkFrames + Redundancy
  BY <1>1, <1>2, <1>7, <1>8 DEF Window, Least
<1>12. m.base + m.len = mel.base + mel.len + Need(mel)
  BY <1>2, <1>4, <1>5, <1>8
<1> QED
  BY <1>7, <1>8, <1>9, <1>10, <1>11, <1>12

(* An even number is twice its half. *)
LEMMA Even ==
  ASSUME NEW n \in Nat, n % 2 = 0
  PROVE  n = 2 * (n \div 2) /\ n \div 2 \in Nat
OBVIOUS

(* Of a second with its margins the encoder keeps the second, and its      *)
(* cache stays within its positions.                                       *)
LEMMA EncoderKeepsSecond ==
  ASSUME NEW e \in Encoders, e.len <= MaxPos, NEW s \in Nat,
         NEW margin \in {0, Redundancy}, NEW frames,
         frames = margin + ChunkFrames + Redundancy
  PROVE  LET coded == Encode(e, s, frames, margin, Redundancy)
         IN  /\ coded.kept = ChunkFrames \div 2
             /\ coded.encoder \in Encoders
             /\ coded.encoder.len <= MaxPos
             /\ coded.encoder.of \subseteq e.of \cup {s}
<1>1. {ChunkFrames, Redundancy, MaxPos} \subseteq Nat \ {0}
      /\ ChunkFrames % 2 = 0 /\ Redundancy % 2 = 0 /\ MaxPos >= ChunkFrames
  BY MelAssumption
<1>a. PICK c \in Nat, r \in Nat : ChunkFrames = 2 * c /\ Redundancy = 2 * r
  <2>1. ChunkFrames = 2 * (ChunkFrames \div 2) /\ ChunkFrames \div 2 \in Nat
    BY <1>1, Even
  <2>2. Redundancy = 2 * (Redundancy \div 2) /\ Redundancy \div 2 \in Nat
    BY <1>1, Even
  <2> QED
    BY <2>1, <2>2
<1>b. r > 0 /\ Extra(Redundancy) = r /\ ChunkFrames \div 2 = c
  BY <1>1, <1>a DEF Extra
<1>c. Extra(margin) + r + c = Cnn(frames) /\ Extra(margin) \in Nat /\ Cnn(frames) \in Nat
  <2>1. CASE margin = 0
    BY <1>1, <1>a, <2>1 DEF Extra, Cnn
  <2>2. CASE margin = Redundancy
    BY <1>1, <1>a, <1>b, <2>2 DEF Cnn
  <2> QED
    BY <2>1, <2>2
<1> DEFINE kept == Cnn(frames) - Extra(margin) - Extra(Redundancy)
           old == IF e.len + Cnn(frames) >= MaxPos THEN NewEncoder ELSE e
<1>2. kept = ChunkFrames \div 2 /\ kept \in Nat /\ kept <= MaxPos
  BY <1>1, <1>a, <1>b, <1>c
<1>3. Cnn(frames) \in Nat /\ kept <= Cnn(frames)
  BY <1>a, <1>b, <1>c
<1>4. e.len \in Nat /\ e.of \in SUBSET Nat
  BY DEF Encoders
<1>5. old.len \in Nat /\ old.of \in SUBSET e.of
  BY <1>4 DEF NewEncoder
<1>6. old.len + kept <= MaxPos
  <2>1. CASE e.len + Cnn(frames) >= MaxPos
    BY <1>2, <2>1 DEF NewEncoder
  <2>2. CASE e.len + Cnn(frames) < MaxPos
    BY <1>1, <1>2, <1>3, <1>4, <2>2
  <2> QED
    BY <1>1, <1>3, <1>4, <2>1, <2>2
<1>7. Encode(e, s, frames, margin, Redundancy)
        = [encoder |-> [len |-> old.len + kept, of |-> old.of \cup {s}], kept |-> kept]
  BY DEF Encode
<1> HIDE DEF kept, old
<1> QED
  BY <1>2, <1>4, <1>5, <1>6, <1>7 DEF Encoders

LEMMA InitSound == Init => SoundInv
BY DEF Init, SoundInv, EarTyped, EverySecondHeard, Reach, NewMel, NewEncoder, Mels, Encoders

(* Prepare begins with nothing, whatever voice it is given. *)
LEMMA PrepareSound ==
  ASSUME SoundInv, NEW voice \in BOOLEAN, Prepare(voice)
  PROVE  SoundInv'
<1>1. Hop \in Nat /\ ChunkFrames \in Nat /\ MaxPos \in Nat
  BY MelAssumption, SoundAssumption
<1>2. /\ session' \in Nat /\ phase' = "idle"
      /\ audio' = 0 /\ seconds' = 0 /\ received' = 0 /\ padded' = 0
      /\ mel' = [base |-> 0, len |-> 0, last |-> 0]
      /\ encoder' = [len |-> 0, of |-> {}]
  BY DEF SoundInv, EarTyped, Prepare, Fresh, NewMel, NewEncoder
<1> QED
  BY <1>1, <1>2 DEF SoundInv, EarTyped, EverySecondHeard, Reach, NewMel, NewEncoder, Mels, Encoders

LEMMA CleanupSound ==
  ASSUME SoundInv, Cleanup
  PROVE  SoundInv'
BY DEF SoundInv, EarTyped, EverySecondHeard, Cleanup, Fresh, NewEncoder, Mels, Encoders

(* Sound that comes in is a number of samples, and so is its padding. *)
LEMMA SentCounts ==
  ASSUME SoundInv, NEW n \in Pieces, Sent(n)
  PROVE  /\ n \in Nat /\ AtHand(n) \in Nat
         /\ phase # "off" /\ phase = "idle" /\ session' = session
         /\ received' \in Nat /\ padded' \in Nat
         /\ AtHand(n) - audio = (received' + padded') - (received + padded)
<1>1. n \in Nat /\ FirstPad \in Nat
  BY SoundAssumption
<1>2. Padding(n) \in Nat
  BY <1>1 DEF SoundInv, EarTyped, Padding, Most
<1> QED
  BY <1>1, <1>2 DEF SoundInv, EarTyped, Sent, AtHand

LEMMA TooLittleSound ==
  ASSUME SoundInv, NEW n \in Pieces, TooLittle(n)
  PROVE  SoundInv'
<1>1. Sent(n) /\ audio' = AtHand(n) /\ phase' = "failed"
      /\ UNCHANGED <<seconds, mel, encoder, heard>>
  BY DEF TooLittle
<1>2. /\ AtHand(n) \in Nat /\ phase # "off" /\ session' = session
      /\ received' \in Nat /\ padded' \in Nat
      /\ AtHand(n) - audio = (received' + padded') - (received + padded)
  BY <1>1, SentCounts
<1>3. EarTyped'
  BY <1>1, <1>2 DEF SoundInv, EarTyped
<1>4. Hop \in Nat /\ mel.base \in Nat /\ mel.len \in Nat
  BY SoundAssumption DEF SoundInv, EarTyped, Mels
<1>5. (mel.base + mel.len) * Hop \in Int
  BY <1>4
<1>6. audio' + (mel.base + mel.len) * Hop = received' + padded'
  BY <1>1, <1>2, <1>5 DEF SoundInv, EarTyped, EverySecondHeard
<1>7. EverySecondHeard'
  BY <1>1, <1>2, <1>6 DEF SoundInv, EverySecondHeard
<1>8. Reach'
  BY <1>1, <1>2 DEF SoundInv, Reach
<1> QED
  BY <1>1, <1>3, <1>7, <1>8 DEF SoundInv

LEMMA HearSound ==
  ASSUME SoundInv, NEW n \in Pieces, Hear(n)
  PROVE  SoundInv'
<1> DEFINE m == Pushed(mel, Need(mel))
           margin == IF seconds = 0 THEN 0 ELSE Redundancy
           frames == Window(m).to - Window(m).from
           coded == Encode(encoder, session, frames, margin, Redundancy)
<1>1. Sent(n) /\ AtHand(n) >= NeedSamples
  BY DEF Hear
<1>2. /\ AtHand(n) \in Nat /\ phase # "off" /\ session' = session
      /\ received' \in Nat /\ padded' \in Nat
      /\ AtHand(n) - audio = (received' + padded') - (received + padded)
  BY <1>1, SentCounts
<1>3. {ChunkFrames, FirstFrames, Redundancy, MaxPos, Hop} \subseteq Nat \ {0}
      /\ FirstFrames >= ChunkFrames + Redundancy /\ ChunkFrames >= Redundancy
  BY MelAssumption, SoundAssumption
<1>4. /\ session \in Nat /\ seconds \in Nat /\ audio \in Nat /\ received \in Nat
      /\ padded \in Nat /\ encoder \in Encoders /\ mel \in Mels
      /\ mel.base \in Nat /\ mel.len \in Nat /\ mel.last \in Nat
  BY DEF SoundInv, EarTyped, Mels
<1>5. /\ m \in Mels /\ m.last = mel.last /\ m.len > 0
      /\ m.base = 0 \/ m.len >= FirstFrames + Redundancy
      /\ m.base + m.len = mel.base + mel.len + Need(mel)
      /\ m.base + m.len = mel.last + FirstFrames
      /\ Ready(m)
      /\ Window(m).from = Most(0, mel.last - Redundancy)
      /\ Window(m).to = mel.last + ChunkFrames + Redundancy
  BY <1>2, SecondIsReady
<1>6. /\ mel' = Emitted(m) /\ encoder' = coded.encoder
      /\ heard' = [from |-> Window(m).from, to |-> Window(m).to, kept |-> coded.kept]
      /\ audio' = AtHand(n) - NeedSamples
      /\ seconds' = seconds + 1 /\ phase' = "heard"
  BY <1>5 DEF Hear
<1>7. mel.last = seconds * ChunkFrames /\ encoder.len <= MaxPos /\ encoder.of \subseteq {session}
      /\ audio + (mel.base + mel.len) * Hop = received + padded
  BY <1>2 DEF SoundInv, EverySecondHeard
<1>8. frames = margin + ChunkFrames + Redundancy /\ margin \in {0, Redundancy}
  <2>1. CASE seconds = 0
    <3>1. mel.last = 0
      BY <1>2, <2>1 DEF SoundInv, Reach, NewMel
    <3> QED
      BY <1>3, <1>5, <2>1, <3>1 DEF Most
  <2>2. CASE seconds > 0
    <3>1. mel.last >= Redundancy
      BY <1>2, <1>3, <1>4, <2>2 DEF SoundInv, Reach
    <3> QED
      BY <1>3, <1>4, <1>5, <2>2, <3>1 DEF Most
  <2> QED
    BY <1>4, <2>1, <2>2
<1>9. /\ coded.kept = ChunkFrames \div 2
      /\ coded.encoder \in Encoders /\ coded.encoder.len <= MaxPos
      /\ coded.encoder.of \subseteq encoder.of \cup {session}
  BY <1>4, <1>7, <1>8, EncoderKeepsSecond
<1>10. mel' = [base |-> m.base, len |-> m.len, last |-> mel.last + ChunkFrames]
  BY <1>5, <1>6 DEF Emitted, Mels
<1>11. Need(mel) \in Nat
  BY <1>3, <1>4 DEF Need
<1> HIDE DEF frames, coded, margin, m
<1>12. m.base \in Nat /\ m.len \in Nat
  BY <1>5 DEF Mels
<1>13. /\ mel'.base = m.base /\ mel'.len = m.len /\ mel'.last = mel.last + ChunkFrames
       /\ mel' \in Mels
  BY <1>3, <1>4, <1>10, <1>12 DEF Mels
<1>14. NeedSamples \in Nat /\ audio' \in Nat
  BY <1>1, <1>2, <1>3, <1>6, <1>11 DEF NeedSamples
<1>15. EarTyped'
  BY <1>2, <1>4, <1>6, <1>9, <1>13, <1>14 DEF EarTyped
<1>16. audio' + (mel'.base + mel'.len) * Hop = received' + padded'
  <2>1. (mel'.base + mel'.len) * Hop = (mel.base + mel.len) * Hop + NeedSamples
    <3>1. mel'.base + mel'.len = (mel.base + mel.len) + Need(mel)
      BY <1>5, <1>13
    <3> DEFINE t == mel.base + mel.len
               k == Need(mel)
    <3>2. t \in Nat /\ k \in Nat /\ Hop \in Nat
      BY <1>3, <1>4, <1>11
    <3>3. (t + k) * Hop = t * Hop + k * Hop
      BY <3>2, Distributes
    <3> QED
      BY <3>1, <3>3 DEF NeedSamples
  <2>2. (mel.base + mel.len) * Hop \in Int
    BY <1>3, <1>4
  <2> QED
    BY <1>2, <1>4, <1>6, <1>7, <1>14, <2>1, <2>2
<1>17. mel'.last = seconds' * ChunkFrames
  <2>1. (seconds + 1) * ChunkFrames = seconds * ChunkFrames + ChunkFrames
    <3>1. (seconds + 1) * ChunkFrames = seconds * ChunkFrames + 1 * ChunkFrames
      BY <1>3, <1>4, Distributes
    <3> QED
      BY <1>3, <3>1
  <2> QED
    BY <1>6, <1>7, <1>13, <2>1
<1>18. /\ heard'.from = Most(0, mel'.last - ChunkFrames - Redundancy)
       /\ heard'.to = mel'.last + Redundancy
       /\ heard'.kept = ChunkFrames \div 2
  <2>1. mel'.last - ChunkFrames - Redundancy = mel.last - Redundancy
    BY <1>3, <1>4, <1>13
  <2>2. mel'.last + Redundancy = mel.last + ChunkFrames + Redundancy
    BY <1>3, <1>4, <1>13
  <2> QED
    BY <1>5, <1>6, <1>9, <2>1, <2>2
<1>19. EverySecondHeard'
  BY <1>2, <1>6, <1>7, <1>9, <1>16, <1>17, <1>18 DEF EverySecondHeard
<1>20. Reach'
  <2>1. mel'.base + mel'.len = mel'.last + FirstFrames - ChunkFrames
    BY <1>3, <1>4, <1>5, <1>12, <1>13
  <2> QED
    BY <1>3, <1>4, <1>5, <1>6, <1>13, <2>1 DEF Reach
<1> QED
  BY <1>6, <1>15, <1>19, <1>20 DEF SoundInv

(* The rest of a unit touches nothing that is heard. *)
LEMMA VoiceSound ==
  ASSUME SoundInv, phase # "off", phase' # "off", UNCHANGED <<session, ear>>
  PROVE  SoundInv'
BY DEF SoundInv, EarTyped, EverySecondHeard, Reach, ear

LEMMA NextSound ==
  ASSUME SoundInv, [Next]_vars
  PROVE  SoundInv'
<1>1. ASSUME NEW voice \in BOOLEAN, Prepare(voice) PROVE SoundInv'
  BY <1>1, PrepareSound
<1>2. CASE Cleanup
  BY <1>2, CleanupSound
<1>3. ASSUME NEW n \in Pieces, TooLittle(n) PROVE SoundInv'
  BY <1>3, TooLittleSound
<1>4. ASSUME NEW n \in Pieces, Hear(n) PROVE SoundInv'
  BY <1>4, HearSound
<1>5. CASE NothingToSay
  BY <1>5, VoiceSound DEF NothingToSay
<1>6. ASSUME NEW b \in BOOLEAN, Listen(b) \/ EndsListening(b) PROVE SoundInv'
  BY <1>6, VoiceSound DEF Listen, EndsListening
<1>7. ASSUME NEW n \in 0..SpeechChunk, NEW ends \in BOOLEAN, NEW opens \in BOOLEAN,
             NEW reopens \in BOOLEAN, Speak(n, ends, opens, reopens)
      PROVE SoundInv'
  <2>1. phase = "heard" /\ phase' = "idle" /\ UNCHANGED <<session, ear>>
    BY <1>7 DEF Speak
  <2> QED
    BY <2>1, VoiceSound
<1>8. CASE UNCHANGED vars
  BY <1>8 DEF vars, ear, SoundInv, EarTyped, EverySecondHeard, Reach
<1> QED
  BY <1>1, <1>2, <1>3, <1>4, <1>5, <1>6, <1>7, <1>8 DEF Next

(* EverySecondHeard for every number of frames, margins, windows and       *)
(* positions that the assumptions allow, and whatever the client sends.    *)
THEOREM NoSampleIsLost == Spec => []EverySecondHeard
<1>1. SoundInv => EverySecondHeard
  BY DEF SoundInv
<1> QED
  BY InitSound, NextSound, <1>1, PTL DEF Spec

-----------------------------------------------------------------------------
(* Whatever holds of 0 and goes from a number to the next holds of all.    *)
LEMMA Climb ==
  ASSUME NEW S, 0 \in S, \A n \in Nat : n \in S => n + 1 \in S
  PROVE  Nat \subseteq S
<1> DEFINE T == Nat \ S
<1> SUFFICES ASSUME T # {} PROVE FALSE
  OBVIOUS
<1>1. PICK x \in T : \A y \in T : ~(<<y, x>> \in OpToRel(<, Nat))
  <2>1. IsWellFoundedOn(OpToRel(<, Nat), Nat) /\ T \subseteq Nat
    BY NatLessThanWellFounded
  <2> HIDE DEF T
  <2> QED BY <2>1, WFMin
<1>2. x \in Nat /\ x # 0 /\ x - 1 \in Nat /\ x - 1 \in T
  OBVIOUS
<1>3. <<x - 1, x>> \in OpToRel(<, Nat)
  BY <1>2 DEF OpToRel
<1> QED BY <1>1, <1>2, <1>3

(* A set of numbers up to n that is not empty has a greatest member. *)
LEMMA Greatest ==
  ASSUME NEW n \in Nat, NEW T \in SUBSET (1..n), T # {}
  PROVE  /\ Max(T) \in T
         /\ \A i \in T : i <= Max(T)
         /\ T \ {Max(T)} \in SUBSET (1..(Max(T) - 1))
<1> DEFINE S == {k \in Nat : \A U \in SUBSET (1..k) : U # {} => \E x \in U : \A y \in U : x >= y}
<1>1. 0 \in S
  <2>1. 1..0 = {}
    OBVIOUS
  <2> QED BY <2>1
<1>2. ASSUME NEW k \in Nat, k \in S PROVE k + 1 \in S
  <2> SUFFICES ASSUME NEW U \in SUBSET (1..(k + 1)), U # {}
               PROVE  \E x \in U : \A y \in U : x >= y
    OBVIOUS
  <2>1. CASE k + 1 \in U
    BY <2>1
  <2>2. CASE k + 1 \notin U
    <3>1. U \in SUBSET (1..k)
      BY <2>2
    <3> QED BY <1>2, <3>1
  <2> QED BY <2>1, <2>2
<1>3. n \in S
  <2> HIDE DEF S
  <2> QED BY <1>1, <1>2, Climb
<1>4. \E x \in T : \A y \in T : x >= y
  BY <1>3
<1>5. Max(T) \in T /\ \A y \in T : Max(T) >= y
  BY <1>4 DEF Max
<1>6. Max(T) \in 1..n
  BY <1>5
<1>7. ASSUME NEW i \in T \ {Max(T)} PROVE i \in 1..(Max(T) - 1)
  BY <1>5, <1>6
<1>8. \A i \in T : i <= Max(T)
  BY <1>5, <1>6
<1> QED BY <1>5, <1>7, <1>8

(* The fold of Spoken, one token after the other. *)
Voice(s, t) == IF t[2] = 0 THEN s ELSE Append(s, t)
Fold(g, b) ==
  g = [T \in SUBSET DOMAIN b |-> IF T = {} THEN <<>> ELSE Voice(g[T \ {Max(T)}], b[Max(T)])]

LEMMA FoldIs ==
  ASSUME NEW b, \E g : Fold(g, b)
  PROVE  \E g : Fold(g, b) /\ Spoken(b) = g[DOMAIN b]
BY DEF Spoken, FoldLeft, MapThenFoldSet, Fold, Voice

LEMMA FoldExists ==
  ASSUME NEW X
  PROVE  \A b \in Seq(X) : \E g : Fold(g, b)
<1> DEFINE S == {n \in Nat : \A b \in Seq(X) : Len(b) = n => \E g : Fold(g, b)}
<1>1. 0 \in S
  <2> SUFFICES ASSUME NEW b \in Seq(X), Len(b) = 0 PROVE \E g : Fold(g, b)
    OBVIOUS
  <2> DEFINE g == [T \in SUBSET DOMAIN b |-> <<>>]
  <2>1. Fold(g, b)
    BY DEF Fold
  <2> QED BY <2>1
<1>2. ASSUME NEW n \in Nat, n \in S PROVE n + 1 \in S
  <2> SUFFICES ASSUME NEW b \in Seq(X), Len(b) = n + 1 PROVE \E g : Fold(g, b)
    OBVIOUS
  <2> DEFINE a == SubSeq(b, 1, n)
  <2>1. a \in Seq(X) /\ Len(a) = n /\ DOMAIN a = 1..n /\ DOMAIN b = 1..(n + 1)
        /\ \A i \in 1..n : a[i] = b[i]
    OBVIOUS
  <2>2. PICK f : Fold(f, a)
    BY <1>2, <2>1
  <2> HIDE DEF a
  <2> DEFINE g == [T \in SUBSET (1..(n + 1)) |->
                     IF n + 1 \in T THEN Voice(f[T \ {n + 1}], b[n + 1]) ELSE f[T]]
  <2>3. ASSUME NEW T \in SUBSET (1..(n + 1))
        PROVE  g[T] = IF T = {} THEN <<>> ELSE Voice(g[T \ {Max(T)}], b[Max(T)])
    <3>1. CASE T = {}
      <4>1. {} \in SUBSET (1..n) /\ f[{}] = <<>>
        BY <2>1, <2>2, Zenon DEF Fold
      <4> QED BY <3>1, <4>1
    <3>2. CASE n + 1 \in T
      <4>0. n + 1 \in Nat /\ T # {}
        BY <3>2
      <4>1. Max(T) \in T /\ \A i \in T : i <= Max(T)
        BY <4>0, Greatest
      <4>a. Max(T) \in 1..(n + 1) /\ n + 1 <= Max(T)
        BY <3>2, <4>1
      <4>2. Max(T) = n + 1
        BY <4>a
      <4>3. T \ {n + 1} \in SUBSET (1..n) /\ n + 1 \notin T \ {n + 1}
        OBVIOUS
      <4>4. g[T \ {n + 1}] = f[T \ {n + 1}]
        BY <4>3
      <4> QED BY <3>2, <4>2, <4>4
    <3>3. CASE n + 1 \notin T /\ T # {}
      <4>1. T \in SUBSET (1..n)
        BY <3>3
      <4>2. Max(T) \in T /\ Max(T) \in 1..n /\ T \ {Max(T)} \in SUBSET (1..n)
        BY <3>3, <4>1, Greatest
      <4>3. f[T] = Voice(f[T \ {Max(T)}], a[Max(T)])
        BY <2>1, <2>2, <3>3, <4>1, Zenon DEF Fold
      <4>4. g[T] = f[T] /\ g[T \ {Max(T)}] = f[T \ {Max(T)}]
        BY <3>3, <4>2
      <4> QED BY <2>1, <3>3, <4>2, <4>3, <4>4
    <3> QED BY <3>1, <3>2, <3>3
  <2>4. Fold(g, b)
    <3> DEFINE h == [T \in SUBSET DOMAIN b |->
                       IF T = {} THEN <<>> ELSE Voice(g[T \ {Max(T)}], b[Max(T)])]
    <3>1. SUBSET DOMAIN b = SUBSET (1..(n + 1))
      BY <2>1
    <3>2. g = h
      BY <2>3, <3>1
    <3> HIDE DEF g
    <3> QED BY <3>2 DEF Fold
  <2> QED BY <2>4
<1>3. Nat \subseteq S
  <2> HIDE DEF S
  <2> QED BY <1>1, <1>2, Climb
<1> QED BY <1>3

(* Two folds agree on what their sequences have in common. *)
LEMMA FoldAgrees ==
  ASSUME NEW X, NEW b \in Seq(X), NEW x \in X, NEW f, NEW g, Fold(f, b), Fold(g, Append(b, x))
  PROVE  g[1..(Len(b) + 1)] = Voice(f[1..Len(b)], x)
<1> DEFINE n == Len(b)
           c == Append(b, x)
           S == {k \in Nat : k <= n => \A T \in SUBSET (1..k) : f[T] = g[T]}
<1>0. /\ n \in Nat /\ DOMAIN b = 1..n /\ DOMAIN c = 1..(n + 1) /\ c[n + 1] = x
      /\ \A i \in 1..n : c[i] = b[i]
  OBVIOUS
<1> HIDE DEF n, c
<1>1. f[{}] = <<>> /\ g[{}] = <<>>
  BY Zenon DEF Fold
<1>f. ASSUME NEW T \in SUBSET (1..n), T # {} PROVE f[T] = Voice(f[T \ {Max(T)}], b[Max(T)])
  BY <1>0, <1>f, Zenon DEF Fold
<1>g. ASSUME NEW T \in SUBSET (1..(n + 1)), T # {} PROVE g[T] = Voice(g[T \ {Max(T)}], c[Max(T)])
  BY <1>0, <1>g, Zenon DEF Fold, c
<1>2. 0 \in S
  <2>1. 1..0 = {}
    OBVIOUS
  <2> QED BY <1>1, <2>1
<1>3. ASSUME NEW k \in Nat, k \in S PROVE k + 1 \in S
  <2>0. k + 1 \in Nat
    OBVIOUS
  <2> SUFFICES ASSUME k + 1 <= n, NEW T \in SUBSET (1..(k + 1)) PROVE f[T] = g[T]
    BY <2>0
  <2>1. CASE T = {}
    BY <1>1, <2>1
  <2>2. CASE T # {}
    <3>1. Max(T) \in T /\ T \ {Max(T)} \in SUBSET (1..(Max(T) - 1))
      BY <2>0, <2>2, Greatest
    <3>2. Max(T) \in 1..(k + 1) /\ T \ {Max(T)} \in SUBSET (1..k) /\ Max(T) \in 1..n
      <4>1. Max(T) \in 1..(k + 1)
        BY <3>1
      <4>2. Max(T) \in 1..n /\ 1..(Max(T) - 1) \subseteq 1..k
        BY <1>0, <4>1
      <4> QED BY <3>1, <4>1, <4>2
    <3>3. f[T \ {Max(T)}] = g[T \ {Max(T)}]
      BY <1>0, <1>3, <3>2
    <3>4. T \in SUBSET (1..n) /\ T \in SUBSET (1..(n + 1))
      BY <1>0
    <3>5. c[Max(T)] = b[Max(T)]
      BY <1>0, <3>2
    <3> QED BY <1>f, <1>g, <2>2, <3>3, <3>4, <3>5
  <2> QED BY <2>1, <2>2
<1>4. n \in S
  <2> HIDE DEF S
  <2> QED BY <1>0, <1>2, <1>3, Climb
<1>5. f[1..n] = g[1..n]
  BY <1>0, <1>4
<1>6. Max(1..(n + 1)) = n + 1 /\ (1..(n + 1)) \ {n + 1} = 1..n /\ 1..(n + 1) # {}
  <2>1. n + 1 \in Nat /\ n + 1 \in 1..(n + 1)
    BY <1>0
  <2>a. 1..(n + 1) # {}
    BY <2>1
  <2>2. Max(1..(n + 1)) \in 1..(n + 1) /\ \A i \in 1..(n + 1) : i <= Max(1..(n + 1))
    BY <2>1, <2>a, Greatest
  <2>3. Max(1..(n + 1)) = n + 1
    BY <1>0, <2>1, <2>2
  <2>4. (1..(n + 1)) \ {n + 1} = 1..n
    BY <1>0
  <2> QED BY <2>a, <2>3, <2>4
<1>7. g[1..(n + 1)] = Voice(g[1..n], x)
  BY <1>0, <1>6, <1>g
<1> QED BY <1>5, <1>7 DEF n

LEMMA SpokenSteps ==
  ASSUME NEW X
  PROVE  /\ Spoken(<<>>) = <<>>
         /\ \A b \in Seq(X), x \in X : Spoken(Append(b, x)) = Voice(Spoken(b), x)
<1>1. Spoken(<<>>) = <<>>
  <2>1. <<>> \in Seq(X) /\ DOMAIN <<>> = {}
    OBVIOUS
  <2>2. PICK g : Fold(g, <<>>) /\ Spoken(<<>>) = g[DOMAIN <<>>]
    BY <2>1, FoldExists, FoldIs
  <2>3. g[{}] = <<>>
    BY <2>2, Zenon DEF Fold
  <2> QED BY <2>1, <2>2, <2>3
<1>2. ASSUME NEW b \in Seq(X), NEW x \in X
      PROVE  Spoken(Append(b, x)) = Voice(Spoken(b), x)
  <2>1. /\ Append(b, x) \in Seq(X) /\ DOMAIN b = 1..Len(b)
        /\ DOMAIN Append(b, x) = 1..(Len(b) + 1)
    OBVIOUS
  <2>2. PICK f : Fold(f, b) /\ Spoken(b) = f[DOMAIN b]
    BY FoldExists, FoldIs
  <2>3. PICK g : Fold(g, Append(b, x)) /\ Spoken(Append(b, x)) = g[DOMAIN Append(b, x)]
    BY <2>1, FoldExists, FoldIs
  <2>4. g[1..(Len(b) + 1)] = Voice(f[1..Len(b)], x)
    BY <2>2, <2>3, FoldAgrees
  <2> QED BY <2>1, <2>2, <2>3, <2>4
<1> QED BY <1>1, <1>2

-----------------------------------------------------------------------------
(* A buffer: silence first, and behind it the m tokens that are not yet    *)
(* settled, in their order.                                                *)
Sounds == Nat \X Nat

Shape(s, first, m) ==
  /\ m \in 0..Len(s)
  /\ \A i \in 1..Len(s) :
       s[i][2] = IF i <= Len(s) - m THEN 0 ELSE first + (i - (Len(s) - m))

SpokenIs(s, first, m) ==
  /\ Len(Spoken(s)) = m
  /\ DOMAIN Spoken(s) = 1..m
  /\ \A i \in 1..m : Spoken(s)[i] = s[Len(s) - m + i]

LEMMA SpokenOfShape ==
  ASSUME NEW first \in Nat
  PROVE  \A s \in Seq(Sounds), m \in Nat :
           Shape(s, first, m) => Spoken(s) \in Seq(Sounds) /\ SpokenIs(s, first, m)
<1> DEFINE S == {n \in Nat : \A s \in Seq(Sounds), m \in Nat :
                   Len(s) = n /\ Shape(s, first, m)
                     => Spoken(s) \in Seq(Sounds) /\ SpokenIs(s, first, m)}
<1>1. 0 \in S
  <2> SUFFICES ASSUME NEW s \in Seq(Sounds), NEW m \in Nat, Len(s) = 0, Shape(s, first, m)
               PROVE  Spoken(s) \in Seq(Sounds) /\ SpokenIs(s, first, m)
    OBVIOUS
  <2>1. s = <<>> /\ m = 0
    BY DEF Shape
  <2>2. Spoken(s) = <<>>
    BY <2>1, SpokenSteps
  <2>3. Len(Spoken(s)) = 0 /\ DOMAIN Spoken(s) = {} /\ 1..0 = {}
    BY <2>2
  <2> QED BY <2>1, <2>2, <2>3 DEF SpokenIs
<1>2. ASSUME NEW n \in Nat, n \in S PROVE n + 1 \in S
  <2> SUFFICES ASSUME NEW s \in Seq(Sounds), NEW m \in Nat, Len(s) = n + 1, Shape(s, first, m)
               PROVE  Spoken(s) \in Seq(Sounds) /\ SpokenIs(s, first, m)
    OBVIOUS
  <2>1. PICK b \in Seq(Sounds), x \in Sounds : s = Append(b, x)
    <3>1. SubSeq(s, 1, n) \in Seq(Sounds) /\ s[n + 1] \in Sounds
          /\ s = Append(SubSeq(s, 1, n), s[n + 1])
      OBVIOUS
    <3> QED BY <3>1
  <2>2. Len(b) = n /\ s[n + 1] = x /\ \A i \in 1..n : s[i] = b[i]
    BY <2>1
  <2>3. Spoken(s) = Voice(Spoken(b), x)
    BY <2>1, SpokenSteps
  <2>4. CASE m = 0
    <3>1. x[2] = 0 /\ Shape(b, first, 0)
      BY <2>2, <2>4 DEF Shape
    <3>2. Spoken(b) \in Seq(Sounds) /\ SpokenIs(b, first, 0)
      BY <1>2, <2>2, <3>1
    <3>3. Spoken(s) = Spoken(b)
      BY <2>3, <3>1 DEF Voice
    <3> QED BY <2>4, <3>2, <3>3 DEF SpokenIs
  <2>5. CASE m > 0
    <3>1. m - 1 \in Nat /\ m <= n + 1
      BY <2>5 DEF Shape
    <3>2. x[2] = first + m /\ x[2] # 0
      BY <2>2, <2>5, <3>1 DEF Shape
    <3>3. Shape(b, first, m - 1)
      <4>1. Len(b) - (m - 1) = Len(s) - m
        BY <2>2, <3>1
      <4> QED BY <2>2, <3>1, <4>1 DEF Shape
    <3>4. Spoken(b) \in Seq(Sounds) /\ SpokenIs(b, first, m - 1)
      BY <1>2, <2>2, <3>1, <3>3
    <3>5. Spoken(s) = Append(Spoken(b), x)
      BY <2>3, <3>2 DEF Voice
    <3>6. Spoken(s) \in Seq(Sounds) /\ Len(Spoken(s)) = m
      BY <3>1, <3>4, <3>5 DEF SpokenIs
    <3>7. ASSUME NEW i \in 1..m PROVE Spoken(s)[i] = s[Len(s) - m + i]
      <4>1. CASE i = m
        BY <2>2, <3>1, <3>4, <3>5, <4>1 DEF SpokenIs
      <4>2. CASE i < m
        <5>1. i \in 1..(m - 1) /\ Spoken(s)[i] = Spoken(b)[i]
          BY <3>1, <3>4, <3>5, <4>2 DEF SpokenIs
        <5>2. Spoken(b)[i] = b[n - (m - 1) + i]
          BY <2>2, <3>4, <5>1 DEF SpokenIs
        <5>3. n - (m - 1) + i \in 1..n /\ n - (m - 1) + i = Len(s) - m + i
          BY <3>1, <4>2
        <5> QED BY <2>2, <5>1, <5>2, <5>3
      <4> QED BY <3>1, <4>1, <4>2
    <3> QED BY <3>6, <3>7 DEF SpokenIs
  <2> QED BY <2>4, <2>5
<1>3. Nat \subseteq S
  <2> HIDE DEF S
  <2> QED BY <1>1, <1>2, Climb
<1> QED BY <1>3

(* How many tokens stay in the buffer: the function exists, and they are   *)
(* some of those that were there.                                          *)
Stay(g, n) ==
  IF n < PreLookahead + LeastMore THEN n
  ELSE g[n - Least(SpeechChunk, n - PreLookahead)]

LEMMA Shorter ==
  ASSUME NEW n \in Nat, ~(n < PreLookahead + LeastMore)
  PROVE  n - Least(SpeechChunk, n - PreLookahead) \in 0..(n - 1)
BY SoundAssumption DEF Least

UpTo(g, n) == g \in [Nat -> Nat] /\ \A k \in 0..n : g[k] = Stay(g, k)

LEMMA StaysAlike ==
  ASSUME NEW f, NEW g, NEW n \in Nat, UpTo(f, n), UpTo(g, n)
  PROVE  \A k \in 0..n : f[k] = g[k]
<1> DEFINE S == {k \in Nat : k <= n => \A i \in 0..k : f[i] = g[i]}
<1>0. ASSUME NEW k \in 0..n, \A i \in 0..(k - 1) : f[i] = g[i] PROVE f[k] = g[k]
  <2>1. f[k] = Stay(f, k) /\ g[k] = Stay(g, k)
    BY DEF UpTo
  <2> QED BY <1>0, <2>1, Shorter DEF Stay
<1>1. 0 \in S
  BY <1>0
<1>2. ASSUME NEW k \in Nat, k \in S PROVE k + 1 \in S
  <2> SUFFICES ASSUME k + 1 <= n, NEW i \in 0..(k + 1) PROVE f[i] = g[i]
    OBVIOUS
  <2>1. \A h \in 0..k : f[h] = g[h]
    BY <1>2
  <2>2. CASE i = k + 1
    BY <1>0, <2>1, <2>2
  <2> QED BY <2>1, <2>2
<1>3. n \in S
  <2> HIDE DEF S
  <2> QED BY <1>1, <1>2, Climb
<1> QED BY <1>3

LEMMA StayExists == \A n \in Nat : \E g : UpTo(g, n)
<1> DEFINE S == {n \in Nat : \E g : UpTo(g, n)}
<1>1. 0 \in S
  <2> DEFINE g == [k \in Nat |-> k]
  <2>1. 0 < PreLookahead + LeastMore
    BY SoundAssumption
  <2>2. UpTo(g, 0)
    BY <2>1 DEF UpTo, Stay
  <2> QED BY <2>2
<1>2. ASSUME NEW n \in Nat, n \in S PROVE n + 1 \in S
  <2>1. PICK f : UpTo(f, n)
    BY <1>2
  <2> DEFINE g == [f EXCEPT ![n + 1] = Stay(f, n + 1)]
  <2>2. f \in [Nat -> Nat] /\ n + 1 \in Nat
    BY <2>1 DEF UpTo
  <2>3. Stay(f, n + 1) \in Nat
    BY <2>2, Shorter DEF Stay
  <2>4. g \in [Nat -> Nat] /\ g[n + 1] = Stay(f, n + 1) /\ \A k \in 0..n : g[k] = f[k]
    BY <2>2, <2>3
  <2> HIDE DEF g
  <2>5. ASSUME NEW k \in 0..(n + 1) PROVE Stay(g, k) = Stay(f, k)
    <3>1. CASE k < PreLookahead + LeastMore
      BY <3>1 DEF Stay
    <3>2. CASE ~(k < PreLookahead + LeastMore)
      <4>1. k - Least(SpeechChunk, k - PreLookahead) \in 0..n
        BY <3>2, Shorter
      <4> QED BY <2>4, <3>2, <4>1 DEF Stay
    <3> QED BY <3>1, <3>2
  <2>6. UpTo(g, n + 1)
    BY <2>1, <2>4, <2>5 DEF UpTo
  <2> QED BY <2>6
<1>3. Nat \subseteq S
  <2> HIDE DEF S
  <2> QED BY <1>1, <1>2, Climb
<1> QED BY <1>3

LEMMA LeftIs == \A n \in Nat : Left[n] = Stay(Left, n)
<1> DEFINE G(n) == CHOOSE g : UpTo(g, n)
           L == [n \in Nat |-> G(n)[n]]
<1>1. ASSUME NEW n \in Nat PROVE UpTo(G(n), n)
  BY StayExists
<1>2. ASSUME NEW n \in Nat, NEW k \in 0..n PROVE G(n)[k] = L[k]
  <2>1. UpTo(G(n), k) /\ UpTo(G(k), k) /\ k \in Nat
    <3>1. UpTo(G(n), n) /\ UpTo(G(k), k)
      BY <1>1
    <3>2. \A i \in 0..k : i \in 0..n
      OBVIOUS
    <3> HIDE DEF G
    <3> QED BY <3>1, <3>2 DEF UpTo
  <2>2. L[k] = G(k)[k]
    OBVIOUS
  <2> HIDE DEF G
  <2>3. G(n)[k] = G(k)[k]
    BY <2>1, StaysAlike
  <2> QED BY <2>2, <2>3
<1>a. ASSUME NEW n \in Nat PROVE L[n] = G(n)[n]
  OBVIOUS
<1> HIDE DEF G, L
<1>3. ASSUME NEW n \in Nat PROVE L[n] = Stay(L, n)
  <2>1. L[n] = Stay(G(n), n)
    <3>1. UpTo(G(n), n) /\ n \in 0..n
      BY <1>1
    <3> QED BY <1>a, <3>1 DEF UpTo
  <2>2. CASE n < PreLookahead + LeastMore
    BY <2>1, <2>2 DEF Stay
  <2>3. CASE ~(n < PreLookahead + LeastMore)
    <3>1. n - Least(SpeechChunk, n - PreLookahead) \in 0..n
      BY <2>3, Shorter
    <3>2. G(n)[n - Least(SpeechChunk, n - PreLookahead)] = L[n - Least(SpeechChunk, n - PreLookahead)]
      BY <1>2, <3>1
    <3> QED BY <2>1, <2>3, <3>2 DEF Stay
  <2> QED BY <2>2, <2>3
<1>4. \E l : l = [n \in Nat |-> Stay(l, n)]
  <2>1. L = [n \in Nat |-> Stay(L, n)]
    <3> DEFINE R == [n \in Nat |-> Stay(L, n)]
    <3>1. \A n \in Nat : L[n] = R[n]
      BY <1>3
    <3> QED BY <3>1 DEF L
  <2> QED BY <2>1
<1>5. Left = [n \in Nat |-> Stay(Left, n)]
  BY <1>4 DEF Left, Stay
<1> QED BY <1>5

LEMMA LeftFits == \A n \in Nat : Left[n] \in 0..n
<1> DEFINE S == {n \in Nat : \A k \in 0..n : Left[k] \in 0..k}
<1>0. ASSUME NEW k \in Nat, \A i \in 0..(k - 1) : Left[i] \in 0..i PROVE Left[k] \in 0..k
  <2>1. Left[k] = Stay(Left, k)
    BY LeftIs
  <2>2. CASE k < PreLookahead + LeastMore
    BY <2>1, <2>2 DEF Stay
  <2>3. CASE ~(k < PreLookahead + LeastMore)
    <3>1. PICK i \in 0..(k - 1) : Stay(Left, k) = Left[i]
      BY <2>3, Shorter DEF Stay
    <3> QED BY <1>0, <2>1, <3>1
  <2> QED BY <2>2, <2>3
<1>1. 0 \in S
  BY <1>0
<1>2. ASSUME NEW n \in Nat, n \in S PROVE n + 1 \in S
  <2>1. \A k \in 0..n : Left[k] \in 0..k
    BY <1>2
  <2>2. Left[n + 1] \in 0..(n + 1)
    BY <1>0, <2>1
  <2> QED BY <2>1, <2>2
<1>3. Nat \subseteq S
  <2> HIDE DEF S
  <2> QED BY <1>1, <1>2, Climb
<1> QED BY <1>3

-----------------------------------------------------------------------------
(* The books of the voice: what is not settled is in the buffer, behind    *)
(* the silence; and turns that the voice was not told the end of are       *)
(* loose, or open.                                                         *)
Pending == made - settled
Behind(turns) == turns \subseteq loose \cup (IF open THEN {turn} ELSE {})

VoiceInv ==
  /\ phase \in {"off", "idle", "heard", "failed"}
  /\ open \in BOOLEAN /\ initialized \in BOOLEAN
  /\ turn \in Nat /\ made \in Nat /\ settled \in Nat /\ settled <= made
  /\ buffer \in Seq(Sounds)
  /\ Shape(buffer, settled, Pending)
  /\ ~initialized => buffer = <<>> /\ made = 0 /\ settled = 0
  /\ Behind(tts)
  /\ \A i \in 1..Len(buffer) : i > Len(buffer) - Pending => Behind({buffer[i][1]})

(* Silence alone has the shape of a buffer in which nothing waits. *)
LEMMA SilenceShape ==
  ASSUME NEW first \in Nat
  PROVE  /\ Silence \in Seq(Sounds) /\ <<>> \in Seq(Sounds)
         /\ Shape(Silence, first, 0) /\ Shape(<<>>, first, 0)
<1>1. SilenceTokens \in Nat
  BY SoundAssumption
<1>2. Silence \in Seq(Sounds) /\ Len(Silence) = SilenceTokens
      /\ \A i \in 1..SilenceTokens : Silence[i] = <<0, 0>>
  BY <1>1 DEF Silence, Sounds
<1>3. <<>> \in Seq(Sounds) /\ Len(<<>>) = 0
  OBVIOUS
<1> QED BY <1>1, <1>2, <1>3 DEF Shape

(* The invariant says what the property says. *)
LEMMA VoiceImplies == VoiceInv => SoundedInItsTurn
<1> SUFFICES ASSUME VoiceInv PROVE SoundedInItsTurn
  OBVIOUS
<1> DEFINE w == Spoken(buffer)
           n == Len(buffer)
<1>1. Pending \in Nat /\ Pending <= n /\ n \in Nat /\ made = settled + Pending
  BY DEF VoiceInv, Pending, Shape
<1>2. SpokenIs(buffer, settled, Pending)
  BY <1>1, SpokenOfShape DEF VoiceInv
<1>3. Len(w) = Pending /\ DOMAIN w = 1..Pending
  BY <1>2 DEF SpokenIs
<1>4. ASSUME NEW i \in DOMAIN w
      PROVE  w[i][2] = settled + i /\ w[i][1] \in loose \cup {turn}
  <2>1. i \in 1..Pending /\ w[i] = buffer[n - Pending + i]
    BY <1>2, <1>3 DEF SpokenIs
  <2>2. n - Pending + i \in 1..n /\ n - Pending + i > n - Pending
    BY <1>1, <2>1
  <2>3. buffer[n - Pending + i][2] = settled + i
    <3>1. buffer[n - Pending + i][2] = settled + ((n - Pending + i) - (n - Pending))
      BY <1>1, <2>2 DEF VoiceInv, Shape
    <3> QED BY <1>1, <2>1, <3>1
  <2>4. Behind({buffer[n - Pending + i][1]})
    BY <2>2 DEF VoiceInv
  <2> QED BY <2>1, <2>3, <2>4 DEF Behind
<1>5. tts \subseteq loose \cup {turn}
  BY DEF VoiceInv, Behind
<1> HIDE DEF w
<1>6. settled + Len(w) = made
  BY <1>1, <1>3 DEF VoiceInv
<1>7. tts \cup {w[i][1] : i \in DOMAIN w} \subseteq loose \cup {turn}
  BY <1>4, <1>5
<1> QED BY <1>4, <1>6, <1>7 DEF SoundedInItsTurn, w

(* Steps that leave the buffer alone, or empty it. *)
LEMMA Emptied ==
  ASSUME VoiceInv,
         phase' \in {"off", "idle", "heard", "failed"}, open' \in BOOLEAN, initialized' \in BOOLEAN,
         turn' \in Nat, made' \in Nat, settled' = made',
         tts' \subseteq loose' \cup (IF open' THEN {turn'} ELSE {}),
         buffer' = IF initialized' THEN Silence ELSE <<>>,
         ~initialized' => made' = 0
  PROVE  VoiceInv'
<1>0. \A x \in Nat : x - x = 0
  OBVIOUS
<1>1. Pending' = 0 /\ settled' \in Nat
  BY <1>0 DEF Pending
<1>2. buffer' \in Seq(Sounds) /\ Shape(buffer', settled', 0)
  BY <1>1, SilenceShape
<1>3. Shape(buffer, settled, Pending)'
  BY <1>1, <1>2 DEF Shape
<1>4. \A i \in 1..Len(buffer') : ~(i > Len(buffer') - 0)
  BY <1>2
<1>5. Behind(tts)'
  BY DEF Behind
<1> QED BY <1>1, <1>2, <1>3, <1>4, <1>5 DEF VoiceInv

LEMMA Kept ==
  ASSUME VoiceInv, UNCHANGED <<initialized, buffer, made, settled>>,
         phase' \in {"off", "idle", "heard", "failed"}, open' \in BOOLEAN, turn' \in Nat,
         tts' = tts,
         loose \cup (IF open THEN {turn} ELSE {}) \subseteq loose' \cup (IF open' THEN {turn'} ELSE {})
  PROVE  VoiceInv'
<1>1. Pending' = Pending
  BY DEF Pending
<1>2. \A turns : Behind(turns) => turns \subseteq loose' \cup (IF open' THEN {turn'} ELSE {})
  BY DEF Behind
<1>3. Behind(tts)'
  BY <1>2 DEF Behind, VoiceInv
<1>4. ASSUME NEW i \in 1..Len(buffer), i > Len(buffer) - Pending
      PROVE  {buffer[i][1]} \subseteq loose' \cup (IF open' THEN {turn'} ELSE {})
  BY <1>2, <1>4 DEF VoiceInv
<1>5. Shape(buffer, settled, Pending)'
  BY <1>1 DEF Shape, VoiceInv
<1> QED BY <1>1, <1>3, <1>4, <1>5 DEF VoiceInv, Behind

(* Words for the voice: they are tokens of the turn that is open, of the   *)
(* one they open, or of none.                                              *)
LEMMA SpeakVoice ==
  ASSUME VoiceInv, NEW n \in 0..SpeechChunk, NEW ends \in BOOLEAN, NEW opens \in BOOLEAN,
         NEW reopens \in BOOLEAN, Speak(n, ends, opens, reopens)
  PROVE  VoiceInv'
<1> DEFINE owner == IF opens THEN turn + 1 ELSE IF open THEN turn ELSE 0
           tokens == [i \in 1..n |-> <<owner, made + i>>]
           all == buffer \o tokens
           left == Voiced(tokens, ends)
           m == Pending + n
           told == loose' \cup (IF open' THEN {turn'} ELSE {})
<1>0. SpeechChunk \in Nat /\ n \in Nat
  BY SoundAssumption
<1>1. /\ turn \in Nat /\ made \in Nat /\ settled \in Nat /\ settled <= made
      /\ open \in BOOLEAN /\ initialized \in BOOLEAN /\ buffer \in Seq(Sounds)
      /\ Pending \in Nat /\ Pending <= Len(buffer) /\ made = settled + Pending
  BY DEF VoiceInv, Pending, Shape
<1>2. /\ phase' = "idle" /\ initialized' = initialized
      /\ turn' = IF opens THEN turn + 1 ELSE turn
      /\ open' = IF ends THEN reopens ELSE open \/ opens
      /\ tts' = IF ends THEN {} ELSE tts \cup {owner}
      /\ loose' = IF ends THEN {}
                  ELSE loose \cup (IF open /\ opens THEN {turn} ELSE {}) \cup ({owner} \cap {0})
  BY Zenon DEF Speak
<1>3. IF initialized
      THEN /\ made' = made + n
           /\ buffer' = IF ends THEN Silence ELSE left
           /\ settled' = settled + Len(Spoken(all)) - Len(Spoken(left))
      ELSE UNCHANGED <<made, buffer, settled>>
  BY Zenon DEF Speak
<1>4. turn' \in Nat /\ open' \in BOOLEAN /\ owner \in Nat
  BY <1>1, <1>2
<1>5. tokens \in Seq(Sounds) /\ Len(tokens) = n
      /\ \A i \in 1..n : tokens[i] = <<owner, made + i>>
  <2>1. \A i \in 1..n : <<owner, made + i>> \in Sounds
    BY <1>0, <1>1, <1>4 DEF Sounds
  <2> HIDE DEF owner
  <2> QED BY <1>0, <2>1
<1>6. /\ all \in Seq(Sounds) /\ Len(all) = Len(buffer) + n /\ m \in Nat /\ m <= Len(all)
      /\ \A i \in 1..Len(buffer) : all[i] = buffer[i]
      /\ \A i \in 1..n : all[Len(buffer) + i] = <<owner, made + i>>
  <2> HIDE DEF tokens, owner
  <2>1. m \in Nat /\ m <= Len(buffer) + n
    BY <1>0, <1>1
  <2>2. all \in Seq(Sounds) /\ Len(all) = Len(buffer) + n
    <3>1. \A s, t \in Seq(Sounds) : s \o t \in Seq(Sounds) /\ Len(s \o t) = Len(s) + Len(t)
      OBVIOUS
    <3> QED BY <1>1, <1>5, <3>1
  <2>3. \A i \in 1..Len(buffer) : all[i] = buffer[i]
    BY <1>1, <1>5
  <2>4. \A i \in 1..n : all[Len(buffer) + i] = tokens[i]
    BY <1>0, <1>1, <1>5
  <2> HIDE DEF all, m
  <2> QED BY <1>5, <2>1, <2>2, <2>3, <2>4
<1> HIDE DEF tokens
<1>7. Shape(all, settled, m)
  <2> SUFFICES ASSUME NEW i \in 1..Len(all)
               PROVE  all[i][2] = IF i <= Len(all) - m THEN 0 ELSE settled + (i - (Len(all) - m))
    BY <1>6 DEF Shape
  <2>1. Len(all) - m = Len(buffer) - Pending
    BY <1>0, <1>1, <1>6
  <2>2. CASE i <= Len(buffer)
    <3>1. all[i] = buffer[i] /\ i \in 1..Len(buffer)
      BY <1>1, <1>6, <2>2
    <3>2. buffer[i][2] = IF i <= Len(buffer) - Pending THEN 0 ELSE settled + (i - (Len(buffer) - Pending))
      BY <3>1 DEF VoiceInv, Shape
    <3> QED BY <2>1, <3>1, <3>2
  <2>3. CASE i > Len(buffer)
    <3>1. PICK k \in 1..n : i = Len(buffer) + k
      <4>1. i - Len(buffer) \in 1..n /\ i = Len(buffer) + (i - Len(buffer))
        BY <1>0, <1>1, <1>6, <2>3
      <4> QED BY <4>1
    <3>2. all[i] = <<owner, made + k>> /\ all[i][2] = made + k
      BY <1>6, <3>1
    <3> QED BY <1>0, <1>1, <2>1, <3>1, <3>2
  <2> QED BY <1>1, <1>6, <2>2, <2>3
<1>8. Len(Spoken(all)) = m
  BY <1>1, <1>6, <1>7, SpokenOfShape DEF SpokenIs
<1>9. CASE ends
  <2>1. left = <<>> /\ Len(Spoken(<<>>)) = 0
    BY <1>9, SpokenSteps DEF Voiced
  <2>2. tts' = {} /\ buffer' = IF initialized' THEN Silence ELSE <<>>
    BY <1>2, <1>3, <1>9 DEF VoiceInv
  <2>3. made' \in Nat /\ settled' = made' /\ (~initialized' => made' = 0)
    <3>1. CASE initialized
      <4>1. made' = made + n /\ settled' = settled + Len(Spoken(all)) - Len(Spoken(left))
        BY <1>3, <3>1
      <4>2. settled' = settled + m - 0
        BY <1>8, <2>1, <4>1
      <4> HIDE DEF all, left
      <4> QED BY <1>0, <1>1, <1>2, <3>1, <4>1, <4>2
    <3>2. CASE ~initialized
      BY <1>1, <1>2, <1>3, <3>2 DEF VoiceInv
    <3> QED BY <3>1, <3>2
  <2> HIDE DEF all, left, owner
  <2> QED BY <1>2, <1>4, <1>1, <2>2, <2>3, Emptied
<1>10. ASSUME ~ends PROVE \A turns : Behind(turns) => turns \subseteq told
  BY <1>1, <1>2, <1>10 DEF Behind
<1>11. ASSUME ~ends PROVE owner \in told
  BY <1>1, <1>2, <1>11
<1>12. ASSUME ~ends PROVE tts' \subseteq told
  BY <1>2, <1>10, <1>11, <1>12 DEF VoiceInv
<1>13. CASE ~ends /\ ~initialized
  <2>1. loose \cup (IF open THEN {turn} ELSE {}) \subseteq told
    BY <1>10, <1>13 DEF Behind
  <2>2. Pending' = Pending /\ Pending = 0 /\ buffer' = <<>> /\ UNCHANGED <<made, buffer, settled>>
    BY <1>3, <1>13 DEF Pending, VoiceInv
  <2>3. made' = 0 /\ settled' = made' /\ made' \in Nat /\ buffer' = IF initialized' THEN Silence ELSE <<>>
    BY <1>2, <1>13, <2>2 DEF VoiceInv
  <2> HIDE DEF all, left, owner
  <2> QED BY <1>1, <1>2, <1>4, <1>12, <1>13, <2>3, Emptied
<1>14. CASE ~ends /\ initialized
  <2> DEFINE a == Len(all)
             l == Left[a]
             k == IF l < m THEN l ELSE m
  <2>1. l \in Nat /\ l <= a /\ a \in Nat /\ k \in Nat /\ k <= m /\ k <= l
    BY <1>6, LeftFits
  <2>2. left = SubSeq(all, a - l + 1, a)
    BY <1>14 DEF Voiced
  <2> HIDE DEF all, l, left, owner
  <2>3. /\ left \in Seq(Sounds) /\ Len(left) = l
        /\ \A i \in 1..l : left[i] = all[a - l + i] /\ a - l + i \in 1..a
    BY <1>6, <2>1, <2>2
  <2>4. Shape(left, settled + (m - k), k)
    <3> SUFFICES ASSUME NEW i \in 1..l
                 PROVE  left[i][2] = IF i <= l - k THEN 0 ELSE (settled + (m - k)) + (i - (l - k))
      BY <2>1, <2>3 DEF Shape
    <3>1. a - l + i \in 1..a /\ left[i] = all[a - l + i]
      BY <2>3
    <3>2. all[a - l + i][2] = IF a - l + i <= a - m THEN 0 ELSE settled + ((a - l + i) - (a - m))
      BY <1>7, <3>1 DEF Shape
    <3> HIDE DEF m, k
    <3>a. /\ a \in Int /\ l \in Int /\ m \in Int /\ i \in Int /\ settled \in Int
          /\ (l < m => k = l) /\ (~(l < m) => k = m)
      BY <1>1, <1>6, <2>1 DEF k
    <3>b. \A u, v, w, x, y \in Int : u + ((v - w + x) - (v - y)) = u + (x + (y - w))
      OBVIOUS
    <3>c. \A u, v, w, x, y \in Int : (u + (y - v)) + (x - (w - v)) = u + (x + (y - w))
      OBVIOUS
    <3>d. settled + ((a - l + i) - (a - m)) = (settled + (m - k)) + (i - (l - k))
      BY <3>a, <3>b, <3>c
    <3>3. CASE l < m
      <4>1. k = l /\ ~(i <= l - k) /\ ~(a - l + i <= a - m)
        BY <2>1, <3>a, <3>3
      <4> QED BY <3>1, <3>2, <3>d, <4>1
    <3>4. CASE ~(l < m)
      <4>1. k = m /\ (i <= l - k <=> a - l + i <= a - m)
        BY <2>1, <3>a, <3>4
      <4> QED BY <3>1, <3>2, <3>d, <4>1
    <3> QED BY <3>3, <3>4
  <2>5. settled + (m - k) \in Nat /\ Len(Spoken(left)) = k
    <3>1. settled + (m - k) \in Nat
      BY <1>1, <1>6, <2>1
    <3> QED BY <2>1, <2>3, <2>4, <3>1, SpokenOfShape DEF SpokenIs
  <2>6. made' = made + n /\ buffer' = left /\ settled' = settled + (m - k)
    <3>1. settled' = settled + m - k
      BY <1>3, <1>8, <1>14, <2>5
    <3>2. settled + m - k = settled + (m - k)
      BY <1>1, <1>6, <2>1
    <3> QED BY <1>3, <1>14, <3>1, <3>2
  <2>7. Pending' = k /\ made' \in Nat /\ settled' <= made'
    <3>1. Pending' = made' - settled'
      BY Zenon DEF Pending
    <3>5. Pending' = (made + n) - (settled + (m - k))
      BY <2>6, <3>1
    <3>2. made + n = settled + m
      BY <1>0, <1>1
    <3>3. \A x, y, z \in Nat : z <= y =>
            (x + y) - (x + (y - z)) = z /\ x + y \in Nat /\ x + (y - z) <= x + y
      OBVIOUS
    <3>4. (made + n) - (settled + (m - k)) = k /\ made + n \in Nat /\ settled + (m - k) <= made + n
      BY <1>1, <1>6, <2>1, <3>2, <3>3
    <3> QED BY <2>6, <3>4, <3>5
  <2>8. Shape(buffer, settled, Pending)'
    BY <2>4, <2>6, <2>7 DEF Shape
  <2>9. ASSUME NEW i \in 1..l, i > l - k PROVE left[i][1] \in told
    <3> DEFINE h == a - l + i
    <3>1. h \in 1..a /\ left[i] = all[h] /\ h > a - m
      BY <2>1, <2>3, <1>6, <2>9
    <3>2. CASE h <= Len(buffer)
      <4>1. h \in 1..Len(buffer) /\ h > Len(buffer) - Pending /\ all[h] = buffer[h]
        BY <1>0, <1>1, <1>6, <3>1, <3>2
      <4>2. Behind({buffer[h][1]})
        BY <4>1 DEF VoiceInv
      <4>3. {buffer[h][1]} \subseteq told
        BY <1>10, <1>14, <4>2
      <4> QED BY <3>1, <4>1, <4>3
    <3>3. CASE h > Len(buffer)
      <4>1. PICK j \in 1..n : h = Len(buffer) + j
        <5>1. h - Len(buffer) \in 1..n /\ h = Len(buffer) + (h - Len(buffer))
          BY <1>0, <1>1, <1>6, <3>1, <3>3
        <5> QED BY <5>1
      <4>2. all[h] = <<owner, made + j>>
        BY <1>6, <4>1
      <4>3. all[h][1] = owner
        BY <4>2
      <4> QED BY <1>11, <1>14, <3>1, <4>3
    <3> QED BY <1>1, <3>1, <3>2, <3>3
  <2>10. \A i \in 1..Len(buffer') : i > Len(buffer') - Pending' => Behind({buffer[i][1]})'
    BY <2>3, <2>6, <2>7, <2>9 DEF Behind
  <2>11. Behind(tts)'
    BY <1>12, <1>14 DEF Behind
  <2>12. settled' \in Nat /\ buffer' \in Seq(Sounds)
    BY <2>3, <2>5, <2>6
  <2> QED BY <1>1, <1>2, <1>4, <1>14, <2>7, <2>8, <2>10, <2>11, <2>12 DEF VoiceInv
<1> QED BY <1>9, <1>13, <1>14

LEMMA ListenVoice ==
  ASSUME VoiceInv, NEW override \in BOOLEAN, Listen(override)
  PROVE  VoiceInv'
<1>1. /\ phase' = "idle" /\ open' = FALSE /\ tts' = tts /\ initialized' = initialized
      /\ turn' = turn /\ made' = made
  BY DEF Listen
<1>2. CASE override /\ open
  <2>1. /\ loose' = loose \cup {turn} /\ settled' = made
        /\ buffer' = IF initialized THEN Silence ELSE buffer
    BY <1>2 DEF Listen
  <2>2. tts' \subseteq loose' \cup (IF open' THEN {turn'} ELSE {})
    BY <1>1, <1>2, <2>1 DEF VoiceInv, Behind
  <2>3. /\ buffer' = IF initialized' THEN Silence ELSE <<>>
        /\ ~initialized' => made' = 0
    BY <1>1, <2>1 DEF VoiceInv
  <2>4. turn' \in Nat /\ made' \in Nat /\ settled' = made' /\ initialized' \in BOOLEAN
    BY <1>1, <2>1 DEF VoiceInv
  <2> QED BY <1>1, <2>2, <2>3, <2>4, Emptied
<1>3. CASE ~(override /\ open)
  <2>1. ~open /\ UNCHANGED <<initialized, buffer, made, settled>> /\ loose' = loose
    BY <1>1, <1>3 DEF Listen
  <2>2. turn' \in Nat
    BY <1>1 DEF VoiceInv
  <2> QED BY <1>1, <2>1, <2>2, Kept
<1> QED BY <1>2, <1>3

LEMMA EndsListeningVoice ==
  ASSUME VoiceInv, NEW opens \in BOOLEAN, EndsListening(opens)
  PROVE  VoiceInv'
<1>1. /\ phase' = "idle" /\ open' = FALSE /\ tts' = tts
      /\ UNCHANGED <<initialized, buffer, made, settled>>
      /\ turn' = IF opens THEN turn + 1 ELSE turn
      /\ loose' = loose \cup (IF open THEN {turn} ELSE {}) \cup {turn'}
  BY DEF EndsListening
<1>2. turn' \in Nat
  BY <1>1 DEF VoiceInv
<1> QED BY <1>1, <1>2, Kept

LEMMA NextVoice ==
  ASSUME VoiceInv, [Next]_vars
  PROVE  VoiceInv'
<1>1. ASSUME NEW voice \in BOOLEAN, Prepare(voice) PROVE VoiceInv'
  BY <1>1, Emptied DEF Prepare, Fresh
<1>2. CASE Cleanup
  BY <1>2, Emptied DEF Cleanup, Fresh
<1>3. ASSUME NEW n \in Pieces, TooLittle(n) \/ Hear(n) PROVE VoiceInv'
  <2>1. UNCHANGED mouth /\ phase' \in {"off", "idle", "heard", "failed"}
    BY <1>3 DEF TooLittle, Hear, Sent
  <2> QED BY <2>1, Kept DEF mouth, VoiceInv
<1>4. CASE NothingToSay
  <2>1. UNCHANGED mouth /\ phase' = "idle"
    BY <1>4 DEF NothingToSay
  <2> QED BY <2>1, Kept DEF mouth, VoiceInv
<1>5. ASSUME NEW b \in BOOLEAN, Listen(b) \/ EndsListening(b) PROVE VoiceInv'
  BY <1>5, ListenVoice, EndsListeningVoice
<1>6. ASSUME NEW n \in 0..SpeechChunk, NEW ends \in BOOLEAN, NEW opens \in BOOLEAN,
             NEW reopens \in BOOLEAN, Speak(n, ends, opens, reopens)
      PROVE VoiceInv'
  BY <1>6, SpeakVoice
<1>7. CASE UNCHANGED vars
  <2>1. UNCHANGED mouth /\ phase' = phase
    BY <1>7 DEF vars
  <2> QED BY <2>1, Kept DEF mouth, VoiceInv
<1> QED BY <1>1, <1>2, <1>3, <1>4, <1>5, <1>6, <1>7 DEF Next

LEMMA InitVoice == Init => VoiceInv
<1> SUFFICES ASSUME Init PROVE VoiceInv
  OBVIOUS
<1>1. /\ phase = "off" /\ open = FALSE /\ initialized = FALSE /\ tts = {} /\ buffer = <<>>
      /\ turn = 0 /\ made = 0 /\ settled = 0
  BY DEF Init
<1>2. Pending = 0
  BY <1>1 DEF Pending
<1>3. <<>> \in Seq(Sounds) /\ Shape(<<>>, 0, 0) /\ Len(<<>>) = 0
  BY SilenceShape
<1>4. Behind(tts) /\ Shape(buffer, settled, Pending) /\ Len(buffer) = 0
  BY <1>1, <1>2, <1>3 DEF Behind
<1>5. ~initialized /\ settled <= made /\ \A i \in 1..Len(buffer) : ~(i > Len(buffer) - Pending)
  BY <1>1, <1>2, <1>4
<1> QED BY <1>1, <1>3, <1>4, <1>5 DEF VoiceInv

(* SoundedInItsTurn, however long a second of voice, its silence and what  *)
(* the vocoder looks ahead are.                                            *)
THEOREM VoicedInOrder == Spec => []SoundedInItsTurn
BY InitVoice, NextVoice, VoiceImplies, PTL DEF Spec
=============================================================================
