---------------------------- MODULE DuplexProofs ----------------------------
(***************************************************************************)
(* Proofs about a full-duplex session, whatever the tokens, the limits,    *)
(* the windows, the overrides and the moments at which a session is        *)
(* stopped, cleaned up or begun anew.  LoopInv is about the turns; UnitInv *)
(* adds the numbers of the units, the cache beside the lengths the code    *)
(* keeps of it, and the memory beside what was delivered.                  *)
(***************************************************************************)
EXTENDS DuplexUnit, WellFoundedInduction, SequenceTheorems, TLAPS

Phases == {"off", "idle", "prefilled", "decoding", "generated"}

(* Where the loop over tokens stands, without the decoder, which nothing   *)
(* here depends on.                                                        *)
LoopTyped ==
  /\ phase \in Phases
  /\ calls \in Nat
  /\ open \in BOOLEAN

(* _pending_finalize is there from the end of streaming_generate to        *)
(* finalize_unit, pending_logits from a prefill to streaming_generate.     *)
Handed ==
  /\ pending # NotPending => phase = "generated"
  /\ phase = "idle" /\ ~stop => ~logits
  /\ phase \in {"decoding", "generated"} => ~logits

(* In its first calls a session listens, so it has begun no turn; and a    *)
(* unit that is forced to listen, or has listened, leaves no turn open.    *)
TurnsInv ==
  /\ calls < ForceCount => ~open
  /\ phase = "decoding" /\ calls < ForceCount => force = "listen"
  /\ phase = "decoding" /\ force = "listen" => ~open
  /\ ListensBetweenTurns

LoopInv == LoopTyped /\ Handed /\ TurnsInv

-----------------------------------------------------------------------------
LEMMA FreshLoop ==
  ASSUME Fresh, phase' \in {"off", "idle"}, LoopInv
  PROVE  LoopInv'
<1>1. pending' = NotPending /\ ~open' /\ calls' = 0 /\ open' = FALSE /\ ~logits'
  BY DEF Fresh
<1>2. LoopTyped'
  BY <1>1 DEF LoopTyped, Phases
<1>3. Handed'
  BY <1>1 DEF Handed
<1>4. TurnsInv'
  BY <1>1 DEF TurnsInv, ListensBetweenTurns
<1> QED BY <1>2, <1>3, <1>4 DEF LoopInv

(* A unit that has listened was forced to, or sampled a listen token while *)
(* no turn was open: that token is forbidden in a turn.                    *)
LEMMA TakenListen ==
  ASSUME LoopInv, phase = "decoding", NEW t, Taken(t) = "listen"
  PROVE  ~open
<1>1. CASE force = "listen"
  BY <1>1 DEF LoopInv, TurnsInv
<1>2. CASE force # "listen"
  <2>1. t = "listen" /\ ~(open \/ (force = "speak" /\ j = 0))
    BY <1>2 DEF Taken
  <2> QED BY <2>1
<1> QED BY <1>1, <1>2

LEMMA GeneratedLoop ==
  ASSUME LoopInv, phase = "decoding", NEW listen \in BOOLEAN, Generated(listen),
         open' \in BOOLEAN, listen => ~open', calls < ForceCount => ~open'
  PROVE  LoopInv'
<1>1. pending' = [listen |-> listen, words |-> words] /\ pending'.listen = listen
  BY DEF Generated
<1> QED BY <1>1 DEF Generated, LoopInv, LoopTyped, Phases, Handed, TurnsInv, ListensBetweenTurns

LEMMA LoopKept ==
  ASSUME LoopInv, [Next]_vars
  PROVE  LoopInv'
<1> USE DEF LoopInv
<1>1. ASSUME NEW m \in Modes, Prepare(m) PROVE LoopInv'
  BY <1>1, FreshLoop DEF Prepare
<1>2. CASE Stop
  BY <1>2 DEF Stop, LoopTyped, Handed, TurnsInv, ListensBetweenTurns
<1>3. CASE Cleanup
  BY <1>3, FreshLoop DEF Cleanup, LoopTyped
<1>4. ASSUME NEW text \in Texts, SetContext(text) PROVE LoopInv'
  BY <1>4 DEF SetContext, LoopTyped, Handed, TurnsInv, ListensBetweenTurns
<1>5. ASSUME NEW enough \in BOOLEAN, Prefill(enough) PROVE LoopInv'
  BY <1>5 DEF Prefill, LoopTyped, Phases, Handed, TurnsInv, ListensBetweenTurns
<1>6. CASE GenerateNothing
  BY <1>6 DEF GenerateNothing, LoopTyped, Phases, Handed, TurnsInv, ListensBetweenTurns
<1>7. ASSUME NEW override \in {"none", "listen", "speak"}, NEW inject \in BOOLEAN,
             Generate(override, inject)
      PROVE  LoopInv'
  <2>1. phase = "prefilled" /\ phase' = "decoding" /\ pending' = pending /\ ~logits'
    BY <1>7 DEF Generate
  <2>2. open' = (open /\ ~(override = "listen" /\ open))
    BY <1>7, Zenon DEF Generate
  <2>3. open' \in BOOLEAN /\ (open' => open /\ override # "listen")
    BY <2>2
  <2>4. calls' = (IF calls < ForceCount THEN calls + 1 ELSE calls)
    BY <1>7, Zenon DEF Generate
  <2>5. ForceCount \in Nat
    BY UnitAssumption
  <2>6. calls' \in Nat /\ (calls' < ForceCount => calls < ForceCount)
    BY <2>4, <2>5 DEF LoopTyped
  <2>7. force' = IF calls < ForceCount \/ override = "listen" THEN "listen" ELSE override
    BY <1>7, Zenon DEF Generate
  <2>8. LoopTyped'
    BY <2>1, <2>3, <2>6 DEF LoopTyped, Phases
  <2>9. pending = NotPending
    BY <2>1 DEF Handed
  <2>10. Handed'
    BY <2>1, <2>9 DEF Handed
  <2>11. TurnsInv'
    BY <2>1, <2>3, <2>6, <2>7, <2>9 DEF TurnsInv, ListensBetweenTurns
  <2> QED BY <2>8, <2>10, <2>11
<1>8. CASE HardCap
  BY <1>8, GeneratedLoop DEF HardCap, TurnsInv, LoopTyped
<1>9. ASSUME NEW t \in Kinds, Terminate(t) PROVE LoopInv'
  <2>1. Taken(t) = "listen" => ~open
    BY <1>9, TakenListen DEF Terminate
  <2> QED BY <1>9, <2>1, GeneratedLoop DEF Terminate, TurnsInv, LoopTyped
<1>10. ASSUME NEW t \in Kinds, Reject(t) \/ Token(t) PROVE force # "listen" /\ ~(calls < ForceCount)
  <2>1. phase = "decoding" /\ Taken(t) \notin Terminators
    BY <1>10 DEF Reject, Token
  <2> QED BY <2>1 DEF Taken, Terminators, TurnsInv
<1>11. ASSUME NEW t \in Kinds, Reject(t) PROVE LoopInv'
  BY <1>10, <1>11, GeneratedLoop DEF Reject
<1>12. ASSUME NEW t \in Kinds, Token(t) PROVE LoopInv'
  BY <1>10, <1>12 DEF Token, LoopTyped, Handed, TurnsInv, ListensBetweenTurns
<1>13. CASE FinalizeUnit
  <2>1. /\ phase = "generated" /\ phase' = "idle" /\ pending' = NotPending
        /\ logits' = logits /\ calls' = calls /\ open' = open
    BY <1>13 DEF FinalizeUnit
  <2> QED BY <2>1 DEF LoopTyped, Phases, Handed, TurnsInv, ListensBetweenTurns
<1>14. CASE UNCHANGED vars
  BY <1>14 DEF vars, LoopTyped, Handed, TurnsInv, ListensBetweenTurns
<1> QED
  BY <1>1, <1>2, <1>3, <1>4, <1>5, <1>6, <1>7, <1>8, <1>9, <1>11, <1>12, <1>13,
     <1>14 DEF Next

LEMMA LoopInductive == Spec => []LoopInv
<1>1. Init => LoopInv
  <2> SUFFICES ASSUME Init PROVE LoopInv
    OBVIOUS
  <2>1. phase = "off" /\ open = FALSE /\ pending = NotPending /\ calls = 0
    BY DEF Init
  <2> QED BY <2>1 DEF LoopInv, LoopTyped, Phases, Handed, TurnsInv, ListensBetweenTurns
<1> QED BY <1>1, LoopKept, PTL DEF Spec

(* The model never goes over to listening in the middle of its turn.       *)
THEOREM TurnsEndBeforeListening == Spec => []ListensBetweenTurns
<1>1. LoopInv => ListensBetweenTurns
  BY DEF LoopInv, TurnsInv
<1> QED BY <1>1, LoopInductive, PTL
-----------------------------------------------------------------------------
(* Whatever holds of 0 and goes from a number to the next holds of all.    *)
LEMMA Climb ==
  ASSUME NEW S, 0 \in S, \A n \in Nat : n \in S => n + 1 \in S
  PROVE  Nat \subseteq S
<1> DEFINE T == Nat \ S
<1> SUFFICES ASSUME T # {} PROVE FALSE
  OBVIOUS
<1>1. PICK x \in T : \A y \in T : ~(<<y, x>> \in OpToRel(<, Nat))
  <2>1. IsWellFoundedOn(OpToRel(<, Nat), Nat) /\ T \subseteq Nat
    BY NatLessThanWellFounded
  <2> HIDE DEF T
  <2> QED BY <2>1, WFMin
<1>2. x \in Nat /\ x # 0 /\ x - 1 \in Nat /\ x - 1 \in T
  OBVIOUS
<1>3. <<x - 1, x>> \in OpToRel(<, Nat)
  BY <1>2 DEF OpToRel
<1> QED BY <1>1, <1>2, <1>3

(* A set of numbers up to n that is not empty has a greatest member. *)
LEMMA Greatest ==
  ASSUME NEW n \in Nat, NEW T \in SUBSET (1..n), T # {}
  PROVE  /\ Max(T) \in T
         /\ \A i \in T : i <= Max(T)
         /\ T \ {Max(T)} \in SUBSET (1..(Max(T) - 1))
<1> DEFINE S == {k \in Nat : \A U \in SUBSET (1..k) : U # {} => \E x \in U : \A y \in U : x >= y}
<1>1. 0 \in S
  <2>1. 1..0 = {}
    OBVIOUS
  <2> QED BY <2>1
<1>2. ASSUME NEW k \in Nat, k \in S PROVE k + 1 \in S
  <2> SUFFICES ASSUME NEW U \in SUBSET (1..(k + 1)), U # {}
               PROVE  \E x \in U : \A y \in U : x >= y
    OBVIOUS
  <2>1. CASE k + 1 \in U
    BY <2>1
  <2>2. CASE k + 1 \notin U
    <3>1. U \in SUBSET (1..k)
      BY <2>2
    <3> QED BY <1>2, <3>1
  <2> QED BY <2>1, <2>2
<1>3. n \in S
  <2> HIDE DEF S
  <2> QED BY <1>1, <1>2, Climb
<1>4. \E x \in T : \A y \in T : x >= y
  BY <1>3
<1>5. Max(T) \in T /\ \A y \in T : Max(T) >= y
  BY <1>4 DEF Max
<1>6. Max(T) \in 1..n
  BY <1>5
<1>7. ASSUME NEW i \in T \ {Max(T)} PROVE i \in 1..(Max(T) - 1)
  BY <1>5, <1>6
<1>8. \A i \in T : i <= Max(T)
  BY <1>5, <1>6
<1> QED BY <1>5, <1>7, <1>8

-----------------------------------------------------------------------------
(* Folds from the left.  FoldLeft is a function over the sets of indices   *)
(* that takes their greatest one last; `next' is its step, as a function.  *)
Goes(g, base, next, h) ==
  \A T \in SUBSET DOMAIN h :
    g[T] = IF T = {} THEN base ELSE next[<<g[T \ {Max(T)}], h[Max(T)]>>]

Folds(g, M, base, next, h) ==
  /\ g[{}] = base
  /\ \A T \in SUBSET DOMAIN h :
       T # {} /\ g[T \ {Max(T)}] \in M => g[T] = next[<<g[T \ {Max(T)}], h[Max(T)]>>]

LEMMA FoldExists ==
  ASSUME NEW M, NEW X, NEW base \in M, NEW next \in [M \X X -> M]
  PROVE  \A h \in Seq(X) : \E g \in [SUBSET DOMAIN h -> M] : Goes(g, base, next, h)
<1> DEFINE P(h) == \E g \in [SUBSET DOMAIN h -> M] : Goes(g, base, next, h)
           S == {n \in Nat : \A h \in Seq(X) : Len(h) = n => P(h)}
<1>1. 0 \in S
  <2> SUFFICES ASSUME NEW h \in Seq(X), Len(h) = 0
               PROVE  \E g \in [SUBSET DOMAIN h -> M] : Goes(g, base, next, h)
    OBVIOUS
  <2>0. DOMAIN h = {}
    OBVIOUS
  <2> DEFINE g == [T \in SUBSET DOMAIN h |-> base]
  <2>1. g \in [SUBSET DOMAIN h -> M] /\ Goes(g, base, next, h)
    BY <2>0 DEF Goes
  <2> QED BY <2>1
<1>2. ASSUME NEW n \in Nat, n \in S PROVE n + 1 \in S
  <2> SUFFICES ASSUME NEW h \in Seq(X), Len(h) = n + 1 PROVE P(h)
    <3> HIDE DEF P
    <3> QED OBVIOUS
  <2> DEFINE a == SubSeq(h, 1, n)
  <2>1. a \in Seq(X) /\ Len(a) = n /\ DOMAIN a = 1..n /\ DOMAIN h = 1..(n + 1)
        /\ h[n + 1] \in X /\ \A i \in 1..n : a[i] = h[i]
    OBVIOUS
  <2>2. PICK f \in [SUBSET DOMAIN a -> M] : Goes(f, base, next, a)
    BY <1>2, <2>1
  <2>f. f \in [SUBSET (1..n) -> M]
    BY <2>1
  <2> HIDE DEF a
  <2> DEFINE g == [T \in SUBSET (1..(n + 1)) |->
                     IF n + 1 \in T THEN next[<<f[T \ {n + 1}], h[n + 1]>>] ELSE f[T]]
  <2>3. ASSUME NEW T \in SUBSET (1..(n + 1))
        PROVE  /\ g[T] \in M
               /\ g[T] = IF T = {} THEN base ELSE next[<<g[T \ {Max(T)}], h[Max(T)]>>]
    <3>1. CASE T = {}
      <4>1. {} \in SUBSET (1..n) /\ f[{}] = base
        BY <2>1, <2>2, Zenon DEF Goes
      <4> QED BY <3>1, <4>1
    <3>2. CASE n + 1 \in T
      <4>0. n + 1 \in Nat /\ T # {}
        BY <3>2
      <4>1. Max(T) \in T /\ \A i \in T : i <= Max(T)
        BY <4>0, Greatest
      <4>a. Max(T) \in 1..(n + 1) /\ n + 1 <= Max(T)
        BY <3>2, <4>1
      <4>2. Max(T) = n + 1
        BY <4>a
      <4>3. T \ {n + 1} \in SUBSET (1..n) /\ n + 1 \notin T \ {n + 1}
        OBVIOUS
      <4>4. g[T \ {n + 1}] = f[T \ {n + 1}]
        BY <4>3
      <4>5. f[T \ {n + 1}] \in M
        BY <2>f, <4>3
      <4>6. next[<<f[T \ {n + 1}], h[n + 1]>>] \in M
        BY <2>1, <4>5
      <4> QED BY <3>2, <4>2, <4>4, <4>6
    <3>3. CASE n + 1 \notin T /\ T # {}
      <4>1. T \in SUBSET (1..n)
        BY <3>3
      <4>2. Max(T) \in T /\ Max(T) \in 1..n /\ T \ {Max(T)} \in SUBSET (1..n)
        BY <3>3, <4>1, Greatest
      <4>3. f[T] = next[<<f[T \ {Max(T)}], a[Max(T)]>>]
        BY <2>1, <2>2, <3>3, <4>1, Zenon DEF Goes
      <4>4. g[T] = f[T] /\ g[T \ {Max(T)}] = f[T \ {Max(T)}]
        BY <3>3, <4>2
      <4>5. f[T] \in M
        BY <2>f, <4>1
      <4> QED BY <2>1, <3>3, <4>2, <4>3, <4>4, <4>5
    <3> QED BY <3>1, <3>2, <3>3
  <2>4. g \in [SUBSET DOMAIN h -> M]
    <3> HIDE DEF S
    <3>1. g = [T \in SUBSET (1..(n + 1)) |-> g[T]]
      OBVIOUS
    <3> HIDE DEF g
    <3>2. \A T \in SUBSET (1..(n + 1)) : g[T] \in M
      BY <2>3
    <3> QED BY <2>1, <3>1, <3>2
  <2>5. Goes(g, base, next, h)
    <3> HIDE DEF g, S
    <3> QED BY <2>1, <2>3 DEF Goes
  <2> QED BY <2>4, <2>5
<1>3. Nat \subseteq S
  <2> HIDE DEF S
  <2> QED BY <1>1, <1>2, Climb
<1>4. ASSUME NEW h \in Seq(X) PROVE P(h)
  <2> HIDE DEF P
  <2>1. Len(h) \in Nat
    OBVIOUS
  <2> QED BY <1>3, <2>1
<1> QED BY <1>4

(* Two folds agree on what their sequences have in common. *)
Agree(f, g, M, next, h, x) ==
  f[1..Len(h)] \in M /\ g[1..(Len(h) + 1)] = next[<<f[1..Len(h)], x>>]

LEMMA FoldAgrees ==
  ASSUME NEW M, NEW X, NEW base \in M, NEW next \in [M \X X -> M],
         NEW h \in Seq(X), NEW x \in X, NEW f, NEW g,
         Folds(f, M, base, next, h), Folds(g, M, base, next, Append(h, x))
  PROVE  Agree(f, g, M, next, h, x)
<1> DEFINE n == Len(h)
           c == Append(h, x)
           S == {k \in Nat : k <= n => \A T \in SUBSET (1..k) : f[T] = g[T] /\ f[T] \in M}
<1>0. /\ n \in Nat /\ DOMAIN h = 1..n /\ DOMAIN c = 1..(n + 1) /\ c[n + 1] = x
      /\ \A i \in 1..n : c[i] = h[i] /\ h[i] \in X
  OBVIOUS
<1> HIDE DEF n, c
<1>1. f[{}] = base /\ g[{}] = base
  BY Zenon DEF Folds
<1>f. ASSUME NEW T \in SUBSET (1..n), T # {}, f[T \ {Max(T)}] \in M
      PROVE  f[T] = next[<<f[T \ {Max(T)}], h[Max(T)]>>]
  BY <1>0, <1>f, Zenon DEF Folds
<1>g. ASSUME NEW T \in SUBSET (1..(n + 1)), T # {}, g[T \ {Max(T)}] \in M
      PROVE  g[T] = next[<<g[T \ {Max(T)}], c[Max(T)]>>]
  BY <1>0, <1>g, Zenon DEF Folds, c
<1>2. 0 \in S
  <2>1. 1..0 = {}
    OBVIOUS
  <2> QED BY <1>1, <2>1
<1>3. ASSUME NEW k \in Nat, k \in S PROVE k + 1 \in S
  <2>0. k + 1 \in Nat
    OBVIOUS
  <2> SUFFICES ASSUME k + 1 <= n, NEW T \in SUBSET (1..(k + 1)) PROVE f[T] = g[T] /\ f[T] \in M
    BY <2>0
  <2>1. CASE T = {}
    BY <1>1, <2>1
  <2>2. CASE T # {}
    <3>1. Max(T) \in T /\ T \ {Max(T)} \in SUBSET (1..(Max(T) - 1))
      BY <2>0, <2>2, Greatest
    <3>2. Max(T) \in 1..(k + 1) /\ T \ {Max(T)} \in SUBSET (1..k) /\ Max(T) \in 1..n
      <4>1. Max(T) \in 1..(k + 1)
        BY <3>1
      <4>2. Max(T) \in 1..n /\ 1..(Max(T) - 1) \subseteq 1..k
        BY <1>0, <4>1
      <4> QED BY <3>1, <4>1, <4>2
    <3>3. f[T \ {Max(T)}] = g[T \ {Max(T)}] /\ f[T \ {Max(T)}] \in M
      BY <1>0, <1>3, <3>2
    <3>4. T \in SUBSET (1..n) /\ T \in SUBSET (1..(n + 1))
      BY <1>0
    <3>5. c[Max(T)] = h[Max(T)] /\ h[Max(T)] \in X
      BY <1>0, <3>2
    <3>6. f[T] = next[<<f[T \ {Max(T)}], h[Max(T)]>>]
      BY <1>f, <2>2, <3>3, <3>4
    <3>7. g[T] = next[<<g[T \ {Max(T)}], c[Max(T)]>>]
      BY <1>g, <2>2, <3>3, <3>4
    <3>8. next[<<f[T \ {Max(T)}], h[Max(T)]>>] \in M
      BY <3>3, <3>5
    <3> QED BY <3>3, <3>5, <3>6, <3>7, <3>8
  <2> QED BY <2>1, <2>2
<1>4. n \in S
  <2> HIDE DEF S
  <2> QED BY <1>0, <1>2, <1>3, Climb
<1>5. f[1..n] = g[1..n] /\ f[1..n] \in M
  BY <1>0, <1>4
<1>6. Max(1..(n + 1)) = n + 1 /\ (1..(n + 1)) \ {n + 1} = 1..n /\ 1..(n + 1) # {}
  <2>1. n + 1 \in Nat /\ n + 1 \in 1..(n + 1)
    BY <1>0
  <2>a. 1..(n + 1) # {}
    BY <2>1
  <2>2. Max(1..(n + 1)) \in 1..(n + 1) /\ \A i \in 1..(n + 1) : i <= Max(1..(n + 1))
    BY <2>1, <2>a, Greatest
  <2>3. Max(1..(n + 1)) = n + 1
    BY <1>0, <2>1, <2>2
  <2>4. (1..(n + 1)) \ {n + 1} = 1..n
    BY <1>0
  <2> QED BY <2>a, <2>3, <2>4
<1>7. g[1..(n + 1)] = next[<<g[1..n], x>>]
  <2> DEFINE T == 1..(n + 1)
  <2>1. T \in SUBSET (1..(n + 1)) /\ T # {} /\ Max(T) = n + 1 /\ T \ {Max(T)} = 1..n
    BY <1>6
  <2> HIDE DEF T
  <2>2. g[T \ {Max(T)}] \in M
    BY <1>5, <2>1, Zenon
  <2>3. g[T] = next[<<g[T \ {Max(T)}], c[Max(T)]>>]
    BY <1>g, <2>1, <2>2, Zenon
  <2>4. g[T] = next[<<g[1..n], x>>]
    BY <1>0, <2>1, <2>3, Zenon
  <2> QED BY <2>4 DEF T
<1>8. g[1..(n + 1)] = next[<<f[1..n], x>>]
  BY <1>5, <1>7, Zenon
<1> QED BY <1>5, <1>8, Zenon DEF n, Agree

(* Hence a fold, taken as a function V of its sequence, goes from one      *)
(* element to the next.                                                    *)
FoldOf(V, M, X, base, next) ==
  \A h \in Seq(X) : \A g \in [SUBSET DOMAIN h -> M] :
    Goes(g, base, next, h) => \E f : Folds(f, M, base, next, h) /\ V[h] = f[DOMAIN h]

Steps(V, M, X, base, next) ==
  /\ V[<<>>] = base
  /\ \A h \in Seq(X), x \in X : V[h] \in M /\ V[Append(h, x)] = next[<<V[h], x>>]

LEMMA FoldSteps ==
  ASSUME NEW M, NEW X, NEW base \in M, NEW next \in [M \X X -> M], NEW V,
         FoldOf(V, M, X, base, next)
  PROVE  Steps(V, M, X, base, next)
<1>1. ASSUME NEW h \in Seq(X)
      PROVE  \E f : Folds(f, M, base, next, h) /\ V[h] = f[DOMAIN h]
  <2>1. PICK g \in [SUBSET DOMAIN h -> M] : Goes(g, base, next, h)
    BY FoldExists
  <2> QED BY <2>1, Zenon DEF FoldOf
<1>2. V[<<>>] = base
  <2>1. <<>> \in Seq(X) /\ DOMAIN <<>> = {}
    OBVIOUS
  <2>2. PICK g : Folds(g, M, base, next, <<>>) /\ V[<<>>] = g[DOMAIN <<>>]
    BY <1>1, <2>1
  <2>3. g[{}] = base
    BY <2>2, Zenon DEF Folds
  <2> QED BY <2>1, <2>2, <2>3
<1>3. ASSUME NEW h \in Seq(X), NEW x \in X
      PROVE  V[h] \in M /\ V[Append(h, x)] = next[<<V[h], x>>]
  <2>1. /\ Append(h, x) \in Seq(X) /\ DOMAIN h = 1..Len(h)
        /\ DOMAIN Append(h, x) = 1..(Len(h) + 1)
    OBVIOUS
  <2>2. PICK f : Folds(f, M, base, next, h) /\ V[h] = f[DOMAIN h]
    BY <1>1
  <2>3. PICK g : Folds(g, M, base, next, Append(h, x)) /\ V[Append(h, x)] = g[DOMAIN Append(h, x)]
    BY <1>1, <2>1
  <2>4. Agree(f, g, M, next, h, x)
    <3>1. Folds(f, M, base, next, h) /\ Folds(g, M, base, next, Append(h, x))
      BY <2>2, <2>3
    <3> QED BY <3>1, FoldAgrees, Zenon
  <2> QED BY <2>1, <2>2, <2>3, <2>4 DEF Agree
<1> QED BY <1>2, <1>3 DEF Steps

(* The greatest of some indices is an index, and so are the others. *)
LEMMA Top ==
  ASSUME NEW X, NEW h \in Seq(X), NEW T \in SUBSET DOMAIN h, T # {}
  PROVE  Max(T) \in DOMAIN h /\ h[Max(T)] \in X /\ T \ {Max(T)} \in SUBSET DOMAIN h
<1>1. Len(h) \in Nat /\ DOMAIN h = 1..Len(h)
  OBVIOUS
<1>2. Max(T) \in T
  BY <1>1, Greatest
<1> QED BY <1>1, <1>2

(* What holds of the empty sequence and goes on with every element holds   *)
(* of all sequences.                                                       *)
LEMMA SeqClimb ==
  ASSUME NEW X, NEW S, <<>> \in S, \A h \in Seq(X), x \in X : h \in S => Append(h, x) \in S
  PROVE  Seq(X) \subseteq S
<1> DEFINE N == {n \in Nat : \A h \in Seq(X) : Len(h) = n => h \in S}
<1>1. 0 \in N
  <2>1. \A h \in Seq(X) : Len(h) = 0 => h = <<>>
    OBVIOUS
  <2> QED BY <2>1
<1>2. ASSUME NEW n \in Nat, n \in N PROVE n + 1 \in N
  <2> SUFFICES ASSUME NEW h \in Seq(X), Len(h) = n + 1 PROVE h \in S
    OBVIOUS
  <2>1. /\ SubSeq(h, 1, n) \in Seq(X) /\ h[n + 1] \in X /\ Len(SubSeq(h, 1, n)) = n
        /\ h = Append(SubSeq(h, 1, n), h[n + 1])
    OBVIOUS
  <2>2. SubSeq(h, 1, n) \in S
    BY <1>2, <2>1
  <2>3. Append(SubSeq(h, 1, n), h[n + 1]) \in S
    BY <2>1, <2>2
  <2> QED BY <2>1, <2>3
<1>3. Nat \subseteq N
  <2> HIDE DEF N
  <2> QED BY <1>1, <1>2, Climb
<1>4. ASSUME NEW h \in Seq(X) PROVE h \in S
  <2>1. Len(h) \in Nat
    OBVIOUS
  <2> QED BY <1>3, <2>1
<1> QED BY <1>4
(* Appending to a concatenation. *)
LEMMA AppendJoins ==
  ASSUME NEW X, NEW e \in X
  PROVE  \A s, t \in Seq(X) : Append(s \o t, e) = s \o Append(t, e)
<1> SUFFICES ASSUME NEW s \in Seq(X), NEW t \in Seq(X)
             PROVE  Append(s \o t, e) = s \o Append(t, e)
  OBVIOUS
<1> DEFINE p == Append(s \o t, e)
           q == s \o Append(t, e)
<1>1. /\ p \in Seq(X) /\ q \in Seq(X) /\ Len(p) = Len(q)
      /\ \A i \in 1..Len(q) : p[i] = q[i]
  OBVIOUS
<1> HIDE DEF p, q
<1>2. p = q
  <2>1. \A x \in Seq(X) : x = [i \in 1..Len(x) |-> x[i]]
    OBVIOUS
  <2>2. [i \in 1..Len(p) |-> p[i]] = [i \in 1..Len(q) |-> q[i]]
    BY <1>1
  <2>3. p = [i \in 1..Len(p) |-> p[i]] /\ q = [i \in 1..Len(q) |-> q[i]]
    BY <1>1, <2>1
  <2> QED BY <2>2, <2>3
<1> QED BY <1>2 DEF p, q
-----------------------------------------------------------------------------
(* Parts of a concatenation. *)
LEMMA FrontOf ==
  ASSUME NEW X, NEW a \in Seq(X), NEW b \in Seq(X)
  PROVE  SubSeq(a \o b, 1, Len(a)) = a
<1> DEFINE c == a \o b
           p == SubSeq(c, 1, Len(a))
<1>1. c \in Seq(X) /\ Len(c) = Len(a) + Len(b) /\ Len(a) \in Nat /\ Len(b) \in Nat
      /\ \A i \in 1..Len(a) : c[i] = a[i]
  OBVIOUS
<1> HIDE DEF c
<1>2. p \in Seq(X) /\ Len(p) = Len(a) /\ \A i \in 1..Len(a) : p[i] = c[i]
  BY <1>1
<1> HIDE DEF p
<1>3. p = a
  BY <1>1, <1>2, SeqEqual
<1> QED BY <1>3 DEF p, c

LEMMA BackOf ==
  ASSUME NEW X, NEW a \in Seq(X), NEW b \in Seq(X)
  PROVE  /\ Latest(a \o b, Len(b)) = b
         /\ SubSeq(a \o b, Len(a) + 1, Len(a \o b)) = b
<1> DEFINE c == a \o b
           p == SubSeq(c, Len(a) + 1, Len(c))
<1>1. c \in Seq(X) /\ Len(c) = Len(a) + Len(b) /\ Len(a) \in Nat /\ Len(b) \in Nat
      /\ \A i \in 1..Len(b) : c[Len(a) + i] = b[i]
  OBVIOUS
<1> HIDE DEF c
<1>2. p \in Seq(X) /\ Len(p) = Len(b) /\ \A i \in 1..Len(b) : p[i] = c[Len(a) + i]
  BY <1>1
<1> HIDE DEF p
<1>3. p = b
  BY <1>1, <1>2, SeqEqual
<1>4. (Len(c) - Len(b)) + 1 = Len(a) + 1
  BY <1>1
<1> QED BY <1>3, <1>4 DEF p, c, Latest

(* A sequence taken apart at n. *)
LEMMA Parted ==
  ASSUME NEW X, NEW s \in Seq(X), NEW n \in 0..Len(s)
  PROVE  /\ SubSeq(s, 1, n) \in Seq(X) /\ SubSeq(s, n + 1, Len(s)) \in Seq(X)
         /\ Len(SubSeq(s, 1, n)) = n
         /\ s = SubSeq(s, 1, n) \o SubSeq(s, n + 1, Len(s))
<1> DEFINE a == SubSeq(s, 1, n)
           b == SubSeq(s, n + 1, Len(s))
<1>0. Len(s) \in Nat /\ n \in Nat /\ n <= Len(s)
  OBVIOUS
<1>1. a \in Seq(X) /\ Len(a) = n /\ \A i \in 1..n : a[i] = s[i]
  BY <1>0
<1>2. b \in Seq(X) /\ Len(b) = Len(s) - n /\ \A i \in 1..(Len(s) - n) : b[i] = s[n + i]
  BY <1>0
<1> HIDE DEF a, b
<1>3. a \o b \in Seq(X) /\ Len(a \o b) = Len(s)
      /\ \A i \in 1..Len(s) : (a \o b)[i] = IF i <= n THEN a[i] ELSE b[i - n]
  <2>1. \A i \in 1..(Len(a) + Len(b)) : (a \o b)[i] = IF i <= Len(a) THEN a[i] ELSE b[i - Len(a)]
    BY <1>1, <1>2, ConcatProperties
  <2>2. a \o b \in Seq(X) /\ Len(a \o b) = Len(a) + Len(b)
    BY <1>1, <1>2, ConcatProperties
  <2>3. Len(a) + Len(b) = Len(s)
    BY <1>0, <1>1, <1>2
  <2> QED BY <1>1, <2>1, <2>2, <2>3
<1>4. ASSUME NEW i \in 1..Len(s) PROVE (a \o b)[i] = s[i]
  <2>1. CASE i <= n
    <3>1. i \in 1..n
      BY <1>0, <2>1
    <3> QED BY <1>1, <1>3, <2>1, <3>1
  <2>2. CASE ~(i <= n)
    <3>1. i - n \in 1..(Len(s) - n) /\ n + (i - n) = i
      BY <1>0, <2>2
    <3> QED BY <1>2, <1>3, <2>2, <3>1
  <2> QED BY <2>1, <2>2
<1>5. s = a \o b
  BY <1>3, <1>4, SeqEqual
<1> QED BY <1>1, <1>2, <1>5 DEF a, b

(* Three sequences, joined. *)
Three(p, q, r, X) ==
  /\ p \o q \in Seq(X) /\ q \o r \in Seq(X) /\ (p \o q) \o r \in Seq(X)
  /\ (p \o q) \o r = p \o (q \o r)
  /\ Len((p \o q) \o r) = Len(p \o q) + Len(r)
  /\ Len(p \o q) = Len(p) + Len(q)

LEMMA JoinThree == \A X : \A p, q, r \in Seq(X) : Three(p, q, r, X)
<1> SUFFICES ASSUME NEW X, NEW p \in Seq(X), NEW q \in Seq(X), NEW r \in Seq(X)
             PROVE  Three(p, q, r, X)
  OBVIOUS
<1>1. p \o q \in Seq(X) /\ q \o r \in Seq(X) /\ Len(p \o q) = Len(p) + Len(q)
  BY ConcatProperties
<1>2. (p \o q) \o r \in Seq(X) /\ Len((p \o q) \o r) = Len(p \o q) + Len(r)
  BY <1>1, ConcatProperties
<1>3. (p \o q) \o r = p \o (q \o r)
  <2>1. \A a, b, c \in Seq(X) : (a \o b) \o c = a \o (b \o c)
    BY ConcatAssociative, SMTT(30)
  <2> QED BY <2>1, Zenon
<1> QED BY <1>1, <1>2, <1>3 DEF Three

(* The ends of a sequence. *)
Ends(s, t, X) == \E p \in Seq(X) : t = p \o s

LEMMA EndsIsSuffix ==
  ASSUME NEW X, NEW s \in Seq(X), NEW t \in Seq(X), Ends(s, t, X)
  PROVE  IsSuffix(s, t)
<1>1. PICK p \in Seq(X) : t = p \o s
  BY DEF Ends
<1>2. /\ Len(t) = Len(p) + Len(s) /\ Len(p) \in Nat /\ Len(s) \in Nat
      /\ \A i \in 1..Len(s) : t[Len(p) + i] = s[i]
  BY <1>1
<1> DEFINE a == Reverse(s)
           b == Reverse(t)
<1>3. a \in Seq(X) /\ Len(a) = Len(s) /\ \A i \in 1..Len(s) : a[i] = s[(Len(s) - i) + 1]
  BY <1>2 DEF Reverse
<1>4. b \in Seq(X) /\ Len(b) = Len(t) /\ \A i \in 1..Len(t) : b[i] = t[(Len(t) - i) + 1]
  BY <1>2 DEF Reverse
<1> HIDE DEF a, b
<1>5. ASSUME NEW i \in 1..Len(s) PROVE a[i] = b[i]
  <2>1. (Len(s) - i) + 1 \in 1..Len(s) /\ Len(p) + ((Len(s) - i) + 1) = (Len(t) - i) + 1 /\ i \in 1..Len(t)
    BY <1>2
  <2> QED BY <1>2, <1>3, <1>4, <2>1
<1>6. SubSeq(a, 1, Len(a)) = SubSeq(b, 1, Len(a)) /\ Len(a) <= Len(b)
  <2>1. Len(a) <= Len(b) /\ Len(a) \in Nat /\ Len(b) \in Nat
    BY <1>2, <1>3, <1>4
  <2>2. /\ SubSeq(a, 1, Len(a)) \in Seq(X) /\ Len(SubSeq(a, 1, Len(a))) = Len(a)
        /\ \A i \in 1..Len(a) : SubSeq(a, 1, Len(a))[i] = a[i]
    BY <1>3, <2>1
  <2>3. /\ SubSeq(b, 1, Len(a)) \in Seq(X) /\ Len(SubSeq(b, 1, Len(a))) = Len(a)
        /\ \A i \in 1..Len(a) : SubSeq(b, 1, Len(a))[i] = b[i]
    BY <1>4, <2>1
  <2>4. \A i \in 1..Len(a) : SubSeq(a, 1, Len(a))[i] = SubSeq(b, 1, Len(a))[i]
    BY <1>3, <1>5, <2>2, <2>3
  <2> QED BY <2>1, <2>2, <2>3, <2>4, SeqEqual
<1> QED BY <1>6 DEF IsSuffix, IsPrefix, a, b
-----------------------------------------------------------------------------
(* FlattenSeq joins its sequences from the first on. *)
Joins(f, s) == f = [i \in 1..Len(s) |-> IF i = 1 THEN s[i] ELSE f[i - 1] \o s[i]]

LEMMA JoinExists ==
  ASSUME NEW X
  PROVE  \A s \in Seq(Seq(X)) : \E f : Joins(f, s)
<1> DEFINE S == {s \in Seq(Seq(X)) : \E f : Joins(f, s)}
<1>1. <<>> \in S
  <2>1. <<>> \in Seq(Seq(X)) /\ 1..Len(<<>>) = {}
    OBVIOUS
  <2>2. Joins([i \in {} |-> i], <<>>)
    BY <2>1 DEF Joins
  <2> QED BY <2>1, <2>2
<1>2. ASSUME NEW s \in Seq(Seq(X)), NEW x \in Seq(X), s \in S PROVE Append(s, x) \in S
  <2> DEFINE c == Append(s, x)
             n == Len(s)
  <2>1. /\ c \in Seq(Seq(X)) /\ Len(c) = n + 1 /\ n \in Nat /\ c[n + 1] = x
        /\ \A i \in 1..n : c[i] = s[i]
    OBVIOUS
  <2>2. PICK f : Joins(f, s)
    BY <1>2
  <2> HIDE DEF c, n
  <2> DEFINE g == [i \in 1..(n + 1) |-> IF i = n + 1 THEN (IF n = 0 THEN x ELSE f[n] \o x) ELSE f[i]]
  <2>3. \A i \in 1..n : f[i] = IF i = 1 THEN s[i] ELSE f[i - 1] \o s[i]
    BY <2>2, Zenon DEF Joins, n
  <2>4. \A i \in 1..n : g[i] = f[i]
    BY <2>1
  <2>5. ASSUME NEW i \in 1..(n + 1) PROVE g[i] = IF i = 1 THEN c[i] ELSE g[i - 1] \o c[i]
    <3>1. CASE i = n + 1
      <4>1. CASE n = 0
        BY <2>1, <3>1, <4>1
      <4>2. CASE n # 0
        <5>1. i # 1 /\ i - 1 = n /\ n \in 1..n
          BY <2>1, <3>1, <4>2
        <5> QED BY <2>1, <2>4, <3>1, <4>2, <5>1
      <4> QED BY <4>1, <4>2
    <3>2. CASE i # n + 1
      <4>1. i \in 1..n /\ (i # 1 => i - 1 \in 1..n)
        BY <2>1, <3>2
      <4>2. g[i] = f[i] /\ c[i] = s[i] /\ (i # 1 => g[i - 1] = f[i - 1])
        BY <2>1, <2>4, <4>1
      <4> HIDE DEF g
      <4> QED BY <2>3, <4>1, <4>2
    <3> QED BY <3>1, <3>2
  <2>6. g = [i \in 1..(n + 1) |-> g[i]]
    OBVIOUS
  <2> HIDE DEF g
  <2>7. g = [i \in 1..(n + 1) |-> IF i = 1 THEN c[i] ELSE g[i - 1] \o c[i]]
    BY <2>5, <2>6
  <2>8. Joins(g, c)
    BY <2>1, <2>7 DEF Joins
  <2> QED BY <2>1, <2>8 DEF c
<1>3. Seq(Seq(X)) \subseteq S
  <2> HIDE DEF S
  <2> QED BY <1>1, <1>2, SeqClimb
<1> QED BY <1>3

LEMMA JoinedSo ==
  ASSUME NEW X, NEW s \in Seq(Seq(X))
  PROVE  \E f : Joins(f, s) /\ (s # <<>> => FlattenSeq(s) = f[Len(s)])
<1>1. PICK g : Joins(g, s)
  BY JoinExists
<1>2. CASE s = <<>>
  BY <1>1, <1>2
<1>3. CASE s # <<>>
  <2>1. Len(s) # 0
    BY <1>3
  <2> QED BY <1>1, <2>1 DEF FlattenSeq, Joins
<1> QED BY <1>2, <1>3

LEMMA FlattenSteps ==
  ASSUME NEW X
  PROVE  /\ FlattenSeq(<<>>) = <<>>
         /\ \A s \in Seq(Seq(X)), x \in Seq(X) :
              /\ FlattenSeq(s) \in Seq(X)
              /\ FlattenSeq(Append(s, x)) = FlattenSeq(s) \o x
<1>1. FlattenSeq(<<>>) = <<>>
  BY DEF FlattenSeq
<1> DEFINE S == {s \in Seq(Seq(X)) : FlattenSeq(s) \in Seq(X)}
<1>2. ASSUME NEW s \in Seq(Seq(X)), NEW x \in Seq(X)
      PROVE  FlattenSeq(Append(s, x)) = IF s = <<>> THEN x ELSE FlattenSeq(s) \o x
  <2> DEFINE c == Append(s, x)
             n == Len(s)
  <2>1. /\ c \in Seq(Seq(X)) /\ Len(c) = n + 1 /\ n \in Nat /\ c[n + 1] = x /\ c # <<>>
        /\ (s = <<>> <=> n = 0)
        /\ \A i \in 1..n : c[i] = s[i]
    OBVIOUS
  <2>2. PICK f : Joins(f, s) /\ (s # <<>> => FlattenSeq(s) = f[n])
    BY JoinedSo
  <2> HIDE DEF c
  <2>3. PICK g : Joins(g, c) /\ (c # <<>> => FlattenSeq(c) = g[Len(c)])
    BY <2>1, JoinedSo
  <2>4. FlattenSeq(c) = g[n + 1]
    BY <2>1, <2>3
  <2>5. \A i \in 1..n : f[i] = IF i = 1 THEN s[i] ELSE f[i - 1] \o s[i]
    BY <2>2, Zenon DEF Joins
  <2> HIDE DEF n
  <2>6. \A i \in 1..(n + 1) : g[i] = IF i = 1 THEN c[i] ELSE g[i - 1] \o c[i]
    BY <2>1, <2>3, Zenon DEF Joins
  <2> DEFINE K == {k \in Nat : k \in 1..n => g[k] = f[k]}
  <2>7. 0 \in K
    OBVIOUS
  <2>8. ASSUME NEW k \in Nat, k \in K PROVE k + 1 \in K
    <3> SUFFICES ASSUME k + 1 \in 1..n PROVE g[k + 1] = f[k + 1]
      OBVIOUS
    <3>1. k + 1 \in 1..(n + 1) /\ c[k + 1] = s[k + 1] /\ (k + 1) - 1 = k
      BY <2>1
    <3>2. k + 1 # 1 => k \in 1..n /\ g[k] = f[k]
      BY <2>1, <2>8
    <3> QED BY <2>5, <2>6, <3>1, <3>2
  <2>9. n \in K
    <3> HIDE DEF K
    <3> QED BY <2>1, <2>7, <2>8, Climb
  <2>10. CASE s = <<>>
    <3>1. n = 0
      BY <2>1, <2>10
    <3>2. g[1] = c[1]
      BY <2>6, <3>1
    <3> QED BY <2>1, <2>4, <2>10, <3>1, <3>2 DEF c
  <2>11. CASE s # <<>>
    <3>1. n \in 1..n /\ n + 1 \in 1..(n + 1) /\ n + 1 # 1 /\ (n + 1) - 1 = n
      BY <2>1, <2>11
    <3>2. g[n + 1] = g[n] \o x /\ g[n] = f[n]
      BY <2>1, <2>6, <2>9, <3>1
    <3> QED BY <2>2, <2>4, <2>11, <3>2 DEF c
  <2> QED BY <2>10, <2>11
<1>3. <<>> \in S
  <2>1. <<>> \in Seq(Seq(X)) /\ <<>> \in Seq(X)
    OBVIOUS
  <2> QED BY <1>1, <2>1
<1>4. ASSUME NEW s \in Seq(Seq(X)), NEW x \in Seq(X), s \in S PROVE Append(s, x) \in S
  <2>1. Append(s, x) \in Seq(Seq(X)) /\ FlattenSeq(s) \o x \in Seq(X)
    <3>1. FlattenSeq(s) \in Seq(X)
      BY <1>4
    <3> HIDE DEF S
    <3> QED BY <3>1, ConcatProperties
  <2> QED BY <1>2, <2>1
<1>5. Seq(Seq(X)) \subseteq S
  <2> HIDE DEF S
  <2> QED BY <1>3, <1>4, SeqClimb
<1>6. ASSUME NEW s \in Seq(Seq(X)), NEW x \in Seq(X)
      PROVE  FlattenSeq(s) \in Seq(X) /\ FlattenSeq(Append(s, x)) = FlattenSeq(s) \o x
  <2>1. FlattenSeq(s) \in Seq(X)
    BY <1>5
  <2>2. <<>> \o x = x
    BY ConcatEmptySeq
  <2> QED BY <1>1, <1>2, <2>1, <2>2
<1> QED BY <1>1, <1>6
(* What the elements of a sequence stand for, joined. *)
Flat(F, u) == FlattenSeq([i \in DOMAIN u |-> F[u[i]]])

FlatGoes(F, U, X) ==
  /\ Flat(F, <<>>) = <<>>
  /\ \A u \in Seq(U), e \in U :
       Flat(F, u) \in Seq(X) /\ Flat(F, Append(u, e)) = Flat(F, u) \o F[e]

LEMMA FlatSteps ==
  ASSUME NEW U, NEW X, NEW F \in [U -> Seq(X)]
  PROVE  FlatGoes(F, U, X)
<1> DEFINE M(u) == [i \in DOMAIN u |-> F[u[i]]]
<1>1. Flat(F, <<>>) = <<>>
  <2>1. [i \in DOMAIN <<>> |-> F[<<>>[i]]] = <<>>
    OBVIOUS
  <2> QED BY <2>1, FlattenSteps DEF Flat
<1>2. ASSUME NEW u \in Seq(U), NEW e \in U
      PROVE  Flat(F, u) \in Seq(X) /\ Flat(F, Append(u, e)) = Flat(F, u) \o F[e]
  <2> DEFINE c == Append(u, e)
             s == M(u)
             t == M(c)
  <2>1. /\ c \in Seq(U) /\ Len(c) = Len(u) + 1 /\ Len(u) \in Nat /\ c[Len(u) + 1] = e
        /\ DOMAIN c = 1..(Len(u) + 1) /\ DOMAIN u = 1..Len(u)
        /\ (\A i \in 1..Len(u) : c[i] = u[i]) /\ \A i \in 1..Len(u) : u[i] \in U
    OBVIOUS
  <2> HIDE DEF c
  <2>2. s \in Seq(Seq(X)) /\ Len(s) = Len(u) /\ \A i \in 1..Len(u) : s[i] = F[u[i]]
    BY <2>1
  <2>3. t \in Seq(Seq(X)) /\ Len(t) = Len(u) + 1 /\ \A i \in 1..(Len(u) + 1) : t[i] = F[c[i]]
    <3>1. \A i \in 1..(Len(u) + 1) : c[i] \in U
      BY <2>1
    <3> QED BY <2>1, <3>1
  <2> HIDE DEF s, t
  <2>4. F[e] \in Seq(X)
    OBVIOUS
  <2>5. /\ Append(s, F[e]) \in Seq(Seq(X)) /\ Len(Append(s, F[e])) = Len(u) + 1
        /\ \A i \in 1..Len(u) : Append(s, F[e])[i] = s[i]
        /\ Append(s, F[e])[Len(u) + 1] = F[e]
    BY <2>2, <2>4, AppendProperties
  <2>6. \A i \in 1..Len(t) : t[i] = Append(s, F[e])[i]
    BY <2>1, <2>2, <2>3, <2>5
  <2>7. t = Append(s, F[e])
    BY <2>3, <2>5, <2>6, SeqEqual
  <2>8. Flat(F, u) = FlattenSeq(s) /\ Flat(F, c) = FlattenSeq(t)
    BY DEF Flat, s, t
  <2>9. FlattenSeq(s) \in Seq(X) /\ FlattenSeq(Append(s, F[e])) = FlattenSeq(s) \o F[e]
    BY <2>2, <2>4, FlattenSteps
  <2> QED BY <2>7, <2>8, <2>9 DEF c
<1> QED BY <1>1, <1>2 DEF FlatGoes

FlatFacts(F, U, X) ==
  /\ Flat(F, <<>>) = <<>>
  /\ \A u \in Seq(U) : Flat(F, u) \in Seq(X)
  /\ \A a, b \in Seq(U) : Flat(F, a \o b) = Flat(F, a) \o Flat(F, b)
  /\ \A e \in U : Flat(F, <<e>>) = F[e]

LEMMA FlatJoins ==
  ASSUME NEW U, NEW X, NEW F \in [U -> Seq(X)]
  PROVE  FlatFacts(F, U, X)
<1>. FlatGoes(F, U, X)
  BY FlatSteps, Zenon
<1>3. Flat(F, <<>>) = <<>>
  BY DEF FlatGoes
<1>0. ASSUME NEW u \in Seq(U) PROVE Flat(F, u) \in Seq(X)
  <2>1. CASE u = <<>>
    <3>1. <<>> \in Seq(X)
      OBVIOUS
    <3> QED BY <1>3, <2>1, <3>1
  <2>2. CASE u # <<>>
    <3>1. u[1] \in U
      BY <2>2
    <3> QED BY <3>1 DEF FlatGoes
  <2> QED BY <2>1, <2>2
<1>1. ASSUME NEW a \in Seq(U) PROVE \A b \in Seq(U) : Flat(F, a \o b) = Flat(F, a) \o Flat(F, b)
  <2> DEFINE S == {b \in Seq(U) : Flat(F, a \o b) = Flat(F, a) \o Flat(F, b)}
  <2>1. <<>> \in S
    <3>1. a \o <<>> = a /\ <<>> \in Seq(U)
      OBVIOUS
    <3>2. Flat(F, a) \o <<>> = Flat(F, a)
      BY <1>0, ConcatEmptySeq
    <3> QED BY <1>3, <3>1, <3>2
  <2>2. ASSUME NEW b \in Seq(U), NEW e \in U, b \in S PROVE Append(b, e) \in S
    <3>1. Append(b, e) \in Seq(U) /\ a \o Append(b, e) = Append(a \o b, e) /\ a \o b \in Seq(U)
      BY AppendJoins, SMTT(30)
    <3>2. /\ Flat(F, Append(a \o b, e)) = Flat(F, a \o b) \o F[e]
          /\ Flat(F, Append(b, e)) = Flat(F, b) \o F[e]
      BY <3>1 DEF FlatGoes
    <3>3. Flat(F, a) \in Seq(X) /\ Flat(F, b) \in Seq(X) /\ F[e] \in Seq(X)
      BY <1>0
    <3>4. (Flat(F, a) \o Flat(F, b)) \o F[e] = Flat(F, a) \o (Flat(F, b) \o F[e])
      <4>1. Three(Flat(F, a), Flat(F, b), F[e], X)
        BY <3>3, JoinThree
      <4> QED BY <4>1, Zenon DEF Three
    <3>5. Flat(F, a \o b) = Flat(F, a) \o Flat(F, b)
      BY <2>2
    <3> QED BY <3>1, <3>2, <3>4, <3>5
  <2>3. Seq(U) \subseteq S
    <3> HIDE DEF S
    <3> QED BY <2>1, <2>2, SeqClimb
  <2> QED BY <2>3
<1>2. ASSUME NEW e \in U PROVE Flat(F, <<e>>) = F[e]
  <2>1. Append(<<>>, e) = <<e>> /\ <<>> \in Seq(U)
    OBVIOUS
  <2>2. Flat(F, Append(<<>>, e)) = Flat(F, <<>>) \o F[e] /\ Flat(F, <<>>) = <<>>
    BY <2>1 DEF FlatGoes
  <2>3. <<>> \o F[e] = F[e]
    BY ConcatEmptySeq
  <2> QED BY <2>1, <2>2, <2>3
<1> QED BY <1>0, <1>1, <1>2, <1>3 DEF FlatFacts
-----------------------------------------------------------------------------
(* The units of the history, what they take in the cache and what they     *)
(* said.                                                                   *)
TokenSet == {"prefix", "suffix", "marker", "said", "sticky", "unit"} \X Nat
UnitSet == [no : Nat, len : Nat, listen : BOOLEAN, words : Seq(Nat)]
BlockOf == [u \in UnitSet |-> Tokens("unit", u.no, u.len)]
SpeechOf == [u \in UnitSet |-> Extract(u)]
Blocks(units) == Flat(BlockOf, units)
Words(units) == Flat(SpeechOf, units)

LEMMA TokensAre ==
  ASSUME NEW kind \in {"unit", "sticky"}, NEW n \in Nat, NEW len \in Nat
  PROVE  Tokens(kind, n, len) \in Seq(TokenSet) /\ Len(Tokens(kind, n, len)) = len
<1>1. <<kind, n>> \in TokenSet
  BY DEF TokenSet
<1>2. Tokens(kind, n, len) \in [1..len -> TokenSet]
  BY <1>1 DEF Tokens
<1> QED BY <1>2

LEMMA TokensJoin ==
  ASSUME NEW n \in Nat, NEW k \in Nat, NEW m \in Nat
  PROVE  Tokens("unit", n, k) \o Tokens("unit", n, m) = Tokens("unit", n, k + m)
<1> DEFINE a == Tokens("unit", n, k)
           b == Tokens("unit", n, m)
           c == Tokens("unit", n, k + m)
<1>1. a \in Seq(TokenSet) /\ Len(a) = k /\ b \in Seq(TokenSet) /\ Len(b) = m
      /\ c \in Seq(TokenSet) /\ Len(c) = k + m
  BY TokensAre
<1>2. /\ \A i \in 1..k : a[i] = <<"unit", n>>
      /\ \A i \in 1..m : b[i] = <<"unit", n>>
      /\ \A i \in 1..(k + m) : c[i] = <<"unit", n>>
  BY DEF Tokens
<1> HIDE DEF a, b, c
<1>3. /\ a \o b \in Seq(TokenSet) /\ Len(a \o b) = k + m
      /\ \A i \in 1..(k + m) : (a \o b)[i] = IF i <= k THEN a[i] ELSE b[i - k]
  BY <1>1, ConcatProperties
<1>4. ASSUME NEW i \in 1..(k + m) PROVE (a \o b)[i] = c[i]
  <2>1. i <= k => i \in 1..k
    OBVIOUS
  <2>2. ~(i <= k) => i - k \in 1..m
    OBVIOUS
  <2> QED BY <1>2, <1>3, <2>1, <2>2
<1>5. a \o b = c
  BY <1>1, <1>3, <1>4, SeqEqual
<1> QED BY <1>5 DEF a, b, c

LEMMA UnitFacts == FlatFacts(BlockOf, UnitSet, TokenSet) /\ FlatFacts(SpeechOf, UnitSet, Nat)
<1>1. BlockOf \in [UnitSet -> Seq(TokenSet)]
  <2>1. ASSUME NEW u \in UnitSet PROVE Tokens("unit", u.no, u.len) \in Seq(TokenSet)
    BY TokensAre DEF UnitSet
  <2> QED BY <2>1 DEF BlockOf
<1>2. SpeechOf \in [UnitSet -> Seq(Nat)]
  BY DEF SpeechOf, Extract, UnitSet
<1> QED BY <1>1, <1>2, FlatJoins

(* The length of the history, unit by unit. *)
LEMMA TotalSteps ==
  /\ TotalLen(<<>>) = 0
  /\ \A h \in Seq(UnitSet), u \in UnitSet :
       TotalLen(h) \in Nat /\ TotalLen(Append(h, u)) = TotalLen(h) + u.len
<1> DEFINE next == [p \in Nat \X UnitSet |-> p[1] + p[2].len]
           V == [h \in Seq(UnitSet) |-> TotalLen(h)]
<1>1. next \in [Nat \X UnitSet -> Nat] /\ \A n \in Nat, u \in UnitSet : next[<<n, u>>] = n + u.len
  BY DEF UnitSet
<1>2. FoldOf(V, Nat, UnitSet, 0, next)
  <2> SUFFICES ASSUME NEW h \in Seq(UnitSet), NEW g \in [SUBSET DOMAIN h -> Nat], Goes(g, 0, next, h)
               PROVE  \E f : Folds(f, Nat, 0, next, h) /\ V[h] = f[DOMAIN h]
    BY DEF FoldOf
  <2> HIDE DEF next
  <2> DEFINE R(f) == f = [T \in SUBSET DOMAIN h |->
                            IF T = {} THEN 0 ELSE f[T \ {Max(T)}] + h[Max(T)].len]
  <2>1. \A T \in SUBSET DOMAIN h : T # {} =>
          Max(T) \in DOMAIN h /\ h[Max(T)] \in UnitSet /\ T \ {Max(T)} \in SUBSET DOMAIN h
    BY Top
  <2>2. R(g)
    <3>1. ASSUME NEW T \in SUBSET DOMAIN h
          PROVE  g[T] = IF T = {} THEN 0 ELSE g[T \ {Max(T)}] + h[Max(T)].len
      BY <1>1, <2>1 DEF Goes
    <3> QED BY <3>1
  <2>3. \E f : R(f) /\ TotalLen(h) = f[DOMAIN h]
    BY <2>2 DEF TotalLen, FoldLeft, MapThenFoldSet
  <2>4. ASSUME NEW f, R(f) PROVE Folds(f, Nat, 0, next, h)
    <3>1. f[{}] = 0
      BY <2>4
    <3>2. ASSUME NEW T \in SUBSET DOMAIN h, T # {}, f[T \ {Max(T)}] \in Nat
          PROVE  f[T] = next[<<f[T \ {Max(T)}], h[Max(T)]>>]
      <4>1. f[T] = f[T \ {Max(T)}] + h[Max(T)].len
        BY <2>4, <3>2
      <4>2. h[Max(T)] \in UnitSet
        BY <2>1, <3>2
      <4> QED BY <1>1, <3>2, <4>1, <4>2
    <3> QED BY <3>1, <3>2, Zenon DEF Folds
  <2> QED BY <2>3, <2>4
<1>3. Steps(V, Nat, UnitSet, 0, next)
  <2> HIDE DEF next, V
  <2> QED BY <1>1, <1>2, FoldSteps, Zenon
<1> HIDE DEF next
<1>4. <<>> \in Seq(UnitSet) /\ \A h \in Seq(UnitSet), u \in UnitSet : Append(h, u) \in Seq(UnitSet)
  OBVIOUS
<1>5. TotalLen(<<>>) = 0
  BY <1>3, <1>4 DEF Steps
<1>6. ASSUME NEW h \in Seq(UnitSet), NEW u \in UnitSet
      PROVE  TotalLen(h) \in Nat /\ TotalLen(Append(h, u)) = TotalLen(h) + u.len
  <2>1. V[h] = TotalLen(h) /\ V[Append(h, u)] = TotalLen(Append(h, u))
    BY <1>4
  <2> HIDE DEF V
  <2>2. V[h] \in Nat /\ V[Append(h, u)] = next[<<V[h], u>>]
    BY <1>3 DEF Steps
  <2> QED BY <1>1, <2>1, <2>2
<1> QED BY <1>5, <1>6

(* The blocks of the units are as long as the units say they are. *)
LEMMA BlocksLong == \A u \in Seq(UnitSet) : Len(Blocks(u)) = TotalLen(u)
<1> DEFINE S == {u \in Seq(UnitSet) : Len(Blocks(u)) = TotalLen(u)}
<1>1. <<>> \in S
  <2>1. Blocks(<<>>) = <<>>
    BY UnitFacts DEF FlatFacts, Blocks
  <2> QED BY <2>1, TotalSteps
<1>2. ASSUME NEW h \in Seq(UnitSet), NEW u \in UnitSet, h \in S PROVE Append(h, u) \in S
  <2>1. Append(h, u) = h \o <<u>> /\ <<u>> \in Seq(UnitSet) /\ Append(h, u) \in Seq(UnitSet)
    OBVIOUS
  <2>2. Blocks(Append(h, u)) = Blocks(h) \o BlockOf[u]
    BY <2>1, UnitFacts DEF FlatFacts, Blocks
  <2>3. BlockOf[u] \in Seq(TokenSet) /\ Len(BlockOf[u]) = u.len /\ u.len \in Nat
    BY TokensAre DEF BlockOf, UnitSet
  <2>4. Blocks(h) \in Seq(TokenSet)
    BY UnitFacts DEF FlatFacts, Blocks
  <2>5. Len(Blocks(h) \o BlockOf[u]) = Len(Blocks(h)) + Len(BlockOf[u])
    BY <2>3, <2>4, ConcatProperties
  <2>6. TotalLen(Append(h, u)) = TotalLen(h) + u.len
    BY TotalSteps
  <2> QED BY <1>2, <2>1, <2>2, <2>3, <2>5, <2>6
<1>3. Seq(UnitSet) \subseteq S
  <2> HIDE DEF S
  <2> QED BY <1>1, <1>2, SeqClimb
<1> QED BY <1>3

(* What a history comes to, taken as a whole. *)
History(a, b) ==
  /\ a \o b \in Seq(UnitSet)
  /\ Blocks(a) \in Seq(TokenSet) /\ Blocks(b) \in Seq(TokenSet)
  /\ Blocks(a \o b) = Blocks(a) \o Blocks(b)
  /\ Len(Blocks(a)) = TotalLen(a) /\ Len(Blocks(b)) = TotalLen(b)
  /\ TotalLen(a) \in Nat /\ TotalLen(b) \in Nat
  /\ TotalLen(a \o b) = TotalLen(a) + TotalLen(b)
  /\ Words(a) \in Seq(Nat) /\ Words(b) \in Seq(Nat)
  /\ Words(a \o b) = Words(a) \o Words(b)

LEMMA Histories == \A a, b \in Seq(UnitSet) : History(a, b)
<1> SUFFICES ASSUME NEW a \in Seq(UnitSet), NEW b \in Seq(UnitSet) PROVE History(a, b)
  OBVIOUS
<1>1. a \o b \in Seq(UnitSet)
  OBVIOUS
<1>2. /\ Blocks(a) \in Seq(TokenSet) /\ Blocks(b) \in Seq(TokenSet)
      /\ Blocks(a \o b) = Blocks(a) \o Blocks(b)
      /\ Words(a) \in Seq(Nat) /\ Words(b) \in Seq(Nat)
      /\ Words(a \o b) = Words(a) \o Words(b)
  BY UnitFacts DEF FlatFacts, Blocks, Words
<1>3. /\ Len(Blocks(a)) = TotalLen(a) /\ Len(Blocks(b)) = TotalLen(b)
      /\ Len(Blocks(a \o b)) = TotalLen(a \o b)
  BY <1>1, BlocksLong
<1>4. TotalLen(a) \in Nat /\ TotalLen(b) \in Nat
  BY <1>2, <1>3
<1>5. Len(Blocks(a) \o Blocks(b)) = Len(Blocks(a)) + Len(Blocks(b))
  BY <1>2, ConcatProperties
<1> QED BY <1>1, <1>2, <1>3, <1>4, <1>5 DEF History
-----------------------------------------------------------------------------
(* What a decoder is: its prompt has the length that is preserved, and the *)
(* region of the prompt that is rebuilt the length that is noted.          *)
Decs == [cache : Seq(TokenSet), units : Seq(UnitSet), start : Nat, prefix : Nat,
         preserve : Nat, said : Seq(Nat), prevLen : Nat, sticky : Seq(TokenSet)]
Region(d) == Previous(d) \o d.sticky
System(d) == Prefix \o Previous(d) \o d.sticky \o Suffix

DecOK(d, m) ==
  /\ d \in Decs
  /\ d.prefix = IF m = "context" THEN PrefixLen ELSE 0
  /\ m # "context" => d.said = <<>> /\ d.sticky = <<>>
  /\ d.prevLen = Len(Region(d))
  /\ d.preserve = Len(System(d))

(* The prompt and the units fit the cache, or are the cache; and the same  *)
(* with n tokens of a unit t that is under way.                            *)
Fit(d) == d.preserve + TotalLen(d.units) <= Len(d.cache)
Laid(d) == d.cache = System(d) \o Blocks(d.units)
FitBegun(d) == d.preserve + TotalLen(d.units) <= d.start /\ d.start <= Len(d.cache)
LaidBegun(d, t, n) ==
  /\ d.cache = (System(d) \o Blocks(d.units)) \o Tokens("unit", t, n)
  /\ d.start = Len(System(d) \o Blocks(d.units))

PromptFacts(d) ==
  /\ Prefix \in Seq(TokenSet) /\ Len(Prefix) = PrefixLen
  /\ Suffix \in Seq(TokenSet) /\ Len(Suffix) = SuffixLen
  /\ Region(d) \in Seq(TokenSet) /\ Len(Region(d)) \in Nat
  /\ System(d) \in Seq(TokenSet)
  /\ System(d) = (Prefix \o Region(d)) \o Suffix
  /\ System(d) = Prefix \o (Region(d) \o Suffix)
  /\ Len(System(d)) = PrefixLen + Len(Region(d)) + SuffixLen

LEMMA Prompts ==
  ASSUME NEW d, d.said \in Seq(Nat), d.sticky \in Seq(TokenSet)
  PROVE  PromptFacts(d)
<1>0. PrefixLen \in Nat /\ SuffixLen \in Nat
  BY DecoderAssumption
<1>1. Prefix \in Seq(TokenSet) /\ Len(Prefix) = PrefixLen
  <2>1. \A i \in 1..PrefixLen : <<"prefix", i>> \in TokenSet
    BY <1>0 DEF TokenSet
  <2>2. Prefix \in [1..PrefixLen -> TokenSet]
    BY <2>1 DEF Prefix
  <2> QED BY <1>0, <2>2
<1>2. Suffix \in Seq(TokenSet) /\ Len(Suffix) = SuffixLen
  <2>1. \A i \in 1..SuffixLen : <<"suffix", i>> \in TokenSet
    BY <1>0 DEF TokenSet
  <2>2. Suffix \in [1..SuffixLen -> TokenSet]
    BY <2>1 DEF Suffix
  <2> QED BY <1>0, <2>2
<1>3. Previous(d) \in Seq(TokenSet)
  <2>1. <<>> \in Seq(TokenSet)
    OBVIOUS
  <2>2. Marker \in Seq(TokenSet)
    <3>1. <<"marker", 0>> \in TokenSet
      BY DEF TokenSet
    <3> QED BY <3>1 DEF Marker
  <2> DEFINE q == [i \in DOMAIN d.said |-> <<"said", d.said[i]>>]
  <2>3. q \in Seq(TokenSet)
    <3>1. DOMAIN d.said = 1..Len(d.said) /\ Len(d.said) \in Nat
      OBVIOUS
    <3>2. \A i \in 1..Len(d.said) : <<"said", d.said[i]>> \in TokenSet
      BY DEF TokenSet
    <3>3. q \in [1..Len(d.said) -> TokenSet]
      BY <3>1, <3>2
    <3> QED BY <3>1, <3>3
  <2> HIDE DEF q
  <2>4. Previous(d) = IF d.said = <<>> THEN <<>> ELSE Marker \o q
    BY DEF Previous, q
  <2>5. Marker \o q \in Seq(TokenSet)
    BY <2>2, <2>3, ConcatProperties
  <2> QED BY <2>1, <2>4, <2>5
<1>4. Region(d) \in Seq(TokenSet) /\ Len(Region(d)) \in Nat
  BY <1>3, ConcatProperties DEF Region
<1>5. (Prefix \o Previous(d)) \o d.sticky = Prefix \o Region(d)
  <2>1. (Prefix \o Previous(d)) \o d.sticky = Prefix \o (Previous(d) \o d.sticky)
    <3>1. Three(Prefix, Previous(d), d.sticky, TokenSet)
      BY <1>1, <1>3, JoinThree
    <3> QED BY <3>1, Zenon DEF Three
  <2> QED BY <2>1 DEF Region
<1>6. System(d) = (Prefix \o Region(d)) \o Suffix
  BY <1>5 DEF System
<1>7. Prefix \o Region(d) \in Seq(TokenSet) /\ Len(Prefix \o Region(d)) = PrefixLen + Len(Region(d))
  BY <1>1, <1>4, ConcatProperties
<1>8. System(d) \in Seq(TokenSet) /\ Len(System(d)) = PrefixLen + Len(Region(d)) + SuffixLen
  BY <1>2, <1>6, <1>7, ConcatProperties
<1>9. System(d) = Prefix \o (Region(d) \o Suffix)
  <2>1. Three(Prefix, Region(d), Suffix, TokenSet)
    BY <1>1, <1>2, <1>4, JoinThree
  <2> QED BY <1>6, <2>1, Zenon DEF Three
<1> QED BY <1>1, <1>2, <1>4, <1>6, <1>8, <1>9 DEF PromptFacts

(* The prompt is a matter of what was said and of the sticky text. *)
LEMMA SamePrompt ==
  ASSUME NEW d, NEW e, d.said = e.said, d.sticky = e.sticky
  PROVE  Region(d) = Region(e) /\ System(d) = System(e)
BY DEF Region, System, Previous

(* The last tokens of a sequence. *)
LEMMA LatestOf ==
  ASSUME NEW X, NEW s \in Seq(X), NEW n \in 0..Len(s)
  PROVE  /\ Latest(s, n) \in Seq(X) /\ Len(Latest(s, n)) = n
         /\ Ends(Latest(s, n), s, X)
<1>1. Len(s) \in Nat /\ n \in Nat /\ n <= Len(s) /\ Len(s) - n \in 0..Len(s)
  OBVIOUS
<1> DEFINE a == SubSeq(s, 1, Len(s) - n)
           b == SubSeq(s, (Len(s) - n) + 1, Len(s))
<1>2. a \in Seq(X) /\ b \in Seq(X) /\ Len(a) = Len(s) - n /\ s = a \o b
  BY <1>1, Parted
<1>3. Latest(s, n) = b
  BY DEF Latest
<1> HIDE DEF a, b
<1>4. Len(b) \in Nat /\ Len(s) = Len(a) + Len(b)
  <2>1. Len(a \o b) = Len(a) + Len(b) /\ Len(b) \in Nat
    <3>1. \A p, q \in Seq(X) : Len(p \o q) = Len(p) + Len(q) /\ Len(q) \in Nat
      OBVIOUS
    <3> QED BY <1>2, <3>1, Zenon
  <2> QED BY <1>2, <2>1
<1>5. Len(b) = n
  BY <1>1, <1>2, <1>4
<1>6. Ends(b, s, X)
  BY <1>2 DEF Ends
<1> QED BY <1>2, <1>3, <1>5, <1>6

(* The cut of n tokens behind a part of the cache. *)
CutFacts(p, a, b) ==
  SubSeq(p \o (a \o b), 1, Len(p))
    \o SubSeq(p \o (a \o b), Len(p) + Len(a) + 1, Len(p \o (a \o b))) = p \o b

LEMMA CutOut ==
  ASSUME NEW X, NEW p \in Seq(X), NEW a \in Seq(X), NEW b \in Seq(X)
  PROVE  CutFacts(p, a, b)
<1>1. a \o b \in Seq(X) /\ p \o a \in Seq(X) /\ Len(p \o a) = Len(p) + Len(a)
      /\ Len(p) \in Nat /\ Len(a) \in Nat
  BY ConcatProperties
<1>2. p \o (a \o b) = (p \o a) \o b
  <2>1. Three(p, a, b, X)
    BY JoinThree
  <2> QED BY <2>1, Zenon DEF Three
<1>3. SubSeq(p \o (a \o b), 1, Len(p)) = p
  BY <1>1, FrontOf
<1>4. SubSeq((p \o a) \o b, Len(p \o a) + 1, Len((p \o a) \o b)) = b
  BY <1>1, BackOf
<1> QED BY <1>1, <1>2, <1>3, <1>4 DEF CutFacts
-----------------------------------------------------------------------------
(* What the window may do to a decoder: it stays one, fits if it fitted,   *)
(* is laid out if it was, and its history loses nothing but its oldest     *)
(* units.                                                                  *)
Slides(d, e, m) ==
  /\ DecOK(e, m) /\ Fit(e)
  /\ Laid(d) => Laid(e)
  /\ \E a \in Seq(UnitSet) : d.units = a \o e.units

LEMMA Rebuilt ==
  ASSUME NEW d, NEW c, NEW a \in Seq(UnitSet), DecOK(d, "context"), Fit(d),
         c \in Decs, c.cache = d.cache, c.prefix = d.prefix, c.prevLen = d.prevLen,
         c.preserve = d.preserve, d.units = a \o c.units
  PROVE  Slides(d, Rebuild(c), "context")
<1> DEFINE e == Rebuild(c)
           n == TotalLen(c.units)
           region == Region(c)
           kept == Latest(c.cache, n)
           front == SubSeq(c.cache, 1, c.prefix + SuffixLen)
           prompt == SubSeq(c.cache, 1, c.prefix)
<1>0. PrefixLen \in Nat /\ SuffixLen \in Nat
  BY DecoderAssumption
<1>1. /\ d \in Decs /\ d.prefix = PrefixLen /\ d.prevLen = Len(Region(d))
      /\ d.preserve = Len(System(d))
  BY DEF DecOK
<1>2. PromptFacts(d) /\ PromptFacts(c)
  BY <1>1, Prompts DEF Decs
<1>3. c.units \in Seq(UnitSet) /\ c.cache \in Seq(TokenSet) /\ Len(c.cache) \in Nat
  BY DEF Decs
<1>4. History(a, c.units)
  BY <1>3, Histories
<1>5. /\ n \in Nat /\ TotalLen(d.units) = TotalLen(a) + n /\ TotalLen(a) \in Nat
      /\ Blocks(d.units) = Blocks(a) \o Blocks(c.units)
      /\ Blocks(a) \in Seq(TokenSet) /\ Blocks(c.units) \in Seq(TokenSet)
      /\ Len(Blocks(c.units)) = n
  BY <1>4 DEF History
<1>6. /\ Len(System(d)) = PrefixLen + Len(Region(d)) + SuffixLen /\ Len(Region(d)) \in Nat
      /\ Len(region) \in Nat
  BY <1>2 DEF PromptFacts
<1>7. Len(System(d)) + TotalLen(d.units) <= Len(c.cache)
  BY <1>1 DEF Fit
<1> HIDE DEF n, region
<1>8. n \in 0..Len(c.cache) /\ c.prefix = PrefixLen /\ c.prefix + SuffixLen \in 0..Len(c.cache)
      /\ c.prefix \in 0..Len(c.cache)
  <2>1. \A p, r, s, t, m, l \in Nat :
          p + r + s + (t + m) <= l => m \in 0..l /\ p + s \in 0..l /\ p \in 0..l
    OBVIOUS
  <2>2. PrefixLen + Len(Region(d)) + SuffixLen + (TotalLen(a) + n) <= Len(c.cache)
    BY <1>5, <1>6, <1>7, Zenon
  <2>3. c.prefix = PrefixLen
    BY <1>1
  <2> QED BY <1>0, <1>3, <1>5, <1>6, <2>1, <2>2, <2>3, Zenon
<1>9. kept \in Seq(TokenSet) /\ Len(kept) = n
  BY <1>3, <1>8, LatestOf
<1>10. /\ front \in Seq(TokenSet) /\ Len(front) = PrefixLen + SuffixLen
       /\ prompt \in Seq(TokenSet) /\ Len(prompt) = PrefixLen
  BY <1>3, <1>8, Parted
<1>11. ASSUME Laid(d)
       PROVE  /\ kept = Blocks(c.units)
              /\ prompt = Prefix
              /\ Region(d) = <<>> => front = System(d)
  <2> DEFINE sys == System(d)
             old == Blocks(a)
             new == Blocks(c.units)
  <2>0. sys \in Seq(TokenSet) /\ Prefix \in Seq(TokenSet) /\ Len(Prefix) = PrefixLen
        /\ Suffix \in Seq(TokenSet) /\ Region(d) \in Seq(TokenSet)
        /\ sys = Prefix \o (Region(d) \o Suffix)
    BY <1>2 DEF PromptFacts
  <2>1. c.cache = sys \o (old \o new)
    BY <1>5, <1>11 DEF Laid
  <2> HIDE DEF sys, old, new
  <2>2. old \in Seq(TokenSet) /\ new \in Seq(TokenSet) /\ Len(new) = n
    BY <1>5 DEF old, new
  <2>3. /\ old \o new \in Seq(TokenSet) /\ sys \o old \in Seq(TokenSet)
        /\ Region(d) \o Suffix \in Seq(TokenSet)
        /\ (Region(d) \o Suffix) \o (old \o new) \in Seq(TokenSet)
    BY <2>0, <2>2, ConcatProperties
  <2>4. c.cache = (sys \o old) \o new
    <3>1. Three(sys, old, new, TokenSet)
      BY <2>0, <2>2, JoinThree
    <3> QED BY <2>1, <3>1 DEF Three
  <2>5. kept = new
    <3> DEFINE p == sys \o old
    <3>1. p \in Seq(TokenSet) /\ c.cache = p \o new
      BY <2>3, <2>4
    <3> HIDE DEF p
    <3>2. Latest(p \o new, Len(new)) = new
      BY <2>2, <3>1, BackOf
    <3> QED BY <2>2, <3>1, <3>2, Zenon
  <2>6. c.cache = Prefix \o ((Region(d) \o Suffix) \o (old \o new))
    <3> DEFINE r == Region(d) \o Suffix
    <3>1. Three(Prefix, r, old \o new, TokenSet)
      BY <2>0, <2>3, JoinThree
    <3>2. c.cache = (Prefix \o r) \o (old \o new)
      BY <2>0, <2>1
    <3> QED BY <3>1, <3>2 DEF Three
  <2>7. prompt = Prefix
    BY <1>8, <2>0, <2>3, <2>6, FrontOf
  <2>8. ASSUME Region(d) = <<>> PROVE front = sys
    <3>1. Len(sys) = PrefixLen + SuffixLen
      <4>1. Len(Region(d)) = 0
        BY <2>8
      <4> QED BY <1>0, <1>6, <4>1 DEF sys
    <3>2. SubSeq(sys \o (old \o new), 1, Len(sys)) = sys
      BY <2>0, <2>3, FrontOf
    <3>3. c.prefix + SuffixLen = Len(sys)
      BY <1>8, <3>1, Zenon
    <3> QED BY <2>1, <3>2, <3>3, Zenon
  <2> QED BY <2>5, <2>7, <2>8 DEF new, sys
<1> DEFINE E1 == [c EXCEPT !.cache = front \o kept]
           E2 == [c EXCEPT !.cache = ((prompt \o region) \o Suffix) \o kept,
                           !.prevLen = Len(region),
                           !.preserve = c.prefix + Len(region) + SuffixLen]
<1>12. e = IF region = <<>> /\ c.prevLen = 0 THEN E1 ELSE E2
  BY DEF Rebuild, region, n, Region
<1> HIDE DEF front, kept, prompt, e
<1>13. ASSUME region = <<>> /\ c.prevLen = 0 PROVE Slides(d, e, "context")
  <2>1. e = E1
    BY <1>12, <1>13
  <2>2. front \o kept \in Seq(TokenSet) /\ Len(front \o kept) = PrefixLen + SuffixLen + n
    BY <1>9, <1>10, ConcatProperties
  <2>3. /\ e \in Decs /\ e.said = c.said /\ e.sticky = c.sticky /\ e.units = c.units
        /\ e.prefix = c.prefix /\ e.prevLen = c.prevLen /\ e.preserve = c.preserve
        /\ e.cache = front \o kept
    BY <2>1, <2>2 DEF Decs
  <2>4. Region(e) = region /\ System(e) = System(c)
    BY <2>3, SamePrompt DEF region
  <2>5. Region(d) = <<>> /\ Len(region) = 0
    <3>1. Len(Region(d)) = 0 /\ Region(d) \in Seq(TokenSet)
      BY <1>1, <1>2, <1>13 DEF PromptFacts
    <3>2. Region(d) = <<>>
      BY <3>1
    <3> QED BY <1>13, <3>2
  <2>6. System(c) = System(d)
    <3>1. System(c) = (Prefix \o region) \o Suffix /\ System(d) = (Prefix \o Region(d)) \o Suffix
      BY <1>2 DEF PromptFacts, region
    <3> QED BY <1>13, <2>5, <3>1
  <2>7. DecOK(e, "context")
    BY <1>1, <1>8, <1>13, <2>3, <2>4, <2>5, <2>6 DEF DecOK
  <2>8. Fit(e)
    <3>1. e.preserve = PrefixLen + SuffixLen
      BY <1>0, <1>1, <1>6, <2>3, <2>5
    <3> QED BY <1>0, <1>5, <2>2, <2>3, <3>1 DEF Fit, n
  <2>9. Laid(d) => Laid(e)
    BY <1>11, <2>3, <2>4, <2>5, <2>6 DEF Laid
  <2> QED BY <2>3, <2>7, <2>8, <2>9 DEF Slides
<1>14. ASSUME ~(region = <<>> /\ c.prevLen = 0) PROVE Slides(d, e, "context")
  <2>1. e = E2
    BY <1>12, <1>14, Zenon
  <2>0. region \in Seq(TokenSet) /\ Suffix \in Seq(TokenSet) /\ Len(Suffix) = SuffixLen
    BY <1>2 DEF PromptFacts, region
  <2> DEFINE sys == (prompt \o region) \o Suffix
  <2>2. sys \in Seq(TokenSet) /\ Len(sys) = PrefixLen + Len(region) + SuffixLen
    <3>1. prompt \o region \in Seq(TokenSet) /\ Len(prompt \o region) = PrefixLen + Len(region)
      BY <1>10, <2>0, ConcatProperties
    <3> QED BY <2>0, <3>1, ConcatProperties
  <2> HIDE DEF sys
  <2>3. sys \o kept \in Seq(TokenSet) /\ Len(sys \o kept) = PrefixLen + Len(region) + SuffixLen + n
    BY <1>9, <2>2, ConcatProperties
  <2>4. c.prefix + Len(region) + SuffixLen = PrefixLen + Len(region) + SuffixLen
        /\ PrefixLen + Len(region) + SuffixLen \in Nat
    BY <1>0, <1>6, <1>8
  <2>5. /\ e \in Decs /\ e.said = c.said /\ e.sticky = c.sticky /\ e.units = c.units
        /\ e.prefix = c.prefix /\ e.prevLen = Len(region)
        /\ e.preserve = PrefixLen + Len(region) + SuffixLen
        /\ e.cache = sys \o kept
    BY <1>6, <2>1, <2>3, <2>4 DEF Decs, sys
  <2>6. Region(e) = region /\ System(e) = System(c)
    BY <2>5, SamePrompt DEF region
  <2>7. System(c) = (Prefix \o region) \o Suffix
        /\ Len(System(c)) = PrefixLen + Len(region) + SuffixLen
    BY <1>2 DEF PromptFacts, region
  <2>8. DecOK(e, "context")
    BY <1>8, <2>5, <2>6, <2>7 DEF DecOK
  <2>9. Fit(e)
    BY <1>0, <1>5, <1>6, <2>3, <2>5 DEF Fit, n
  <2>10. Laid(d) => Laid(e)
    BY <1>11, <2>5, <2>6, <2>7 DEF Laid, sys
  <2> QED BY <2>5, <2>8, <2>9, <2>10 DEF Slides
<1> QED BY <1>13, <1>14 DEF e

(* A set of numbers has a least member. *)
LEMMA Least ==
  ASSUME NEW T \in SUBSET Nat, T # {}
  PROVE  \E x \in T : \A y \in T : x <= y
<1>1. PICK x \in T : \A y \in T : ~(<<y, x>> \in OpToRel(<, Nat))
  BY NatLessThanWellFounded, WFMin
<1>2. \A y \in T : ~(y < x)
  BY <1>1 DEF OpToRel
<1> QED BY <1>2

(* The cut of the basic window is found: some number of the oldest units.  *)
LEMMA CutExists ==
  ASSUME NEW d \in Decs
  PROVE  \E i \in 0..Len(d.units) :
           /\ Len(d.cache) - TotalLen(SubSeq(d.units, 1, i)) <= Low \/ i = Len(d.units)
           /\ \A h \in 0..(i - 1) : Len(d.cache) - TotalLen(SubSeq(d.units, 1, h)) > Low
<1> DEFINE n == Len(d.units)
           rest(k) == Len(d.cache) - TotalLen(SubSeq(d.units, 1, k))
           T == {i \in 0..n : rest(i) <= Low \/ i = n}
<1>1. n \in Nat /\ d.units \in Seq(UnitSet) /\ Len(d.cache) \in Nat /\ Low \in Nat
  BY DecoderAssumption DEF Decs
<1>2. \A i \in 0..n : rest(i) \in Int
  <2> SUFFICES ASSUME NEW i \in 0..n PROVE rest(i) \in Int
    OBVIOUS
  <2>1. SubSeq(d.units, 1, i) \in Seq(UnitSet)
    BY <1>1
  <2>2. TotalLen(SubSeq(d.units, 1, i)) \in Nat
    <3> DEFINE s == SubSeq(d.units, 1, i)
    <3> HIDE DEF s
    <3>1. s \in Seq(UnitSet)
      BY <2>1 DEF s
    <3>2. History(s, s)
      BY <3>1, Histories
    <3> QED BY <3>2 DEF History, s
  <2> QED BY <1>1, <2>2
<1> HIDE DEF rest
<1>3. PICK x \in T : \A y \in T : x <= y
  <2>1. n \in T /\ T \in SUBSET Nat
    BY <1>1
  <2> QED BY <2>1, Least
<1>4. ASSUME NEW h \in 0..(x - 1) PROVE rest(h) > Low
  <2>1. h \in 0..n /\ ~(x <= h) /\ h # n
    BY <1>1, <1>3
  <2>2. ~(rest(h) <= Low)
    BY <1>3, <2>1
  <2> QED BY <1>1, <1>2, <2>1, <2>2
<1>5. x \in 0..n /\ (rest(x) <= Low \/ x = n)
  BY <1>3
<1> QED BY <1>4, <1>5 DEF rest

LEMMA BasicSlides ==
  ASSUME NEW d, NEW m, DecOK(d, m), Fit(d)
  PROVE  Slides(d, EnforceBasic(d), m)
<1>0. d \in Decs /\ d.preserve = Len(System(d)) /\ d.units \in Seq(UnitSet)
      /\ d.cache \in Seq(TokenSet) /\ Len(d.cache) \in Nat /\ d.preserve \in Nat
      /\ Len(d.units) \in Nat
  BY DEF DecOK, Decs
<1>1. CASE Len(d.cache) <= High
  <2>1. EnforceBasic(d) = d
    BY <1>1 DEF EnforceBasic
  <2>2. <<>> \in Seq(UnitSet) /\ d.units = <<>> \o d.units
    BY <1>0, ConcatEmptySeq
  <2> QED BY <2>1, <2>2 DEF Slides
<1>2. CASE ~(Len(d.cache) <= High)
  <2> DEFINE P(i) == /\ Len(d.cache) - TotalLen(SubSeq(d.units, 1, i)) <= Low \/ i = Len(d.units)
                     /\ \A h \in 0..(i - 1) : Len(d.cache) - TotalLen(SubSeq(d.units, 1, h)) > Low
             k == CHOOSE i \in 0..Len(d.units) : P(i)
             a == SubSeq(d.units, 1, k)
             b == SubSeq(d.units, k + 1, Len(d.units))
             cut == TotalLen(a)
             front == SubSeq(d.cache, 1, d.preserve)
             back == SubSeq(d.cache, d.preserve + cut + 1, Len(d.cache))
             e == [d EXCEPT !.cache = front \o back, !.units = b]
  <2>1. EnforceBasic(d) = e
    BY <1>2 DEF EnforceBasic
  <2>2. k \in 0..Len(d.units)
    <3>1. \E i \in 0..Len(d.units) : P(i)
      BY <1>0, CutExists
    <3> HIDE DEF P
    <3> QED BY <3>1
  <2> HIDE DEF k
  <2>3. a \in Seq(UnitSet) /\ b \in Seq(UnitSet) /\ d.units = a \o b
    <3>1. \A i \in 0..Len(d.units) :
            /\ SubSeq(d.units, 1, i) \in Seq(UnitSet)
            /\ SubSeq(d.units, i + 1, Len(d.units)) \in Seq(UnitSet)
            /\ d.units = SubSeq(d.units, 1, i) \o SubSeq(d.units, i + 1, Len(d.units))
      <4> DEFINE u == d.units
      <4>1. u \in Seq(UnitSet)
        BY <1>0
      <4> HIDE DEF u
      <4>2. \A i \in 0..Len(u) :
              /\ SubSeq(u, 1, i) \in Seq(UnitSet) /\ SubSeq(u, i + 1, Len(u)) \in Seq(UnitSet)
              /\ u = SubSeq(u, 1, i) \o SubSeq(u, i + 1, Len(u))
        BY <4>1, Parted
      <4> QED BY <4>2, Zenon DEF u
    <3> QED BY <2>2, <3>1, Zenon
  <2> HIDE DEF a, b
  <2>4. History(a, b)
    BY <2>3, Histories
  <2>5. /\ Blocks(d.units) = Blocks(a) \o Blocks(b)
        /\ Blocks(a) \in Seq(TokenSet) /\ Blocks(b) \in Seq(TokenSet)
        /\ Len(Blocks(a)) = cut /\ cut \in Nat /\ TotalLen(b) \in Nat
        /\ TotalLen(d.units) = cut + TotalLen(b)
    BY <2>3, <2>4 DEF History
  <2>6. d.preserve + (cut + TotalLen(b)) <= Len(d.cache)
    BY <2>5 DEF Fit
  <2> HIDE DEF cut
  <2>7. d.preserve \in 0..Len(d.cache) /\ d.preserve + cut \in 0..Len(d.cache)
    BY <1>0, <2>5, <2>6
  <2>8. front \in Seq(TokenSet) /\ Len(front) = d.preserve
    BY <1>0, <2>7, Parted
  <2>9. back \in Seq(TokenSet) /\ Len(back) = Len(d.cache) - (d.preserve + cut)
    BY <1>0, <2>7, SMTT(30)
  <2>10. front \o back \in Seq(TokenSet) /\ Len(front \o back) = Len(d.cache) - cut
    <3>1. front \o back \in Seq(TokenSet) /\ Len(front \o back) = Len(front) + Len(back)
      <4>1. Three(front, back, back, TokenSet)
        BY <2>8, <2>9, JoinThree
      <4> QED BY <4>1 DEF Three
    <3>2. \A p, c, l \in Nat : p + (l - (p + c)) = l - c
      OBVIOUS
    <3>3. d.preserve + (Len(d.cache) - (d.preserve + cut)) = Len(d.cache) - cut
      BY <1>0, <2>5, <3>2, Zenon
    <3> QED BY <2>8, <2>9, <3>1, <3>3, Zenon
  <2>11. ASSUME Laid(d) PROVE front \o back = System(d) \o Blocks(b)
    <3>1. d.cache = System(d) \o (Blocks(a) \o Blocks(b))
      BY <2>5, <2>11 DEF Laid
    <3>2. System(d) \in Seq(TokenSet)
      BY <1>0, Prompts DEF PromptFacts, Decs
    <3> DEFINE p == System(d)
               q == Blocks(a)
               r == Blocks(b)
    <3>3. p \in Seq(TokenSet) /\ q \in Seq(TokenSet) /\ r \in Seq(TokenSet)
      BY <2>5, <3>2
    <3>4. d.cache = p \o (q \o r) /\ d.preserve = Len(p) /\ cut = Len(q)
      BY <1>0, <2>5, <3>1
    <3> HIDE DEF p, q, r
    <3>5. CutFacts(p, q, r)
      BY <3>3, CutOut
    <3>6. front \o back = p \o r
      BY <3>4, <3>5, Zenon DEF CutFacts
    <3> QED BY <3>6 DEF p, r
  <2> HIDE DEF front, back
  <2>12. /\ e \in Decs /\ e.said = d.said /\ e.sticky = d.sticky /\ e.units = b
         /\ e.prefix = d.prefix /\ e.prevLen = d.prevLen /\ e.preserve = d.preserve
         /\ e.cache = front \o back
    BY <1>0, <2>3, <2>10 DEF Decs
  <2> HIDE DEF e
  <2>13. Region(e) = Region(d) /\ System(e) = System(d)
    BY <2>12, SamePrompt
  <2>14. DecOK(e, m)
    BY <2>12, <2>13 DEF DecOK
  <2>15. Fit(e)
    BY <1>0, <2>5, <2>6, <2>10, <2>12 DEF Fit
  <2>16. Laid(d) => Laid(e)
    BY <2>11, <2>12, <2>13 DEF Laid
  <2> QED BY <2>1, <2>3, <2>12, <2>14, <2>15, <2>16 DEF Slides
<1> QED BY <1>1, <1>2

(* What is remembered of the words: the latest MaxPrev of them. *)
Remembered(said, added, kept) ==
  /\ kept \in Seq(Nat)
  /\ Ends(kept, said \o added, Nat)
  /\ Len(kept) = MaxPrev \/ (kept = said \o added /\ Len(said) # MaxPrev) \/ (kept = said /\ added = <<>>)

LEMMA RememberKeeps ==
  ASSUME NEW said \in Seq(Nat), NEW added \in Seq(Nat)
  PROVE  Remembered(said, added, Remember(said, added))
<1> DEFINE all == said \o added
<1>0. MaxPrev \in Nat /\ MaxPrev > 0
  BY DecoderAssumption
<1>1. all \in Seq(Nat) /\ Len(all) = Len(said) + Len(added) /\ Len(said) \in Nat /\ Len(added) \in Nat
      /\ Len(all) \in Nat
  BY ConcatProperties
<1>2. CASE added = <<>>
  <2>1. Remember(said, added) = said
    BY <1>2 DEF Remember
  <2>2. all = <<>> \o said /\ <<>> \in Seq(Nat)
    BY <1>2, ConcatEmptySeq
  <2> QED BY <1>2, <2>1, <2>2 DEF Remembered, Ends
<1>3. CASE added # <<>>
  <2> HIDE DEF all
  <2>1. Len(added) # 0
    BY <1>3
  <2> DEFINE n == IF Len(all) > MaxPrev THEN MaxPrev ELSE Len(all)
  <2>2. n \in 0..Len(all)
    BY <1>0, <1>1
  <2>3. Remember(said, added) = Latest(all, n)
    BY <1>3 DEF Remember, all
  <2> HIDE DEF n
  <2>4. Latest(all, n) \in Seq(Nat) /\ Len(Latest(all, n)) = n /\ Ends(Latest(all, n), all, Nat)
    BY <1>1, <2>2, LatestOf
  <2>5. n = MaxPrev \/ (n = Len(all) /\ Len(said) # MaxPrev)
    BY <1>0, <1>1, <2>1 DEF n
  <2>6. Latest(all, Len(all)) = all
    <3>1. (Len(all) - Len(all)) + 1 = 1
      BY <1>1
    <3>2. SubSeq(all, 1, Len(all)) = all
      BY <1>1
    <3> QED BY <3>1, <3>2 DEF Latest
  <2> QED BY <2>3, <2>4, <2>5, <2>6 DEF Remembered, all
<1> QED BY <1>2, <1>3

(* What a decoder remembers and what its units said. *)
Memory(d) == d.said \o Words(d.units)

(* Nothing but its oldest words leaves a memory, and only a full one. *)
Recalls(d, e) ==
  /\ Ends(Memory(e), Memory(d), Nat)
  /\ \/ Len(e.said) = MaxPrev
     \/ Memory(e) = Memory(d) /\ Len(d.said) # MaxPrev

LEMMA RecallsItself ==
  ASSUME NEW d \in Decs, NEW e \in Decs, e.said = d.said, e.units = d.units
  PROVE  Recalls(d, e)
<1>1. Words(d.units) \in Seq(Nat) /\ d.said \in Seq(Nat)
  BY Histories DEF History, Decs
<1>2. Memory(d) \in Seq(Nat) /\ Memory(e) = Memory(d)
  BY <1>1, ConcatProperties DEF Memory
<1>3. <<>> \in Seq(Nat) /\ Memory(d) = <<>> \o Memory(d)
  BY <1>2, ConcatEmptySeq
<1> QED BY <1>2, <1>3 DEF Recalls, Ends

LEMMA EndsMore ==
  ASSUME NEW X, NEW s \in Seq(X), NEW t \in Seq(X), NEW w \in Seq(X), Ends(s, t, X)
  PROVE  Ends(s \o w, t \o w, X)
<1>1. PICK p \in Seq(X) : t = p \o s
  BY DEF Ends
<1>2. t \o w = p \o (s \o w)
  <2>1. Three(p, s, w, X)
    BY JoinThree
  <2> QED BY <1>1, <2>1, Zenon DEF Three
<1> QED BY <1>2 DEF Ends

LEMMA EndsTwice ==
  ASSUME NEW X, NEW r \in Seq(X), NEW s \in Seq(X), NEW t \in Seq(X), Ends(r, s, X), Ends(s, t, X)
  PROVE  Ends(r, t, X)
<1>1. PICK p \in Seq(X) : s = p \o r
  BY DEF Ends
<1>2. PICK q \in Seq(X) : t = q \o s
  BY DEF Ends
<1>3. t = (q \o p) \o r /\ q \o p \in Seq(X)
  <2>1. Three(q, p, r, X)
    BY JoinThree
  <2> QED BY <1>1, <1>2, <2>1 DEF Three
<1> QED BY <1>3 DEF Ends

LEMMA RebuildLeaves ==
  ASSUME NEW c \in Decs
  PROVE  Rebuild(c).said = c.said /\ Rebuild(c).units = c.units
BY DEF Rebuild, Decs

LEMMA ContextSlides ==
  ASSUME NEW d, DecOK(d, "context"), Fit(d)
  PROVE  Slides(d, EnforceContext(d), "context") /\ Recalls(d, EnforceContext(d))
<1>0. d \in Decs /\ d.units \in Seq(UnitSet) /\ d.said \in Seq(Nat)
      /\ MaxUnits \in Nat /\ Len(d.units) \in Nat
  BY DecoderAssumption DEF DecOK, Decs
<1>1. CASE Len(d.units) <= MaxUnits
  <2>1. EnforceContext(d) = d
    BY <1>1 DEF EnforceContext
  <2>2. <<>> \in Seq(UnitSet) /\ d.units = <<>> \o d.units
    BY <1>0, ConcatEmptySeq
  <2>3. Recalls(d, d)
    BY <1>0, RecallsItself
  <2> QED BY <2>1, <2>2, <2>3 DEF Slides
<1>2. CASE ~(Len(d.units) <= MaxUnits)
  <2> DEFINE u == Head(d.units)
             rest == Tail(d.units)
             kept == Remember(d.said, Extract(u))
             c == [d EXCEPT !.said = kept, !.units = rest]
             e == Rebuild(c)
  <2>1. EnforceContext(d) = e
    BY <1>2 DEF EnforceContext
  <2>2. u \in UnitSet /\ rest \in Seq(UnitSet) /\ <<u>> \in Seq(UnitSet) /\ d.units = <<u>> \o rest
    BY <1>0, <1>2
  <2> HIDE DEF u, rest
  <2>3. Extract(u) \in Seq(Nat)
    BY <2>2 DEF Extract, UnitSet
  <2>4. Remembered(d.said, Extract(u), kept)
    BY <1>0, <2>3, RememberKeeps
  <2> HIDE DEF kept
  <2>5. /\ c \in Decs /\ c.cache = d.cache /\ c.prefix = d.prefix /\ c.prevLen = d.prevLen
        /\ c.preserve = d.preserve /\ c.units = rest /\ c.said = kept
    BY <1>0, <2>2, <2>4 DEF Decs, Remembered
  <2> HIDE DEF c
  <2>6. Slides(d, e, "context")
    BY <2>2, <2>5, Rebuilt
  <2>7. e.said = kept /\ e.units = rest
    BY <2>5, RebuildLeaves
  <2> HIDE DEF e
  <2>8. /\ Words(rest) \in Seq(Nat)
        /\ Words(d.units) = Extract(u) \o Words(rest)
    <3>1. History(<<u>>, rest)
      BY <2>2, Histories
    <3>2. Words(<<u>>) = SpeechOf[u]
      BY <2>2, UnitFacts DEF FlatFacts, Words
    <3> QED BY <2>2, <3>1, <3>2 DEF History, SpeechOf
  <2> DEFINE w == Words(rest)
             all == d.said \o Extract(u)
  <2>9. Memory(d) = all \o w /\ all \in Seq(Nat)
    <3>1. Three(d.said, Extract(u), w, Nat)
      BY <1>0, <2>3, <2>8, JoinThree
    <3>2. Memory(d) = d.said \o (Extract(u) \o w)
      BY <2>8 DEF Memory
    <3> QED BY <3>1, <3>2 DEF Three
  <2>10. Memory(e) = kept \o w
    BY <2>7 DEF Memory
  <2> HIDE DEF w
  <2>11. w \in Seq(Nat) /\ kept \in Seq(Nat) /\ Ends(kept, all, Nat)
    BY <2>4, <2>8 DEF Remembered, w
  <2> HIDE DEF all
  <2>12. Ends(Memory(e), Memory(d), Nat)
    BY <2>9, <2>10, <2>11, EndsMore
  <2>13. Len(kept) = MaxPrev \/ (kept = all /\ Len(d.said) # MaxPrev)
    <3>1. CASE kept = d.said /\ Extract(u) = <<>>
      <4>1. d.said \o <<>> = d.said
        BY <1>0, ConcatEmptySeq
      <4> QED BY <3>1, <4>1 DEF all
    <3> QED BY <2>4, <3>1 DEF Remembered, all
  <2> QED BY <2>1, <2>6, <2>7, <2>9, <2>10, <2>12, <2>13 DEF Recalls
<1> QED BY <1>1, <1>2

LEMMA StickySlides ==
  ASSUME NEW d, NEW m, NEW text \in Nat, DecOK(d, m), Fit(d)
  PROVE  /\ Slides(d, SetSticky(d, text), m) /\ SetSticky(d, text).units = d.units
         /\ SetSticky(d, text) \in Decs /\ SetSticky(d, text).said = d.said
<1>0. d \in Decs /\ d.units \in Seq(UnitSet) /\ d.said \in Seq(Nat) /\ d.sticky \in Seq(TokenSet)
  BY DEF DecOK, Decs
<1>1. <<>> \in Seq(UnitSet) /\ d.units = <<>> \o d.units
  BY <1>0, ConcatEmptySeq
<1> DEFINE ids == Tokens("sticky", text, IF text = 0 THEN 0 ELSE 1)
<1>2. ids \in Seq(TokenSet)
  <2>1. (IF text = 0 THEN 0 ELSE 1) \in Nat
    OBVIOUS
  <2> QED BY <2>1, TokensAre
<1>3. CASE d.prefix = 0 \/ ids = d.sticky
  <2>1. SetSticky(d, text) = d
    BY <1>3 DEF SetSticky
  <2> QED BY <1>0, <1>1, <2>1 DEF Slides
<1>4. CASE ~(d.prefix = 0 \/ ids = d.sticky)
  <2> DEFINE c == [d EXCEPT !.sticky = ids]
  <2>1. SetSticky(d, text) = Rebuild(c)
    BY <1>4 DEF SetSticky
  <2>2. m = "context"
    BY <1>4 DEF DecOK
  <2> HIDE DEF ids
  <2>3. /\ c \in Decs /\ c.cache = d.cache /\ c.prefix = d.prefix /\ c.prevLen = d.prevLen
        /\ c.preserve = d.preserve /\ c.units = d.units /\ c.said = d.said
    BY <1>0, <1>2 DEF Decs
  <2> HIDE DEF c
  <2>4. Slides(d, Rebuild(c), m)
    BY <1>1, <2>2, <2>3, Rebuilt
  <2>5. Rebuild(c).said = d.said /\ Rebuild(c).units = d.units
    BY <2>3, RebuildLeaves
  <2> QED BY <2>1, <2>4, <2>5 DEF Slides, DecOK
<1> QED BY <1>3, <1>4

LEMMA EnforceSlides ==
  ASSUME NEW d, NEW m \in Modes, DecOK(d, m), Fit(d)
  PROVE  Slides(d, Enforce(m, d), m) /\ (m = "context" => Recalls(d, Enforce(m, d)))
<1>1. CASE m = "basic"
  BY <1>1, BasicSlides DEF Enforce
<1>2. CASE m = "context"
  BY <1>2, ContextSlides DEF Enforce
<1>3. CASE m = "off"
  <2>1. Enforce(m, d) = d
    BY <1>3 DEF Enforce
  <2>2. d.units \in Seq(UnitSet) /\ <<>> \in Seq(UnitSet) /\ d.units = <<>> \o d.units
    BY ConcatEmptySeq DEF DecOK, Decs
  <2> QED BY <1>3, <2>1, <2>2 DEF Slides
<1> QED BY <1>1, <1>2, <1>3 DEF Modes
-----------------------------------------------------------------------------
(* What a unit does to the decoder. *)
Same(d, e) == e.units = d.units /\ e.said = d.said

Begins(d, e, m, t, n) ==
  DecOK(e, m) /\ FitBegun(e) /\ Same(d, e) /\ (Laid(d) => LaidBegun(e, t, n))

Continues(d, e, m, t, k) ==
  /\ DecOK(e, m) /\ FitBegun(e) /\ Same(d, e)
  /\ \A n \in Nat : LaidBegun(d, t, n) => LaidBegun(e, t, n + k)

LEMMA FedIs ==
  ASSUME NEW d \in Decs, NEW tokens \in Seq(TokenSet)
  PROVE  LET e == Feed(d, tokens)
         IN  /\ e \in Decs /\ e.cache = d.cache \o tokens /\ e.units = d.units
             /\ e.start = d.start /\ e.prefix = d.prefix /\ e.preserve = d.preserve
             /\ e.said = d.said /\ e.prevLen = d.prevLen /\ e.sticky = d.sticky
             /\ Len(e.cache) = Len(d.cache) + Len(tokens)
<1>1. d.cache \o tokens \in Seq(TokenSet) /\ Len(d.cache \o tokens) = Len(d.cache) + Len(tokens)
  BY ConcatProperties DEF Decs
<1> QED BY <1>1 DEF Feed, Decs

LEMMA UnitContinues ==
  ASSUME NEW d, NEW m, NEW t \in Nat, NEW k \in Nat, DecOK(d, m), FitBegun(d)
  PROVE  Continues(d, Feed(d, Tokens("unit", t, k)), m, t, k)
<1> DEFINE tokens == Tokens("unit", t, k)
           e == Feed(d, tokens)
<1>0. /\ d \in Decs /\ d.units \in Seq(UnitSet) /\ Len(d.cache) \in Nat /\ d.start \in Nat
      /\ d.said \in Seq(Nat) /\ d.sticky \in Seq(TokenSet)
  BY DEF DecOK, Decs
<1>1. tokens \in Seq(TokenSet) /\ Len(tokens) = k
  BY TokensAre
<1> HIDE DEF tokens
<1>2. /\ e \in Decs /\ e.cache = d.cache \o tokens /\ e.units = d.units
      /\ e.start = d.start /\ e.prefix = d.prefix /\ e.preserve = d.preserve
      /\ e.said = d.said /\ e.prevLen = d.prevLen /\ e.sticky = d.sticky
      /\ Len(e.cache) = Len(d.cache) + k
  BY <1>0, <1>1, FedIs
<1> HIDE DEF e
<1>3. Region(e) = Region(d) /\ System(e) = System(d)
  BY <1>2, SamePrompt
<1>4. DecOK(e, m)
  BY <1>2, <1>3 DEF DecOK
<1>5. FitBegun(e)
  BY <1>0, <1>2 DEF FitBegun
<1>6. ASSUME NEW n \in Nat, LaidBegun(d, t, n) PROVE LaidBegun(e, t, n + k)
  <2> DEFINE whole == System(d) \o Blocks(d.units)
  <2>1. whole \in Seq(TokenSet)
    <3>1. System(d) \in Seq(TokenSet)
      BY <1>0, Prompts DEF PromptFacts
    <3>2. Blocks(d.units) \in Seq(TokenSet)
      BY <1>0, Histories DEF History
    <3> QED BY <3>1, <3>2, ConcatProperties
  <2>2. d.cache = whole \o Tokens("unit", t, n) /\ d.start = Len(whole)
    BY <1>6 DEF LaidBegun
  <2>3. System(e) \o Blocks(e.units) = whole
    BY <1>2, <1>3
  <2> HIDE DEF whole
  <2>4. Tokens("unit", t, n) \in Seq(TokenSet)
    BY TokensAre
  <2>5. e.cache = whole \o (Tokens("unit", t, n) \o tokens)
    <3>1. Three(whole, Tokens("unit", t, n), tokens, TokenSet)
      BY <1>1, <2>1, <2>4, JoinThree
    <3> QED BY <1>2, <2>2, <3>1 DEF Three
  <2>6. Tokens("unit", t, n) \o tokens = Tokens("unit", t, n + k)
    BY TokensJoin DEF tokens
  <2> QED BY <1>2, <2>2, <2>3, <2>5, <2>6 DEF LaidBegun
<1> QED BY <1>2, <1>4, <1>5, <1>6 DEF Continues, Same, e, tokens

LEMMA UnitBegins ==
  ASSUME NEW d, NEW m, NEW t \in Nat, NEW n \in Nat, DecOK(d, m), Fit(d)
  PROVE  Begins(d, Feed(UnitStart(d), Tokens("unit", t, n)), m, t, n)
<1> DEFINE c == UnitStart(d)
           e == Feed(c, Tokens("unit", t, n))
<1>0. /\ d \in Decs /\ d.units \in Seq(UnitSet) /\ Len(d.cache) \in Nat /\ d.preserve \in Nat
      /\ d.cache \in Seq(TokenSet)
  BY DEF DecOK, Decs
<1>1. /\ c \in Decs /\ c.cache = d.cache /\ c.units = d.units /\ c.start = Len(d.cache)
      /\ c.prefix = d.prefix /\ c.preserve = d.preserve /\ c.said = d.said
      /\ c.prevLen = d.prevLen /\ c.sticky = d.sticky
  BY <1>0 DEF UnitStart, Decs
<1> HIDE DEF c
<1>2. Region(c) = Region(d) /\ System(c) = System(d)
  BY <1>1, SamePrompt
<1>3. DecOK(c, m)
  BY <1>1, <1>2 DEF DecOK
<1>4. FitBegun(c)
  BY <1>0, <1>1 DEF Fit, FitBegun
<1>5. Continues(c, e, m, t, n)
  BY <1>3, <1>4, UnitContinues
<1>6. ASSUME Laid(d) PROVE LaidBegun(c, t, 0)
  <2>1. Tokens("unit", t, 0) = <<>>
    <3>1. 1..0 = {}
      OBVIOUS
    <3> QED BY <3>1 DEF Tokens
  <2>2. d.cache \o <<>> = d.cache
    BY <1>0, ConcatEmptySeq
  <2> QED BY <1>1, <1>2, <1>6, <2>1, <2>2 DEF Laid, LaidBegun
<1>7. Laid(d) => LaidBegun(e, t, n)
  <2>1. 0 \in Nat /\ 0 + n = n
    OBVIOUS
  <2> QED BY <1>5, <1>6, <2>1 DEF Continues
<1> QED BY <1>1, <1>5, <1>7 DEF Begins, Continues, Same, c

(* The unit as finalize_unit writes it into the history. *)
Closes(d, e, m, t, listen, said) ==
  /\ DecOK(e, m) /\ Fit(e) /\ e.said = d.said
  /\ (\E n \in Nat : LaidBegun(d, t, n)) => Laid(e)
  /\ \E len \in Nat : e.units = Append(d.units, [no |-> t, len |-> len, listen |-> listen, words |-> said])

LEMMA UnitCloses ==
  ASSUME NEW d, NEW m, NEW t \in Nat, NEW listen \in BOOLEAN, NEW said \in Seq(Nat),
         DecOK(d, m), FitBegun(d)
  PROVE  Closes(d, UnitEnd(Feed(d, Tokens("unit", t, 2)), t, listen, said), m, t, listen, said)
<1> DEFINE c == Feed(d, Tokens("unit", t, 2))
           e == UnitEnd(c, t, listen, said)
           len == Len(c.cache) - c.start
           u == [no |-> t, len |-> len, listen |-> listen, words |-> said]
<1>1. Continues(d, c, m, t, 2)
  BY UnitContinues
<1> HIDE DEF c
<1>2. DecOK(c, m) /\ FitBegun(c) /\ Same(d, c)
  BY <1>1 DEF Continues
<1>3. /\ c \in Decs /\ c.units \in Seq(UnitSet) /\ Len(c.cache) \in Nat /\ c.start \in Nat
      /\ c.preserve \in Nat /\ c.said \in Seq(Nat) /\ c.sticky \in Seq(TokenSet)
  BY <1>2, SMTT(30) DEF DecOK, Decs
<1>4. TotalLen(c.units) \in Nat /\ Blocks(c.units) \in Seq(TokenSet)
  BY <1>3, Histories DEF History
<1>5. len \in Nat
  BY <1>2, <1>3, <1>4 DEF FitBegun
<1>6. u \in UnitSet
  BY <1>5 DEF UnitSet
<1> HIDE DEF len
<1>7. Append(c.units, u) \in Seq(UnitSet) /\ <<u>> \in Seq(UnitSet) /\ Append(c.units, u) = c.units \o <<u>>
  BY <1>3, <1>6
<1>8. /\ e \in Decs /\ e.cache = c.cache /\ e.units = Append(c.units, u)
      /\ e.prefix = c.prefix /\ e.preserve = c.preserve /\ e.said = c.said
      /\ e.prevLen = c.prevLen /\ e.sticky = c.sticky
  BY <1>3, <1>7 DEF UnitEnd, Decs, len
<1>9. u.no = t /\ u.len = len
  OBVIOUS
<1> HIDE DEF e, u
<1>10. Region(e) = Region(c) /\ System(e) = System(c)
  BY <1>8, SamePrompt
<1>11. DecOK(e, m)
  BY <1>2, <1>8, <1>10 DEF DecOK
<1>12. TotalLen(e.units) = TotalLen(c.units) + len
  BY <1>3, <1>6, <1>8, <1>9, TotalSteps
<1>13. Fit(e)
  BY <1>2, <1>3, <1>4, <1>5, <1>8, <1>12, SMTT(30) DEF Fit, FitBegun, len
<1>14. ASSUME NEW n \in Nat, LaidBegun(d, t, n) PROVE Laid(e)
  <2>1. LaidBegun(c, t, n + 2) /\ n + 2 \in Nat
    BY <1>1, <1>14 DEF Continues
  <2> DEFINE old == Blocks(c.units)
             new == Tokens("unit", t, n + 2)
             sys == System(c)
  <2>2. c.cache = (sys \o old) \o new /\ c.start = Len(sys \o old)
    BY <2>1 DEF LaidBegun
  <2>3. sys \in Seq(TokenSet)
    BY <1>3, Prompts DEF PromptFacts
  <2>4. new \in Seq(TokenSet) /\ Len(new) = n + 2
    BY <2>1, TokensAre
  <2> HIDE DEF new, sys
  <2>5. old \in Seq(TokenSet)
    BY <1>4
  <2> HIDE DEF old
  <2>6. sys \o old \in Seq(TokenSet) /\ Len(sys \o old) \in Nat
    BY <2>3, <2>5, ConcatProperties
  <2>7. Len(c.cache) = Len(sys \o old) + (n + 2)
    <3>1. Three(sys, old, new, TokenSet)
      BY <2>3, <2>4, <2>5, JoinThree
    <3> QED BY <2>2, <2>4, <3>1 DEF Three
  <2>8. len = n + 2
    BY <2>1, <2>2, <2>6, <2>7 DEF len
  <2>9. Blocks(e.units) = old \o new
    <3>1. History(c.units, <<u>>)
      BY <1>3, <1>7, Histories
    <3>2. Blocks(<<u>>) = BlockOf[u]
      BY <1>6, UnitFacts DEF FlatFacts, Blocks
    <3>3. BlockOf[u] = new
      BY <1>6, <1>9, <2>8 DEF BlockOf, new
    <3> QED BY <1>7, <1>8, <3>1, <3>2, <3>3 DEF History, old
  <2>10. c.cache = sys \o (old \o new)
    <3>1. Three(sys, old, new, TokenSet)
      BY <2>3, <2>4, <2>5, JoinThree
    <3> QED BY <2>2, <3>1 DEF Three
  <2> QED BY <1>8, <1>10, <2>9, <2>10 DEF Laid, sys
<1> QED BY <1>2, <1>5, <1>8, <1>11, <1>13, <1>14 DEF Closes, Same, e, u, c

LEMMA PromptIsLaid ==
  ASSUME NEW m \in Modes
  PROVE  /\ DecOK(SystemPrompt(m), m) /\ Fit(SystemPrompt(m)) /\ Laid(SystemPrompt(m))
         /\ SystemPrompt(m).units = <<>> /\ SystemPrompt(m).said = <<>>
<1> DEFINE d == SystemPrompt(m)
<1>0. PrefixLen \in Nat /\ SuffixLen \in Nat
  BY DecoderAssumption
<1>1. /\ d.cache = Prefix \o Suffix /\ d.units = <<>> /\ d.said = <<>> /\ d.sticky = <<>>
      /\ d.start = 0 /\ d.prevLen = 0 /\ d.preserve = PrefixLen + SuffixLen
      /\ d.prefix = IF m = "context" THEN PrefixLen ELSE 0
  BY DEF SystemPrompt, Reset
<1> HIDE DEF d
<1>2. <<>> \in Seq(Nat) /\ <<>> \in Seq(TokenSet) /\ <<>> \in Seq(UnitSet)
  OBVIOUS
<1>3. PromptFacts(d)
  BY <1>1, <1>2, Prompts
<1>4. Region(d) = <<>>
  <2>1. Previous(d) = <<>>
    BY <1>1 DEF Previous
  <2> QED BY <1>1, <1>2, <2>1, ConcatEmptySeq DEF Region
<1>5. /\ Prefix \in Seq(TokenSet) /\ Suffix \in Seq(TokenSet)
      /\ Prefix \o Suffix \in Seq(TokenSet) /\ Len(Prefix \o Suffix) = PrefixLen + SuffixLen
  BY <1>3, ConcatProperties DEF PromptFacts
<1>6. System(d) = Prefix \o Suffix
  <2>1. <<>> \o Suffix = Suffix
    BY <1>5, ConcatEmptySeq
  <2> QED BY <1>3, <1>4, <2>1 DEF PromptFacts
<1>7. d \in Decs
  <2>1. d.prefix \in Nat /\ d.preserve \in Nat
    BY <1>0, <1>1
  <2>2. (IF m = "context" THEN PrefixLen ELSE 0) \in Nat /\ PrefixLen + SuffixLen \in Nat
    BY <1>0
  <2> QED BY <1>2, <1>5, <2>2 DEF Decs, d, SystemPrompt, Reset
<1>8. Len(Region(d)) = 0
  BY <1>4
<1>9. DecOK(d, m)
  BY <1>1, <1>5, <1>6, <1>7, <1>8 DEF DecOK
<1>10. Blocks(<<>>) = <<>> /\ TotalLen(<<>>) = 0
  BY UnitFacts, TotalSteps DEF FlatFacts, Blocks
<1>11. Fit(d)
  BY <1>0, <1>1, <1>5, <1>10 DEF Fit
<1>12. Laid(d)
  <2>1. (Prefix \o Suffix) \o <<>> = Prefix \o Suffix
    BY <1>5, ConcatEmptySeq
  <2> QED BY <1>1, <1>6, <1>10, <2>1 DEF Laid
<1> QED BY <1>1, <1>9, <1>11, <1>12 DEF d
-----------------------------------------------------------------------------
(* The numbers of units and words, and the types of what is passed on. *)
InUnit == phase \in {"prefilled", "decoding", "generated"}

CountsInv ==
  /\ mode \in Modes /\ tries \in Nat /\ first \in Nat /\ serial \in Nat
  /\ first <= tries /\ (InUnit => first < tries)
  /\ words \in Seq(Nat) /\ spoken \in Seq(Nat)
  /\ phase = "generated" => pending \in [listen : BOOLEAN, words : Seq(Nat)]

(* The cache and the lengths beside it. What is laid out stays so until a  *)
(* prefill meets too little sound or the session is stopped.               *)
Unharmed == ~short /\ ~stop
Younger(units) == \A i \in DOMAIN units : units[i].no > first

WindowInv ==
  /\ phase # "off" => DecOK(dec, mode) /\ Younger(dec.units)
  /\ phase = "idle" => Fit(dec) /\ (Unharmed => Laid(dec))
  /\ InUnit => FitBegun(dec) /\ (Unharmed => \E n \in Nat : LaidBegun(dec, tries, n))
  /\ phase = "prefilled" /\ Unharmed => logits

(* The memory with the words that are delivered and not yet finalised. *)
Untold == IF phase = "generated" /\ ~pending.listen THEN pending.words ELSE <<>>
Told(all, said) == Ends(all, spoken, Nat) /\ (Len(said) = MaxPrev \/ all = spoken)
MemoryInv ==
  mode = "context" /\ phase # "off" => Told(Memory(dec) \o Untold, dec.said)

UnitInv == LoopInv /\ CountsInv /\ WindowInv /\ MemoryInv

LEMMA MemoryIs ==
  ASSUME NEW d \in Decs
  PROVE  Memory(d) \in Seq(Nat) /\ Memory(d) \o <<>> = Memory(d)
<1>1. Words(d.units) \in Seq(Nat) /\ d.said \in Seq(Nat)
  BY Histories DEF History, Decs
<1>2. Memory(d) \in Seq(Nat)
  BY <1>1, ConcatProperties DEF Memory
<1> QED BY <1>2, ConcatEmptySeq

(* A session that begins has its prompt in the cache and nothing else. *)
LEMMA PrepareKeeps ==
  ASSUME UnitInv, NEW m \in Modes, Prepare(m)
  PROVE  CountsInv' /\ WindowInv' /\ MemoryInv'
<1>1. /\ mode' = m /\ dec' = SystemPrompt(m) /\ phase' = "idle" /\ first' = tries
      /\ tries' = tries /\ serial' = serial /\ spoken' = <<>> /\ words' = <<>>
  BY DEF Prepare, Fresh
<1>2. /\ DecOK(dec', m) /\ Fit(dec') /\ Laid(dec') /\ dec'.units = <<>> /\ dec'.said = <<>>
  BY <1>1, PromptIsLaid
<1>3. CountsInv'
  BY <1>1 DEF CountsInv, UnitInv, InUnit
<1>4. WindowInv'
  BY <1>1, <1>2 DEF WindowInv, InUnit, Younger
<1>5. MemoryInv'
  <2>1. Memory(dec') = <<>>
    <3>1. Words(<<>>) = <<>>
      BY UnitFacts DEF FlatFacts, Words
    <3>2. <<>> \in Seq(Nat)
      OBVIOUS
    <3> QED BY <1>2, <3>1, <3>2, ConcatEmptySeq DEF Memory
  <2>2. Memory(dec') \o <<>> = <<>>
    <3>1. <<>> \in Seq(Nat)
      OBVIOUS
    <3> QED BY <2>1, <3>1, ConcatEmptySeq
  <2>3. Untold' = <<>>
    BY <1>1 DEF Untold
  <2>4. Ends(<<>>, <<>>, Nat)
    <3>1. <<>> \in Seq(Nat)
      OBVIOUS
    <3>2. <<>> = <<>> \o <<>>
      BY <3>1, ConcatEmptySeq
    <3> QED BY <3>1, <3>2 DEF Ends
  <2>5. (Memory(dec) \o Untold)' = <<>>
    BY <2>2, <2>3
  <2> QED BY <1>1, <2>4, <2>5 DEF MemoryInv, Told
<1> QED BY <1>3, <1>4, <1>5

LEMMA StopKeeps ==
  ASSUME UnitInv, Stop
  PROVE  CountsInv' /\ WindowInv' /\ MemoryInv'
<1>1. /\ stop' = TRUE
      /\ UNCHANGED <<mode, dec, phase, logits, pending, words, tries, first, serial, spoken, short>>
  BY DEF Stop
<1>2. CountsInv'
  BY <1>1 DEF CountsInv, UnitInv, InUnit
<1>3. WindowInv'
  BY <1>1 DEF WindowInv, UnitInv, InUnit, Younger, Unharmed
<1>4. MemoryInv'
  BY <1>1 DEF MemoryInv, UnitInv, Untold, Told
<1> QED BY <1>2, <1>3, <1>4

LEMMA CleanupKeeps ==
  ASSUME UnitInv, Cleanup
  PROVE  CountsInv' /\ WindowInv' /\ MemoryInv'
<1>1. /\ phase' = "off" /\ words' = <<>> /\ spoken' = <<>>
      /\ UNCHANGED <<mode, tries, first, serial>>
  BY DEF Cleanup, Fresh
<1>2. CountsInv'
  BY <1>1 DEF CountsInv, UnitInv, InUnit
<1>3. WindowInv' /\ MemoryInv'
  BY <1>1 DEF WindowInv, InUnit, MemoryInv
<1> QED BY <1>2, <1>3

LEMMA ContextKeeps ==
  ASSUME UnitInv, NEW text \in Texts, SetContext(text)
  PROVE  CountsInv' /\ WindowInv' /\ MemoryInv'
<1>1. /\ phase = "idle" /\ dec' = SetSticky(dec, text)
      /\ UNCHANGED <<mode, phase, stop, logits, pending, words, tries, first, serial, spoken, short>>
  BY DEF SetContext
<1>2. DecOK(dec, mode) /\ Fit(dec) /\ Younger(dec.units) /\ (Unharmed => Laid(dec)) /\ dec \in Decs
  BY <1>1 DEF UnitInv, WindowInv, DecOK
<1>3. text \in Nat
  BY UnitAssumption
<1>4. /\ Slides(dec, dec', mode) /\ dec'.units = dec.units /\ dec' \in Decs /\ dec'.said = dec.said
  BY <1>1, <1>2, <1>3, StickySlides
<1>5. CountsInv'
  BY <1>1 DEF CountsInv, UnitInv, InUnit
<1>6. WindowInv'
  <2>1. DecOK(dec', mode) /\ Fit(dec') /\ (Laid(dec) => Laid(dec'))
    BY <1>4 DEF Slides
  <2> QED BY <1>1, <1>2, <1>4, <2>1 DEF WindowInv, InUnit, Younger, Unharmed
<1>7. MemoryInv'
  <2>1. Memory(dec') = Memory(dec)
    BY <1>4 DEF Memory
  <2> QED BY <1>1, <1>4, <2>1 DEF MemoryInv, UnitInv, Untold, Told
<1> QED BY <1>5, <1>6, <1>7

LEMMA PrefillKeeps ==
  ASSUME UnitInv, NEW enough \in BOOLEAN, Prefill(enough)
  PROVE  CountsInv' /\ WindowInv' /\ MemoryInv'
<1> DEFINE n == IF enough THEN 2 ELSE 1
<1>1. /\ phase = "idle" /\ tries' = tries + 1 /\ phase' = "prefilled"
      /\ dec' = Feed(UnitStart(dec), Tokens("unit", tries + 1, n))
      /\ logits' = enough /\ short' = (short \/ ~enough)
      /\ UNCHANGED <<mode, stop, pending, words, first, serial, spoken>>
  BY DEF Prefill
<1>2. DecOK(dec, mode) /\ Fit(dec) /\ Younger(dec.units) /\ (Unharmed => Laid(dec)) /\ dec \in Decs
  BY <1>1 DEF UnitInv, WindowInv, DecOK
<1>3. n \in Nat /\ tries \in Nat /\ tries + 1 \in Nat
  BY DEF UnitInv, CountsInv
<1> HIDE DEF n
<1>4. Begins(dec, dec', mode, tries + 1, n)
  BY <1>1, <1>2, <1>3, UnitBegins
<1>5. CountsInv'
  BY <1>1 DEF CountsInv, UnitInv, InUnit
<1>6. WindowInv'
  <2>1. DecOK(dec', mode) /\ FitBegun(dec') /\ (Laid(dec) => LaidBegun(dec', tries + 1, n))
        /\ dec'.units = dec.units
    BY <1>4 DEF Begins, Same
  <2>2. Unharmed' => Unharmed /\ enough
    BY <1>1 DEF Unharmed
  <2> QED BY <1>1, <1>2, <1>3, <2>1, <2>2 DEF WindowInv, InUnit, Younger
<1>7. MemoryInv'
  <2>1. Memory(dec') = Memory(dec) /\ dec'.said = dec.said
    BY <1>4 DEF Begins, Same, Memory
  <2>2. Untold = <<>> /\ Untold' = <<>>
    BY <1>1 DEF Untold
  <2> QED BY <1>1, <2>1, <2>2 DEF MemoryInv, UnitInv, Told
<1> QED BY <1>5, <1>6, <1>7

LEMMA NothingKeeps ==
  ASSUME UnitInv, GenerateNothing
  PROVE  CountsInv' /\ WindowInv' /\ MemoryInv'
<1>1. /\ phase = "prefilled" /\ (stop \/ ~logits) /\ phase' = "idle"
      /\ UNCHANGED <<mode, dec, stop, logits, pending, words, tries, first, serial, spoken, short>>
  BY DEF GenerateNothing
<1>2. DecOK(dec, mode) /\ FitBegun(dec) /\ Younger(dec.units) /\ ~Unharmed /\ dec \in Decs
  BY <1>1 DEF UnitInv, WindowInv, InUnit, Unharmed, DecOK
<1>3. CountsInv'
  BY <1>1 DEF CountsInv, UnitInv, InUnit
<1>4. WindowInv'
  <2>1. Fit(dec)
    <3>1. dec.preserve \in Nat /\ dec.start \in Nat /\ Len(dec.cache) \in Nat /\ TotalLen(dec.units) \in Nat
      BY <1>2, Histories DEF Decs, History
    <3> QED BY <1>2, <3>1 DEF Fit, FitBegun
  <2> QED BY <1>1, <1>2, <2>1 DEF WindowInv, InUnit, Younger, Unharmed
<1>5. MemoryInv'
  <2>1. Untold = <<>> /\ Untold' = <<>>
    BY <1>1 DEF Untold
  <2> QED BY <1>1, <2>1 DEF MemoryInv, UnitInv, Told
<1> QED BY <1>3, <1>4, <1>5

(* The unit that is under way goes on with k tokens. *)
LEMMA GoesOn ==
  ASSUME UnitInv, InUnit, NEW k \in Nat, dec' = Feed(dec, Tokens("unit", tries, k))
  PROVE  /\ DecOK(dec', mode) /\ FitBegun(dec') /\ Same(dec, dec')
         /\ Unharmed => \E n \in Nat : LaidBegun(dec', tries, n)
         /\ Memory(dec') = Memory(dec)
<1>1. DecOK(dec, mode) /\ FitBegun(dec) /\ tries \in Nat
  BY DEF UnitInv, WindowInv, CountsInv, InUnit
<1>2. Continues(dec, dec', mode, tries, k)
  BY <1>1, UnitContinues
<1>3. ASSUME Unharmed PROVE \E n \in Nat : LaidBegun(dec', tries, n)
  <2>1. PICK n \in Nat : LaidBegun(dec, tries, n)
    BY <1>3 DEF UnitInv, WindowInv
  <2>2. LaidBegun(dec', tries, n + k) /\ n + k \in Nat
    BY <1>2, <2>1 DEF Continues
  <2> QED BY <2>2
<1> QED BY <1>2, <1>3 DEF Continues, Same, Memory

LEMMA GenerateKeeps ==
  ASSUME UnitInv, NEW override, NEW inject, Generate(override, inject)
  PROVE  CountsInv' /\ WindowInv' /\ MemoryInv'
<1> DEFINE extra == (IF override = "listen" /\ open THEN 1 ELSE 0)
                    + (IF inject /\ ~open /\ ~(calls < ForceCount \/ override = "listen")
                       THEN 1 ELSE 0)
<1>1. /\ phase = "prefilled" /\ phase' = "decoding" /\ words' = <<>>
      /\ dec' = Feed(dec, Tokens("unit", tries, extra))
      /\ UNCHANGED <<mode, stop, pending, tries, first, serial, spoken, short>>
  BY DEF Generate
<1>2. extra \in Nat
  OBVIOUS
<1> HIDE DEF extra
<1>3. /\ DecOK(dec', mode) /\ FitBegun(dec') /\ Same(dec, dec')
      /\ Unharmed => \E n \in Nat : LaidBegun(dec', tries, n)
      /\ Memory(dec') = Memory(dec)
  BY <1>1, <1>2, GoesOn DEF InUnit
<1>4. CountsInv'
  BY <1>1 DEF CountsInv, UnitInv, InUnit
<1>5. WindowInv'
  BY <1>1, <1>3 DEF WindowInv, UnitInv, InUnit, Same, Younger, Unharmed
<1>6. MemoryInv'
  <2>1. Untold = <<>> /\ Untold' = <<>>
    BY <1>1 DEF Untold
  <2> QED BY <1>1, <1>3, <2>1 DEF MemoryInv, UnitInv, Told, Same
<1> QED BY <1>4, <1>5, <1>6

LEMMA TokenKeeps ==
  ASSUME UnitInv, NEW t, Token(t)
  PROVE  CountsInv' /\ WindowInv' /\ MemoryInv'
<1>1. /\ phase = "decoding" /\ phase' = "decoding"
      /\ dec' = Feed(dec, Tokens("unit", tries, 1))
      /\ \/ words' = words /\ serial' = serial
         \/ words' = Append(words, serial + 1) /\ serial' = serial + 1
      /\ UNCHANGED <<mode, stop, pending, tries, first, spoken, short>>
  BY DEF Token
<1>3. /\ DecOK(dec', mode) /\ FitBegun(dec') /\ Same(dec, dec')
      /\ Unharmed => \E n \in Nat : LaidBegun(dec', tries, n)
      /\ Memory(dec') = Memory(dec)
  BY <1>1, GoesOn DEF InUnit
<1>4. CountsInv'
  <2>1. serial \in Nat /\ words \in Seq(Nat)
    BY DEF UnitInv, CountsInv
  <2>2. words' \in Seq(Nat) /\ serial' \in Nat
    <3>1. serial + 1 \in Nat /\ Append(words, serial + 1) \in Seq(Nat)
      BY <2>1
    <3>2. CASE words' = words /\ serial' = serial
      BY <2>1, <3>2
    <3>3. CASE words' = Append(words, serial + 1) /\ serial' = serial + 1
      BY <3>1, <3>3, Zenon
    <3> QED BY <1>1, <3>2, <3>3
  <2> QED BY <1>1, <2>2 DEF CountsInv, UnitInv, InUnit
<1>5. WindowInv'
  BY <1>1, <1>3 DEF WindowInv, UnitInv, InUnit, Same, Younger, Unharmed
<1>6. MemoryInv'
  <2>1. Untold = <<>> /\ Untold' = <<>>
    BY <1>1 DEF Untold
  <2> QED BY <1>1, <1>3, <2>1 DEF MemoryInv, UnitInv, Told, Same
<1> QED BY <1>4, <1>5, <1>6

(* The words of a unit are delivered before they are in the history. *)
LEMMA GeneratedKeeps ==
  ASSUME UnitInv, phase = "decoding", NEW listen \in BOOLEAN, Generated(listen)
  PROVE  CountsInv' /\ WindowInv' /\ MemoryInv'
<1>1. /\ phase' = "generated" /\ pending' = [listen |-> listen, words |-> words]
      /\ spoken' = IF listen THEN spoken ELSE spoken \o words
      /\ UNCHANGED <<mode, dec, stop, words, tries, first, serial, short>>
  BY DEF Generated
<1>2. words \in Seq(Nat) /\ spoken \in Seq(Nat)
  BY DEF UnitInv, CountsInv
<1>3. pending'.listen = listen /\ pending'.words = words
  BY <1>1
<1>4. CountsInv'
  <2>1. spoken' \in Seq(Nat)
    BY <1>1, <1>2, ConcatProperties
  <2> QED BY <1>1, <1>2, <2>1 DEF CountsInv, UnitInv, InUnit
<1>5. WindowInv'
  BY <1>1 DEF WindowInv, UnitInv, InUnit, Younger, Unharmed
<1>6. MemoryInv'
  <2> SUFFICES ASSUME mode = "context" PROVE Told(Memory(dec) \o Untold, dec.said)'
    BY <1>1 DEF MemoryInv
  <2>1. dec \in Decs
    BY DEF UnitInv, WindowInv, DecOK
  <2>2. Memory(dec) \in Seq(Nat) /\ Memory(dec) \o <<>> = Memory(dec)
    BY <2>1, MemoryIs
  <2>3. Told(Memory(dec), dec.said)
    <3>1. Untold = <<>>
      BY DEF Untold
    <3> QED BY <2>2, <3>1 DEF UnitInv, MemoryInv
  <2>4. CASE listen
    <3>1. Untold' = <<>> /\ spoken' = spoken
      BY <1>1, <1>3, <2>4 DEF Untold
    <3> QED BY <1>1, <2>2, <2>3, <3>1 DEF Told
  <2>5. CASE ~listen
    <3>1. Untold' = words /\ spoken' = spoken \o words
      BY <1>1, <1>3, <2>5 DEF Untold
    <3> DEFINE all == Memory(dec)
    <3>2. all \in Seq(Nat) /\ Ends(all, spoken, Nat) /\ (Len(dec.said) = MaxPrev \/ all = spoken)
      BY <2>2, <2>3 DEF Told
    <3>3. (Memory(dec) \o Untold)' = all \o words
      BY <1>1, <3>1
    <3> HIDE DEF all
    <3>4. Ends(all \o words, spoken \o words, Nat)
      BY <1>2, <3>2, EndsMore
    <3>5. all = spoken => all \o words = spoken \o words
      OBVIOUS
    <3> QED BY <1>1, <3>1, <3>2, <3>3, <3>4, <3>5 DEF Told
  <2> QED BY <2>4, <2>5
<1> QED BY <1>4, <1>5, <1>6

(* A unit enters the history, and its words the memory, before the window  *)
(* slides.                                                                 *)
LEMMA FinalizeKeeps ==
  ASSUME UnitInv, FinalizeUnit
  PROVE  CountsInv' /\ WindowInv' /\ MemoryInv'
<1> DEFINE listen == pending.listen
           said == pending.words
           c == UnitEnd(Feed(dec, Tokens("unit", tries, 2)), tries, listen, said)
<1>1. /\ phase = "generated" /\ phase' = "idle" /\ words' = <<>> /\ dec' = Enforce(mode, c)
      /\ UNCHANGED <<mode, stop, tries, first, serial, spoken, short>>
  BY DEF FinalizeUnit
<1>2. /\ listen \in BOOLEAN /\ said \in Seq(Nat) /\ tries \in Nat /\ mode \in Modes
      /\ first \in Nat /\ tries > first /\ spoken \in Seq(Nat)
  BY <1>1 DEF UnitInv, CountsInv, InUnit
<1>3. DecOK(dec, mode) /\ FitBegun(dec) /\ Younger(dec.units) /\ dec \in Decs
  BY <1>1 DEF UnitInv, WindowInv, InUnit, DecOK
<1>4. Closes(dec, c, mode, tries, listen, said)
  BY <1>2, <1>3, UnitCloses
<1> HIDE DEF c
<1>5. DecOK(c, mode) /\ Fit(c) /\ c.said = dec.said /\ c \in Decs
  BY <1>4 DEF Closes, DecOK
<1>6. Slides(c, dec', mode) /\ (mode = "context" => Recalls(c, dec'))
  BY <1>1, <1>2, <1>5, EnforceSlides
<1>7. DecOK(dec', mode) /\ Fit(dec') /\ dec' \in Decs
  BY <1>6 DEF Slides, DecOK
<1>8. PICK len \in Nat :
        c.units = Append(dec.units, [no |-> tries, len |-> len, listen |-> listen, words |-> said])
  BY <1>4 DEF Closes
<1> DEFINE u == [no |-> tries, len |-> len, listen |-> listen, words |-> said]
<1>9. u \in UnitSet /\ u.no = tries /\ u.listen = listen /\ u.words = said
  BY <1>2 DEF UnitSet
<1>10. c.units = Append(dec.units, u) /\ dec.units \in Seq(UnitSet) /\ dec'.units \in Seq(UnitSet)
       /\ c.units \in Seq(UnitSet)
  BY <1>3, <1>5, <1>7, <1>8 DEF Decs
<1> HIDE DEF u
<1>11. Younger(dec'.units)
  <2>1. \A i \in DOMAIN c.units : c.units[i].no > first
    <3> SUFFICES ASSUME NEW i \in DOMAIN c.units PROVE c.units[i].no > first
      OBVIOUS
    <3>1. Len(dec.units) \in Nat /\ i \in 1..(Len(dec.units) + 1)
          /\ DOMAIN dec.units = 1..Len(dec.units)
      BY <1>9, <1>10
    <3>2. CASE i = Len(dec.units) + 1
      BY <1>2, <1>9, <1>10, <3>2
    <3>3. CASE i # Len(dec.units) + 1
      <4>1. i \in DOMAIN dec.units /\ c.units[i] = dec.units[i]
        BY <1>9, <1>10, <3>1, <3>3
      <4> QED BY <1>3, <4>1 DEF Younger
    <3> QED BY <3>2, <3>3
  <2>2. PICK a \in Seq(UnitSet) : c.units = a \o dec'.units
    BY <1>6 DEF Slides
  <2> DEFINE units == dec'.units
  <2> SUFFICES ASSUME NEW i \in DOMAIN units PROVE units[i].no > first
    BY DEF Younger
  <2>3. units \in Seq(UnitSet) /\ c.units = a \o units
    BY <1>10, <2>2
  <2> HIDE DEF units
  <2>4. Len(a) + i \in DOMAIN c.units /\ c.units[Len(a) + i] = units[i]
    BY <2>3
  <2> QED BY <2>1, <2>4
<1>12. CountsInv'
  <2>1. words' \in Seq(Nat)
    BY <1>1
  <2> QED BY <1>1, <2>1 DEF CountsInv, UnitInv, InUnit
<1>13. WindowInv'
  <2>1. Unharmed => Laid(dec')
    <3>1. Unharmed => \E n \in Nat : LaidBegun(dec, tries, n)
      BY <1>1 DEF UnitInv, WindowInv, InUnit
    <3> QED BY <1>4, <1>6, <3>1 DEF Closes, Slides
  <2> QED BY <1>1, <1>7, <1>11, <2>1 DEF WindowInv, InUnit, Younger, Unharmed
<1>14. MemoryInv'
  <2> SUFFICES ASSUME mode = "context" PROVE Told(Memory(dec) \o Untold, dec.said)'
    BY <1>1 DEF MemoryInv
  <2>1. Untold = Extract(u) /\ Untold \in Seq(Nat)
    <3>1. Untold = IF listen THEN <<>> ELSE said
      BY <1>1, <1>2 DEF Untold
    <3>2. Extract(u) = IF listen THEN <<>> ELSE said
      BY <1>9 DEF Extract
    <3> QED BY <1>2, <3>1, <3>2
  <2>2. Memory(c) = Memory(dec) \o Untold
    <3> DEFINE w == Words(dec.units)
    <3>1. <<u>> \in Seq(UnitSet) /\ c.units = dec.units \o <<u>>
      BY <1>9, <1>10, SMTT(30)
    <3>2. History(dec.units, <<u>>)
      BY <1>10, <3>1, Histories
    <3>3. Words(<<u>>) = Extract(u)
      <4>1. Words(<<u>>) = SpeechOf[u]
        BY <1>9, UnitFacts DEF FlatFacts, Words
      <4> QED BY <1>9, <4>1 DEF SpeechOf
    <3>4. Words(c.units) = w \o Untold /\ w \in Seq(Nat)
      BY <2>1, <3>1, <3>2, <3>3 DEF History
    <3>5. Memory(c) = dec.said \o (w \o Untold)
      BY <1>5, <3>4 DEF Memory
    <3>6. dec.said \in Seq(Nat)
      BY <1>3 DEF Decs
    <3>7. Three(dec.said, w, Untold, Nat)
      BY <2>1, <3>4, <3>6, JoinThree
    <3> QED BY <3>5, <3>7 DEF Three, Memory
  <2>3. Told(Memory(c), c.said)
    BY <1>1, <1>5, <2>2 DEF UnitInv, MemoryInv
  <2>4. Recalls(c, dec')
    BY <1>6
  <2> DEFINE r == Memory(dec')
             s == Memory(c)
  <2>5. r \in Seq(Nat) /\ s \in Seq(Nat) /\ r \o <<>> = r
    BY <1>5, <1>7, MemoryIs
  <2>6. Ends(r, s, Nat) /\ Ends(s, spoken, Nat)
    BY <2>3, <2>4 DEF Recalls, Told
  <2>7. (Memory(dec) \o Untold)' = r
    <3>1. Untold' = <<>>
      BY <1>1 DEF Untold
    <3> QED BY <2>5, <3>1
  <2>8. Len(dec'.said) = MaxPrev \/ r = spoken
    BY <2>3, <2>4 DEF Recalls, Told
  <2> HIDE DEF r, s
  <2>9. Ends(r, spoken, Nat)
    BY <1>2, <2>5, <2>6, EndsTwice
  <2> QED BY <1>1, <2>7, <2>8, <2>9 DEF Told
<1> QED BY <1>12, <1>13, <1>14
-----------------------------------------------------------------------------
LEMMA UnitKept ==
  ASSUME UnitInv, [Next]_vars
  PROVE  UnitInv'
<1>1. LoopInv'
  BY LoopKept DEF UnitInv
<1>2. CountsInv' /\ WindowInv' /\ MemoryInv'
  <2>1. ASSUME NEW m \in Modes, Prepare(m) PROVE CountsInv' /\ WindowInv' /\ MemoryInv'
    BY <2>1, PrepareKeeps
  <2>2. ASSUME NEW text \in Texts, SetContext(text) PROVE CountsInv' /\ WindowInv' /\ MemoryInv'
    BY <2>2, ContextKeeps
  <2>3. ASSUME NEW enough \in BOOLEAN, Prefill(enough) PROVE CountsInv' /\ WindowInv' /\ MemoryInv'
    BY <2>3, PrefillKeeps
  <2>4. ASSUME NEW override, NEW inject, Generate(override, inject)
        PROVE  CountsInv' /\ WindowInv' /\ MemoryInv'
    BY <2>4, GenerateKeeps
  <2>5. CASE HardCap
    BY <2>5, GeneratedKeeps DEF HardCap
  <2>6. ASSUME NEW t, Terminate(t) PROVE CountsInv' /\ WindowInv' /\ MemoryInv'
    <3>1. (Taken(t) = "listen") \in BOOLEAN
      OBVIOUS
    <3> QED BY <2>6, <3>1, GeneratedKeeps DEF Terminate
  <2>7. ASSUME NEW t, Reject(t) PROVE CountsInv' /\ WindowInv' /\ MemoryInv'
    BY <2>7, GeneratedKeeps DEF Reject
  <2>8. ASSUME NEW t, Token(t) PROVE CountsInv' /\ WindowInv' /\ MemoryInv'
    BY <2>8, TokenKeeps
  <2>9. CASE UNCHANGED vars
    <3>1. UNCHANGED <<mode, dec, phase, stop, logits, pending, words, tries, first, serial,
                      spoken, short>>
      BY <2>9 DEF vars
    <3>2. CountsInv'
      BY <3>1 DEF CountsInv, UnitInv, InUnit
    <3>3. WindowInv'
      BY <3>1 DEF WindowInv, UnitInv, InUnit, Younger, Unharmed
    <3>4. MemoryInv'
      BY <3>1 DEF MemoryInv, UnitInv, Untold, Told
    <3> QED BY <3>2, <3>3, <3>4
  <2> QED
    BY <2>1, <2>2, <2>3, <2>4, <2>5, <2>6, <2>7, <2>8, <2>9, StopKeeps, CleanupKeeps,
       NothingKeeps, FinalizeKeeps DEF Next
<1> QED BY <1>1, <1>2 DEF UnitInv

LEMMA UnitInductive == Spec => []UnitInv
<1>1. Init => UnitInv
  <2> SUFFICES ASSUME Init PROVE UnitInv
    OBVIOUS
  <2>1. /\ phase = "off" /\ open = FALSE /\ pending = NotPending /\ calls = 0 /\ mode = "off"
        /\ tries = 0 /\ first = 0 /\ serial = 0 /\ spoken = <<>> /\ words = <<>>
    BY DEF Init
  <2>2. LoopInv
    BY <2>1 DEF LoopInv, LoopTyped, Phases, Handed, TurnsInv, ListensBetweenTurns
  <2>3. CountsInv
    <3>1. <<>> \in Seq(Nat)
      OBVIOUS
    <3> QED BY <2>1, <3>1 DEF CountsInv, InUnit, Modes
  <2>4. WindowInv /\ MemoryInv
    BY <2>1 DEF WindowInv, InUnit, MemoryInv
  <2> QED BY <2>2, <2>3, <2>4 DEF UnitInv
<1> QED BY <1>1, UnitKept, PTL DEF Spec

(* What the joined blocks and words are, of the units themselves. *)
LEMMA BlocksAre ==
  ASSUME NEW units \in Seq(UnitSet)
  PROVE  /\ Blocks(units) = FlattenSeq([i \in DOMAIN units |-> Tokens("unit", units[i].no, units[i].len)])
         /\ Words(units) = FlattenSeq([i \in DOMAIN units |-> Extract(units[i])])
<1>1. \A i \in DOMAIN units : units[i] \in UnitSet
  OBVIOUS
<1>2. \A i \in DOMAIN units : BlockOf[units[i]] = Tokens("unit", units[i].no, units[i].len)
  BY <1>1, Zenon DEF BlockOf
<1>3. \A i \in DOMAIN units : SpeechOf[units[i]] = Extract(units[i])
  BY <1>1, Zenon DEF SpeechOf
<1>4. [i \in DOMAIN units |-> BlockOf[units[i]]]
        = [i \in DOMAIN units |-> Tokens("unit", units[i].no, units[i].len)]
  BY <1>2, Zenon
<1>5. [i \in DOMAIN units |-> SpeechOf[units[i]]] = [i \in DOMAIN units |-> Extract(units[i])]
  BY <1>3, Zenon
<1> QED BY <1>4, <1>5, Zenon DEF Blocks, Words, Flat

(* Between two units the cache of an unharmed session is the prompt, its   *)
(* memory and its sticky text, then the units of the history in order,     *)
(* although the windows cut by lengths alone; nothing waits to be          *)
(* finalised and the history is of this session.                           *)
THEOREM CacheIsLaidOut == Spec => []Layout
<1>1. UnitInv => Layout
  <2> SUFFICES ASSUME UnitInv, phase = "idle" PROVE Layout
    BY DEF Layout
  <2>1. pending = NotPending
    BY DEF UnitInv, LoopInv, Handed
  <2>2. \A i \in DOMAIN dec.units : dec.units[i].no > first
    BY DEF UnitInv, WindowInv, Younger
  <2>3. ASSUME ~short /\ ~stop
        PROVE  /\ dec.preserve = Len(System(dec))
               /\ dec.cache = System(dec) \o Blocks(dec.units)
    BY <2>3 DEF UnitInv, WindowInv, DecOK, Laid, Unharmed
  <2>4. dec.units \in Seq(UnitSet)
    BY DEF UnitInv, WindowInv, DecOK, Decs
  <2>5. Blocks(dec.units) = FlattenSeq([i \in DOMAIN dec.units |->
                              Tokens("unit", dec.units[i].no, dec.units[i].len)])
    BY <2>4, BlocksAre
  <2> QED BY <2>1, <2>2, <2>3, <2>5, Zenon DEF Layout, System
<1> QED BY <1>1, UnitInductive, PTL

(* What the prompt remembers and the units in the window said is what the  *)
(* session delivered last, each word once and in order; a word is          *)
(* forgotten only when the memory is full.                                 *)
THEOREM RemembersTheLatest == Spec => []MemoryIsLatestSpoken
<1>1. UnitInv => MemoryIsLatestSpoken
  <2> SUFFICES ASSUME UnitInv, mode = "context", phase = "idle" PROVE MemoryIsLatestSpoken
    BY DEF MemoryIsLatestSpoken
  <2>1. dec \in Decs /\ dec.units \in Seq(UnitSet) /\ spoken \in Seq(Nat)
    BY DEF UnitInv, WindowInv, CountsInv, DecOK, Decs
  <2>2. Untold = <<>>
    BY DEF Untold
  <2> DEFINE all == Memory(dec)
  <2>3. all \in Seq(Nat) /\ all \o <<>> = all
    BY <2>1, MemoryIs
  <2>4. Ends(all, spoken, Nat) /\ (Len(dec.said) = MaxPrev \/ all = spoken)
    BY <2>2, <2>3 DEF UnitInv, MemoryInv, Told
  <2>5. all = dec.said \o FlattenSeq([i \in DOMAIN dec.units |-> Extract(dec.units[i])])
    BY <2>1, BlocksAre DEF Memory
  <2> HIDE DEF all
  <2>6. IsSuffix(all, spoken)
    BY <2>1, <2>3, <2>4, EndsIsSuffix
  <2> QED BY <2>4, <2>5, <2>6, Zenon DEF MemoryIsLatestSpoken
<1> QED BY <1>1, UnitInductive, PTL
=============================================================================
