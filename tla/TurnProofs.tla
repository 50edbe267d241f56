----------------------------- MODULE TurnProofs -----------------------------
(***************************************************************************)
(* Theorems about TurnSession, for callers that use or clear the rollback  *)
(* point before they go on: the system prompt stays, the books fit the     *)
(* cache, an open turn can be continued, and a rollback is exact.          *)
(*                                                                         *)
(* The books are sums over the history, taken through folds: the first     *)
(* lemmas make a fold a function on 0..n and climb along it.  Then come    *)
(* what a cut of one round leaves (it lies between the system prompt and   *)
(* the open turn), the invariant of the model (Good), of the answer under  *)
(* way and of the snapshot, and one lemma per action.                      *)
(***************************************************************************)
EXTENDS TurnSession, WellFoundedInduction, TLAPS

(* Whatever holds of 0 and goes from a number to the next holds of all.    *)
LEMMA Climb ==
  ASSUME NEW S, 0 \in S, \A n \in Nat : n \in S => n + 1 \in S
  PROVE  Nat \subseteq S
<1> DEFINE T == Nat \ S
<1> SUFFICES ASSUME T # {} PROVE FALSE
  OBVIOUS
<1>1. PICK x \in T : \A y \in T : ~(<<y, x>> \in OpToRel(<, Nat))
  <2>1. IsWellFoundedOn(OpToRel(<, Nat), Nat) /\ T \subseteq Nat
    BY NatLessThanWellFounded
  <2> HIDE DEF T
  <2> QED BY <2>1, WFMin
<1>2. x \in Nat /\ x # 0 /\ x - 1 \in Nat /\ x - 1 \in T
  OBVIOUS
<1>3. <<x - 1, x>> \in OpToRel(<, Nat)
  BY <1>2 DEF OpToRel
<1> QED BY <1>1, <1>2, <1>3

(* A set of numbers up to n that is not empty has a greatest member. *)
LEMMA Greatest ==
  ASSUME NEW n \in Nat, NEW T \in SUBSET (1..n), T # {}
  PROVE  /\ Max(T) \in T
         /\ \A i \in T : i <= Max(T)
         /\ T \ {Max(T)} \in SUBSET (1..(Max(T) - 1))
<1> DEFINE S == {k \in Nat : \A U \in SUBSET (1..k) : U # {} => \E x \in U : \A y \in U : x >= y}
<1>1. 0 \in S
  <2>1. 1..0 = {}
    OBVIOUS
  <2> QED BY <2>1
<1>2. ASSUME NEW k \in Nat, k \in S PROVE k + 1 \in S
  <2> SUFFICES ASSUME NEW U \in SUBSET (1..(k + 1)), U # {}
               PROVE  \E x \in U : \A y \in U : x >= y
    OBVIOUS
  <2>1. CASE k + 1 \in U
    BY <2>1
  <2>2. CASE k + 1 \notin U
    <3>1. U \in SUBSET (1..k)
      BY <2>2
    <3> QED BY <1>2, <3>1
  <2> QED BY <2>1, <2>2
<1>3. n \in S
  <2> HIDE DEF S
  <2> QED BY <1>1, <1>2, Climb
<1>4. \E x \in T : \A y \in T : x >= y
  BY <1>3
<1>5. Max(T) \in T /\ \A y \in T : Max(T) >= y
  BY <1>4 DEF Max
<1>6. Max(T) \in 1..n
  BY <1>5
<1>7. ASSUME NEW i \in T \ {Max(T)} PROVE i \in 1..(Max(T) - 1)
  BY <1>5, <1>6
<1>8. \A i \in T : i <= Max(T)
  BY <1>5, <1>6
<1> QED BY <1>5, <1>7, <1>8

-----------------------------------------------------------------------------
(* Folds from the left.  FoldLeft is a function over the sets of indices   *)
(* that takes their greatest one last; `next' is its step, as a function.  *)
Goes(g, base, next, h) ==
  \A T \in SUBSET DOMAIN h :
    g[T] = IF T = {} THEN base ELSE next[<<g[T \ {Max(T)}], h[Max(T)]>>]

Folds(g, M, base, next, h) ==
  /\ g[{}] = base
  /\ \A T \in SUBSET DOMAIN h :
       T # {} /\ g[T \ {Max(T)}] \in M => g[T] = next[<<g[T \ {Max(T)}], h[Max(T)]>>]

LEMMA FoldExists ==
  ASSUME NEW M, NEW X, NEW base \in M, NEW next \in [M \X X -> M]
  PROVE  \A h \in Seq(X) : \E g \in [SUBSET DOMAIN h -> M] : Goes(g, base, next, h)
<1> DEFINE P(h) == \E g \in [SUBSET DOMAIN h -> M] : Goes(g, base, next, h)
           S == {n \in Nat : \A h \in Seq(X) : Len(h) = n => P(h)}
<1>1. 0 \in S
  <2> SUFFICES ASSUME NEW h \in Seq(X), Len(h) = 0
               PROVE  \E g \in [SUBSET DOMAIN h -> M] : Goes(g, base, next, h)
    OBVIOUS
  <2>0. DOMAIN h = {}
    OBVIOUS
  <2> DEFINE g == [T \in SUBSET DOMAIN h |-> base]
  <2>1. g \in [SUBSET DOMAIN h -> M] /\ Goes(g, base, next, h)
    BY <2>0 DEF Goes
  <2> QED BY <2>1
<1>2. ASSUME NEW n \in Nat, n \in S PROVE n + 1 \in S
  <2> SUFFICES ASSUME NEW h \in Seq(X), Len(h) = n + 1 PROVE P(h)
    <3> HIDE DEF P
    <3> QED OBVIOUS
  <2> DEFINE a == SubSeq(h, 1, n)
  <2>1. a \in Seq(X) /\ Len(a) = n /\ DOMAIN a = 1..n /\ DOMAIN h = 1..(n + 1)
        /\ h[n + 1] \in X /\ \A i \in 1..n : a[i] = h[i]
    OBVIOUS
  <2>2. PICK f \in [SUBSET DOMAIN a -> M] : Goes(f, base, next, a)
    BY <1>2, <2>1
  <2>f. f \in [SUBSET (1..n) -> M]
    BY <2>1
  <2> HIDE DEF a
  <2> DEFINE g == [T \in SUBSET (1..(n + 1)) |->
                     IF n + 1 \in T THEN next[<<f[T \ {n + 1}], h[n + 1]>>] ELSE f[T]]
  <2>3. ASSUME NEW T \in SUBSET (1..(n + 1))
        PROVE  /\ g[T] \in M
               /\ g[T] = IF T = {} THEN base ELSE next[<<g[T \ {Max(T)}], h[Max(T)]>>]
    <3>1. CASE T = {}
      <4>1. {} \in SUBSET (1..n) /\ f[{}] = base
        BY <2>1, <2>2, Zenon DEF Goes
      <4> QED BY <3>1, <4>1
    <3>2. CASE n + 1 \in T
      <4>0. n + 1 \in Nat /\ T # {}
        BY <3>2
      <4>1. Max(T) \in T /\ \A i \in T : i <= Max(T)
        BY <4>0, Greatest
      <4>a. Max(T) \in 1..(n + 1) /\ n + 1 <= Max(T)
        BY <3>2, <4>1
      <4>2. Max(T) = n + 1
        BY <4>a
      <4>3. T \ {n + 1} \in SUBSET (1..n) /\ n + 1 \notin T \ {n + 1}
        OBVIOUS
      <4>4. g[T \ {n + 1}] = f[T \ {n + 1}]
        BY <4>3
      <4>5. f[T \ {n + 1}] \in M
        BY <2>f, <4>3
      <4>6. next[<<f[T \ {n + 1}], h[n + 1]>>] \in M
        BY <2>1, <4>5
      <4> QED BY <3>2, <4>2, <4>4, <4>6
    <3>3. CASE n + 1 \notin T /\ T # {}
      <4>1. T \in SUBSET (1..n)
        BY <3>3
      <4>2. Max(T) \in T /\ Max(T) \in 1..n /\ T \ {Max(T)} \in SUBSET (1..n)
        BY <3>3, <4>1, Greatest
      <4>3. f[T] = next[<<f[T \ {Max(T)}], a[Max(T)]>>]
        BY <2>1, <2>2, <3>3, <4>1, Zenon DEF Goes
      <4>4. g[T] = f[T] /\ g[T \ {Max(T)}] = f[T \ {Max(T)}]
        BY <3>3, <4>2
      <4>5. f[T] \in M
        BY <2>f, <4>1
      <4> QED BY <2>1, <3>3, <4>2, <4>3, <4>4, <4>5
    <3> QED BY <3>1, <3>2, <3>3
  <2>4. g \in [SUBSET DOMAIN h -> M]
    <3> HIDE DEF S
    <3>1. g = [T \in SUBSET (1..(n + 1)) |-> g[T]]
      OBVIOUS
    <3> HIDE DEF g
    <3>2. \A T \in SUBSET (1..(n + 1)) : g[T] \in M
      BY <2>3
    <3> QED BY <2>1, <3>1, <3>2
  <2>5. Goes(g, base, next, h)
    <3> HIDE DEF g, S
    <3> QED BY <2>1, <2>3 DEF Goes
  <2> QED BY <2>4, <2>5
<1>3. Nat \subseteq S
  <2> HIDE DEF S
  <2> QED BY <1>1, <1>2, Climb
<1>4. ASSUME NEW h \in Seq(X) PROVE P(h)
  <2> HIDE DEF P
  <2>1. Len(h) \in Nat
    OBVIOUS
  <2> QED BY <1>3, <2>1
<1> QED BY <1>4

(* Two folds agree on what their sequences have in common. *)
Agree(f, g, M, next, h, x) ==
  f[1..Len(h)] \in M /\ g[1..(Len(h) + 1)] = next[<<f[1..Len(h)], x>>]

LEMMA FoldAgrees ==
  ASSUME NEW M, NEW X, NEW base \in M, NEW next \in [M \X X -> M],
         NEW h \in Seq(X), NEW x \in X, NEW f, NEW g,
         Folds(f, M, base, next, h), Folds(g, M, base, next, Append(h, x))
  PROVE  Agree(f, g, M, next, h, x)
<1> DEFINE n == Len(h)
           c == Append(h, x)
           S == {k \in Nat : k <= n => \A T \in SUBSET (1..k) : f[T] = g[T] /\ f[T] \in M}
<1>0. /\ n \in Nat /\ DOMAIN h = 1..n /\ DOMAIN c = 1..(n + 1) /\ c[n + 1] = x
      /\ \A i \in 1..n : c[i] = h[i] /\ h[i] \in X
  OBVIOUS
<1> HIDE DEF n, c
<1>1. f[{}] = base /\ g[{}] = base
  BY Zenon DEF Folds
<1>f. ASSUME NEW T \in SUBSET (1..n), T # {}, f[T \ {Max(T)}] \in M
      PROVE  f[T] = next[<<f[T \ {Max(T)}], h[Max(T)]>>]
  BY <1>0, <1>f, Zenon DEF Folds
<1>g. ASSUME NEW T \in SUBSET (1..(n + 1)), T # {}, g[T \ {Max(T)}] \in M
      PROVE  g[T] = next[<<g[T \ {Max(T)}], c[Max(T)]>>]
  BY <1>0, <1>g, Zenon DEF Folds, c
<1>2. 0 \in S
  <2>1. 1..0 = {}
    OBVIOUS
  <2> QED BY <1>1, <2>1
<1>3. ASSUME NEW k \in Nat, k \in S PROVE k + 1 \in S
  <2>0. k + 1 \in Nat
    OBVIOUS
  <2> SUFFICES ASSUME k + 1 <= n, NEW T \in SUBSET (1..(k + 1)) PROVE f[T] = g[T] /\ f[T] \in M
    BY <2>0
  <2>1. CASE T = {}
    BY <1>1, <2>1
  <2>2. CASE T # {}
    <3>1. Max(T) \in T /\ T \ {Max(T)} \in SUBSET (1..(Max(T) - 1))
      BY <2>0, <2>2, Greatest
    <3>2. Max(T) \in 1..(k + 1) /\ T \ {Max(T)} \in SUBSET (1..k) /\ Max(T) \in 1..n
      <4>1. Max(T) \in 1..(k + 1)
        BY <3>1
      <4>2. Max(T) \in 1..n /\ 1..(Max(T) - 1) \subseteq 1..k
        BY <1>0, <4>1
      <4> QED BY <3>1, <4>1, <4>2
    <3>3. f[T \ {Max(T)}] = g[T \ {Max(T)}] /\ f[T \ {Max(T)}] \in M
      BY <1>0, <1>3, <3>2
    <3>4. T \in SUBSET (1..n) /\ T \in SUBSET (1..(n + 1))
      BY <1>0
    <3>5. c[Max(T)] = h[Max(T)] /\ h[Max(T)] \in X
      BY <1>0, <3>2
    <3>6. f[T] = next[<<f[T \ {Max(T)}], h[Max(T)]>>]
      BY <1>f, <2>2, <3>3, <3>4
    <3>7. g[T] = next[<<g[T \ {Max(T)}], c[Max(T)]>>]
      BY <1>g, <2>2, <3>3, <3>4
    <3>8. next[<<f[T \ {Max(T)}], h[Max(T)]>>] \in M
      BY <3>3, <3>5
    <3> QED BY <3>3, <3>5, <3>6, <3>7, <3>8
  <2> QED BY <2>1, <2>2
<1>4. n \in S
  <2> HIDE DEF S
  <2> QED BY <1>0, <1>2, <1>3, Climb
<1>5. f[1..n] = g[1..n] /\ f[1..n] \in M
  BY <1>0, <1>4
<1>6. Max(1..(n + 1)) = n + 1 /\ (1..(n + 1)) \ {n + 1} = 1..n /\ 1..(n + 1) # {}
  <2>1. n + 1 \in Nat /\ n + 1 \in 1..(n + 1)
    BY <1>0
  <2>a. 1..(n + 1) # {}
    BY <2>1
  <2>2. Max(1..(n + 1)) \in 1..(n + 1) /\ \A i \in 1..(n + 1) : i <= Max(1..(n + 1))
    BY <2>1, <2>a, Greatest
  <2>3. Max(1..(n + 1)) = n + 1
    BY <1>0, <2>1, <2>2
  <2>4. (1..(n + 1)) \ {n + 1} = 1..n
    BY <1>0
  <2> QED BY <2>a, <2>3, <2>4
<1>7. g[1..(n + 1)] = next[<<g[1..n], x>>]
  BY <1>0, <1>5, <1>6, <1>g
<1> QED BY <1>5, <1>7 DEF n, Agree

(* Hence a fold, taken as a function V of its sequence, goes from one      *)
(* element to the next.                                                    *)
FoldOf(V, M, X, base, next) ==
  \A h \in Seq(X) : \A g \in [SUBSET DOMAIN h -> M] :
    Goes(g, base, next, h) => \E f : Folds(f, M, base, next, h) /\ V[h] = f[DOMAIN h]

Steps(V, M, X, base, next) ==
  /\ V[<<>>] = base
  /\ \A h \in Seq(X), x \in X : V[h] \in M /\ V[Append(h, x)] = next[<<V[h], x>>]

LEMMA FoldSteps ==
  ASSUME NEW M, NEW X, NEW base \in M, NEW next \in [M \X X -> M], NEW V,
         FoldOf(V, M, X, base, next)
  PROVE  Steps(V, M, X, base, next)
<1>1. ASSUME NEW h \in Seq(X)
      PROVE  \E f : Folds(f, M, base, next, h) /\ V[h] = f[DOMAIN h]
  <2>1. PICK g \in [SUBSET DOMAIN h -> M] : Goes(g, base, next, h)
    BY FoldExists
  <2> QED BY <2>1, Zenon DEF FoldOf
<1>2. V[<<>>] = base
  <2>1. <<>> \in Seq(X) /\ DOMAIN <<>> = {}
    OBVIOUS
  <2>2. PICK g : Folds(g, M, base, next, <<>>) /\ V[<<>>] = g[DOMAIN <<>>]
    BY <1>1, <2>1
  <2>3. g[{}] = base
    BY <2>2, Zenon DEF Folds
  <2> QED BY <2>1, <2>2, <2>3
<1>3. ASSUME NEW h \in Seq(X), NEW x \in X
      PROVE  V[h] \in M /\ V[Append(h, x)] = next[<<V[h], x>>]
  <2>1. /\ Append(h, x) \in Seq(X) /\ DOMAIN h = 1..Len(h)
        /\ DOMAIN Append(h, x) = 1..(Len(h) + 1)
    OBVIOUS
  <2>2. PICK f : Folds(f, M, base, next, h) /\ V[h] = f[DOMAIN h]
    BY <1>1
  <2>3. PICK g : Folds(g, M, base, next, Append(h, x)) /\ V[Append(h, x)] = g[DOMAIN Append(h, x)]
    BY <1>1, <2>1
  <2>4. Agree(f, g, M, next, h, x)
    <3>1. Folds(f, M, base, next, h) /\ Folds(g, M, base, next, Append(h, x))
      BY <2>2, <2>3
    <3> QED BY <3>1, FoldAgrees, Zenon
  <2> QED BY <2>1, <2>2, <2>3, <2>4 DEF Agree
<1> QED BY <1>2, <1>3 DEF Steps

(* The greatest of some indices is an index, and so are the others. *)
LEMMA Top ==
  ASSUME NEW X, NEW h \in Seq(X), NEW T \in SUBSET DOMAIN h, T # {}
  PROVE  Max(T) \in DOMAIN h /\ h[Max(T)] \in X /\ T \ {Max(T)} \in SUBSET DOMAIN h
<1>1. Len(h) \in Nat /\ DOMAIN h = 1..Len(h)
  OBVIOUS
<1>2. Max(T) \in T
  BY <1>1, Greatest
<1> QED BY <1>1, <1>2

-----------------------------------------------------------------------------
(* What the model is made of. *)
Kinds == {"turn", "user", "assistant", "system", "header"}
TokenSet == Nat \X Kinds
EntrySet == [length : Nat \ {0}, kind : Kinds, round : Nat, opens : BOOLEAN]
Sessions == Nat \cup {NoSession, ChatSession}
Models ==
  [mode : {"half", "chat", "duplex"}, session : Sessions, cache : Seq(TokenSet),
   history : Seq(EntrySet), preserve : Nat, nextRound : Nat, pending : Nat \cup {NoRound},
   newUser : BOOLEAN, generated : BOOLEAN, first : BOOLEAN]

(* The three sums over the history, an entry at a time. *)
LEMMA BookedSteps ==
  /\ Booked(<<>>) = 0
  /\ \A h \in Seq(EntrySet), e \in EntrySet :
       Booked(h) \in Nat /\ Booked(Append(h, e)) = Booked(h) + e.length
<1> DEFINE next == [p \in Nat \X EntrySet |-> p[1] + p[2].length]
           V == [h \in Seq(EntrySet) |-> Booked(h)]
<1>1. next \in [Nat \X EntrySet -> Nat] /\ \A n \in Nat, e \in EntrySet : next[<<n, e>>] = n + e.length
  BY DEF EntrySet
<1>2. FoldOf(V, Nat, EntrySet, 0, next)
  <2> SUFFICES ASSUME NEW h \in Seq(EntrySet), NEW g \in [SUBSET DOMAIN h -> Nat], Goes(g, 0, next, h)
               PROVE  \E f : Folds(f, Nat, 0, next, h) /\ V[h] = f[DOMAIN h]
    BY DEF FoldOf
  <2> HIDE DEF next
  <2> DEFINE R(f) == f = [T \in SUBSET DOMAIN h |->
                            IF T = {} THEN 0 ELSE f[T \ {Max(T)}] + h[Max(T)].length]
  <2>1. \A T \in SUBSET DOMAIN h : T # {} =>
          Max(T) \in DOMAIN h /\ h[Max(T)] \in EntrySet /\ T \ {Max(T)} \in SUBSET DOMAIN h
    BY Top
  <2>2. R(g)
    <3>1. ASSUME NEW T \in SUBSET DOMAIN h
          PROVE  g[T] = IF T = {} THEN 0 ELSE g[T \ {Max(T)}] + h[Max(T)].length
      BY <1>1, <2>1 DEF Goes
    <3> QED BY <3>1
  <2>3. \E f : R(f) /\ Booked(h) = f[DOMAIN h]
    BY <2>2 DEF Booked, FoldLeft, MapThenFoldSet
  <2>4. ASSUME NEW f, R(f) PROVE Folds(f, Nat, 0, next, h)
    BY <1>1, <2>1, <2>4 DEF Folds
  <2> QED BY <2>3, <2>4
<1>3. Steps(V, Nat, EntrySet, 0, next)
  <2> HIDE DEF next, V
  <2> QED BY <1>1, <1>2, FoldSteps, Zenon
<1> HIDE DEF next
<1>4. <<>> \in Seq(EntrySet) /\ \A h \in Seq(EntrySet), e \in EntrySet : Append(h, e) \in Seq(EntrySet)
  OBVIOUS
<1>5. \A h \in Seq(EntrySet) : V[h] = Booked(h)
  OBVIOUS
<1> HIDE DEF V
<1>6. /\ V[<<>>] = 0
      /\ \A h \in Seq(EntrySet), e \in EntrySet : V[h] \in Nat /\ V[Append(h, e)] = next[<<V[h], e>>]
  BY <1>3, Zenon DEF Steps
<1>7. Booked(<<>>) = 0
  BY <1>4, <1>5, <1>6
<1>8. ASSUME NEW h \in Seq(EntrySet), NEW e \in EntrySet
      PROVE  Booked(h) \in Nat /\ Booked(Append(h, e)) = Booked(h) + e.length
  <2>1. V[h] = Booked(h) /\ V[Append(h, e)] = Booked(Append(h, e))
    BY <1>4, <1>5
  <2>2. V[h] \in Nat /\ V[Append(h, e)] = next[<<V[h], e>>]
    BY <1>6
  <2> QED BY <1>1, <2>1, <2>2
<1> QED BY <1>7, <1>8

(* RoundLength, of a history. *)
Taken(h, r) == FoldLeft(LAMBDA sum, e : IF e.round = r THEN sum + e.length ELSE sum, 0, h)
More(n, e, r) == IF e.round = r THEN n + e.length ELSE n

LEMMA TakenSteps ==
  ASSUME NEW r \in Nat
  PROVE  /\ Taken(<<>>, r) = 0
         /\ \A h \in Seq(EntrySet), e \in EntrySet :
              Taken(h, r) \in Nat /\ Taken(Append(h, e), r) = More(Taken(h, r), e, r)
<1> DEFINE next == [p \in Nat \X EntrySet |-> More(p[1], p[2], r)]
           V == [h \in Seq(EntrySet) |-> Taken(h, r)]
<1>1. next \in [Nat \X EntrySet -> Nat] /\ \A n \in Nat, e \in EntrySet : next[<<n, e>>] = More(n, e, r)
  BY DEF EntrySet, More
<1>2. FoldOf(V, Nat, EntrySet, 0, next)
  <2> SUFFICES ASSUME NEW h \in Seq(EntrySet), NEW g \in [SUBSET DOMAIN h -> Nat], Goes(g, 0, next, h)
               PROVE  \E f : Folds(f, Nat, 0, next, h) /\ V[h] = f[DOMAIN h]
    BY DEF FoldOf
  <2> HIDE DEF next
  <2> DEFINE R(f) == f = [T \in SUBSET DOMAIN h |->
                            IF T = {} THEN 0 ELSE More(f[T \ {Max(T)}], h[Max(T)], r)]
  <2>1. \A T \in SUBSET DOMAIN h : T # {} =>
          Max(T) \in DOMAIN h /\ h[Max(T)] \in EntrySet /\ T \ {Max(T)} \in SUBSET DOMAIN h
    BY Top
  <2>2. R(g)
    <3>1. ASSUME NEW T \in SUBSET DOMAIN h
          PROVE  g[T] = IF T = {} THEN 0 ELSE More(g[T \ {Max(T)}], h[Max(T)], r)
      BY <1>1, <2>1 DEF Goes
    <3> QED BY <3>1
  <2>3. \E f : R(f) /\ Taken(h, r) = f[DOMAIN h]
    BY <2>2 DEF Taken, FoldLeft, MapThenFoldSet, More
  <2>4. ASSUME NEW f, R(f) PROVE Folds(f, Nat, 0, next, h)
    BY <1>1, <2>1, <2>4 DEF Folds
  <2> QED BY <2>3, <2>4
<1>3. Steps(V, Nat, EntrySet, 0, next)
  <2> HIDE DEF next, V
  <2> QED BY <1>1, <1>2, FoldSteps, Zenon
<1> HIDE DEF next
<1>4. <<>> \in Seq(EntrySet) /\ \A h \in Seq(EntrySet), e \in EntrySet : Append(h, e) \in Seq(EntrySet)
  OBVIOUS
<1> QED BY <1>1, <1>3, <1>4 DEF Steps

Rest(s, e, r) == IF e.round = r THEN s ELSE Append(s, e)

LEMMA WithoutSteps ==
  ASSUME NEW r \in Nat
  PROVE  /\ Without(<<>>, r) = <<>>
         /\ \A h \in Seq(EntrySet), e \in EntrySet :
              /\ Without(h, r) \in Seq(EntrySet)
              /\ Without(Append(h, e), r) = Rest(Without(h, r), e, r)
<1> DEFINE M == Seq(EntrySet)
           next == [p \in M \X EntrySet |-> Rest(p[1], p[2], r)]
           V == [h \in Seq(EntrySet) |-> Without(h, r)]
<1>1. next \in [M \X EntrySet -> M] /\ \A s \in M, e \in EntrySet : next[<<s, e>>] = Rest(s, e, r)
  BY DEF Rest
<1>2. FoldOf(V, M, EntrySet, <<>>, next)
  <2> SUFFICES ASSUME NEW h \in Seq(EntrySet), NEW g \in [SUBSET DOMAIN h -> M], Goes(g, <<>>, next, h)
               PROVE  \E f : Folds(f, M, <<>>, next, h) /\ V[h] = f[DOMAIN h]
    BY DEF FoldOf
  <2> HIDE DEF next
  <2> DEFINE R(f) == f = [T \in SUBSET DOMAIN h |->
                            IF T = {} THEN <<>> ELSE Rest(f[T \ {Max(T)}], h[Max(T)], r)]
  <2>1. \A T \in SUBSET DOMAIN h : T # {} =>
          Max(T) \in DOMAIN h /\ h[Max(T)] \in EntrySet /\ T \ {Max(T)} \in SUBSET DOMAIN h
    BY Top
  <2>2. R(g)
    <3>1. ASSUME NEW T \in SUBSET DOMAIN h
          PROVE  g[T] = IF T = {} THEN <<>> ELSE Rest(g[T \ {Max(T)}], h[Max(T)], r)
      BY <1>1, <2>1 DEF Goes
    <3> QED BY <3>1
  <2>3. \E f : R(f) /\ Without(h, r) = f[DOMAIN h]
    BY <2>2 DEF Without, FoldLeft, MapThenFoldSet, Rest
  <2>4. ASSUME NEW f, R(f) PROVE Folds(f, M, <<>>, next, h)
    BY <1>1, <2>1, <2>4 DEF Folds
  <2> QED BY <2>3, <2>4
<1>3. Steps(V, M, EntrySet, <<>>, next)
  <2>1. <<>> \in M
    OBVIOUS
  <2> HIDE DEF next, V, M
  <2> QED BY <1>1, <1>2, <2>1, FoldSteps, Zenon
<1> HIDE DEF next
<1>4. <<>> \in Seq(EntrySet) /\ \A h \in Seq(EntrySet), e \in EntrySet : Append(h, e) \in Seq(EntrySet)
  OBVIOUS
<1> QED BY <1>1, <1>3, <1>4 DEF Steps
-----------------------------------------------------------------------------
(* What holds of the empty sequence and goes on with every element holds   *)
(* of all sequences.                                                       *)
LEMMA SeqClimb ==
  ASSUME NEW X, NEW S, <<>> \in S, \A h \in Seq(X), x \in X : h \in S => Append(h, x) \in S
  PROVE  Seq(X) \subseteq S
<1> DEFINE N == {n \in Nat : \A h \in Seq(X) : Len(h) = n => h \in S}
<1>1. 0 \in N
  <2>1. \A h \in Seq(X) : Len(h) = 0 => h = <<>>
    OBVIOUS
  <2> QED BY <2>1
<1>2. ASSUME NEW n \in Nat, n \in N PROVE n + 1 \in N
  <2> SUFFICES ASSUME NEW h \in Seq(X), Len(h) = n + 1 PROVE h \in S
    OBVIOUS
  <2>1. /\ SubSeq(h, 1, n) \in Seq(X) /\ h[n + 1] \in X /\ Len(SubSeq(h, 1, n)) = n
        /\ h = Append(SubSeq(h, 1, n), h[n + 1])
    OBVIOUS
  <2>2. SubSeq(h, 1, n) \in S
    BY <1>2, <2>1
  <2>3. Append(SubSeq(h, 1, n), h[n + 1]) \in S
    BY <2>1, <2>2
  <2> QED BY <2>1, <2>3
<1>3. Nat \subseteq N
  <2> HIDE DEF N
  <2> QED BY <1>1, <1>2, Climb
<1>4. ASSUME NEW h \in Seq(X) PROVE h \in S
  <2>1. Len(h) \in Nat
    OBVIOUS
  <2> QED BY <1>3, <2>1
<1> QED BY <1>4

Types == \A h \in Seq(EntrySet), r \in Nat :
  Booked(h) \in Nat /\ Taken(h, r) \in Nat /\ Without(h, r) \in Seq(EntrySet)

LEMMA SumTypes == Types
<1>1. \E e : e \in EntrySet
  <2>1. [length |-> 1, kind |-> "user", round |-> 0, opens |-> FALSE] \in EntrySet
    BY DEF EntrySet, Kinds
  <2> QED BY <2>1
<1> QED BY <1>1, BookedSteps, TakenSteps, WithoutSteps DEF Types

(* A round takes its part of the books, and leaves what is not its own:    *)
(* every entry of another round, and that much of the sum.                 *)
Apart(h, r) ==
  /\ Taken(h, r) <= Booked(h)
  /\ Booked(Without(h, r)) = Booked(h) - Taken(h, r)
  /\ \A k \in 1..Len(h) : h[k].round # r =>
       /\ Taken(h, r) + h[k].length <= Booked(h)
       /\ \E i \in 1..Len(Without(h, r)) : Without(h, r)[i] = h[k]
  /\ \A i \in 1..Len(Without(h, r)) :
       Without(h, r)[i].round # r /\ \E k \in 1..Len(h) : h[k] = Without(h, r)[i]

LEMMA RoundsApart == \A h \in Seq(EntrySet), r \in Nat : Apart(h, r)
<1> SUFFICES ASSUME NEW r \in Nat PROVE \A h \in Seq(EntrySet) : Apart(h, r)
  OBVIOUS
<1> DEFINE S == {h \in Seq(EntrySet) : Apart(h, r)}
<1>1. <<>> \in S
  <2>1. Taken(<<>>, r) = 0 /\ Booked(<<>>) = 0 /\ Without(<<>>, r) = <<>>
    BY BookedSteps, TakenSteps, WithoutSteps
  <2>2. <<>> \in Seq(EntrySet) /\ Len(<<>>) = 0
    OBVIOUS
  <2> QED BY <2>1, <2>2 DEF Apart
<1>2. ASSUME NEW h \in Seq(EntrySet), NEW e \in EntrySet, h \in S
      PROVE  Append(h, e) \in S
  <2> DEFINE c == Append(h, e)
             w == Without(h, r)
  <2>1. /\ c \in Seq(EntrySet) /\ Len(c) = Len(h) + 1 /\ Len(h) \in Nat /\ c[Len(h) + 1] = e
        /\ \A k \in 1..Len(h) : c[k] = h[k]
    OBVIOUS
  <2>2. /\ Booked(c) = Booked(h) + e.length /\ Taken(c, r) = More(Taken(h, r), e, r)
        /\ Without(c, r) = Rest(w, e, r)
    BY BookedSteps, TakenSteps, WithoutSteps
  <2>e. \A x \in EntrySet : x.length \in Nat /\ x.length > 0
    BY DEF EntrySet
  <2>k. \A k \in 1..Len(h) : h[k] \in EntrySet
    OBVIOUS
  <2>t. Booked(h) \in Nat /\ Taken(h, r) \in Nat /\ Without(h, r) \in Seq(EntrySet)
    BY SumTypes DEF Types
  <2>3. Booked(h) \in Nat /\ Taken(h, r) \in Nat /\ w \in Seq(EntrySet) /\ e.length \in Nat
        /\ e.length > 0 /\ \A k \in 1..Len(h) : h[k].length \in Nat
    BY <2>e, <2>k, <2>t
  <2>4. Apart(h, r)
    BY <1>2
  <2> HIDE DEF c, w
  <2>5. CASE e.round = r
    <3>1. Taken(c, r) = Taken(h, r) + e.length /\ Without(c, r) = w
      BY <2>2, <2>5 DEF More, Rest
    <3>2. Taken(c, r) <= Booked(c) /\ Booked(Without(c, r)) = Booked(c) - Taken(c, r)
      BY <2>2, <2>3, <2>4, <3>1 DEF Apart, w
    <3>3. ASSUME NEW k \in 1..Len(c), c[k].round # r
          PROVE  /\ Taken(c, r) + c[k].length <= Booked(c)
                 /\ \E i \in 1..Len(w) : w[i] = c[k]
      <4>1. k \in 1..Len(h) /\ c[k] = h[k]
        BY <2>1, <2>5, <3>3
      <4>2. Taken(h, r) + h[k].length <= Booked(h) /\ \E i \in 1..Len(w) : w[i] = h[k]
        BY <2>4, <3>3, <4>1 DEF Apart, w
      <4>3. h[k].length \in Nat
        BY <2>3, <4>1
      <4>4. (Taken(h, r) + e.length) + h[k].length <= Booked(h) + e.length
        <5>1. \A x, y, z, u \in Nat : x + z <= u => (x + y) + z <= u + y
          OBVIOUS
        <5> QED BY <2>3, <4>2, <4>3, <5>1
      <4>5. Taken(c, r) + c[k].length <= Booked(c)
        BY <2>2, <3>1, <4>1, <4>4
      <4> QED BY <4>1, <4>2, <4>5
    <3>4. ASSUME NEW i \in 1..Len(w)
          PROVE  w[i].round # r /\ \E k \in 1..Len(c) : c[k] = w[i]
      <4>1. w[i].round # r /\ \E k \in 1..Len(h) : h[k] = w[i]
        BY <2>4 DEF Apart, w
      <4> QED BY <2>1, <4>1
    <3>5. Apart(c, r)
      BY <3>1, <3>2, <3>3, <3>4 DEF Apart
    <3> QED BY <2>1, <3>5 DEF c
  <2>6. CASE e.round # r
    <3>1. Taken(c, r) = Taken(h, r) /\ Without(c, r) = Append(w, e)
      BY <2>2, <2>6 DEF More, Rest
    <3>w. /\ Append(w, e) \in Seq(EntrySet) /\ Len(Append(w, e)) = Len(w) + 1 /\ Len(w) \in Nat
          /\ Append(w, e)[Len(w) + 1] = e /\ \A i \in 1..Len(w) : Append(w, e)[i] = w[i]
      BY <2>3
    <3>2. Taken(c, r) <= Booked(c) /\ Booked(Without(c, r)) = Booked(c) - Taken(c, r)
      <4>1. Booked(Append(w, e)) = Booked(w) + e.length
        BY <2>3, BookedSteps
      <4> QED BY <2>2, <2>3, <2>4, <3>1, <4>1 DEF Apart, w
    <3>3. ASSUME NEW k \in 1..Len(c), c[k].round # r
          PROVE  /\ Taken(c, r) + c[k].length <= Booked(c)
                 /\ \E i \in 1..(Len(w) + 1) : Append(w, e)[i] = c[k]
      <4>1. CASE k = Len(h) + 1
        <5>1. c[k] = e /\ Taken(c, r) + e.length <= Booked(c)
          BY <2>1, <2>2, <2>3, <2>4, <3>1, <4>1 DEF Apart
        <5>2. Len(w) + 1 \in 1..(Len(w) + 1) /\ Append(w, e)[Len(w) + 1] = c[k]
          BY <3>w, <5>1
        <5> QED BY <5>1, <5>2
      <4>2. CASE k # Len(h) + 1
        <5>1. k \in 1..Len(h) /\ c[k] = h[k]
          BY <2>1, <4>2
        <5>2. Taken(h, r) + h[k].length <= Booked(h) /\ \E i \in 1..Len(w) : w[i] = h[k]
          BY <2>4, <3>3, <5>1 DEF Apart, w
        <5>3. h[k].length \in Nat
          BY <2>3, <5>1
        <5>4. Taken(c, r) + c[k].length <= Booked(c)
          BY <2>2, <2>3, <3>1, <5>1, <5>2, <5>3
        <5>5. PICK i \in 1..Len(w) : w[i] = h[k]
          BY <5>2
        <5>6. i \in 1..(Len(w) + 1) /\ Append(w, e)[i] = c[k]
          BY <3>w, <5>1, <5>5
        <5> QED BY <5>4, <5>6
      <4> QED BY <4>1, <4>2
    <3>4. ASSUME NEW i \in 1..(Len(w) + 1)
          PROVE  Append(w, e)[i].round # r /\ \E k \in 1..Len(c) : c[k] = Append(w, e)[i]
      <4>1. CASE i = Len(w) + 1
        <5>1. Append(w, e)[i] = e /\ Len(h) + 1 \in 1..Len(c) /\ c[Len(h) + 1] = e
          BY <2>1, <3>w, <4>1
        <5> QED BY <2>6, <5>1
      <4>2. CASE i # Len(w) + 1
        <5>1. i \in 1..Len(w) /\ Append(w, e)[i] = w[i]
          BY <3>w, <4>2
        <5>2. w[i].round # r /\ \E k \in 1..Len(h) : h[k] = w[i]
          BY <2>4, <5>1 DEF Apart, w
        <5>3. PICK k \in 1..Len(h) : h[k] = w[i]
          BY <5>2
        <5>4. k \in 1..Len(c) /\ c[k] = Append(w, e)[i]
          BY <2>1, <5>1, <5>3
        <5> QED BY <5>1, <5>2, <5>4
      <4> QED BY <4>1, <4>2
    <3>5. Apart(c, r)
      BY <3>1, <3>w, <3>2, <3>3, <3>4 DEF Apart
    <3> QED BY <2>1, <3>5 DEF c
  <2> QED BY <2>5, <2>6
<1>3. Seq(EntrySet) \subseteq S
  <2> HIDE DEF S
  <2> QED BY <1>1, <1>2, SeqClimb
<1> QED BY <1>3

LEMMA AppendJoins ==
  ASSUME NEW X, NEW e \in X
  PROVE  \A s, t \in Seq(X) : Append(s \o t, e) = s \o Append(t, e)
<1> SUFFICES ASSUME NEW s \in Seq(X), NEW t \in Seq(X)
             PROVE  Append(s \o t, e) = s \o Append(t, e)
  OBVIOUS
<1> DEFINE p == Append(s \o t, e)
           q == s \o Append(t, e)
<1>1. /\ p \in Seq(X) /\ q \in Seq(X) /\ Len(p) = Len(q)
      /\ \A i \in 1..Len(q) : p[i] = q[i]
  OBVIOUS
<1> HIDE DEF p, q
<1>2. p = q
  <2>1. \A x \in Seq(X) : x = [i \in 1..Len(x) |-> x[i]]
    OBVIOUS
  <2>2. [i \in 1..Len(p) |-> p[i]] = [i \in 1..Len(q) |-> q[i]]
    BY <1>1
  <2>3. p = [i \in 1..Len(p) |-> p[i]] /\ q = [i \in 1..Len(q) |-> q[i]]
    BY <1>1, <2>1
  <2> QED BY <2>2, <2>3
<1> QED BY <1>2 DEF p, q

(* Behind entries of other rounds, a round takes what it took before them. *)
Joined(a, b, r) ==
  /\ Booked(a \o b) = Booked(a) + Booked(b)
  /\ (\A i \in 1..Len(b) : b[i].round # r) =>
       Taken(a \o b, r) = Taken(a, r) /\ Without(a \o b, r) = Without(a, r) \o b

LEMMA SumsJoin == \A a, b \in Seq(EntrySet), r \in Nat : Joined(a, b, r)
<1> SUFFICES ASSUME NEW r \in Nat, NEW a \in Seq(EntrySet)
             PROVE  \A b \in Seq(EntrySet) : Joined(a, b, r)
  OBVIOUS
<1> DEFINE S == {b \in Seq(EntrySet) : Joined(a, b, r)}
<1>1. <<>> \in S
  <2>1. a \o <<>> = a /\ <<>> \in Seq(EntrySet)
    OBVIOUS
  <2>2. Without(a, r) \in Seq(EntrySet) /\ Booked(a) \in Nat
    BY SumTypes DEF Types
  <2>3. Without(a, r) \o <<>> = Without(a, r) /\ Booked(a) + 0 = Booked(a)
    BY <2>2
  <2>4. Booked(<<>>) = 0
    BY BookedSteps
  <2> QED BY <2>1, <2>3, <2>4 DEF Joined
<1>2. ASSUME NEW b \in Seq(EntrySet), NEW e \in EntrySet, b \in S
      PROVE  Append(b, e) \in S
  <2> DEFINE c == Append(b, e)
             ab == a \o b
  <2>1. /\ c \in Seq(EntrySet) /\ Len(c) = Len(b) + 1 /\ Len(b) \in Nat /\ c[Len(b) + 1] = e
        /\ (\A i \in 1..Len(b) : c[i] = b[i])
        /\ a \o c = Append(ab, e) /\ ab \in Seq(EntrySet)
    OBVIOUS
  <2>2. Joined(a, b, r)
    BY <1>2
  <2>3. Booked(a) \in Nat /\ Booked(b) \in Nat /\ e.length \in Nat /\ Without(a, r) \in Seq(EntrySet)
    BY SumTypes DEF Types, EntrySet
  <2> HIDE DEF ab
  <2>4. Booked(Append(ab, e)) = Booked(ab) + e.length /\ Booked(c) = Booked(b) + e.length
    BY <2>1, BookedSteps
  <2>5. Booked(a \o c) = Booked(a) + Booked(c)
    BY <2>1, <2>2, <2>3, <2>4 DEF Joined, ab
  <2>6. ASSUME \A i \in 1..Len(c) : c[i].round # r
        PROVE  Taken(a \o c, r) = Taken(a, r) /\ Without(a \o c, r) = Without(a, r) \o c
    <3>1. e.round # r /\ \A i \in 1..Len(b) : b[i].round # r
      BY <2>1, <2>6
    <3>2. Taken(ab, r) = Taken(a, r) /\ Without(ab, r) = Without(a, r) \o b
      BY <2>2, <3>1 DEF Joined, ab
    <3>a. Taken(Append(ab, e), r) = More(Taken(ab, r), e, r)
      BY <2>1, TakenSteps, Zenon
    <3>b. Without(Append(ab, e), r) = Rest(Without(ab, r), e, r)
      BY <2>1, WithoutSteps, Zenon
    <3>3. Taken(Append(ab, e), r) = Taken(ab, r) /\ Without(Append(ab, e), r) = Append(Without(ab, r), e)
      BY <3>1, <3>a, <3>b DEF More, Rest
    <3>4. Append(Without(a, r) \o b, e) = Without(a, r) \o c
      BY <2>3, AppendJoins
    <3> QED BY <2>1, <3>2, <3>3, <3>4
  <2> HIDE DEF c
  <2>7. Joined(a, c, r)
    BY <2>5, <2>6 DEF Joined
  <2> QED BY <2>1, <2>7 DEF c
<1>3. Seq(EntrySet) \subseteq S
  <2> HIDE DEF S
  <2> QED BY <1>1, <1>2, SeqClimb
<1> QED BY <1>3
-----------------------------------------------------------------------------
(* What holds of a model at any time: the books fit, and what is preserved *)
(* is the system prompt, with the entry that says so.                      *)
SystemBooked(m) ==
  m.preserve > 0 =>
    \E k \in 1..Len(m.history) :
      m.history[k].kind = "system" /\ m.history[k].length = m.preserve
Core(m) ==
  /\ m \in Models
  /\ Booked(m.history) <= Len(m.cache)
  /\ m.preserve <= Len(m.cache)
  /\ m.preserve \in {0, SystemSize}
  /\ \A i \in 1..Len(m.cache) : m.cache[i][2] = "system" <=> i <= m.preserve
  /\ SystemBooked(m)

(* The open turn is a tail of the history, and as many tokens at the end   *)
(* of the cache as that tail has booked: the marker first, and no header.  *)
OpenAt(m, pre, tail) ==
  /\ m.history = pre \o tail
  /\ \A i \in 1..Len(tail) : tail[i].round = m.nextRound /\ tail[i].kind # "system"
  /\ Booked(tail) > 0
  /\ \E d \in Nat :
       /\ d + Booked(tail) = Len(m.cache)
       /\ m.cache[d + 1][2] = "turn"
       /\ \A i \in 1..Len(m.cache) : i > d => m.cache[i][2] # "header"
Opened(m) ==
  /\ ~m.newUser
  /\ \E i \in 1..Len(m.history) : m.history[i].opens /\ m.history[i].round = m.nextRound
OpenOK(m) == Opened(m) => \E pre, tail \in Seq(EntrySet) : OpenAt(m, pre, tail)

(* What the window leaves alone. *)
Framed(m, d) ==
  /\ d.mode = m.mode /\ d.session = m.session /\ d.preserve = m.preserve
  /\ d.nextRound = m.nextRound /\ d.pending = m.pending /\ d.newUser = m.newUser
  /\ d.generated = m.generated /\ d.first = m.first
Within(m, d) == Core(d) /\ Framed(m, d) /\ (OpenOK(m) => OpenOK(d))

IsCut(w, c, p, n, X) ==
  /\ w \in Seq(X) /\ Len(w) + n = Len(c)
  /\ \A i \in 1..p : w[i] = c[i]
  /\ \A i \in 1..Len(w) : i > p => w[i] = c[i + n]

LEMMA CutSequence ==
  ASSUME NEW X, NEW c \in Seq(X), NEW p \in Nat, NEW n \in Nat, p + n <= Len(c)
  PROVE  IsCut(SubSeq(c, 1, p) \o SubSeq(c, p + n + 1, Len(c)), c, p, n, X)
<1> DEFINE w == SubSeq(c, 1, p) \o SubSeq(c, p + n + 1, Len(c))
<1>1. SubSeq(c, 1, p) \in Seq(X) /\ Len(SubSeq(c, 1, p)) = p /\ \A i \in 1..p : SubSeq(c, 1, p)[i] = c[i]
  OBVIOUS
<1> DEFINE b == SubSeq(c, p + n + 1, Len(c))
<1>2. b \in Seq(X) /\ Len(b) = Len(c) - (p + n) /\ \A i \in 1..Len(b) : b[i] = c[i + (p + n)]
  OBVIOUS
<1> HIDE DEF b
<1> DEFINE a == SubSeq(c, 1, p)
<1>3. a \in Seq(X) /\ Len(a) = p /\ \A i \in 1..p : a[i] = c[i]
  BY <1>1
<1>4. w = a \o b
  BY DEF b
<1> HIDE DEF a, w
<1>5. /\ w \in Seq(X) /\ Len(w) = p + Len(b)
      /\ \A i \in 1..p : w[i] = a[i]
      /\ \A i \in 1..Len(w) : i > p => w[i] = b[i - p]
  <2>1. \A s, t \in Seq(X) :
          /\ s \o t \in Seq(X) /\ Len(s \o t) = Len(s) + Len(t)
          /\ \A i \in 1..Len(s) : (s \o t)[i] = s[i]
          /\ \A i \in 1..Len(s \o t) : i > Len(s) => (s \o t)[i] = t[i - Len(s)]
    OBVIOUS
  <2>2. a \in Seq(X) /\ b \in Seq(X) /\ Len(a) = p
    BY <1>2, <1>3
  <2> QED BY <1>4, <2>1, <2>2
<1>6. Len(c) \in Nat
  OBVIOUS
<1>7. ASSUME NEW i \in 1..Len(w), i > p PROVE w[i] = c[i + n]
  <2>0. Len(b) \in Nat /\ Len(w) = p + Len(b)
    BY <1>2, <1>5
  <2>1. i - p \in 1..Len(b) /\ (i - p) + (p + n) = i + n
    BY <1>7, <2>0
  <2>2. w[i] = b[i - p] /\ b[i - p] = c[(i - p) + (p + n)]
    BY <1>2, <1>5, <1>7, <2>1
  <2> QED BY <2>1, <2>2
<1>8. Len(w) + n = Len(c)
  <2>1. Len(w) = p + Len(b) /\ Len(b) = Len(c) - (p + n)
    BY <1>2, <1>5
  <2> QED BY <1>6, <2>1
<1>9. \A i \in 1..p : w[i] = c[i]
  BY <1>3, <1>5
<1>10. IsCut(w, c, p, n, X)
  BY <1>5, <1>7, <1>8, <1>9 DEF IsCut
<1> QED BY <1>10 DEF w

(* The fields of a model behind a cut. *)
DropFields(d, r) ==
  LET n == Taken(d.history, r)
      w == DropRound(d, r).cache
  IN  /\ DropRound(d, r) \in Models
      /\ DropRound(d, r).history = Without(d.history, r)
      /\ Framed(d, DropRound(d, r))
      /\ n \in Nat /\ Len(w) + n = Len(d.cache)
      /\ \A i \in 1..d.preserve : w[i] = d.cache[i]
      /\ \A i \in 1..Len(w) : i > d.preserve => w[i] = d.cache[i + n]
      /\ d.preserve <= Len(w)
      /\ \A k \in 1..Len(d.history) : d.history[k].kind = "system" => d.history[k].round # r

LEMMA DropGives ==
  ASSUME NEW d \in Models, NEW r \in Nat, Droppable(d, r)
  PROVE  DropFields(d, r)
<1> DEFINE n == Taken(d.history, r)
           w == SubSeq(d.cache, 1, d.preserve)
                  \o SubSeq(d.cache, d.preserve + n + 1, Len(d.cache))
<1>1. d.history \in Seq(EntrySet) /\ d.cache \in Seq(TokenSet) /\ d.preserve \in Nat
      /\ Len(d.cache) \in Nat
  BY DEF Models
<1>2. n = RoundLength(d, r)
  BY DEF RoundLength, Taken
<1>3. n \in Nat /\ Without(d.history, r) \in Seq(EntrySet)
  BY <1>1, SumTypes DEF Types
<1>4. d.preserve + n <= Len(d.cache)
  BY <1>2 DEF Droppable, CanDrop
<1>5. /\ w \in Seq(TokenSet) /\ Len(w) + n = Len(d.cache)
      /\ \A i \in 1..d.preserve : w[i] = d.cache[i]
      /\ \A i \in 1..Len(w) : i > d.preserve => w[i] = d.cache[i + n]
  <2>1. IsCut(w, d.cache, d.preserve, n, TokenSet)
    <3> HIDE DEF n
    <3> QED BY <1>1, <1>3, <1>4, CutSequence
  <2> HIDE DEF n, w
  <2> QED BY <2>1 DEF IsCut
<1>6. DropRound(d, r) = [d EXCEPT !.cache = w, !.history = Without(@, r)]
  BY <1>2 DEF DropRound, Cut, Models
<1> HIDE DEF n, w
<1>7. /\ DropRound(d, r) \in Models /\ DropRound(d, r).cache = w
      /\ DropRound(d, r).history = Without(d.history, r) /\ Framed(d, DropRound(d, r))
  BY <1>3, <1>5, <1>6 DEF Models, Framed
<1>8. d.preserve <= Len(w)
  <2>1. Len(w) \in Nat
    BY <1>5
  <2> QED BY <1>1, <1>3, <1>4, <1>5, <2>1
<1>9. \A k \in 1..Len(d.history) : d.history[k].kind = "system" => d.history[k].round # r
  BY <1>1 DEF Droppable, Entries
<1> QED BY <1>3, <1>5, <1>7, <1>8, <1>9 DEF DropFields, n
(* What a cut takes lies between the system prompt and the open turn. *)
CutBefore(d, r, pre, tail) ==
  /\ Without(d.history, r) = Without(pre, r) \o tail
  /\ Taken(d.history, r) = Taken(pre, r)
  /\ \A x \in Nat : x + Booked(tail) = Len(d.cache) => d.preserve + Taken(pre, r) <= x

LEMMA CutBeforeTurn ==
  ASSUME NEW d, Core(d), NEW r \in Nat, r # d.nextRound, Droppable(d, r),
         NEW pre \in Seq(EntrySet), NEW tail \in Seq(EntrySet), OpenAt(d, pre, tail)
  PROVE  CutBefore(d, r, pre, tail)
<1>0. d \in Models /\ d.history = pre \o tail /\ d.preserve \in Nat
  BY DEF Core, OpenAt, Models
<1>1. DropFields(d, r)
  BY <1>0, DropGives
<1>2. \A i \in 1..Len(tail) : tail[i].round # r /\ tail[i].kind # "system"
  BY DEF OpenAt
<1>3. Joined(pre, tail, r) /\ Apart(pre, r)
  BY SumsJoin, RoundsApart
<1>4. /\ Booked(d.history) = Booked(pre) + Booked(tail)
      /\ Taken(d.history, r) = Taken(pre, r)
      /\ Without(d.history, r) = Without(pre, r) \o tail
  BY <1>0, <1>2, <1>3 DEF Joined
<1>5. Booked(pre) \in Nat /\ Booked(tail) \in Nat /\ Taken(pre, r) \in Nat
  BY SumTypes DEF Types
<1>6. d.preserve + Taken(pre, r) <= Booked(pre)
  <2>1. CASE d.preserve = 0
    BY <1>3, <1>5, <2>1 DEF Apart
  <2>2. CASE d.preserve > 0
    <3>1. PICK k \in 1..Len(d.history) : d.history[k].kind = "system" /\ d.history[k].length = d.preserve
      BY <2>2 DEF Core, SystemBooked
    <3>2. d.history[k].round # r
      BY <1>1, <3>1 DEF DropFields
    <3>3. k \in 1..Len(pre) /\ d.history[k] = pre[k]
      <4>1. /\ Len(pre) \in Nat /\ Len(tail) \in Nat /\ Len(pre \o tail) = Len(pre) + Len(tail)
            /\ \A i \in 1..Len(pre) : (pre \o tail)[i] = pre[i]
            /\ \A i \in 1..Len(pre \o tail) : i > Len(pre) =>
                 i - Len(pre) \in 1..Len(tail) /\ (pre \o tail)[i] = tail[i - Len(pre)]
        OBVIOUS
      <4> QED BY <1>0, <1>2, <3>1, <4>1
    <3>4. Taken(pre, r) + pre[k].length <= Booked(pre)
      BY <1>3, <3>2, <3>3 DEF Apart
    <3>5. Taken(pre, r) + d.preserve <= Booked(pre)
      BY <3>1, <3>3, <3>4
    <3> QED BY <1>0, <1>5, <3>5
  <2> QED BY <1>0, <2>1, <2>2
<1>7. ASSUME NEW x \in Nat, x + Booked(tail) = Len(d.cache)
      PROVE  d.preserve + Taken(pre, r) <= x
  <2>1. Booked(pre) + Booked(tail) <= Len(d.cache)
    BY <1>4 DEF Core
  <2>2. \A a, b, c, e \in Nat : a + b <= c + b /\ e <= a => e <= c
    OBVIOUS
  <2>3. d.preserve + Taken(pre, r) \in Nat
    BY <1>0, <1>5
  <2> QED BY <1>5, <1>6, <1>7, <2>1, <2>2, <2>3
<1> QED BY <1>4, <1>7 DEF CutBefore

LEMMA DropKeeps ==
  ASSUME NEW d, Core(d), NEW r \in Nat, Droppable(d, r)
  PROVE  Within(d, DropRound(d, r))
<1> DEFINE n == Taken(d.history, r)
<1>0. d \in Models /\ d.preserve \in Nat /\ d.history \in Seq(EntrySet) /\ Len(d.cache) \in Nat
  BY DEF Core, Models
<1>1. DropFields(d, r)
  BY <1>0, DropGives
<1> DEFINE x == DropRound(d, r)
<1> HIDE DEF x
<1>2. /\ x \in Models /\ x.history = Without(d.history, r) /\ Framed(d, x)
      /\ n \in Nat /\ Len(x.cache) + n = Len(d.cache)
      /\ d.preserve <= Len(x.cache) /\ x.preserve = d.preserve /\ Len(x.cache) \in Nat
  BY <1>1 DEF DropFields, x, Framed, Models
<1>3. /\ \A i \in 1..d.preserve : x.cache[i] = d.cache[i]
      /\ \A i \in 1..Len(x.cache) : i > d.preserve => x.cache[i] = d.cache[i + n]
  BY <1>1 DEF DropFields, x
<1>4. \A k \in 1..Len(d.history) : d.history[k].kind = "system" => d.history[k].round # r
  BY <1>1 DEF DropFields
<1>5. Apart(d.history, r) /\ Booked(d.history) \in Nat /\ Booked(x.history) \in Nat
  BY <1>0, <1>2, RoundsApart, SumTypes DEF Types, Models
<1>6. Core(x)
  <2>1. Booked(x.history) <= Len(x.cache)
    <3>1. Booked(x.history) = Booked(d.history) - n /\ Booked(d.history) <= Len(d.cache)
      BY <1>2, <1>5 DEF Apart, Core
    <3> HIDE DEF n
    <3> QED BY <1>0, <1>2, <1>5, <3>1
  <2>2. \A i \in 1..Len(x.cache) : x.cache[i][2] = "system" <=> i <= x.preserve
    <3> SUFFICES ASSUME NEW i \in 1..Len(x.cache) PROVE x.cache[i][2] = "system" <=> i <= d.preserve
      BY <1>2
    <3>0. \A j \in 1..Len(d.cache) : d.cache[j][2] = "system" <=> j <= d.preserve
      BY DEF Core
    <3> HIDE DEF n
    <3>1. CASE i <= d.preserve
      <4>1. i \in 1..Len(d.cache) /\ x.cache[i] = d.cache[i]
        BY <1>0, <1>2, <1>3, <3>1
      <4> QED BY <3>0, <3>1, <4>1
    <3>2. CASE i > d.preserve
      <4>1. i + n \in 1..Len(d.cache) /\ x.cache[i] = d.cache[i + n] /\ ~(i + n <= d.preserve)
        BY <1>0, <1>2, <1>3, <3>2
      <4>2. ~(i <= d.preserve)
        BY <1>0, <3>2
      <4> QED BY <3>0, <4>1, <4>2
    <3> QED BY <1>0, <3>1, <3>2
  <2>3. SystemBooked(x)
    <3> SUFFICES ASSUME d.preserve > 0
                 PROVE  \E k \in 1..Len(x.history) :
                          x.history[k].kind = "system" /\ x.history[k].length = d.preserve
      BY <1>2 DEF SystemBooked
    <3>1. PICK k \in 1..Len(d.history) : d.history[k].kind = "system" /\ d.history[k].length = d.preserve
      BY DEF Core, SystemBooked
    <3>2. \E i \in 1..Len(x.history) : x.history[i] = d.history[k]
      BY <1>2, <1>4, <1>5, <3>1 DEF Apart
    <3> QED BY <3>1, <3>2
  <2> QED BY <1>2, <2>1, <2>2, <2>3 DEF Core
<1>7. ASSUME OpenOK(d), Opened(x) PROVE \E pre, tail \in Seq(EntrySet) : OpenAt(x, pre, tail)
  <2>0. x.nextRound = d.nextRound /\ x.newUser = d.newUser
    BY <1>2 DEF Framed
  <2>1. r # d.nextRound /\ Opened(d)
    <3>1. PICK i \in 1..Len(x.history) : x.history[i].opens /\ x.history[i].round = d.nextRound
      BY <1>7, <2>0 DEF Opened
    <3>2. x.history[i].round # r /\ \E k \in 1..Len(d.history) : d.history[k] = x.history[i]
      BY <1>2, <1>5, <3>1 DEF Apart
    <3> QED BY <1>7, <2>0, <3>1, <3>2 DEF Opened
  <2>2. PICK pre, tail \in Seq(EntrySet) : OpenAt(d, pre, tail)
    BY <1>7, <2>1 DEF OpenOK
  <2>3. PICK t \in Nat : /\ t + Booked(tail) = Len(d.cache)
                         /\ d.cache[t + 1][2] = "turn"
                         /\ \A i \in 1..Len(d.cache) : i > t => d.cache[i][2] # "header"
    BY <2>2 DEF OpenAt
  <2>4. x.history = Without(pre, r) \o tail /\ d.preserve + n <= t
    <3>1. CutBefore(d, r, pre, tail)
      BY <2>1, <2>2, CutBeforeTurn, Zenon
    <3>2. Without(d.history, r) = Without(pre, r) \o tail /\ n = Taken(pre, r)
          /\ d.preserve + Taken(pre, r) <= t
      BY <2>3, <3>1 DEF CutBefore
    <3> QED BY <1>2, <3>2
  <2>5. Booked(tail) \in Nat /\ Booked(tail) > 0 /\ Without(pre, r) \in Seq(EntrySet)
    BY <2>2, SumTypes DEF Types, OpenAt
  <2> HIDE DEF n
  <2>n. n \in Nat /\ t \in Nat /\ d.preserve \in Nat /\ Len(x.cache) \in Nat /\ Len(d.cache) \in Nat
        /\ d.preserve + n <= t /\ Len(x.cache) + n = Len(d.cache) /\ t + Booked(tail) = Len(d.cache)
    BY <1>0, <1>2, <2>3, <2>4
  <2>6. t - n \in Nat /\ (t - n) + Booked(tail) = Len(x.cache)
    <3>1. \A a, b, p \in Nat : p + b <= a => b <= a /\ a - b \in Nat
      OBVIOUS
    <3>2. n <= t /\ t - n \in Nat
      BY <2>n, <3>1
    <3>3. PICK b \in Nat : b = Booked(tail)
      BY <2>5
    <3>5. PICK c \in Nat : c = Len(x.cache)
      BY <2>n
    <3>6. c + n = t + b
      BY <2>n, <3>3, <3>5
    <3>7. (t - n) + b = c
      BY <2>n, <3>2, <3>6
    <3>4. (t - n) + Booked(tail) = Len(x.cache)
      BY <3>3, <3>5, <3>7
    <3> QED BY <3>2, <3>4
  <2>7. x.cache[(t - n) + 1][2] = "turn"
    <3>1. (t - n) + 1 \in 1..Len(x.cache) /\ (t - n) + 1 > d.preserve /\ ((t - n) + 1) + n = t + 1
      BY <2>5, <2>n
    <3> QED BY <1>3, <2>3, <3>1
  <2>8. ASSUME NEW i \in 1..Len(x.cache), i > t - n PROVE x.cache[i][2] # "header"
    <3>1. i > d.preserve /\ i + n \in 1..Len(d.cache) /\ i + n > t
      BY <2>8, <2>n
    <3> QED BY <1>3, <2>3, <3>1
  <2>9. OpenAt(x, Without(pre, r), tail)
    <3>1. \A i \in 1..Len(tail) : tail[i].round = x.nextRound /\ tail[i].kind # "system"
      BY <2>0, <2>2 DEF OpenAt
    <3> QED BY <2>4, <2>5, <2>6, <2>7, <2>8, <3>1 DEF OpenAt
  <2> QED BY <2>5, <2>9
<1>8. Within(d, x)
  BY <1>2, <1>6, <1>7 DEF Within, OpenOK
<1> QED BY <1>8 DEF x
LEMMA WindowKeeps ==
  ASSUME NEW m, Core(m)
  PROVE  Within(m, EnforceTextWindow(m))
<1>0. Within(m, m)
  BY DEF Within, Framed
<1> DEFINE M == {d \in Models : Within(m, d)}
           Slide(d, e) == IF Len(d.cache) > Low /\ Droppable(d, e.round)
                          THEN DropRound(d, e.round) ELSE d
           next == [p \in M \X EntrySet |-> Slide(p[1], p[2])]
           All(h) == FoldLeft(LAMBDA d, e : IF Len(d.cache) > Low /\ Droppable(d, e.round)
                                            THEN DropRound(d, e.round) ELSE d, m, h)
           V == [h \in Seq(EntrySet) |-> All(h)]
<1>1. m \in M /\ m.history \in Seq(EntrySet)
  BY <1>0 DEF Core, Models
<1>2. ASSUME NEW d \in M, NEW e \in EntrySet PROVE Slide(d, e) \in M
  <2>0. e.round \in Nat /\ Within(m, d)
    BY DEF EntrySet
  <2>1. CASE Droppable(d, e.round)
    <3> DEFINE x == DropRound(d, e.round)
    <3>1. Within(d, x)
      BY <2>0, <2>1, DropKeeps DEF Within
    <3> HIDE DEF x
    <3>2. Within(m, x)
      BY <2>0, <3>1 DEF Within, Framed
    <3>3. x \in M
      BY <3>2 DEF Within, Core
    <3> QED BY <3>3 DEF x
  <2> QED BY <2>1
<1>3. next \in [M \X EntrySet -> M] /\ \A d \in M, e \in EntrySet : next[<<d, e>>] = Slide(d, e)
  <2> HIDE DEF M, Slide
  <2> QED BY <1>2
<1>4. FoldOf(V, M, EntrySet, m, next)
  <2> SUFFICES ASSUME NEW h \in Seq(EntrySet), NEW g \in [SUBSET DOMAIN h -> M], Goes(g, m, next, h)
               PROVE  \E f : Folds(f, M, m, next, h) /\ V[h] = f[DOMAIN h]
    BY DEF FoldOf
  <2> HIDE DEF next, M
  <2> DEFINE R(f) == f = [T \in SUBSET DOMAIN h |->
                            IF T = {} THEN m ELSE Slide(f[T \ {Max(T)}], h[Max(T)])]
  <2>1. \A T \in SUBSET DOMAIN h : T # {} =>
          Max(T) \in DOMAIN h /\ h[Max(T)] \in EntrySet /\ T \ {Max(T)} \in SUBSET DOMAIN h
    BY Top
  <2>2. R(g)
    <3> HIDE DEF Slide
    <3>1. ASSUME NEW T \in SUBSET DOMAIN h
          PROVE  g[T] = IF T = {} THEN m ELSE Slide(g[T \ {Max(T)}], h[Max(T)])
      BY <1>3, <2>1 DEF Goes
    <3> QED BY <3>1
  <2>3. \E f : R(f) /\ All(h) = f[DOMAIN h]
    BY <2>2 DEF FoldLeft, MapThenFoldSet
  <2>4. ASSUME NEW f, R(f) PROVE Folds(f, M, m, next, h)
    <3> HIDE DEF Slide
    <3> QED BY <1>3, <2>1, <2>4 DEF Folds
  <2> HIDE DEF R, All
  <2> QED BY <2>3, <2>4
<1>5. Steps(V, M, EntrySet, m, next)
  <2> HIDE DEF next, V, M
  <2> QED BY <1>1, <1>3, <1>4, FoldSteps, Zenon
<1>6. All(m.history) \in M
  <2>1. \E e : e \in EntrySet
    <3>1. [length |-> 1, kind |-> "user", round |-> 0, opens |-> FALSE] \in EntrySet
      BY DEF EntrySet, Kinds
    <3> QED BY <3>1
  <2>2. V[m.history] = All(m.history)
    <3> HIDE DEF All
    <3> QED BY <1>1
  <2> HIDE DEF next, V, M, All
  <2> QED BY <1>1, <1>5, <2>1, <2>2 DEF Steps
<1>7. CASE Len(m.cache) <= High
  BY <1>0, <1>7 DEF EnforceTextWindow
<1>8. CASE ~(Len(m.cache) <= High)
  <2>1. EnforceTextWindow(m) = All(m.history)
    BY <1>8 DEF EnforceTextWindow
  <2>2. Within(m, All(m.history))
    <3> HIDE DEF All
    <3> QED BY <1>6
  <2> QED BY <2>1, <2>2
<1> QED BY <1>7, <1>8
-----------------------------------------------------------------------------
(* Tokens and entries behind what is there. *)
LEMMA TokensAre ==
  ASSUME NEW r \in Nat, NEW k \in Kinds, NEW n \in Nat
  PROVE  /\ Tokens(r, k, n) \in Seq(TokenSet) /\ Len(Tokens(r, k, n)) = n
         /\ \A i \in 1..n : Tokens(r, k, n)[i] = <<r, k>>
<1>1. <<r, k>> \in TokenSet
  BY DEF TokenSet
<1> QED BY <1>1 DEF Tokens

FedFacts(m, s) ==
  LET x == Fed(m, s)
  IN  /\ Core(x) /\ Framed(m, x) /\ x.history = m.history
      /\ x.cache \in Seq(TokenSet) /\ Len(x.cache) = Len(m.cache) + Len(s)
      /\ \A i \in 1..Len(m.cache) : x.cache[i] = m.cache[i]
      /\ \A i \in 1..Len(x.cache) : i > Len(m.cache) =>
           i - Len(m.cache) \in 1..Len(s) /\ x.cache[i] = s[i - Len(m.cache)]

LEMMA FedKeeps ==
  ASSUME NEW m, Core(m), NEW s \in Seq(TokenSet), \A i \in 1..Len(s) : s[i][2] # "system"
  PROVE  FedFacts(m, s)
<1> DEFINE x == Fed(m, s)
           c == m.cache
<1>0. m \in Models /\ c \in Seq(TokenSet) /\ Len(c) \in Nat /\ Len(s) \in Nat /\ m.preserve \in Nat
      /\ m.history \in Seq(EntrySet)
  BY DEF Core, Models
<1>1. \A a, b \in Seq(TokenSet) :
        /\ a \o b \in Seq(TokenSet) /\ Len(a \o b) = Len(a) + Len(b)
        /\ \A i \in 1..Len(a) : (a \o b)[i] = a[i]
        /\ \A i \in 1..Len(a \o b) : i > Len(a) =>
             i - Len(a) \in 1..Len(b) /\ (a \o b)[i] = b[i - Len(a)]
  OBVIOUS
<1>2. x.cache = c \o s /\ x.history = m.history /\ Framed(m, x)
  BY <1>0 DEF Fed, Framed, Models
<1>3. x \in Models
  BY <1>0, <1>1 DEF Fed, Models
<1> HIDE DEF x, c
<1>4. /\ x.cache \in Seq(TokenSet) /\ Len(x.cache) = Len(c) + Len(s)
      /\ \A i \in 1..Len(c) : x.cache[i] = c[i]
      /\ \A i \in 1..Len(x.cache) : i > Len(c) =>
           i - Len(c) \in 1..Len(s) /\ x.cache[i] = s[i - Len(c)]
  BY <1>0, <1>1, <1>2
<1>5. /\ Booked(m.history) <= Len(c) /\ m.preserve <= Len(c) /\ m.preserve \in {0, SystemSize}
      /\ \A i \in 1..Len(c) : c[i][2] = "system" <=> i <= m.preserve
      /\ SystemBooked(m)
  BY DEF Core, c
<1>6. Booked(m.history) \in Nat
  BY <1>0, SumTypes DEF Types
<1>7. \A i \in 1..Len(x.cache) : x.cache[i][2] = "system" <=> i <= m.preserve
  <2> SUFFICES ASSUME NEW i \in 1..Len(x.cache) PROVE x.cache[i][2] = "system" <=> i <= m.preserve
    OBVIOUS
  <2>1. CASE i \in 1..Len(c)
    BY <1>4, <1>5, <2>1
  <2>2. CASE i > Len(c)
    <3>1. ~(i <= m.preserve)
      BY <1>0, <1>5, <2>2
    <3>2. x.cache[i][2] # "system"
      BY <1>4, <2>2
    <3> QED BY <3>1, <3>2
  <2> QED BY <1>0, <2>1, <2>2
<1>8. Booked(m.history) <= Len(x.cache) /\ m.preserve <= Len(x.cache)
  BY <1>0, <1>4, <1>5, <1>6
<1>9. x.preserve = m.preserve
  BY <1>2 DEF Framed
<1>10. SystemBooked(x)
  BY <1>2, <1>5, <1>9 DEF SystemBooked
<1>11. Core(x)
  BY <1>2, <1>3, <1>5, <1>7, <1>8, <1>9, <1>10 DEF Core
<1> QED BY <1>2, <1>4, <1>11 DEF FedFacts, x, c

Entry(n, kind, r, opens) == [length |-> n, kind |-> kind, round |-> r, opens |-> opens]
RegisterFacts(m, n, kind, r, opens) ==
  LET x == RegisterChunk(m, n, kind, r, opens)
  IN  /\ Core(x) /\ Framed(m, x) /\ x.cache = m.cache
      /\ x.history = IF n = 0 THEN m.history ELSE Append(m.history, Entry(n, kind, r, opens))
      /\ Booked(x.history) = Booked(m.history) + n

LEMMA RegisterKeeps ==
  ASSUME NEW m, Core(m), NEW n \in Nat, NEW kind \in Kinds, kind # "system",
         NEW r \in Nat, NEW opens \in BOOLEAN, Booked(m.history) + n <= Len(m.cache)
  PROVE  RegisterFacts(m, n, kind, r, opens)
<1>0. m \in Models /\ m.history \in Seq(EntrySet) /\ Booked(m.history) \in Nat
  BY SumTypes DEF Core, Models, Types
<1>1. CASE n = 0
  BY <1>0, <1>1 DEF RegisterChunk, RegisterFacts, Framed
<1>2. CASE n # 0
  <2> DEFINE e == Entry(n, kind, r, opens)
             x == RegisterChunk(m, n, kind, r, opens)
  <2>1. e \in EntrySet /\ e.length = n
    BY <1>2 DEF EntrySet, Entry
  <2>2. Append(m.history, e) \in Seq(EntrySet) /\ Booked(Append(m.history, e)) = Booked(m.history) + n
    BY <1>0, <2>1, BookedSteps
  <2>3. x = [m EXCEPT !.history = Append(@, e)]
    BY <1>0, <1>2 DEF RegisterChunk, Entry, Models
  <2> HIDE DEF e, x
  <2>4. x \in Models /\ x.cache = m.cache /\ Framed(m, x) /\ x.history = Append(m.history, e)
    BY <1>0, <2>2, <2>3 DEF Models, Framed
  <2>5. SystemBooked(x)
    <3>1. \A k \in 1..Len(m.history) : k \in 1..Len(Append(m.history, e)) /\ Append(m.history, e)[k] = m.history[k]
      BY <1>0
    <3>2. x.preserve = m.preserve /\ SystemBooked(m)
      BY <2>4 DEF Framed, Core
    <3> QED BY <2>4, <3>1, <3>2 DEF SystemBooked
  <2>6. Core(x)
    BY <2>2, <2>4, <2>5 DEF Core, Framed
  <2> QED BY <1>2, <2>2, <2>4, <2>6 DEF RegisterFacts, x, e
<1> QED BY <1>1, <1>2
(* A message opens a turn, goes on with one, or there is no open turn.     *)
Opens(m, s, opens) ==
  /\ opens /\ s[1][2] = "turn"
  /\ \A i \in 1..Len(s) : s[i][2] # "header"
GoesOn(m, s, opens) ==
  /\ ~opens /\ OpenOK(m)
  /\ \A i \in 1..Len(s) : s[i][2] # "header"

LEMMA TurnOpens ==
  ASSUME NEW m, Core(m), NEW s \in Seq(TokenSet), s # <<>>,
         \A i \in 1..Len(s) : s[i][2] # "system", Opens(m, s, TRUE)
  PROVE  OpenOK(RegisterChunk(Fed(m, s), Len(s), "user", m.nextRound, TRUE))
<1> DEFINE f == Fed(m, s)
           x == RegisterChunk(f, Len(s), "user", m.nextRound, TRUE)
           e == Entry(Len(s), "user", m.nextRound, TRUE)
<1>0. /\ m \in Models /\ m.history \in Seq(EntrySet) /\ m.nextRound \in Nat /\ Len(s) \in Nat \ {0}
      /\ m.cache \in Seq(TokenSet) /\ Len(m.cache) \in Nat
  BY DEF Core, Models
<1>1. FedFacts(m, s)
  BY FedKeeps
<1>2. Booked(m.history) \in Nat /\ Booked(m.history) <= Len(m.cache)
  BY <1>0, SumTypes DEF Types, Core
<1>3. RegisterFacts(f, Len(s), "user", m.nextRound, TRUE)
  <2>1. Core(f) /\ Booked(f.history) + Len(s) <= Len(f.cache)
    BY <1>0, <1>1, <1>2 DEF FedFacts
  <2>2. "user" \in Kinds
    BY DEF Kinds
  <2> HIDE DEF f
  <2> QED BY <1>0, <2>1, <2>2, RegisterKeeps
<1>4. e \in EntrySet /\ e.length = Len(s) /\ e.kind = "user" /\ e.round = m.nextRound
  BY <1>0 DEF Entry, EntrySet, Kinds
<1>5. x.history = Append(m.history, e) /\ x.cache = f.cache /\ x.nextRound = m.nextRound
  BY <1>0, <1>1, <1>3 DEF FedFacts, RegisterFacts, Framed
<1>6. /\ Len(x.cache) = Len(m.cache) + Len(s)
      /\ \A i \in 1..Len(x.cache) : i > Len(m.cache) =>
           i - Len(m.cache) \in 1..Len(s) /\ x.cache[i] = s[i - Len(m.cache)]
  BY <1>1, <1>5 DEF FedFacts
<1> HIDE DEF f, x, e
<1>7. <<e>> \in Seq(EntrySet) /\ Len(<<e>>) = 1 /\ <<e>>[1] = e /\ Append(<<>>, e) = <<e>>
      /\ <<>> \in Seq(EntrySet)
  BY <1>4
<1>8. Append(m.history, e) = m.history \o <<e>>
  BY <1>0, <1>4
<1>9. Booked(<<e>>) = Len(s)
  <2>1. Booked(Append(<<>>, e)) = Booked(<<>>) + e.length /\ Booked(<<>>) = 0
    BY <1>4, <1>7, BookedSteps
  <2> QED BY <1>0, <1>4, <1>7, <2>1
<1>10. x.cache[Len(m.cache) + 1][2] = "turn"
  <2>1. Len(m.cache) + 1 \in 1..Len(x.cache) /\ Len(m.cache) + 1 > Len(m.cache)
        /\ (Len(m.cache) + 1) - Len(m.cache) = 1
    BY <1>0, <1>6
  <2> QED BY <1>6, <2>1 DEF Opens
<1>11. \A i \in 1..Len(x.cache) : i > Len(m.cache) => x.cache[i][2] # "header"
  BY <1>6 DEF Opens
<1>12. OpenAt(x, m.history, <<e>>)
  <2>1. \A i \in 1..Len(<<e>>) : <<e>>[i].round = x.nextRound /\ <<e>>[i].kind # "system"
    BY <1>4, <1>5, <1>7
  <2>2. Booked(<<e>>) > 0
    BY <1>0, <1>9
  <2> QED BY <1>0, <1>5, <1>6, <1>8, <1>9, <1>10, <1>11, <2>1, <2>2 DEF OpenAt
<1>13. OpenOK(x)
  BY <1>0, <1>7, <1>12 DEF OpenOK
<1> QED BY <1>13 DEF x, f

LEMMA TurnGoesOn ==
  ASSUME NEW m, Core(m), NEW s \in Seq(TokenSet), s # <<>>,
         \A i \in 1..Len(s) : s[i][2] # "system", GoesOn(m, s, FALSE)
  PROVE  OpenOK(RegisterChunk(Fed(m, s), Len(s), "user", m.nextRound, FALSE))
<1> DEFINE f == Fed(m, s)
           x == RegisterChunk(f, Len(s), "user", m.nextRound, FALSE)
           e == Entry(Len(s), "user", m.nextRound, FALSE)
<1>0. /\ m \in Models /\ m.history \in Seq(EntrySet) /\ m.nextRound \in Nat /\ Len(s) \in Nat \ {0}
      /\ m.cache \in Seq(TokenSet) /\ Len(m.cache) \in Nat
  BY DEF Core, Models
<1>1. FedFacts(m, s)
  BY FedKeeps
<1>2. Booked(m.history) \in Nat /\ Booked(m.history) <= Len(m.cache)
  BY <1>0, SumTypes DEF Types, Core
<1>3. RegisterFacts(f, Len(s), "user", m.nextRound, FALSE)
  <2>1. Core(f) /\ Booked(f.history) + Len(s) <= Len(f.cache)
    BY <1>0, <1>1, <1>2 DEF FedFacts
  <2>2. "user" \in Kinds
    BY DEF Kinds
  <2> HIDE DEF f
  <2> QED BY <1>0, <2>1, <2>2, RegisterKeeps
<1>4. /\ e \in EntrySet /\ e.length = Len(s) /\ e.kind = "user" /\ e.round = m.nextRound
      /\ e.opens = FALSE
  BY <1>0 DEF Entry, EntrySet, Kinds
<1>5. /\ x.history = Append(m.history, e) /\ x.cache = f.cache /\ x.nextRound = m.nextRound
      /\ x.newUser = m.newUser
  BY <1>0, <1>1, <1>3 DEF FedFacts, RegisterFacts, Framed
<1>6. /\ Len(x.cache) = Len(m.cache) + Len(s)
      /\ \A i \in 1..Len(m.cache) : x.cache[i] = m.cache[i]
      /\ \A i \in 1..Len(x.cache) : i > Len(m.cache) =>
           i - Len(m.cache) \in 1..Len(s) /\ x.cache[i] = s[i - Len(m.cache)]
  BY <1>1, <1>5 DEF FedFacts
<1> HIDE DEF f, x, e
<1>7. ASSUME Opened(x) PROVE \E pre, tail \in Seq(EntrySet) : OpenAt(x, pre, tail)
  <2>1. Opened(m)
    <3>1. PICK i \in 1..Len(x.history) : x.history[i].opens /\ x.history[i].round = m.nextRound
      BY <1>5, <1>7 DEF Opened
    <3>2. i \in 1..Len(m.history) /\ x.history[i] = m.history[i]
      <4>1. /\ Len(Append(m.history, e)) = Len(m.history) + 1 /\ Append(m.history, e)[Len(m.history) + 1] = e
            /\ \A j \in 1..Len(m.history) : Append(m.history, e)[j] = m.history[j]
            /\ Len(m.history) \in Nat
        BY <1>0, <1>4
      <4> QED BY <1>4, <1>5, <3>1, <4>1
    <3> QED BY <1>5, <1>7, <3>1, <3>2 DEF Opened
  <2>2. PICK pre, tail \in Seq(EntrySet) : OpenAt(m, pre, tail)
    BY <2>1 DEF GoesOn, OpenOK
  <2>3. PICK d \in Nat : /\ d + Booked(tail) = Len(m.cache)
                         /\ m.cache[d + 1][2] = "turn"
                         /\ \A i \in 1..Len(m.cache) : i > d => m.cache[i][2] # "header"
    BY <2>2 DEF OpenAt
  <2> DEFINE t == Append(tail, e)
  <2>4. /\ t \in Seq(EntrySet) /\ Len(t) = Len(tail) + 1 /\ t[Len(tail) + 1] = e /\ Len(tail) \in Nat
        /\ \A i \in 1..Len(tail) : t[i] = tail[i]
    BY <1>4
  <2>5. Booked(t) = Booked(tail) + Len(s) /\ Booked(tail) \in Nat /\ Booked(tail) > 0
    BY <1>4, <2>2, BookedSteps DEF OpenAt
  <2>6. x.history = pre \o t
    <3>1. m.history = pre \o tail
      BY <2>2 DEF OpenAt
    <3>2. Append(pre \o tail, e) = pre \o Append(tail, e)
      BY <1>4, AppendJoins
    <3> QED BY <1>5, <3>1, <3>2
  <2> HIDE DEF t
  <2>7. \A i \in 1..Len(t) : t[i].round = x.nextRound /\ t[i].kind # "system"
    <3>1. \A i \in 1..Len(tail) : tail[i].round = m.nextRound /\ tail[i].kind # "system"
      BY <2>2 DEF OpenAt
    <3>2. e.round = x.nextRound /\ e.kind # "system" /\ x.nextRound = m.nextRound
      BY <1>4, <1>5
    <3>3. ASSUME NEW i \in 1..Len(t) PROVE t[i] = e \/ (i \in 1..Len(tail) /\ t[i] = tail[i])
      BY <2>4
    <3> QED BY <3>1, <3>2, <3>3
  <2>8. d + Booked(t) = Len(x.cache) /\ Booked(t) > 0
    <3>1. PICK b \in Nat : b = Booked(tail) /\ b > 0
      BY <2>5
    <3>2. PICK n \in Nat : n = Len(s) /\ n > 0
      BY <1>0
    <3>3. Booked(t) = b + n /\ Len(x.cache) = (d + b) + n
      BY <1>6, <2>3, <2>5, <3>1, <3>2
    <3> QED BY <3>1, <3>2, <3>3
  <2>9. x.cache[d + 1][2] = "turn"
    <3>1. d + 1 \in 1..Len(m.cache)
      BY <1>0, <2>3, <2>5
    <3> QED BY <1>6, <2>3, <3>1
  <2>10. ASSUME NEW i \in 1..Len(x.cache), i > d PROVE x.cache[i][2] # "header"
    <3>1. CASE i \in 1..Len(m.cache)
      BY <1>6, <2>3, <2>10, <3>1
    <3>2. CASE i > Len(m.cache)
      BY <1>6, <3>2 DEF GoesOn
    <3> QED BY <1>0, <3>1, <3>2
  <2>11. OpenAt(x, pre, t)
    BY <2>3, <2>6, <2>7, <2>8, <2>9, <2>10 DEF OpenAt
  <2> QED BY <2>4, <2>11
<1>8. OpenOK(x)
  BY <1>7 DEF OpenOK
<1> QED BY <1>8 DEF x, f
-----------------------------------------------------------------------------
(* The operations of a model. *)
Good(m) == Core(m) /\ OpenOK(m)

Alike(m, d) ==
  /\ d.cache = m.cache /\ d.history = m.history /\ d.preserve = m.preserve
  /\ d.nextRound = m.nextRound

LEMMA AlikeKeeps ==
  ASSUME NEW m, Core(m), NEW d \in Models, Alike(m, d)
  PROVE  /\ Core(d)
         /\ d.newUser => OpenOK(d)
         /\ d.newUser = m.newUser /\ OpenOK(m) => OpenOK(d)
<1>1. Core(d)
  BY DEF Core, Alike, SystemBooked
<1>2. d.newUser => OpenOK(d)
  BY DEF OpenOK, Opened
<1>3. ASSUME d.newUser = m.newUser, OpenOK(m) PROVE OpenOK(d)
  <2>1. Opened(d) => Opened(m)
    BY <1>3 DEF Opened, Alike
  <2>2. \A pre, tail : OpenAt(m, pre, tail) => OpenAt(d, pre, tail)
    BY DEF OpenAt, Alike
  <2> QED BY <1>3, <2>1, <2>2 DEF OpenOK
<1> QED BY <1>1, <1>2, <1>3

LEMMA PrefilledKeeps ==
  ASSUME NEW m, Core(m), NEW s \in Seq(TokenSet), s # <<>>,
         \A i \in 1..Len(s) : s[i][2] # "system",
         NEW kind \in Kinds, kind # "system", NEW opens \in BOOLEAN,
         \/ m.newUser
         \/ kind = "user" /\ Opens(m, s, opens)
         \/ kind = "user" /\ GoesOn(m, s, opens)
  PROVE  Good(Prefilled(m, s, kind, opens))
<1> DEFINE p == [m EXCEPT !.pending = m.nextRound]
           o == EnforceTextWindow(p)
           f == Fed(o, s)
           x == RegisterChunk(f, Len(s), kind, o.pending, opens)
<1>0. m \in Models /\ m.nextRound \in Nat /\ Len(s) \in Nat
  BY DEF Core, Models
<1>1. /\ p \in Models /\ Alike(m, p) /\ p.newUser = m.newUser /\ p.pending = m.nextRound
      /\ p.nextRound = m.nextRound
  BY <1>0 DEF Models, Alike
<1>2. Prefilled(m, s, kind, opens) = EnforceTextWindow(x)
  BY DEF Prefilled
<1> HIDE DEF p
<1>3. Core(p) /\ (OpenOK(m) => OpenOK(p))
  BY <1>1, AlikeKeeps
<1>4. Within(p, o)
  BY <1>3, WindowKeeps
<1> HIDE DEF o
<1>5. /\ Core(o) /\ (OpenOK(m) => OpenOK(o)) /\ o.newUser = m.newUser
      /\ o.pending = m.nextRound /\ o.nextRound = m.nextRound
      /\ o \in Models
  BY <1>1, <1>3, <1>4 DEF Within, Framed, Core
<1>6. FedFacts(o, s)
  BY <1>5, FedKeeps
<1>7. RegisterFacts(f, Len(s), kind, m.nextRound, opens)
  <2>1. Core(f) /\ Booked(f.history) + Len(s) <= Len(f.cache)
    <3>1. Core(f) /\ f.history = o.history /\ Len(f.cache) = Len(o.cache) + Len(s)
      BY <1>6 DEF FedFacts
    <3>2. Booked(o.history) <= Len(o.cache) /\ Booked(o.history) \in Nat /\ Len(o.cache) \in Nat
      BY <1>5, SumTypes DEF Core, Models, Types
    <3> QED BY <1>0, <3>1, <3>2
  <2> HIDE DEF f
  <2> QED BY <1>0, <2>1, RegisterKeeps
<1>8. Core(x) /\ x.newUser = m.newUser
  BY <1>5, <1>6, <1>7 DEF RegisterFacts, Framed, FedFacts
<1>9. OpenOK(x)
  <2>1. CASE m.newUser
    BY <1>8, <2>1 DEF OpenOK, Opened
  <2>2. CASE kind = "user" /\ Opens(m, s, opens)
    <3>1. Opens(o, s, TRUE) /\ opens = TRUE
      BY <2>2 DEF Opens
    <3>2. OpenOK(RegisterChunk(Fed(o, s), Len(s), "user", o.nextRound, TRUE))
      BY <1>5, <3>1, TurnOpens
    <3> QED BY <1>5, <2>2, <3>1, <3>2
  <2>3. CASE kind = "user" /\ GoesOn(m, s, opens)
    <3>1. GoesOn(o, s, FALSE) /\ opens = FALSE
      BY <1>5, <2>3 DEF GoesOn
    <3>2. OpenOK(RegisterChunk(Fed(o, s), Len(s), "user", o.nextRound, FALSE))
      BY <1>5, <3>1, TurnGoesOn
    <3> QED BY <1>5, <2>3, <3>1, <3>2
  <2> QED BY <2>1, <2>2, <2>3
<1> HIDE DEF x
<1>10. Within(x, EnforceTextWindow(x))
  BY <1>8, WindowKeeps
<1> QED BY <1>2, <1>9, <1>10 DEF Within, Good

(* The model without a session. *)
Emptied(m) ==
  /\ m \in Models /\ m.cache = <<>> /\ m.history = <<>> /\ m.preserve = 0 /\ m.newUser = TRUE

LEMMA EmptiedIsGood == \A m : Emptied(m) => Good(m)
<1> SUFFICES ASSUME NEW m, Emptied(m) PROVE Good(m)
  OBVIOUS
<1>1. Booked(<<>>) = 0
  BY BookedSteps
<1>2. Core(m)
  BY <1>1 DEF Emptied, Core, SystemBooked
<1> QED BY <1>2 DEF Good, OpenOK, Opened, Emptied

LEMMA ResetEmpties ==
  ASSUME NEW m \in Models PROVE Emptied(ResetSession(m)) /\ ResetSession(m).mode = m.mode
<1>1. <<>> \in Seq(TokenSet) /\ <<>> \in Seq(EntrySet) /\ NoSession \in Sessions /\ 0 \in Nat
  BY DEF Sessions
<1>2. ResetSession(m) \in Models
  BY <1>1 DEF Models, ResetSession
<1> QED BY <1>2 DEF Models, ResetSession, Emptied

LEMMA SystemPrefilled ==
  ASSUME NEW m, Emptied(m), NEW r \in Nat, r = m.nextRound, NEW opens \in BOOLEAN
  PROVE  Good(Prefilled(m, Tokens(r, "system", SystemSize), "system", opens))
<1> DEFINE s == Tokens(r, "system", SystemSize)
           p == [m EXCEPT !.pending = m.nextRound]
           e == Entry(SystemSize, "system", r, opens)
           x == RegisterChunk(Fed(p, s), Len(s), "system", p.pending, opens)
<1>0. SystemSize \in Nat \ {0} /\ High \in Nat \ {0}
  BY TurnAssumption
<1>1. s \in Seq(TokenSet) /\ Len(s) = SystemSize /\ \A i \in 1..SystemSize : s[i] = <<r, "system">>
  <2>1. "system" \in Kinds
    BY DEF Kinds
  <2> QED BY <1>0, <2>1, TokensAre
<1>2. /\ p \in Models /\ p.cache = <<>> /\ p.history = <<>> /\ p.preserve = 0 /\ p.pending = r
      /\ p.newUser = TRUE
  BY DEF Emptied, Models
<1>3. EnforceTextWindow(p) = p
  <2>1. Len(<<>>) = 0 /\ 0 <= High
    BY <1>0
  <2> HIDE DEF p
  <2>2. Len(p.cache) <= High
    BY <1>2, <2>1
  <2> QED BY <2>2 DEF EnforceTextWindow
<1>4. Prefilled(m, s, "system", opens) = EnforceTextWindow(x)
  BY <1>3 DEF Prefilled
<1> HIDE DEF s, p
<1>5. e \in EntrySet /\ e.length = SystemSize /\ e.kind = "system"
  BY <1>0 DEF Entry, EntrySet, Kinds
<1>6. x = [p EXCEPT !.cache = s, !.history = <<e>>, !.preserve = SystemSize]
  <2>1. <<>> \o s = s /\ Append(<<>>, e) = <<e>>
    BY <1>1, <1>5
  <2>2. SystemSize # 0 /\ SystemSize > 0
    BY <1>0
  <2> QED BY <1>1, <1>2, <2>1, <2>2 DEF RegisterChunk, Fed, Models, Entry
<1>7. Append(<<>>, e) = <<e>> /\ <<e>> \in Seq(EntrySet) /\ Len(<<e>>) = 1 /\ <<e>>[1] = e
      /\ <<>> \in Seq(EntrySet)
  BY <1>5
<1>8. Booked(<<e>>) = SystemSize
  <2>1. Booked(Append(<<>>, e)) = Booked(<<>>) + e.length /\ Booked(<<>>) = 0
    BY <1>5, <1>7, BookedSteps
  <2> QED BY <1>0, <1>5, <1>7, <2>1
<1> HIDE DEF x, e
<1>9. /\ x \in Models /\ x.cache = s /\ x.history = <<e>> /\ x.preserve = SystemSize
      /\ x.newUser = TRUE
  BY <1>0, <1>1, <1>2, <1>6, <1>7 DEF Models
<1>10. Core(x)
  <2>1. SystemBooked(x)
    BY <1>5, <1>7, <1>9 DEF SystemBooked
  <2>2. Booked(x.history) <= Len(x.cache) /\ x.preserve <= Len(x.cache)
    BY <1>0, <1>1, <1>8, <1>9
  <2>3. \A i \in 1..Len(x.cache) : x.cache[i][2] = "system" <=> i <= x.preserve
    BY <1>0, <1>1, <1>9
  <2> QED BY <1>9, <2>1, <2>2, <2>3 DEF Core
<1>11. OpenOK(x)
  BY <1>9 DEF OpenOK, Opened
<1>12. Within(x, EnforceTextWindow(x))
  BY <1>10, WindowKeeps
<1> QED BY <1>4, <1>11, <1>12 DEF Within, Good, s
LEMMA SetModeKeeps ==
  ASSUME NEW m, Good(m), NEW mode \in {"half", "chat", "duplex"}
  PROVE  Good(SetMode(m, mode)) /\ SetMode(m, mode).mode = mode
<1>0. m \in Models
  BY DEF Good, Core
<1>1. CASE m.mode = mode
  BY <1>1 DEF SetMode
<1>2. CASE m.mode # mode
  <2> DEFINE e == ResetSession(m)
             x == [e EXCEPT !.mode = mode]
  <2>1. Emptied(e)
    BY <1>0, ResetEmpties
  <2>2. SetMode(m, mode) = x
    BY <1>2 DEF SetMode
  <2> HIDE DEF e
  <2>3. Emptied(x) /\ x.mode = mode
    BY <2>1 DEF Emptied, Models
  <2> HIDE DEF x
  <2> QED BY <2>2, <2>3, EmptiedIsGood
<1> QED BY <1>1, <1>2

LEMMA StreamingPrefillKeeps ==
  ASSUME NEW m0, Good(m0), NEW session \in Nat, NEW role \in {"user", "assistant", "system"},
         NEW n \in Nat, n > 0, NEW audio \in BOOLEAN,
         role = "system" => n = SystemSize /\ m0.session # session
  PROVE  Good(StreamingPrefill(m0, session, role, n, audio))
<1> DEFINE first == [InitStreaming(ResetSession(m0)) EXCEPT !.session = session]
           later == [m0 EXCEPT !.newUser = @ \/ role # "user"]
           m == IF m0.session # session THEN first ELSE later
           opens == role = "user" /\ m.newUser
           marker == IF opens THEN Tokens(m.nextRound, "turn", 1) ELSE <<>>
           s == marker \o Tokens(m.nextRound, role, n)
           q == [m EXCEPT !.newUser = @ /\ ~opens, !.first = @ /\ ~(audio /\ role # "system")]
<1>0. m0 \in Models /\ Core(m0) /\ OpenOK(m0) /\ session \in Sessions /\ role \in Kinds
      /\ "turn" \in Kinds
  BY DEF Good, Core, Sessions, Kinds
<1>1. StreamingPrefill(m0, session, role, n, audio) = Prefilled(q, s, role, opens)
  BY DEF StreamingPrefill
<1>2. Emptied(first)
  <2> DEFINE e == ResetSession(m0)
  <2>1. Emptied(e)
    BY <1>0, ResetEmpties
  <2>2. first = [e EXCEPT !.first = TRUE, !.session = session]
    BY DEF InitStreaming
  <2> HIDE DEF e
  <2> QED BY <1>0, <2>1, <2>2 DEF Emptied, Models
<1>3. /\ later \in Models /\ Alike(m0, later)
      /\ later.newUser = (m0.newUser \/ role # "user")
  BY <1>0 DEF Models, Alike
<1> HIDE DEF first, later
<1>4. Core(m) /\ m \in Models /\ m.nextRound \in Nat
  <2>1. Core(first) /\ Core(later)
    BY <1>0, <1>2, <1>3, AlikeKeeps, EmptiedIsGood DEF Good
  <2> QED BY <2>1 DEF Core, Models
<1>5. m0.session # session => m.newUser = TRUE
  BY <1>2 DEF Emptied
<1>6. m0.session = session => Alike(m0, m) /\ m.newUser = (m0.newUser \/ role # "user")
  BY <1>3
<1>e. m0.session # session => Emptied(m)
  BY <1>2
<1> HIDE DEF m
<1>7. q \in Models /\ Alike(m, q) /\ q.newUser = (m.newUser /\ ~opens)
  BY <1>4 DEF Models, Alike
<1>8. Core(q) /\ q.nextRound = m.nextRound
  BY <1>4, <1>7, AlikeKeeps DEF Alike
<1> HIDE DEF q
<1>9. /\ Tokens(m.nextRound, role, n) \in Seq(TokenSet) /\ Len(Tokens(m.nextRound, role, n)) = n
      /\ \A i \in 1..n : Tokens(m.nextRound, role, n)[i] = <<m.nextRound, role>>
  BY <1>0, <1>4, TokensAre
<1>10. CASE role = "system"
  <2>1. Emptied(m) /\ opens = FALSE
    BY <1>e, <1>10
  <2>2. Emptied(q)
    BY <1>7, <2>1 DEF Emptied, Alike
  <2>3. s = Tokens(m.nextRound, "system", SystemSize)
    <3>1. \A t \in Seq(TokenSet) : <<>> \o t = t
      OBVIOUS
    <3> QED BY <1>9, <1>10, <2>1, <3>1
  <2>4. Good(Prefilled(q, Tokens(m.nextRound, "system", SystemSize), "system", FALSE))
    BY <1>4, <1>8, <2>2, SystemPrefilled
  <2> HIDE DEF s, opens
  <2> QED BY <1>1, <1>10, <2>1, <2>3, <2>4
<1>11. CASE role # "system"
  <2> DEFINE u == Tokens(m.nextRound, role, n)
             t == Tokens(m.nextRound, "turn", 1)
  <2>1. t \in Seq(TokenSet) /\ Len(t) = 1 /\ t[1] = <<m.nextRound, "turn">>
    <3> DEFINE one == 1
    <3>1. one \in Nat /\ one = 1 /\ 1 \in 1..one
      OBVIOUS
    <3> HIDE DEF one
    <3>2. /\ Tokens(m.nextRound, "turn", one) \in Seq(TokenSet)
          /\ Len(Tokens(m.nextRound, "turn", one)) = one
          /\ \A i \in 1..one : Tokens(m.nextRound, "turn", one)[i] = <<m.nextRound, "turn">>
      BY <1>0, <1>4, <3>1, TokensAre
    <3> QED BY <3>1, <3>2
  <2>2. u \in Seq(TokenSet) /\ Len(u) = n /\ \A i \in 1..n : u[i] = <<m.nextRound, role>>
    BY <1>9
  <2> HIDE DEF u, t
  <2>3. CASE opens
    <3>1. s = t \o u
      BY <2>3 DEF t, u
    <3>2. \A a, b \in Seq(TokenSet) :
            /\ a \o b \in Seq(TokenSet) /\ Len(a \o b) = Len(a) + Len(b)
            /\ \A i \in 1..Len(a) : (a \o b)[i] = a[i]
            /\ \A i \in 1..Len(a \o b) : i > Len(a) =>
                 i - Len(a) \in 1..Len(b) /\ (a \o b)[i] = b[i - Len(a)]
      OBVIOUS
    <3> HIDE DEF s
    <3>3. /\ s \in Seq(TokenSet) /\ Len(s) = 1 + n /\ s[1] = <<m.nextRound, "turn">>
          /\ \A i \in 1..Len(s) : i > 1 => s[i] = <<m.nextRound, "user">>
      <4>1. role = "user" /\ 1 \in 1..Len(t)
        BY <2>1, <2>3
      <4>2. s \in Seq(TokenSet) /\ Len(s) = 1 + n /\ s[1] = t[1]
        BY <2>1, <2>2, <3>1, <3>2, <4>1
      <4>3. \A i \in 1..Len(s) : i > 1 => i - 1 \in 1..n /\ s[i] = u[i - 1]
        <5>1. \A i \in 1..Len(s) : i > Len(t) =>
                i - Len(t) \in 1..Len(u) /\ s[i] = u[i - Len(t)]
          BY <2>1, <2>2, <3>1, <3>2
        <5> QED BY <2>1, <2>2, <5>1
      <4> QED BY <2>1, <2>2, <4>1, <4>2, <4>3
    <3>4. s # <<>> /\ \A i \in 1..Len(s) : s[i][2] # "system" /\ s[i][2] # "header"
      <4>1. \A i \in 1..Len(s) : i = 1 \/ i > 1
        OBVIOUS
      <4>2. s # <<>>
        BY <3>3
      <4> QED BY <3>3, <4>1, <4>2
    <3>5. Opens(q, s, opens) /\ role = "user"
      BY <2>3, <3>3, <3>4 DEF Opens
    <3>6. opens \in BOOLEAN
      BY <2>3
    <3> HIDE DEF opens
    <3>7. Good(Prefilled(q, s, role, opens))
      BY <1>0, <1>8, <1>11, <3>3, <3>4, <3>5, <3>6, PrefilledKeeps
    <3> QED BY <1>1, <3>7
  <2>4. CASE ~opens
    <3>1. s = u
      <4>1. \A x \in Seq(TokenSet) : <<>> \o x = x
        OBVIOUS
      <4> QED BY <2>2, <2>4, <4>1 DEF u
    <3> HIDE DEF s
    <3>2. /\ s \in Seq(TokenSet) /\ s # <<>>
          /\ \A i \in 1..Len(s) : s[i][2] # "system" /\ s[i][2] # "header"
      <4>1. role # "header"
        OBVIOUS
      <4>2. s # <<>>
        BY <2>2, <3>1
      <4> QED BY <1>11, <2>2, <3>1, <4>1, <4>2
    <3>3. opens = FALSE
      BY <2>4, <1>4 DEF Models
    <3>4. q.newUser \/ (role = "user" /\ GoesOn(q, s, opens))
      <4>1. CASE role = "user"
        <5>1. m.newUser = FALSE
          BY <1>4, <2>4, <4>1 DEF Models
        <5>2. m0.session = session
          BY <1>5, <5>1
        <5>3. m0.newUser = m.newUser /\ Alike(m0, q) /\ q.newUser = m0.newUser
          BY <1>0, <1>6, <1>7, <4>1, <5>1, <5>2 DEF Models, Alike
        <5>4. OpenOK(q)
          BY <1>0, <1>7, <5>3, AlikeKeeps
        <5> QED BY <3>2, <3>3, <4>1, <5>4 DEF GoesOn
      <4>2. CASE role # "user"
        <5>1. m.newUser = TRUE
          BY <1>5, <1>6, <4>2, <1>4 DEF Models
        <5> QED BY <1>7, <3>3, <5>1
      <4> QED BY <4>1, <4>2
    <3>5. opens \in BOOLEAN
      BY <3>3
    <3> HIDE DEF opens
    <3>6. Good(Prefilled(q, s, role, opens))
      BY <1>0, <1>8, <1>11, <3>2, <3>4, <3>5, PrefilledKeeps
    <3> QED BY <1>1, <3>6
  <2> QED BY <2>3, <2>4
<1> QED BY <1>10, <1>11
-----------------------------------------------------------------------------
(* The inductive invariant. *)
Answers ==
  [phase : {"none"}]
  \cup [phase : {"answering"}, audio : BOOLEAN, round : Nat \cup {NoRound},
        chunks : Nat, said : Nat]

(* What an answer may still book is in the cache, and new_user_msg is set. *)
AnswerOK ==
  /\ answer \in Answers
  /\ answer.phase = "answering" =>
       model.newUser /\ Booked(model.history) + answer.said <= Len(model.cache)

(* While there is a rollback point, the model goes on from what was saved. *)
Extends(m, b) ==
  /\ m.mode = b.mode /\ m.session = b.session /\ m.preserve = b.preserve
  /\ m.mode = "half"
  /\ Len(b.cache) <= Len(m.cache) /\ \A i \in 1..Len(b.cache) : m.cache[i] = b.cache[i]
  /\ Len(b.history) <= Len(m.history) /\ \A i \in 1..Len(b.history) : m.history[i] = b.history[i]
SnapshotOK ==
  snapshot # NoSnapshot =>
    snapshot = SaveSnapshot(before) /\ Good(before) /\ Extends(model, before)

TurnInv == Good(model) /\ AnswerOK /\ SnapshotOK

LEMMA PrefixRestored ==
  ASSUME NEW X, NEW s \in Seq(X), NEW b \in Seq(X), Len(b) <= Len(s),
         \A i \in 1..Len(b) : s[i] = b[i]
  PROVE  Truncated(s, Len(b)) = b
<1>0. Len(b) \in Nat /\ Len(s) \in Nat
  OBVIOUS
<1>1. \A x \in Seq(X) : x = [i \in 1..Len(x) |-> x[i]]
  OBVIOUS
<1>2. CASE Len(s) > Len(b)
  <2> DEFINE p == SubSeq(s, 1, Len(b))
  <2>1. p \in Seq(X) /\ Len(p) = Len(b) /\ \A i \in 1..Len(b) : p[i] = s[i]
    BY <1>0
  <2>2. Truncated(s, Len(b)) = p
    BY <1>2 DEF Truncated
  <2> HIDE DEF p
  <2>3. p = [i \in 1..Len(p) |-> p[i]] /\ b = [i \in 1..Len(b) |-> b[i]]
    BY <1>1, <2>1
  <2>4. [i \in 1..Len(p) |-> p[i]] = [i \in 1..Len(b) |-> b[i]]
    BY <2>1
  <2> QED BY <2>2, <2>3, <2>4
<1>3. CASE ~(Len(s) > Len(b))
  <2>1. Len(s) = Len(b) /\ Truncated(s, Len(b)) = s
    BY <1>0, <1>3 DEF Truncated
  <2>2. s = [i \in 1..Len(s) |-> s[i]] /\ b = [i \in 1..Len(b) |-> b[i]]
    BY <1>1
  <2>3. [i \in 1..Len(s) |-> s[i]] = [i \in 1..Len(b) |-> b[i]]
    BY <2>1
  <2> QED BY <2>1, <2>2, <2>3
<1> QED BY <1>2, <1>3

(* Rolling back gives the model that was saved. *)
LEMMA RestoredIsBefore ==
  ASSUME NEW m \in Models, NEW b \in Models, Extends(m, b)
  PROVE  Restored(m, SaveSnapshot(b)) = b
<1>1. m.cache \in Seq(TokenSet) /\ b.cache \in Seq(TokenSet)
      /\ m.history \in Seq(EntrySet) /\ b.history \in Seq(EntrySet)
  BY DEF Models
<1>2. Truncated(m.cache, Len(b.cache)) = b.cache /\ Truncated(m.history, Len(b.history)) = b.history
  BY <1>1, PrefixRestored DEF Extends
<1>3. Restored(m, SaveSnapshot(b)) =
        [m EXCEPT !.cache = b.cache, !.history = b.history,
                  !.nextRound = b.nextRound, !.pending = b.pending,
                  !.newUser = b.newUser, !.generated = b.generated, !.first = b.first]
  BY <1>2 DEF Restored, SaveSnapshot
<1> DEFINE Whole(x) ==
             [mode |-> x.mode, session |-> x.session, cache |-> x.cache, history |-> x.history,
              preserve |-> x.preserve, nextRound |-> x.nextRound, pending |-> x.pending,
              newUser |-> x.newUser, generated |-> x.generated, first |-> x.first]
           x == [m EXCEPT !.cache = b.cache, !.history = b.history,
                          !.nextRound = b.nextRound, !.pending = b.pending,
                          !.newUser = b.newUser, !.generated = b.generated, !.first = b.first]
<1>4. \A d \in Models : d = Whole(d)
  BY DEF Models
<1>5. x \in Models
  BY DEF Models
<1>6. /\ x.mode = m.mode /\ x.session = m.session /\ x.preserve = m.preserve
      /\ x.cache = b.cache /\ x.history = b.history /\ x.nextRound = b.nextRound
      /\ x.pending = b.pending /\ x.newUser = b.newUser /\ x.generated = b.generated
      /\ x.first = b.first
  BY DEF Models
<1>7. m.mode = b.mode /\ m.session = b.session /\ m.preserve = b.preserve
  BY DEF Extends
<1>8. x = Whole(x) /\ b = Whole(b)
  <2> HIDE DEF x, Whole
  <2> QED BY <1>4, <1>5
<1>9. Whole(x) = Whole(b)
  <2> HIDE DEF x
  <2> QED BY <1>6, <1>7
<1>10. x = b
  <2> HIDE DEF x, Whole
  <2> QED BY <1>8, <1>9
<1> QED BY <1>3, <1>10

LEMMA GoodTypes ==
  ASSUME NEW m, Good(m)
  PROVE  /\ m \in Models /\ Core(m) /\ m.nextRound \in Nat /\ m.pending \in Nat \cup {NoRound}
         /\ m.history \in Seq(EntrySet) /\ m.cache \in Seq(TokenSet)
         /\ Len(m.cache) \in Nat /\ Booked(m.history) \in Nat /\ Booked(m.history) <= Len(m.cache)
<1>1. m \in Models /\ Core(m) /\ Booked(m.history) <= Len(m.cache)
  BY DEF Good, Core
<1>2. m.history \in Seq(EntrySet) /\ m.cache \in Seq(TokenSet) /\ m.nextRound \in Nat
      /\ m.pending \in Nat \cup {NoRound}
  BY <1>1 DEF Models
<1>3. Booked(m.history) \in Nat /\ Len(m.cache) \in Nat
  <2>1. 0 \in Nat
    OBVIOUS
  <2>2. Booked(m.history) \in Nat
    BY <1>2, <2>1, SumTypes, Zenon DEF Types
  <2> QED BY <1>2, <2>2
<1> QED BY <1>1, <1>2, <1>3
LEMMA InitTurn == Init => TurnInv
<1> SUFFICES ASSUME Init PROVE TurnInv
  OBVIOUS
<1>1. <<>> \in Seq(TokenSet) /\ <<>> \in Seq(EntrySet) /\ NoSession \in Sessions /\ 0 \in Nat
  BY DEF Sessions
<1>2. Emptied(Fresh)
  BY <1>1 DEF Emptied, Fresh, Models
<1>3. Good(model)
  BY <1>2, EmptiedIsGood DEF Init
<1>4. AnswerOK
  BY DEF Init, AnswerOK, Answers
<1> QED BY <1>3, <1>4 DEF TurnInv, SnapshotOK, Init

(* A step that neither answers nor holds a rollback point has only to keep *)
(* the model good.                                                         *)
LEMMA StaysGood ==
  ASSUME TurnInv, Idle, snapshot = NoSnapshot, Good(model)',
         UNCHANGED <<snapshot, answer, before>>
  PROVE  TurnInv'
BY DEF TurnInv, AnswerOK, SnapshotOK, Idle

LEMMA PrefillKeeps ==
  ASSUME TurnInv, Disciplined, NEW session \in Nat, NEW role \in {"user", "assistant", "system"},
         NEW n \in Nat, n > 0, NEW audio \in BOOLEAN, role = "system" => n = SystemSize,
         Prefill(session, role, n, audio)
  PROVE  TurnInv'
<1> DEFINE m == SetMode(model, "half")
<1>1. Good(m)
  BY SetModeKeeps DEF TurnInv
<1>2. role = "system" => m.session # session
  BY DEF Prefill
<1>3. model' = StreamingPrefill(m, session, role, n, audio)
  BY DEF Prefill
<1> HIDE DEF m
<1>4. Good(StreamingPrefill(m, session, role, n, audio))
  BY <1>1, <1>2, StreamingPrefillKeeps
<1>5. Good(model')
  BY <1>3, <1>4
<1>6. Good(model)'
  BY <1>5 DEF Good, Core, OpenOK, Opened, OpenAt, SystemBooked
<1> QED BY <1>6, StaysGood DEF Prefill, Cleared

LEMMA ChatPrefillKeeps ==
  ASSUME TurnInv, Disciplined, NEW n \in Nat, n > 0, ChatPrefill(n)
  PROVE  TurnInv'
<1> DEFINE m == SetMode(model, "chat")
           started == [InitStreaming(ResetSession(m)) EXCEPT !.session = ChatSession]
           s == Tokens(started.nextRound, "user", n)
<1>1. m \in Models
  BY SetModeKeeps DEF TurnInv, Good, Core
<1> HIDE DEF m
<1>2. Emptied(started) /\ started.nextRound \in Nat
  <2> DEFINE e == ResetSession(m)
  <2>1. Emptied(e)
    BY <1>1, ResetEmpties
  <2>2. started = [e EXCEPT !.first = TRUE, !.session = ChatSession]
    BY DEF InitStreaming
  <2>3. ChatSession \in Sessions
    BY DEF Sessions
  <2> HIDE DEF e
  <2> QED BY <2>1, <2>2, <2>3 DEF Emptied, Models
<1>3. Core(started) /\ started.newUser
  BY <1>2, EmptiedIsGood DEF Good, Emptied
<1>4. model' = Prefilled(started, s, "user", TRUE)
  BY DEF ChatPrefill, NonStreamingPrefill, m
<1> HIDE DEF started
<1>5. "user" \in Kinds
  BY DEF Kinds
<1>6. s \in Seq(TokenSet) /\ s # <<>> /\ \A i \in 1..Len(s) : s[i][2] # "system"
  <2>1. /\ s \in Seq(TokenSet) /\ Len(s) = n
        /\ \A i \in 1..n : s[i] = <<started.nextRound, "user">>
    BY <1>2, <1>5, TokensAre
  <2> QED BY <2>1
<1> HIDE DEF s
<1>7. Good(Prefilled(started, s, "user", TRUE))
  BY <1>3, <1>5, <1>6, PrefilledKeeps
<1>8. Good(model')
  BY <1>4, <1>7
<1>9. Good(model)'
  BY <1>8 DEF Good, Core, OpenOK, Opened, OpenAt, SystemBooked
<1> QED BY <1>9, StaysGood DEF ChatPrefill, Cleared
(* The model of an answer: the header and the tokens it has fed. *)
LEMMA ChunkTokensAre ==
  ASSUME NEW r \in Nat, NEW first \in BOOLEAN, NEW n \in Nat
  PROVE  /\ ChunkTokens(r, first, n) \in Seq(TokenSet)
         /\ Len(ChunkTokens(r, first, n)) = (IF first THEN Bos ELSE 0) + n
         /\ \A i \in 1..Len(ChunkTokens(r, first, n)) : ChunkTokens(r, first, n)[i][2] # "system"
<1> DEFINE a == IF first THEN Tokens(r, "header", Bos) ELSE <<>>
           b == Tokens(r, "assistant", n)
           k == IF first THEN Bos ELSE 0
<1>0. Bos \in Nat /\ "header" \in Kinds /\ "assistant" \in Kinds
  BY TurnAssumption DEF Kinds
<1>1. a \in Seq(TokenSet) /\ Len(a) = k /\ k \in Nat /\ \A i \in 1..Len(a) : a[i] = <<r, "header">>
  <2>1. CASE first
    BY <1>0, <2>1, TokensAre
  <2>2. CASE ~first
    BY <2>2
  <2> QED BY <2>1, <2>2
<1>2. b \in Seq(TokenSet) /\ Len(b) = n /\ \A i \in 1..Len(b) : b[i] = <<r, "assistant">>
  BY <1>0, TokensAre
<1>3. ChunkTokens(r, first, n) = a \o b
  BY DEF ChunkTokens
<1> HIDE DEF a, b, k
<1>4. \A s, t \in Seq(TokenSet) :
        /\ s \o t \in Seq(TokenSet) /\ Len(s \o t) = Len(s) + Len(t)
        /\ \A i \in 1..Len(s \o t) :
             \/ i \in 1..Len(s) /\ (s \o t)[i] = s[i]
             \/ i - Len(s) \in 1..Len(t) /\ (s \o t)[i] = t[i - Len(s)]
  OBVIOUS
<1>5. a \o b \in Seq(TokenSet) /\ Len(a \o b) = k + n
  BY <1>1, <1>2, <1>4
<1>6. \A i \in 1..Len(a \o b) : (a \o b)[i][2] # "system"
  BY <1>1, <1>2, <1>4
<1> QED BY <1>3, <1>5, <1>6 DEF k

(* While an answer is fed, no message is open. *)
LEMMA FedInAnswer ==
  ASSUME NEW m, Good(m), m.newUser, NEW s \in Seq(TokenSet), \A i \in 1..Len(s) : s[i][2] # "system"
  PROVE  /\ Good(Fed(m, s)) /\ Fed(m, s).newUser /\ Fed(m, s).history = m.history
         /\ Len(Fed(m, s).cache) = Len(m.cache) + Len(s)
         /\ \A b \in Models : Extends(m, b) => Extends(Fed(m, s), b)
<1> DEFINE x == Fed(m, s)
<1>0. FedFacts(m, s)
  BY FedKeeps DEF Good
<1> HIDE DEF x
<1>1. /\ Core(x) /\ Framed(m, x) /\ x.history = m.history
      /\ Len(x.cache) = Len(m.cache) + Len(s)
      /\ \A i \in 1..Len(m.cache) : x.cache[i] = m.cache[i]
  BY <1>0 DEF FedFacts, x
<1>2. x.newUser = m.newUser
  BY <1>1 DEF Framed
<1>3. Good(x)
  BY <1>1, <1>2 DEF Good, OpenOK, Opened
<1>4. ASSUME NEW b \in Models, Extends(m, b) PROVE Extends(x, b)
  <2>1. Len(m.cache) \in Nat /\ Len(s) \in Nat /\ Len(m.cache) <= Len(x.cache)
    <3>1. Len(m.cache) \in Nat
      BY GoodTypes
    <3> QED BY <1>1, <3>1
  <2>2. Len(b.cache) <= Len(x.cache) /\ \A i \in 1..Len(b.cache) : x.cache[i] = b.cache[i]
    <3>1. Len(b.cache) \in Nat
      BY DEF Models
    <3> QED BY <1>1, <1>4, <2>1, <3>1 DEF Extends
  <2> QED BY <1>1, <1>4, <2>2 DEF Extends, Framed
<1> QED BY <1>1, <1>2, <1>3, <1>4 DEF x
(* The invariant of the next state, from what holds of its model. *)
LEMMA NextInv ==
  ASSUME NEW m, Good(m), model' = m,
         answer' \in Answers,
         answer'.phase = "answering" => m.newUser /\ Booked(m.history) + answer'.said <= Len(m.cache),
         NEW b, before' = b,
         snapshot' # NoSnapshot => snapshot' = SaveSnapshot(b) /\ Good(b) /\ Extends(m, b)
  PROVE  TurnInv'
<1>1. Good(model)'
  <2>1. Good(model')
    OBVIOUS
  <2> QED BY <2>1 DEF Good, Core, OpenOK, Opened, OpenAt, SystemBooked
<1>2. AnswerOK'
  BY DEF AnswerOK
<1>3. SnapshotOK'
  <2>1. SaveSnapshot(before)' = SaveSnapshot(b)
    BY DEF SaveSnapshot
  <2>2. Good(b) => Good(before)'
    <3>1. Good(b) => Good(before')
      OBVIOUS
    <3>2. Good(before') => Good(before)'
      BY DEF Good, Core, OpenOK, Opened, OpenAt, SystemBooked
    <3> QED BY <3>1, <3>2
  <2>3. Extends(m, b) => Extends(model, before)'
    BY DEF Extends
  <2> QED BY <2>1, <2>2, <2>3 DEF SnapshotOK
<1> QED BY <1>1, <1>2, <1>3 DEF TurnInv

LEMMA ChatGenerateKeeps ==
  ASSUME TurnInv, NEW n \in Nat, ChatGenerate(n)
  PROVE  TurnInv'
<1> DEFINE r == model.nextRound
           h == Tokens(r, "header", Bos)
           a == Tokens(r, "assistant", n)
           f == Fed(model, h)
           opened == RegisterChunk(f, Bos, "assistant", r, FALSE)
           fed == Fed(opened, a)
           x == [fed EXCEPT !.pending = r, !.newUser = TRUE, !.generated = TRUE]
<1>0. /\ Bos \in Nat /\ "header" \in Kinds /\ "assistant" \in Kinds /\ r \in Nat
      /\ Core(model) /\ Booked(model.history) <= Len(model.cache)
      /\ Booked(model.history) \in Nat /\ Len(model.cache) \in Nat
  BY TurnAssumption, GoodTypes DEF Kinds, TurnInv
<1>1. model' = x
  BY DEF ChatGenerate, NonStreamingGenerate
<1>2. h \in Seq(TokenSet) /\ Len(h) = Bos /\ \A i \in 1..Len(h) : h[i][2] # "system"
  <2>1. h \in Seq(TokenSet) /\ Len(h) = Bos /\ \A i \in 1..Bos : h[i] = <<r, "header">>
    BY <1>0, TokensAre
  <2> QED BY <2>1
<1>3. a \in Seq(TokenSet) /\ \A i \in 1..Len(a) : a[i][2] # "system"
  <2>1. a \in Seq(TokenSet) /\ Len(a) = n /\ \A i \in 1..n : a[i] = <<r, "assistant">>
    BY <1>0, TokensAre
  <2> QED BY <2>1
<1> HIDE DEF r, h, a
<1>4. FedFacts(model, h)
  BY <1>0, <1>2, FedKeeps
<1>5. Core(f) /\ Booked(f.history) + Bos <= Len(f.cache)
  BY <1>0, <1>2, <1>4 DEF FedFacts
<1> HIDE DEF f
<1>6. RegisterFacts(f, Bos, "assistant", r, FALSE)
  BY <1>0, <1>5, RegisterKeeps
<1>7. Core(opened)
  BY <1>6 DEF RegisterFacts
<1> HIDE DEF opened
<1>8. Core(fed)
  BY <1>3, <1>7, FedKeeps DEF FedFacts
<1> HIDE DEF fed
<1>9. x \in Models /\ Alike(fed, x) /\ x.newUser = TRUE
  BY <1>0, <1>8 DEF Core, Models, Alike
<1>10. Good(x)
  <2> HIDE DEF x
  <2> QED BY <1>8, <1>9, AlikeKeeps DEF Good
<1>11. snapshot = NoSnapshot
  BY DEF ChatGenerate, TurnInv, SnapshotOK, Extends
<1> HIDE DEF x
<1> QED BY <1>1, <1>10, <1>11, NextInv DEF ChatGenerate, Idle, TurnInv, AnswerOK

LEMMA GenerateKeeps ==
  ASSUME TurnInv, NEW speculative \in BOOLEAN, NEW audio \in BOOLEAN, Generate(speculative, audio)
  PROVE  TurnInv'
<1> DEFINE x == StreamingGenerate(model)
<1>0. /\ model \in Models /\ Core(model) /\ Good(model) /\ model.pending \in Nat \cup {NoRound}
      /\ Booked(model.history) \in Nat /\ Booked(model.history) <= Len(model.cache)
  BY GoodTypes DEF TurnInv
<1>1. x \in Models /\ Alike(model, x) /\ x.newUser = TRUE /\ x.mode = model.mode /\ x.session = model.session
  BY <1>0 DEF StreamingGenerate, InitStreaming, Models, Alike
<1>2. model' = x
  BY DEF Generate
<1> HIDE DEF x
<1>3. Good(x)
  BY <1>0, <1>1, AlikeKeeps DEF Good
<1>4. /\ answer' \in Answers /\ answer'.said = 0
  BY <1>0 DEF Generate, Answers
<1>5. Booked(x.history) + 0 <= Len(x.cache)
  BY <1>0, <1>1 DEF Alike
<1>6. CASE speculative
  <2>1. snapshot' = SaveSnapshot(model) /\ before' = model /\ model.mode = "half"
    BY <1>6 DEF Generate
  <2>2. Len(model.cache) \in Nat /\ Len(model.history) \in Nat
    BY GoodTypes DEF TurnInv
  <2>3. Extends(x, model)
    BY <1>1, <2>1, <2>2 DEF Extends, Alike
  <2> QED BY <1>0, <1>1, <1>2, <1>3, <1>4, <1>5, <2>1, <2>3, NextInv
<1>7. CASE ~speculative
  <2>1. snapshot' = snapshot /\ before' = before
    BY <1>7 DEF Generate
  <2>2. snapshot # NoSnapshot => snapshot = SaveSnapshot(before) /\ Good(before) /\ Extends(x, before)
    BY <1>1 DEF TurnInv, SnapshotOK, Extends, Alike
  <2> QED BY <1>1, <1>2, <1>3, <1>4, <1>5, <2>1, <2>2, NextInv
<1> QED BY <1>6, <1>7

LEMMA AnswerFed ==
  ASSUME TurnInv, answer.phase = "answering", NEW n \in Nat, NEW first \in BOOLEAN,
         NEW x, x = Fed(model, ChunkTokens(model.nextRound, first, n))
  PROVE  /\ Good(x) /\ x.newUser
         /\ Booked(x.history) + (answer.said + n) <= Len(x.cache)
         /\ snapshot # NoSnapshot => snapshot = SaveSnapshot(before) /\ Good(before) /\ Extends(x, before)
<1> DEFINE s == ChunkTokens(model.nextRound, first, n)
           k == IF first THEN Bos ELSE 0
<1>0. /\ Good(model) /\ model.nextRound \in Nat /\ Booked(model.history) \in Nat /\ Len(model.cache) \in Nat
      /\ model.newUser /\ answer.said \in Nat
      /\ Booked(model.history) + answer.said <= Len(model.cache)
  BY GoodTypes DEF TurnInv, AnswerOK, Answers
<1>1. s \in Seq(TokenSet) /\ Len(s) = k + n /\ \A i \in 1..Len(s) : s[i][2] # "system"
  BY <1>0, ChunkTokensAre
<1>2. k \in Nat
  BY TurnAssumption
<1>3. x = Fed(model, s)
  OBVIOUS
<1> HIDE DEF s, k
<1>4. /\ Good(x) /\ x.newUser /\ x.history = model.history
      /\ Len(x.cache) = Len(model.cache) + Len(s)
      /\ \A b \in Models : Extends(model, b) => Extends(x, b)
  BY <1>0, <1>1, <1>3, FedInAnswer
<1>5. Booked(x.history) + (answer.said + n) <= Len(x.cache)
  BY <1>0, <1>1, <1>2, <1>4
<1>6. snapshot # NoSnapshot => snapshot = SaveSnapshot(before) /\ Good(before) /\ Extends(x, before)
  BY <1>4 DEF TurnInv, SnapshotOK, Good, Core
<1> QED BY <1>4, <1>5, <1>6

LEMMA AnswerChunkKeeps ==
  ASSUME TurnInv, NEW n \in Nat, NEW finished \in BOOLEAN, AnswerChunk(n, finished)
  PROVE  TurnInv'
<1>1. PICK x : x = Fed(model, ChunkTokens(model.nextRound, answer.chunks = 0, n))
  OBVIOUS
<1>2. model' = x /\ answer.phase = "answering" /\ UNCHANGED <<snapshot, before>>
  BY <1>1 DEF AnswerChunk
<1>3. (answer.chunks = 0) \in BOOLEAN
  OBVIOUS
<1>4. /\ Good(x) /\ x.newUser
      /\ Booked(x.history) + (answer.said + n) <= Len(x.cache)
      /\ snapshot # NoSnapshot => snapshot = SaveSnapshot(before) /\ Good(before) /\ Extends(x, before)
  BY <1>1, <1>2, <1>3, AnswerFed
<1>5. answer' \in Answers /\ answer'.said = answer.said + n
  <2>1. MaxChunks \in Nat
    BY TurnAssumption
  <2>2. /\ answer \in [phase : {"answering"}, audio : BOOLEAN, round : Nat \cup {NoRound},
                         chunks : Nat, said : Nat]
    BY <1>2 DEF TurnInv, AnswerOK, Answers
  <2>3. PICK c \in Nat : c = IF finished THEN MaxChunks ELSE answer.chunks + 1
    BY <2>1, <2>2
  <2>4. answer' = [answer EXCEPT !.chunks = c, !.said = answer.said + n]
    BY <2>2, <2>3 DEF AnswerChunk
  <2>5. answer.said + n \in Nat
    BY <2>2
  <2> QED BY <2>2, <2>4, <2>5 DEF Answers
<1> QED BY <1>2, <1>4, <1>5, NextInv

LEMMA AnswerRaisesKeeps ==
  ASSUME TurnInv, AnswerRaises
  PROVE  TurnInv'
<1>1. PICK x : x = Fed(model, ChunkTokens(model.nextRound, TRUE, 0))
  OBVIOUS
<1>2. model' = x /\ answer.phase = "answering" /\ UNCHANGED <<snapshot, before>>
  BY <1>1 DEF AnswerRaises
<1>3. TRUE \in BOOLEAN /\ 0 \in Nat
  OBVIOUS
<1>4. /\ Good(x)
      /\ snapshot # NoSnapshot => snapshot = SaveSnapshot(before) /\ Good(before) /\ Extends(x, before)
  BY <1>1, <1>2, <1>3, AnswerFed
<1>5. answer' \in Answers /\ answer'.phase # "answering"
  BY DEF AnswerRaises, Answers
<1> QED BY <1>2, <1>4, <1>5, NextInv
LEMMA FinalizeRoundKeeps ==
  ASSUME TurnInv, NEW n \in Nat, FinalizeRound(n)
  PROVE  TurnInv'
<1>0. /\ Good(model) /\ Core(model) /\ model \in Models /\ model.nextRound \in Nat
      /\ Booked(model.history) \in Nat /\ Len(model.cache) \in Nat
      /\ model.newUser /\ answer.said \in Nat /\ n <= answer.said
      /\ answer.round \in Nat \cup {NoRound}
      /\ Booked(model.history) + answer.said <= Len(model.cache)
      /\ Len(model.history) \in Nat /\ model.history \in Seq(EntrySet)
  BY GoodTypes DEF TurnInv, AnswerOK, Answers, FinalizeRound
<1>1. answer' \in Answers /\ answer'.phase # "answering" /\ UNCHANGED <<snapshot, before>>
  BY DEF FinalizeRound, Answers
<1>2. snapshot # NoSnapshot =>
        /\ snapshot = SaveSnapshot(before) /\ Good(before) /\ Extends(model, before)
        /\ Len(before.history) \in Nat
  BY GoodTypes DEF TurnInv, SnapshotOK, Good, Core, Models
<1>3. CASE ~answer.audio
  <2>1. model' = model
    BY <1>3 DEF FinalizeRound
  <2> QED BY <1>0, <1>1, <1>2, <2>1, NextInv
<1>4. CASE answer.audio /\ answer.round = NoRound
  <2> DEFINE x == [model EXCEPT !.pending = NoRound]
  <2>1. model' = x
    BY <1>4 DEF FinalizeRound, Finalized
  <2>2. /\ x \in Models /\ Alike(model, x) /\ x.newUser = model.newUser /\ x.mode = model.mode
        /\ x.session = model.session
    BY <1>0 DEF Models, Alike
  <2> HIDE DEF x
  <2>3. Good(x)
    BY <1>0, <2>2, AlikeKeeps DEF Good
  <2>4. \A b : Extends(model, b) => Extends(x, b)
    BY <2>2 DEF Extends, Alike
  <2> QED BY <1>1, <1>2, <2>1, <2>3, <2>4, NextInv
<1>5. CASE answer.audio /\ answer.round # NoRound
  <2> DEFINE reg == RegisterChunk(model, n, "assistant", answer.round, FALSE)
             x == [reg EXCEPT !.pending = NoRound, !.nextRound = @ + 1]
             e == Entry(n, "assistant", answer.round, FALSE)
  <2>1. model' = x
    BY <1>5 DEF FinalizeRound, Finalized
  <2>2. RegisterFacts(model, n, "assistant", answer.round, FALSE)
    <3>1. "assistant" \in Kinds /\ answer.round \in Nat /\ Booked(model.history) + n <= Len(model.cache)
      BY <1>0, <1>5 DEF Kinds
    <3> QED BY <1>0, <3>1, RegisterKeeps
  <2>3. /\ Core(reg) /\ Framed(model, reg) /\ reg.cache = model.cache
        /\ reg.history = IF n = 0 THEN model.history ELSE Append(model.history, e)
    BY <2>2 DEF RegisterFacts
  <2> HIDE DEF reg
  <2>4. /\ x \in Models /\ x.cache = reg.cache /\ x.history = reg.history /\ x.preserve = reg.preserve
        /\ x.newUser = reg.newUser /\ x.mode = reg.mode /\ x.session = reg.session
    <3>1. reg \in Models /\ reg.nextRound + 1 \in Nat
      BY <2>3 DEF Core, Models
    <3>2. x = [reg EXCEPT !.pending = NoRound, !.nextRound = reg.nextRound + 1]
      BY <3>1 DEF Models
    <3> HIDE DEF x
    <3> QED BY <3>1, <3>2 DEF Models
  <2> HIDE DEF x
  <2>5. Core(x)
    BY <2>3, <2>4 DEF Core, SystemBooked
  <2>6. x.newUser = model.newUser
    BY <2>3, <2>4 DEF Framed
  <2>7. Good(x)
    BY <1>0, <2>5, <2>6 DEF Good, OpenOK, Opened
  <2>8. Len(model.history) <= Len(x.history) /\ \A i \in 1..Len(model.history) : x.history[i] = model.history[i]
    <3>1. \A h \in Seq(EntrySet) : \A y : Len(h) <= Len(Append(h, y)) /\ \A i \in 1..Len(h) : Append(h, y)[i] = h[i]
      OBVIOUS
    <3> HIDE DEF e
    <3> QED BY <1>0, <2>3, <2>4, <3>1
  <2>9. snapshot # NoSnapshot => Extends(x, before)
    <3> SUFFICES ASSUME snapshot # NoSnapshot PROVE Extends(x, before)
      OBVIOUS
    <3>1. Extends(model, before) /\ Len(before.history) \in Nat /\ Len(x.history) \in Nat
      BY <1>2, <2>4 DEF Models
    <3>2. Len(before.history) <= Len(x.history)
          /\ \A i \in 1..Len(before.history) : x.history[i] = before.history[i]
      BY <1>0, <2>8, <3>1 DEF Extends
    <3>3. x.mode = model.mode /\ x.session = model.session /\ x.preserve = model.preserve
          /\ x.cache = model.cache
      BY <2>3, <2>4 DEF Framed
    <3> QED BY <3>1, <3>2, <3>3 DEF Extends
  <2> QED BY <1>1, <1>2, <2>1, <2>7, <2>9, NextInv
<1> QED BY <1>3, <1>4, <1>5

LEMMA AbandonKeeps ==
  ASSUME TurnInv, Abandon
  PROVE  TurnInv'
<1>1. answer' \in Answers /\ answer'.phase # "answering" /\ UNCHANGED <<model, snapshot, before>>
  BY DEF Abandon, Answers
<1>2. Good(model) /\ (snapshot # NoSnapshot =>
        snapshot = SaveSnapshot(before) /\ Good(before) /\ Extends(model, before))
  BY DEF TurnInv, SnapshotOK
<1> QED BY <1>1, <1>2, NextInv

LEMMA RollbackRestored ==
  ASSUME TurnInv, Rollback
  PROVE  model' = before /\ Good(before)
<1>1. snapshot = SaveSnapshot(before) /\ Good(before) /\ Extends(model, before) /\ Good(model)
  BY DEF TurnInv, SnapshotOK, Rollback
<1>2. model \in Models /\ before \in Models
  BY <1>1 DEF Good, Core
<1>3. Restored(model, SaveSnapshot(before)) = before
  BY <1>1, <1>2, RestoredIsBefore
<1> QED BY <1>1, <1>3 DEF Rollback

LEMMA RollbackKeeps ==
  ASSUME TurnInv, Rollback
  PROVE  TurnInv'
<1>1. answer' \in Answers /\ answer'.phase # "answering" /\ snapshot' = NoSnapshot /\ before' = Fresh
  BY DEF Rollback, Answers
<1> QED BY <1>1, RollbackRestored, NextInv

LEMMA ClearKeeps ==
  ASSUME TurnInv, ClearRollbackPoint
  PROVE  TurnInv'
<1>1. /\ answer' \in Answers /\ answer'.phase # "answering" /\ snapshot' = NoSnapshot
      /\ before' = Fresh /\ model' = model /\ Good(model)
  BY DEF ClearRollbackPoint, TurnInv, AnswerOK, Idle
<1> QED BY <1>1, NextInv

LEMMA ResetKeeps ==
  ASSUME TurnInv, Disciplined, Reset
  PROVE  TurnInv'
<1> DEFINE m == SetMode(model, "half")
           x == ResetSession(m)
<1>1. m \in Models
  BY SetModeKeeps DEF TurnInv, Good, Core
<1>2. model' = x
  BY DEF Reset
<1> HIDE DEF m
<1>3. Good(x)
  BY <1>1, ResetEmpties, EmptiedIsGood
<1> HIDE DEF x
<1>4. answer' \in Answers /\ answer'.phase # "answering" /\ snapshot' = NoSnapshot /\ before' = before
  BY DEF Reset, Cleared, Idle, TurnInv, AnswerOK
<1> QED BY <1>2, <1>3, <1>4, NextInv

LEMMA UseDuplexKeeps ==
  ASSUME TurnInv, Disciplined, UseDuplex
  PROVE  TurnInv'
<1> DEFINE x == SetMode(model, "duplex")
<1>1. Good(x) /\ model' = x
  BY SetModeKeeps DEF TurnInv, UseDuplex
<1> HIDE DEF x
<1>2. answer' \in Answers /\ answer'.phase # "answering" /\ snapshot' = NoSnapshot /\ before' = before
  BY DEF UseDuplex, Cleared, Idle, TurnInv, AnswerOK
<1> QED BY <1>1, <1>2, NextInv

LEMMA StutterKeeps ==
  ASSUME TurnInv, UNCHANGED vars
  PROVE  TurnInv'
<1>1. /\ Good(model) /\ AnswerOK /\ model' = model /\ answer' = answer /\ before' = before
      /\ snapshot' = snapshot
      /\ snapshot # NoSnapshot => snapshot = SaveSnapshot(before) /\ Good(before) /\ Extends(model, before)
  BY DEF TurnInv, SnapshotOK, vars
<1> QED BY <1>1, NextInv DEF AnswerOK

LEMMA StepTurn ==
  ASSUME TurnInv, Disciplined, [Next]_vars
  PROVE  TurnInv'
<1>0. SystemSize \in Nat /\ SystemSize > 0 /\ \A n \in Sizes : n \in Nat /\ n > 0
  BY TurnAssumption
<1>1. ASSUME NEW session \in 1..MaxSessions, NEW n \in Sizes, NEW audio \in BOOLEAN,
             Prefill(session, "user", n, audio)
      PROVE  TurnInv'
  BY <1>0, <1>1, PrefillKeeps
<1>2. ASSUME NEW session \in 1..MaxSessions, NEW n \in Sizes, Prefill(session, "assistant", n, FALSE)
      PROVE  TurnInv'
  <2>1. /\ session \in Nat /\ "assistant" \in {"user", "assistant", "system"}
        /\ n \in Nat /\ n > 0 /\ FALSE \in BOOLEAN /\ ("assistant" = "system" => n = SystemSize)
    BY <1>0
  <2> QED BY <1>2, <2>1, PrefillKeeps
<1>3. ASSUME NEW session \in 1..MaxSessions, Prefill(session, "system", SystemSize, FALSE)
      PROVE  TurnInv'
  <2>1. /\ session \in Nat /\ "system" \in {"user", "assistant", "system"}
        /\ SystemSize \in Nat /\ SystemSize > 0 /\ FALSE \in BOOLEAN
        /\ ("system" = "system" => SystemSize = SystemSize)
    BY <1>0
  <2> QED BY <1>3, <2>1, PrefillKeeps
<1>4. ASSUME NEW n \in 1..MaxInput, ChatPrefill(n) PROVE TurnInv'
  BY <1>4, ChatPrefillKeeps
<1>5. ASSUME NEW n \in 1..ChunkSize, ChatGenerate(n) PROVE TurnInv'
  BY <1>5, ChatGenerateKeeps
<1>6. ASSUME NEW speculative \in BOOLEAN, NEW audio \in BOOLEAN, Generate(speculative, audio)
      PROVE  TurnInv'
  BY <1>6, GenerateKeeps
<1>7. ASSUME NEW n \in 1..ChunkSize, NEW finished \in BOOLEAN, AnswerChunk(n, finished)
      PROVE  TurnInv'
  BY <1>7, AnswerChunkKeeps
<1>8. ASSUME NEW n \in 1..(MaxChunks * ChunkSize), FinalizeRound(n) PROVE TurnInv'
  BY <1>8, FinalizeRoundKeeps
<1>9. CASE UNCHANGED vars
  BY <1>9, StutterKeeps
<1>10. CASE Next
  BY <1>1, <1>2, <1>3, <1>4, <1>5, <1>6, <1>7, <1>8, <1>10, AnswerRaisesKeeps, AbandonKeeps,
     RollbackKeeps, ClearKeeps, ResetKeeps, UseDuplexKeeps DEF Next
<1> QED BY <1>9, <1>10

-----------------------------------------------------------------------------
(* The system prompt stays in front whatever the window cuts               *)
(* (_drop_tokens_from_cache, _register_chunk).                             *)
THEOREM SystemPromptStays == ASSUME Disciplined PROVE Spec => []SystemKept
<1>1. TurnInv => SystemKept
  BY DEF TurnInv, Good, Core, Models, SystemKept
<1> QED BY <1>1, InitTurn, StepTurn, PTL DEF Spec

(* The lengths of the history never claim more than the cache holds        *)
(* (_register_chunk, _finalize_round, _drop_round).                        *)
THEOREM BooksAlwaysFit == ASSUME Disciplined PROVE Spec => []BooksFit
<1>1. TurnInv => BooksFit
  BY DEF TurnInv, Good, Core, BooksFit
<1> QED BY <1>1, InitTurn, StepTurn, PTL DEF Spec

(* A segment without a marker goes on with the user's turn that is open    *)
(* (streaming_prefill, new_user_msg).                                      *)
THEOREM TurnStaysOpen == ASSUME Disciplined PROVE Spec => []OpenTurn
<1>1. ASSUME TurnInv PROVE OpenTurn
  <2> SUFFICES ASSUME ~model.newUser,
                      \E i \in DOMAIN model.history :
                        model.history[i].opens /\ model.history[i].round = model.nextRound
               PROVE  Markers # {} /\ model.cache[Max(Markers)][2] = "turn"
    BY DEF OpenTurn
  <2>1. /\ model.cache \in Seq(TokenSet) /\ model.history \in Seq(EntrySet) /\ Len(model.cache) \in Nat
        /\ DOMAIN model.cache = 1..Len(model.cache) /\ DOMAIN model.history = 1..Len(model.history)
    BY <1>1, GoodTypes DEF TurnInv
  <2>2. PICK pre, tail \in Seq(EntrySet) : OpenAt(model, pre, tail)
    BY <1>1, <2>1 DEF TurnInv, Good, OpenOK, Opened
  <2>3. PICK d \in Nat : /\ d + Booked(tail) = Len(model.cache)
                         /\ model.cache[d + 1][2] = "turn"
                         /\ \A i \in 1..Len(model.cache) : i > d => model.cache[i][2] # "header"
    BY <2>2 DEF OpenAt
  <2>4. d + 1 \in Markers
    <3>1. Booked(tail) > 0 /\ Booked(tail) \in Nat
      BY <2>2, SumTypes DEF OpenAt, Types
    <3> QED BY <2>1, <2>3, <3>1 DEF Markers
  <2>5. Max(Markers) \in Markers /\ d + 1 <= Max(Markers)
    <3>1. Markers \in SUBSET (1..Len(model.cache))
      BY <2>1 DEF Markers
    <3> QED BY <2>1, <2>4, <3>1, Greatest
  <2>6. Max(Markers) \in 1..Len(model.cache) /\ model.cache[Max(Markers)][2] \in {"turn", "header"}
    BY <2>1, <2>5 DEF Markers
  <2> QED BY <2>3, <2>4, <2>5, <2>6
<1>2. TurnInv => OpenTurn
  BY <1>1
<1> QED BY <1>2, InitTurn, StepTurn, PTL DEF Spec

(* A rollback leaves the model as it was before streaming_generate         *)
(* (restore_speculative_snapshot).                                         *)
THEOREM RollbackIsExact == ASSUME Disciplined PROVE Spec => RollbackRestores
<1>1. TurnInv /\ [Next]_vars => [Rollback => model' = before]_vars
  BY RollbackRestored
<1> QED BY <1>1, InitTurn, StepTurn, PTL DEF Spec, RollbackRestores
=============================================================================
