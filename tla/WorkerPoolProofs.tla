-------------------------- MODULE WorkerPoolProofs --------------------------
(***************************************************************************)
(* Proofs about WorkerPool, for any pool, any clients and any bounds, in   *)
(* this order:                                                             *)
(*   Types, Exclusive, DispatchAuthority, QueueAndFuturesAgree             *)
(*                        types, exclusive use of a worker that stays at   *)
(*                        its endpoint, authority of the dispatch mark,    *)
(*                        agreement of the queue with the futures;         *)
(*   NoIdleWaste          no idle worker beside a waiting client;          *)
(*   LossesExplained      how a worker can be lost at all;                 *)
(*   LeasesImplemented    the pool implements WorkerLeases.                *)
(*                                                                         *)
(* The first four are inductive together with HandlerHasWorker (a handler  *)
(* has a worker exactly in its serving phases). All dispatching goes       *)
(* through one operator, so what a dispatch keeps is one lemma             *)
(* (DispatchKeeps), used by each of the five actions that dispatch.        *)
(***************************************************************************)
EXTENDS WorkerPool, SequenceTheorems, TLAPS

Statuses == {"idle", "busy", "offline"}
Futures  == Workers \cup {None, Pending, Cancelled}

(* A handler has a worker exactly in its serving phases. *)
HandlerHasWorker ==
  \A c \in Clients : worker[c] \in Workers <=> pc[c] \in Serving

----------------------------------------------------------------------------
(* What the four arguments of a dispatch satisfy whenever one starts. *)
Dispatchable(st, ds, q, fut) ==
  /\ st \in [Workers -> Statuses]
  /\ ds \in [Workers -> BOOLEAN]
  /\ q \in Seq(Clients)
  /\ fut \in [Clients -> Futures]
  /\ \A w \in Workers : ds[w] => st[w] # "idle"
  /\ \A i, j \in 1..Len(q) : q[i] = q[j] => i = j
  /\ \A c \in Clients : fut[c] = Pending <=> \E i \in 1..Len(q) : q[i] = c

(* What a dispatch hands out: the n oldest tickets get different idle      *)
(* workers, which are marked; nothing else changes hands.                  *)
Gives(st, ds, q, fut, n, a) ==
  /\ status' = Occupy(st, {a[j] : j \in 1..n})
  /\ dispatched' = [w \in Workers |-> w \in {a[j] : j \in 1..n} \/ ds[w]]
  /\ queue' = SubSeq(q, n + 1, Len(q))
  /\ future' \in [Clients -> Futures]
  /\ \A i \in 1..n : st[a[i]] = "idle"
  /\ \A i, j \in 1..n : a[i] = a[j] => i = j
  /\ \A i \in 1..n : /\ i \in 1..Len(q) /\ q[i] \in Clients
                      /\ fut[q[i]] = Pending /\ future'[q[i]] = a[i]
  /\ \A c \in Clients : (\A i \in 1..n : q[i] # c) => future'[c] = fut[c]

LEMMA DispatchGives ==
  ASSUME NEW st, NEW ds, NEW q, NEW fut,
         Dispatchable(st, ds, q, fut),
         Dispatch(st, ds, q, fut)
  PROVE  \E n \in 0..Len(q) : \E a \in [1..n -> Workers] :
           Gives(st, ds, q, fut, n, a)
<1> USE NoneAssumption DEF Statuses, Futures
<1>0. PICK n \in 0..Len(q) : \E a \in [1..n -> Workers] :
        /\ \A i \in 1..n : IsBest(Occupy(st, {a[j] : j \in 1..(i - 1)}), a[i])
        /\ status' = Occupy(st, {a[j] : j \in 1..n})
        /\ dispatched' = [w \in Workers |-> w \in {a[j] : j \in 1..n} \/ ds[w]]
        /\ queue' = SubSeq(q, n + 1, Len(q))
        /\ future' = [c \in Clients |->
                        IF \E i \in 1..n : q[i] = c
                        THEN a[CHOOSE i \in 1..n : q[i] = c]
                        ELSE fut[c]]
  BY DEF Dispatch
<1>1. PICK a \in [1..n -> Workers] :
        /\ \A i \in 1..n : IsBest(Occupy(st, {a[j] : j \in 1..(i - 1)}), a[i])
        /\ status' = Occupy(st, {a[j] : j \in 1..n})
        /\ dispatched' = [w \in Workers |-> w \in {a[j] : j \in 1..n} \/ ds[w]]
        /\ queue' = SubSeq(q, n + 1, Len(q))
        /\ future' = [c \in Clients |->
                        IF \E i \in 1..n : q[i] = c
                        THEN a[CHOOSE i \in 1..n : q[i] = c]
                        ELSE fut[c]]
  BY <1>0
<1>2. /\ q \in Seq(Clients) /\ Len(q) \in Nat /\ n \in Nat
      /\ \A i \in 1..Len(q) : q[i] \in Clients
      /\ \A i \in 1..n : i \in 1..Len(q)
  BY DEF Dispatchable
<1>3. \A i \in 1..n : /\ st[a[i]] = "idle"
                      /\ a[i] \notin {a[j] : j \in 1..(i - 1)}
  BY <1>1 DEF IsBest, Idle, Occupy, Dispatchable
<1>4. \A i, j \in 1..n : a[i] = a[j] => i = j
  <2>1. \A i, j \in 1..n : i < j => a[i] # a[j]
    <3> SUFFICES ASSUME NEW i \in 1..n, NEW j \in 1..n, i < j
                 PROVE  a[i] # a[j]
      OBVIOUS
    <3>1. i \in 1..(j - 1)
      OBVIOUS
    <3>2. QED
      BY <3>1, <1>3
  <2>2. QED
    BY <2>1, <1>2
<1>5. \A i \in 1..n : q[i] \in Clients /\ future'[q[i]] = a[i]
  <2> SUFFICES ASSUME NEW i \in 1..n
               PROVE  q[i] \in Clients /\ future'[q[i]] = a[i]
    OBVIOUS
  <2>1. q[i] \in Clients /\ i \in 1..Len(q)
    BY <1>2
  <2>2. (CHOOSE k \in 1..n : q[k] = q[i]) = i
    BY <1>2, <2>1 DEF Dispatchable
  <2>3. QED
    BY <1>1, <2>1, <2>2
<1>6. \A c \in Clients : (\A i \in 1..n : q[i] # c) => future'[c] = fut[c]
  BY <1>1
<1>7. \A i \in 1..n : i \in 1..Len(q) /\ fut[q[i]] = Pending
  BY <1>2, <1>5 DEF Dispatchable
<1>8. \A c \in Clients : future'[c] \in Futures
  <2> SUFFICES ASSUME NEW c \in Clients
               PROVE  future'[c] \in Futures
    OBVIOUS
  <2>1. CASE \E i \in 1..n : q[i] = c
    BY <2>1, <1>5
  <2>2. CASE \A i \in 1..n : q[i] # c
    BY <2>2, <1>6 DEF Dispatchable
  <2>3. QED
    BY <2>1, <2>2
<1>9. future' \in [Clients -> Futures]
  BY <1>1, <1>8
<1>10. Gives(st, ds, q, fut, n, a)
  BY <1>1, <1>3, <1>4, <1>5, <1>6, <1>7, <1>9 DEF Gives
<1>11. QED
  BY <1>10

(* A dispatch keeps all of that, clears no mark, and touches a future only *)
(* to resolve an open one with a worker that was not dispatched and is now *)
(* and that nobody else gets.                                              *)
LEMMA DispatchKeeps ==
  ASSUME NEW st, NEW ds, NEW q, NEW fut,
         Dispatchable(st, ds, q, fut),
         Dispatch(st, ds, q, fut)
  PROVE  /\ Dispatchable(status', dispatched', queue', future')
         /\ \A w \in Workers : ds[w] => dispatched'[w]
         /\ \A c \in Clients :
              \/ future'[c] = fut[c]
              \/ /\ fut[c] = Pending
                 /\ future'[c] \in Workers
                 /\ ~ds[future'[c]]
                 /\ dispatched'[future'[c]]
         /\ \A c, d \in Clients :
              /\ future'[c] # fut[c]
              /\ future'[d] # fut[d]
              /\ future'[c] = future'[d]
              => c = d
<1> USE NoneAssumption DEF Statuses, Futures
<1>0. PICK n \in 0..Len(q) : \E a \in [1..n -> Workers] : Gives(st, ds, q, fut, n, a)
  BY DispatchGives
<1>1. PICK a \in [1..n -> Workers] : Gives(st, ds, q, fut, n, a)
  BY <1>0
<1>2. /\ q \in Seq(Clients) /\ Len(q) \in Nat /\ n \in Nat
      /\ \A i \in 1..n : i \in 1..Len(q)
  BY DEF Dispatchable
<1>4. \A i, j \in 1..n : a[i] = a[j] => i = j
  BY <1>1 DEF Gives
<1>5. \A i \in 1..n : q[i] \in Clients /\ future'[q[i]] = a[i]
  BY <1>1 DEF Gives
<1>6. \A c \in Clients : (\A i \in 1..n : q[i] # c) => future'[c] = fut[c]
  BY <1>1 DEF Gives
<1>7. Len(queue') = Len(q) - n /\ queue' \in Seq(Clients)
  BY <1>1, <1>2, SubSeqProperties DEF Gives
<1>8. \A i \in 1..Len(queue') : /\ queue'[i] = q[n + i]
                                /\ n + i \in 1..Len(q)
  <2>1. queue' = SubSeq(q, n + 1, Len(q))
    BY <1>1 DEF Gives
  <2>2. \A i \in 1..(Len(q) - n) : SubSeq(q, n + 1, Len(q))[i] = q[n + i]
    BY <1>2
  <2>3. QED
    BY <1>2, <1>7, <2>1, <2>2
<1>9. /\ status' \in [Workers -> Statuses]
      /\ dispatched' \in [Workers -> BOOLEAN]
      /\ future' \in [Clients -> Futures]
  <2>1. status' \in [Workers -> Statuses]
    BY <1>1 DEF Gives, Dispatchable, Occupy
  <2>2. dispatched' \in [Workers -> BOOLEAN]
    BY <1>1, Zenon DEF Gives
  <2>3. QED
    BY <1>1, <2>1, <2>2 DEF Gives
<1>10. \A w \in Workers : dispatched'[w] => status'[w] # "idle"
  BY <1>1 DEF Gives, Dispatchable, Occupy
<1>11. \A i, j \in 1..Len(queue') : queue'[i] = queue'[j] => i = j
  <2> SUFFICES ASSUME NEW i \in 1..Len(queue'), NEW j \in 1..Len(queue'),
                      queue'[i] = queue'[j]
               PROVE  i = j
    OBVIOUS
  <2>1. q[n + i] = q[n + j] /\ n + i \in 1..Len(q) /\ n + j \in 1..Len(q)
    BY <1>8
  <2>2. n + i = n + j
    BY <2>1 DEF Dispatchable
  <2>3. QED
    BY <2>2, <1>2, <1>7
<1>12. \A c \in Clients :
         future'[c] = Pending <=> \E i \in 1..Len(queue') : queue'[i] = c
  <2> SUFFICES ASSUME NEW c \in Clients
               PROVE  future'[c] = Pending
                        <=> \E i \in 1..Len(queue') : queue'[i] = c
    OBVIOUS
  <2>1. CASE \E i \in 1..n : q[i] = c
    <3>1. PICK k \in 1..n : q[k] = c
      BY <2>1
    <3>2. future'[c] \in Workers
      BY <3>1, <1>5
    <3>3. \A i \in 1..Len(queue') : queue'[i] # c
      <4> SUFFICES ASSUME NEW i \in 1..Len(queue'), queue'[i] = c
                   PROVE  FALSE
        OBVIOUS
      <4>1. q[n + i] = q[k] /\ n + i \in 1..Len(q) /\ k \in 1..Len(q)
        BY <1>8, <3>1, <1>2
      <4>2. n + i = k
        BY <4>1 DEF Dispatchable
      <4>3. QED
        BY <4>2, <1>2, <1>7
    <3>4. QED
      BY <3>2, <3>3
  <2>2. CASE \A i \in 1..n : q[i] # c
    <3>1. future'[c] = fut[c]
      BY <2>2, <1>6
    <3>2. ASSUME NEW k \in 1..Len(q), q[k] = c
          PROVE  \E i \in 1..Len(queue') : queue'[i] = c
      <4>1. k - n \in 1..Len(queue') /\ n + (k - n) = k
        BY <3>2, <2>2, <1>2, <1>7
      <4>2. queue'[k - n] = c
        BY <4>1, <1>8, <3>2
      <4>3. QED
        BY <4>1, <4>2
    <3>3. ASSUME NEW i \in 1..Len(queue'), queue'[i] = c
          PROVE  \E k \in 1..Len(q) : q[k] = c
      BY <3>3, <1>8
    <3>4. QED
      BY <3>1, <3>2, <3>3 DEF Dispatchable
  <2>3. QED
    BY <2>1, <2>2
<1>13. Dispatchable(status', dispatched', queue', future')
  BY <1>7, <1>9, <1>10, <1>11, <1>12 DEF Dispatchable
<1>14. \A w \in Workers : ds[w] => dispatched'[w]
  BY <1>1, Zenon DEF Gives
<1>15. \A c \in Clients : future'[c] # fut[c] =>
         \E i \in 1..n : q[i] = c /\ future'[c] = a[i]
  BY <1>5, <1>6
<1>16. ASSUME NEW i \in 1..n
       PROVE  /\ fut[q[i]] = Pending /\ a[i] \in Workers
              /\ ~ds[a[i]] /\ dispatched'[a[i]]
  <2>1. fut[q[i]] = Pending
    BY <1>1 DEF Gives
  <2>2. a[i] \in Workers /\ ~ds[a[i]]
    BY <1>1 DEF Gives, Dispatchable
  <2>3. dispatched'[a[i]]
    BY <1>1, <2>2 DEF Gives
  <2>4. QED
    BY <2>1, <2>2, <2>3
<1>17. QED
  BY <1>4, <1>13, <1>14, <1>15, <1>16

----------------------------------------------------------------------------
(* A handler has a worker: Holds for a given local variable, future and    *)
(* phase of the handlers.                                                  *)
Has(wk, fut, ph, c, w) == wk[c] = w \/ (fut[c] = w /\ ph[c] \in Queued)

(* What the invariants say of a pool, a queue and the handlers.            *)
Sound(st, ds, q, fut, wk, ph, mv) ==
  /\ Dispatchable(st, ds, q, fut)
  /\ \A c \in Clients : fut[c] # None => ph[c] \in Queued
  /\ \A w \in Workers \ mv : \A c, d \in Clients :
       Has(wk, fut, ph, c, w) /\ Has(wk, fut, ph, d, w) => c = d
  /\ \A w \in Workers \ mv : \A c \in Clients :
       Has(wk, fut, ph, c, w) => ds[w]

(* The remaining variables have their types. *)
RestOK ==
  /\ known \subseteq Workers
  /\ round \in BOOLEAN
  /\ reply \in [Callers \X Workers -> Answers \cup {None, "asked"}]
  /\ pc \in [Clients -> Phases]
  /\ worker \in [Clients -> Workers \cup {None}]
  /\ host \in [Workers -> Answers]
  /\ crashes \in 0..MaxCrashes
  /\ moved \subseteq Workers
  /\ orphans \subseteq Clients

SoundNow == Sound(status, dispatched, queue, future, worker, pc, moved)

IInv == SoundNow /\ RestOK /\ HandlerHasWorker

LEMMA IInvImplies ==
  IInv => TypeOK /\ ExclusiveUnlessMoved /\ DispatchHasAuthority /\ WaitersAreQueued
  BY NoneAssumption
  DEF IInv, SoundNow, Sound, RestOK, TypeOK, ExclusiveUnlessMoved,
      DispatchHasAuthority, WaitersAreQueued, Dispatchable, Has, Holds,
      InQueue, Statuses, Futures

(* A dispatch keeps the handlers' side of the invariant too. *)
LEMMA DispatchIsSound ==
  ASSUME NEW st, NEW ds, NEW q, NEW fut, NEW wk, NEW ph, NEW mv,
         Sound(st, ds, q, fut, wk, ph, mv),
         Dispatch(st, ds, q, fut)
  PROVE  Sound(status', dispatched', queue', future', wk, ph, mv)
<1>1. /\ Dispatchable(st, ds, q, fut)
      /\ \A c \in Clients : fut[c] # None => ph[c] \in Queued
      /\ \A w \in Workers \ mv : \A c, d \in Clients :
           Has(wk, fut, ph, c, w) /\ Has(wk, fut, ph, d, w) => c = d
      /\ \A w \in Workers \ mv : \A c \in Clients :
           Has(wk, fut, ph, c, w) => ds[w]
  BY DEF Sound
<1>2. /\ Dispatchable(status', dispatched', queue', future')
      /\ \A w \in Workers : ds[w] => dispatched'[w]
      /\ \A c \in Clients :
           \/ future'[c] = fut[c]
           \/ /\ fut[c] = Pending
              /\ future'[c] \in Workers
              /\ ~ds[future'[c]]
              /\ dispatched'[future'[c]]
      /\ \A c, d \in Clients :
           /\ future'[c] # fut[c]
           /\ future'[d] # fut[d]
           /\ future'[c] = future'[d]
           => c = d
  BY <1>1, DispatchKeeps, Zenon
<1>3. \A c \in Clients : future'[c] # None => ph[c] \in Queued
  BY <1>1, <1>2, NoneAssumption
<1>4. \A w \in Workers \ mv : \A c \in Clients :
        Has(wk, future', ph, c, w) =>
          \/ Has(wk, fut, ph, c, w)
          \/ future'[c] = w /\ future'[c] # fut[c] /\ ~ds[w]
  BY <1>2 DEF Has
<1>5. \A w \in Workers \ mv : \A c, d \in Clients :
        Has(wk, future', ph, c, w) /\ Has(wk, future', ph, d, w) => c = d
  BY <1>1, <1>2, <1>4
<1>6. \A w \in Workers \ mv : \A c \in Clients :
        Has(wk, future', ph, c, w) => dispatched'[w]
  BY <1>1, <1>2, <1>4
<1>7. QED
  BY <1>2, <1>3, <1>5, <1>6 DEF Sound

----------------------------------------------------------------------------
(* Taking an entry out of the queue leaves the others in their order. *)
LEMMA RemoveAtEntries ==
  ASSUME NEW S, NEW s \in Seq(S), NEW i \in 1..Len(s)
  PROVE  /\ RemoveAt(s, i) \in Seq(S)
         /\ Len(RemoveAt(s, i)) = Len(s) - 1
         /\ \A k \in 1..(Len(s) - 1) :
              RemoveAt(s, i)[k] = IF k < i THEN s[k] ELSE s[k + 1]
<1> DEFINE front == SubSeq(s, 1, i - 1)
           back  == SubSeq(s, i + 1, Len(s))
<1>1. /\ front \in Seq(S) /\ Len(front) = i - 1
      /\ \A k \in 1..(i - 1) : front[k] = s[k]
  BY SubSeqProperties
<1>2. /\ back \in Seq(S) /\ Len(back) = Len(s) - i
      /\ \A k \in 1..(Len(s) - i) : back[k] = s[i + k]
  BY SubSeqProperties
<1>3. RemoveAt(s, i) = front \o back
  BY DEF RemoveAt
<1> HIDE DEF front, back
<1>4. /\ RemoveAt(s, i) \in Seq(S)
      /\ Len(RemoveAt(s, i)) = (i - 1) + (Len(s) - i)
      /\ \A k \in 1..((i - 1) + (Len(s) - i)) : RemoveAt(s, i)[k] =
           IF k <= i - 1 THEN front[k] ELSE back[k - (i - 1)]
  <2>1. front \in Seq(S) /\ back \in Seq(S)
    BY <1>1, <1>2
  <2>2. /\ front \o back \in Seq(S)
        /\ Len(front \o back) = Len(front) + Len(back)
        /\ \A k \in 1..(Len(front) + Len(back)) : (front \o back)[k] =
             IF k <= Len(front) THEN front[k] ELSE back[k - Len(front)]
    BY <2>1, ConcatProperties, Zenon
  <2>3. QED
    BY <2>2, <1>1, <1>2, <1>3, Zenon
<1>5. (i - 1) + (Len(s) - i) = Len(s) - 1
  OBVIOUS
<1>6. ASSUME NEW k \in 1..(Len(s) - 1)
      PROVE  RemoveAt(s, i)[k] = IF k < i THEN s[k] ELSE s[k + 1]
  <2>1. CASE k < i
    <3>1. k \in 1..(i - 1) /\ k <= i - 1 /\ k \in 1..((i - 1) + (Len(s) - i))
      BY <2>1
    <3>2. RemoveAt(s, i)[k] = front[k]
      BY <3>1, <1>4, Zenon
    <3>3. QED
      BY <2>1, <3>1, <3>2, <1>1
  <2>2. CASE ~(k < i)
    <3>1. k - (i - 1) \in 1..(Len(s) - i) /\ i + (k - (i - 1)) = k + 1
      BY <2>2
    <3>2. RemoveAt(s, i)[k] = back[k - (i - 1)]
      BY <2>2, <1>4, <1>5
    <3>3. QED
      BY <2>2, <3>1, <3>2, <1>2
  <2>3. QED
    BY <2>1, <2>2
<1>7. QED
  BY <1>4, <1>5, <1>6

(* The queue without its i-th entry, whose future is settled, can be       *)
(* dispatched.                                                             *)
LEMMA RemovalIsDispatchable ==
  ASSUME NEW st, NEW ds, NEW q, NEW fut, NEW i \in 1..Len(q),
         NEW f \in Futures, f # Pending,
         Dispatchable(st, ds, q, fut)
  PROVE  Dispatchable(st, ds, RemoveAt(q, i), [fut EXCEPT ![q[i]] = f])
<1> DEFINE r == RemoveAt(q, i)
           g == [fut EXCEPT ![q[i]] = f]
<1>1. /\ q \in Seq(Clients) /\ Len(q) \in Nat /\ q[i] \in Clients
      /\ fut \in [Clients -> Futures]
      /\ \A j, k \in 1..Len(q) : q[j] = q[k] => j = k
      /\ \A c \in Clients : fut[c] = Pending <=> \E k \in 1..Len(q) : q[k] = c
  BY DEF Dispatchable
<1>2. /\ r \in Seq(Clients) /\ Len(r) = Len(q) - 1
      /\ \A k \in 1..Len(r) : r[k] = IF k < i THEN q[k] ELSE q[k + 1]
  BY <1>1, RemoveAtEntries
<1> HIDE DEF r
<1>3. \A j, k \in 1..Len(r) : r[j] = r[k] => j = k
  <2> SUFFICES ASSUME NEW j \in 1..Len(r), NEW k \in 1..Len(r), r[j] = r[k]
               PROVE  j = k
    OBVIOUS
  <2>1. \A l \in 1..Len(r) : \E m \in 1..Len(q) :
          /\ r[l] = q[m]
          /\ m = IF l < i THEN l ELSE l + 1
    <3> SUFFICES ASSUME NEW l \in 1..Len(r)
                 PROVE  \E m \in 1..Len(q) : /\ r[l] = q[m]
                                             /\ m = IF l < i THEN l ELSE l + 1
      OBVIOUS
    <3>1. CASE l < i
      BY <3>1, <1>1, <1>2
    <3>2. CASE ~(l < i)
      <4>1. l + 1 \in 1..Len(q) /\ r[l] = q[l + 1]
        BY <3>2, <1>1, <1>2
      <4>2. QED
        BY <3>2, <4>1
    <3>3. QED
      BY <3>1, <3>2
  <2>2. PICK m \in 1..Len(q) : r[j] = q[m] /\ m = IF j < i THEN j ELSE j + 1
    BY <2>1
  <2>3. PICK o \in 1..Len(q) : r[k] = q[o] /\ o = IF k < i THEN k ELSE k + 1
    BY <2>1
  <2>4. m = o
    <3>1. q[m] = q[o]
      BY <2>2, <2>3
    <3>2. QED
      BY <3>1, <1>1
  <2>5. QED
    BY <2>2, <2>3, <2>4, <1>1, <1>2
<1>4. \A c \in Clients :
        (\E k \in 1..Len(r) : r[k] = c) <=>
          c # q[i] /\ \E k \in 1..Len(q) : q[k] = c
  <2>1. ASSUME NEW k \in 1..Len(r)
        PROVE  r[k] # q[i] /\ \E m \in 1..Len(q) : q[m] = r[k]
    <3>1. CASE k < i
      BY <3>1, <1>1, <1>2
    <3>2. CASE ~(k < i)
      <4>1. k + 1 \in 1..Len(q) /\ k + 1 # i /\ r[k] = q[k + 1]
        BY <3>2, <1>1, <1>2
      <4>2. QED
        BY <4>1, <1>1
    <3>3. QED
      BY <3>1, <3>2
  <2>2. ASSUME NEW m \in 1..Len(q), q[m] # q[i]
        PROVE  \E k \in 1..Len(r) : r[k] = q[m]
    <3>1. CASE m < i
      BY <3>1, <1>1, <1>2
    <3>2. CASE ~(m < i)
      <4>1. m - 1 \in 1..Len(r) /\ ~(m - 1 < i) /\ (m - 1) + 1 = m
        BY <3>2, <2>2, <1>1, <1>2
      <4>2. QED
        BY <4>1, <1>2
    <3>3. QED
      BY <3>1, <3>2
  <2>3. QED
    BY <2>1, <2>2
<1>5. g \in [Clients -> Futures]
  BY <1>1
<1>6. \A c \in Clients : g[c] = Pending <=> \E k \in 1..Len(r) : r[k] = c
  BY <1>1, <1>4
<1>7. QED
  BY <1>1, <1>2, <1>3, <1>5, <1>6 DEF Dispatchable, r

----------------------------------------------------------------------------
(* Every action keeps the invariant. The facts each case starts from:      *)
LEMMA Facts ==
  ASSUME IInv
  PROVE  /\ SoundNow /\ RestOK /\ HandlerHasWorker
         /\ Dispatchable(status, dispatched, queue, future)
         /\ status \in [Workers -> Statuses]
         /\ dispatched \in [Workers -> BOOLEAN]
         /\ future \in [Clients -> Futures]
         /\ \A c \in Clients : pc[c] \notin Queued => future[c] = None
         /\ \A c \in Clients : pc[c] \in Serving => worker[c] \in Workers
         /\ \A c \in Clients : pc[c] \notin Serving => worker[c] = None
BY NoneAssumption
DEF IInv, SoundNow, Sound, RestOK, HandlerHasWorker, Dispatchable

LEMMA InitIInv == Init => IInv
<1> SUFFICES ASSUME Init PROVE IInv
  OBVIOUS
<1> USE NoneAssumption, WorkersAssumption, BoundsAssumption DEF Init
<1>1. Dispatchable(status, dispatched, queue, future)
  BY DEF Dispatchable, Statuses, Futures
<1>2. SoundNow
  BY <1>1 DEF SoundNow, Sound, Has, Queued
<1>3. RestOK
  <2>1. reply \in [Callers \X Workers -> Answers \cup {None, "asked"}]
    OBVIOUS
  <2>2. /\ pc \in [Clients -> Phases]
        /\ worker \in [Clients -> Workers \cup {None}]
        /\ host \in [Workers -> Answers]
    BY DEF Answers, Phases
  <2>3. /\ known \subseteq Workers /\ moved \subseteq Workers
        /\ orphans \subseteq Clients /\ round \in BOOLEAN
    OBVIOUS
  <2>4. crashes \in 0..MaxCrashes
    OBVIOUS
  <2>5. QED
    BY <2>1, <2>2, <2>3, <2>4, Zenon DEF RestOK
<1>4. HandlerHasWorker
  BY DEF HandlerHasWorker, Serving
<1>5. QED
  BY <1>2, <1>3, <1>4 DEF IInv

(* A new handler that finds an idle worker: nobody holds that worker,      *)
(* since whoever does would have it marked, hence not idle.                *)
LEMMA ArriveAssignedKeeps ==
  ASSUME IInv, NEW c \in Clients, ArriveAssigned(c)
  PROVE  IInv'
<1>1. PICK w \in Workers :
        /\ IsBest(status, w)
        /\ status' = [status EXCEPT ![w] = "busy"]
        /\ dispatched' = [dispatched EXCEPT ![w] = TRUE]
        /\ worker' = [worker EXCEPT ![c] = w]
  BY DEF ArriveAssigned
<1>2. /\ pc[c] = "away" /\ pc' = [pc EXCEPT ![c] = "greeting"]
      /\ UNCHANGED <<known, queue, future, round, reply, host, crashes, moved,
                     orphans>>
  BY DEF ArriveAssigned, queueVars, healthVars, hostVars, moveVars
<1>3. ~dispatched[w]
  BY <1>1, Facts DEF IsBest, Idle, Dispatchable
<1>4. RestOK' /\ HandlerHasWorker'
  BY <1>1, <1>2, Facts DEF RestOK, HandlerHasWorker, Phases, Serving, Queued
<1>5. Dispatchable(status, dispatched, queue, future)'
  BY <1>1, <1>2, Facts DEF Dispatchable, Statuses
<1>6. SoundNow'
  <2>1. \A d \in Clients : future[d] # None => pc[d] \in Queued /\ pc'[d] \in Queued
    BY <1>2, Facts DEF RestOK, Queued
  <2>2. \A v \in Workers \ moved : \A d \in Clients :
          Has(worker', future', pc', d, v) =>
            \/ Has(worker, future, pc, d, v) /\ d # c
            \/ d = c /\ v = w
    BY <1>1, <1>2, Facts, NoneAssumption DEF RestOK, Has, Queued
  <2>3. \A d \in Clients : w \notin moved => ~Has(worker, future, pc, d, w)
    BY <1>3, Facts DEF SoundNow, Sound
  <2>4. QED
    BY <1>1, <1>2, <1>5, <2>1, <2>2, <2>3, Facts DEF SoundNow, Sound
<1>7. QED
  BY <1>4, <1>6 DEF IInv

(* A ticket joins the queue. *)
LEMMA ArriveQueuedKeeps ==
  ASSUME IInv, NEW c \in Clients, ArriveQueued(c)
  PROVE  IInv'
<1>1. /\ pc[c] = "away" /\ pc' = [pc EXCEPT ![c] = "sending"]
      /\ queue' = Append(queue, c)
      /\ future' = [future EXCEPT ![c] = Pending]
      /\ UNCHANGED <<known, status, dispatched, worker, round, reply, host,
                     crashes, moved, orphans>>
  BY DEF ArriveQueued, poolVars, healthVars, hostVars, moveVars
<1>2. RestOK' /\ HandlerHasWorker'
  BY <1>1, Facts DEF RestOK, HandlerHasWorker, Phases, Serving, Queued
<1>3. future[c] = None
  BY <1>1, Facts DEF Queued
<1>4. /\ queue \in Seq(Clients) /\ Len(queue) \in Nat
      /\ \A i, j \in 1..Len(queue) : queue[i] = queue[j] => i = j
      /\ \A i \in 1..Len(queue) : queue[i] # c
  BY <1>3, Facts, NoneAssumption DEF Dispatchable
<1>5. /\ queue' \in Seq(Clients) /\ Len(queue') = Len(queue) + 1
      /\ \A i \in 1..Len(queue) : queue'[i] = queue[i]
      /\ queue'[Len(queue) + 1] = c
  BY <1>1, <1>4, AppendProperties
<1>6. \A i, j \in 1..Len(queue') : queue'[i] = queue'[j] => i = j
  BY <1>4, <1>5
<1>7. \A d \in Clients : (\E i \in 1..Len(queue') : queue'[i] = d) <=>
                          d = c \/ \E i \in 1..Len(queue) : queue[i] = d
  <2> SUFFICES ASSUME NEW d \in Clients
               PROVE  (\E i \in 1..Len(queue') : queue'[i] = d) <=>
                        d = c \/ \E i \in 1..Len(queue) : queue[i] = d
    OBVIOUS
  <2>1. Len(queue) + 1 \in 1..Len(queue') /\ 1..Len(queue) \subseteq 1..Len(queue')
    BY <1>4, <1>5
  <2>2. \A i \in 1..Len(queue') : i \in 1..Len(queue) \/ i = Len(queue) + 1
    BY <1>4, <1>5
  <2>3. QED
    BY <2>1, <2>2, <1>5
<1>8. Dispatchable(status, dispatched, queue, future)'
  BY <1>1, <1>5, <1>6, <1>7, Facts, NoneAssumption DEF Dispatchable, Futures
<1>9. SoundNow'
  <2>1. \A d \in Clients : future'[d] # None => pc'[d] \in Queued
    BY <1>1, Facts DEF RestOK, Queued
  <2>2. \A v \in Workers : \A d \in Clients :
          Has(worker', future', pc', d, v) => Has(worker, future, pc, d, v)
    BY <1>1, Facts, NoneAssumption DEF RestOK, Has, Queued
  <2>3. QED
    BY <1>1, <1>8, <2>1, <2>2, Facts DEF SoundNow, Sound
<1>10. QED
  BY <1>2, <1>9 DEF IInv

(* A handler takes the worker of its future, which it had all along. *)
LEMMA TakeWorkerKeeps ==
  ASSUME IInv, NEW c \in Clients, pc[c] \in Queued, TakeWorker(c)
  PROVE  IInv'
<1>1. /\ future[c] \in Workers /\ worker' = [worker EXCEPT ![c] = future[c]]
      /\ future' = [future EXCEPT ![c] = None]
      /\ pc' = [pc EXCEPT ![c] = "greeting"]
      /\ UNCHANGED <<known, status, dispatched, queue, round, reply, host,
                     crashes, moved, orphans>>
  BY DEF TakeWorker, poolVars, healthVars, hostVars, moveVars
<1>2. RestOK' /\ HandlerHasWorker'
  BY <1>1, Facts DEF RestOK, HandlerHasWorker, Phases, Serving, Queued
<1>3. Dispatchable(status, dispatched, queue, future)'
  BY <1>1, Facts, NoneAssumption DEF Dispatchable, Futures
<1>4. SoundNow'
  <2>1. \A d \in Clients : future'[d] # None => pc'[d] \in Queued
    BY <1>1, Facts DEF RestOK, Queued
  <2>2. \A v \in Workers : \A d \in Clients :
          Has(worker', future', pc', d, v) => Has(worker, future, pc, d, v)
    BY <1>1, Facts, NoneAssumption DEF RestOK, Has, Queued
  <2>3. QED
    BY <1>1, <1>3, <2>1, <2>2, Facts DEF SoundNow, Sound
<1>5. QED
  BY <1>2, <1>4 DEF IInv

(* A handler whose ticket was cancelled ends. *)
LEMMA GiveUpKeeps ==
  ASSUME IInv, NEW c \in Clients, pc[c] \in Queued, GiveUp(c)
  PROVE  IInv'
<1>1. /\ future[c] = Cancelled /\ future' = [future EXCEPT ![c] = None]
      /\ pc' = [pc EXCEPT ![c] = "away"]
      /\ UNCHANGED <<known, status, dispatched, queue, worker, round, reply,
                     host, crashes, moved, orphans>>
  BY DEF GiveUp, poolVars, healthVars, hostVars, moveVars
<1>2. RestOK' /\ HandlerHasWorker'
  BY <1>1, Facts, NoneAssumption DEF RestOK, HandlerHasWorker, Phases, Serving, Queued
<1>3. Dispatchable(status, dispatched, queue, future)'
  BY <1>1, Facts, NoneAssumption DEF Dispatchable, Futures
<1>4. SoundNow'
  <2>1. \A d \in Clients : future'[d] # None => pc'[d] \in Queued
    BY <1>1, Facts DEF RestOK, Queued
  <2>2. \A v \in Workers : \A d \in Clients :
          Has(worker', future', pc', d, v) => Has(worker, future, pc, d, v)
    BY <1>1, Facts, NoneAssumption DEF RestOK, Has, Queued
  <2>3. QED
    BY <1>1, <1>3, <2>1, <2>2, Facts DEF SoundNow, Sound
<1>5. QED
  BY <1>2, <1>4 DEF IInv

(* A handler only moves between phases of the same kind. *)
LEMMA PhaseChangeKeeps ==
  ASSUME IInv, NEW c \in Clients, NEW p \in Phases,
         pc' = [pc EXCEPT ![c] = p],
         p \in Queued <=> pc[c] \in Queued,
         p \in Serving <=> pc[c] \in Serving,
         host' \in [Workers -> Answers],
         UNCHANGED <<known, status, dispatched, queue, future, worker, round,
                     reply, crashes, moved, orphans>>
  PROVE  IInv'
<1>1. RestOK' /\ HandlerHasWorker'
  BY Facts DEF RestOK, HandlerHasWorker
<1>2. Dispatchable(status, dispatched, queue, future)'
  BY Facts DEF Dispatchable
<1>3. \A d \in Clients : pc'[d] \in Queued <=> pc[d] \in Queued
  BY Facts DEF RestOK
<1>4. SoundNow'
  BY <1>2, <1>3, Facts DEF SoundNow, Sound, Has
<1>5. QED
  BY <1>1, <1>4 DEF IInv

(* The second mark_busy marks a worker that is marked already, or one that *)
(* forgot its mark when it moved.                                          *)
LEMMA GreetedKeeps ==
  ASSUME IInv, NEW c \in Clients, Greeted(c)
  PROVE  IInv'
<1>1. /\ pc[c] = "greeting" /\ pc' = [pc EXCEPT ![c] = "connecting"]
      /\ status' = [status EXCEPT ![worker[c]] = "busy"]
      /\ dispatched' = [dispatched EXCEPT ![worker[c]] = TRUE]
      /\ UNCHANGED <<known, queue, future, worker, round, reply, host, crashes,
                     moved, orphans>>
  BY DEF Greeted, queueVars, healthVars, hostVars, moveVars
<1>2. worker[c] \in Workers
  BY <1>1, Facts DEF Serving
<1>3. RestOK' /\ HandlerHasWorker'
  BY <1>1, Facts DEF RestOK, HandlerHasWorker, Phases, Serving, Queued
<1>4. Dispatchable(status, dispatched, queue, future)'
  BY <1>1, <1>2, Facts DEF Dispatchable, Statuses
<1>5. SoundNow'
  <2>1. \A d \in Clients : pc'[d] \in Queued <=> pc[d] \in Queued
    BY <1>1, Facts DEF RestOK, Queued
  <2>2. \A w \in Workers : dispatched[w] => dispatched'[w]
    BY <1>1, Facts
  <2>3. QED
    BY <1>1, <1>4, <2>1, <2>2, Facts DEF SoundNow, Sound, Has
<1>6. QED
  BY <1>3, <1>5 DEF IInv

(* The worker of a handler that ends is free again: nobody else holds it   *)
(* unless it moved, and then nothing is claimed of it.                     *)
LEMMA ReleaseIsSound ==
  ASSUME IInv, NEW c \in Clients, Release(c)
  PROVE  Sound([status EXCEPT ![worker[c]] = "idle"],
               [dispatched EXCEPT ![worker[c]] = FALSE],
               queue, future, worker', pc', moved')
<1> DEFINE st == [status EXCEPT ![worker[c]] = "idle"]
           ds == [dispatched EXCEPT ![worker[c]] = FALSE]
<1>1. /\ pc[c] = "closing" /\ pc' = [pc EXCEPT ![c] = "away"]
      /\ worker' = [worker EXCEPT ![c] = None]
      /\ moved' = moved
  BY DEF Release
<1>2. worker[c] \in Workers
  BY <1>1, Facts DEF Serving
<1>3. Dispatchable(st, ds, queue, future)
  BY <1>2, Facts DEF Dispatchable, Statuses
<1>4. \A d \in Clients : future[d] # None => pc'[d] \in Queued
  BY <1>1, Facts DEF RestOK, Queued
<1>5. \A v \in Workers : \A d \in Clients :
        Has(worker', future, pc', d, v) => Has(worker, future, pc, d, v) /\ d # c
  BY <1>1, Facts, NoneAssumption DEF RestOK, Has, Queued
<1>6. Has(worker, future, pc, c, worker[c])
  BY DEF Has
<1>7. \A v \in Workers \ moved : \A d \in Clients :
        Has(worker', future, pc', d, v) => ds[v]
  BY <1>2, <1>5, <1>6, Facts DEF SoundNow, Sound
<1>8. \A v \in Workers \ moved : \A d, e \in Clients :
        Has(worker', future, pc', d, v) /\ Has(worker', future, pc', e, v) => d = e
  BY <1>5, Facts DEF SoundNow, Sound
<1>9. QED
  BY <1>1, <1>3, <1>4, <1>7, <1>8 DEF Sound

LEMMA ReleaseKeeps ==
  ASSUME IInv, NEW c \in Clients, Release(c)
  PROVE  IInv'
<1> DEFINE st == [status EXCEPT ![worker[c]] = "idle"]
           ds == [dispatched EXCEPT ![worker[c]] = FALSE]
<1>1. /\ pc[c] = "closing" /\ pc' = [pc EXCEPT ![c] = "away"]
      /\ Dispatch(st, ds, queue, future)
      /\ worker' = [worker EXCEPT ![c] = None]
      /\ orphans' = orphans \ {c}
      /\ UNCHANGED <<known, round, reply, host, crashes, moved>>
  BY DEF Release, healthVars, hostVars
<1>2. RestOK' /\ HandlerHasWorker'
  BY <1>1, Facts, NoneAssumption DEF RestOK, HandlerHasWorker, Phases, Serving, Queued
<1>3. Sound(st, ds, queue, future, worker', pc', moved')
  BY ReleaseIsSound
<1>4. Sound(status', dispatched', queue', future', worker', pc', moved')
  BY <1>1, <1>3, DispatchIsSound, Zenon
<1>5. QED
  BY <1>2, <1>4 DEF IInv, SoundNow

(* Cancelling a ticket, whether the handler ends (f is None) or will       *)
(* notice later (f is Cancelled).                                          *)
LEMMA RemovalIsSound ==
  ASSUME IInv, NEW c \in Clients, NEW f \in {None, Cancelled},
         NEW p \in {"away"} \cup Queued,
         pc[c] \in Queued, p = "away" => f = None,
         pc' = [pc EXCEPT ![c] = p],
         UNCHANGED <<worker, moved>>,
         NEW i \in 1..Len(queue), queue[i] = c
  PROVE  Sound(status, dispatched, RemoveAt(queue, i), [future EXCEPT ![c] = f],
               worker', pc', moved')
<1> DEFINE g == [future EXCEPT ![c] = f]
<1>1. f \in Futures /\ f # Pending /\ f \notin Workers
  BY NoneAssumption DEF Futures
<1>2. /\ \A d \in Clients : g[d] # None => pc'[d] \in Queued
      /\ \A v \in Workers : \A d \in Clients :
           Has(worker', g, pc', d, v) => Has(worker, future, pc, d, v)
      /\ moved' = moved
  BY <1>1, Facts DEF RestOK, Has, Queued, SoundNow, Sound
<1>3. Dispatchable(status, dispatched, RemoveAt(queue, i), g)
  BY <1>1, Facts, RemovalIsDispatchable
<1> HIDE DEF g
<1>4. Sound(status, dispatched, RemoveAt(queue, i), g, worker', pc', moved')
  BY <1>2, <1>3, Facts DEF SoundNow, Sound
<1>5. QED
  BY <1>4 DEF g

LEMMA CancelKeeps ==
  ASSUME IInv, NEW c \in Clients, NEW f \in {None, Cancelled},
         NEW p \in {"away"} \cup Queued,
         pc[c] \in Queued, p = "away" => f = None,
         Cancel(c, f),
         pc' = [pc EXCEPT ![c] = p],
         UNCHANGED <<known, worker, round, reply, host, crashes, moved, orphans>>
  PROVE  IInv'
<1> DEFINE g == [future EXCEPT ![c] = f]
<1>1. RestOK' /\ HandlerHasWorker'
  BY Facts DEF RestOK, HandlerHasWorker, Phases, Serving, Queued
<1>2. f \in Futures /\ f # Pending /\ f \notin Workers
  BY NoneAssumption DEF Futures
<1>3. /\ \A d \in Clients : g[d] # None => pc'[d] \in Queued
      /\ \A v \in Workers : \A d \in Clients :
           Has(worker', g, pc', d, v) => Has(worker, future, pc, d, v)
      /\ moved' = moved
  BY <1>2, Facts DEF RestOK, Has, Queued, SoundNow, Sound
<1>4. CASE \E i \in 1..Len(queue) :
             queue[i] = c /\ Dispatch(status, dispatched, RemoveAt(queue, i), g)
  <2>1. PICK i \in 1..Len(queue) :
          queue[i] = c /\ Dispatch(status, dispatched, RemoveAt(queue, i), g)
    BY <1>4
  <2>2. Sound(status, dispatched, RemoveAt(queue, i), g, worker', pc', moved')
    BY <2>1, RemovalIsSound
  <2>3. Sound(status', dispatched', queue', future', worker', pc', moved')
    BY <2>1, <2>2, DispatchIsSound, Zenon
  <2>4. QED
    BY <1>1, <2>3 DEF IInv, SoundNow
<1>5. CASE ~InQueue(c) /\ future' = g /\ UNCHANGED <<status, dispatched, queue>>
  <2>1. Dispatchable(status, dispatched, queue, future)'
    BY <1>2, <1>5, Facts DEF Dispatchable, InQueue
  <2>2. SoundNow'
    BY <1>3, <1>5, <2>1, Facts DEF SoundNow, Sound
  <2>3. QED
    BY <1>1, <2>2 DEF IInv
<1>6. QED
  BY <1>4, <1>5 DEF Cancel

(* What a health reply does to a status: an idle report does not free a    *)
(* dispatched worker.                                                      *)
LEMMA RefreshedIsDispatchable ==
  ASSUME IInv, NEW w \in Workers, NEW a \in Answers
  PROVE  /\ Dispatchable([status EXCEPT ![w] = Refreshed(w, a)], dispatched,
                         queue, future)
         /\ Sound([status EXCEPT ![w] = Refreshed(w, a)], dispatched, queue,
                  future, worker, pc, moved)
<1>1. /\ Refreshed(w, a) \in Statuses
      /\ dispatched[w] => Refreshed(w, a) # "idle"
  <2>1. CASE a = "idle"
    BY <2>1, Facts DEF Refreshed, Dispatchable, Statuses
  <2>2. CASE a = "active"
    BY <2>2 DEF Refreshed, Statuses
  <2>3. CASE a = "down"
    BY <2>3 DEF Refreshed, Statuses
  <2>4. QED
    BY <2>1, <2>2, <2>3 DEF Answers
<1>2. Dispatchable([status EXCEPT ![w] = Refreshed(w, a)], dispatched, queue, future)
  BY <1>1, Facts DEF Dispatchable
<1>3. QED
  BY <1>2, Facts DEF SoundNow, Sound

LEMMA ReplyAppliedKeeps ==
  ASSUME IInv, NEW w \in Workers, ReplyApplied(w)
  PROVE  IInv'
<1>1. /\ reply[<<"round", w>>] \in Answers
      /\ status' = [status EXCEPT ![w] = Refreshed(w, reply[<<"round", w>>])]
      /\ reply' = [reply EXCEPT ![<<"round", w>>] = None]
      /\ UNCHANGED <<known, dispatched, queue, future, round, pc, worker, host,
                     crashes, moved, orphans>>
  BY DEF ReplyApplied, queueVars, handlerVars, hostVars, moveVars
<1>2. RestOK' /\ HandlerHasWorker'
  BY <1>1, Facts DEF RestOK, HandlerHasWorker
<1>3. SoundNow'
  BY <1>1, RefreshedIsDispatchable DEF SoundNow
<1>4. QED
  BY <1>2, <1>3 DEF IInv

LEMMA RegisteredKeeps ==
  ASSUME IInv, NEW w \in Workers, Registered(w)
  PROVE  IInv'
<1> DEFINE st == [status EXCEPT ![w] = Refreshed(w, reply[<<"register", w>>])]
<1>1. /\ reply[<<"register", w>>] \in Answers
      /\ Dispatch(st, dispatched, queue, future)
      /\ reply' = [reply EXCEPT ![<<"register", w>>] = None]
      /\ UNCHANGED <<known, round, pc, worker, host, crashes, moved, orphans>>
  BY DEF Registered, handlerVars, hostVars, moveVars
<1>2. RestOK' /\ HandlerHasWorker'
  BY <1>1, Facts DEF RestOK, HandlerHasWorker
<1>3. Sound(st, dispatched, queue, future, worker', pc', moved')
  BY <1>1, RefreshedIsDispatchable
<1>4. Sound(status', dispatched', queue', future', worker', pc', moved')
  BY <1>1, <1>3, DispatchIsSound, Zenon
<1>5. QED
  BY <1>2, <1>4 DEF IInv, SoundNow

LEMMA RoundEndsKeeps ==
  ASSUME IInv, RoundEnds
  PROVE  IInv'
<1>1. /\ round' = FALSE
      /\ Dispatch(status, dispatched, queue, future)
      /\ UNCHANGED <<known, reply, pc, worker, host, crashes, moved, orphans>>
  BY DEF RoundEnds, handlerVars, hostVars, moveVars
<1>2. RestOK' /\ HandlerHasWorker'
  BY <1>1, Facts DEF RestOK, HandlerHasWorker
<1>3. Sound(status, dispatched, queue, future, worker', pc', moved')
  BY <1>1, Facts DEF SoundNow
<1>4. Sound(status', dispatched', queue', future', worker', pc', moved')
  BY <1>1, <1>3, DispatchIsSound, Zenon
<1>5. QED
  BY <1>2, <1>4 DEF IInv, SoundNow

(* A worker that moves forgets its mark; nothing is claimed of it then.    *)
LEMMA RegisterElsewhereKeeps ==
  ASSUME IInv, NEW w \in Workers, RegisterElsewhere(w)
  PROVE  IInv'
<1>1. /\ w \in known
      /\ status' = [status EXCEPT ![w] = "offline"]
      /\ dispatched' = [dispatched EXCEPT ![w] = FALSE]
      /\ reply' = [reply EXCEPT ![<<"register", w>>] = "asked"]
      /\ \E h \in {"down", "idle"} : host' = [host EXCEPT ![w] = h]
      /\ moved' = moved \cup {w}
      /\ orphans' = orphans \cup
           {c \in Clients : worker[c] = w /\ pc[c] \in Serving \ {"greeting"}}
      /\ UNCHANGED <<known, queue, future, round, pc, worker, crashes>>
  BY DEF RegisterElsewhere, queueVars, handlerVars
<1>2. RestOK' /\ HandlerHasWorker'
  <2>1. reply' \in [Callers \X Workers -> Answers \cup {None, "asked"}]
    BY <1>1, Facts DEF RestOK
  <2>2. host' \in [Workers -> Answers]
    BY <1>1, Facts DEF RestOK, Answers
  <2>3. moved' \subseteq Workers /\ orphans' \subseteq Clients
    BY <1>1, Facts DEF RestOK
  <2>4. QED
    BY <1>1, <2>1, <2>2, <2>3, Facts DEF RestOK, HandlerHasWorker
<1>3. Dispatchable(status, dispatched, queue, future)'
  BY <1>1, Facts DEF Dispatchable, Statuses
<1>4. SoundNow'
  BY <1>1, <1>3, Facts DEF SoundNow, Sound, Has
<1>5. QED
  BY <1>2, <1>4 DEF IInv

(* Everything that leaves pool, queue and handlers alone. *)
LEMMA OutsideKeeps ==
  ASSUME IInv, RestOK',
         UNCHANGED <<status, dispatched, queue, future, pc, worker, moved>>
  PROVE  IInv'
BY Facts DEF IInv, SoundNow, HandlerHasWorker

----------------------------------------------------------------------------
LEMMA HandlerKeeps ==
  ASSUME IInv, NEW c \in Clients, Handler(c)
  PROVE  IInv'
<1>1. CASE ArriveAssigned(c)
  BY <1>1, ArriveAssignedKeeps
<1>2. CASE ArriveQueued(c)
  BY <1>2, ArriveQueuedKeeps
<1>3. CASE Sent(c)
  <2>1. pc[c] \in Queued
    BY <1>3 DEF Sent, Queued
  <2>2. CASE pc' = [pc EXCEPT ![c] = "waiting"] /\ pc[c] = "sending" /\
             UNCHANGED <<poolVars, queueVars, worker, healthVars, hostVars, moveVars>>
    BY <2>2, PhaseChangeKeeps, Facts
    DEF Phases, Queued, Serving, RestOK, poolVars, queueVars, healthVars,
        hostVars, moveVars
  <2>3. QED
    BY <1>3, <2>1, <2>2, TakeWorkerKeeps, GiveUpKeeps DEF Sent
<1>4. CASE SendFails(c)
  BY <1>4, CancelKeeps
  DEF SendFails, Queued, healthVars, hostVars, moveVars
<1>5. CASE WaitTimeout(c)
  BY <1>5, PhaseChangeKeeps, Facts
  DEF WaitTimeout, Phases, Queued, Serving, RestOK, poolVars, queueVars,
      healthVars, hostVars, moveVars
<1>6. CASE Wake(c)
  BY <1>6, TakeWorkerKeeps, GiveUpKeeps DEF Wake, Queued
<1>7. CASE Greeted(c)
  BY <1>7, GreetedKeeps
<1>8. CASE Connected(c)
  <2>1. /\ pc[c] = "connecting" /\ pc' = [pc EXCEPT ![c] = "running"]
        /\ UNCHANGED <<poolVars, queueVars, worker, healthVars, crashes, moveVars>>
    BY <1>8 DEF Connected
  <2>2. host' \in [Workers -> Answers]
    BY <1>8, Facts DEF Connected, RestOK, Answers
  <2>3. QED
    BY <2>1, <2>2, PhaseChangeKeeps
    DEF Phases, Queued, Serving, poolVars, queueVars, healthVars, moveVars
<1>9. CASE SessionEnds(c)
  BY <1>9, PhaseChangeKeeps, Facts
  DEF SessionEnds, Phases, Queued, Serving, RestOK, poolVars, queueVars,
      healthVars, hostVars, moveVars
<1>10. CASE Release(c)
  BY <1>10, ReleaseKeeps
<1>11. QED
  BY <1>1, <1>2, <1>3, <1>4, <1>5, <1>6, <1>7, <1>8, <1>9, <1>10 DEF Handler

LEMMA AdminCancelKeeps ==
  ASSUME IInv, NEW c \in Clients, AdminCancel(c)
  PROVE  IInv'
<1>1. future[c] = Pending
  BY Facts DEF AdminCancel, InQueue, Dispatchable
<1>2. pc[c] \in Queued
  BY <1>1, Facts, NoneAssumption
<1>3. pc' = [pc EXCEPT ![c] = pc[c]] /\ pc[c] # "away"
  BY <1>2, Facts DEF AdminCancel, handlerVars, RestOK, Queued
<1>4. QED
  BY <1>2, <1>3, CancelKeeps
  DEF AdminCancel, handlerVars, healthVars, hostVars, moveVars

LEMMA HealthKeeps ==
  ASSUME IInv, NEW w \in Workers, Health(w)
  PROVE  IInv'
<1>1. CASE ReplyApplied(w)
  BY <1>1, ReplyAppliedKeeps
<1>2. CASE Register(w)
  <2>1. RestOK'
    BY <1>2, Facts
    DEF Register, RestOK, handlerVars, hostVars, moveVars
  <2>2. QED
    BY <1>2, <2>1, OutsideKeeps DEF Register, queueVars, handlerVars, moveVars
<1>3. CASE RegisterElsewhere(w)
  BY <1>3, RegisterElsewhereKeeps
<1>4. CASE Registered(w)
  BY <1>4, RegisteredKeeps
<1>5. CASE HostCrashes(w)
  <2>1. RestOK'
    BY <1>5, Facts, BoundsAssumption
    DEF HostCrashes, RestOK, Answers, poolVars, handlerVars, healthVars, moveVars
  <2>2. QED
    BY <1>5, <2>1, OutsideKeeps
    DEF HostCrashes, poolVars, queueVars, handlerVars, moveVars
<1>6. CASE HostUp(w)
  <2>1. RestOK'
    BY <1>6, Facts
    DEF HostUp, RestOK, Answers, poolVars, handlerVars, healthVars, moveVars
  <2>2. QED
    BY <1>6, <2>1, OutsideKeeps
    DEF HostUp, poolVars, queueVars, handlerVars, moveVars
<1>7. CASE HostFinishes(w)
  <2>1. RestOK'
    BY <1>7, Facts
    DEF HostFinishes, RestOK, Answers, poolVars, handlerVars, healthVars, moveVars
  <2>2. QED
    BY <1>7, <2>1, OutsideKeeps
    DEF HostFinishes, poolVars, queueVars, handlerVars, moveVars
<1>8. QED
  BY <1>1, <1>2, <1>3, <1>4, <1>5, <1>6, <1>7 DEF Health

LEMMA NextKeeps == IInv /\ [Next]_vars => IInv'
<1> SUFFICES ASSUME IInv, [Next]_vars
             PROVE  IInv'
  OBVIOUS
<1>1. ASSUME NEW c \in Clients, Handler(c) \/ AdminCancel(c)
      PROVE  IInv'
  BY <1>1, HandlerKeeps, AdminCancelKeeps
<1>2. CASE RoundStarts
  <2>1. RestOK'
    BY <1>2, Facts
    DEF RoundStarts, RestOK, poolVars, handlerVars, hostVars, moveVars
  <2>2. QED
    BY <1>2, <2>1, OutsideKeeps
    DEF RoundStarts, poolVars, queueVars, handlerVars, moveVars
<1>3. ASSUME NEW p \in Callers \X Workers, HostAnswers(p)
      PROVE  IInv'
  <2>1. host[p[2]] \in Answers
    BY Facts DEF RestOK
  <2>2. RestOK'
    BY <1>3, <2>1, Facts
    DEF HostAnswers, RestOK, poolVars, handlerVars, hostVars, moveVars
  <2>3. QED
    BY <1>3, <2>2, OutsideKeeps
    DEF HostAnswers, poolVars, queueVars, handlerVars, moveVars
<1>4. CASE RoundEnds
  BY <1>4, RoundEndsKeeps
<1>5. ASSUME NEW w \in Workers, Health(w)
      PROVE  IInv'
  BY <1>5, HealthKeeps
<1>6. CASE UNCHANGED vars
  <2>1. RestOK'
    BY <1>6, Facts DEF vars, RestOK
  <2>2. QED
    BY <1>6, <2>1, OutsideKeeps DEF vars
<1>7. QED
  BY <1>1, <1>2, <1>3, <1>4, <1>5, <1>6 DEF Next

(* The invariant holds in every reachable state of every pool. *)
THEOREM PoolInvariant == Spec => []IInv
  BY InitIInv, NextKeeps, PTL DEF Spec

(* The variables keep their types: in particular the handler that goes on  *)
(* with its future's result always has a worker.                           *)
THEOREM Types == Spec => []TypeOK
  BY PoolInvariant, IInvImplies, PTL

(* Two handlers never have the same worker, through whatever interleaving  *)
(* of arrivals, cancellations, failed sends, health rounds and             *)
(* registrations under the same endpoint.                                  *)
THEOREM Exclusive == Spec => []ExclusiveUnlessMoved
  BY PoolInvariant, IInvImplies, PTL

(* A dispatched worker is not offered as idle before its release.          *)
THEOREM DispatchAuthority == Spec => []DispatchHasAuthority
  BY PoolInvariant, IInvImplies, PTL

(* The queue holds exactly the tickets whose futures are open.             *)
THEOREM QueueAndFuturesAgree == Spec => []WaitersAreQueued
  BY PoolInvariant, IInvImplies, PTL
----------------------------------------------------------------------------
(* No worker idles while somebody waits. A dispatch leaves either no       *)
(* waiting ticket or no idle worker; a health reply is the only event that *)
(* frees a worker without a dispatch, and it belongs to a round, whose end *)
(* dispatches.                                                             *)
Settled == Idle(status) = {} \/ queue = <<>>

Conserved ==
  /\ round \/ Settled
  /\ \A w \in Workers : reply[<<"round", w>>] # None => round

LEMMA DispatchSettles ==
  ASSUME NEW st, NEW ds, NEW q \in Seq(Clients), NEW fut,
         Dispatch(st, ds, q, fut)
  PROVE  Settled'
<1>1. PICK n \in 0..Len(q) : \E a \in [1..n -> Workers] :
        /\ n = Len(q) \/ Idle(Occupy(st, {a[j] : j \in 1..n})) = {}
        /\ status' = Occupy(st, {a[j] : j \in 1..n})
        /\ queue' = SubSeq(q, n + 1, Len(q))
  BY DEF Dispatch
<1>2. CASE n = Len(q)
  <2>1. SubSeq(q, Len(q) + 1, Len(q)) = <<>>
    OBVIOUS
  <2>2. QED
    BY <1>1, <1>2, <2>1 DEF Settled
<1>3. CASE n # Len(q)
  BY <1>1, <1>3 DEF Settled, Idle
<1>4. QED
  BY <1>2, <1>3

(* A step that makes no worker idle and queues nobody. *)
LEMMA BusierConserves ==
  ASSUME Conserved, UNCHANGED <<queue, round, reply>>,
         \A w \in Workers : status'[w] = "idle" => status[w] = "idle"
  PROVE  Conserved'
BY DEF Conserved, Settled, Idle

(* A step that dispatches the pool st, ds and the queue q. *)
LEMMA DispatchConserves ==
  ASSUME Conserved, NEW st, NEW ds, NEW q \in Seq(Clients), NEW fut,
         Dispatch(st, ds, q, fut),
         UNCHANGED round,
         \A w \in Workers : reply'[<<"round", w>>] = reply[<<"round", w>>]
  PROVE  Conserved'
<1>1. Settled'
  BY DispatchSettles
<1>2. QED
  BY <1>1 DEF Conserved

LEMMA CancelConserves ==
  ASSUME IInv, Conserved, NEW c \in Clients, NEW f, Cancel(c, f),
         UNCHANGED <<round, reply>>
  PROVE  Conserved'
<1>1. queue \in Seq(Clients)
  BY Facts DEF Dispatchable
<1>2. CASE UNCHANGED <<status, queue>>
  BY <1>2, BusierConserves
<1>3. ASSUME NEW i \in 1..Len(queue),
             Dispatch(status, dispatched, RemoveAt(queue, i),
                      [future EXCEPT ![c] = f])
      PROVE  Conserved'
  <2>1. RemoveAt(queue, i) \in Seq(Clients)
    BY <1>1, RemoveAtEntries
  <2>2. QED
    BY <1>3, <2>1, DispatchConserves
<1>4. QED
  BY <1>2, <1>3 DEF Cancel

LEMMA HandlerConserves ==
  ASSUME IInv, Conserved, NEW c \in Clients, Handler(c)
  PROVE  Conserved'
<1>1. CASE ArriveAssigned(c)
  BY <1>1, BusierConserves, Facts DEF ArriveAssigned, queueVars, healthVars
<1>2. CASE ArriveQueued(c)
  BY <1>2 DEF ArriveQueued, Conserved, Settled, poolVars, healthVars
<1>3. CASE Sent(c)
  BY <1>3, BusierConserves
  DEF Sent, TakeWorker, GiveUp, poolVars, queueVars, healthVars
<1>4. CASE SendFails(c)
  BY <1>4, CancelConserves DEF SendFails, healthVars
<1>5. CASE WaitTimeout(c)
  BY <1>5, BusierConserves DEF WaitTimeout, poolVars, queueVars, healthVars
<1>6. CASE Wake(c)
  BY <1>6, BusierConserves DEF Wake, TakeWorker, GiveUp, poolVars, healthVars
<1>7. CASE Greeted(c)
  BY <1>7, BusierConserves, Facts DEF Greeted, queueVars, healthVars
<1>8. CASE Connected(c)
  BY <1>8, BusierConserves DEF Connected, poolVars, queueVars, healthVars
<1>9. CASE SessionEnds(c)
  BY <1>9, BusierConserves DEF SessionEnds, poolVars, queueVars, healthVars
<1>10. CASE Release(c)
  BY <1>10, DispatchConserves, Facts DEF Release, healthVars, Dispatchable
<1>11. QED
  BY <1>1, <1>2, <1>3, <1>4, <1>5, <1>6, <1>7, <1>8, <1>9, <1>10 DEF Handler

LEMMA HealthConserves ==
  ASSUME IInv, Conserved, NEW w \in Workers, Health(w)
  PROVE  Conserved'
<1>1. reply \in [Callers \X Workers -> Answers \cup {None, "asked"}]
  BY Facts DEF RestOK
<1>2. /\ \A v \in Workers : <<"round", v>> \in Callers \X Workers
      /\ \A v \in Workers : <<"round", v>> # <<"register", w>>
  BY DEF Callers
<1>3. CASE ReplyApplied(w)
  <2>1. round
    BY <1>3, NoneAssumption DEF ReplyApplied, Conserved, Answers
  <2>2. QED
    BY <1>3, <2>1 DEF ReplyApplied, Conserved
<1>4. CASE Register(w)
  <2>1. \A v \in Workers : reply'[<<"round", v>>] = reply[<<"round", v>>]
    BY <1>1, <1>2, <1>4 DEF Register
  <2>2. QED
    BY <1>4, <2>1 DEF Register, queueVars, Conserved, Settled
<1>5. CASE RegisterElsewhere(w)
  <2>1. \A v \in Workers : reply'[<<"round", v>>] = reply[<<"round", v>>]
    BY <1>1, <1>2, <1>5 DEF RegisterElsewhere
  <2>2. \A v \in Workers : status'[v] = "idle" => status[v] = "idle"
    BY <1>5, Facts DEF RegisterElsewhere
  <2>3. QED
    BY <1>5, <2>1, <2>2 DEF RegisterElsewhere, queueVars, Conserved, Settled, Idle
<1>6. CASE Registered(w)
  <2>1. \A v \in Workers : reply'[<<"round", v>>] = reply[<<"round", v>>]
    BY <1>1, <1>2, <1>6 DEF Registered
  <2>2. QED
    BY <1>6, <2>1, DispatchConserves, Facts DEF Registered, Dispatchable
<1>7. CASE HostCrashes(w) \/ HostUp(w) \/ HostFinishes(w)
  BY <1>7, BusierConserves
  DEF HostCrashes, HostUp, HostFinishes, poolVars, queueVars, healthVars
<1>8. QED
  BY <1>3, <1>4, <1>5, <1>6, <1>7 DEF Health

LEMMA NextConserves == IInv /\ Conserved /\ [Next]_vars => Conserved'
<1> SUFFICES ASSUME IInv, Conserved, [Next]_vars
             PROVE  Conserved'
  OBVIOUS
<1>1. ASSUME NEW c \in Clients, Handler(c)
      PROVE  Conserved'
  BY <1>1, HandlerConserves
<1>2. ASSUME NEW c \in Clients, AdminCancel(c)
      PROVE  Conserved'
  BY <1>2, CancelConserves DEF AdminCancel, healthVars
<1>3. CASE RoundStarts
  BY <1>3 DEF RoundStarts, Conserved
<1>4. ASSUME NEW p \in Callers \X Workers, HostAnswers(p)
      PROVE  Conserved'
  <2>1. \A q \in Callers \X Workers : reply'[q] # None => reply[q] # None
    BY <1>4, Facts, NoneAssumption DEF HostAnswers, RestOK
  <2>2. \A w \in Workers : <<"round", w>> \in Callers \X Workers
    BY DEF Callers
  <2>3. QED
    BY <1>4, <2>1, <2>2
    DEF HostAnswers, Conserved, Settled, poolVars, queueVars
<1>5. CASE RoundEnds
  <2>1. Settled'
    BY <1>5, DispatchSettles, Facts DEF RoundEnds, Dispatchable
  <2>2. QED
    BY <1>5, <2>1 DEF RoundEnds, Conserved
<1>6. ASSUME NEW w \in Workers, Health(w)
      PROVE  Conserved'
  BY <1>6, HealthConserves
<1>7. CASE UNCHANGED vars
  BY <1>7, BusierConserves DEF vars
<1>8. QED
  BY <1>1, <1>2, <1>3, <1>4, <1>5, <1>6, <1>7 DEF Next

LEMMA InitConserved == Init => Conserved
  BY DEF Init, Conserved, Settled, Callers

(* Whoever waits waits for a busy worker or for the end of a round of      *)
(* health checks, never beside an idle worker that nobody will look at.    *)
THEOREM NoIdleWaste == Spec => []WorkConserving
<1>1. Conserved => WorkConserving
  BY DEF Conserved, Settled, WorkConserving
<1>2. QED
  BY InitIInv, NextKeeps, InitConserved, NextConserves, <1>1, PTL DEF Spec
----------------------------------------------------------------------------
(* Who loses a worker. A mark without a handler appears in one step only:  *)
(* the handler whose future was resolved while it was sending goes away.   *)
FailedSend(w) ==
  \E c \in Clients : pc[c] = "sending" /\ pc'[c] = "away" /\ future[c] = w

LeaksOnlyThere ==
  \A w \in Workers : Leaked(w)' /\ ~Leaked(w) => FailedSend(w)

(* A dispatch marks a worker for a ticket, and touches no settled future.  *)
LEMMA GivenAreHeld ==
  ASSUME NEW st, NEW ds, NEW q, NEW fut,
         Dispatchable(st, ds, q, fut),
         Dispatch(st, ds, q, fut)
  PROVE  /\ \A w \in Workers : dispatched'[w] =>
              ds[w] \/ \E c \in Clients : future'[c] = w
         /\ \A c \in Clients : fut[c] # Pending => future'[c] = fut[c]
<1>1. PICK n \in 0..Len(q) : \E a \in [1..n -> Workers] : Gives(st, ds, q, fut, n, a)
  BY DispatchGives
<1>2. PICK a \in [1..n -> Workers] : Gives(st, ds, q, fut, n, a)
  BY <1>1
<1>3. ASSUME NEW w \in Workers, dispatched'[w], ~ds[w]
      PROVE  \E c \in Clients : future'[c] = w
  <2>1. dispatched' = [v \in Workers |-> v \in {a[j] : j \in 1..n} \/ ds[v]]
    BY <1>2 DEF Gives
  <2>2. w \in {a[j] : j \in 1..n}
    BY <1>3, <2>1, Zenon
  <2>3. PICK i \in 1..n : a[i] = w
    BY <2>2
  <2>4. q[i] \in Clients /\ future'[q[i]] = w
    BY <1>2, <2>3 DEF Gives
  <2>5. QED
    BY <2>4
<1>4. ASSUME NEW c \in Clients, fut[c] # Pending
      PROVE  future'[c] = fut[c]
  <2>1. \A i \in 1..n : q[i] # c
    BY <1>2, <1>4 DEF Gives
  <2>2. QED
    BY <1>2, <2>1 DEF Gives
<1>5. QED
  BY <1>3, <1>4, Zenon

(* A dispatch loses nothing that was not lost when it started. *)
LEMMA DispatchLeaksNot ==
  ASSUME IInv', NEW st, NEW ds, NEW q, NEW fut,
         Dispatchable(st, ds, q, fut),
         Dispatch(st, ds, q, fut),
         \A w \in Workers :
           /\ ds[w]
           /\ \A c \in Clients : ~Has(worker', fut, pc', c, w)
           => Leaked(w) \/ FailedSend(w)
  PROVE  LeaksOnlyThere
<1> SUFFICES ASSUME NEW w \in Workers, Leaked(w)'
             PROVE  Leaked(w) \/ FailedSend(w)
  BY DEF LeaksOnlyThere
<1>1. dispatched'[w] /\ \A c \in Clients : ~Has(worker', future', pc', c, w)
  BY DEF Leaked, Holds, Has
<1>2. \A c \in Clients : future'[c] # w
  <2>1. SoundNow'
    BY DEF IInv
  <2>2. \A c \in Clients : future'[c] # None => pc'[c] \in Queued
    BY <2>1 DEF SoundNow, Sound
  <2>3. QED
    BY <1>1, <2>2, NoneAssumption DEF Has
<1>3. ds[w] /\ \A c \in Clients : ~Has(worker', fut, pc', c, w)
  BY <1>1, <1>2, GivenAreHeld, NoneAssumption DEF Has
<1>4. QED
  BY <1>3

(* Nor does a step that marks nobody, and keeps the holders of the marked. *)
LEMMA KeptIsNotLeaked ==
  ASSUME \A w \in Workers : dispatched'[w] =>
           \/ \E c \in Clients : Holds(c, w)'
           \/ /\ dispatched[w]
              /\ \A c \in Clients : Holds(c, w) => \E d \in Clients : Holds(d, w)'
  PROVE  LeaksOnlyThere
BY DEF LeaksOnlyThere, Leaked

LEMMA CancelLeaksNot ==
  ASSUME IInv, IInv', NEW c \in Clients, NEW f \in {None, Cancelled},
         Cancel(c, f), pc[c] \in Queued,
         \/ f = None /\ pc[c] = "sending" /\ pc' = [pc EXCEPT ![c] = "away"]
         \/ InQueue(c) /\ UNCHANGED pc,
         UNCHANGED worker
  PROVE  LeaksOnlyThere
<1> DEFINE g == [future EXCEPT ![c] = f]
<1>1. \A d \in Clients : /\ d # c => g[d] = future[d]
                         /\ d # c => pc'[d] = pc[d]
  BY Facts DEF RestOK
<1>2. \A w \in Workers :
        /\ dispatched[w]
        /\ \A d \in Clients : ~Has(worker', g, pc', d, w)
        => Leaked(w) \/ FailedSend(w)
  <2> SUFFICES ASSUME NEW w \in Workers, dispatched[w], ~Leaked(w),
                      \A d \in Clients : ~Has(worker', g, pc', d, w)
               PROVE  FailedSend(w)
    OBVIOUS
  <2>1. future[c] = w
    <3>1. PICK d \in Clients : Holds(d, w)
      BY DEF Leaked
    <3>2. d = c
      BY <1>1, <3>1 DEF Holds, Has
    <3>3. QED
      BY <3>1, <3>2 DEF Holds, Has
  <2>2. future[c] # Pending
    BY <2>1, NoneAssumption
  <2>3. pc[c] = "sending" /\ pc'[c] = "away"
    BY <2>2, Facts DEF InQueue, Dispatchable, RestOK
  <2>4. QED
    BY <2>1, <2>3 DEF FailedSend
<1>3. ASSUME NEW i \in 1..Len(queue), queue[i] = c,
             Dispatch(status, dispatched, RemoveAt(queue, i), g)
      PROVE  LeaksOnlyThere
  <2>1. Dispatchable(status, dispatched, RemoveAt(queue, i), g)
    BY <1>3, Facts, RemovalIsDispatchable, NoneAssumption DEF Futures
  <2> HIDE DEF g
  <2>2. QED
    BY <1>2, <1>3, <2>1, DispatchLeaksNot
<1>4. CASE future' = g /\ UNCHANGED dispatched
  BY <1>2, <1>4 DEF LeaksOnlyThere, Leaked, Holds, Has
<1>5. QED
  BY <1>3, <1>4 DEF Cancel

LEMMA HandlerLeaksNot ==
  ASSUME IInv, IInv', NEW c \in Clients, Handler(c)
  PROVE  LeaksOnlyThere
<1>1. CASE ArriveAssigned(c)
  <2>1. PICK w \in Workers :
          /\ dispatched' = [dispatched EXCEPT ![w] = TRUE]
          /\ worker' = [worker EXCEPT ![c] = w]
    BY <1>1 DEF ArriveAssigned
  <2>2. /\ pc[c] = "away" /\ pc' = [pc EXCEPT ![c] = "greeting"]
        /\ future' = future /\ worker[c] = None
    BY <1>1, Facts DEF ArriveAssigned, queueVars, Serving
  <2>3. Holds(c, w)'
    BY <2>1, Facts DEF Holds, RestOK
  <2>4. \A v \in Workers : \A d \in Clients : Holds(d, v) => Holds(d, v)'
    BY <2>1, <2>2, Facts, NoneAssumption DEF Holds, RestOK, Queued
  <2>5. \A v \in Workers : dispatched'[v] => v = w \/ dispatched[v]
    BY <2>1, Facts
  <2>6. QED
    BY <2>3, <2>4, <2>5, KeptIsNotLeaked
<1>2. CASE ArriveQueued(c)
  <2>1. /\ pc[c] = "away" /\ pc' = [pc EXCEPT ![c] = "sending"]
        /\ future' = [future EXCEPT ![c] = Pending]
        /\ UNCHANGED <<dispatched, worker>>
    BY <1>2 DEF ArriveQueued, poolVars
  <2>2. \A v \in Workers : \A d \in Clients : Holds(d, v) => Holds(d, v)'
    BY <2>1, Facts DEF Holds, RestOK, Queued
  <2>3. QED
    BY <2>1, <2>2, KeptIsNotLeaked
<1>3. ASSUME pc[c] \in Queued, TakeWorker(c)
      PROVE  LeaksOnlyThere
  <2>1. /\ pc' = [pc EXCEPT ![c] = "greeting"]
        /\ worker' = [worker EXCEPT ![c] = future[c]]
        /\ future' = [future EXCEPT ![c] = None]
        /\ worker[c] = None /\ dispatched' = dispatched
    BY <1>3, Facts DEF TakeWorker, poolVars, Queued, Serving
  <2>2. \A v \in Workers : \A d \in Clients : Holds(d, v) => Holds(d, v)'
    BY <2>1, Facts, NoneAssumption DEF Holds, RestOK, Queued
  <2>3. QED
    BY <2>1, <2>2, KeptIsNotLeaked
<1>4. ASSUME pc[c] \in Queued, GiveUp(c)
      PROVE  LeaksOnlyThere
  <2>1. /\ pc' = [pc EXCEPT ![c] = "away"]
        /\ future' = [future EXCEPT ![c] = None] /\ future[c] = Cancelled
        /\ UNCHANGED <<worker, dispatched>>
    BY <1>4 DEF GiveUp, poolVars
  <2>2. \A v \in Workers : \A d \in Clients : Holds(d, v) => Holds(d, v)'
    BY <2>1, Facts, NoneAssumption DEF Holds, RestOK, Queued
  <2>3. QED
    BY <2>1, <2>2, KeptIsNotLeaked
<1>5. ASSUME NEW p \in Phases, pc' = [pc EXCEPT ![c] = p],
             p \in Queued <=> pc[c] \in Queued,
             UNCHANGED <<future, worker, dispatched>>
      PROVE  LeaksOnlyThere
  <2>1. \A v \in Workers : \A d \in Clients : Holds(d, v) => Holds(d, v)'
    BY <1>5, Facts DEF Holds, RestOK
  <2>2. QED
    BY <1>5, <2>1, KeptIsNotLeaked
<1>6. CASE Sent(c)
  BY <1>3, <1>4, <1>5, <1>6
  DEF Sent, Phases, Queued, poolVars, queueVars
<1>7. CASE SendFails(c)
  BY <1>7, CancelLeaksNot DEF SendFails, Queued
<1>8. CASE WaitTimeout(c)
  BY <1>5, <1>8 DEF WaitTimeout, Phases, Queued, poolVars, queueVars
<1>9. CASE Wake(c)
  BY <1>3, <1>4, <1>9 DEF Wake, Queued
<1>10. CASE Greeted(c)
  <2>1. /\ pc[c] = "greeting" /\ pc' = [pc EXCEPT ![c] = "connecting"]
        /\ dispatched' = [dispatched EXCEPT ![worker[c]] = TRUE]
        /\ UNCHANGED <<future, worker>>
    BY <1>10 DEF Greeted, queueVars
  <2>2. worker[c] \in Workers
    BY <2>1, Facts DEF Serving
  <2>3. Holds(c, worker[c])'
    BY <2>1 DEF Holds
  <2>4. \A v \in Workers : \A d \in Clients : Holds(d, v) => Holds(d, v)'
    BY <2>1, Facts DEF Holds, RestOK, Queued
  <2>5. \A v \in Workers : dispatched'[v] => v = worker[c] \/ dispatched[v]
    BY <2>1, Facts
  <2>6. \A v \in Workers : dispatched'[v] =>
          (\E d \in Clients : Holds(d, v)') \/ dispatched[v]
    BY <2>1, <2>5 DEF Holds
  <2>7. QED
    BY <2>4, <2>6, KeptIsNotLeaked
<1>11. CASE Connected(c)
  BY <1>5, <1>11 DEF Connected, Phases, Queued, Serving, poolVars, queueVars
<1>12. CASE SessionEnds(c)
  BY <1>5, <1>12 DEF SessionEnds, Phases, Queued, Serving, poolVars, queueVars
<1>13. CASE Release(c)
  <2> DEFINE st == [status EXCEPT ![worker[c]] = "idle"]
             ds == [dispatched EXCEPT ![worker[c]] = FALSE]
  <2>1. /\ pc[c] = "closing" /\ pc' = [pc EXCEPT ![c] = "away"]
        /\ worker' = [worker EXCEPT ![c] = None]
        /\ Dispatch(st, ds, queue, future)
    BY <1>13 DEF Release
  <2>2. worker[c] \in Workers /\ future[c] = None
    BY <2>1, Facts DEF Serving, Queued
  <2>3. Dispatchable(st, ds, queue, future)
    BY <2>2, Facts DEF Dispatchable, Statuses
  <2>4. \A w \in Workers : ds[w] => w # worker[c] /\ dispatched[w]
    BY <2>2, Facts
  <2>5. \A w \in Workers : \A d \in Clients :
          w # worker[c] /\ Holds(d, w) => Has(worker', future, pc', d, w)
    BY <2>1, <2>2, Facts, NoneAssumption DEF Holds, Has, RestOK
  <2>6. \A w \in Workers :
          /\ ds[w]
          /\ \A d \in Clients : ~Has(worker', future, pc', d, w)
          => Leaked(w) \/ FailedSend(w)
    BY <2>4, <2>5 DEF Leaked
  <2> HIDE DEF st, ds
  <2>7. QED
    BY <2>1, <2>3, <2>6, DispatchLeaksNot
<1>14. QED
  BY <1>1, <1>2, <1>6, <1>7, <1>8, <1>9, <1>10, <1>11, <1>12, <1>13 DEF Handler

(* What the health checks and the registrations dispatch is not theirs. *)
LEMMA OutsideLeaksNot ==
  ASSUME IInv, IInv', NEW st, UNCHANGED <<worker, pc>>,
         Dispatchable(st, dispatched, queue, future),
         Dispatch(st, dispatched, queue, future)
  PROVE  LeaksOnlyThere
<1>1. \A w \in Workers :
        /\ dispatched[w]
        /\ \A c \in Clients : ~Has(worker', future, pc', c, w)
        => Leaked(w)
  BY DEF Leaked, Holds, Has
<1>2. QED
  BY <1>1, DispatchLeaksNot

LEMMA NextLeaksNot == IInv /\ IInv' /\ [Next]_vars => LeaksOnlyThere
<1> SUFFICES ASSUME IInv, IInv', [Next]_vars
             PROVE  LeaksOnlyThere
  OBVIOUS
<1>1. ASSUME NEW c \in Clients, AdminCancel(c)
      PROVE  LeaksOnlyThere
  <2>1. pc[c] \in Queued
    BY <1>1, Facts, NoneAssumption DEF AdminCancel, InQueue, Dispatchable
  <2>2. QED
    BY <1>1, <2>1, CancelLeaksNot DEF AdminCancel, handlerVars
<1>2. ASSUME UNCHANGED <<future, worker, pc>>,
             \A w \in Workers : dispatched'[w] => dispatched[w]
      PROVE  LeaksOnlyThere
  BY <1>2, KeptIsNotLeaked DEF Holds
<1>3. ASSUME NEW w \in Workers, Health(w)
      PROVE  LeaksOnlyThere
  <2>1. CASE Registered(w)
    BY <2>1, OutsideLeaksNot, RefreshedIsDispatchable DEF Registered, handlerVars
  <2>2. CASE RegisterElsewhere(w)
    <3>1. \A v \in Workers : dispatched'[v] => dispatched[v]
      BY <2>2, Facts DEF RegisterElsewhere
    <3>2. QED
      BY <1>2, <2>2, <3>1 DEF RegisterElsewhere, queueVars, handlerVars
  <2>3. QED
    BY <1>2, <1>3, <2>1, <2>2
    DEF Health, ReplyApplied, Register, HostCrashes, HostUp, HostFinishes,
        poolVars, queueVars, handlerVars
<1>4. CASE RoundEnds
  BY <1>4, OutsideLeaksNot, Facts DEF RoundEnds, handlerVars
<1>5. QED
  BY <1>1, <1>2, <1>3, <1>4, HandlerLeaksNot
  DEF Next, RoundStarts, HostAnswers, vars, poolVars, queueVars, handlerVars

(* A worker is lost in no other way, in any pool, whatever moves.          *)
THEOREM LossesExplained == Spec => OnlyFailedSendLeaks
<1>1. IInv /\ IInv' /\ [Next]_vars =>
        [\A w \in Workers : Leaked(w)' /\ ~Leaked(w) =>
           \E c \in Clients : /\ pc[c] = "sending" /\ pc'[c] = "away"
                              /\ future[c] = w]_vars
  BY NextLeaksNot DEF LeaksOnlyThere, FailedSend
<1>2. QED
  BY PoolInvariant, <1>1, PTL DEF Spec, OnlyFailedSendLeaks
----------------------------------------------------------------------------
(* The pool implements WorkerLeases as long as no endpoint moves: every    *)
(* worker has one lease, held by its handler, lost or free, and every      *)
(* step that dispatches grants leases to the front of the line.            *)
LeaseFor(ds, fut, wk, ph, w) ==
  IF \E c \in Clients : Has(wk, fut, ph, c, w)
  THEN CHOOSE c \in Clients : Has(wk, fut, ph, c, w)
  ELSE IF ds[w] THEN Cancelled ELSE None

LeaseMap == [w \in Workers |-> LeaseOf(w)]

Unmoved == IInv /\ moved = {}

LEMMA LeaseOfIs ==
  /\ \A w : LeaseOf(w) = LeaseFor(dispatched, future, worker, pc, w)
  /\ LeaseMap = [w \in Workers |-> LeaseFor(dispatched, future, worker, pc, w)]
  /\ LeaseMap' = [w \in Workers |-> LeaseFor(dispatched', future', worker', pc', w)]
BY DEF LeaseMap, LeaseOf, LeaseFor, Holds, Has

(* What the lease of a worker says. *)
LEMMA LeaseIs ==
  ASSUME NEW st, NEW ds, NEW q, NEW fut, NEW wk, NEW ph,
         Sound(st, ds, q, fut, wk, ph, {}), NEW w \in Workers
  PROVE  /\ \A c \in Clients : Has(wk, fut, ph, c, w) <=> LeaseFor(ds, fut, wk, ph, w) = c
         /\ (\A c \in Clients : ~Has(wk, fut, ph, c, w)) =>
              LeaseFor(ds, fut, wk, ph, w) = IF ds[w] THEN Cancelled ELSE None
         /\ st[w] = "idle" => LeaseFor(ds, fut, wk, ph, w) = None
<1>1. /\ \A c, d \in Clients : Has(wk, fut, ph, c, w) /\ Has(wk, fut, ph, d, w) => c = d
      /\ \A c \in Clients : Has(wk, fut, ph, c, w) => ds[w]
      /\ ds[w] => st[w] # "idle"
  BY DEF Sound, Dispatchable
<1>2. \A c \in Clients : c # None /\ c # Cancelled
  BY ClientsAssumption
<1>3. CASE \E c \in Clients : Has(wk, fut, ph, c, w)
  BY <1>1, <1>3 DEF LeaseFor
<1>4. CASE \A c \in Clients : ~Has(wk, fut, ph, c, w)
  BY <1>1, <1>2, <1>4 DEF LeaseFor
<1>5. QED
  BY <1>3, <1>4

LEMMA LeaseNow ==
  ASSUME Unmoved, NEW w \in Workers
  PROVE  /\ LeaseMap[w] = LeaseOf(w)
         /\ \A c \in Clients : Holds(c, w) <=> LeaseOf(w) = c
         /\ (\A c \in Clients : ~Holds(c, w)) =>
              LeaseOf(w) = IF dispatched[w] THEN Cancelled ELSE None
         /\ status[w] = "idle" => LeaseOf(w) = None
<1>1. Sound(status, dispatched, queue, future, worker, pc, {})
  BY DEF Unmoved, IInv, SoundNow
<1>2. \A c \in Clients : Has(worker, future, pc, c, w) <=> Holds(c, w)
  BY DEF Has, Holds
<1>3. LeaseOf(w) = LeaseFor(dispatched, future, worker, pc, w)
  BY LeaseOfIs
<1>4. LeaseMap[w] = LeaseOf(w)
  BY DEF LeaseMap
<1>5. QED
  BY <1>1, <1>2, <1>3, <1>4, LeaseIs

LEMMA LeaseNext ==
  ASSUME Unmoved', NEW w \in Workers
  PROVE  /\ LeaseMap'[w] = LeaseOf(w)'
         /\ \A c \in Clients : Holds(c, w)' <=> LeaseOf(w)' = c
         /\ (\A c \in Clients : ~Holds(c, w)') =>
              LeaseOf(w)' = IF dispatched'[w] THEN Cancelled ELSE None
<1>1. Sound(status', dispatched', queue', future', worker', pc', {})
  BY DEF Unmoved, IInv, SoundNow
<1>2. \A c \in Clients : Has(worker', future', pc', c, w) <=> Holds(c, w)'
  BY DEF Has, Holds
<1>3. LeaseOf(w)' = LeaseFor(dispatched', future', worker', pc', w)
  BY DEF LeaseOf, LeaseFor, Holds, Has
<1>4. LeaseMap'[w] = LeaseOf(w)'
  BY DEF LeaseMap
<1>5. QED
  BY <1>1, <1>2, <1>3, <1>4, LeaseIs

(* A step that changes neither a holder nor a mark without a holder. *)
LEMMA SameLeases ==
  ASSUME Unmoved, Unmoved',
         \A w \in Workers : \A c \in Clients : Holds(c, w)' <=> Holds(c, w),
         \A w \in Workers :
           (\A c \in Clients : ~Holds(c, w)) => (dispatched'[w] <=> dispatched[w])
  PROVE  LeaseMap' = LeaseMap
<1>1. ASSUME NEW w \in Workers
      PROVE  LeaseOf(w)' = LeaseOf(w)
  <2>1. CASE \E c \in Clients : Holds(c, w)
    BY <2>1, LeaseNow, LeaseNext
  <2>2. CASE \A c \in Clients : ~Holds(c, w)
    BY <2>2, LeaseNow, LeaseNext
  <2>3. QED
    BY <2>1, <2>2
<1>2. QED
  BY <1>1 DEF LeaseMap
(* A dispatch grants leases to the front of the line, starting from the    *)
(* leases of the pool it starts from.                                      *)
LEMMA DispatchGrants ==
  ASSUME Unmoved', NEW st, NEW ds, NEW q, NEW fut,
         Sound(st, ds, q, fut, worker', pc', {}),
         Dispatch(st, ds, q, fut),
         NEW lease,
         lease = [w \in Workers |-> LeaseFor(ds, fut, worker', pc', w)]
  PROVE  Leases!Grant(q, lease)
<1>1. /\ Dispatchable(st, ds, q, fut)
      /\ \A c \in Clients : fut[c] # None => pc'[c] \in Queued
  BY DEF Sound
<1>2. PICK n \in 0..Len(q) : \E a \in [1..n -> Workers] : Gives(st, ds, q, fut, n, a)
  BY <1>1, DispatchGives
<1>3. PICK a \in [1..n -> Workers] : Gives(st, ds, q, fut, n, a)
  BY <1>2
<1>4. \A i \in 1..n : lease[a[i]] = None
  BY <1>3, LeaseIs DEF Gives
<1>5. \A i, j \in 1..n : a[i] = a[j] => i = j
  BY <1>3 DEF Gives
<1>6. \A i \in 1..n : LeaseMap'[a[i]] = q[i]
  <2> SUFFICES ASSUME NEW i \in 1..n
               PROVE  LeaseMap'[a[i]] = q[i]
    OBVIOUS
  <2>1. /\ a[i] \in Workers /\ q[i] \in Clients
        /\ fut[q[i]] = Pending /\ future'[q[i]] = a[i]
    BY <1>3 DEF Gives
  <2>2. Holds(q[i], a[i])'
    BY <1>1, <2>1, NoneAssumption DEF Holds
  <2>3. QED
    BY <2>1, <2>2, LeaseNext
<1>7. ASSUME NEW w \in Workers, \A i \in 1..n : a[i] # w
      PROVE  LeaseMap'[w] = lease[w]
  <2>1. \A c \in Clients : Has(worker', future', pc', c, w) <=> Has(worker', fut, pc', c, w)
    <3> SUFFICES ASSUME NEW c \in Clients
                 PROVE  future'[c] = w <=> fut[c] = w
      BY DEF Has
    <3>1. CASE \E i \in 1..n : q[i] = c
      BY <1>3, <1>7, <3>1, NoneAssumption DEF Gives
    <3>2. CASE \A i \in 1..n : q[i] # c
      BY <1>3, <3>2 DEF Gives
    <3>3. QED
      BY <3>1, <3>2
  <2>2. dispatched'[w] <=> ds[w]
    <3>1. dispatched' = [v \in Workers |-> v \in {a[j] : j \in 1..n} \/ ds[v]]
      BY <1>3 DEF Gives
    <3>2. w \notin {a[j] : j \in 1..n}
      BY <1>7
    <3>3. QED
      BY <3>1, <3>2, Zenon
  <2>3. Sound(status', dispatched', queue', future', worker', pc', {})
    BY DEF Unmoved, IInv, SoundNow
  <2>4. LeaseMap'[w] = LeaseFor(dispatched', future', worker', pc', w)
    BY LeaseOfIs
  <2>5. CASE \E c \in Clients : Has(worker', fut, pc', c, w)
    BY <2>1, <2>3, <2>4, <2>5, LeaseIs
  <2>6. CASE \A c \in Clients : ~Has(worker', fut, pc', c, w)
    BY <2>1, <2>2, <2>3, <2>4, <2>6, LeaseIs
  <2>7. QED
    BY <2>5, <2>6
<1>8. LeaseMap' = [w \in Workers |-> IF \E i \in 1..n : a[i] = w
                                     THEN q[CHOOSE i \in 1..n : a[i] = w]
                                     ELSE lease[w]]
  <2>1. ASSUME NEW w \in Workers, NEW i \in 1..n, a[i] = w
        PROVE  LeaseMap'[w] = q[CHOOSE j \in 1..n : a[j] = w]
    <3>1. (CHOOSE j \in 1..n : a[j] = w) = i
      BY <1>5, <2>1
    <3>2. QED
      BY <1>6, <2>1, <3>1
  <2>2. LeaseMap' = [w \in Workers |-> LeaseMap'[w]]
    BY DEF LeaseMap
  <2>3. QED
    BY <1>7, <2>1, <2>2
<1>9. queue' = SubSeq(q, n + 1, Len(q))
  BY <1>3 DEF Gives
<1>10. QED
  BY <1>4, <1>5, <1>8, <1>9 DEF Leases!Grant, LeaseMap

(* The dispatch at the end of a round or a registration: the leases are    *)
(* those of now, since the workers' statuses do not enter into them.       *)
LEMMA OutsideGrants ==
  ASSUME Unmoved, Unmoved', NEW st, UNCHANGED <<worker, pc>>,
         Sound(st, dispatched, queue, future, worker, pc, moved),
         Dispatch(st, dispatched, queue, future)
  PROVE  Leases!Next
<1>1. LeaseMap = [w \in Workers |-> LeaseFor(dispatched, future, worker', pc', w)]
  BY LeaseOfIs
<1>2. Sound(st, dispatched, queue, future, worker', pc', {})
  BY DEF Unmoved
<1>3. Leases!Grant(queue, LeaseMap)
  BY <1>1, <1>2, DispatchGrants
<1>4. QED
  BY <1>3 DEF Leases!Next, LeaseMap

LEMMA NotInLine ==
  ASSUME Unmoved, NEW c \in Clients, pc[c] = "away"
  PROVE  ~Leases!InLine(c) /\ ~Leases!HasLease(c)
<1>1. future[c] = None /\ worker[c] = None
  BY Facts DEF Unmoved, Queued, Serving
<1>2. ~Leases!InLine(c)
  BY <1>1, Facts, NoneAssumption DEF Unmoved, Dispatchable, Leases!InLine
<1>3. \A w \in Workers : ~Holds(c, w)
  BY <1>1, NoneAssumption DEF Holds
<1>4. \A w \in Workers : LeaseOf(w) # c
  BY <1>3, LeaseNow
<1>5. QED
  BY <1>2, <1>4 DEF Leases!HasLease

LEMMA ArriveAssignedWalksIn ==
  ASSUME Unmoved, Unmoved', NEW c \in Clients, ArriveAssigned(c)
  PROVE  Leases!Next
<1>1. PICK w \in Workers :
        /\ IsBest(status, w)
        /\ dispatched' = [dispatched EXCEPT ![w] = TRUE]
        /\ worker' = [worker EXCEPT ![c] = w]
  BY DEF ArriveAssigned
<1>2. /\ pc[c] = "away" /\ pc' = [pc EXCEPT ![c] = "greeting"]
      /\ UNCHANGED <<queue, future>>
  BY DEF ArriveAssigned, queueVars
<1>3. worker[c] = None /\ future[c] = None
  BY <1>2, Facts DEF Unmoved, Serving, Queued
<1>4. LeaseOf(w) = None
  BY <1>1, LeaseNow DEF IsBest, Idle
<1>5. LeaseOf(w)' = c
  <2>1. Holds(c, w)'
    BY <1>1, Facts DEF Holds, Unmoved, RestOK
  <2>2. QED
    BY <2>1, LeaseNext
<1>6. ASSUME NEW v \in Workers, v # w
      PROVE  LeaseOf(v)' = LeaseOf(v)
  <2>1. \A d \in Clients : Holds(d, v)' <=> Holds(d, v)
    BY <1>1, <1>2, <1>3, <1>6, Facts, NoneAssumption
    DEF Holds, Unmoved, RestOK, Queued
  <2>2. dispatched'[v] = dispatched[v]
    BY <1>1, <1>6, Facts DEF Unmoved
  <2>3. CASE \E d \in Clients : Holds(d, v)
    BY <2>1, <2>3, LeaseNow, LeaseNext
  <2>4. CASE \A d \in Clients : ~Holds(d, v)
    BY <2>1, <2>2, <2>4, LeaseNow, LeaseNext
  <2>5. QED
    BY <2>3, <2>4
<1>7. LeaseMap' = [LeaseMap EXCEPT ![w] = c] /\ LeaseMap[w] = None
  BY <1>4, <1>5, <1>6 DEF LeaseMap
<1>8. Leases!WalkIn(c)
  BY <1>2, <1>7, NotInLine DEF Leases!WalkIn, LeaseMap
<1>9. QED
  BY <1>8 DEF Leases!Next

LEMMA ArriveQueuedJoins ==
  ASSUME Unmoved, Unmoved', NEW c \in Clients, ArriveQueued(c)
  PROVE  Leases!Next
<1>1. /\ pc[c] = "away" /\ pc' = [pc EXCEPT ![c] = "sending"]
      /\ queue' = Append(queue, c)
      /\ future' = [future EXCEPT ![c] = Pending]
      /\ UNCHANGED <<status, dispatched, worker>>
  BY DEF ArriveQueued, poolVars
<1>2. worker[c] = None /\ future[c] = None
  BY <1>1, Facts DEF Unmoved, Serving, Queued
<1>3. \A w \in Workers : \A d \in Clients : Holds(d, w)' <=> Holds(d, w)
  BY <1>1, <1>2, Facts, NoneAssumption DEF Holds, Unmoved, RestOK, Queued
<1>4. LeaseMap' = LeaseMap
  BY <1>1, <1>3, SameLeases
<1>5. Leases!Join(c)
  BY <1>1, <1>4, NotInLine DEF Leases!Join, LeaseMap
<1>6. QED
  BY <1>5 DEF Leases!Next
(* A holder more or less decides a lease, and a mark that nobody holds. *)
LEMMA SameLeaseFor ==
  ASSUME NEW ds, NEW fut, NEW wk, NEW ph, NEW st, NEW q,
         Sound(st, ds, q, fut, wk, ph, {}),
         Unmoved, NEW w \in Workers,
         \A c \in Clients : Has(wk, fut, ph, c, w) <=> Holds(c, w),
         (\A c \in Clients : ~Holds(c, w)) => (ds[w] <=> dispatched[w])
  PROVE  LeaseFor(ds, fut, wk, ph, w) = LeaseOf(w)
<1>1. CASE \E c \in Clients : Holds(c, w)
  BY <1>1, LeaseNow, LeaseIs
<1>2. CASE \A c \in Clients : ~Holds(c, w)
  BY <1>2, LeaseNow, LeaseIs
<1>3. QED
  BY <1>1, <1>2

(* A queued ticket leaves the line. One that is no longer queued takes its *)
(* worker with it, when its future was resolved: the lease is lost.        *)
LEMMA CancelWalksOut ==
  ASSUME Unmoved, Unmoved', NEW c \in Clients, NEW f \in {None, Cancelled},
         NEW p \in {"away"} \cup Queued,
         pc[c] \in Queued, p = "away" => f = None,
         InQueue(c) \/ (f = None /\ p = "away"),
         Cancel(c, f),
         pc' = [pc EXCEPT ![c] = p],
         UNCHANGED <<worker, moved>>
  PROVE  Leases!Next \/ (queue' = queue /\ LeaseMap' = LeaseMap)
<1> DEFINE g == [future EXCEPT ![c] = f]
<1>1. IInv /\ moved' = {}
  BY DEF Unmoved
<1>2. f \notin Workers
  BY NoneAssumption
<1>3. ASSUME NEW i \in 1..Len(queue), queue[i] = c,
             Dispatch(status, dispatched, RemoveAt(queue, i), g)
      PROVE  Leases!Next
  <2>1. future[c] = Pending
    BY <1>1, <1>3, Facts DEF Dispatchable
  <2>2. \A w \in Workers : \A d \in Clients :
          Has(worker', g, pc', d, w) <=> Holds(d, w)
    BY <1>1, <1>2, <2>1, Facts, NoneAssumption DEF Has, Holds, RestOK
  <2>3. Sound(status, dispatched, RemoveAt(queue, i), g, worker', pc', {})
    BY <1>1, <1>3, RemovalIsSound
  <2> HIDE DEF g
  <2>4. \A w \in Workers : LeaseFor(dispatched, g, worker', pc', w) = LeaseOf(w)
    BY <2>2, <2>3, SameLeaseFor
  <2>5. LeaseMap = [w \in Workers |-> LeaseFor(dispatched, g, worker', pc', w)]
    BY <2>4 DEF LeaseMap
  <2>6. Leases!Grant(RemoveAt(queue, i), LeaseMap)
    BY <1>3, <2>3, <2>5, DispatchGrants
  <2>7. Leases!WalkOut(c)
    BY <1>3, <2>6 DEF Leases!WalkOut, LeaseMap, RemoveAt, Leases!RemoveAt
  <2>8. QED
    BY <2>7 DEF Leases!Next
<1>4. CASE ~InQueue(c) /\ future' = g /\ UNCHANGED <<status, dispatched, queue>>
  <2>1. f = None /\ p = "away" /\ \A w \in Workers : ~Holds(c, w)' \/ worker[c] = w
    BY <1>1, <1>4, Facts DEF Holds, RestOK, Queued
  <2>2. worker[c] = None
    BY <1>1, Facts DEF Queued, Serving
  <2>3. \A w \in Workers : \A d \in Clients : d # c => (Holds(d, w)' <=> Holds(d, w))
    BY <1>1, <1>4, Facts DEF Holds, RestOK
  <2>4. \A w \in Workers : ~Holds(c, w)'
    BY <2>1, <2>2, NoneAssumption
  <2>5. CASE future[c] \notin Workers
    <3>1. \A w \in Workers : ~Holds(c, w)
      BY <2>2, <2>5, NoneAssumption DEF Holds
    <3>2. \A w \in Workers : \A d \in Clients : Holds(d, w)' <=> Holds(d, w)
      BY <2>3, <2>4, <3>1
    <3>3. LeaseMap' = LeaseMap
      BY <1>4, <3>2, SameLeases
    <3>4. QED
      BY <1>4, <3>3
  <2>6. CASE future[c] \in Workers
    <3>0. PICK w \in Workers : future[c] = w
      BY <2>6
    <3>1. Holds(c, w)
      BY <3>0 DEF Holds
    <3>2. LeaseOf(w) = c
      BY <3>1, LeaseNow
    <3>3. \A d \in Clients : ~Holds(d, w)'
      BY <2>3, <2>4, <3>1, <3>2, LeaseNow
    <3>4. dispatched[w]
      BY <1>1, <3>1, Facts DEF Unmoved, SoundNow, Sound, Has, Holds
    <3>5. LeaseOf(w)' = Cancelled
      BY <1>4, <3>3, <3>4, LeaseNext
    <3>6. ASSUME NEW v \in Workers, v # w
          PROVE  LeaseOf(v)' = LeaseOf(v)
      <4>1. \A d \in Clients : Holds(d, v)' <=> Holds(d, v)
        BY <2>2, <2>3, <2>4, <3>0, <3>6, NoneAssumption DEF Holds
      <4>2. CASE \E d \in Clients : Holds(d, v)
        BY <4>1, <4>2, LeaseNow, LeaseNext
      <4>3. CASE \A d \in Clients : ~Holds(d, v)
        BY <1>4, <4>1, <4>3, LeaseNow, LeaseNext
      <4>4. QED
        BY <4>2, <4>3
    <3>7. LeaseMap' = [LeaseMap EXCEPT ![w] = Cancelled] /\ LeaseMap[w] = c
      BY <3>2, <3>5, <3>6 DEF LeaseMap
    <3>8. Leases!Lose(w)
      BY <1>4, <3>7 DEF Leases!Lose, LeaseMap
    <3>9. QED
      BY <3>8 DEF Leases!Next
  <2>7. QED
    BY <2>5, <2>6
<1>5. QED
  BY <1>3, <1>4 DEF Cancel

LEMMA ReleaseReturns ==
  ASSUME Unmoved, Unmoved', NEW c \in Clients, Release(c)
  PROVE  Leases!Next
<1>0. PICK w \in Workers : worker[c] = w
  BY Facts DEF Unmoved, Release, Serving
<1> DEFINE st == [status EXCEPT ![w] = "idle"]
           ds == [dispatched EXCEPT ![w] = FALSE]
           freed == [LeaseMap EXCEPT ![w] = None]
<1>1. /\ pc[c] = "closing" /\ pc' = [pc EXCEPT ![c] = "away"]
      /\ worker' = [worker EXCEPT ![c] = None]
      /\ Dispatch(st, ds, queue, future)
  BY <1>0 DEF Release
<1>2. IInv /\ future[c] = None
  BY <1>1, Facts DEF Unmoved, Serving, Queued
<1>3. Sound(st, ds, queue, future, worker', pc', {})
  BY <1>0, <1>2, ReleaseIsSound DEF Unmoved
<1>4. LeaseOf(w) = c
  BY <1>0, LeaseNow DEF Holds
<1>5. LeaseFor(ds, future, worker', pc', w) = None
  <2>1. st[w] = "idle"
    BY <1>2, Facts
  <2> HIDE DEF st, ds
  <2>2. QED
    BY <1>2, <1>3, <2>1, LeaseIs
<1>6. ASSUME NEW v \in Workers, v # w
      PROVE  LeaseFor(ds, future, worker', pc', v) = LeaseOf(v)
  <2>1. \A d \in Clients : Has(worker', future, pc', d, v) <=> Holds(d, v)
    BY <1>0, <1>1, <1>2, <1>6, Facts, NoneAssumption DEF Has, Holds, RestOK
  <2>2. ds[v] = dispatched[v]
    BY <1>2, <1>6, Facts
  <2> HIDE DEF st, ds
  <2>3. QED
    BY <1>3, <2>1, <2>2, SameLeaseFor
<1>7. freed = [v \in Workers |-> LeaseFor(ds, future, worker', pc', v)]
  <2> HIDE DEF st, ds
  <2>1. QED
    BY <1>2, <1>5, <1>6 DEF LeaseMap
<1> HIDE DEF st, ds, freed
<1>8. Leases!Grant(queue, freed)
  BY <1>1, <1>3, <1>7, DispatchGrants
<1>9. LeaseMap[w] \in Clients
  BY <1>2, <1>4 DEF LeaseMap
<1>10. Leases!Return(w)
  BY <1>8, <1>9 DEF Leases!Return, LeaseMap, freed
<1>11. QED
  BY <1>2, <1>10 DEF Leases!Next
(* Every other step leaves the line and the leases alone. *)
Stutters == queue' = queue /\ LeaseMap' = LeaseMap

LEMMA HandlerRefines ==
  ASSUME Unmoved, Unmoved', NEW c \in Clients, Handler(c)
  PROVE  Leases!Next \/ Stutters
<1>1. IInv /\ moved' = moved
  BY DEF Unmoved
<1>2. ASSUME pc[c] \in Queued, TakeWorker(c)
      PROVE  Stutters
  <2>1. /\ pc' = [pc EXCEPT ![c] = "greeting"]
        /\ worker' = [worker EXCEPT ![c] = future[c]]
        /\ future' = [future EXCEPT ![c] = None]
        /\ worker[c] = None /\ UNCHANGED <<dispatched, queue>>
    BY <1>1, <1>2, Facts DEF TakeWorker, poolVars, Queued, Serving
  <2>2. \A v \in Workers : \A d \in Clients : Holds(d, v)' <=> Holds(d, v)
    BY <1>1, <1>2, <2>1, Facts, NoneAssumption DEF Holds, RestOK, Queued
  <2>3. QED
    BY <2>1, <2>2, SameLeases DEF Stutters
<1>3. ASSUME pc[c] \in Queued, GiveUp(c)
      PROVE  Stutters
  <2>1. /\ pc' = [pc EXCEPT ![c] = "away"]
        /\ future' = [future EXCEPT ![c] = None] /\ future[c] = Cancelled
        /\ UNCHANGED <<worker, dispatched, queue>>
    BY <1>3 DEF GiveUp, poolVars
  <2>2. \A v \in Workers : \A d \in Clients : Holds(d, v)' <=> Holds(d, v)
    BY <1>1, <2>1, Facts, NoneAssumption DEF Holds, RestOK, Queued
  <2>3. QED
    BY <2>1, <2>2, SameLeases DEF Stutters
<1>4. ASSUME NEW p \in Phases, pc' = [pc EXCEPT ![c] = p],
             p \in Queued <=> pc[c] \in Queued,
             UNCHANGED <<future, worker, dispatched, queue>>
      PROVE  Stutters
  <2>1. \A v \in Workers : \A d \in Clients : Holds(d, v)' <=> Holds(d, v)
    BY <1>1, <1>4, Facts DEF Holds, RestOK
  <2>2. QED
    BY <1>4, <2>1, SameLeases DEF Stutters
<1>5. CASE Sent(c)
  BY <1>2, <1>3, <1>4, <1>5 DEF Sent, Phases, Queued, poolVars, queueVars
<1>6. CASE SendFails(c)
  BY <1>1, <1>6, CancelWalksOut DEF SendFails, Queued, Stutters
<1>7. CASE WaitTimeout(c)
  BY <1>4, <1>7 DEF WaitTimeout, Phases, Queued, poolVars, queueVars
<1>8. CASE Wake(c)
  BY <1>2, <1>3, <1>8 DEF Wake, Queued
<1>9. CASE Greeted(c)
  <2>1. /\ pc[c] = "greeting" /\ pc' = [pc EXCEPT ![c] = "connecting"]
        /\ dispatched' = [dispatched EXCEPT ![worker[c]] = TRUE]
        /\ UNCHANGED <<future, worker, queue>>
    BY <1>9 DEF Greeted, queueVars
  <2>2. \A v \in Workers : \A d \in Clients : Holds(d, v)' <=> Holds(d, v)
    BY <1>1, <2>1, Facts DEF Holds, RestOK, Queued
  <2>3. \A v \in Workers :
          (\A d \in Clients : ~Holds(d, v)) => (dispatched'[v] <=> dispatched[v])
    BY <1>1, <2>1, Facts DEF Holds
  <2>4. QED
    BY <2>1, <2>2, <2>3, SameLeases DEF Stutters
<1>10. CASE Connected(c)
  BY <1>4, <1>10 DEF Connected, Phases, Queued, Serving, poolVars, queueVars
<1>11. CASE SessionEnds(c)
  BY <1>4, <1>11 DEF SessionEnds, Phases, Queued, Serving, poolVars, queueVars
<1>12. QED
  BY <1>5, <1>6, <1>7, <1>8, <1>9, <1>10, <1>11,
     ArriveAssignedWalksIn, ArriveQueuedJoins, ReleaseReturns DEF Handler

LEMMA NextRefines == Unmoved /\ Unmoved' /\ [Next]_vars => Leases!Next \/ Stutters
<1> SUFFICES ASSUME Unmoved, Unmoved', [Next]_vars
             PROVE  Leases!Next \/ Stutters
  OBVIOUS
<1>1. IInv /\ moved = {} /\ moved' = {}
  BY DEF Unmoved
<1>2. ASSUME NEW c \in Clients, AdminCancel(c)
      PROVE  Leases!Next \/ Stutters
  <2>1. pc[c] \in Queued
    BY <1>1, <1>2, Facts, NoneAssumption DEF AdminCancel, InQueue, Dispatchable
  <2>2. pc' = [pc EXCEPT ![c] = pc[c]] /\ pc[c] # "away"
    BY <1>1, <1>2, <2>1, Facts DEF AdminCancel, handlerVars, RestOK, Queued
  <2>3. QED
    BY <1>1, <1>2, <2>1, <2>2, CancelWalksOut DEF AdminCancel, handlerVars, Stutters
<1>3. ASSUME UNCHANGED <<queue, dispatched, future, worker, pc>>
      PROVE  Stutters
  BY <1>3, SameLeases DEF Stutters, Holds
<1>4. ASSUME NEW w \in Workers, Health(w)
      PROVE  Leases!Next \/ Stutters
  <2>1. CASE Registered(w)
    BY <1>1, <2>1, OutsideGrants, RefreshedIsDispatchable DEF Registered, handlerVars
  <2>2. ~RegisterElsewhere(w)
    BY <1>1 DEF RegisterElsewhere
  <2>3. QED
    BY <1>3, <1>4, <2>1, <2>2
    DEF Health, ReplyApplied, Register, HostCrashes, HostUp, HostFinishes,
        poolVars, queueVars, handlerVars
<1>5. CASE RoundEnds
  BY <1>1, <1>5, OutsideGrants, Facts DEF RoundEnds, handlerVars, SoundNow
<1>6. QED
  BY <1>2, <1>3, <1>4, <1>5, HandlerRefines
  DEF Next, RoundStarts, HostAnswers, vars, poolVars, queueVars, handlerVars

(* Where no worker can register another endpoint, none ever moves. *)
LEMMA NeverMoved ==
  ASSUME MovableWorkers = {}
  PROVE  Spec => []Unmoved
<1> DEFINE Still == moved = {}
<1>1. Init => Still
  BY DEF Init
<1>2. Still /\ [Next]_vars => Still'
  <2> SUFFICES ASSUME moved = {}, [Next]_vars
               PROVE  moved' = moved
    OBVIOUS
  <2>1. ASSUME NEW w \in Workers, Health(w)
        PROVE  moved' = moved
    BY <2>1
    DEF Health, ReplyApplied, Register, RegisterElsewhere, Registered,
        HostCrashes, HostUp, HostFinishes, moveVars
  <2>2. ASSUME NEW c \in Clients, Handler(c) \/ AdminCancel(c)
        PROVE  moved' = moved
    BY <2>2
    DEF Handler, AdminCancel, ArriveAssigned, ArriveQueued, Sent, SendFails,
        TakeWorker, GiveUp, WaitTimeout, Wake, Greeted, Connected, SessionEnds,
        Release, moveVars
  <2>3. QED
    BY <2>1, <2>2 DEF Next, RoundStarts, HostAnswers, RoundEnds, vars, moveVars
<1>3. IInv /\ Still => Unmoved
  BY DEF Unmoved
<1> HIDE DEF Still
<1>4. QED
  BY PoolInvariant, <1>1, <1>2, <1>3, PTL DEF Spec

(* A pool whose workers stay at their endpoints implements WorkerLeases:   *)
(* clients are served in the order in which they came, a lease ends when   *)
(* its holder returns it, and only a granted client that is gone loses it. *)
THEOREM LeasesImplemented ==
  ASSUME MovableWorkers = {}
  PROVE  Spec => ImplementsLeases
<1>1. Init => Leases!Init
  <2> SUFFICES ASSUME Init
               PROVE  Leases!Init
    OBVIOUS
  <2>1. \A w \in Workers : LeaseOf(w) = None
    BY NoneAssumption DEF Init, LeaseOf, Holds, Queued
  <2>2. QED
    BY <2>1 DEF Init, Leases!Init
<1>2. Unmoved /\ Unmoved' /\ [Next]_vars => [Leases!Next]_(Leases!vars)
  BY NextRefines DEF Stutters, LeaseMap, Leases!vars
<1>3. QED
  BY NeverMoved, <1>1, <1>2, PTL DEF Spec, ImplementsLeases, Leases!Spec
=============================================================================
