---------------------------- MODULE WorkerLeases ----------------------------
(***************************************************************************)
(* What the worker pool promises, apart from how: a line of clients, and a *)
(* lease per worker. A client joins the line or, when a worker is free,    *)
(* takes it right away; a worker is leased to one client until that client *)
(* gives it back; leases are granted to the front of the line; a client    *)
(* may walk out, and a lease may be lost for good when the client it was   *)
(* just granted to is gone.                                                *)
(***************************************************************************)
EXTENDS Naturals, SequencesExt

CONSTANTS
  Workers,
  Clients,
  Free,    \* no lease
  Lost     \* the lease of a client that is gone

VARIABLES
  line,    \* the waiting clients, in the order they came
  lease    \* who has each worker

vars == <<line, lease>>

InLine(c)   == \E i \in 1..Len(line) : line[i] = c
HasLease(c) == \E w \in Workers : lease[w] = c

(* From the line q and the leases l, the n front clients get free workers. *)
Grant(q, l) ==
  \E n \in 0..Len(q) : \E a \in [1..n -> Workers] :
    /\ \A i \in 1..n : l[a[i]] = Free
    /\ \A i, j \in 1..n : a[i] = a[j] => i = j
    /\ line' = SubSeq(q, n + 1, Len(q))
    /\ lease' = [w \in Workers |->
                   IF \E i \in 1..n : a[i] = w
                   THEN q[CHOOSE i \in 1..n : a[i] = w]
                   ELSE l[w]]

Join(c) ==
  /\ ~InLine(c) /\ ~HasLease(c)
  /\ line' = Append(line, c)
  /\ UNCHANGED lease

WalkIn(c) ==
  /\ ~InLine(c) /\ ~HasLease(c)
  /\ \E w \in Workers : lease[w] = Free /\ lease' = [lease EXCEPT ![w] = c]
  /\ UNCHANGED line

WalkOut(c) ==
  \E i \in 1..Len(line) : line[i] = c /\ Grant(RemoveAt(line, i), lease)

Return(w) ==
  /\ lease[w] \in Clients
  /\ Grant(line, [lease EXCEPT ![w] = Free])

Lose(w) ==
  /\ lease[w] \in Clients
  /\ lease' = [lease EXCEPT ![w] = Lost]
  /\ UNCHANGED line

Init == line = <<>> /\ lease = [w \in Workers |-> Free]

Next ==
  \/ Grant(line, lease)
  \/ \E c \in Clients : Join(c) \/ WalkIn(c) \/ WalkOut(c)
  \/ \E w \in Workers : Return(w) \/ Lose(w)

Spec == Init /\ [][Next]_vars

=============================================================================
