------------------------------ MODULE OrderPath -----------------------------
(***************************************************************************)
(* What the way of an order promises, with nothing of processes, lists,    *)
(* workers and breakers: an order is taken into custody once, custody ends *)
(* with its delivery to Kafka or with its loss, and rows are written from  *)
(* what Kafka has.  Nothing that left custody comes back into it, and no   *)
(* copy leaves Kafka unless its row is there.                              *)
(***************************************************************************)
EXTENDS Naturals

CONSTANT Orders

VARIABLES
    custody,   (* orders that somebody still has to pass on to Kafka       *)
    copies,    (* copies in Kafka of every order accepted so far           *)
    rows       (* orders with a row                                        *)

pathVars == <<custody, copies, rows>>

PathInit ==
    /\ custody = {}
    /\ copies = [o \in {} |-> 0]
    /\ rows = {}

\* A booking got its seat, and its order exists from now on.
Accept(o) ==
    /\ o \notin DOMAIN copies
    /\ copies' = [x \in DOMAIN copies \cup {o} |-> IF x = o THEN 0 ELSE copies[x]]
    /\ custody' = custody \cup {o}
    /\ UNCHANGED rows

\* Kafka gets a copy, and whoever held the order is done with it.
Deliver(o) ==
    /\ o \in custody
    /\ copies' = [copies EXCEPT ![o] = @ + 1]
    /\ custody' = custody \ {o}
    /\ UNCHANGED rows

\* Kafka gets a copy, but its sender does not know and keeps the order.
DeliverUnnoticed(o) ==
    /\ o \in custody
    /\ copies' = [copies EXCEPT ![o] = @ + 1]
    /\ UNCHANGED <<custody, rows>>

\* All those who held these orders have forgotten them.
Drop(gone) ==
    /\ gone # {}
    /\ gone \subseteq custody
    /\ custody' = custody \ gone
    /\ UNCHANGED <<copies, rows>>

\* A copy becomes the row of its order and is acknowledged.
Store(o) ==
    /\ o \in DOMAIN copies \ rows
    /\ copies[o] > 0
    /\ rows' = rows \cup {o}
    /\ copies' = [copies EXCEPT ![o] = @ - 1]
    /\ UNCHANGED custody

\* The row is written, but the copy is not acknowledged.
StoreUnnoticed(o) ==
    /\ o \in DOMAIN copies \ rows
    /\ copies[o] > 0
    /\ rows' = rows \cup {o}
    /\ UNCHANGED <<custody, copies>>

PathNext ==
    \/ \E o \in Orders :
          \/ Accept(o)
          \/ Deliver(o) \/ DeliverUnnoticed(o)
          \/ Store(o) \/ StoreUnnoticed(o)
    \/ \E gone \in SUBSET custody : Drop(gone)

PathSpec == PathInit /\ [][PathNext]_pathVars
=============================================================================
