--------------------------- MODULE OrderPathProofs --------------------------
(***************************************************************************)
(* Lemmas about OrderPath, from which OrderDeliveryProofs derives what the *)
(* processes keep (NothingComesBack).  They say nothing of the code.       *)
(***************************************************************************)
EXTENDS OrderPath, TLAPS

PathInv ==
    /\ copies \in [DOMAIN copies -> Nat]
    /\ custody \subseteq DOMAIN copies
    /\ rows \subseteq DOMAIN copies

\* Who let go of an order does not get it back, nor does anybody else; and what
\* Kafka had is there, or in the table.
Promise ==
    /\ \A o \in DOMAIN copies :
          /\ o \in DOMAIN copies'
          /\ o \notin custody => o \notin custody'
          /\ copies'[o] < copies[o] => o \in rows'
    /\ rows \subseteq rows'

-----------------------------------------------------------------------------
\* Orders in custody, in Kafka and in the table are orders that were accepted.
LEMMA PathInvariant == PathSpec => []PathInv
<1>1. PathInit => PathInv
  BY DEF PathInit, PathInv
<1>2. PathInv /\ [PathNext]_pathVars => PathInv'
  <2> SUFFICES ASSUME PathInv, [PathNext]_pathVars PROVE PathInv'
    OBVIOUS
  <2> USE DEF PathInv
  <2>1. ASSUME NEW o \in Orders, Accept(o) PROVE PathInv'
    BY <2>1 DEF Accept
  <2>2. ASSUME NEW o \in Orders, Deliver(o) \/ DeliverUnnoticed(o) PROVE PathInv'
    BY <2>2 DEF Deliver, DeliverUnnoticed
  <2>3. ASSUME NEW o \in Orders, Store(o) \/ StoreUnnoticed(o) PROVE PathInv'
    BY <2>3 DEF Store, StoreUnnoticed
  <2>4. ASSUME NEW gone \in SUBSET custody, Drop(gone) PROVE PathInv'
    BY <2>4 DEF Drop
  <2>5. CASE UNCHANGED pathVars
    BY <2>5 DEF pathVars
  <2> QED BY <2>1, <2>2, <2>3, <2>4, <2>5 DEF PathNext
<1> QED BY <1>1, <1>2, PTL DEF PathSpec

\* Custody is never taken up again, and Kafka forgets only what has its row.
LEMMA PromiseKept == PathSpec => [][Promise]_pathVars
<1>1. PathInv /\ [PathNext]_pathVars => [Promise]_pathVars
  <2> SUFFICES ASSUME PathInv, PathNext PROVE Promise
    OBVIOUS
  <2> USE DEF PathInv, Promise
  <2>1. ASSUME NEW o \in Orders, Accept(o) PROVE Promise
    BY <2>1 DEF Accept
  <2>2. ASSUME NEW o \in Orders, Deliver(o) \/ DeliverUnnoticed(o) PROVE Promise
    BY <2>2 DEF Deliver, DeliverUnnoticed
  <2>3. ASSUME NEW o \in Orders, Store(o) \/ StoreUnnoticed(o) PROVE Promise
    BY <2>3 DEF Store, StoreUnnoticed
  <2>4. ASSUME NEW gone \in SUBSET custody, Drop(gone) PROVE Promise
    BY <2>4 DEF Drop
  <2> QED BY <2>1, <2>2, <2>3, <2>4 DEF PathNext
<1> QED BY <1>1, PathInvariant, PTL DEF PathSpec
=============================================================================
