------------------------ MODULE ScheduleModelProofs -------------------------
(***************************************************************************)
(* Proofs about ScheduleModel, for any calls, totals and bounds.           *)
(*                                                                         *)
(* What a call holds in its hands matters as much as what the cache holds: *)
(* the entry is explained only because a call that is about to fill the    *)
(* cache holds the present row, or is itself explained.                    *)
(***************************************************************************)
EXTENDS ScheduleModel, TLAPS

\* A call that is about to set the stock has found a row.
FoundWhatIsSet ==
    \A c \in Calls :
        /\ pc[c] = "set" => found[c] \in Totals
        /\ pc[c] = "fill" => found[c] # None

\* A call that is about to fill the cache holds the present row, unless the key
\* has yet to be deleted or the row is stale for another known reason.
FillsArePresent ==
    \A c \in Calls : pc[c] = "fill" => found[c] = row \/ deleting \/ excused

TypeInv == TypeOK /\ FoundWhatIsSet

IInv == TypeInv /\ FillsArePresent /\ StaleEntryExplained

-----------------------------------------------------------------------------
\* FindOne hands a row to Setex, or ErrNotFound to the caller.
LEMMA AfterFindSets ==
    ASSUME NEW total \in Totals \cup {Absent}
    PROVE  /\ AfterFind(total) \in {"idle", "set"}
           /\ AfterFind(total) = "set" => total \in Totals
BY DEF AfterFind

\* A call that finds its total in the cache, or in MySQL, keeps the types.
LEMMA FillTypes ==
    ASSUME TypeInv, NEW c \in Calls, NEW sharing \in SUBSET Calls, Fill(c, sharing)
    PROVE  TypeInv'
<1> USE ScheduleModelAssumption DEF ScheduleModelAssumption
<1>1. found[c] \in Totals \cup {Absent}
  BY DEF Fill, TypeInv, TypeOK, FoundWhatIsSet
<1>2. /\ AfterFind(found[c]) \in {"idle", "set"}
      /\ AfterFind(found[c]) = "set" => found[c] \in Totals
  BY <1>1, AfterFindSets
<1>3. /\ pc' \in [Calls -> {"idle", "get", "select", "fill", "set"}]
      /\ found' \in [Calls -> Totals \cup {Absent, None}]
  BY <1>1, <1>2 DEF Fill, TypeInv, TypeOK
<1>4. entry' \in Totals \cup {Absent, None}
  BY <1>1 DEF Fill, TypeInv, TypeOK
<1>5. faults' \in 0 .. MaxFaults
  BY DEF Fill, Fault, TypeInv, TypeOK
<1>6. FoundWhatIsSet'
  BY <1>1, <1>2 DEF Fill, TypeInv, TypeOK, FoundWhatIsSet
<1> QED BY <1>3, <1>4, <1>5, <1>6 DEF Fill, tableVars, TypeInv, TypeOK

\* Every process starts idle, with nothing found.
LEMMA InitTypes == Init => TypeInv
<1> SUFFICES ASSUME Init PROVE TypeInv
  OBVIOUS
<1> USE ScheduleModelAssumption DEF ScheduleModelAssumption, Init
<1>1. deleting \in BOOLEAN /\ excused \in BOOLEAN
  BY Zenon
<1>2. edits \in 0 .. MaxEdits /\ faults \in 0 .. MaxFaults
  OBVIOUS
<1> QED BY <1>1, <1>2 DEF TypeInv, TypeOK, FoundWhatIsSet

\* No step loses the types, and no call gets a total that is none.
LEMMA TypeStep ==
    TypeInv /\ [Next]_vars => TypeInv'
<1> SUFFICES ASSUME TypeInv, [Next]_vars PROVE TypeInv'
  OBVIOUS
<1> USE ScheduleModelAssumption DEF ScheduleModelAssumption, TypeInv, TypeOK, FoundWhatIsSet
<1>1. ASSUME NEW c \in Calls, Call(c) PROVE TypeInv'
  BY <1>1 DEF Call, tableVars
<1>2. ASSUME NEW c \in Calls, Get(c) PROVE TypeInv'
  <2>1. entry # None =>
           /\ AfterFind(entry) \in {"idle", "set"}
           /\ AfterFind(entry) = "set" => entry \in Totals
    BY AfterFindSets
  <2> QED BY <1>2, <2>1 DEF Get, tableVars
<1>3. ASSUME NEW c \in Calls, Select(c) PROVE TypeInv'
  BY <1>3 DEF Select, tableVars
<1>4. ASSUME NEW c \in Calls, NEW sharing \in SUBSET Calls, Fill(c, sharing)
      PROVE  TypeInv'
  BY <1>4, FillTypes
<1>5. ASSUME NEW c \in Calls, SetStock(c) PROVE TypeInv'
  BY <1>5 DEF SetStock, tableVars
<1>6. ASSUME NEW c \in Calls, CallFails(c) PROVE TypeInv'
  BY <1>6 DEF CallFails, Fault, tableVars
<1>7. ASSUME NEW total \in Totals \cup {Absent}, EditByHand(total) PROVE TypeInv'
  BY <1>7 DEF EditByHand, Edit, callVars
<1>8. ASSUME NEW total \in Totals, Insert(total) PROVE TypeInv'
  BY <1>8 DEF Insert, Edit, callVars
<1>9. ASSUME NEW total \in Totals, Update(total) PROVE TypeInv'
  BY <1>9 DEF Update, Edit, callVars
<1>10. CASE Delete
  BY <1>10 DEF Delete, Edit, callVars
<1>11. CASE Invalidate
  BY <1>11 DEF Invalidate, callVars
<1>12. CASE InvalidateFails
  <2>1. deleting' \in BOOLEAN /\ excused' \in BOOLEAN
    BY <1>12, Zenon DEF InvalidateFails
  <2>2. faults' \in 0 .. MaxFaults
    BY <1>12 DEF InvalidateFails, Fault
  <2> QED BY <1>12, <2>1, <2>2 DEF InvalidateFails, callVars
<1>13. CASE Expire
  BY <1>13 DEF Expire, tableVars, callVars
<1>14. CASE UNCHANGED vars
  BY <1>14 DEF vars, tableVars, callVars
<1> QED BY <1>1, <1>2, <1>3, <1>4, <1>5, <1>6, <1>7, <1>8, <1>9, <1>10, <1>11,
           <1>12, <1>13, <1>14 DEF Next, Step

-----------------------------------------------------------------------------
\* The row, the cached row, the stock and what the calls have found keep their
\* types: above all, the stock is only ever set to a total, never to the
\* placeholder of a missing row.
THEOREM TypeCorrect == Spec => []TypeOK
<1>1. Init => TypeInv
  BY InitTypes
<1>2. TypeInv => TypeOK
  BY DEF TypeInv
<1> QED BY <1>1, <1>2, TypeStep, PTL DEF Spec

-----------------------------------------------------------------------------
\* A call puts into the cache what it holds, so the entry is as well explained
\* as the call was.
LEMMA FillIsExplained ==
    ASSUME IInv, NEW c \in Calls, NEW sharing \in SUBSET Calls, Fill(c, sharing)
    PROVE  FillsArePresent' /\ StaleEntryExplained'
<1> USE DEF IInv, TypeInv, TypeOK
<1>1. found[c] = row \/ deleting \/ excused
  BY DEF Fill, FillsArePresent
<1>2. StaleEntryExplained'
  BY <1>1 DEF Fill, tableVars, StaleEntryExplained
<1>3. ASSUME NEW d \in Calls, pc'[d] = "fill"
      PROVE  found'[d] = row' \/ deleting' \/ excused'
  <2>1. AfterFind(found[c]) # "fill"
    BY DEF AfterFind
  <2>2. d \notin sharing \cup {c} /\ pc[d] = "fill" /\ found'[d] = found[d]
    BY <1>3, <2>1 DEF Fill
  <2> QED BY <2>2 DEF Fill, tableVars, FillsArePresent
<1> QED BY <1>2, <1>3 DEF FillsArePresent

\* The deletion of the key leaves behind the calls that have read before it, and
\* they are the excuse from then on.
LEMMA InvalidateIsExplained ==
    ASSUME IInv, Invalidate
    PROVE  FillsArePresent' /\ StaleEntryExplained'
<1>1. ASSUME NEW c \in Calls, pc'[c] = "fill", found'[c] # row'
      PROVE  excused'
  BY <1>1 DEF Invalidate, callVars
<1> QED BY <1>1 DEF Invalidate, FillsArePresent, StaleEntryExplained

\* No other step makes a row, or a call that is about to fill, stale without a
\* cause.
LEMMA ExplainedStep ==
    ASSUME IInv, [Next]_vars
    PROVE  FillsArePresent' /\ StaleEntryExplained'
<1> DEFINE Goal == FillsArePresent' /\ StaleEntryExplained'
<1> USE DEF IInv, TypeInv, TypeOK, FillsArePresent, StaleEntryExplained
<1>1. ASSUME NEW c \in Calls, Call(c) PROVE Goal
  BY <1>1 DEF Call, tableVars
<1>2. ASSUME NEW c \in Calls, Get(c) PROVE Goal
  <2>1. AfterFind(entry) # "fill"
    BY DEF AfterFind
  <2> QED BY <1>2, <2>1 DEF Get, tableVars
<1>3. ASSUME NEW c \in Calls, Select(c) PROVE Goal
  BY <1>3 DEF Select, tableVars
<1>4. ASSUME NEW c \in Calls, NEW sharing \in SUBSET Calls, Fill(c, sharing)
      PROVE  Goal
  BY <1>4, FillIsExplained
<1>5. ASSUME NEW c \in Calls, SetStock(c) PROVE Goal
  BY <1>5 DEF SetStock, tableVars
<1>6. ASSUME NEW c \in Calls, CallFails(c) PROVE Goal
  BY <1>6 DEF CallFails, tableVars
<1>7. ASSUME NEW total \in Totals \cup {Absent}, EditByHand(total) PROVE Goal
  BY <1>7 DEF EditByHand
<1>8. ASSUME NEW total \in Totals, Insert(total) PROVE Goal
  BY <1>8 DEF Insert
<1>9. ASSUME NEW total \in Totals, Update(total) PROVE Goal
  BY <1>9 DEF Update
<1>10. CASE Delete
  BY <1>10 DEF Delete
<1>11. CASE Invalidate
  BY <1>11, InvalidateIsExplained
<1>12. CASE InvalidateFails
  BY <1>12 DEF InvalidateFails
<1>13. CASE Expire
  BY <1>13 DEF Expire, tableVars, callVars
<1>14. CASE UNCHANGED vars
  BY <1>14 DEF vars, tableVars, callVars
<1> QED BY <1>1, <1>2, <1>3, <1>4, <1>5, <1>6, <1>7, <1>8, <1>9, <1>10, <1>11,
           <1>12, <1>13, <1>14 DEF Next, Step

-----------------------------------------------------------------------------
\* A cached row that differs from the table always has one of the known causes,
\* however many calls and edits interleave: between Exec and the deletion of its
\* key, after a deletion that failed, after a statement past the cache, and after
\* a call that had read before the change and filled the cache after it.
THEOREM StaleEntriesExplained == Spec => []StaleEntryExplained
<1>1. ASSUME Init PROVE IInv
  <2>1. TypeInv
    BY <1>1, InitTypes
  <2>2. FillsArePresent /\ StaleEntryExplained
    BY <1>1 DEF Init, FillsArePresent, StaleEntryExplained
  <2> QED BY <2>1, <2>2 DEF IInv
<1>2. IInv /\ [Next]_vars => IInv'
  BY TypeStep, ExplainedStep DEF IInv
<1>3. IInv => StaleEntryExplained
  BY DEF IInv
<1> QED BY <1>1, <1>2, <1>3, PTL DEF Spec
=============================================================================
