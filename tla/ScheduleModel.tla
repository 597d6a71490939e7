---------------------------- MODULE ScheduleModel ---------------------------
(***************************************************************************)
(* Where PreloadSchedule gets its number from: one row of the table        *)
(* schedule, read through the row cache of scheduleModel.FindOne, by calls *)
(* in any number of RPC processes.  The table is edited by hand (init.sql  *)
(* is the only writer in the repository) or through the model's Insert,    *)
(* Update and Delete, which no code calls yet.                             *)
(***************************************************************************)
EXTENDS Naturals

CONSTANTS
    Calls,      (* calls of PreloadSchedule for this schedule              *)
    Totals,     (* values of total_slots                                   *)
    Absent,     (* no such row; in the cache, the placeholder of go-zero   *)
    None,       (* no such Redis key                                       *)
    MaxEdits,   (* bound: how often the table is edited                    *)
    MaxFaults   (* bound: how often Redis or MySQL fails                   *)

ASSUME ScheduleModelAssumption ==
    /\ Absent \notin Totals /\ None \notin Totals /\ Absent # None
    /\ MaxEdits \in Nat /\ MaxFaults \in Nat

VARIABLES
    row,        (* total_slots of the row                                  *)
    entry,      (* cache:schedule:id:<id>                                  *)
    stock,      (* reserve:slots:<id>                                      *)
    pc,         (* where each call is                                      *)
    found,      (* what its FindOne has read                               *)
    deleting,   (* an Update or Delete has yet to delete the cache key     *)
    excused,    (* history: why the entry may differ from the row, if so   *)
    edits,      (* edits of the table so far                               *)
    faults      (* faults so far                                           *)

tableVars == <<row, deleting, edits>>
callVars == <<pc, found>>
vars == <<tableVars, callVars, entry, stock, excused, faults>>

TypeOK ==
    /\ row \in Totals \cup {Absent}
    /\ entry \in Totals \cup {Absent, None}
    /\ stock \in Totals \cup {None}
    /\ pc \in [Calls -> {"idle", "get", "select", "fill", "set"}]
    /\ found \in [Calls -> Totals \cup {Absent, None}]
    /\ deleting \in BOOLEAN /\ excused \in BOOLEAN
    /\ edits \in 0 .. MaxEdits /\ faults \in 0 .. MaxFaults

-----------------------------------------------------------------------------
Init ==
    /\ row = Absent
    /\ entry = None
    /\ stock = None
    /\ pc = [c \in Calls |-> "idle"]
    /\ found = [c \in Calls |-> None]
    /\ deleting = FALSE
    /\ excused = FALSE
    /\ edits = 0
    /\ faults = 0

Fault ==
    /\ faults < MaxFaults
    /\ faults' = faults + 1

-----------------------------------------------------------------------------
(* PreloadSchedule and FindOne.                                             *)

\* Variant: PreloadSchedule does not look at ErrNotFound.
AfterFindUnchecked(total) == "set"

\* ErrNotFound is answered 4004; otherwise the stock is set.
AfterFind(total) == IF total = Absent THEN "idle" ELSE "set"

Call(c) ==
    /\ pc[c] = "idle"
    /\ pc' = [pc EXCEPT ![c] = "get"]
    /\ UNCHANGED <<tableVars, found, entry, stock, excused, faults>>

Get(c) ==
    /\ pc[c] = "get"
    /\ pc' = [pc EXCEPT ![c] = IF entry = None THEN "select" ELSE AfterFind(entry)]
    /\ found' = [found EXCEPT ![c] = entry]
    /\ UNCHANGED <<tableVars, entry, stock, excused, faults>>

Select(c) ==
    /\ pc[c] = "select"
    /\ pc' = [pc EXCEPT ![c] = "fill"]
    /\ found' = [found EXCEPT ![c] = row]
    /\ UNCHANGED <<tableVars, entry, stock, excused, faults>>

\* The row goes into the cache, or a placeholder if nothing else is there; a
\* failing Redis is only logged.  Calls of the same process that came meanwhile
\* share the result without having looked for themselves.
Fill(c, sharing) ==
    /\ pc[c] = "fill"
    /\ sharing \subseteq {d \in Calls : pc[d] = "get"}
    /\ pc' = [d \in Calls |->
                 IF d \in sharing \cup {c} THEN AfterFind(found[c]) ELSE pc[d]]
    /\ found' = [d \in Calls |-> IF d \in sharing THEN found[c] ELSE found[d]]
    /\ \/ /\ entry' = IF found[c] = Absent /\ entry # None THEN entry ELSE found[c]
          /\ UNCHANGED faults
       \/ UNCHANGED entry /\ Fault
    /\ UNCHANGED <<tableVars, stock, excused>>

SetStock(c) ==
    /\ pc[c] = "set"
    /\ pc' = [pc EXCEPT ![c] = "idle"]
    /\ stock' = found[c]
    /\ UNCHANGED <<tableVars, found, entry, excused, faults>>

\* Redis or MySQL fails, and the error goes to the caller.
CallFails(c) ==
    /\ pc[c] \in {"get", "select", "set"}
    /\ pc' = [pc EXCEPT ![c] = "idle"]
    /\ Fault
    /\ UNCHANGED <<tableVars, found, entry, stock, excused>>

-----------------------------------------------------------------------------
(* The table, and the key that Exec deletes after the statement.            *)

Edit(total) ==
    /\ edits < MaxEdits
    /\ edits' = edits + 1
    /\ row' = total
    /\ UNCHANGED <<callVars, entry, stock, faults>>

\* Statements outside the program, which know nothing of the cache.
EditByHand(total) ==
    /\ Edit(total)
    /\ excused' = TRUE
    /\ UNCHANGED deleting

\* The id is assigned by MySQL; the key that is deleted is made from data.Id,
\* which is not that id.
Insert(total) ==
    /\ row = Absent
    /\ Edit(total)
    /\ excused' = TRUE
    /\ UNCHANGED deleting

\* One call of Update or Delete at a time.
Update(total) ==
    /\ ~deleting
    /\ Edit(IF row = Absent THEN Absent ELSE total)
    /\ deleting' = TRUE
    /\ UNCHANGED excused

Delete ==
    /\ ~deleting
    /\ Edit(Absent)
    /\ deleting' = TRUE
    /\ UNCHANGED excused

\* Variant: Exec is called without the key.
InvalidateNothing ==
    /\ deleting
    /\ deleting' = FALSE
    /\ excused' = (\E c \in Calls : pc[c] = "fill" /\ found[c] # row)
    /\ UNCHANGED <<row, edits, callVars, entry, stock, faults>>

\* A call that has selected the old row, and not put it into the cache yet, will
\* do so after the key is gone.
Invalidate ==
    /\ deleting
    /\ deleting' = FALSE
    /\ entry' = None
    /\ excused' = (\E c \in Calls : pc[c] = "fill" /\ found[c] # row)
    /\ UNCHANGED <<row, edits, callVars, stock, faults>>

InvalidateFails ==
    /\ deleting
    /\ deleting' = FALSE
    /\ excused' = TRUE
    /\ Fault
    /\ UNCHANGED <<row, edits, callVars, entry, stock>>

\* Variant: placeholders are stored without a time to live.
ExpireRowsOnly ==
    /\ entry \notin {None, Absent}
    /\ entry' = None
    /\ UNCHANGED <<tableVars, callVars, stock, excused, faults>>

Expire ==
    /\ entry # None
    /\ entry' = None
    /\ UNCHANGED <<tableVars, callVars, stock, excused, faults>>

-----------------------------------------------------------------------------
Step(c) ==
    \/ Get(c) \/ Select(c)
    \/ \E sharing \in SUBSET Calls : Fill(c, sharing)
    \/ SetStock(c)

Next ==
    \/ \E c \in Calls : Call(c) \/ Step(c) \/ CallFails(c)
    \/ \E total \in Totals \cup {Absent} : EditByHand(total)
    \/ \E total \in Totals : Insert(total) \/ Update(total)
    \/ Delete
    \/ Invalidate \/ InvalidateFails
    \/ Expire

Spec == Init /\ [][Next]_vars

\* Calls go on, keys are deleted, and they expire.
Fairness ==
    /\ \A c \in Calls : WF_vars(Step(c))
    /\ WF_vars(Invalidate)
    /\ WF_vars(Expire)

FairSpec == Spec /\ Fairness

-----------------------------------------------------------------------------
(* Properties.                                                              *)

\* A cached row that differs from the table has one of the known causes: Exec has
\* yet to delete the key, or failed to, or the table was changed past the cache,
\* or a call that had read before the change filled the cache after the deletion.
StaleEntryExplained == entry \in {None, row} \/ deleting \/ excused

\* The placeholder of a row that was missing, a stale entry and a slow call that
\* sets the stock last put off a change of the table, but do not keep it away
\* for good: once the table is left alone, preloads that keep coming set the
\* stock to the row's total, and it stays so.
StockCatchesUp ==
    []<>(\E c \in Calls : pc[c] = "get") => <>[](row = Absent \/ stock = row)
=============================================================================
