------------------------------ MODULE Records -------------------------------
(***************************************************************************)
(* What every plain list of the institution shares: documents created,     *)
(* changed, deleted softly and restored, one field of theirs unique among  *)
(* those not deleted, their number under the plan's ceiling, and a number  *)
(* generated where none is typed.  The staff list uses all of it.          *)
(* Source: app/core/crud.py, app/db/repository.py, and the numbering of    *)
(* app/modules/people.                                                     *)
(*                                                                         *)
(* `refused` and `restored` are history variables: the generated numbers   *)
(* that were turned down as duplicates, and whether a deleted document was *)
(* ever brought back.                                                      *)
(***************************************************************************)
EXTENDS Requests

CONSTANTS Files,        \* bound: ids of documents
          Numbers,      \* bound: values of the unique field, 1 .. n
          Filed,        \* bound: the documents there are, by number
          Ceiling,      \* the plan's limit on the list
          MaxAttempts   \* numbers tried before a generator gives up

ASSUME RecordsAssumption ==
    /\ Numbers \subseteq Nat \ {0} /\ Filed \subseteq Files \cap Numbers
    /\ Ceiling \in Nat /\ MaxAttempts \in Nat
    /\ IsFiniteSet(Filed) /\ Cardinality(Filed) <= Ceiling

VARIABLES file,      \* the collection: a partial function
          issued,    \* counters: the last number given out
          refused, restored

records == <<file, issued, refused, restored>>

-----------------------------------------------------------------------------
File(f)   == <<"file", f>>
Number(n) == <<"number", n>>
List      == <<"list", "staff">>

Kept == {f \in DOMAIN file : file[f].live}

\* Repository.exists, and the unique index on documents not deleted.
Taken(n, f) == \E g \in Kept \ {f} : file[g].number = n

RoomForOne == Cardinality(Kept) <= Ceiling

\* What enforce_limit asks of a creation.
RoomFor == Cardinality(Kept) < Ceiling

-----------------------------------------------------------------------------
(* create_item.  The ceiling is looked at first, then the number generated *)
(* if none was typed, then looked for, then the document stored.           *)

BeginCreate(h, f, n) ==
    /\ f \notin DOMAIN file /\ New(h, File(f))
    /\ RoomFor
    /\ Begin(h, "create", IF n = 0 THEN "next number" ELSE "unique",
             [claims |-> {File(f), List, Number(n)}, file |-> f, number |-> n,
              tries |-> 0, made |-> n = 0, then |-> "insert record"])
    /\ UNCHANGED records

NextNumber(h) ==
    /\ pc[h] = "next number"
    /\ issued + 1 \in Numbers                       \* bound
    /\ issued' = issued + 1
    /\ TakeOn(h, "is it free",
              [req[h] EXCEPT !.number = issued + 1, !.tries = req[h].tries + 1,
                             !.claims = req[h].claims \cup {Number(issued + 1)}])
    /\ UNCHANGED <<file, refused, restored>>

\* A number typed in, or imported, is stepped over.
IsFree(h) ==
    /\ pc[h] = "is it free"
    /\ IF ~Taken(req[h].number, req[h].file) THEN Goto(h, "unique")
       ELSE IF req[h].tries < MaxAttempts THEN Goto(h, "next number")
       ELSE Finish(h)
    /\ UNCHANGED records

Refuse(h) ==
    /\ refused' = refused \cup (IF req[h].made THEN {req[h].number} ELSE {})
    /\ Finish(h)
    /\ UNCHANGED <<file, issued, restored>>

CheckUnique(h) ==
    /\ pc[h] = "unique"
    /\ IF Taken(req[h].number, req[h].file) THEN Refuse(h)
       ELSE Goto(h, req[h].then) /\ UNCHANGED records

InsertRecord(h) ==
    /\ pc[h] = "insert record"
    /\ IF Taken(req[h].number, req[h].file) THEN Refuse(h)
       ELSE /\ file' = With(file, req[h].file,
                            [number |-> req[h].number, live |-> TRUE])
            /\ Finish(h)
            /\ UNCHANGED <<issued, refused, restored>>

-----------------------------------------------------------------------------
(* update_item.                                                            *)

BeginUpdate(h, f, n) ==
    /\ f \in Kept
    /\ Begin(h, "update", "unique",
             [claims |-> {File(f), Number(n)}, file |-> f, number |-> n,
              made |-> FALSE, then |-> "write record"])
    /\ UNCHANGED records

\* By id among those not deleted: gone meanwhile, it is not found.
WriteRecord(h) ==
    /\ pc[h] = "write record"
    /\ LET f == req[h].file IN
       IF f \notin Kept \/ Taken(req[h].number, f) THEN UNCHANGED file
       ELSE file' = [file EXCEPT ![f].number = req[h].number]
    /\ Finish(h)
    /\ UNCHANGED <<issued, refused, restored>>

-----------------------------------------------------------------------------
(* delete_item, bulk_delete and restore_item.                              *)

BeginErase(h, fs) ==
    /\ fs # {} /\ fs \subseteq DOMAIN file
    /\ Begin(h, "erase", "erase", [claims |-> {File(f) : f \in fs}, left |-> fs])
    /\ UNCHANGED records

\* One after another; those already gone are passed over.
Erase(h) ==
    /\ pc[h] = "erase"
    /\ \E f \in req[h].left :
         /\ file' = [file EXCEPT ![f].live = FALSE]
         /\ IF req[h].left = {f} THEN Finish(h)
            ELSE Carry(h, "erase", [req[h] EXCEPT !.left = req[h].left \ {f}])
    /\ UNCHANGED <<issued, refused, restored>>

\* Neither the ceiling nor check_unique is asked again; the index is.
BringBack(h, f) ==
    /\ f \in DOMAIN file /\ ~Taken(file[f].number, f)
    /\ Once(h, "bring back", {File(f), List, Number(file[f].number)})
    /\ file' = [file EXCEPT ![f].live = TRUE]
    /\ restored' = TRUE
    /\ UNCHANGED <<issued, refused>>

-----------------------------------------------------------------------------
\* What was imported or typed in brought its own numbers.
RecordsInit == /\ file = [f \in Filed |-> [number |-> f, live |-> TRUE]] /\ issued = 0
               /\ refused = {} /\ restored = FALSE

RecordsArrive(h) ==
    Open(h) /\
      \/ \E f \in Files, n \in Numbers \cup {0} :
           BeginCreate(h, f, n) \/ (n # 0 /\ BeginUpdate(h, f, n))
      \/ \E fs \in SUBSET Files : BeginErase(h, fs)
      \/ \E f \in Files : BringBack(h, f)

RecordsResume(h) == \/ NextNumber(h) \/ IsFree(h) \/ CheckUnique(h)
                    \/ InsertRecord(h) \/ WriteRecord(h) \/ Erase(h)

RecordsStep(h) == RecordsArrive(h) \/ RecordsResume(h)

-----------------------------------------------------------------------------
(* What the module promises.                                               *)

\* A list stays in order: no number twice among the documents not deleted,
\* not past the plan's ceiling unless two creations met or one came back from
\* the deleted, and a number the system made up itself is never turned down
\* as a duplicate, unless somebody else was using that very number just then.
ListInOrder ==
    /\ \A f, g \in Kept : file[f].number = file[g].number => f = g
    /\ Calm(List) /\ ~restored => Cardinality(Kept) <= Ceiling
    /\ \A n \in refused : Number(n) \in disturbed
=============================================================================
