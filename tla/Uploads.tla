------------------------------- MODULE Uploads -------------------------------
(***************************************************************************)
(* PDF uploads: CreatePDF and Delete of internal/logic/document over the   *)
(* file store and the extractor of pkg/upload, and the cleanup loops of    *)
(* the workers (cleanupUploads, pkg/upload/cleanup.go), which share a      *)
(* volume with the API and only see its files and the documents table.     *)
(*                                                                         *)
(* An upload has a random key under .tmp and another one under documents;  *)
(* its identity stands for both, and for the row of documents that its     *)
(* INSERT adds.  Renaming keeps the modification time, so the age of a     *)
(* file counts from the last write of SaveTemp.  Time is not counted:      *)
(* overTemp and overOrphan hold the uploads whose file is by now older     *)
(* than TempGrace and OrphanGrace.  Nothing is assumed of TempGrace;       *)
(* OrphanOld says what is assumed of OrphanGrace.                          *)
(***************************************************************************)
EXTENDS Naturals, FiniteSets

CONSTANTS
  Uploads,        \* calls of CreatePDF
  Cleaners,       \* cleanup loops, one of each worker process
  Slots,          \* extractions at a time
  MaxFaults       \* bound: failures in one behaviour

ASSUME UploadsAssumption ==
  /\ IsFiniteSet(Uploads)
  /\ Slots \in Nat \ {0} /\ MaxFaults \in Nat

VARIABLES
  temp, final,    \* the uploads with a file under .tmp, under documents
  row,            \* row[u]: the row of u in documents
  pc,             \* pc[u]: where CreatePDF stands
  unlinking,      \* deleted documents whose request has yet to remove the file
  overTemp, overOrphan,
  late,           \* uploads whose INSERT outlives the process that sent it
  unsure,         \* history: uploads whose INSERT was answered with an error
  at,             \* at[w]: where the cleanup loop stands
  referenced,     \* referenced[w]: the result of its query
  aged,           \* aged[w]: overOrphan when it read its clock
  todo,           \* todo[w]: listed files it has yet to delete
  faults          \* failures so far

files    == <<temp, final>>
ages     == <<overTemp, overOrphan>>
requests == <<pc, unlinking>>
database == <<row, late, unsure>>
cleanup  == <<at, referenced, aged, todo>>
vars     == <<files, ages, requests, database, cleanup, faults>>

TypeOK ==
  /\ temp \subseteq Uploads /\ final \subseteq Uploads
  /\ row \in [Uploads -> {"absent", "live", "deleted"}]
  /\ pc \in [Uploads -> {"new", "save", "slot", "extract", "promote", "insert",
                         "dropTemp", "dropFinal", "over"}]
  /\ unlinking \subseteq Uploads
  /\ overTemp \subseteq Uploads /\ overOrphan \subseteq Uploads
  /\ late \subseteq Uploads /\ unsure \subseteq Uploads
  /\ at \in [Cleaners -> {"idle", "loaded", "temp", "final"}]
  /\ referenced \in [Cleaners -> SUBSET Uploads]
  /\ aged \in [Cleaners -> SUBSET Uploads]
  /\ todo \in [Cleaners -> SUBSET Uploads]
  /\ faults \in Nat

Init ==
  /\ temp = {} /\ final = {}
  /\ row = [u \in Uploads |-> "absent"] /\ pc = [u \in Uploads |-> "new"]
  /\ unlinking = {} /\ overTemp = {} /\ overOrphan = {}
  /\ late = {} /\ unsure = {}
  /\ at = [w \in Cleaners |-> "idle"]
  /\ referenced = [w \in Cleaners |-> {}]
  /\ aged = [w \in Cleaners |-> {}] /\ todo = [w \in Cleaners |-> {}]
  /\ faults = 0

NoFault == UNCHANGED faults
Fault   == faults < MaxFaults /\ faults' = faults + 1

-----------------------------------------------------------------------------
(* CreatePDF. *)

Goto(u, from, to) ==
  pc[u] = from /\ pc' = [pc EXCEPT ![u] = to] /\ UNCHANGED unlinking

\* SaveTemp creates the file.
OpenTemp(u) ==
  /\ Goto(u, "new", "save") /\ NoFault
  /\ temp' = temp \cup {u}
  /\ UNCHANGED <<final, ages, database, cleanup>>

\* Another piece of the request body.  A file that a cleanup removed has no
\* name any more, and the write does not bring it back.
WriteTemp(u) ==
  /\ pc[u] = "save" /\ u \in temp
  /\ overTemp' = overTemp \ {u}
  /\ UNCHANGED <<files, overOrphan, requests, database, cleanup, faults>>

\* The file is complete, or too large, or the client has gone.
EndSave(u) ==
  /\ Goto(u, "save", "slot") \/ Goto(u, "save", "dropTemp")
  /\ UNCHANGED <<files, ages, database, cleanup, faults>>

\* acquire, unless the header is wrong, no slot is free in time or the client
\* has gone.
AcquireSlot(u) ==
  /\ \/ /\ Cardinality({v \in Uploads : pc[v] = "extract"}) < Slots
        /\ Goto(u, "slot", "extract")
     \/ Goto(u, "slot", "dropTemp")
  /\ UNCHANGED <<files, ages, database, cleanup, faults>>

\* The text, or one of the many errors of pdfinfo and pdftotext.
Extract(u) ==
  /\ Goto(u, "extract", "promote") \/ Goto(u, "extract", "dropTemp")
  /\ UNCHANGED <<files, ages, database, cleanup, faults>>

\* os.Rename; it fails when the file is gone, and for reasons of its own.
Promote(u) ==
  /\ \/ /\ u \in temp /\ Goto(u, "promote", "insert") /\ NoFault
        /\ temp' = temp \ {u} /\ final' = final \cup {u}
     \/ /\ Goto(u, "promote", "dropTemp")
        /\ \/ u \notin temp /\ NoFault
           \/ Fault
        /\ UNCHANGED files
  /\ UNCHANGED <<ages, database, cleanup>>

Insert(u) ==
  /\ Goto(u, "insert", "over") /\ NoFault
  /\ row' = [row EXCEPT ![u] = "live"]
  /\ UNCHANGED <<files, ages, late, unsure, cleanup>>

\* An error instead of the reply: the row was not inserted, was inserted, or
\* will be.
InsertError(u) ==
  /\ Goto(u, "insert", "dropFinal") /\ Fault
  /\ unsure' = unsure \cup {u}
  /\ \/ UNCHANGED <<row, late>>
     \/ row' = [row EXCEPT ![u] = "live"] /\ UNCHANGED late
     \/ late' = late \cup {u} /\ UNCHANGED row
  /\ UNCHANGED <<files, ages, cleanup>>

\* The database runs an INSERT whose client is gone.
RunLate(u) ==
  /\ u \in late /\ late' = late \ {u}
  /\ row' = [row EXCEPT ![u] = "live"]
  /\ UNCHANGED <<files, ages, requests, unsure, cleanup, faults>>

\* The deferred removals; one that fails is only logged.
DropTemp(u) ==
  /\ Goto(u, "dropTemp", "over")
  /\ \/ temp' = temp \ {u} /\ NoFault
     \/ UNCHANGED temp /\ Fault
  /\ UNCHANGED <<final, ages, database, cleanup>>

DropFinal(u) ==
  /\ Goto(u, "dropFinal", "over")
  /\ \/ final' = final \ {u} /\ NoFault
     \/ UNCHANGED final /\ Fault
  /\ UNCHANGED <<temp, ages, database, cleanup>>

-----------------------------------------------------------------------------
(* Delete: a transaction (ParseApi shows its statements), then the file. *)

DeleteDocument(u) ==
  /\ row[u] = "live"
  /\ row' = [row EXCEPT ![u] = "deleted"]
  /\ unlinking' = unlinking \cup {u}
  /\ UNCHANGED <<files, ages, pc, late, unsure, cleanup, faults>>

Unlink(u) ==
  /\ u \in unlinking /\ unlinking' = unlinking \ {u}
  /\ \/ final' = final \ {u} /\ NoFault
     \/ UNCHANGED final /\ Fault
  /\ UNCHANGED <<temp, ages, pc, database, cleanup>>

\* The API process dies with all its requests.
Crash ==
  /\ Fault
  /\ pc' = [u \in Uploads |-> IF pc[u] = "new" THEN "new" ELSE "over"]
  /\ unlinking' = {}
  /\ \E sent \in SUBSET {u \in Uploads : pc[u] = "insert"} : late' = late \cup sent
  /\ UNCHANGED <<files, ages, row, unsure, cleanup>>

-----------------------------------------------------------------------------
(* cleanupUploads. *)

LiveDocuments == {u \in Uploads : row[u] = "live"}

\* Mutant: the query also returns the rows that are soft-deleted.
LoadReferencesUnscoped(w) ==
  /\ at[w] = "idle" /\ at' = [at EXCEPT ![w] = "loaded"]
  /\ referenced' = [referenced EXCEPT ![w] = {u \in Uploads : row[u] # "absent"}]
  /\ UNCHANGED <<files, ages, requests, database, aged, todo, faults>>

\* The query; when it fails nothing is deleted and the loop waits.
LoadReferences(w) ==
  /\ at[w] = "idle" /\ at' = [at EXCEPT ![w] = "loaded"]
  /\ referenced' = [referenced EXCEPT ![w] = LiveDocuments]
  /\ UNCHANGED <<files, ages, requests, database, aged, todo, faults>>

\* Listing fails when a file vanishes in the middle of it, and for reasons of
\* its own.
ListFails(w) ==
  \/ NoFault /\ (\/ unlinking # {}
                 \/ \E u \in Uploads : pc[u] \in {"promote", "dropTemp", "dropFinal"}
                 \/ \E v \in Cleaners \ {w} : todo[v] # {})
  \/ Fault

\* The clock is read, then .tmp is listed.
ListTemp(w) ==
  /\ at[w] = "loaded" /\ at' = [at EXCEPT ![w] = "temp"]
  /\ aged' = [aged EXCEPT ![w] = overOrphan]
  /\ \/ todo' = [todo EXCEPT ![w] = temp \cap overTemp] /\ NoFault
     \/ todo' = [todo EXCEPT ![w] = {}] /\ ListFails(w)
  /\ UNCHANGED <<files, ages, requests, database, referenced>>

\* A file that cannot be deleted is left for the next round.
RemoveTemp(w, u) ==
  /\ at[w] = "temp" /\ u \in todo[w]
  /\ todo' = [todo EXCEPT ![w] = @ \ {u}]
  /\ \/ temp' = temp \ {u} /\ NoFault
     \/ UNCHANGED temp /\ Fault
  /\ UNCHANGED <<final, ages, requests, database, at, referenced, aged>>

\* Mutant: the ages are those of the listing, after the query and the clock.
ListFinalAged(w) ==
  /\ at[w] = "temp" /\ todo[w] = {} /\ at' = [at EXCEPT ![w] = "final"]
  /\ \/ todo' = [todo EXCEPT ![w] = (final \cap overOrphan) \ referenced[w]] /\ NoFault
     \/ UNCHANGED todo /\ ListFails(w)
  /\ UNCHANGED <<files, ages, requests, database, referenced, aged>>

ListFinal(w) ==
  /\ at[w] = "temp" /\ todo[w] = {} /\ at' = [at EXCEPT ![w] = "final"]
  /\ \/ todo' = [todo EXCEPT ![w] = (final \cap aged[w]) \ referenced[w]] /\ NoFault
     \/ UNCHANGED todo /\ ListFails(w)
  /\ UNCHANGED <<files, ages, requests, database, referenced, aged>>

RemoveFinal(w, u) ==
  /\ at[w] = "final" /\ u \in todo[w]
  /\ todo' = [todo EXCEPT ![w] = @ \ {u}]
  /\ \/ final' = final \ {u} /\ NoFault
     \/ UNCHANGED final /\ Fault
  /\ UNCHANGED <<temp, ages, requests, database, at, referenced, aged>>

\* The round is over, or the worker process died in the middle of it.
EndRound(w) ==
  /\ \/ at[w] = "final" /\ todo[w] = {} /\ NoFault
     \/ at[w] # "idle" /\ Fault
  /\ at' = [at EXCEPT ![w] = "idle"]
  /\ referenced' = [referenced EXCEPT ![w] = {}]
  /\ aged' = [aged EXCEPT ![w] = {}] /\ todo' = [todo EXCEPT ![w] = {}]
  /\ UNCHANGED <<files, ages, requests, database>>

-----------------------------------------------------------------------------
(* Time. *)

TempOld(u) ==
  /\ u \in temp \ overTemp /\ overTemp' = overTemp \cup {u}
  /\ UNCHANGED <<files, overOrphan, requests, database, cleanup, faults>>

InFlight(u) == pc[u] \notin {"new", "over"} \/ u \in late

\* OrphanGrace (a day unless configured) is longer than an upload takes after
\* its last write, the query of a cleanup included that missed its row.
OrphanOld(u) ==
  /\ u \in (temp \cup final) \ overOrphan
  /\ ~InFlight(u)
  /\ \A w \in Cleaners : at[w] = "loaded" /\ row[u] = "live" => u \in referenced[w]
  /\ overOrphan' = overOrphan \cup {u}
  /\ UNCHANGED <<files, overTemp, requests, database, cleanup, faults>>

-----------------------------------------------------------------------------
CreatePDF(u) ==
  \/ OpenTemp(u) \/ WriteTemp(u) \/ EndSave(u) \/ AcquireSlot(u) \/ Extract(u)
  \/ Promote(u) \/ Insert(u) \/ InsertError(u) \/ DropTemp(u) \/ DropFinal(u)

Cleanup(w) ==
  \/ LoadReferences(w) \/ ListTemp(w) \/ ListFinal(w) \/ EndRound(w)
  \/ \E u \in Uploads : RemoveTemp(w, u) \/ RemoveFinal(w, u)

Next ==
  \/ \E u \in Uploads :
       \/ CreatePDF(u) \/ RunLate(u) \/ DeleteDocument(u) \/ Unlink(u)
       \/ TempOld(u) \/ OrphanOld(u)
  \/ \E w \in Cleaners : Cleanup(w)
  \/ Crash

Spec == Init /\ [][Next]_vars

\* Requests and rounds of the cleanup go on, and files grow old.
Fairness ==
  /\ \A u \in Uploads :
       /\ WF_vars(EndSave(u) \/ AcquireSlot(u) \/ Extract(u) \/ Promote(u) \/ Insert(u)
                    \/ DropTemp(u) \/ DropFinal(u))
       /\ WF_vars(RunLate(u)) /\ WF_vars(Unlink(u))
       /\ WF_vars(TempOld(u)) /\ WF_vars(OrphanOld(u))
  /\ \A w \in Cleaners : WF_vars(Cleanup(w))

FairSpec == Spec /\ Fairness

-----------------------------------------------------------------------------
(* A document keeps its file: cleanups with an old list of references,     *)
(* crashes and INSERTs that come late never take it away.  The exception   *)
(* is CreatePDF itself, which removes the file when the INSERT returns an  *)
(* error, and then the row may be there all the same.                      *)
DocumentsKeepFiles ==
  \A u \in Uploads : row[u] = "live" /\ u \notin unsure => u \in final

(* Every file without a live document goes in the end, as                  *)
(* docs/deployment.md:80 says of deleted documents: what a crash or a      *)
(* failed removal leaves is left to the cleanup loop.                      *)
OrphansGo ==
  \A u \in Uploads :
    (u \in temp \cup final /\ row[u] # "live")
      ~> (u \notin temp \cup final \/ row[u] = "live")
=============================================================================
