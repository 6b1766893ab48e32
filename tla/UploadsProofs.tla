---------------------------- MODULE UploadsProofs ----------------------------
(***************************************************************************)
(* Proofs about Uploads, for any number of uploads and of cleanup loops.   *)
(*                                                                         *)
(* A document keeps its file because whoever removes a final file knows    *)
(* that no document can need it any more (Dead), and Dead is stable.  The  *)
(* request that deletes a document knows it from its commit, a cleanup     *)
(* from three facts taken together: the file was old when the clock was    *)
(* read, so its upload was over when the query ran, and the query did not  *)
(* return it.                                                              *)
(***************************************************************************)
EXTENDS Uploads, TLAPS

Dead(u) ==
  \/ row[u] = "deleted"
  \/ u \in unsure
  \/ row[u] = "absent" /\ pc[u] = "over" /\ u \notin late

\* What CreatePDF knows of its files and of its row at each point.
UploadInv ==
  \A u \in Uploads :
    /\ pc[u] \notin {"over", "dropFinal"} => row[u] = "absent" /\ u \notin late \cup unsure
    /\ pc[u] = "new" => u \notin temp \cup final
    /\ pc[u] = "insert" => u \in final
    /\ pc[u] = "dropFinal" => u \in unsure

\* What holds of a row that is still to come, and of one that has gone.
RowInv ==
  \A u \in Uploads :
    /\ u \in late => row[u] = "absent" /\ (u \in unsure \/ u \in final)
    /\ u \in unlinking => row[u] = "deleted"

\* What a cleanup may conclude from its clock and its list of references.
RoundInv ==
  /\ \A u \in overOrphan : pc[u] = "over" /\ u \notin late
  /\ \A w \in Cleaners, u \in Uploads :
       /\ at[w] = "loaded" /\ u \in overOrphan \ referenced[w] => Dead(u)
       /\ at[w] = "temp" /\ u \in aged[w] \ referenced[w] => Dead(u)
       /\ at[w] = "final" /\ u \in todo[w] => Dead(u)

Inv == TypeOK /\ UploadInv /\ RowInv /\ RoundInv /\ DocumentsKeepFiles

-----------------------------------------------------------------------------
(* At the start there are no files, no rows and no rounds. *)
LEMMA InitInv == Init => Inv
  BY DEF Init, Inv, TypeOK, UploadInv, RowInv, RoundInv, DocumentsKeepFiles, Dead

(* No step of a request, of a cleanup or of time breaks the types. *)
LEMMA NextType == TypeOK /\ [Next]_vars => TypeOK'
  <1>0. SUFFICES ASSUME TypeOK, [Next]_vars PROVE TypeOK'
    OBVIOUS
  <1>f. \A n \in Nat : MaxFaults \in Nat /\ n + 1 \in Nat
    BY UploadsAssumption
  <1> USE <1>0, <1>f DEF TypeOK, NoFault, Fault, Goto, files, ages, requests, database, cleanup
  <1>1. ASSUME NEW u \in Uploads, CreatePDF(u) PROVE TypeOK'
    <2>1. CASE OpenTemp(u) \/ WriteTemp(u) \/ EndSave(u) \/ AcquireSlot(u) \/ Extract(u)
      BY <2>1 DEF OpenTemp, WriteTemp, EndSave, AcquireSlot, Extract
    <2>2. CASE Promote(u) \/ DropTemp(u) \/ DropFinal(u)
      BY <2>2 DEF Promote, DropTemp, DropFinal
    <2>3. CASE Insert(u) \/ InsertError(u)
      BY <2>3 DEF Insert, InsertError
    <2>4. QED
      BY <1>1, <2>1, <2>2, <2>3 DEF CreatePDF
  <1>2. ASSUME NEW u \in Uploads,
               RunLate(u) \/ DeleteDocument(u) \/ Unlink(u) \/ TempOld(u) \/ OrphanOld(u)
        PROVE TypeOK'
    BY <1>2 DEF RunLate, DeleteDocument, Unlink, TempOld, OrphanOld
  <1>3. ASSUME NEW w \in Cleaners, Cleanup(w) PROVE TypeOK'
    <2>1. CASE LoadReferences(w)
      BY <2>1 DEF LoadReferences, LiveDocuments
    <2>2. CASE ListTemp(w)
      BY <2>2 DEF ListTemp, ListFails
    <2>3. CASE ListFinal(w)
      BY <2>3 DEF ListFinal, ListFails
    <2>4. CASE EndRound(w)
      BY <2>4 DEF EndRound
    <2>5. ASSUME NEW u \in Uploads, RemoveTemp(w, u) \/ RemoveFinal(w, u) PROVE TypeOK'
      BY <2>5 DEF RemoveTemp, RemoveFinal
    <2>6. QED
      BY <1>3, <2>1, <2>2, <2>3, <2>4, <2>5 DEF Cleanup
  <1>4. CASE Crash
    BY <1>4 DEF Crash
  <1>5. CASE UNCHANGED vars
    BY <1>5 DEF vars
  <1>6. QED
    BY <1>1, <1>2, <1>3, <1>4, <1>5 DEF Next

(* TypeOK holds in every behaviour. *)
THEOREM TypeCorrect == Spec => []TypeOK
  <1>1. Init => TypeOK
    BY InitInv DEF Inv
  <1>2. QED
    BY <1>1, NextType, PTL DEF Spec

-----------------------------------------------------------------------------
(* A file that no document can need any more stays such: a deleted row is  *)
(* not inserted again, and a CreatePDF that is over sends nothing more.    *)
LEMMA DeadStable ==
  ASSUME Inv, [Next]_vars, NEW u \in Uploads, Dead(u)
  PROVE  Dead(u)'
  <1> USE DEF Inv, TypeOK, UploadInv, RowInv, Dead, Goto, requests, database
  <1>1. ASSUME NEW v \in Uploads, CreatePDF(v) PROVE Dead(u)'
    BY <1>1 DEF CreatePDF, OpenTemp, WriteTemp, EndSave, AcquireSlot, Extract, Promote,
                Insert, InsertError, DropTemp, DropFinal
  <1>2. ASSUME NEW v \in Uploads,
               RunLate(v) \/ DeleteDocument(v) \/ Unlink(v) \/ TempOld(v) \/ OrphanOld(v)
        PROVE Dead(u)'
    BY <1>2 DEF RunLate, DeleteDocument, Unlink, TempOld, OrphanOld
  <1>3. ASSUME NEW w \in Cleaners, Cleanup(w) PROVE Dead(u)'
    BY <1>3 DEF Cleanup, LoadReferences, ListTemp, ListFinal, EndRound, RemoveTemp,
                RemoveFinal
  <1>4. CASE Crash
    BY <1>4 DEF Crash
  <1>5. CASE UNCHANGED vars
    BY <1>5 DEF vars
  <1>6. QED
    BY <1>1, <1>2, <1>3, <1>4, <1>5 DEF Next

(* A step of CreatePDF keeps the invariant. *)
LEMMA CreateInv ==
  ASSUME Inv, TypeOK', NEW v \in Uploads, CreatePDF(v), \A u \in Uploads : Dead(u) => Dead(u)'
  PROVE  Inv'
  <1> USE DEF Inv, TypeOK, Goto, files, ages, requests, database, cleanup
  <1>1. UploadInv' /\ RowInv' /\ DocumentsKeepFiles'
    <2> USE DEF UploadInv, RowInv, DocumentsKeepFiles
    <2>1. CASE OpenTemp(v) \/ WriteTemp(v) \/ EndSave(v) \/ AcquireSlot(v) \/ Extract(v)
      BY <2>1 DEF OpenTemp, WriteTemp, EndSave, AcquireSlot, Extract
    <2>2. CASE Promote(v) \/ DropTemp(v) \/ DropFinal(v)
      BY <2>2 DEF Promote, DropTemp, DropFinal
    <2>3. CASE Insert(v) \/ InsertError(v)
      BY <2>3 DEF Insert, InsertError
    <2>4. QED
      BY <2>1, <2>2, <2>3 DEF CreatePDF
  <1>2. UNCHANGED <<overOrphan, cleanup>>
    BY DEF CreatePDF, OpenTemp, WriteTemp, EndSave, AcquireSlot, Extract, Promote, Insert,
           InsertError, DropTemp, DropFinal
  <1>3. \A u \in overOrphan : pc'[u] = "over" /\ u \notin late'
    BY DEF RoundInv, UploadInv, CreatePDF, OpenTemp, WriteTemp, EndSave, AcquireSlot, Extract,
           Promote, Insert, InsertError, DropTemp, DropFinal
  <1>4. RoundInv'
    BY <1>2, <1>3 DEF RoundInv
  <1>5. QED
    BY <1>1, <1>4

(* A step of the database, of Delete or of time keeps the invariant. *)
LEMMA OtherInv ==
  ASSUME Inv, TypeOK', NEW v \in Uploads, \A u \in Uploads : Dead(u) => Dead(u)',
         RunLate(v) \/ DeleteDocument(v) \/ Unlink(v) \/ TempOld(v) \/ OrphanOld(v)
  PROVE  Inv'
  <1> USE DEF Inv, TypeOK, files, ages, requests, database, cleanup
  <1>1. UploadInv' /\ RowInv' /\ DocumentsKeepFiles'
    BY DEF UploadInv, RowInv, DocumentsKeepFiles, RunLate, DeleteDocument, Unlink, TempOld,
           OrphanOld
  <1>2. CASE RunLate(v) \/ DeleteDocument(v) \/ Unlink(v) \/ TempOld(v)
    BY <1>1, <1>2 DEF RoundInv, RunLate, DeleteDocument, Unlink, TempOld
  <1>3. CASE OrphanOld(v)
    <2>1. pc[v] = "over" /\ v \notin late
      BY <1>3 DEF OrphanOld, InFlight, UploadInv
    <2>2. ASSUME NEW w \in Cleaners, at[w] = "loaded", v \notin referenced[w]
          PROVE Dead(v)
      BY <1>3, <2>1, <2>2 DEF OrphanOld, Dead
    <2>3. RoundInv'
      BY <1>3, <2>1, <2>2 DEF RoundInv, OrphanOld
    <2>4. QED
      BY <1>1, <2>3
  <1>4. QED
    BY <1>2, <1>3

(* A step of a cleanup keeps the invariant. *)
LEMMA CleanupInv ==
  ASSUME Inv, TypeOK', NEW w \in Cleaners, Cleanup(w), \A u \in Uploads : Dead(u) => Dead(u)'
  PROVE  Inv'
  <1> USE DEF Inv, TypeOK, files, ages, requests, database, cleanup
  <1>1. UNCHANGED <<row, pc, unlinking, late, unsure, overOrphan>>
    BY DEF Cleanup, LoadReferences, ListTemp, ListFinal, EndRound, RemoveTemp, RemoveFinal
  <1>2. final' = final \/ \E u \in Uploads : Dead(u) /\ final' = final \ {u}
    BY DEF RoundInv, Cleanup, LoadReferences, ListTemp, ListFinal, EndRound, RemoveTemp,
           RemoveFinal
  <1>3. temp' \subseteq temp
    BY DEF Cleanup, LoadReferences, ListTemp, ListFinal, EndRound, RemoveTemp, RemoveFinal
  <1>4. UploadInv' /\ RowInv' /\ DocumentsKeepFiles'
    BY <1>1, <1>2, <1>3 DEF UploadInv, RowInv, DocumentsKeepFiles, Dead
  <1>5. RoundInv'
    <2>1. CASE LoadReferences(w)
      <3>1. \A u \in overOrphan : row[u] # "live" => Dead(u)
        BY DEF RoundInv, Dead
      <3>2. QED
        BY <1>1, <2>1, <3>1 DEF RoundInv, LoadReferences, LiveDocuments
    <2>2. CASE ListTemp(w)
      BY <1>1, <2>2 DEF RoundInv, ListTemp
    <2>3. CASE ListFinal(w)
      BY <1>1, <2>3 DEF RoundInv, ListFinal
    <2>4. CASE EndRound(w)
      BY <1>1, <2>4 DEF RoundInv, EndRound
    <2>5. ASSUME NEW u \in Uploads, RemoveTemp(w, u) \/ RemoveFinal(w, u) PROVE RoundInv'
      BY <1>1, <2>5 DEF RoundInv, RemoveTemp, RemoveFinal
    <2>6. QED
      BY <2>1, <2>2, <2>3, <2>4, <2>5 DEF Cleanup
  <1>6. QED
    BY <1>4, <1>5

(* Every step keeps the invariant. *)
LEMMA NextInv == Inv /\ [Next]_vars => Inv'
  <1>0. SUFFICES ASSUME Inv, [Next]_vars PROVE Inv'
    OBVIOUS
  <1>1. TypeOK'
    BY <1>0, NextType DEF Inv
  <1>2. \A u \in Uploads : Dead(u) => Dead(u)'
    BY <1>0, DeadStable
  <1>3. ASSUME NEW u \in Uploads, CreatePDF(u) PROVE Inv'
    BY <1>0, <1>1, <1>2, <1>3, CreateInv
  <1>4. ASSUME NEW u \in Uploads,
               RunLate(u) \/ DeleteDocument(u) \/ Unlink(u) \/ TempOld(u) \/ OrphanOld(u)
        PROVE Inv'
    BY <1>0, <1>1, <1>2, <1>4, OtherInv
  <1>5. ASSUME NEW w \in Cleaners, Cleanup(w) PROVE Inv'
    BY <1>0, <1>1, <1>2, <1>5, CleanupInv
  <1>6. CASE Crash
    BY <1>0, <1>1, <1>2, <1>6
       DEF Crash, Inv, TypeOK, UploadInv, RowInv, RoundInv, DocumentsKeepFiles, files, ages,
           cleanup
  <1>7. CASE UNCHANGED vars
    BY <1>0, <1>1, <1>2, <1>7
       DEF Inv, UploadInv, RowInv, RoundInv, DocumentsKeepFiles, vars, files, ages, requests,
           database, cleanup
  <1>8. QED
    BY <1>0, <1>3, <1>4, <1>5, <1>6, <1>7 DEF Next

(* A document keeps its file, whatever cleanups run with old lists of      *)
(* references, unless CreatePDF itself saw its INSERT fail.                *)
THEOREM FilesAreKept == Spec => []DocumentsKeepFiles
  <1>1. Inv => DocumentsKeepFiles
    BY DEF Inv
  <1>2. QED
    BY InitInv, NextInv, <1>1, PTL DEF Spec
=============================================================================
