--------------------------- MODULE StoreFilesProofs ---------------------------
(***************************************************************************)
(* Reads and the disk follow the saves, for any documents and any number   *)
(* of saves.                                                               *)
(***************************************************************************)
EXTENDS StoreFiles, TLAPS

\* A document that no older value overtook.  Reads see its last save and the
\* disk is behind; what is being written is between the two, and is on the disk
\* once the rename has landed.  An asynchronous document only fails in the
\* queue; a synchronous one, which a flush may queue, has no value but the last
\* in memory.
DocOK(d) ==
  /\ disk[d] <= made[d] /\ last[d] <= made[d]
  /\ \A held \in {pending[d], inflight[d], unsaved[d]} :
       held = None \/ held <= made[d]
  /\ d \in AsyncDocs /\ unsaved[d] # None => d \in queued
  /\ ~overtaken[d] =>
       /\ Read(d) = last[d] /\ disk[d] <= last[d]
       /\ inflight[d] # None => disk[d] <= inflight[d] /\ inflight[d] <= last[d]
       /\ phase[d] = "landed" => disk[d] = inflight[d]
       /\ d \notin AsyncDocs => /\ pending[d] \in {None, last[d]}
                                /\ inflight[d] \in {None, last[d]}
                                /\ unsaved[d] \in {None, last[d]}

Inv == TypeOK /\ KeptIsRetried /\ \A d \in Docs : DocOK(d)

-----------------------------------------------------------------------------
(* Types.                                                                  *)

LEMMA NoneIsNoValue == None \notin Value /\ \A v \in Value : v # None
BY SavesAssumption DEF None, Value

LEMMA TypeInit == Init => TypeOK
<1>1. 0 \in Value
  BY SavesAssumption DEF Value
<1>2. QED
  BY <1>1 DEF Init, TypeOK

LEMMA FailedType ==
  ASSUME TypeOK, NEW d \in Docs, NEW v \in Value, NEW b \in BOOLEAN,
         Failed(d, v, b)
  PROVE  unsaved' \in [Docs -> Value \cup {None}] /\ queued' \subseteq Docs
         /\ timer' \in BOOLEAN
<1>1. timer' \in BOOLEAN
  BY Zenon DEF Failed, TypeOK
<1>2. QED
  BY <1>1 DEF Failed, TypeOK

LEMMA SucceededType ==
  ASSUME TypeOK, NEW d \in Docs, Succeeded(d)
  PROVE  unsaved' \in [Docs -> Value \cup {None}] /\ queued' \subseteq Docs
         /\ timer' \in BOOLEAN
<1>1. timer' \in BOOLEAN
  BY Zenon DEF Succeeded, TypeOK
<1>2. QED
  BY <1>1 DEF Succeeded, TypeOK

LEMMA TypeStep == TypeOK /\ [Next]_vars => TypeOK'
<1> SUFFICES ASSUME TypeOK, [Next]_vars PROVE TypeOK'
  OBVIOUS
<1> USE NoneIsNoValue DEF TypeOK
<1>1. ASSUME NEW d \in Docs, Save(d) PROVE TypeOK'
  <2>1. made[d] + 1 \in Value
    BY <1>1, SavesAssumption DEF Save, Value
  <2>2. CASE d \in AsyncDocs
    BY <1>1, <2>1, <2>2 DEF Save, SaveLater
  <2>3. CASE d \notin AsyncDocs
    <3>1. /\ unsaved' \in [Docs -> Value \cup {None}] /\ queued' \subseteq Docs
          /\ timer' \in BOOLEAN
      BY <1>1, <2>1, <2>3, FailedType, SucceededType
         DEF Save, SaveNow, WriteNow
    <3>2. disk' \in [Docs -> Value]
      BY <1>1, <2>1, <2>3 DEF Save, SaveNow, WriteNow
    <3>3. PICK b \in BOOLEAN : overtaken' = [overtaken EXCEPT ![d] = b]
      BY <1>1, <2>3, Zenon DEF Save, SaveNow
    <3>4. overtaken' \in [Docs -> BOOLEAN]
      BY <3>3
    <3>5. QED
      BY <1>1, <2>1, <2>3, <3>1, <3>2, <3>4 DEF Save, SaveNow
  <2>4. QED
    BY <2>2, <2>3
<1>2. ASSUME NEW d \in Docs, Start(d) \/ Written(d) \/ Renamed(d) PROVE TypeOK'
  BY <1>2 DEF Start, Written, Renamed
<1>3. ASSUME NEW d \in Docs, Settle(d) \/ Fail(d) PROVE TypeOK'
  <2>1. CASE Settle(d)
    <3>1. /\ unsaved' \in [Docs -> Value \cup {None}] /\ queued' \subseteq Docs
          /\ timer' \in BOOLEAN
      BY <2>1, SucceededType DEF Settle
    <3>2. QED
      BY <2>1, <3>1 DEF Settle
  <2>2. CASE Fail(d)
    <3>1. inflight[d] \in Value
      BY <2>2 DEF Fail
    <3>2. /\ unsaved' \in [Docs -> Value \cup {None}] /\ queued' \subseteq Docs
          /\ timer' \in BOOLEAN
      BY <2>2, <3>1, FailedType DEF Fail
    <3>3. QED
      BY <2>2, <3>2 DEF Fail
  <2>3. QED
    BY <1>3, <2>1, <2>2
<1>4. CASE Retry
  BY <1>4 DEF Retry, Requeue, Kept
<1>5. CASE Flush
  BY <1>5 DEF Flush, Requeue, Kept
<1>6. CASE Crash
  BY <1>6 DEF Crash
<1>7. CASE Flushed
  BY <1>7 DEF Flushed
<1>8. CASE DiskChanges
  BY <1>8 DEF DiskChanges
<1>9. CASE UNCHANGED vars
  BY <1>9 DEF vars
<1>10. QED
  BY <1>1, <1>2, <1>3, <1>4, <1>5, <1>6, <1>7, <1>8, <1>9 DEF Next, Writing

-----------------------------------------------------------------------------
(* The invariant.                                                          *)

LEMMA InvInit == Init => Inv
<1> SUFFICES ASSUME Init PROVE Inv
  OBVIOUS
<1>1. TypeOK
  BY TypeInit
<1>2. KeptIsRetried
  BY DEF Init, KeptIsRetried, Kept
<1>3. ASSUME NEW d \in Docs PROVE DocOK(d)
  BY NoneIsNoValue, SavesAssumption DEF Init, DocOK, Read, Value
<1>4. QED
  BY <1>1, <1>2, <1>3 DEF Inv

\* While a value is kept the timer is set, whoever fails or succeeds.
LEMMA KeptStep == TypeOK /\ KeptIsRetried /\ [Next]_vars => KeptIsRetried'
<1> SUFFICES ASSUME TypeOK, KeptIsRetried, [Next]_vars PROVE KeptIsRetried'
  OBVIOUS
<1> USE DEF KeptIsRetried, Kept
<1>1. ASSUME NEW d \in Docs, NEW v, NEW b \in BOOLEAN, Failed(d, v, b)
      PROVE KeptIsRetried'
  BY <1>1 DEF Failed
<1>2. ASSUME NEW d \in Docs, Succeeded(d) PROVE KeptIsRetried'
  BY <1>2 DEF Succeeded, TypeOK
<1>3. ASSUME NEW d \in Docs, Save(d) PROVE KeptIsRetried'
  BY <1>1, <1>2, <1>3 DEF Save, SaveLater, SaveNow, WriteNow
<1>4. ASSUME NEW d \in Docs, Writing(d) PROVE KeptIsRetried'
  BY <1>1, <1>2, <1>4 DEF Writing, Start, Written, Renamed, Settle, Fail
<1>5. CASE Retry \/ Flush \/ Flushed
  BY <1>5 DEF Retry, Flush, Flushed
<1>6. CASE Crash \/ DiskChanges \/ UNCHANGED vars
  BY <1>6 DEF Crash, DiskChanges, vars
<1>7. QED
  BY <1>3, <1>4, <1>5, <1>6 DEF Next

\* What a retry or a flush queues is the last save, or the document is
\* overtaken.
LEMMA RequeueStep ==
  ASSUME TypeOK, NEW d \in Docs, NEW ds \in SUBSET Kept, Requeue(ds),
         ~overtaken'[d]
  PROVE  /\ ~overtaken[d]
         /\ d \notin ds => pending'[d] = pending[d]
         /\ d \in ds => pending'[d] = last[d] /\ unsaved[d] = last[d]
BY DEF Requeue, Kept, TypeOK

LEMMA DocStep == Inv /\ [Next]_vars => \A d \in Docs : DocOK(d)'
<1> SUFFICES ASSUME Inv, [Next]_vars, NEW d \in Docs PROVE DocOK(d)'
  OBVIOUS
<1>0. TypeOK /\ TypeOK' /\ DocOK(d)
  BY TypeStep DEF Inv
<1>num. /\ \A v \in Value : v \in Nat /\ v # None
        /\ made[d] \in Value /\ last[d] \in Value /\ disk[d] \in Value
        /\ inflight[d] = None <=> phase[d] = "idle"
  BY <1>0, NoneIsNoValue, SavesAssumption DEF TypeOK, Value
<1> USE <1>0, <1>num DEF DocOK, Read
<1>1. ASSUME NEW e \in Docs, Save(e) PROVE DocOK(d)'
  <2>1. CASE e # d
    BY <1>1, <2>1 DEF Save, SaveLater, SaveNow, WriteNow, Failed, Succeeded,
                      TypeOK
  <2>2. CASE e = d /\ d \in AsyncDocs
    BY <1>1, <2>2 DEF Save, SaveLater, TypeOK
  <2>3. CASE e = d /\ d \notin AsyncDocs
    BY <1>1, <2>3 DEF Save, SaveNow, WriteNow, Failed, Succeeded, TypeOK
  <2>4. QED
    BY <2>1, <2>2, <2>3
<1>2. ASSUME NEW e \in Docs, Start(e) \/ Written(e) \/ Renamed(e)
      PROVE DocOK(d)'
  <2>1. CASE e # d
    BY <1>2, <2>1 DEF Start, Written, Renamed, TypeOK
  <2>2. CASE Start(d)
    BY <2>2 DEF Start, TypeOK
  <2>3. CASE Written(d)
    BY <2>3 DEF Written, TypeOK
  <2>4. CASE Renamed(d)
    BY <2>4 DEF Renamed, TypeOK
  <2>5. QED
    BY <1>2, <2>1, <2>2, <2>3, <2>4
<1>3. ASSUME NEW e \in Docs, Settle(e) PROVE DocOK(d)'
  BY <1>3 DEF Settle, Succeeded, TypeOK
<1>4. ASSUME NEW e \in Docs, Fail(e) PROVE DocOK(d)'
  BY <1>4 DEF Fail, Failed, TypeOK
<1>5. CASE Retry
  <2>1. /\ last'[d] = last[d] /\ made'[d] = made[d] /\ queued' = queued
        /\ inflight'[d] = inflight[d] /\ phase'[d] = phase[d]
    BY <1>5 DEF Retry
  <2>2. \/ disk'[d] = disk[d] /\ unsaved'[d] = unsaved[d]
        \/ /\ unsaved[d] # None /\ d \notin queued
           /\ disk'[d] = unsaved[d] /\ unsaved'[d] = None
    BY <1>5 DEF Retry, Kept, TypeOK
  <2>3. unsaved[d] \in Value \cup {None}
    BY DEF TypeOK
  <2>4. CASE ~overtaken'[d]
    <3>1. /\ ~overtaken[d]
          /\ d \notin Kept \cap queued => pending'[d] = pending[d]
          /\ d \in Kept \cap queued => pending'[d] = last[d] /\ unsaved[d] = last[d]
      BY <1>5, <2>4, RequeueStep DEF Retry
    <3>2. QED
      BY <2>1, <2>2, <2>3, <2>4, <3>1 DEF Kept
  <2>5. CASE overtaken'[d]
    <3>1. disk'[d] <= made[d]
      BY <2>2, <2>3
    <3>2. pending'[d] \in {pending[d], unsaved[d]}
      BY <1>5 DEF Retry, Requeue
    <3>3. QED
      BY <2>1, <2>2, <2>5, <3>1, <3>2
  <2>6. QED
    BY <2>4, <2>5
<1>6. CASE Flush
  BY <1>6, RequeueStep DEF Flush, Requeue, Kept, TypeOK
<1>7. CASE Crash
  BY <1>7 DEF Crash, TypeOK
<1>8. CASE Flushed \/ DiskChanges \/ UNCHANGED vars
  BY <1>8 DEF Flushed, DiskChanges, vars
<1>9. QED
  BY <1>1, <1>2, <1>3, <1>4, <1>5, <1>6, <1>7, <1>8 DEF Next, Writing

LEMMA InvStep == Inv /\ [Next]_vars => Inv'
BY TypeStep, KeptStep, DocStep DEF Inv

-----------------------------------------------------------------------------

\* Every variable of the store keeps its type; a value is in inflightValues
\* exactly while its write is under way.
THEOREM TypeCorrect == Spec => []TypeOK
<1>1. Inv => TypeOK
  BY DEF Inv
<1>2. QED
  BY InvInit, InvStep, <1>1, PTL DEF Spec

\* readDoc gives the last save at every moment, unless an older value was put
\* behind a newer one; and a kept value always has its retry.
THEOREM ReadsFollowSaves == Spec => [](ReadsSeeLastSave /\ KeptIsRetried)
<1>1. Inv => ReadsSeeLastSave /\ KeptIsRetried
  BY DEF Inv, DocOK, ReadsSeeLastSave
<1>2. QED
  BY InvInit, InvStep, <1>1, PTL DEF Spec

\* No write, retry or flush puts an older save on the disk, with the same
\* exception.
THEOREM DiskOnlyGoesForward == Spec => DiskNeverGoesBack
<1>1. ASSUME Inv, Inv', [Next]_vars, NEW d \in Docs, ~overtaken'[d]
      PROVE disk'[d] >= disk[d]
  <2>0. /\ TypeOK /\ DocOK(d) /\ DocOK(d)'
        /\ disk[d] \in Nat /\ disk'[d] \in Nat
    BY <1>1, SavesAssumption DEF Inv, TypeOK, Value
  <2>num. \A v \in Value : v \in Nat /\ v # None
    BY NoneIsNoValue, SavesAssumption DEF Value
  <2>1. ASSUME NEW e \in Docs, Save(e) PROVE disk'[d] >= disk[d]
    <3>1. disk'[d] = disk[d] \/ disk'[d] = made[d] + 1
      <4>1. disk' = disk \/ disk' = [disk EXCEPT ![e] = made[e] + 1]
        BY <2>1 DEF Save, SaveLater, SaveNow, WriteNow
      <4>2. QED
        BY <2>0, <4>1 DEF TypeOK
    <3>2. disk[d] <= made[d] /\ made[d] \in Nat
      BY <2>0, <2>num DEF DocOK, TypeOK
    <3>3. QED
      BY <2>0, <3>1, <3>2
  <2>2. ASSUME NEW e \in Docs, Writing(e) PROVE disk'[d] >= disk[d]
    <3>1. disk' = disk \/ Renamed(e)
      BY <2>2 DEF Writing, Start, Written, Settle, Fail
    <3>2. CASE disk' = disk
      BY <2>0, <3>2
    <3>3. CASE Renamed(e) /\ e # d
      BY <2>0, <3>3 DEF Renamed, TypeOK
    <3>4. CASE Renamed(e) /\ e = d
      <4>1. inflight[d] # None /\ disk'[d] = inflight[d] /\ ~overtaken[d]
        BY <1>1, <2>0, <3>4, <2>num DEF Renamed, TypeOK
      <4>2. disk[d] <= inflight[d] /\ inflight[d] \in Nat
        BY <2>0, <2>num, <4>1 DEF DocOK, TypeOK
      <4>3. QED
        BY <2>0, <4>1, <4>2
    <3>5. QED
      BY <3>1, <3>2, <3>3, <3>4
  <2>3. CASE Retry
    BY <1>1, <2>0, <2>3, <2>num, RequeueStep DEF Retry, Requeue, Kept, DocOK,
                                                TypeOK
  <2>4. CASE Flush \/ Flushed \/ Crash \/ DiskChanges \/ UNCHANGED vars
    BY <2>0, <2>4 DEF Flush, Flushed, Crash, DiskChanges, vars
  <2>5. QED
    BY <1>1, <2>1, <2>2, <2>3, <2>4 DEF Next
<1>2. Inv /\ Inv' /\ [Next]_vars
        => [\A d \in Docs : ~overtaken'[d] => disk'[d] >= disk[d]]_vars
  BY <1>1
<1>3. QED
  BY InvInit, InvStep, <1>2, PTL DEF Spec, DiskNeverGoesBack

=============================================================================
