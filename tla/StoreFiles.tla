------------------------------ MODULE StoreFiles ------------------------------
(***************************************************************************)
(* How the store's JSON documents reach the disk                           *)
(* (src/src/main/storeFiles.ts): synchronous saves, queued asynchronous    *)
(* ones of which only the newest waits, values kept in memory after a      *)
(* failed write and tried again by one timer for all documents, and the    *)
(* flush that callers and quitting wait for.                               *)
(*                                                                         *)
(* A document's content is the number of the save it came from; the app    *)
(* counts up.  A write goes to a temporary file that is renamed over the   *)
(* document, so a document holds a whole save at every moment and a write  *)
(* is two awaited steps, either of which a full disk makes fail.  The      *)
(* `.bak` copies and the recovery of a damaged file are not modelled.      *)
(***************************************************************************)
EXTENDS Naturals

CONSTANTS
  Docs,
  AsyncDocs,  \* those written off the main thread: chats, threads, logs
  MaxSaves    \* bound: saves of one document

ASSUME DocsAssumption == AsyncDocs \subseteq Docs
ASSUME SavesAssumption == MaxSaves \in Nat

None == MaxSaves + 1  \* no value

VARIABLES
  disk,      \* what each document holds on disk
  last,      \* the save the app made last, or read when it started
  made,      \* how many saves of each document there were
  pending,   \* pendingValues: queued, not started; None when nothing is
  inflight,  \* inflightValues: being written
  phase,     \* how far that write is
  unsaved,   \* values whose write failed
  queued,    \* the documents whose failed write was a queued one
  timer,     \* the retry timer is set
  full,      \* the disk refuses writes
  flushing,  \* flushDocWrites is waiting
  overtaken  \* an old value was queued behind a newer one

vars == <<disk, last, made, pending, inflight, phase, unsaved, queued, timer,
          full, flushing, overtaken>>

Value == 0 .. MaxSaves

Init ==
  /\ disk = [d \in Docs |-> 0] /\ last = disk /\ made = disk
  /\ pending = [d \in Docs |-> None] /\ inflight = pending /\ unsaved = pending
  /\ phase = [d \in Docs |-> "idle"]
  /\ queued = {} /\ timer = FALSE /\ full \in BOOLEAN /\ flushing = FALSE
  /\ overtaken = [d \in Docs |-> FALSE]

-----------------------------------------------------------------------------
(* What the saves share.                                                   *)

\* readDoc: the newest value a write still holds, or the file.
Read(d) ==
  IF pending[d] # None THEN pending[d]
  ELSE IF inflight[d] # None THEN inflight[d]
  ELSE IF unsaved[d] # None THEN unsaved[d]
  ELSE disk[d]

\* Bug: the value that failed before is kept.
Succeeded_Keeps(d) == UNCHANGED <<unsaved, queued, timer>>

Succeeded(d) ==
  /\ unsaved' = [unsaved EXCEPT ![d] = None]
  /\ UNCHANGED queued
  /\ timer' = (timer /\ \E e \in Docs : unsaved'[e] # None)

\* Bug: only the failure is reported; the value is not kept.
Failed_Forgets(d, v, async) == UNCHANGED <<unsaved, queued, timer>>

\* A failed value is remembered, unless a newer one waits for its own write.
Failed(d, v, async) ==
  /\ IF pending[d] # None
     THEN UNCHANGED <<unsaved, queued>>
     ELSE /\ unsaved' = [unsaved EXCEPT ![d] = v]
          /\ queued' = IF async THEN queued \cup {d} ELSE queued \ {d}
  /\ timer' = (timer \/ \E e \in Docs : unsaved'[e] # None)

\* writeDocSync: the whole write at once.
WriteNow(d, v) ==
  IF full THEN Failed(d, v, FALSE) /\ UNCHANGED disk
          ELSE Succeeded(d) /\ disk' = [disk EXCEPT ![d] = v]

\* writeDocAsync for kept values: queued, in the place of a newer value that
\* waits and behind a newer one being written.
Requeue(ds) ==
  /\ pending' = [d \in Docs |-> IF d \in ds THEN unsaved[d] ELSE pending[d]]
  /\ overtaken' = [d \in Docs |->
                     overtaken[d] \/ (d \in ds /\ unsaved[d] # last[d])]

-----------------------------------------------------------------------------
(* The app saves.                                                          *)

\* setJsonAsync.  The newest value waits, so only an older one that is being
\* written can still come after a newer one.
SaveLater(d) ==
  /\ pending' = [pending EXCEPT ![d] = made[d] + 1]
  /\ overtaken' = [overtaken EXCEPT ![d] = @ /\ inflight[d] # None]
  /\ UNCHANGED <<disk, unsaved, queued, timer>>

\* setJson, whatever a flush has in the queue.
SaveNow(d) ==
  /\ WriteNow(d, made[d] + 1)
  /\ overtaken' = [overtaken EXCEPT ![d] = pending[d] # None \/ inflight[d] # None]
  /\ UNCHANGED pending

Save(d) ==
  /\ made[d] < MaxSaves
  /\ made' = [made EXCEPT ![d] = @ + 1]
  /\ last' = [last EXCEPT ![d] = made[d] + 1]
  /\ IF d \in AsyncDocs THEN SaveLater(d) ELSE SaveNow(d)
  /\ UNCHANGED <<inflight, phase, full, flushing>>

-----------------------------------------------------------------------------
(* The queue of one document.                                              *)

\* A queued write starts when the one before it has ended.
Start(d) ==
  /\ pending[d] # None /\ phase[d] = "idle"
  /\ inflight' = [inflight EXCEPT ![d] = pending[d]]
  /\ pending' = [pending EXCEPT ![d] = None]
  /\ phase' = [phase EXCEPT ![d] = "writing"]
  /\ UNCHANGED <<disk, last, made, unsaved, queued, timer, full, flushing,
                 overtaken>>

\* writeDurableAsync is done: the temporary file holds the value.
Written(d) ==
  /\ phase[d] = "writing" /\ ~full
  /\ phase' = [phase EXCEPT ![d] = "renaming"]
  /\ UNCHANGED <<disk, last, made, pending, inflight, unsaved, queued, timer,
                 full, flushing, overtaken>>

\* The rename reaches the disk, which the app hears of later.
Renamed(d) ==
  /\ phase[d] = "renaming" /\ ~full
  /\ phase' = [phase EXCEPT ![d] = "landed"]
  /\ disk' = [disk EXCEPT ![d] = inflight[d]]
  /\ UNCHANGED <<last, made, pending, inflight, unsaved, queued, timer, full,
                 flushing, overtaken>>

\* Bug: the value stays in inflightValues.
Settle_KeepsInflight(d) ==
  /\ phase[d] = "landed"
  /\ Succeeded(d)
  /\ phase' = [phase EXCEPT ![d] = "idle"]
  /\ UNCHANGED <<disk, last, made, pending, inflight, full, flushing, overtaken>>

\* The rename's promise resolves.
Settle(d) ==
  /\ phase[d] = "landed"
  /\ Succeeded(d)
  /\ inflight' = [inflight EXCEPT ![d] = None]
  /\ phase' = [phase EXCEPT ![d] = "idle"]
  /\ UNCHANGED <<disk, last, made, pending, full, flushing, overtaken>>

\* The write or the rename fails.
Fail(d) ==
  /\ phase[d] \in {"writing", "renaming"} /\ full
  /\ Failed(d, inflight[d], TRUE)
  /\ inflight' = [inflight EXCEPT ![d] = None]
  /\ phase' = [phase EXCEPT ![d] = "idle"]
  /\ UNCHANGED <<disk, last, made, pending, full, flushing, overtaken>>

-----------------------------------------------------------------------------
(* All documents together.                                                 *)

\* The documents whose failed value is kept: a retry writes those not in
\* `queued` there and then, and queues the others.
Kept == {d \in Docs : unsaved[d] # None}

\* No timer fires between a save and the start of its write on an idle queue.
NothingStarting == \A d \in Docs : pending[d] # None => phase[d] # "idle"

\* Bug: the queued values are left to the next save.
Retry_SyncOnly ==
  /\ timer /\ NothingStarting
  /\ IF full
     THEN UNCHANGED <<disk, unsaved>>
     ELSE /\ disk' = [d \in Docs |-> IF d \in Kept \ queued THEN unsaved[d]
                                     ELSE disk[d]]
          /\ unsaved' = [d \in Docs |-> IF d \in Kept \ queued THEN None
                                        ELSE unsaved[d]]
  /\ timer' = \E d \in Docs : unsaved'[d] # None
  /\ UNCHANGED <<last, made, pending, inflight, phase, queued, full, flushing,
                 overtaken>>

\* The retry timer, set again while any value is kept.
Retry ==
  /\ timer /\ NothingStarting
  /\ IF full
     THEN UNCHANGED <<disk, unsaved>>
     ELSE /\ disk' = [d \in Docs |-> IF d \in Kept \ queued THEN unsaved[d]
                                     ELSE disk[d]]
          /\ unsaved' = [d \in Docs |-> IF d \in Kept \ queued THEN None
                                        ELSE unsaved[d]]
  /\ Requeue(Kept \cap queued)
  /\ timer' = \E d \in Docs : unsaved'[d] # None
  /\ UNCHANGED <<last, made, inflight, phase, queued, full, flushing>>

\* flushDocWrites, which queues every kept value no newer one waits for,
\* whatever way it was saved.
Flush ==
  /\ ~flushing /\ flushing' = TRUE
  /\ Requeue({d \in Kept : pending[d] = None})
  /\ UNCHANGED <<disk, last, made, inflight, phase, unsaved, queued, timer, full>>

\* Every queue is empty.
Flushed ==
  /\ flushing /\ flushing' = FALSE
  /\ \A d \in Docs : pending[d] = None /\ phase[d] = "idle"
  /\ UNCHANGED <<disk, last, made, pending, inflight, phase, unsaved, queued,
                 timer, full, overtaken>>

\* The app ends, by a crash or by quitting (which waits three seconds for the
\* flush), and reads its documents when it starts again.
Crash ==
  /\ last' = disk
  /\ pending' = [d \in Docs |-> None] /\ inflight' = pending'
  /\ unsaved' = pending' /\ phase' = [d \in Docs |-> "idle"]
  /\ queued' = {} /\ timer' = FALSE /\ flushing' = FALSE
  /\ overtaken' = [d \in Docs |-> FALSE]
  /\ UNCHANGED <<disk, made, full>>

\* Disks fill up and are emptied.
DiskChanges ==
  /\ full' = ~full
  /\ UNCHANGED <<disk, last, made, pending, inflight, phase, unsaved, queued,
                 timer, flushing, overtaken>>

-----------------------------------------------------------------------------

Writing(d) == Start(d) \/ Written(d) \/ Renamed(d) \/ Settle(d) \/ Fail(d)

Next ==
  \/ \E d \in Docs : Save(d) \/ Writing(d)
  \/ Retry \/ Flush \/ Flushed \/ Crash \/ DiskChanges

\* Awaited file operations end and timers fire.
Fairness == WF_vars(Retry) /\ \A d \in Docs : WF_vars(Writing(d))

Spec == Init /\ [][Next]_vars /\ Fairness

-----------------------------------------------------------------------------
(* Properties.                                                             *)

\* A value is in inflightValues exactly while its write is under way, and a
\* kept value's document says how it was written.
TypeOK ==
  /\ disk \in [Docs -> Value] /\ last \in [Docs -> Value]
  /\ made \in [Docs -> Value]
  /\ pending \in [Docs -> Value \cup {None}]
  /\ inflight \in [Docs -> Value \cup {None}]
  /\ unsaved \in [Docs -> Value \cup {None}]
  /\ phase \in [Docs -> {"idle", "writing", "renaming", "landed"}]
  /\ \A d \in Docs : inflight[d] = None <=> phase[d] = "idle"
  /\ queued \subseteq Docs
  /\ timer \in BOOLEAN /\ full \in BOOLEAN /\ flushing \in BOOLEAN
  /\ overtaken \in [Docs -> BOOLEAN]

\* A read gives the last save, however far its write is and whether it failed,
\* but for a document whose newer value an older one overtook.
ReadsSeeLastSave == \A d \in Docs : ~overtaken[d] => Read(d) = last[d]

\* A document on disk never goes back to an older save, with the same
\* exception.
DiskNeverGoesBack ==
  [][\A d \in Docs : ~overtaken'[d] => disk'[d] >= disk[d]]_vars

\* While any failed write is kept the retry timer is set.
KeptIsRetried == Kept # {} => timer

\* The last save reaches the disk once the disk takes writes, whatever failed
\* before, with the same exception.
SavedReachesDisk ==
  \A d \in Docs :
    <>[](~full /\ ~overtaken[d]) => <>[](disk[d] = last[d])

\* "the new value is kept in memory, served to every read so the app carries on
\* as if it had saved".
ReadsNewest == \A d \in Docs : Read(d) = last[d]

\* flushDocWrites "waits for every queued write, and tries once more to save
\* anything a failed write left unsaved": when it returns and nothing is left
\* unsaved, the disk holds the last saves.
FlushLands ==
  [][Flushed => \A d \in Docs : unsaved[d] = None => disk[d] = last[d]]_vars

=============================================================================
