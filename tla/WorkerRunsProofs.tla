---------------------------- MODULE WorkerRunsProofs ----------------------------
(***************************************************************************)
(* The properties of a worker's runs, for any threads, mail, routines and  *)
(* limit, with slow writes, crashes and quits.                             *)
(*                                                                         *)
(* A handler makes a memory f of the engine's and leaves it to the tick.   *)
(* So the proof goes in two parts: each handler's f is Sound (all of the   *)
(* invariant but the room) and comes From the memory there was, and a tick *)
(* makes of such an f a memory that is sound, has its room used, and is a  *)
(* step the action properties allow (TickKeeps).                           *)
(***************************************************************************)
EXTENDS WorkerRuns, FiniteSetTheorems, TLAPS

-----------------------------------------------------------------------------
(* The tick, part by part: which fields it changes, and how.               *)

LEMMA SkippedEffect ==
  ASSUME NEW f \in State
  PROVE  /\ Skipped(f) \in State
         /\ Skipped(f).inbox = f.inbox /\ Skipped(f).read = f.read
         /\ Skipped(f).receipt.run = f.receipt.run
         /\ Skipped(f).receipt.trigger = f.receipt.trigger
         /\ Skipped(f).receipt.acted = f.receipt.acted
         /\ Skipped(f).beat = f.beat /\ Skipped(f).closed = f.closed
         /\ Skipped(f).paused = f.paused
         /\ Skipped(f).running = f.running /\ Skipped(f).waiting = f.waiting
         /\ Skipped(f).resumes = f.resumes
         /\ Skipped(f).woken = f.woken
<1> DEFINE over == IF f.paused THEN {} ELSE f.slots \cap f.running
           r == [f.receipt EXCEPT !.later = @ \cup over, !.past = @ \cup (over \cap Retried)]
           g == [f EXCEPT !.slots = @ \ over, !.receipt = r]
<1>1. over \in SUBSET Threads
  BY DEF State
<1>2. /\ r \in Receipts /\ r.run = f.receipt.run /\ r.trigger = f.receipt.trigger
      /\ r.acted = f.receipt.acted /\ f.receipt.later \subseteq r.later
  <2>1. f.receipt \in Receipts
    BY DEF State
  <2>. HIDE DEF over
  <2>2. QED
    BY <1>1, <2>1 DEF Receipts
<1>3. Skipped(f) = g
  BY DEF Skipped, State, Receipts
<1>. HIDE DEF over, r
<1>4. QED
  BY <1>2, <1>3 DEF State

LEMMA StartedEffect ==
  ASSUME NEW e \in State, NEW S \in SUBSET Threads
  PROVE  LET r == Started(e, S) IN
         /\ r \in Receipts
         /\ \A t \in Threads :
              /\ r.run[t] = IF t \in S THEN "running" ELSE e.receipt.run[t]
              /\ r.trigger[t] = IF t \in S THEN Trigger(e, t) ELSE e.receipt.trigger[t]
         /\ r.acted = e.receipt.acted \ S /\ r.later = e.receipt.later \ S
         /\ r.past = e.receipt.past
<1>1. \A t \in Threads : Trigger(e, t) \in Triggers
  BY DEF Trigger, Triggers
<1>2. e.receipt \in Receipts
  BY DEF State
<1>3. QED
  BY <1>1, <1>2 DEF Started, Receipts, RunStates

\* b is e with the threads S begun.
BegunTo(e, S, b) ==
  /\ b \in State
  /\ b.receipt = Started(e, S)
  /\ b.beat = e.beat /\ b.closed = e.closed /\ b.paused = e.paused
  /\ b.running = e.running \cup S /\ b.waiting = e.waiting \ S
  /\ b.resumes = e.resumes \ S /\ (b.woken => e.woken /\ Main \notin S)
  /\ \A t \in Threads :
       /\ b.inbox[t] = IF t \in S THEN {} ELSE e.inbox[t]
       /\ b.read[t] = IF t \in S THEN e.read[t] \cup e.inbox[t] ELSE e.read[t]

LEMMA BegunEffect ==
  ASSUME NEW e \in State, NEW S \in SUBSET Threads
  PROVE  BegunTo(e, S, Begun(e, S))
<1>1. Started(e, S) \in Receipts
  BY StartedEffect
<1>2. QED
  BY <1>1 DEF BegunTo, Begun, InboxAfter, State

\* q is e but for what waits and what the receipts say of it.
Same(e, q) ==
  /\ q \in State
  /\ q.inbox = e.inbox /\ q.read = e.read /\ q.beat = e.beat /\ q.closed = e.closed
  /\ q.paused = e.paused /\ q.running = e.running /\ q.resumes = e.resumes
  /\ q.woken = e.woken
  /\ q.receipt.run = e.receipt.run /\ q.receipt.trigger = e.receipt.trigger
  /\ q.receipt.acted = e.receipt.acted

LEMMA QueuedEffect ==
  ASSUME NEW e \in State, NEW W \in SUBSET Threads
  PROVE  /\ Same(e, Queued(e, W))
         /\ Queued(e, W).waiting = e.waiting \cup W
         /\ Queued(e, W).receipt.later = e.receipt.later \cup W
<1> DEFINE r == [e.receipt EXCEPT !.later = @ \cup W]
           g == [e EXCEPT !.waiting = @ \cup W, !.receipt = r]
<1>1. /\ r \in Receipts /\ r.run = e.receipt.run /\ r.trigger = e.receipt.trigger
      /\ r.acted = e.receipt.acted /\ r.later = e.receipt.later \cup W
  BY DEF State, Receipts
<1>2. Queued(e, W) = g
  BY DEF Queued, State, Receipts
<1>. HIDE DEF r
<1>3. QED
  BY <1>1, <1>2 DEF State, Same

LEMMA DroppedEffect ==
  ASSUME NEW e \in State, NEW W
  PROVE  /\ Same(e, Dropped(e, W))
         /\ Dropped(e, W).waiting = e.waiting \ W
         /\ Dropped(e, W).receipt.later = e.receipt.later
<1> DEFINE r == [e.receipt EXCEPT !.past = @ \cup (e.waiting \cap W \cap Retried)]
           g == [e EXCEPT !.waiting = @ \ W, !.receipt = r]
<1>1. /\ r \in Receipts /\ r.run = e.receipt.run /\ r.trigger = e.receipt.trigger
      /\ r.acted = e.receipt.acted /\ r.later = e.receipt.later
  BY DEF State, Receipts
<1>2. Dropped(e, W) = g
  BY DEF Dropped, State, Receipts
<1>. HIDE DEF r
<1>3. QED
  BY <1>1, <1>2 DEF State, Same

\* S start of the threads due, of the state f: what g is then.
Ticked(f, g, S, due) ==
  /\ g \in State
  /\ S \subseteq due /\ due \subseteq Threads \ f.running
  /\ f.paused => due = {}
  /\ ~f.paused => \A t \in Open(f) \ f.running :
                    f.inbox[t] # {} \/ (t = Main /\ f.woken) => t \in due
  /\ Cardinality(g.running) <= Limit
  /\ S = due \/ Cardinality(g.running) = Limit
  /\ g.running = f.running \cup S /\ g.waiting = due \ S
  /\ g.waiting \subseteq g.receipt.later
  /\ g.resumes = f.resumes \ S /\ (g.woken => f.woken /\ Main \notin S)
  /\ g.receipt.acted = f.receipt.acted \ S
  /\ g.beat = f.beat /\ g.closed = f.closed /\ g.paused = f.paused
  /\ \A t \in Threads :
       /\ g.inbox[t] = IF t \in S THEN {} ELSE f.inbox[t]
       /\ g.read[t] = IF t \in S THEN f.read[t] \cup f.inbox[t] ELSE f.read[t]
       /\ g.receipt.run[t] = IF t \in S THEN "running" ELSE f.receipt.run[t]
       /\ t \notin S => g.receipt.trigger[t] = f.receipt.trigger[t]
       /\ t \in S /\ g.receipt.trigger[t] = "resume" => t \in f.resumes

\* What the history says after that.
NewestTicked(f, S) ==
  /\ newest' \in [Threads -> Runs]
  /\ \A t \in Threads :
       newest'[t] = IF t \in S THEN [by |-> eng'.receipt.trigger[t], acted |-> FALSE,
                                    over |-> FALSE, lost |-> FALSE]
                    ELSE IF t \in eng.running \ f.running THEN Over ELSE newest[t]

LEMMA TickEffect ==
  ASSUME NEW f \in State, Tick(f), newest \in [Threads -> Runs]
  PROVE  /\ disk' \in {Saved(eng'), disk}
         /\ \E S, due \in SUBSET Threads : Ticked(f, eng', S, due) /\ NewestTicked(f, S)
<1> DEFINE e == Skipped(f)
<1>0. /\ e \in State /\ e.inbox = f.inbox /\ e.read = f.read /\ e.beat = f.beat
      /\ e.receipt.run = f.receipt.run /\ e.receipt.trigger = f.receipt.trigger
      /\ e.receipt.acted = f.receipt.acted
      /\ e.closed = f.closed /\ e.paused = f.paused /\ e.running = f.running
      /\ e.waiting = f.waiting /\ e.resumes = f.resumes /\ e.woken = f.woken
  BY SkippedEffect
<1>. HIDE DEF e
<1>1. PICK rest \in SUBSET (Due(e) \ Priority(e)) :
        \E due \in {Due(e) \ rest} : \E S \in SUBSET due :
          /\ Fits(e, S, due) /\ newest' = NewestAfter(e, S)
          /\ \E g \in {Queued(Begun(e, S), due \ S)} : Goes(Dropped(g, g.waiting \ (due \ S)))
  BY Zenon DEF Tick, e
<1> DEFINE due == Due(e) \ rest
<1>2. PICK S \in SUBSET due :
        LET g == Queued(Begun(e, S), due \ S)
        IN /\ Fits(e, S, due) /\ newest' = NewestAfter(e, S)
           /\ Goes(Dropped(g, g.waiting \ (due \ S)))
  BY <1>1
<1> DEFINE b == Begun(e, S)
           q == Queued(b, due \ S)
           g == Dropped(q, q.waiting \ (due \ S))
<1>3. /\ due \subseteq Threads \ f.running /\ S \subseteq due
      /\ f.paused => due = {}
      /\ ~f.paused => \A t \in Open(f) \ f.running :
                        f.inbox[t] # {} \/ (t = Main /\ f.woken) => t \in due
  BY <1>0, <1>2 DEF Due, Open, Priority, Checked
<1>4. /\ eng' = g /\ disk' \in {Saved(eng'), disk}
  BY <1>2 DEF Goes
<1>5. Fits(e, S, due) /\ newest' = NewestAfter(e, S)
  BY <1>2
<1>. HIDE DEF due
<1>6. S \in SUBSET Threads /\ due \ S \in SUBSET Threads
  BY <1>3
<1>7. BegunTo(e, S, b)
  BY <1>0, <1>6, BegunEffect
<1>8. /\ b.receipt.acted = f.receipt.acted \ S
      /\ \A t \in Threads :
           /\ b.receipt.run[t] = IF t \in S THEN "running" ELSE f.receipt.run[t]
           /\ t \notin S => b.receipt.trigger[t] = f.receipt.trigger[t]
           /\ t \in S => b.receipt.trigger[t] = Trigger(e, t)
           /\ t \in S /\ b.receipt.trigger[t] = "resume" => t \in f.resumes
  <2>1. \A t \in Threads : Trigger(e, t) = "resume" => t \in f.resumes
    BY <1>0 DEF Trigger
  <2>2. b.receipt = Started(e, S)
    BY <1>7 DEF BegunTo
  <2>3. QED
    BY <1>0, <1>6, <2>1, <2>2, StartedEffect
<1>9. Same(b, q) /\ q.waiting = b.waiting \cup (due \ S) /\ q.receipt.later = b.receipt.later \cup (due \ S)
  <2>1. b \in State
    BY <1>7 DEF BegunTo
  <2>. HIDE DEF b
  <2>2. QED
    BY <1>6, <2>1, QueuedEffect
<1>10. Same(q, g) /\ g.waiting = q.waiting \ (q.waiting \ (due \ S)) /\ g.receipt.later = q.receipt.later
  <2>1. q \in State
    BY <1>9 DEF Same
  <2>. HIDE DEF q
  <2>2. QED
    BY <2>1, DroppedEffect
<1>. HIDE DEF b, q, g
<1>11. Same(b, g) /\ g.waiting = due \ S /\ g.waiting \subseteq g.receipt.later
  BY <1>9, <1>10 DEF Same
<1>12. /\ g.running = f.running \cup S
       /\ Cardinality(g.running) <= Limit /\ (S = due \/ Cardinality(g.running) = Limit)
  BY <1>0, <1>5, <1>7, <1>11 DEF Fits, BegunTo, Same
<1>13. Ticked(f, g, S, due)
  <2>1. \A t \in Threads :
          /\ g.inbox[t] = IF t \in S THEN {} ELSE f.inbox[t]
          /\ g.read[t] = IF t \in S THEN f.read[t] \cup f.inbox[t] ELSE f.read[t]
    BY <1>0, <1>7, <1>11 DEF BegunTo, Same
  <2>2. \A t \in Threads :
          /\ g.receipt.run[t] = IF t \in S THEN "running" ELSE f.receipt.run[t]
          /\ t \notin S => g.receipt.trigger[t] = f.receipt.trigger[t]
          /\ t \in S /\ g.receipt.trigger[t] = "resume" => t \in f.resumes
    BY <1>8, <1>11 DEF Same
  <2>3. /\ g \in State /\ g.receipt.acted = f.receipt.acted \ S
        /\ g.beat = f.beat /\ g.closed = f.closed /\ g.paused = f.paused
        /\ g.resumes = f.resumes \ S
    BY <1>0, <1>7, <1>8, <1>11 DEF BegunTo, Same
  <2>4. g.woken => f.woken /\ Main \notin S
    BY <1>0, <1>7, <1>11 DEF BegunTo, Same
  <2>5. QED
    BY <1>3, <1>11, <1>12, <2>1, <2>2, <2>3, <2>4 DEF Ticked
<1>14. NewestTicked(f, S)
  <2>1. g \in State /\ \A t \in S : g.receipt.trigger[t] = Trigger(e, t)
    BY <1>6, <1>8, <1>11 DEF Same
  <2>2. \A t \in S : Trigger(e, t) \in Triggers
    BY DEF Trigger, Triggers
  <2>3. \A t \in Threads : newest[t] \in Runs
    OBVIOUS
  <2>4. Over \in Runs
    BY DEF Over, Runs, Triggers
  <2>5. newest' = [t \in Threads |->
                    IF t \in S THEN [by |-> Trigger(e, t), acted |-> FALSE,
                                    over |-> FALSE, lost |-> FALSE]
                    ELSE IF t \in eng.running \ f.running THEN Over ELSE newest[t]]
    BY <1>0, <1>5 DEF NewestAfter
  <2>6. \A t \in S : [by |-> Trigger(e, t), acted |-> FALSE, over |-> FALSE, lost |-> FALSE] \in Runs
    BY <2>2 DEF Runs
  <2>7. newest' \in [Threads -> Runs]
    BY <2>3, <2>4, <2>5, <2>6
  <2>8. QED
    BY <1>4, <2>1, <2>5, <2>7 DEF NewestTicked
<1>15. QED
  BY <1>3, <1>4, <1>13, <1>14 DEF g

-----------------------------------------------------------------------------
(* The invariant.                                                          *)

Shown(e) ==
  \A t \in Threads :
    /\ (e.receipt.run[t] = "running") <=> (t \in e.running)
    /\ t \in e.waiting => t \in e.receipt.later \ e.running

Unread(e) == \A t \in Threads : e.inbox[t] \cap e.read[t] = {}

\* What is to be picked up was cut off, is not going, and changed nothing but
\* what a purchase schedule's run may have.
ToPickUp(e) ==
  \A t \in e.resumes :
    /\ e.receipt.run[t] = "interrupted" /\ t \notin e.running
    /\ e.receipt.trigger[t] # "resume"
    /\ t \in e.receipt.acted => t \in Buying /\ e.receipt.trigger[t] = "routine"

Room(e) ==
  /\ Cardinality(e.running) <= Limit
  /\ ~e.paused /\ Cardinality(e.running) < Limit =>
       /\ e.waiting = {} /\ (e.woken => Main \in e.running)
       /\ \A t \in Threads : e.inbox[t] # {} => t \in e.running

\* The memory of an engine that is up, at the end of a handler but for the room.
Sound(e) ==
  /\ e \in State /\ Main \notin e.closed
  /\ Shown(e) /\ Unread(e) /\ ToPickUp(e)

\* And of one that is down.
Rest(e) ==
  /\ e \in State /\ Main \notin e.closed /\ Unread(e)
  /\ e.running = {} /\ e.waiting = {} /\ e.resumes = {}

\* The disk is never ahead of the memory.
DiskOK ==
  /\ disk \in [receipt : Receipts, read : [Threads -> SUBSET Mail]]
  /\ \A t \in Threads : disk.read[t] \subseteq eng.read[t]

\* A receipt of a run that is going or was cut off tells what began the run and
\* whether it has acted, but for one a crash has kept from the disk.
Told(e, n) ==
  \A t \in Threads :
    ~n[t].lost /\ e.receipt.run[t] \in {"running", "interrupted"} =>
      /\ ~n[t].over /\ n[t].by = e.receipt.trigger[t]
      /\ n[t].acted <=> t \in e.receipt.acted

Inv ==
  /\ up \in BOOLEAN
  /\ up => Sound(eng) /\ Room(eng)
  /\ ~up => Rest(eng)
  /\ DiskOK
  /\ newest \in [Threads -> Runs] /\ Told(eng, newest)

LEMMA TickSound ==
  ASSUME NEW f, NEW g, NEW S \in SUBSET Threads, NEW due \in SUBSET Threads,
         Sound(f), Ticked(f, g, S, due)
  PROVE  Sound(g) /\ Room(g)
<1>1. g \in State /\ Main \notin g.closed
  BY DEF Ticked, Sound
<1>2. Shown(g)
  <2>1. SUFFICES ASSUME NEW t \in Threads
        PROVE  /\ (g.receipt.run[t] = "running") <=> (t \in g.running)
               /\ t \in g.waiting => t \in g.receipt.later \ g.running
    BY DEF Shown
  <2>2. (f.receipt.run[t] = "running") <=> (t \in f.running)
    BY DEF Sound, Shown
  <2>3. /\ g.receipt.run[t] = IF t \in S THEN "running" ELSE f.receipt.run[t]
        /\ g.running = f.running \cup S
    BY DEF Ticked
  <2>4. /\ due \subseteq Threads \ f.running /\ g.waiting = due \ S
        /\ g.waiting \subseteq g.receipt.later
    BY DEF Ticked
  <2>5. QED
    BY <2>2, <2>3, <2>4
<1>3. Unread(g)
  BY DEF Ticked, Sound, Unread
<1>4. ToPickUp(g)
  <2>1. f.resumes \subseteq Threads
    BY DEF Sound, State
  <2>2. SUFFICES ASSUME NEW t \in f.resumes \ S
        PROVE  /\ g.receipt.run[t] = "interrupted" /\ t \notin g.running
               /\ g.receipt.trigger[t] # "resume"
               /\ t \in g.receipt.acted => t \in Buying /\ g.receipt.trigger[t] = "routine"
    BY DEF ToPickUp, Ticked
  <2>3. /\ f.receipt.run[t] = "interrupted" /\ t \notin f.running
        /\ f.receipt.trigger[t] # "resume"
        /\ t \in f.receipt.acted => t \in Buying /\ f.receipt.trigger[t] = "routine"
    BY DEF Sound, ToPickUp
  <2>4. /\ g.receipt.run[t] = f.receipt.run[t] /\ g.receipt.trigger[t] = f.receipt.trigger[t]
        /\ g.receipt.acted = f.receipt.acted \ S /\ g.running = f.running \cup S
    BY <2>1 DEF Ticked
  <2>5. QED
    BY <2>3, <2>4
<1>5. Room(g)
  <2>1. Cardinality(g.running) <= Limit
    BY DEF Ticked
  <2>2. SUFFICES ASSUME ~g.paused, S = due
        PROVE  /\ g.waiting = {} /\ (g.woken => Main \in g.running)
               /\ \A t \in Threads : g.inbox[t] # {} => t \in g.running
    BY <2>1, ThreadsAssumption DEF Ticked, Room
  <2>3. \A t \in Open(f) \ f.running : f.inbox[t] # {} \/ (t = Main /\ f.woken) => t \in S
    BY <2>2 DEF Ticked
  <2>4. Main \in Open(f)
    BY ThreadsAssumption DEF Sound, Open
  <2>5. \A t \in Threads : f.inbox[t] # {} => t \in Open(f)
    BY DEF Open
  <2>6. g.running = f.running \cup S /\ g.waiting = due \ S /\ (g.woken => f.woken /\ Main \notin S)
    BY DEF Ticked
  <2>7. \A t \in Threads : g.inbox[t] = IF t \in S THEN {} ELSE f.inbox[t]
    BY DEF Ticked
  <2>8. QED
    BY <2>2, <2>3, <2>4, <2>5, <2>6, <2>7
<1>6. QED
  BY <1>1, <1>2, <1>3, <1>4, <1>5 DEF Sound

-----------------------------------------------------------------------------
(* What the handlers leave to the tick.                                    *)

\* The actions the action properties are about.
MailStep ==
  \A t \in Threads, m \in Mail :
    /\ m \in eng.inbox[t] =>
         IF m \in eng'.inbox[t] THEN m \notin eng'.read[t] ELSE m \in eng'.read[t]
    /\ m \in eng.read[t] =>
         /\ m \notin eng'.inbox[t]
         /\ m \in eng'.read[t] \/ Lost(t, m)

PickUpStep ==
  \A t \in eng'.running \ eng.running :
    newest'[t].by = "resume" /\ ~newest[t].lost =>
      /\ ~newest[t].over /\ newest[t].by # "resume"
      /\ newest[t].acted => t \in Buying /\ newest[t].by = "routine"

WakeUpStep ==
  \A t \in eng.running \ eng'.running : t \in eng.reset => eng'.beat[t] = eng.beat[t]

Steps == MailStep /\ PickUpStep /\ WakeUpStep

\* f is the memory with some mail added and runs ended.
From(f) ==
  /\ \A t \in Threads : eng.inbox[t] \subseteq f.inbox[t] /\ f.read[t] = eng.read[t]
  /\ f.running \subseteq eng.running
  /\ \A t \in eng.running \ f.running :
       f.receipt.run[t] = "ended" /\ (t \in eng.reset => f.beat[t] = eng.beat[t])

LEMMA SavedType ==
  ASSUME NEW e \in State
  PROVE  /\ Saved(e) \in [receipt : Receipts, read : [Threads -> SUBSET Mail]]
         /\ Saved(e).read = e.read
BY DEF Saved, State

LEMMA DiskKept ==
  ASSUME DiskOK, eng' \in State, disk' \in {Saved(eng'), disk},
         \A t \in Threads : eng.read[t] \subseteq eng'.read[t]
  PROVE  DiskOK'
<1>1. CASE disk' = disk
  BY <1>1 DEF DiskOK
<1>2. CASE disk' = Saved(eng')
  BY <1>2, SavedType DEF DiskOK
<1>3. QED
  BY <1>1, <1>2

\* Those that begin have receipts of their own, those that ended none to tell of.
LEMMA TickTells ==
  ASSUME NEW f, NEW g, NEW S \in SUBSET Threads, NEW due, From(f), g = eng',
         Told(f, newest), Ticked(f, g, S, due), NewestTicked(f, S)
  PROVE  Told(g, newest')
<1>1. SUFFICES ASSUME NEW t \in Threads, ~newest'[t].lost,
                      g.receipt.run[t] \in {"running", "interrupted"}
      PROVE  /\ ~newest'[t].over /\ newest'[t].by = g.receipt.trigger[t]
             /\ newest'[t].acted <=> t \in g.receipt.acted
  BY DEF Told
<1>2. g.receipt.acted = f.receipt.acted \ S
  BY DEF Ticked
<1>3. CASE t \in S
  <2>1. newest'[t] = [by |-> g.receipt.trigger[t], acted |-> FALSE,
                      over |-> FALSE, lost |-> FALSE]
    BY <1>3 DEF NewestTicked
  <2>2. QED
    BY <1>2, <1>3, <2>1
<1>4. CASE t \notin S
  <2>1. g.receipt.run[t] = f.receipt.run[t] /\ g.receipt.trigger[t] = f.receipt.trigger[t]
    BY <1>4 DEF Ticked
  <2>2. t \notin eng.running \ f.running
    BY <1>1, <2>1 DEF From
  <2>3. newest'[t] = newest[t]
    BY <1>4, <2>2 DEF NewestTicked
  <2>4. QED
    BY <1>1, <1>2, <1>4, <2>1, <2>3 DEF Told
<1>5. QED
  BY <1>3, <1>4

LEMMA TickKeeps ==
  ASSUME Inv, NEW f, Sound(f), From(f), Told(f, newest), Tick(f), up' = TRUE
  PROVE  Inv' /\ Steps
<1>0. f \in State /\ newest \in [Threads -> Runs]
  BY DEF Sound, Inv
<1>1. disk' \in {Saved(eng'), disk}
  BY <1>0, TickEffect
<1>2. PICK S \in SUBSET Threads, due \in SUBSET Threads :
        Ticked(f, eng', S, due) /\ NewestTicked(f, S)
  BY <1>0, TickEffect
<1>3. Sound(eng') /\ Room(eng')
  BY <1>2, TickSound
<1>4. \A t \in Threads :
        /\ eng'.inbox[t] = IF t \in S THEN {} ELSE f.inbox[t]
        /\ eng'.read[t] = IF t \in S THEN f.read[t] \cup f.inbox[t] ELSE f.read[t]
  BY <1>2 DEF Ticked
<1>5. DiskOK'
  <2>1. \A t \in Threads : eng.read[t] \subseteq eng'.read[t]
    BY <1>4 DEF From
  <2>2. eng' \in State
    BY <1>3 DEF Sound
  <2>3. QED
    BY <1>1, <2>1, <2>2, DiskKept DEF Inv
<1>6. MailStep
  BY <1>4 DEF MailStep, From, Sound, Unread
<1>7. PickUpStep
  <2>1. SUFFICES ASSUME NEW t \in eng'.running \ eng.running,
                        newest'[t].by = "resume", ~newest[t].lost
        PROVE  /\ ~newest[t].over /\ newest[t].by # "resume"
               /\ newest[t].acted => t \in Buying /\ newest[t].by = "routine"
    BY DEF PickUpStep
  <2>2. t \in S
    BY <1>2, <2>1 DEF Ticked, From
  <2>3. eng'.receipt.trigger[t] = "resume"
    BY <1>2, <2>1, <2>2 DEF NewestTicked
  <2>4. t \in f.resumes
    BY <1>2, <2>2, <2>3 DEF Ticked
  <2>5. QED
    BY <2>1, <2>2, <2>4 DEF Sound, ToPickUp, Told
<1>8. WakeUpStep
  BY <1>2 DEF WakeUpStep, From, Ticked
<1>9. Told(eng', newest')
  BY <1>2, TickTells
<1>10. newest' \in [Threads -> Runs]
  BY <1>2 DEF NewestTicked
<1>11. QED
  BY <1>3, <1>5, <1>6, <1>7, <1>8, <1>9, <1>10 DEF Inv, Steps

LEMMA GoesKeeps ==
  ASSUME Inv, NEW f, Sound(f), Room(f), From(f), Goes(f), up' = TRUE,
         f.running = eng.running, newest' \in [Threads -> Runs], Told(f, newest')
  PROVE  Inv' /\ Steps
<1>1. eng' = f /\ disk' \in {Saved(eng'), disk}
  BY DEF Goes
<1>2. eng' \in State
  BY <1>1 DEF Sound
<1>3. DiskOK'
  BY <1>1, <1>2, DiskKept DEF From, Inv
<1>4. MailStep
  BY <1>1 DEF MailStep, From, Sound, Unread
<1>5. PickUpStep /\ WakeUpStep
  BY <1>1 DEF PickUpStep, WakeUpStep
<1>6. QED
  BY <1>1, <1>3, <1>4, <1>5 DEF Inv, Steps

-----------------------------------------------------------------------------
(* The handlers.                                                           *)

\* f has the runs and the transcripts of the memory, and its mail.
Plain(f) ==
  /\ f \in State /\ Main \notin f.closed
  /\ f.receipt.run = eng.receipt.run /\ f.receipt.trigger = eng.receipt.trigger
  /\ eng.receipt.acted \subseteq f.receipt.acted
  /\ f.receipt.acted \subseteq eng.receipt.acted \cup eng.running
  /\ eng.receipt.later \subseteq f.receipt.later
  /\ f.running = eng.running /\ f.waiting \subseteq eng.waiting
  /\ f.resumes = eng.resumes /\ f.read = eng.read

LEMMA PlainSound ==
  ASSUME Inv, up, NEW f, Plain(f), f.inbox = eng.inbox
  PROVE  Sound(f) /\ From(f)
<1>1. Sound(eng)
  BY DEF Inv
<1>2. Shown(f)
  BY <1>1 DEF Plain, Sound, Shown
<1>3. Unread(f)
  BY <1>1 DEF Plain, Sound, Unread
<1>4. ToPickUp(f)
  BY <1>1 DEF Plain, Sound, ToPickUp
<1>5. From(f)
  BY DEF Plain, From
<1>6. QED
  BY <1>2, <1>3, <1>4, <1>5 DEF Sound, Plain

LEMMA PlainTold ==
  ASSUME Inv, NEW f, Plain(f), f.receipt.acted = eng.receipt.acted
  PROVE  Told(f, newest)
BY DEF Inv, Plain, Told

LEMMA GiveKeeps ==
  ASSUME Inv, NEW t \in Threads, NEW m \in Mail, Give(t, m)
  PROVE  Inv' /\ Steps
<1> DEFINE f == [eng EXCEPT !.inbox[t] = @ \cup {m}, !.closed = @ \ {t}]
<1>1. up /\ Sound(eng) /\ ~Given(m) /\ Tick(f) /\ up' = TRUE
  BY DEF Give, Inv
<1>2. /\ f \in State /\ f.receipt = eng.receipt /\ f.running = eng.running
      /\ f.waiting = eng.waiting /\ f.resumes = eng.resumes /\ f.read = eng.read
      /\ f.closed = eng.closed \ {t}
      /\ f.inbox = [eng.inbox EXCEPT ![t] = @ \cup {m}]
  BY <1>1 DEF Sound, State
<1>. HIDE DEF f
<1>3. \A u \in Threads : f.inbox[u] = IF u = t THEN eng.inbox[u] \cup {m} ELSE eng.inbox[u]
  BY <1>1, <1>2 DEF Sound, State
<1>4. Unread(f)
  BY <1>1, <1>2, <1>3 DEF Sound, Unread, Given
<1>5. Sound(f) /\ From(f)
  <2>1. Shown(f) /\ ToPickUp(f)
    BY <1>1, <1>2 DEF Sound, Shown, ToPickUp
  <2>2. From(f)
    BY <1>1, <1>2, <1>3 DEF From
  <2>3. QED
    BY <1>1, <1>2, <1>4, <2>1, <2>2 DEF Sound
<1>6. Told(f, newest)
  BY <1>2 DEF Inv, Told
<1>7. QED
  BY <1>1, <1>5, <1>6, TickKeeps

LEMMA WakeKeeps ==
  ASSUME Inv, Wake
  PROVE  Inv' /\ Steps
<1> DEFINE f == [eng EXCEPT !.woken = TRUE]
<1>1. up /\ Sound(eng) /\ Tick(f) /\ up' = TRUE
  BY DEF Wake, Inv
<1>2. Plain(f) /\ f.inbox = eng.inbox /\ f.receipt = eng.receipt
  BY <1>1 DEF Plain, Sound, State
<1>3. Sound(f) /\ From(f) /\ Told(f, newest)
  BY <1>1, <1>2, PlainSound, PlainTold
<1>4. QED
  BY <1>1, <1>3, TickKeeps

LEMMA RetryKeeps ==
  ASSUME Inv, NEW t \in Threads, Retry(t)
  PROVE  Inv' /\ Steps
<1> DEFINE f == [eng EXCEPT !.retries = @ \cup {t}, !.closed = @ \ {t}]
<1>1. up /\ Sound(eng) /\ Tick(f) /\ up' = TRUE
  BY DEF Retry, Inv
<1>2. Plain(f) /\ f.inbox = eng.inbox /\ f.receipt = eng.receipt
  BY <1>1 DEF Plain, Sound, State
<1>3. Sound(f) /\ From(f) /\ Told(f, newest)
  BY <1>1, <1>2, PlainSound, PlainTold
<1>4. QED
  BY <1>1, <1>3, TickKeeps

\* Dropping what waits leaves the rest, and leaves room if there was.
LEMMA DropPlain ==
  ASSUME Inv, up, NEW f, NEW W, Plain(f), f.inbox = eng.inbox,
         f.receipt = eng.receipt,
         ~f.paused => f.paused = eng.paused /\ f.woken = eng.woken
  PROVE  /\ Sound(Dropped(f, W)) /\ From(Dropped(f, W)) /\ Room(Dropped(f, W))
         /\ Told(Dropped(f, W), newest) /\ Dropped(f, W).running = eng.running
<1> DEFINE g == Dropped(f, W)
<1>1. f \in State
  BY DEF Plain
<1>2. Same(f, g) /\ g.waiting = f.waiting \ W /\ g.receipt.later = f.receipt.later
  BY <1>1, DroppedEffect
<1>. HIDE DEF g
<1>3. Plain(g) /\ g.inbox = eng.inbox
  BY <1>2 DEF Plain, Same
<1>4. Sound(g) /\ From(g)
  BY <1>3, PlainSound
<1>5. Room(g)
  BY <1>2, <1>3 DEF Inv, Room, Plain, Same
<1>6. Told(g, newest) /\ g.running = eng.running
  BY <1>2, <1>3, PlainTold DEF Plain, Same
<1>7. QED
  BY <1>4, <1>5, <1>6 DEF g

LEMMA CloseKeeps ==
  ASSUME Inv, NEW t \in Threads, Close(t)
  PROVE  Inv' /\ Steps
<1> DEFINE f == [eng EXCEPT !.closed = @ \cup {t}, !.beat[t] = "none"]
<1>1. /\ up /\ Sound(eng) /\ t # Main /\ Goes(Dropped(f, {t})) /\ up' = TRUE
      /\ newest' = newest /\ newest \in [Threads -> Runs]
  BY DEF Close, Inv
<1>2. /\ Plain(f) /\ f.inbox = eng.inbox /\ f.receipt = eng.receipt
      /\ f.paused = eng.paused /\ f.woken = eng.woken
  BY <1>1 DEF Plain, Sound, State
<1>. HIDE DEF f
<1>3. QED
  BY <1>1, <1>2, DropPlain, GoesKeeps

LEMMA PauseKeeps ==
  ASSUME Inv, Pause
  PROVE  Inv' /\ Steps
<1> DEFINE f == [eng EXCEPT !.paused = TRUE]
<1>1. /\ up /\ Sound(eng) /\ Goes(Dropped(f, Threads)) /\ up' = TRUE
      /\ newest' = newest /\ newest \in [Threads -> Runs]
  BY DEF Pause, Inv
<1>2. /\ Plain(f) /\ f.inbox = eng.inbox /\ f.receipt = eng.receipt
      /\ (~f.paused => f.paused = eng.paused /\ f.woken = eng.woken)
  BY <1>1 DEF Plain, Sound, State
<1>. HIDE DEF f
<1>3. /\ Sound(Dropped(f, Threads)) /\ From(Dropped(f, Threads)) /\ Room(Dropped(f, Threads))
      /\ Told(Dropped(f, Threads), newest) /\ Dropped(f, Threads).running = eng.running
  BY <1>1, <1>2, DropPlain
<1>4. QED
  BY <1>1, <1>3, GoesKeeps

LEMMA UnpauseKeeps ==
  ASSUME Inv, Unpause
  PROVE  Inv' /\ Steps
<1> DEFINE f == [eng EXCEPT !.paused = FALSE]
<1>1. up /\ Sound(eng) /\ Tick(f) /\ up' = TRUE
  BY DEF Unpause, Inv
<1>2. Plain(f) /\ f.inbox = eng.inbox /\ f.receipt = eng.receipt
  BY <1>1 DEF Plain, Sound, State
<1>3. Sound(f) /\ From(f) /\ Told(f, newest)
  BY <1>1, <1>2, PlainSound, PlainTold
<1>4. QED
  BY <1>1, <1>3, TickKeeps

LEMMA TimerKeeps ==
  ASSUME Inv, Timer
  PROVE  Inv' /\ Steps
<1>1. up /\ Sound(eng) /\ Tick(eng) /\ up' = TRUE
  BY DEF Timer, Inv
<1>2. Plain(eng)
  BY <1>1 DEF Plain, Sound
<1>3. QED
  BY <1>1, <1>2, PlainSound, PlainTold, TickKeeps

\* What changes nothing that the room depends on.
LEMMA PlainKeeps ==
  ASSUME Inv, up, NEW f, Plain(f), f.inbox = eng.inbox, f.waiting = eng.waiting,
         f.paused = eng.paused, f.woken = eng.woken, Goes(f), up' = TRUE,
         newest' \in [Threads -> Runs], Told(f, newest')
  PROVE  Inv' /\ Steps
<1>1. Room(f)
  BY DEF Inv, Room, Plain
<1>2. QED
  BY <1>1, PlainSound, GoesKeeps DEF Plain

LEMMA ReopenKeeps ==
  ASSUME Inv, NEW t \in Threads, Reopen(t)
  PROVE  Inv' /\ Steps
<1> DEFINE f == [eng EXCEPT !.closed = @ \ {t}]
<1>1. /\ up /\ Sound(eng) /\ Goes(f) /\ up' = TRUE
      /\ newest' = newest /\ newest \in [Threads -> Runs]
  BY DEF Reopen, Inv
<1>2. /\ Plain(f) /\ f.inbox = eng.inbox /\ f.waiting = eng.waiting /\ f.receipt = eng.receipt
      /\ f.paused = eng.paused /\ f.woken = eng.woken
  BY <1>1 DEF Plain, Sound, State
<1>3. QED
  BY <1>1, <1>2, PlainTold, PlainKeeps

LEMMA ActKeeps ==
  ASSUME Inv, NEW t \in Threads, Act(t)
  PROVE  Inv' /\ Steps
<1> DEFINE r == [eng.receipt EXCEPT !.acted = @ \cup {t}]
           f == [eng EXCEPT !.receipt = r]
<1>1. up /\ Sound(eng) /\ t \in eng.running /\ up' = TRUE
  BY DEF Act, Inv
<1>2. Goes(f)
  BY <1>1 DEF Act, Sound, State, Receipts
<1>3. /\ r \in Receipts /\ r.run = eng.receipt.run /\ r.trigger = eng.receipt.trigger
      /\ r.acted = eng.receipt.acted \cup {t} /\ r.later = eng.receipt.later
  BY <1>1 DEF Sound, State, Receipts
<1>. HIDE DEF r
<1>4. /\ Plain(f) /\ f.inbox = eng.inbox /\ f.waiting = eng.waiting
      /\ f.paused = eng.paused /\ f.woken = eng.woken
  BY <1>1, <1>3 DEF Plain, Sound, State
<1>5. /\ newest' \in [Threads -> Runs]
      /\ \A u \in Threads :
           /\ newest'[u].lost = newest[u].lost /\ newest'[u].over = newest[u].over
           /\ newest'[u].by = newest[u].by
           /\ newest'[u].acted = IF u = t THEN TRUE ELSE newest[u].acted
  <2>1. newest \in [Threads -> Runs] /\ newest' = [newest EXCEPT ![t].acted = TRUE]
    BY DEF Act, Inv
  <2>2. QED
    BY <2>1 DEF Runs
<1>6. Told(f, newest')
  <2>1. f.receipt = r
    BY <1>1 DEF Sound, State
  <2>2. Told(eng, newest)
    BY DEF Inv
  <2>. HIDE DEF f
  <2>3. SUFFICES ASSUME NEW u \in Threads, ~newest'[u].lost,
                        f.receipt.run[u] \in {"running", "interrupted"}
        PROVE  /\ ~newest'[u].over /\ newest'[u].by = f.receipt.trigger[u]
               /\ newest'[u].acted <=> u \in f.receipt.acted
    BY DEF Told
  <2>4. /\ ~newest[u].over /\ newest[u].by = eng.receipt.trigger[u]
        /\ newest[u].acted <=> u \in eng.receipt.acted
    BY <1>3, <1>5, <2>1, <2>2, <2>3 DEF Told
  <2>5. newest'[u].acted <=> u \in f.receipt.acted
    <3>1. CASE u = t
      BY <1>3, <1>5, <2>1, <3>1
    <3>2. CASE u # t
      <4>1. newest'[u].acted = newest[u].acted
        BY <1>5, <3>2
      <4>2. u \in f.receipt.acted <=> u \in eng.receipt.acted
        BY <1>3, <2>1, <3>2
      <4>3. QED
        BY <2>4, <4>1, <4>2
    <3>3. QED
      BY <3>1, <3>2
  <2>6. QED
    BY <1>3, <1>5, <2>1, <2>4, <2>5
<1>7. QED
  BY <1>1, <1>2, <1>4, <1>5, <1>6, PlainKeeps

LEMMA SetBeatKeeps ==
  ASSUME Inv, NEW t \in Threads, SetBeat(t)
  PROVE  Inv' /\ Steps
<1>1. /\ up /\ Sound(eng) /\ up' = TRUE
      /\ newest' = newest /\ newest \in [Threads -> Runs]
  BY DEF SetBeat, Inv
<1>2. PICK b \in {"set", "none"} : Goes([eng EXCEPT !.beat[t] = b, !.reset = @ \cup {t}])
  BY DEF SetBeat
<1> DEFINE f == [eng EXCEPT !.beat[t] = b, !.reset = @ \cup {t}]
<1>3. /\ Plain(f) /\ f.inbox = eng.inbox /\ f.waiting = eng.waiting /\ f.receipt = eng.receipt
      /\ f.paused = eng.paused /\ f.woken = eng.woken
  BY <1>1 DEF Plain, Sound, State
<1>4. QED
  BY <1>1, <1>2, <1>3, PlainTold, PlainKeeps

LEMMA FinishKeeps ==
  ASSUME Inv, NEW t \in Threads, Finish(t)
  PROVE  Inv' /\ Steps
<1>1. up /\ Sound(eng) /\ t \in eng.running /\ up' = TRUE
  BY DEF Finish, Inv
<1> DEFINE r == Ended(eng.receipt, t)
           g(b) == [eng EXCEPT !.running = @ \ {t}, !.beat[t] = b,
                               !.slots = @ \ (eng.took \cap {t}),
                               !.fired = @ \ {t}, !.took = @ \ {t},
                               !.reset = @ \ {t}, !.receipt = r]
<1>2. PICK b \in BeatAfter(eng, t) : Tick(g(b))
  BY DEF Finish
<1> DEFINE f == g(b)
<1>3. eng.receipt \in Receipts /\ b \in {"none", "set", "due"}
  BY <1>1, <1>2 DEF Sound, State, BeatAfter
<1>4. /\ r \in Receipts /\ r.acted = eng.receipt.acted \ {t} /\ r.later = eng.receipt.later
      /\ r.run[t] = "ended"
      /\ \A u \in Threads \ {t} : r.run[u] = eng.receipt.run[u] /\ r.trigger[u] = eng.receipt.trigger[u]
  BY <1>3 DEF Ended, Receipts, RunStates, Triggers
<1>. HIDE DEF r
<1>5. /\ f \in State /\ f.receipt = r /\ f.running = eng.running \ {t} /\ f.waiting = eng.waiting
      /\ f.resumes = eng.resumes /\ f.read = eng.read /\ f.inbox = eng.inbox /\ f.closed = eng.closed
      /\ f.beat[t] = b /\ \A u \in Threads \ {t} : f.beat[u] = eng.beat[u]
  BY <1>1, <1>3, <1>4 DEF Sound, State
<1>. HIDE DEF f
<1>6. Shown(f)
  BY <1>1, <1>4, <1>5 DEF Sound, Shown
<1>7. eng.resumes \subseteq Threads \ {t}
  BY <1>1 DEF Sound, State, ToPickUp
<1>8. ToPickUp(f)
  BY <1>1, <1>4, <1>5, <1>7 DEF Sound, ToPickUp
<1>9. From(f)
  <2>1. t \in eng.reset => f.beat[t] = eng.beat[t]
    BY <1>2, <1>5 DEF BeatAfter
  <2>2. QED
    BY <1>4, <1>5, <2>1 DEF From
<1>10. Sound(f)
  BY <1>1, <1>5, <1>6, <1>8 DEF Sound, Unread
<1>11. Told(f, newest)
  BY <1>4, <1>5 DEF Inv, Told
<1>12. QED
  BY <1>1, <1>2, <1>9, <1>10, <1>11, TickKeeps DEF f

\* The state in which nothing runs that was: recover's receipts.
LEMMA InterruptedEffect ==
  ASSUME NEW e \in State
  PROVE  LET i == Interrupted(e) IN
         /\ i \in State
         /\ i = [e EXCEPT !.receipt = i.receipt]
         /\ i.receipt.trigger = e.receipt.trigger /\ i.receipt.acted = e.receipt.acted
         /\ i.receipt.later = e.receipt.later
         /\ \A t \in Threads :
              i.receipt.run[t] = IF e.receipt.run[t] = "running" THEN "interrupted" ELSE e.receipt.run[t]
<1> DEFINE r == [e.receipt EXCEPT
                   !.run = [t \in Threads |-> IF @[t] = "running" THEN "interrupted" ELSE @[t]],
                   !.past = @ \cup {t \in Retried : e.receipt.run[t] = "running"}]
           g == [e EXCEPT !.receipt = r]
<1>1. e.receipt \in Receipts
  BY DEF State
<1>2. /\ r \in Receipts /\ r.trigger = e.receipt.trigger /\ r.acted = e.receipt.acted
      /\ r.later = e.receipt.later
      /\ \A t \in Threads :
           r.run[t] = IF e.receipt.run[t] = "running" THEN "interrupted" ELSE e.receipt.run[t]
  BY <1>1 DEF Receipts, RunStates
<1>3. Interrupted(e) = g
  BY DEF Interrupted, State, Receipts
<1>. HIDE DEF r
<1>4. g \in State /\ g.receipt = r
  BY <1>2 DEF State
<1>5. QED
  BY <1>2, <1>3, <1>4

LEMMA LaunchKeeps ==
  ASSUME Inv, Launch
  PROVE  Inv' /\ Steps
<1> DEFINE e == Interrupted(eng)
<1>1. Rest(eng) /\ ~up /\ up' = TRUE
  BY DEF Launch, Inv
<1>2. PICK clear \in SUBSET NothingBought(e) :
        Tick([e EXCEPT !.resumes = (CutOff(e) \ e.receipt.acted) \cup clear,
                       !.receipt.past = @ \cup (e.receipt.later \cap Retried)])
  BY DEF Launch
<1>3. /\ e \in State /\ e = [eng EXCEPT !.receipt = e.receipt]
      /\ e.receipt.trigger = eng.receipt.trigger /\ e.receipt.acted = eng.receipt.acted
      /\ \A t \in Threads :
           e.receipt.run[t] = IF eng.receipt.run[t] = "running" THEN "interrupted" ELSE eng.receipt.run[t]
  BY <1>1, InterruptedEffect DEF Rest
<1>. HIDE DEF e
<1> DEFINE R == (CutOff(e) \ e.receipt.acted) \cup clear
           r == [e.receipt EXCEPT !.past = @ \cup (e.receipt.later \cap Retried)]
           f == [e EXCEPT !.resumes = R, !.receipt = r]
<1>4. Tick(f)
  BY <1>2, <1>3 DEF State, Receipts
<1>5. /\ r \in Receipts /\ r.run = e.receipt.run /\ r.trigger = e.receipt.trigger
      /\ r.acted = e.receipt.acted /\ r.later = e.receipt.later
  BY <1>3 DEF State, Receipts
<1>6. \A t \in R :
        /\ t \in Threads /\ e.receipt.run[t] = "interrupted"
        /\ e.receipt.trigger[t] # "resume"
        /\ t \in e.receipt.acted => t \in Buying /\ e.receipt.trigger[t] = "routine"
  BY DEF CutOff, NothingBought
<1>. HIDE DEF r, R
<1>7. /\ f \in State /\ f.receipt = r /\ f.resumes = R /\ f.closed = eng.closed
      /\ f.running = {} /\ f.waiting = {} /\ f.inbox = eng.inbox /\ f.read = eng.read
  <2>1. /\ e.closed = eng.closed /\ e.running = {} /\ e.waiting = {}
        /\ e.inbox = eng.inbox /\ e.read = eng.read
    BY <1>1, <1>3 DEF Rest, State
  <2>2. R \in SUBSET Threads
    BY <1>6
  <2>3. QED
    BY <1>3, <1>5, <2>1, <2>2 DEF State
<1>. HIDE DEF f
<1>8. Sound(f)
  <2>1. Shown(f)
    BY <1>3, <1>5, <1>7 DEF Shown
  <2>2. ToPickUp(f)
    BY <1>5, <1>6, <1>7 DEF ToPickUp
  <2>3. QED
    BY <1>1, <1>7, <2>1, <2>2 DEF Sound, Rest, Unread
<1>9. From(f)
  BY <1>1, <1>7 DEF From, Rest
<1>10. Told(f, newest)
  BY <1>3, <1>5, <1>7 DEF Inv, Told
<1>11. QED
  BY <1>1, <1>4, <1>8, <1>9, <1>10, TickKeeps DEF f

-----------------------------------------------------------------------------
(* Time, writes, and the end of the process.                               *)

\* The clock changes nothing the invariant speaks of.
LEMMA TimeKeeps ==
  ASSUME Inv, UNCHANGED <<up, disk, newest>>,
         eng' \in State, eng'.receipt = eng.receipt, eng'.running = eng.running,
         eng'.waiting = eng.waiting, eng'.resumes = eng.resumes, eng'.read = eng.read,
         eng'.inbox = eng.inbox, eng'.closed = eng.closed, eng'.paused = eng.paused,
         eng'.woken = eng.woken
  PROVE  Inv' /\ Steps
<1>1. Told(eng', newest') /\ newest' \in [Threads -> Runs]
  BY DEF Inv, Told
<1>2. CASE up
  <2>1. Sound(eng) /\ Room(eng)
    BY <1>2 DEF Inv
  <2>2. Sound(eng')
    BY <2>1 DEF Sound, Shown, Unread, ToPickUp
  <2>3. Room(eng')
    BY <2>1 DEF Room
  <2>4. DiskOK'
    BY DEF DiskOK, Inv
  <2>5. Steps
    BY <2>1 DEF Steps, MailStep, PickUpStep, WakeUpStep, Sound, Unread
  <2>6. QED
    BY <1>2, <1>1, <2>2, <2>3, <2>4, <2>5 DEF Inv
<1>3. CASE ~up
  <2>1. Rest(eng)
    BY <1>3 DEF Inv
  <2>2. Rest(eng')
    BY <2>1 DEF Rest, Unread
  <2>3. DiskOK'
    BY DEF DiskOK, Inv
  <2>4. Steps
    BY <2>1 DEF Steps, MailStep, PickUpStep, WakeUpStep, Rest, Unread
  <2>5. QED
    BY <1>3, <1>1, <2>2, <2>3, <2>4 DEF Inv
<1>4. QED
  BY <1>2, <1>3

LEMMA BeatDueKeeps ==
  ASSUME Inv, NEW t \in Threads, BeatDue(t)
  PROVE  Inv' /\ Steps
<1>1. eng \in State
  BY DEF Inv, Sound, Rest
<1>2. /\ eng' \in State /\ eng'.receipt = eng.receipt /\ eng'.running = eng.running
      /\ eng'.waiting = eng.waiting /\ eng'.resumes = eng.resumes /\ eng'.read = eng.read
      /\ eng'.inbox = eng.inbox /\ eng'.closed = eng.closed /\ eng'.paused = eng.paused
      /\ eng'.woken = eng.woken
  BY <1>1 DEF BeatDue, State
<1>3. UNCHANGED <<up, disk, newest>>
  BY DEF BeatDue
<1>4. QED
  BY <1>2, <1>3, TimeKeeps

LEMMA SlotDueKeeps ==
  ASSUME Inv, NEW t \in Routines, SlotDue(t)
  PROVE  Inv' /\ Steps
<1>1. eng \in State
  BY DEF Inv, Sound, Rest
<1>2. /\ eng' \in State /\ eng'.receipt = eng.receipt /\ eng'.running = eng.running
      /\ eng'.waiting = eng.waiting /\ eng'.resumes = eng.resumes /\ eng'.read = eng.read
      /\ eng'.inbox = eng.inbox /\ eng'.closed = eng.closed /\ eng'.paused = eng.paused
      /\ eng'.woken = eng.woken
  BY <1>1 DEF SlotDue, State
<1>3. UNCHANGED <<up, disk, newest>>
  BY DEF SlotDue
<1>4. QED
  BY <1>2, <1>3, TimeKeeps

\* A memory that goes down keeps its mail, its wake-ups and what is closed.
Down(e, g) ==
  /\ g \in State /\ g.closed = e.closed /\ g.beat = e.beat /\ g.inbox = e.inbox
  /\ g.running = {} /\ g.waiting = {} /\ g.resumes = {}

LEMMA ForgottenEffect ==
  ASSUME NEW e \in State
  PROVE  /\ Down(e, Forgotten(e)) /\ Forgotten(e).read = e.read
         /\ Forgotten(e).receipt = e.receipt
BY DEF Forgotten, Down, State

LEMMA QuitKeeps ==
  ASSUME Inv, Quit
  PROVE  Inv' /\ Steps
<1> DEFINE d == Dropped(eng, Threads)
           i == Interrupted(d)
<1>1. /\ up /\ up' = FALSE /\ Sound(eng) /\ eng' = Forgotten(i) /\ disk' = Saved(eng')
  BY DEF Quit, Inv
<1>2. Same(eng, d)
  BY <1>1, DroppedEffect DEF Sound
<1>. HIDE DEF d
<1>3. /\ i \in State /\ i = [d EXCEPT !.receipt = i.receipt]
      /\ i.receipt.trigger = d.receipt.trigger /\ i.receipt.acted = d.receipt.acted
      /\ \A t \in Threads :
           i.receipt.run[t] = IF d.receipt.run[t] = "running" THEN "interrupted" ELSE d.receipt.run[t]
  BY <1>2, InterruptedEffect DEF Same
<1>. HIDE DEF i
<1>4. i.closed = d.closed /\ i.beat = d.beat /\ i.inbox = d.inbox /\ i.read = d.read
  BY <1>2, <1>3 DEF Same, State
<1>5. Down(i, eng') /\ eng'.read = i.read
  BY <1>1, <1>3, ForgottenEffect
<1>6. /\ eng'.closed = eng.closed /\ eng'.beat = eng.beat /\ eng'.inbox = eng.inbox
      /\ eng'.read = eng.read /\ eng'.running = {}
  BY <1>2, <1>4, <1>5 DEF Same, Down
<1>7. Rest(eng')
  BY <1>1, <1>5, <1>6 DEF Sound, Rest, Unread, Down
<1>8. DiskOK'
  BY <1>1, <1>6, <1>7, DiskKept DEF Inv, Rest
<1>9. MailStep
  BY <1>1, <1>6 DEF MailStep, Sound, Unread
<1>10. PickUpStep /\ WakeUpStep
  BY <1>6 DEF PickUpStep, WakeUpStep
<1>11. Told(eng', newest') /\ newest' \in [Threads -> Runs]
  <2>1. newest' = newest /\ newest \in [Threads -> Runs] /\ Told(eng, newest)
    BY DEF Quit, Inv
  <2>2. /\ eng'.receipt.trigger = eng.receipt.trigger /\ eng'.receipt.acted = eng.receipt.acted
        /\ \A t \in Threads :
             eng'.receipt.run[t] = IF eng.receipt.run[t] = "running" THEN "interrupted"
                                   ELSE eng.receipt.run[t]
    BY <1>1, <1>2, <1>3, ForgottenEffect DEF Same
  <2>3. QED
    BY <2>1, <2>2 DEF Told
<1>12. QED
  BY <1>1, <1>7, <1>8, <1>9, <1>10, <1>11 DEF Inv, Steps

LEMMA CrashKeeps ==
  ASSUME Inv, Crash
  PROVE  Inv' /\ Steps
<1> DEFINE g == Forgotten(eng)
<1>1. /\ up /\ up' = FALSE /\ Sound(eng) /\ disk' = disk
      /\ eng' = [g EXCEPT !.receipt = disk.receipt, !.read = disk.read]
  BY DEF Crash, Inv
<1>2. Down(eng, g)
  BY <1>1, ForgottenEffect DEF Sound
<1>3. /\ disk \in [receipt : Receipts, read : [Threads -> SUBSET Mail]]
      /\ \A t \in Threads : disk.read[t] \subseteq eng.read[t]
  BY DEF Inv, DiskOK
<1>. HIDE DEF g
<1>4. Down(eng, eng') /\ eng'.read = disk.read
  BY <1>1, <1>2, <1>3 DEF Down, State
<1>5. Rest(eng')
  BY <1>1, <1>3, <1>4 DEF Sound, Rest, Unread, Down
<1>6. DiskOK'
  BY <1>1, <1>3, <1>4 DEF DiskOK
<1>7. MailStep
  BY <1>1, <1>3, <1>4 DEF MailStep, Sound, Unread, Down, Lost
<1>8. PickUpStep /\ WakeUpStep
  BY <1>4 DEF PickUpStep, WakeUpStep, Down
<1>9. Told(eng', newest') /\ newest' \in [Threads -> Runs]
  <2>1. newest \in [Threads -> Runs] /\ Told(eng, newest)
    BY DEF Inv
  <2>2. newest' = [t \in Threads |->
                    [newest[t] EXCEPT
                       !.lost = @ \/ Says(disk.receipt, t) # Says(eng.receipt, t)]]
    BY DEF Crash
  <2>3. \A t \in Threads :
          /\ newest'[t] \in Runs
          /\ newest'[t].over = newest[t].over /\ newest'[t].by = newest[t].by
          /\ newest'[t].acted = newest[t].acted
          /\ ~newest'[t].lost => ~newest[t].lost /\ Says(disk.receipt, t) = Says(eng.receipt, t)
    BY <2>1, <2>2 DEF Runs
  <2>4. newest' \in [Threads -> Runs]
    BY <2>2, <2>3
  <2>5. eng'.receipt = disk.receipt
    BY <1>1, <1>2 DEF Down, State
  <2>6. \A t \in Threads : ~newest'[t].lost =>
          /\ eng'.receipt.run[t] = eng.receipt.run[t]
          /\ eng'.receipt.trigger[t] = eng.receipt.trigger[t]
          /\ t \in eng'.receipt.acted <=> t \in eng.receipt.acted
    BY <2>3, <2>5 DEF Says
  <2>7. QED
    BY <2>1, <2>3, <2>4, <2>6 DEF Told
<1>10. QED
  BY <1>1, <1>5, <1>6, <1>7, <1>8, <1>9 DEF Inv, Steps

LEMMA LandKeeps ==
  ASSUME Inv, Land
  PROVE  Inv' /\ Steps
<1>1. eng \in State /\ UNCHANGED <<up, eng, newest>>
  BY DEF Inv, Sound, Rest, Land
<1>2. /\ disk \in [receipt : Receipts, read : [Threads -> SUBSET Mail]]
      /\ \A t \in Threads : disk.read[t] \subseteq eng.read[t]
  BY DEF Inv, DiskOK
<1>3. DiskOK'
  <2>1. CASE disk' = [disk EXCEPT !.receipt = eng.receipt]
    BY <1>1, <1>2, <2>1 DEF DiskOK, State
  <2>2. ASSUME NEW t \in Threads, disk' = [disk EXCEPT !.read[t] = eng.read[t]]
        PROVE  DiskOK'
    BY <1>1, <1>2, <2>2 DEF DiskOK, State
  <2>3. QED
    BY <2>1, <2>2 DEF Land
<1>4. MailStep
  BY <1>1 DEF MailStep, Inv, Sound, Rest, Unread
<1>5. PickUpStep /\ WakeUpStep
  BY <1>1 DEF PickUpStep, WakeUpStep
<1>6. QED
  BY <1>1, <1>3, <1>4, <1>5 DEF Inv, Steps

-----------------------------------------------------------------------------
(* The theorems.                                                           *)

LEMMA InvInit == Init => Inv
<1>1. SUFFICES ASSUME Init PROVE Inv
  OBVIOUS
<1>2. NoReceipts \in Receipts
  BY DEF NoReceipts, Receipts, RunStates, Triggers
<1>3. /\ eng \in State /\ eng.receipt = NoReceipts /\ eng.running = {} /\ eng.waiting = {}
      /\ eng.resumes = {} /\ eng.closed = {} /\ eng.woken = FALSE
      /\ \A t \in Threads : eng.inbox[t] = {} /\ eng.read[t] = {}
  BY <1>1, <1>2 DEF Init, State
<1>4. \A t \in Threads : NoReceipts.run[t] = "none"
  BY DEF NoReceipts
<1>5. Sound(eng)
  BY <1>3, <1>4 DEF Sound, Shown, Unread, ToPickUp
<1>6. Room(eng)
  <2>1. Cardinality({}) = 0
    BY FS_EmptySet
  <2>2. ~eng.woken
    BY <1>3
  <2>3. QED
    BY <1>3, <2>1, <2>2, ThreadsAssumption DEF Room
<1>7. DiskOK
  <2>1. disk = [receipt |-> NoReceipts, read |-> [t \in Threads |-> {}]]
    BY <1>1 DEF Init
  <2>2. QED
    BY <1>2, <1>3, <2>1 DEF DiskOK
<1>8. Told(eng, newest) /\ newest \in [Threads -> Runs]
  <2>1. newest = [t \in Threads |-> Over] /\ Over \in Runs
    BY <1>1 DEF Init, Over, Runs, Triggers
  <2>2. QED
    BY <1>3, <1>4, <2>1 DEF Told
<1>9. QED
  BY <1>1, <1>5, <1>6, <1>7, <1>8 DEF Init, Inv

LEMMA InvStep == Inv /\ [Next]_vars => Inv' /\ [Steps]_vars
<1>1. SUFFICES ASSUME Inv, Next PROVE Inv' /\ Steps
  BY DEF vars, Inv, DiskOK
<1>2. ASSUME NEW t \in Threads, NEW m \in Mail, Give(t, m) PROVE Inv' /\ Steps
  BY <1>1, <1>2, GiveKeeps
<1>3. ASSUME NEW t \in Threads,
             Retry(t) \/ Close(t) \/ Reopen(t) \/ Act(t) \/ SetBeat(t) \/ Finish(t) \/ BeatDue(t)
      PROVE  Inv' /\ Steps
  BY <1>1, <1>3, RetryKeeps, CloseKeeps, ReopenKeeps, ActKeeps, SetBeatKeeps, FinishKeeps, BeatDueKeeps
<1>4. ASSUME NEW r \in Routines, SlotDue(r) PROVE Inv' /\ Steps
  BY <1>1, <1>4, SlotDueKeeps
<1>5. CASE Wake \/ Pause \/ Unpause \/ Timer
  BY <1>1, <1>5, WakeKeeps, PauseKeeps, UnpauseKeeps, TimerKeeps
<1>6. CASE Quit \/ Crash \/ Land \/ Launch
  BY <1>1, <1>6, QuitKeeps, CrashKeeps, LandKeeps, LaunchKeeps
<1>7. QED
  BY <1>1, <1>2, <1>3, <1>4, <1>5, <1>6 DEF Next

LEMMA Invariance == Spec => []Inv /\ [][Steps]_vars
<1>1. QED
  BY InvInit, InvStep, PTL DEF Spec

\* Every field keeps its type, on the disk and in the history too.
THEOREM TypeCorrect == Spec => []TypeOK
<1>1. Inv => TypeOK
  BY DEF Inv, Sound, Rest, DiskOK, TypeOK
<1>2. QED
  BY <1>1, Invariance, PTL

\* While the app is up the receipts say of every thread what it is doing
\* (engine.ts begin, finish, markQueued; executions.ts recover).
THEOREM RunsAsShownCorrect == Spec => []RunsAsShown
<1>1. Inv => RunsAsShown
  BY DEF Inv, Sound, Shown, RunsAsShown
<1>2. QED
  BY <1>1, Invariance, PTL

\* For any limit: never more runs than it, and nothing waits that is due while
\* there is room (engine.ts tick).
THEOREM RoomIsUsedCorrect == Spec => []RoomIsUsed
<1>1. Inv => RoomIsUsed
  <2>1. Cardinality({}) <= Limit
    BY FS_EmptySet, ThreadsAssumption
  <2>2. QED
    BY <2>1 DEF Inv, Rest, Room, RoomIsUsed
<1>2. QED
  BY <1>1, Invariance, PTL

\* Mail is in the inbox or in the transcript, never in both, over quits, crashes
\* and slow writes; what a crash takes is only what had not landed (engine.ts begin,
\* stop, load).
THEOREM MailKeptCorrect == Spec => MailKept
<1>1. [Steps]_vars => [MailStep]_vars
  BY DEF Steps
<1>2. Spec => [][MailStep]_vars
  BY <1>1, Invariance, PTL
<1>3. QED
  BY <1>2 DEF MailKept, MailStep

\* A run is picked up only if it really was cut off, was no pick-up itself and had
\* really changed nothing, but for a purchase schedule's that bought nothing; unless
\* a crash came before what its receipt said last was on disk (engine.ts load,
\* start, onToolRun; executions.ts).
THEOREM PickedUpOnceCorrect == Spec => PickedUpOnce
<1>1. [Steps]_vars => [PickUpStep]_vars
  BY DEF Steps
<1>2. Spec => [][PickUpStep]_vars
  BY <1>1, Invariance, PTL
<1>3. QED
  BY <1>2 DEF PickedUpOnce, PickUpStep

\* A wake-up chosen in a run outlives the run, however it ends (engine.ts finish).
THEOREM ChosenWakeUpKeptCorrect == Spec => ChosenWakeUpKept
<1>1. [Steps]_vars => [WakeUpStep]_vars
  BY DEF Steps
<1>2. Spec => [][WakeUpStep]_vars
  BY <1>1, Invariance, PTL
<1>3. QED
  BY <1>2 DEF ChosenWakeUpKept, WakeUpStep

=============================================================================
