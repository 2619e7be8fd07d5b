---------------------------- MODULE SchedulerProofs ----------------------------
(***************************************************************************)
(* A settled record stays as it is, and a run the user stopped is not made *)
(* again by the app: for any schedules and limits, also with the clock set *)
(* back, over any quits, crashes and launches.  So with the types.         *)
(*                                                                         *)
(* While the clock only goes forward, each slot is run for once at most and*)
(* none passes silently, and what was cut off is made again once at most.  *)
(*                                                                         *)
(* The first two need neither types nor the arithmetic of slots: records   *)
(* are told apart by their ids alone.                                      *)
(***************************************************************************)
EXTENDS Scheduler, FiniteSetTheorems, TLAPS

Fields == {"id", "at", "status", "quit", "retryOf", "blockedBy", "slot"}

\* Records numbered up to m, each number once.
Good(rs, m) ==
  /\ \A r \in rs : DOMAIN r = Fields /\ r.id \in 1 .. m
  /\ \A r, q \in rs : r.id = q.id => r = q

\* The runs file is what the app has in memory.
FilesOK ==
  /\ made \in Nat
  /\ DOMAIN disk = {"runs", "task"}
  /\ Good(disk.runs, made)
  /\ up # "off" => runs = disk.runs

\* The run in progress: only it is recorded as running, and no quit has cut it
\* off before there was one.
ProgressOK ==
  /\ up \in {"off", "loaded", "on", "stopped"}
  /\ active = None \/ active \in 1 .. made
  /\ work = None \/ work = active
  /\ up = "off" => active = None /\ cutOff = {}
  /\ up # "off" => \A r \in disk.runs : r.status = "running" => r.id = active
  /\ up \in {"loaded", "on"} => \A r \in disk.runs : r.id = active => ~r.quit

\* What the user stopped is neither running on disk once the app has ended, nor
\* recorded as cut off, nor waiting to be tried again, nor tried again.
StoppedOK ==
  /\ \A id \in stopped : id \in 1 .. made
  /\ active \in stopped => byUser = TRUE
  /\ \A r \in disk.runs : r.id \in stopped => ~r.quit /\ (up = "off" => r.status # "running")
  /\ \A id \in cutOff : id \in 1 .. made /\ id # active /\ id \notin stopped
  /\ \A p \in retried : p[1] \in 1 .. made /\ p[1] # active /\ p[1] \notin stopped

Inv == FilesOK /\ ProgressOK /\ StoppedOK

\* The action SettledStays is about.
Keeps == \A r \in disk.runs, q \in disk'.runs :
           r.id = q.id /\ r.status # "running" => q.status = r.status /\ q.quit = r.quit

-----------------------------------------------------------------------------
(* Records.                                                                *)

LEMMA NoneNotId == \A i \in Int : i # None
BY NoneAssumption

\* The record with another status is the record with another status.
LEMMA MarkedRecord ==
  ASSUME NEW r, DOMAIN r = Fields, NEW status, NEW quit
  PROVE  LET q == [r EXCEPT !.status = status, !.quit = quit]
         IN DOMAIN q = Fields /\ q.id = r.id /\ q.status = status /\ q.quit = quit
BY DEF Fields

LEMMA FailedRecord ==
  ASSUME NEW r, DOMAIN r = Fields
  PROVE  LET q == [r EXCEPT !.status = "failed"]
         IN DOMAIN q = Fields /\ q.id = r.id /\ q.status = "failed" /\ q.quit = r.quit
BY DEF Fields

\* A new record has the next id.
LEMMA NewRecord ==
  /\ DOMAIN Blank = Fields /\ Blank.id = made + 1 /\ ~Blank.quit
  /\ \A of, slot :
       /\ LET q == [Blank EXCEPT !.retryOf = of]
          IN DOMAIN q = Fields /\ q.id = made + 1 /\ ~q.quit /\ q.status = "running"
       /\ LET q == [Blank EXCEPT !.slot = slot]
          IN DOMAIN q = Fields /\ q.id = made + 1 /\ ~q.quit /\ q.status = "running"
       /\ LET q == [Blank EXCEPT !.at = slot, !.status = "missed"]
          IN DOMAIN q = Fields /\ q.id = made + 1 /\ ~q.quit /\ q.status = "missed"
       /\ LET q == [Blank EXCEPT !.at = slot, !.status = "skipped", !.blockedBy = of]
          IN DOMAIN q = Fields /\ q.id = made + 1 /\ ~q.quit /\ q.status = "skipped"
BY DEF Blank, Fields

\* Settling changes one record, and only what it says.
LEMMA SettledRecords ==
  ASSUME NEW rs, NEW m, Good(rs, m), NEW id, NEW status, NEW quit
  PROVE  /\ Good(Settled(rs, id, status, quit), m)
         /\ \A q \in Settled(rs, id, status, quit) : \E r \in rs :
              /\ q.id = r.id
              /\ r.id = id => q.status = status /\ q.quit = quit
              /\ r.id # id => q = r
<1> DEFINE Mark(r) == IF r.id = id THEN [r EXCEPT !.status = status, !.quit = quit] ELSE r
<1>1. Settled(rs, id, status, quit) = {Mark(r) : r \in rs}
  BY DEF Settled
<1>2. ASSUME NEW r \in rs
      PROVE  /\ DOMAIN Mark(r) = Fields /\ Mark(r).id = r.id /\ r.id \in 1 .. m
             /\ r.id = id => Mark(r).status = status /\ Mark(r).quit = quit
             /\ r.id # id => Mark(r) = r
  <2>1. DOMAIN r = Fields /\ r.id \in 1 .. m
    BY DEF Good
  <2>2. QED
    BY <2>1, MarkedRecord
<1> HIDE DEF Mark
<1>3. QED
  BY <1>1, <1>2 DEF Good

\* So does finding runs cut off.
LEMMA FailedRecords ==
  ASSUME NEW rs, NEW m, Good(rs, m)
  PROVE  LET fs == {IF r.status = "running" THEN [r EXCEPT !.status = "failed"] ELSE r : r \in rs}
         IN /\ Good(fs, m)
            /\ \A q \in fs : \E r \in rs :
                 /\ q.id = r.id /\ q.quit = r.quit /\ q.status # "running"
                 /\ r.status # "running" => q = r
<1> DEFINE Mark(r) == IF r.status = "running" THEN [r EXCEPT !.status = "failed"] ELSE r
<1>2. ASSUME NEW r \in rs
      PROVE  /\ DOMAIN Mark(r) = Fields /\ Mark(r).id = r.id /\ r.id \in 1 .. m
             /\ Mark(r).quit = r.quit /\ Mark(r).status # "running"
             /\ r.status # "running" => Mark(r) = r
  <2>1. DOMAIN r = Fields /\ r.id \in 1 .. m
    BY DEF Good
  <2>2. QED
    BY <2>1, FailedRecord
<1>3. SUFFICES LET fs == {Mark(r) : r \in rs}
               IN /\ Good(fs, m)
                  /\ \A q \in fs : \E r \in rs :
                       /\ q.id = r.id /\ q.quit = r.quit /\ q.status # "running"
                       /\ r.status # "running" => q = r
  OBVIOUS
<1> HIDE DEF Mark
<1>4. QED
  BY <1>2 DEF Good

\* What a commit keeps are some of the records it is given, in memory and in
\* the file.
LEMMA CommitFiles ==
  ASSUME FilesOK, NEW t, NEW rs, NEW m, Good(rs, m), Commit(t, rs)
  PROVE  /\ DOMAIN disk' = {"runs", "task"} /\ runs' = disk'.runs
         /\ disk'.runs \subseteq rs /\ Good(disk'.runs, m)
<1>1. Trim(t, rs) \subseteq rs
  BY DEF Trim
<1>2. runs' = Trim(t, rs) /\ disk' = [disk EXCEPT !.runs = Trim(t, rs)]
  BY DEF Commit
<1>3. DOMAIN disk' = {"runs", "task"} /\ disk'.runs = Trim(t, rs)
  BY <1>2 DEF FilesOK
<1>4. QED
  BY <1>1, <1>2, <1>3 DEF Good

\* What an addition, a change and a mere rewrite of the records do.
Adds(new) ==
  /\ DOMAIN disk' = {"runs", "task"} /\ runs' = disk'.runs
  /\ made' = made + 1 /\ new.id = made + 1
  /\ Good(disk'.runs, made') /\ disk'.runs \subseteq disk.runs \cup {new}

Rewrites ==
  /\ DOMAIN disk' = {"runs", "task"} /\ runs' = disk'.runs /\ made' = made
  /\ Good(disk'.runs, made') /\ disk'.runs \subseteq disk.runs

Settles(id, quit) ==
  /\ DOMAIN disk' = {"runs", "task"} /\ runs' = disk'.runs /\ made' = made
  /\ Good(disk'.runs, made')
  /\ \E r \in disk.runs : r.id = id /\ r.status = "running"
  /\ \A q \in disk'.runs : \E r \in disk.runs :
       /\ q.id = r.id
       /\ r.id = id => q.status # "running" /\ (q.quit => quit)
       /\ r.id # id => q = r

LEMMA AddOne ==
  ASSUME FilesOK, up # "off", NEW t, NEW new, DOMAIN new = Fields, new.id = made + 1,
         Commit(t, runs \cup {new}), made' = made + 1
  PROVE  Adds(new)
<1>1. Good(runs \cup {new}, made + 1)
  BY DEF FilesOK, Good
<1>2. QED
  BY <1>1, CommitFiles DEF Adds, FilesOK

LEMMA RewriteAll ==
  ASSUME FilesOK, up # "off", NEW t, Commit(t, runs), made' = made
  PROVE  Rewrites
BY CommitFiles DEF Rewrites, FilesOK

LEMMA SettleOne ==
  ASSUME FilesOK, up # "off", NEW t, NEW id, NEW status, status # "running", NEW quit,
         Recorded(id), Commit(t, Settled(runs, id, status, quit)), made' = made
  PROVE  Settles(id, quit)
<1>1. runs = disk.runs /\ Good(runs, made)
  BY DEF FilesOK
<1>2. Good(Settled(runs, id, status, quit), made)
  BY <1>1, SettledRecords
<1>3. DOMAIN disk' = {"runs", "task"} /\ runs' = disk'.runs /\ Good(disk'.runs, made)
      /\ disk'.runs \subseteq Settled(runs, id, status, quit)
  BY <1>2, CommitFiles
<1>4. QED
  BY <1>1, <1>3, SettledRecords DEF Settles, Recorded

-----------------------------------------------------------------------------
(* What each action does to the records.                                   *)

LEMMA BeginAdds ==
  ASSUME FilesOK, up # "off", NEW t, NEW new, DOMAIN new = Fields, new.id = made + 1,
         Begin(t, new)
  PROVE  Adds(new) /\ active' = made + 1 /\ UNCHANGED <<up, work, byUser, stopped>>
BY AddOne DEF Begin

\* A check of what is due adds one record at most.
LEMMA TickAdds ==
  ASSUME FilesOK, Tick
  PROVE  /\ up = "on" /\ UNCHANGED <<up, work, byUser, cutOff, retried, stopped>>
         /\ \/ Rewrites /\ active' = active
            \/ \E new : Adds(new) /\ ~new.quit /\ new.status # "running" /\ active' = active
            \/ \E new : Adds(new) /\ ~new.quit /\ active = None /\ active' = made + 1
<1>1. up = "on" /\ UNCHANGED <<up, work, byUser, cutOff, retried, stopped>>
  BY DEF Tick
<1>2. CASE Skip
  <2>1. CASE \E r \in runs : r.blockedBy = active
    BY <1>1, <1>2, <2>1, RewriteAll DEF Skip
  <2>2. CASE ~\E r \in runs : r.blockedBy = active
    <3> DEFINE new == [Blank EXCEPT !.at = task.next, !.status = "skipped",
                                    !.blockedBy = active]
    <3>1. DOMAIN new = Fields /\ new.id = made + 1 /\ ~new.quit /\ new.status = "skipped"
      BY NewRecord
    <3>2. Commit(Advance(task), runs \cup {new}) /\ made' = made + 1 /\ active' = active
      BY <1>2, <2>2 DEF Skip
    <3> HIDE DEF new
    <3>3. Adds(new)
      BY <1>1, <3>1, <3>2, AddOne
    <3>4. QED
      BY <1>1, <3>1, <3>2, <3>3
  <2>3. QED
    BY <2>1, <2>2
<1>3. CASE PullIn
  BY <1>1, <1>3, RewriteAll DEF PullIn
<1>4. CASE Miss
  <2> DEFINE new == [Blank EXCEPT !.at = latestDue(task), !.status = "missed"]
             t == [Advance(task) EXCEPT !.lastStatus = "missed"]
  <2>1. DOMAIN new = Fields /\ new.id = made + 1 /\ ~new.quit /\ new.status = "missed"
    BY NewRecord
  <2>2. Commit(t, runs \cup {new}) /\ made' = made + 1 /\ active' = active
    BY <1>4 DEF Miss
  <2> HIDE DEF new, t
  <2>3. Adds(new)
    BY <1>1, <2>1, <2>2, AddOne
  <2>4. QED
    BY <1>1, <2>1, <2>2, <2>3
<1>5. CASE Run
  <2> DEFINE new == [Blank EXCEPT !.slot = latestDue(task)]
  <2>1. DOMAIN new = Fields /\ new.id = made + 1 /\ ~new.quit
    BY NewRecord
  <2>2. Begin(Advance(task), new) /\ active = None
    BY <1>5 DEF Run
  <2> HIDE DEF new
  <2>3. Adds(new) /\ active' = made + 1
    BY <1>1, <2>1, <2>2, BeginAdds
  <2>4. QED
    BY <1>1, <2>1, <2>2, <2>3
<1>6. QED
  BY <1>2, <1>3, <1>4, <1>5 DEF Tick

LEMMA RunNowAdds ==
  ASSUME FilesOK, RunNow
  PROVE  /\ up \in {"loaded", "on"} /\ active = None /\ active' = made + 1
         /\ UNCHANGED <<up, work, byUser, cutOff, retried, stopped>>
         /\ \E new : Adds(new) /\ ~new.quit
<1>1. up \in {"loaded", "on"} /\ active = None /\ UNCHANGED <<cutOff, retried>>
  BY DEF RunNow, Ready
<1>2. PICK of : Begin(task, [Blank EXCEPT !.retryOf = of])
  BY DEF RunNow
<1> DEFINE new == [Blank EXCEPT !.retryOf = of]
<1>3. DOMAIN new = Fields /\ new.id = made + 1 /\ ~new.quit
  BY NewRecord
<1>4. Begin(task, new)
  BY <1>2
<1> HIDE DEF new
<1>5. Adds(new) /\ active' = made + 1 /\ UNCHANGED <<up, work, byUser, stopped>>
  BY <1>1, <1>3, <1>4, BeginAdds
<1>6. QED
  BY <1>1, <1>3, <1>5

\* The app tries again what it found cut off, or nothing.
LEMMA ResumeAdds ==
  ASSUME FilesOK, Resume
  PROVE  /\ up = "on" /\ cutOff' = {} /\ UNCHANGED <<up, work, byUser, stopped>>
         /\ \/ /\ active = None /\ active' = made + 1
               /\ \E new : Adds(new) /\ ~new.quit
               /\ \E id \in cutOff : retried' = retried \cup {<<id, made + 1>>}
            \/ UNCHANGED <<runs, active, disk, made, retried>>
<1>1. up = "on" /\ cutOff' = {}
  BY DEF Resume, Ready
<1>2. CASE UNCHANGED <<now, up, task, runs, active, work, byUser, between, disk, made, ghosts>>
  BY <1>1, <1>2 DEF ghosts
<1>3. ASSUME NEW r \in Candidates, active = None, Begin(task, [Blank EXCEPT !.retryOf = r.id]),
             retried' = retried \cup {<<r.id, made + 1>>}
      PROVE  /\ UNCHANGED <<up, work, byUser, stopped>> /\ active' = made + 1
             /\ \E new : Adds(new) /\ ~new.quit
             /\ r.id \in cutOff
  <2> DEFINE new == [Blank EXCEPT !.retryOf = r.id]
  <2>1. DOMAIN new = Fields /\ new.id = made + 1 /\ ~new.quit
    BY NewRecord
  <2>2. Begin(task, new)
    BY <1>3
  <2> HIDE DEF new
  <2>3. Adds(new) /\ active' = made + 1 /\ UNCHANGED <<up, work, byUser, stopped>>
    BY <1>1, <2>1, <2>2, BeginAdds
  <2>4. r.id \in cutOff
    BY <1>3 DEF Candidates
  <2>5. QED
    BY <2>1, <2>3, <2>4
<1>4. QED
  BY <1>1, <1>2, <1>3 DEF Resume

\* The user's changes settle nothing.
LEMMA UserRewrites ==
  ASSUME FilesOK, Save \/ SetEnabled \/ Remove
  PROVE  /\ Rewrites /\ up # "off"
         /\ UNCHANGED <<up, active, work, byUser, cutOff, retried, stopped>>
<1>1. up # "off" /\ made' = made /\ UNCHANGED <<up, active, work, byUser, cutOff, retried, stopped>>
  BY DEF Save, SetEnabled, Remove, Ready, ghosts
<1>2. \E t : Commit(t, runs)
  BY DEF Save, SetEnabled, Remove
<1>3. QED
  BY <1>1, <1>2, RewriteAll

LEMMA ReportSettles ==
  ASSUME FilesOK, Report
  PROVE  /\ up # "off" /\ work # None /\ active' = None /\ work' = None /\ byUser' = FALSE
         /\ UNCHANGED <<up, cutOff, retried, stopped>>
         /\ \/ Settles(work, FALSE)
            \/ ~Recorded(work) /\ UNCHANGED <<runs, disk, made>>
<1>1. /\ up # "off" /\ work # None /\ active' = None /\ work' = None /\ byUser' = FALSE
      /\ made' = made /\ UNCHANGED <<up, cutOff, retried, stopped>>
  BY DEF Report, ghosts
<1>2. CASE Recorded(work)
  <2>1. \E t : Commit(t, Settled(runs, work, "ended", FALSE))
    BY <1>2 DEF Report
  <2>2. QED
    BY <1>1, <1>2, <2>1, SettleOne
<1>3. CASE ~Recorded(work)
  BY <1>1, <1>3 DEF Report
<1>4. QED
  BY <1>2, <1>3

LEMMA QuitSettles ==
  ASSUME FilesOK, Quit
  PROVE  /\ up \in {"loaded", "on"} /\ up' = "stopped"
         /\ UNCHANGED <<active, work, byUser, cutOff, retried, stopped>>
         /\ \/ Settles(active, ~byUser)
            \/ UNCHANGED <<runs, disk, made>>
<1>1. /\ up \in {"loaded", "on"} /\ up' = "stopped" /\ made' = made
      /\ UNCHANGED <<active, work, byUser, cutOff, retried, stopped>>
  BY DEF Quit, ghosts
<1>2. CASE Recorded(active)
  <2>1. \E t : Commit(t, Settled(runs, active, "cancelled", ~byUser))
    BY <1>2 DEF Quit
  <2>2. QED
    BY <1>1, <1>2, <2>1, SettleOne
<1>3. CASE ~Recorded(active)
  BY <1>1, <1>3 DEF Quit
<1>4. QED
  BY <1>2, <1>3

\* At launch what was running has failed; the rest is read as it is.
LEMMA LoadReads ==
  ASSUME FilesOK, Load
  PROVE  /\ up = "off" /\ up' = "loaded" /\ active' = None /\ work' = None /\ byUser' = FALSE
         /\ UNCHANGED <<made, retried, stopped>>
         /\ \A id \in cutOff' : \E r \in disk.runs :
              r.id = id /\ (r.status = "running" \/ r.quit)
         /\ DOMAIN disk' = {"runs", "task"} /\ runs' = disk'.runs /\ Good(disk'.runs, made)
         /\ \A q \in disk'.runs : \E r \in disk.runs :
              /\ q.id = r.id /\ q.quit = r.quit /\ q.status # "running"
              /\ r.status # "running" => q = r
<1>1. /\ up = "off" /\ up' = "loaded" /\ active' = None /\ work' = None /\ byUser' = FALSE
      /\ UNCHANGED <<made, retried, stopped>>
  BY DEF Load, ghosts
<1>2. cutOff' = {r.id : r \in {q \in disk.runs :
                   /\ q.status = "running" \/ q.quit
                   /\ \A other \in disk.runs : other.retryOf # q.id}}
  BY DEF Load
<1>3. \A id \in cutOff' : \E r \in disk.runs : r.id = id /\ (r.status = "running" \/ r.quit)
  BY <1>2
<1> DEFINE fs == {IF r.status = "running" THEN [r EXCEPT !.status = "failed"] ELSE r : r \in disk.runs}
<1>4. \E t : Commit(t, fs)
  BY DEF Load
<1>5. /\ Good(fs, made)
      /\ \A q \in fs : \E r \in disk.runs :
           /\ q.id = r.id /\ q.quit = r.quit /\ q.status # "running"
           /\ r.status # "running" => q = r
  BY FailedRecords DEF FilesOK
<1> HIDE DEF fs
<1>6. DOMAIN disk' = {"runs", "task"} /\ runs' = disk'.runs /\ disk'.runs \subseteq fs
      /\ Good(disk'.runs, made)
  BY <1>4, <1>5, CommitFiles
<1>7. QED
  BY <1>1, <1>3, <1>5, <1>6

\* What leaves the records alone.
LEMMA QuietSteps ==
  ASSUME FilesOK, SaveTask \/ Cancel \/ Clock \/ Start
  PROVE  /\ disk'.runs = disk.runs /\ DOMAIN disk' = {"runs", "task"}
         /\ UNCHANGED <<runs, active, cutOff, made, retried>>
         /\ work' = work \/ work' = active
         /\ up' = up \/ (up = "loaded" /\ up' = "on")
         /\ \/ UNCHANGED <<byUser, stopped>>
            \/ /\ up \in {"loaded", "on"} /\ active # None
               /\ byUser' = TRUE /\ stopped' = stopped \cup {active}
<1>1. disk' = disk \/ disk' = [disk EXCEPT !.task = task]
  BY DEF SaveTask, Cancel, Clock, Start
<1>2. disk'.runs = disk.runs /\ DOMAIN disk' = {"runs", "task"}
  BY <1>1 DEF FilesOK
<1>3. CASE SaveTask
  BY <1>2, <1>3 DEF SaveTask
<1>4. CASE Cancel
  BY <1>2, <1>4 DEF Cancel, Ready
<1>5. CASE Clock \/ Start
  BY <1>2, <1>5 DEF Clock, Start, memory, ghosts
<1>6. QED
  BY <1>3, <1>4, <1>5

-----------------------------------------------------------------------------
(* The invariant.                                                          *)

LEMMA InvInit == Init => Inv
<1> SUFFICES ASSUME Init PROVE Inv
  OBVIOUS
<1>1. disk.runs = {} /\ DOMAIN disk = {"runs", "task"}
  BY DEF Init
<1>2. FilesOK
  BY <1>1 DEF Init, FilesOK, Good
<1>3. ProgressOK
  BY <1>1 DEF Init, ProgressOK
<1>4. StoppedOK
  BY <1>1 DEF Init, StoppedOK
<1>5. QED
  BY <1>2, <1>3, <1>4 DEF Inv

LEMMA FilesStep == FilesOK /\ ProgressOK /\ [Next]_vars => FilesOK' /\ Keeps
<1> SUFFICES ASSUME FilesOK, ProgressOK, [Next]_vars PROVE FilesOK' /\ Keeps
  OBVIOUS
<1>1. ASSUME NEW new, Adds(new) PROVE FilesOK' /\ Keeps
  <2>1. Keeps
    BY <1>1 DEF Adds, Keeps, FilesOK, Good
  <2>2. FilesOK'
    BY <1>1 DEF Adds, FilesOK
  <2>3. QED
    BY <2>1, <2>2
<1>2. ASSUME Rewrites PROVE FilesOK' /\ Keeps
  BY <1>2 DEF Rewrites, Keeps, FilesOK, Good
<1>3. ASSUME NEW id, NEW quit, Settles(id, quit) PROVE FilesOK' /\ Keeps
  <2>1. Keeps
    BY <1>3 DEF Settles, Keeps, FilesOK, Good
  <2>2. FilesOK'
    BY <1>3 DEF Settles, FilesOK
  <2>3. QED
    BY <2>1, <2>2
<1>4. CASE Load
  <2>1. FilesOK'
    BY <1>4, LoadReads DEF FilesOK
  <2>2. ASSUME NEW r \in disk.runs, NEW q \in disk'.runs, r.id = q.id, r.status # "running"
        PROVE  q = r
    <3>1. PICK p \in disk.runs : q.id = p.id /\ (p.status # "running" => q = p)
      BY <1>4, LoadReads
    <3>2. QED
      BY <2>2, <3>1 DEF FilesOK, Good
  <2>3. QED
    BY <2>1, <2>2 DEF Keeps
<1>5. ASSUME disk'.runs = disk.runs, DOMAIN disk' = {"runs", "task"}, made' = made,
             runs' = runs \/ up' = "off", up = "off" => up' = "off"
      PROVE  FilesOK' /\ Keeps
  BY <1>5 DEF FilesOK, Good, Keeps
<1>6. CASE SaveTask \/ Cancel \/ Clock \/ Start
  BY <1>5, <1>6, QuietSteps
<1>7. CASE End
  BY <1>5, <1>7 DEF End, FilesOK
<1>8. CASE Quit
  BY <1>3, <1>5, <1>8, QuitSettles DEF FilesOK
<1>9. CASE Report
  BY <1>3, <1>5, <1>9, ReportSettles DEF FilesOK
<1>10. CASE Tick
  BY <1>1, <1>2, <1>10, TickAdds
<1>11. CASE RunNow
  BY <1>1, <1>11, RunNowAdds
<1>12. CASE Resume
  BY <1>1, <1>5, <1>12, ResumeAdds DEF FilesOK
<1>13. CASE Save \/ SetEnabled \/ Remove
  BY <1>2, <1>13, UserRewrites
<1>14. CASE UNCHANGED vars
  BY <1>5, <1>14 DEF vars, memory, FilesOK
<1>15. QED
  BY <1>4, <1>6, <1>7, <1>8, <1>9, <1>10, <1>11, <1>12, <1>13, <1>14 DEF Next

LEMMA ProgressStep == Inv /\ [Next]_vars => ProgressOK'
<1> SUFFICES ASSUME Inv, [Next]_vars PROVE ProgressOK'
  OBVIOUS
<1> USE NoneAssumption DEF Inv
<1>1. made \in Nat /\ \A r \in disk.runs : r.id \in 1 .. made
  BY DEF FilesOK, Good
<1>2. CASE Load
  BY <1>1, <1>2, LoadReads DEF ProgressOK
<1>3. CASE SaveTask \/ Cancel \/ Clock \/ Start
  BY <1>3, QuietSteps DEF ProgressOK
<1>4. CASE End
  BY <1>4 DEF End, ProgressOK
<1>5. CASE Quit
  <2>1. CASE Settles(active, ~byUser)
    BY <1>5, <2>1, QuitSettles DEF Settles, ProgressOK
  <2>2. CASE UNCHANGED <<runs, disk, made>>
    BY <1>5, <2>2, QuitSettles DEF ProgressOK
  <2>3. QED
    BY <1>5, <2>1, <2>2, QuitSettles
<1>6. CASE Report
  <2>1. CASE Settles(work, FALSE)
    <3>1. work = active /\ up' = up /\ active' = None /\ work' = None /\ up # "off"
      BY <1>6, ReportSettles DEF ProgressOK
    <3>2. \A q \in disk'.runs : q.status # "running"
      BY <2>1, <3>1 DEF Settles, ProgressOK
    <3>3. \A q \in disk'.runs : q.id # None
      BY <1>1, <2>1 DEF Settles, Good
    <3>4. QED
      BY <3>1, <3>2, <3>3 DEF ProgressOK
  <2>2. CASE ~Recorded(work) /\ UNCHANGED <<runs, disk, made>>
    <3>1. work = active /\ up' = up /\ active' = None /\ work' = None /\ up # "off"
      BY <1>6, ReportSettles DEF ProgressOK
    <3>2. \A q \in disk'.runs : q.status # "running"
      BY <2>2, <3>1 DEF ProgressOK, FilesOK, Recorded
    <3>3. \A q \in disk'.runs : q.id # None
      BY <1>1, <2>2
    <3>4. QED
      BY <3>1, <3>2, <3>3 DEF ProgressOK
  <2>3. QED
    BY <1>6, <2>1, <2>2, ReportSettles
<1>7. ASSUME NEW new, Adds(new), ~new.quit, active = None, active' = made + 1,
             up \in {"loaded", "on"}, UNCHANGED <<up, work>>
      PROVE  ProgressOK'
  BY <1>1, <1>7 DEF Adds, ProgressOK
<1>8. CASE Tick
  <2>1. CASE Rewrites /\ active' = active
    BY <1>8, <2>1, TickAdds DEF Rewrites, ProgressOK
  <2>2. ASSUME NEW new, Adds(new), ~new.quit, new.status # "running", active' = active
        PROVE  ProgressOK'
    BY <1>1, <1>8, <2>2, TickAdds DEF Adds, ProgressOK
  <2>3. QED
    BY <1>7, <1>8, <2>1, <2>2, TickAdds
<1>9. CASE RunNow
  BY <1>7, <1>9, RunNowAdds
<1>10. CASE Resume
  <2>1. CASE UNCHANGED <<runs, active, disk, made, retried>>
    BY <1>10, <2>1, ResumeAdds DEF ProgressOK
  <2>2. QED
    BY <1>7, <1>10, <2>1, ResumeAdds
<1>11. CASE Save \/ SetEnabled \/ Remove
  BY <1>11, UserRewrites DEF Rewrites, ProgressOK
<1>12. CASE UNCHANGED vars
  BY <1>12 DEF vars, memory, ProgressOK
<1>13. QED
  BY <1>2, <1>3, <1>4, <1>5, <1>6, <1>8, <1>9, <1>10, <1>11, <1>12 DEF Next

LEMMA StoppedStep == Inv /\ [Next]_vars => StoppedOK'
<1> SUFFICES ASSUME Inv, [Next]_vars PROVE StoppedOK'
  OBVIOUS
<1> USE NoneAssumption DEF Inv
<1>1. made \in Nat /\ \A r \in disk.runs : r.id \in 1 .. made
  BY DEF FilesOK, Good
<1>2. CASE Load
  <2>1. \A r \in disk'.runs : r.id \in stopped' => ~r.quit
    BY <1>2, LoadReads DEF StoppedOK
  <2>2. \A id \in cutOff' : id \in 1 .. made' /\ id # active' /\ id \notin stopped'
    BY <1>1, <1>2, LoadReads DEF StoppedOK
  <2>3. QED
    BY <1>2, <2>1, <2>2, LoadReads DEF StoppedOK
<1>3. CASE SaveTask \/ Cancel \/ Clock \/ Start
  <2>1. CASE UNCHANGED <<byUser, stopped>>
    BY <1>3, <2>1, QuietSteps DEF StoppedOK
  <2>2. CASE /\ up \in {"loaded", "on"} /\ active # None
             /\ byUser' = TRUE /\ stopped' = stopped \cup {active}
    BY <1>3, <2>2, QuietSteps DEF StoppedOK, ProgressOK
  <2>3. QED
    BY <1>3, <2>1, <2>2, QuietSteps
<1>4. CASE End
  BY <1>1, <1>4 DEF End, StoppedOK
<1>5. CASE Quit
  <2>1. CASE Settles(active, ~byUser)
    <3>1. ASSUME NEW q \in disk'.runs, q.id \in stopped, q.quit PROVE FALSE
      <4>1. PICK r \in disk.runs :
              /\ q.id = r.id
              /\ r.id = active => (q.quit => ~byUser)
              /\ r.id # active => q = r
        BY <2>1 DEF Settles
      <4>2. (active \in stopped => byUser = TRUE) /\ (r.id \in stopped => ~r.quit)
        BY DEF StoppedOK
      <4>3. QED
        BY <3>1, <4>1, <4>2
    <3>2. /\ made' = made /\ up' = "stopped"
          /\ UNCHANGED <<active, byUser, cutOff, retried, stopped>>
      BY <1>5, <2>1, QuitSettles DEF Settles
    <3>3. QED
      BY <3>1, <3>2 DEF StoppedOK
  <2>2. CASE UNCHANGED <<runs, disk, made>>
    BY <1>5, <2>2, QuitSettles DEF StoppedOK
  <2>3. QED
    BY <1>5, <2>1, <2>2, QuitSettles
<1>6. CASE Report
  <2>1. CASE Settles(work, FALSE)
    BY <1>1, <1>6, <2>1, ReportSettles DEF Settles, StoppedOK
  <2>2. CASE ~Recorded(work) /\ UNCHANGED <<runs, disk, made>>
    BY <1>1, <1>6, <2>2, ReportSettles DEF StoppedOK
  <2>3. QED
    BY <1>6, <2>1, <2>2, ReportSettles
<1>7. ASSUME NEW new, Adds(new), ~new.quit, active' = made + 1, up # "off",
             UNCHANGED <<up, cutOff, stopped, byUser, retried>>
      PROVE  StoppedOK'
  BY <1>1, <1>7 DEF Adds, StoppedOK
<1>8. CASE Tick
  <2>1. CASE Rewrites /\ active' = active
    BY <1>8, <2>1, TickAdds DEF Rewrites, StoppedOK
  <2>2. ASSUME NEW new, Adds(new), ~new.quit, active' = active
        PROVE  StoppedOK'
    BY <1>1, <1>8, <2>2, TickAdds DEF Adds, StoppedOK
  <2>3. QED
    BY <1>7, <1>8, <2>1, <2>2, TickAdds
<1>9. CASE RunNow
  BY <1>7, <1>9, RunNowAdds
<1>10. CASE Resume
  <2>1. CASE UNCHANGED <<runs, active, disk, made, retried>>
    BY <1>10, <2>1, ResumeAdds DEF StoppedOK
  <2>2. ASSUME NEW new, Adds(new), ~new.quit, active' = made + 1,
               NEW id \in cutOff, retried' = retried \cup {<<id, made + 1>>}
        PROVE  StoppedOK'
    BY <1>1, <1>10, <2>2, ResumeAdds DEF Adds, StoppedOK
  <2>3. QED
    BY <1>10, <2>1, <2>2, ResumeAdds
<1>11. CASE Save \/ SetEnabled \/ Remove
  BY <1>11, UserRewrites DEF Rewrites, StoppedOK
<1>12. CASE UNCHANGED vars
  BY <1>12 DEF vars, memory, ghosts, StoppedOK
<1>13. QED
  BY <1>2, <1>3, <1>4, <1>5, <1>6, <1>8, <1>9, <1>10, <1>11, <1>12 DEF Next

LEMMA InvStep == Inv /\ [Next]_vars => Inv' /\ Keeps
BY FilesStep, ProgressStep, StoppedStep DEF Inv

LEMMA Invariance == Spec => []Inv
<1>1. QED
  BY InvInit, InvStep, PTL DEF Spec

-----------------------------------------------------------------------------
(* The theorems.                                                           *)

\* Once a record on disk is settled no report, quit or launch changes what it
\* says (engine.ts finish, stop and load).
THEOREM SettledStaysCorrect == Spec => SettledStays
<1>1. Inv /\ [Next]_vars => [Keeps]_vars
  BY InvStep
<1>2. Spec => [][Keeps]_vars
  BY <1>1, Invariance, PTL DEF Spec
<1>3. QED
  BY <1>2 DEF SettledStays, Keeps

\* A run the user stopped is not made again by the app, whatever quits, crashes
\* and launches follow (engine.ts cancel and stop, service.ts
\* resumeCutOffPurchases).
THEOREM UserStopIsFinalCorrect == Spec => []UserStopIsFinal
<1>1. Inv => UserStopIsFinal
  BY DEF Inv, StoppedOK, UserStopIsFinal
<1>2. QED
  BY <1>1, Invariance, PTL

-----------------------------------------------------------------------------
(* Slots.                                                                  *)

\* The multiples of a number.
LEMMA Multiples ==
  ASSUME NEW a \in Nat \ {0}, NEW t \in Nat, NEW s \in Nat, s % a = 0, t < s
  PROVE  (t \div a + 1) * a <= s
<1>1. t \div a \in Nat /\ s \div a \in Nat
  OBVIOUS
<1>2. s = a * (s \div a)
  OBVIOUS
<1>3. a * (t \div a) <= t
  OBVIOUS
<1> DEFINE k == t \div a
           q == s \div a
<1>4. a \in Nat \ {0} /\ k \in Nat /\ q \in Nat /\ a * k < a * q
  BY <1>1, <1>2, <1>3
<1> HIDE DEF k, q
<1>5. k < q
  BY <1>4
<1>6. (k + 1) * a <= a * q
  BY <1>4, <1>5
<1>7. QED
  BY <1>2, <1>6 DEF k, q

\* The slot waited for from some moment on is the first one after it.
LEMMA NextSlot ==
  ASSUME NEW sch \in Schedules, NEW t \in Nat, NEW n, n = nextRunAfter(sch, t)
  PROVE  /\ n \in Nat \cup {None}
         /\ sch.kind # "once" => n # None
         /\ n # None => /\ n \in Nat /\ n > t /\ IsSlot(sch, n)
                        /\ \A s \in t + 1 .. n - 1 : ~IsSlot(sch, s)
<1>1. sch.at \in Nat \ {0} /\ sch.kind \in {"once", "every"}
  BY ScheduleAssumption
<1>2. CASE sch.kind = "once"
  BY <1>1, <1>2 DEF nextRunAfter, IsSlot
<1>3. CASE sch.kind # "once"
  <2> DEFINE a == sch.at
  <2>1. n = (t \div a + 1) * a
    BY <1>3 DEF nextRunAfter
  <2>2. a \in Nat \ {0} /\ \A s : IsSlot(sch, s) <=> s % a = 0
    BY <1>1, <1>3 DEF IsSlot
  <2> HIDE DEF a
  <2>3. n \in Nat /\ n > t
    BY <2>1, <2>2
  <2>4. t \div a + 1 \in Nat
    BY <2>2
  <2>5. \A k \in Nat : (k * a) % a = 0
    BY <2>2
  <2>6. IsSlot(sch, n)
    BY <2>1, <2>2, <2>4, <2>5
  <2>7. ASSUME NEW s \in t + 1 .. n - 1, IsSlot(sch, s) PROVE FALSE
    <3>1. s \in Nat /\ t < s /\ s < n /\ s % a = 0
      BY <2>2, <2>3, <2>7
    <3>2. n <= s
      BY <2>1, <2>2, <3>1, Multiples
    <3>3. QED
      BY <2>3, <3>1, <3>2
  <2>8. QED
    BY <1>3, <2>3, <2>6, <2>7, NoneAssumption
<1>4. QED
  BY <1>2, <1>3

\* A finite set has a largest member in any order.
LEMMA LargestMember ==
  ASSUME NEW S, IsFiniteSet(S), S # {}, NEW R,
         \A x \in S : <<x, x>> \notin R,
         \A x, y, z \in S : <<x, y>> \in R /\ <<y, z>> \in R => <<x, z>> \in R
  PROVE  \E x \in S : \A y \in S : <<x, y>> \notin R
<1> DEFINE Above(x) == {y \in S : <<x, y>> \in R}
           T == {Above(x) : x \in S}
<1>1. T \subseteq FiniteSubsetsOf(S) /\ T # {}
  <2>1. \A x \in S : Above(x) \in SUBSET S
    OBVIOUS
  <2> HIDE DEF Above
  <2>2. \A x \in S : Above(x) \in FiniteSubsetsOf(S)
    BY <2>1, FS_FiniteSubsetsOfFinite
  <2>3. QED
    BY <2>2
<1>2. PICK A \in T : \A B \in T : <<B, A>> \notin StrictSubsetOrdering(S)
  BY <1>1, FS_StrictSubsetOrderingWellFounded, WFMin
<1>3. PICK x \in S : A = Above(x)
  BY <1>2
<1>4. ASSUME NEW y \in S, <<x, y>> \in R PROVE FALSE
  <2>1. Above(y) \subseteq Above(x) /\ y \in Above(x) /\ y \notin Above(y)
    BY <1>4
  <2>2. Above(y) \in T /\ Above(y) \in SUBSET S /\ Above(x) \in SUBSET S
    OBVIOUS
  <2> HIDE DEF Above, T
  <2>3. <<Above(y), A>> \in StrictSubsetOrdering(S)
    BY <1>3, <2>1, <2>2 DEF StrictSubsetOrdering
  <2>4. QED
    BY <1>2, <2>2, <2>3
<1>5. QED
  BY <1>4

\* There is a last slot among those due.
LEMMA LatestDue ==
  ASSUME NEW t, now \in Nat, t.next \in Nat, t.next <= now, IsSlot(t.schedule, t.next)
  PROVE  latestDue(t) \in Due(t)
<1> DEFINE R == {p \in Nat \X Nat : p[1] < p[2]}
<1>1. t.next \in Due(t) /\ Due(t) \subseteq t.next .. now /\ \A s \in Due(t) : s \in Nat
  BY DEF Due
<1>2. IsFiniteSet(Due(t))
  <2>1. t.next \in Int /\ now \in Int
    OBVIOUS
  <2>2. IsFiniteSet(t.next .. now)
    BY <2>1, FS_Interval
  <2>3. QED
    BY <1>1, <2>2, FS_Subset
<1>3. \A x, y \in Due(t) : <<x, y>> \in R <=> x < y
  BY <1>1
<1> HIDE DEF R
<1>4. PICK s \in Due(t) : \A u \in Due(t) : <<s, u>> \notin R
  <2>1. \A x \in Due(t) : <<x, x>> \notin R
    BY <1>1, <1>3
  <2>2. \A x, y, z \in Due(t) : <<x, y>> \in R /\ <<y, z>> \in R => <<x, z>> \in R
    BY <1>1, <1>3
  <2>3. Due(t) # {}
    BY <1>1
  <2>4. QED
    BY <1>2, <2>1, <2>2, <2>3, LargestMember
<1>5. ASSUME NEW u \in Due(t) PROVE u <= s
  <2>1. ~(s < u) /\ s \in Nat /\ u \in Nat
    BY <1>1, <1>3, <1>4
  <2>2. QED
    BY <2>1
<1>6. QED
  BY <1>5 DEF latestDue

-----------------------------------------------------------------------------
(* The order of records.                                                   *)

Dated(rs) == \A r \in rs : r.at \in Nat /\ r.id \in Nat

\* Records with different numbers are finitely many.
LEMMA FiniteRecords ==
  ASSUME NEW rs, NEW m \in Nat, Good(rs, m)
  PROVE  IsFiniteSet(rs)
<1> DEFINE f == [r \in rs |-> r.id]
<1>1. f \in Injection(rs, 1 .. m)
  BY DEF Good, Injection, IsInjective
<1>2. IsFiniteSet(1 .. m)
  BY FS_Interval
<1>3. QED
  BY <1>1, <1>2, FS_Injection

LEMMA NewestRecord ==
  ASSUME NEW rs, IsFiniteSet(rs), rs # {}, Dated(rs)
  PROVE  \E r \in rs : \A q \in rs : ~Newer(q, r)
<1> DEFINE R == {p \in rs \X rs : Newer(p[2], p[1])}
<1>1. \A r, q \in rs : <<r, q>> \in R <=> Newer(q, r)
  OBVIOUS
<1> HIDE DEF R
<1>2. \A r \in rs : <<r, r>> \notin R
  BY <1>1 DEF Newer, Dated
<1>3. \A r, q, z \in rs : <<r, q>> \in R /\ <<q, z>> \in R => <<r, z>> \in R
  BY <1>1 DEF Newer, Dated
<1>4. PICK r \in rs : \A q \in rs : <<r, q>> \notin R
  BY <1>2, <1>3, LargestMember
<1>5. QED
  BY <1>1, <1>4

\* What a task shows is the status of one of its records.
LEMMA StatusShown ==
  ASSUME NEW rs, IsFiniteSet(rs), Dated(rs), NEW default
  PROVE  \/ latestStatus(rs, default) = default
         \/ \E r \in rs : latestStatus(rs, default) = r.status
<1> DEFINE shown == {r \in rs : r.status # "skipped"}
           newest == CHOOSE r \in shown : \A q \in shown : ~Newer(q, r)
<1>1. latestStatus(rs, default) = IF shown = {} THEN default ELSE newest.status
  BY DEF latestStatus
<1>2. shown \subseteq rs /\ IsFiniteSet(shown) /\ Dated(shown)
  BY FS_Subset DEF Dated
<1>3. shown # {} => \E r \in shown : \A q \in shown : ~Newer(q, r)
  <2> HIDE DEF shown
  <2>1. QED
    BY <1>2, NewestRecord
<1>4. shown # {} => newest \in shown
  <2> HIDE DEF shown
  <2>1. QED
    BY <1>3
<1>5. QED
  BY <1>1, <1>2, <1>4

\* Trimming keeps what is newer than anything it keeps.
LEMMA TrimKeepsNewer ==
  ASSUME NEW t, NEW rs, IsFiniteSet(rs), Dated(rs),
         NEW r \in Trim(t, rs), NEW q \in rs, Newer(q, r)
  PROVE  q \in Trim(t, rs)
<1> DEFINE Before(x) == {z \in rs : Newer(z, x)}
<1>1. t # None /\ r \in rs /\ Cardinality(Before(r)) < HISTORY_LIMIT
  BY DEF Trim
<1>2. Before(r) \in SUBSET rs /\ Before(q) \in SUBSET Before(r)
  BY <1>1 DEF Newer, Dated
<1>3. Cardinality(Before(q)) < HISTORY_LIMIT
  <2> HIDE DEF Before
  <2>1. IsFiniteSet(Before(r)) /\ IsFiniteSet(Before(q))
    BY <1>2, FS_Subset
  <2>2. Cardinality(Before(q)) <= Cardinality(Before(r))
    BY <1>2, <2>1, FS_Subset
  <2>3. Cardinality(Before(q)) \in Nat /\ Cardinality(Before(r)) \in Nat
    BY <2>1, FS_CardinalityType
  <2>4. QED
    BY <1>1, <2>2, <2>3, BoundsAssumption
<1>4. QED
  BY <1>1, <1>3 DEF Trim

-----------------------------------------------------------------------------
(* Types.                                                                  *)

RecordOf(m) ==
  [id : 1 .. m, at : Nat, status : Statuses, quit : BOOLEAN,
   retryOf : 1 .. m \cup {None}, blockedBy : 1 .. m \cup {None}, slot : Nat \cup {None}]

\* A task that is on waits for a slot of its schedule.
Waits(t) ==
  /\ t \in Task /\ (t.enabled <=> t.next # None)
  /\ t.next # None => IsSlot(t.schedule, t.next)
MayWait(t) == t = None \/ Waits(t)

RestTyped ==
  /\ now \in Nat /\ made \in Nat /\ up \in {"off", "loaded", "on", "stopped"}
  /\ {active, work} \subseteq Ids \cup {None} /\ cutOff \subseteq Ids
  /\ {byUser, resumed} \subseteq BOOLEAN
  /\ ran \subseteq Nat \X Ids /\ accounted \subseteq Nat
  /\ retried \subseteq Ids \X Ids /\ stopped \subseteq Ids

\* A removed task has no records: nothing is settled then.
FilesTyped ==
  /\ MayWait(task) /\ MayWait(disk.task) /\ between \in BOOLEAN
  /\ runs \subseteq Record /\ disk.runs \subseteq Record
  /\ up # "off" /\ task = None => runs = {}

TypeInv == RestTyped /\ FilesTyped

LEMMA TypeInvTypes == TypeInv => TypeOK
BY DEF TypeInv, RestTyped, FilesTyped, TypeOK, MayWait, Waits

LEMMA MoreRecords == made \in Nat => Record \subseteq RecordOf(made + 1)
<1> SUFFICES ASSUME made \in Nat PROVE Record \subseteq RecordOf(made + 1)
  OBVIOUS
<1>1. 1 .. made \subseteq 1 .. made + 1
  OBVIOUS
<1>2. QED
  BY <1>1 DEF Record, Ids, RecordOf

LEMMA RecordsOfMade == Record = RecordOf(made)
BY DEF Record, Ids, RecordOf

\* The status a task shows is all that a run changes of it.
LEMMA ShowStatus ==
  ASSUME NEW t, Waits(t), NEW status \in Statuses \cup {None}
  PROVE  LET u == [t EXCEPT !.lastStatus = status]
         IN /\ Waits(u)
            /\ u.schedule = t.schedule /\ u.enabled = t.enabled
            /\ u.updated = t.updated /\ u.next = t.next
<1> DEFINE u == [t EXCEPT !.lastStatus = status]
<1>1. /\ u \in Task /\ u.schedule = t.schedule /\ u.enabled = t.enabled
      /\ u.updated = t.updated /\ u.next = t.next
  BY DEF Waits, Task
<1> HIDE DEF u
<1>2. Waits(u)
  BY <1>1 DEF Waits
<1>3. QED
  BY <1>1, <1>2 DEF u

\* Past the slots used up, the task waits for its next one, or is off.
LEMMA Advances ==
  ASSUME NEW t, Waits(t), t.enabled, now \in Nat, NEW u, u = Advance(t)
  PROVE  /\ Waits(u) /\ u.schedule = t.schedule /\ u.updated = t.updated
         /\ u.next # None => /\ u.next \in Nat /\ u.next > now
                             /\ \A s \in now + 1 .. u.next - 1 : ~IsSlot(u.schedule, s)
<1>1. t \in Task /\ t.schedule \in Schedules /\ (t.enabled <=> t.next # None)
  BY DEF Waits, Task
<1>2. CASE t.schedule.kind = "once"
  <2>1. u = [t EXCEPT !.enabled = FALSE, !.next = None]
    BY <1>2 DEF Advance
  <2>2. /\ u \in Task /\ u.schedule = t.schedule /\ u.updated = t.updated
        /\ u.enabled = FALSE /\ u.next = None
    BY <1>1, <2>1 DEF Task
  <2>3. QED
    BY <2>2 DEF Waits
<1>3. CASE t.schedule.kind # "once"
  <2> DEFINE n == nextRunAfter(t.schedule, now)
  <2>1. u = [t EXCEPT !.next = n]
    BY <1>3 DEF Advance
  <2>2. /\ n \in Nat /\ n # None /\ n > now /\ IsSlot(t.schedule, n)
        /\ \A s \in now + 1 .. n - 1 : ~IsSlot(t.schedule, s)
    BY <1>1, <1>3, NextSlot
  <2> HIDE DEF n
  <2>3. /\ u \in Task /\ u.schedule = t.schedule /\ u.updated = t.updated
        /\ u.enabled = t.enabled /\ u.next = n
    BY <1>1, <2>1, <2>2 DEF Task
  <2>4. QED
    BY <1>1, <2>2, <2>3 DEF Waits
<1>4. QED
  BY <1>2, <1>3

\* The records a step adds.
LEMMA NewRecordTyped ==
  ASSUME now \in Nat, made \in Nat
  PROVE  /\ Blank \in RecordOf(made + 1)
         /\ \A of \in Ids \cup {None} : [Blank EXCEPT !.retryOf = of] \in RecordOf(made + 1)
         /\ \A slot \in Nat : [Blank EXCEPT !.slot = slot] \in RecordOf(made + 1)
         /\ \A at \in Nat : [Blank EXCEPT !.at = at, !.status = "missed"] \in RecordOf(made + 1)
         /\ \A at \in Nat, by \in Ids :
              [Blank EXCEPT !.at = at, !.status = "skipped", !.blockedBy = by] \in RecordOf(made + 1)
<1>1. made + 1 \in 1 .. made + 1 /\ \A id \in Ids : id \in 1 .. made + 1
  BY DEF Ids
<1>2. QED
  BY <1>1 DEF Blank, RecordOf, Statuses

LEMMA SettledTyped ==
  ASSUME NEW rs, NEW m, rs \subseteq RecordOf(m), NEW id, NEW status \in Statuses, NEW quit \in BOOLEAN
  PROVE  Settled(rs, id, status, quit) \subseteq RecordOf(m)
<1>1. ASSUME NEW r \in rs
      PROVE  (IF r.id = id THEN [r EXCEPT !.status = status, !.quit = quit] ELSE r) \in RecordOf(m)
  BY DEF RecordOf
<1>2. QED
  BY <1>1 DEF Settled

LEMMA FailedTyped ==
  ASSUME NEW rs, NEW m, rs \subseteq RecordOf(m)
  PROVE  {IF r.status = "running" THEN [r EXCEPT !.status = "failed"] ELSE r : r \in rs}
           \subseteq RecordOf(m)
<1>1. ASSUME NEW r \in rs
      PROVE  (IF r.status = "running" THEN [r EXCEPT !.status = "failed"] ELSE r) \in RecordOf(m)
  BY DEF RecordOf, Statuses
<1>2. QED
  BY <1>1

\* The status shown is one a record can have.
LEMMA StatusTyped ==
  ASSUME NEW rs, NEW m \in Nat, Good(rs, m), rs \subseteq RecordOf(m),
         NEW default \in Statuses \cup {None}
  PROVE  latestStatus(rs, default) \in Statuses \cup {None}
<1>1. IsFiniteSet(rs)
  BY FiniteRecords
<1>2. \A r \in rs : r.at \in Nat /\ r.id \in Nat /\ r.status \in Statuses
  BY DEF RecordOf
<1>3. QED
  BY <1>1, <1>2, StatusShown DEF Dated

LEMMA CommitTyped ==
  ASSUME TypeInv, FilesOK, NEW t, MayWait(t), NEW rs, rs \subseteq Record', Commit(t, rs)
  PROVE  FilesTyped' /\ task' = t /\ disk'.task = disk.task /\ between' = TRUE
<1>1. Trim(t, rs) \subseteq rs /\ (t = None => Trim(t, rs) = {})
  BY DEF Trim
<1>2. disk' = [disk EXCEPT !.runs = Trim(t, rs)] /\ runs' = Trim(t, rs) /\ task' = t /\ between' = TRUE
  BY DEF Commit
<1>3. disk'.runs = Trim(t, rs) /\ disk'.task = disk.task
  BY <1>2 DEF FilesOK
<1>4. QED
  BY <1>1, <1>2, <1>3 DEF TypeInv, FilesTyped, MayWait, Waits, Task

\* What the check of what is due looks at.
LEMMA DueTask ==
  ASSUME TypeInv, Tick
  PROVE  /\ Waits(task) /\ task.enabled /\ task # None /\ task.next \in Nat /\ now \in Nat
         /\ IsSlot(task.schedule, task.next) /\ task.schedule \in Schedules
         /\ up = "on" /\ ~between
BY DEF TypeInv, FilesTyped, RestTyped, MayWait, Waits, Task, Tick, Ready

\* A task that waits as another does, whatever it shows.
SameWait(u, t) ==
  \/ u = None /\ t = None
  \/ /\ u # None /\ t # None
     /\ u.schedule = t.schedule /\ u.enabled = t.enabled
     /\ u.updated = t.updated /\ u.next = t.next

LEMMA RestStep == TypeInv /\ [Next]_vars => RestTyped'
<1> SUFFICES ASSUME TypeInv, [Next]_vars PROVE RestTyped'
  OBVIOUS
<1> USE DEF TypeInv
<1>1. /\ made \in Nat /\ Ids \subseteq 1 .. made + 1 /\ made + 1 \in 1 .. made + 1
      /\ \A r \in runs \cup disk.runs : r.id \in Ids /\ (r.slot = None \/ r.slot \in Nat)
  BY DEF RestTyped, FilesTyped, Ids, Record
<1>2. CASE Load
  <2>1. cutOff' \subseteq Ids
    BY <1>1, <1>2 DEF Load
  <2>2. QED
    BY <1>2, <2>1 DEF Load, RestTyped, Ids, ghosts
<1>3. CASE SaveTask
  <2>1. ran' \subseteq Nat \X Ids
    BY <1>1, <1>3 DEF SaveTask, RestTyped
  <2>2. QED
    BY <1>3, <2>1 DEF SaveTask, RestTyped, Ids
<1>4. CASE End
  BY <1>4 DEF End, RestTyped, Ids
<1>5. CASE Clock
  BY <1>5 DEF Clock, RestTyped, Ids, memory, ghosts
<1>6. CASE Tick
  <2>1. Due(task) \subseteq Nat
    BY <1>6, DueTask DEF Due
  <2>2. /\ made' \in {made, made + 1}
        /\ active' = active \/ (active' = made' /\ made' = made + 1)
        /\ accounted' \subseteq accounted \cup Due(task)
        /\ UNCHANGED <<now, up, work, byUser, cutOff, resumed, ran, retried, stopped>>
    <3>1. CASE Skip
      BY <1>6, <3>1 DEF Tick, Skip
    <3>2. CASE PullIn
      BY <1>6, <3>2 DEF Tick, PullIn
    <3>3. CASE Miss
      BY <1>6, <3>3 DEF Tick, Miss
    <3>4. CASE Run
      <4>1. made' = made + 1 /\ active' = made + 1
        BY <3>4, NewRecord DEF Run, Begin
      <4>2. QED
        BY <1>6, <3>4, <4>1 DEF Tick, Run
    <3>5. QED
      BY <1>6, <3>1, <3>2, <3>3, <3>4 DEF Tick
  <2>3. Ids \subseteq Ids' /\ made' \in Nat /\ active' \in Ids' \cup {None}
    BY <1>1, <2>2 DEF RestTyped, Ids
  <2>4. QED
    BY <2>1, <2>2, <2>3 DEF RestTyped
<1>7. CASE RunNow
  <2>1. PICK of \in {None} \cup {r.id : r \in runs} : Begin(task, [Blank EXCEPT !.retryOf = of])
    BY <1>7 DEF RunNow
  <2>2. made' = made + 1 /\ active' = made + 1 /\ UNCHANGED <<now, up, work, byUser, ran, stopped>>
    BY <2>1, NewRecord DEF Begin
  <2>3. Ids \subseteq Ids' /\ made' \in Nat /\ active' \in Ids' \cup {None}
    BY <1>1, <2>2 DEF Ids
  <2>4. QED
    BY <1>7, <2>2, <2>3 DEF RunNow, RestTyped
<1>8. CASE Resume
  <2>1. ASSUME NEW r \in Candidates, Begin(task, [Blank EXCEPT !.retryOf = r.id]),
               retried' = retried \cup {<<r.id, made + 1>>}, UNCHANGED accounted
        PROVE  RestTyped'
    <3>1. made' = made + 1 /\ active' = made + 1 /\ UNCHANGED <<now, up, work, byUser, ran, stopped>>
      BY <2>1, NewRecord DEF Begin
    <3>2. Ids \subseteq Ids' /\ made' \in Nat /\ active' \in Ids' /\ made + 1 \in Ids'
      BY <1>1, <3>1 DEF Ids
    <3>3. r.id \in Ids
      BY <1>1 DEF Candidates
    <3>4. cutOff' = {} /\ resumed' = TRUE
      BY <1>8 DEF Resume
    <3>5. QED
      BY <2>1, <3>1, <3>2, <3>3, <3>4 DEF RestTyped
  <2>2. CASE UNCHANGED <<now, up, task, runs, active, work, byUser, between, disk, made, ghosts>>
    BY <1>8, <2>2 DEF Resume, RestTyped, Ids, ghosts
  <2>3. QED
    BY <1>8, <2>1, <2>2 DEF Resume
<1>9. CASE Cancel
  BY <1>9 DEF Cancel, RestTyped, Ids
<1>10. CASE Start \/ Quit \/ UNCHANGED vars
  BY <1>10 DEF Start, Quit, vars, RestTyped, Ids, memory, ghosts
<1>11. CASE Report
  BY <1>11 DEF Report, RestTyped, Ids, ghosts
<1>12. CASE Save \/ SetEnabled \/ Remove
  BY <1>12 DEF Save, SetEnabled, Remove, RestTyped, Ids, ghosts
<1>13. QED
  BY <1>2, <1>3, <1>4, <1>5, <1>6, <1>7, <1>8, <1>9, <1>10, <1>11, <1>12 DEF Next

\* The task after each of the user's changes.
LEMMA SaveEdits ==
  ASSUME TypeInv, Save
  PROVE  \E u : /\ Commit(u, runs) /\ Waits(u) /\ u.updated = now
                /\ \/ u.next = None \/ u.next = nextRunAfter(u.schedule, now)
                   \/ u.schedule = task.schedule /\ u.next = task.next
<1>1. Ready /\ Waits(task) /\ task.schedule \in Schedules /\ now \in Nat
      /\ task.next \in Nat \cup {None}
  BY DEF Save, TypeInv, FilesTyped, RestTyped, MayWait, Waits, Ready, Task
<1>2. PICK sch \in Schedules, on \in BOOLEAN :
        /\ on => nextRunAfter(sch, now) # None
        /\ LET kept == sch = task.schedule /\ task.enabled
           IN Commit([task EXCEPT !.schedule = sch, !.enabled = on, !.updated = now,
                        !.next = IF ~on THEN None
                                 ELSE IF kept THEN @ ELSE nextRunAfter(sch, now)], runs)
  BY DEF Save
<1> DEFINE next == IF ~on THEN None
                   ELSE IF sch = task.schedule /\ task.enabled THEN task.next
                   ELSE nextRunAfter(sch, now)
           u == [task EXCEPT !.schedule = sch, !.enabled = on, !.updated = now, !.next = next]
<1>3. Commit(u, runs)
  BY <1>2
<1>4. /\ next = None \/ (next \in Nat /\ IsSlot(sch, next))
      /\ on <=> next # None
      /\ \/ next = None \/ next = nextRunAfter(sch, now)
         \/ sch = task.schedule /\ next = task.next
  <2>1. CASE ~on
    BY <2>1
  <2>2. CASE on /\ sch = task.schedule /\ task.enabled
    BY <1>1, <2>2 DEF Waits
  <2>3. CASE on /\ ~(sch = task.schedule /\ task.enabled)
    <3>1. next = nextRunAfter(sch, now) /\ nextRunAfter(sch, now) # None
      BY <1>2, <2>3
    <3> HIDE DEF next
    <3>2. QED
      BY <1>1, <2>3, <3>1, NextSlot
  <2>4. QED
    BY <2>1, <2>2, <2>3
<1> HIDE DEF next
<1>5. /\ u.schedule = sch /\ u.enabled = on /\ u.updated = now /\ u.next = next
      /\ u \in Task
  BY <1>1, <1>4 DEF Waits, Task
<1> HIDE DEF u
<1>6. Waits(u)
  BY <1>4, <1>5 DEF Waits
<1>7. QED
  BY <1>3, <1>4, <1>5, <1>6

LEMMA SetEnabledEdits ==
  ASSUME TypeInv, SetEnabled
  PROVE  \E u : /\ Commit(u, runs) /\ Waits(u) /\ u.updated = now
                /\ u.next = None \/ u.next = nextRunAfter(u.schedule, now)
<1>1. Ready /\ Waits(task) /\ task \in Task /\ task.schedule \in Schedules /\ now \in Nat
  BY DEF SetEnabled, TypeInv, FilesTyped, RestTyped, MayWait, Waits, Ready, Task
<1>2. PICK next \in {None, nextRunAfter(task.schedule, now)} :
        Commit([task EXCEPT !.enabled = next # None, !.next = next, !.updated = now], runs)
  BY DEF SetEnabled
<1> DEFINE u == [task EXCEPT !.enabled = next # None, !.next = next, !.updated = now]
           sch == task.schedule
           on == next # None
<1>3. next = None \/ (next \in Nat /\ IsSlot(sch, next))
  BY <1>1, NextSlot
<1>4. /\ u \in Task /\ u.schedule = sch /\ u.enabled = on /\ u.next = next /\ u.updated = now
  BY <1>1, <1>3 DEF Task
<1>5. Commit(u, runs)
  BY <1>2
<1> HIDE DEF u, sch, on
<1>6. Waits(u)
  BY <1>3, <1>4 DEF Waits, on
<1>7. QED
  BY <1>1, <1>2, <1>4, <1>5, <1>6 DEF sch

\* A run that begins shows in the task and adds its record.
LEMMA BeginTyped ==
  ASSUME TypeInv, FilesOK, up # "off", NEW t, Waits(t), t # None,
         NEW new \in RecordOf(made + 1), Begin(t, new)
  PROVE  /\ FilesTyped' /\ between' = TRUE /\ disk'.task = disk.task
         /\ task' # None /\ SameWait(task', t)
<1> DEFINE u == [t EXCEPT !.lastStatus = "running"]
<1>1. /\ Waits(u) /\ u.schedule = t.schedule /\ u.enabled = t.enabled
      /\ u.updated = t.updated /\ u.next = t.next
  BY ShowStatus DEF Statuses
<1>2. made' = made + 1 /\ Commit(u, runs \cup {new})
  BY DEF Begin
<1> HIDE DEF u
<1>3. runs \cup {new} \subseteq Record'
  <2>1. Record' = RecordOf(made + 1)
    BY <1>2 DEF Record, Ids, RecordOf
  <2>2. runs \subseteq RecordOf(made + 1)
    BY MoreRecords DEF TypeInv, RestTyped, FilesTyped
  <2>3. QED
    BY <2>1, <2>2
<1>4. FilesTyped' /\ task' = u /\ disk'.task = disk.task /\ between' = TRUE
  BY <1>1, <1>2, <1>3, CommitTyped DEF MayWait
<1>5. u # None
  BY <1>1, NoTaskAssumption DEF Waits
<1>6. QED
  BY <1>1, <1>4, <1>5 DEF SameWait

\* So does a run that ends, or is cut off by a quit.
LEMMA SettleTyped ==
  ASSUME TypeInv, FilesOK, up # "off", NEW id, Recorded(id), NEW status \in Statuses,
         NEW quit \in BOOLEAN, NEW default \in Statuses \cup {None}, made' = made,
         LET rs == Settled(runs, id, status, quit)
         IN Commit([task EXCEPT !.lastStatus = latestStatus(rs, default)], rs)
  PROVE  /\ FilesTyped' /\ between' = TRUE /\ disk'.task = disk.task
         /\ task' # None /\ SameWait(task', task)
<1> DEFINE rs == Settled(runs, id, status, quit)
           shown == latestStatus(rs, default)
           u == [task EXCEPT !.lastStatus = shown]
<1>1. task # None /\ Waits(task) /\ runs \subseteq RecordOf(made) /\ made \in Nat
      /\ Good(runs, made)
  BY RecordsOfMade DEF TypeInv, RestTyped, FilesTyped, MayWait, Recorded, FilesOK
<1>2. rs \subseteq RecordOf(made) /\ Good(rs, made)
  BY <1>1, SettledTyped, SettledRecords
<1> HIDE DEF rs
<1>3. shown \in Statuses \cup {None}
  BY <1>1, <1>2, StatusTyped
<1>4. Commit(u, rs)
  BY DEF rs
<1> HIDE DEF shown
<1>5. /\ Waits(u) /\ u.schedule = task.schedule /\ u.enabled = task.enabled
      /\ u.updated = task.updated /\ u.next = task.next
  BY <1>1, <1>3, ShowStatus
<1>6. u # None
  BY <1>5, NoTaskAssumption DEF Waits
<1> HIDE DEF u
<1>7. Record' = RecordOf(made)
  BY DEF Record, Ids, RecordOf
<1>8. FilesTyped' /\ task' = u /\ disk'.task = disk.task /\ between' = TRUE
  BY <1>2, <1>4, <1>5, <1>7, CommitTyped DEF MayWait
<1>9. QED
  BY <1>1, <1>5, <1>6, <1>8 DEF SameWait

\* Runs begin and end, and the user stops them, without changing what the task
\* waits for.
LEMMA TaskKept ==
  ASSUME TypeInv, FilesOK,
         \/ RunNow \/ Resume \/ Report \/ Quit
         \/ Cancel \/ Clock \/ Start \/ UNCHANGED vars
  PROVE  FilesTyped' /\ SameWait(task', task) /\ disk'.task = disk.task
<1>1. CASE RunNow
  <2>1. up # "off" /\ task # None /\ Waits(task) /\ made \in Nat /\ now \in Nat
    BY <1>1 DEF RunNow, Ready, TypeInv, FilesTyped, RestTyped, MayWait
  <2>2. PICK of \in {None} \cup {r.id : r \in runs} : Begin(task, [Blank EXCEPT !.retryOf = of])
    BY <1>1 DEF RunNow
  <2>3. of \in Ids \cup {None}
    BY <2>2 DEF TypeInv, FilesTyped, Record
  <2>4. [Blank EXCEPT !.retryOf = of] \in RecordOf(made + 1)
    BY <2>1, <2>3, NewRecordTyped
  <2>5. QED
    BY <2>1, <2>2, <2>4, BeginTyped
<1>2. CASE Resume
  <2>1. up # "off" /\ task # None /\ Waits(task) /\ made \in Nat /\ now \in Nat
    BY <1>2 DEF Resume, Ready, TypeInv, FilesTyped, RestTyped, MayWait
  <2>2. ASSUME NEW r \in Candidates, Begin(task, [Blank EXCEPT !.retryOf = r.id])
        PROVE  FilesTyped' /\ SameWait(task', task) /\ disk'.task = disk.task
    <3>1. r.id \in Ids \cup {None}
      BY <2>2 DEF Candidates, TypeInv, FilesTyped, Record
    <3>2. [Blank EXCEPT !.retryOf = r.id] \in RecordOf(made + 1)
      BY <2>1, <3>1, NewRecordTyped
    <3>3. QED
      BY <2>1, <2>2, <3>2, BeginTyped
  <2>3. CASE UNCHANGED <<now, up, task, runs, active, work, byUser, between, disk, made, ghosts>>
    BY <2>3 DEF TypeInv, FilesTyped, Record, Ids, MayWait, Waits, SameWait
  <2>4. QED
    BY <1>2, <2>2, <2>3 DEF Resume
<1>3. CASE Report
  <2>1. CASE Recorded(work)
    BY <1>3, <2>1, SettleTyped DEF Report, Statuses, ghosts
  <2>2. CASE ~Recorded(work)
    BY <1>3, <2>2 DEF Report, TypeInv, FilesTyped, Record, Ids, MayWait, Waits, SameWait
  <2>3. QED
    BY <2>1, <2>2
<1>4. CASE Quit
  <2>1. CASE Recorded(active)
    <3>1. (~byUser) \in BOOLEAN
      OBVIOUS
    <3>2. QED
      BY <1>4, <2>1, <3>1, SettleTyped DEF Quit, Statuses, ghosts
  <2>2. CASE ~Recorded(active)
    BY <1>4, <2>2 DEF Quit, TypeInv, FilesTyped, Record, Ids, MayWait, Waits, SameWait
  <2>3. QED
    BY <2>1, <2>2
<1>5. CASE Cancel \/ Clock \/ Start \/ UNCHANGED vars
  BY <1>5 DEF Cancel, Ready, Clock, Start, vars, memory, ghosts,
              TypeInv, FilesTyped, Record, Ids, MayWait, Waits, SameWait
<1>6. QED
  BY <1>1, <1>2, <1>3, <1>4, <1>5

\* A check of what is due moves the task on, past all that was due, or takes a
\* sooner slot.
Moves ==
  /\ task # None /\ task' # None
  /\ task'.schedule = task.schedule /\ task'.updated = task.updated
  /\ task'.next # None => task'.next \in Nat /\ task'.next > now
  /\ \/ /\ task.next \in Nat /\ task.next <= now
        /\ accounted' = accounted \cup Due(task)
        /\ task'.next # None =>
             \A s \in now + 1 .. task'.next - 1 : ~IsSlot(task'.schedule, s)
     \/ /\ task'.next < task.next /\ task'.next # None /\ accounted' = accounted

\* The check commits the task, with one record more or none.
LEMMA TickCommits ==
  ASSUME TypeInv, FilesOK, Tick, NEW new \in RecordOf(made + 1), NEW rs,
         NEW t, Waits(t),
         (rs = runs \cup {new} /\ made' = made + 1) \/ (rs = runs /\ made' = made),
         Commit(t, rs)
  PROVE  FilesTyped' /\ disk'.task = disk.task /\ between' = TRUE /\ task' = t /\ t # None
<1>1. made \in Nat
  BY DEF TypeInv, RestTyped
<1>2. runs \subseteq RecordOf(made + 1) /\ runs \subseteq RecordOf(made)
  BY <1>1, MoreRecords, RecordsOfMade DEF TypeInv, FilesTyped
<1>3. Record' = RecordOf(made')
  BY DEF Record, Ids, RecordOf
<1>4. rs \subseteq Record'
  BY <1>2, <1>3
<1>5. QED
  BY <1>4, CommitTyped, NoTaskAssumption DEF MayWait, Waits

LEMMA TickMoves ==
  ASSUME TypeInv, FilesOK, Tick
  PROVE  FilesTyped' /\ disk'.task = disk.task /\ between' = TRUE /\ Moves
<1> DEFINE t == Advance(task)
<1>1. /\ Waits(task) /\ task.enabled /\ task # None /\ task.next \in Nat /\ now \in Nat
      /\ IsSlot(task.schedule, task.next) /\ task.schedule \in Schedules /\ made \in Nat
      /\ up # "off"
  BY DueTask DEF TypeInv, RestTyped
<1>2. /\ Waits(t) /\ t.schedule = task.schedule /\ t.updated = task.updated
      /\ t.next # None => /\ t.next \in Nat /\ t.next > now
                          /\ \A s \in now + 1 .. t.next - 1 : ~IsSlot(t.schedule, s)
  BY <1>1, Advances
<1> HIDE DEF t
<1>3. CASE Skip
  <2>1. active \in Ids
    BY <1>3 DEF Skip, TypeInv, RestTyped
  <2> DEFINE new == [Blank EXCEPT !.at = task.next, !.status = "skipped", !.blockedBy = active]
  <2>2. new \in RecordOf(made + 1)
    BY <1>1, <2>1, NewRecordTyped
  <2>3. \/ Commit(t, runs) /\ made' = made
        \/ Commit(t, runs \cup {new}) /\ made' = made + 1
    BY <1>3 DEF Skip, t
  <2> HIDE DEF new
  <2>4. FilesTyped' /\ disk'.task = disk.task /\ between' = TRUE /\ task' = t /\ t # None
    BY <1>2, <2>2, <2>3, TickCommits
  <2>5. task.next <= now /\ accounted' = accounted \cup Due(task)
    BY <1>3 DEF Skip
  <2>6. QED
    BY <1>1, <1>2, <2>4, <2>5 DEF Moves
<1>4. CASE PullIn
  <2> DEFINE n == nextRunAfter(task.schedule, now)
             u == [task EXCEPT !.next = n]
  <2>1. Commit(u, runs) /\ n < task.next /\ task.next > now /\ UNCHANGED <<made, accounted>>
    BY <1>4 DEF PullIn
  <2>2. n \in Nat /\ n # None /\ n > now /\ IsSlot(task.schedule, n)
    <3>1. n \in Nat \cup {None} /\ (n # None => n \in Nat /\ n > now /\ IsSlot(task.schedule, n))
      BY <1>1, NextSlot
    <3>2. n # None
      <4>1. CASE task.schedule.kind = "once"
        <5>1. task.next = task.schedule.at
          BY <1>1, <4>1 DEF IsSlot
        <5>2. n = task.next
          BY <2>1, <4>1, <5>1 DEF nextRunAfter
        <5>3. QED
          BY <1>1, <5>2, NoneAssumption
      <4>2. CASE task.schedule.kind # "once"
        BY <1>1, <4>2, NextSlot
      <4>3. QED
        BY <4>1, <4>2
    <3>3. QED
      BY <3>1, <3>2
  <2> HIDE DEF n
  <2>3. /\ u \in Task /\ u.schedule = task.schedule /\ u.updated = task.updated
        /\ u.next = n /\ u.enabled = task.enabled
    BY <1>1, <2>2 DEF Waits, Task
  <2> HIDE DEF u
  <2>4. Waits(u)
    BY <1>1, <2>2, <2>3 DEF Waits
  <2>5. Blank \in RecordOf(made + 1)
    BY <1>1, NewRecordTyped
  <2>6. FilesTyped' /\ disk'.task = disk.task /\ between' = TRUE /\ task' = u /\ u # None
    BY <2>1, <2>4, <2>5, TickCommits
  <2>7. QED
    BY <1>1, <2>1, <2>2, <2>3, <2>6 DEF Moves
<1>5. task.next <= now => latestDue(task) \in Nat
  BY <1>1, LatestDue DEF Due
<1>6. CASE Miss
  <2> DEFINE new == [Blank EXCEPT !.at = latestDue(task), !.status = "missed"]
             u == [t EXCEPT !.lastStatus = "missed"]
  <2>1. /\ task.next <= now /\ accounted' = accounted \cup Due(task)
        /\ Commit(u, runs \cup {new}) /\ made' = made + 1
    BY <1>6 DEF Miss, t
  <2>2. new \in RecordOf(made + 1)
    BY <1>1, <1>5, <2>1, NewRecordTyped
  <2>3. /\ Waits(u) /\ u.schedule = t.schedule /\ u.updated = t.updated /\ u.next = t.next
    BY <1>2, ShowStatus DEF Statuses
  <2> HIDE DEF new, u
  <2>4. FilesTyped' /\ disk'.task = disk.task /\ between' = TRUE /\ task' = u /\ u # None
    BY <2>1, <2>2, <2>3, TickCommits
  <2>5. QED
    BY <1>1, <1>2, <2>1, <2>3, <2>4 DEF Moves
<1>7. CASE Run
  <2> DEFINE new == [Blank EXCEPT !.slot = latestDue(task)]
  <2>1. task.next <= now /\ accounted' = accounted \cup Due(task) /\ Begin(t, new)
    BY <1>7 DEF Run, t
  <2>2. new \in RecordOf(made + 1)
    BY <1>1, <1>5, <2>1, NewRecordTyped
  <2> HIDE DEF new
  <2>3. t # None
    BY <1>2, NoTaskAssumption DEF Waits
  <2>4. /\ FilesTyped' /\ between' = TRUE /\ disk'.task = disk.task
        /\ task' # None /\ SameWait(task', t)
    BY <1>1, <1>2, <2>1, <2>2, <2>3, BeginTyped
  <2>5. task'.schedule = t.schedule /\ task'.updated = t.updated /\ task'.next = t.next
    BY <2>4 DEF SameWait
  <2>6. QED
    BY <1>1, <1>2, <2>1, <2>4, <2>5 DEF Moves
<1>8. QED
  BY <1>3, <1>4, <1>6, <1>7 DEF Tick

\* The user's changes make the task wait from now on, or for what it waited for.
LEMMA EditMoves ==
  ASSUME TypeInv, FilesOK, Save \/ SetEnabled \/ Remove
  PROVE  /\ FilesTyped' /\ disk'.task = disk.task /\ between' = TRUE /\ task # None
         /\ \/ task' = None
            \/ /\ Waits(task') /\ task'.updated = now
               /\ \/ task'.next = None \/ task'.next = nextRunAfter(task'.schedule, now)
                  \/ task'.schedule = task.schedule /\ task'.next = task.next
<1>1. made' = made /\ task # None
  BY DEF Save, SetEnabled, Remove, Ready, ghosts
<1>2. runs \subseteq Record'
  BY <1>1 DEF TypeInv, FilesTyped, Record, Ids
<1>3. \A u : MayWait(u) /\ Commit(u, runs) =>
        FilesTyped' /\ task' = u /\ disk'.task = disk.task /\ between' = TRUE
  BY <1>2, CommitTyped
<1>4. CASE Save
  BY <1>1, <1>3, <1>4, SaveEdits DEF MayWait
<1>5. CASE SetEnabled
  BY <1>1, <1>3, <1>5, SetEnabledEdits DEF MayWait
<1>6. CASE Remove
  BY <1>1, <1>3, <1>6 DEF Remove, MayWait
<1>7. QED
  BY <1>4, <1>5, <1>6

\* A launch takes the task as the file has it, and writes it back the same.
LEMMA LoadTask ==
  ASSUME TypeInv, FilesOK, Load
  PROVE  FilesTyped' /\ between' = TRUE /\ disk'.task = disk.task /\ SameWait(task', disk.task)
<1> DEFINE rs == {IF r.status = "running" THEN [r EXCEPT !.status = "failed"] ELSE r : r \in disk.runs}
           t == disk.task
           shown == latestStatus(rs, t.lastStatus)
           u == IF t = None THEN None ELSE [t EXCEPT !.lastStatus = shown]
<1>1. disk.runs \subseteq RecordOf(made) /\ made \in Nat /\ Good(disk.runs, made) /\ MayWait(t)
  BY RecordsOfMade DEF TypeInv, RestTyped, FilesTyped, FilesOK
<1>2. Commit(u, rs) /\ made' = made
  BY DEF Load
<1>3. rs \subseteq RecordOf(made) /\ Good(rs, made)
  BY <1>1, FailedTyped, FailedRecords
<1> HIDE DEF rs, t
<1>4. MayWait(u) /\ SameWait(u, t)
  <2>1. CASE t = None
    BY <2>1 DEF MayWait, SameWait
  <2>2. CASE t # None
    <3>1. Waits(t) /\ t.lastStatus \in Statuses \cup {None}
      BY <1>1, <2>2 DEF MayWait, Waits, Task
    <3>2. shown \in Statuses \cup {None}
      BY <1>1, <1>3, <3>1, StatusTyped
    <3> HIDE DEF shown
    <3>3. /\ Waits(u) /\ u.schedule = t.schedule /\ u.enabled = t.enabled
          /\ u.updated = t.updated /\ u.next = t.next
      BY <2>2, <3>1, <3>2, ShowStatus
    <3>4. u # None
      BY <3>3, NoTaskAssumption DEF Waits
    <3> HIDE DEF u
    <3>5. QED
      BY <2>2, <3>3, <3>4 DEF MayWait, SameWait
  <2>3. QED
    BY <2>1, <2>2
<1> HIDE DEF u
<1>5. rs \subseteq Record'
  BY <1>2, <1>3 DEF Record, Ids, RecordOf
<1>6. FilesTyped' /\ task' = u /\ disk'.task = disk.task /\ between' = TRUE
  BY <1>2, <1>4, <1>5, CommitTyped
<1>7. QED
  BY <1>4, <1>6 DEF t

\* The tasks file gets the task as it is; a crash leaves the files alone.
LEMMA SaveTaskFile ==
  ASSUME TypeInv, FilesOK, SaveTask
  PROVE  FilesTyped' /\ disk'.task = task /\ task' = task
<1>1. disk'.task = task /\ disk'.runs = disk.runs
  BY DEF FilesOK, SaveTask
<1>2. QED
  BY <1>1 DEF SaveTask, TypeInv, FilesTyped, Record, Ids, MayWait, Waits

LEMMA EndFiles ==
  ASSUME TypeInv, FilesOK, End
  PROVE  FilesTyped' /\ disk' = disk /\ task' = None
BY DEF End, TypeInv, FilesTyped, Record, Ids, MayWait, Waits

LEMMA TypeStep == Inv /\ TypeInv /\ [Next]_vars => TypeInv'
<1> SUFFICES ASSUME Inv, TypeInv, [Next]_vars PROVE TypeInv'
  OBVIOUS
<1>1. FilesOK
  BY DEF Inv
<1>2. FilesTyped'
  BY <1>1, TaskKept, TickMoves, EditMoves, LoadTask, SaveTaskFile, EndFiles DEF Next
<1>3. QED
  BY <1>2, RestStep DEF TypeInv

LEMMA TypeInit == Init => TypeInv
<1> SUFFICES ASSUME Init PROVE TypeInv
  OBVIOUS
<1>1. PICK sch \in Schedules :
        disk = [runs |-> {}, task |-> [schedule |-> sch, enabled |-> TRUE, updated |-> 0,
                                       next |-> nextRunAfter(sch, 0), lastStatus |-> None]]
  BY DEF Init
<1> DEFINE t == [schedule |-> sch, enabled |-> TRUE, updated |-> 0,
                 next |-> nextRunAfter(sch, 0), lastStatus |-> None]
<1>2. nextRunAfter(sch, 0) # None
  BY NextSlot, NoneAssumption, ScheduleAssumption DEF nextRunAfter
<1>3. nextRunAfter(sch, 0) \in Nat /\ IsSlot(sch, nextRunAfter(sch, 0))
  BY <1>2, NextSlot
<1>4. t \in Task /\ t.enabled = TRUE /\ t.next = nextRunAfter(sch, 0) /\ t.schedule = sch
  BY <1>3 DEF Task
<1> HIDE DEF t
<1>5. Waits(t)
  BY <1>2, <1>3, <1>4 DEF Waits
<1>6. disk.task = t /\ disk.runs = {}
  BY <1>1 DEF t
<1>7. QED
  BY <1>5, <1>6 DEF Init, TypeInv, RestTyped, FilesTyped, MayWait, Ids

\* The types hold also with the clock set back.
THEOREM TypeOKCorrect == Spec => []TypeOK
<1>1. Spec => []TypeInv
  BY TypeInit, TypeStep, Invariance, PTL DEF Spec
<1>2. QED
  BY <1>1, TypeInvTypes, PTL

-----------------------------------------------------------------------------
(* Every slot once.                                                        *)

\* At time n, what ran is before the slot the task waits for, and what it has
\* passed since it was changed is accounted for.
Behind(t, n, done, known) ==
  t # None =>
    /\ t.updated <= n
    /\ t.next # None =>
         /\ \A p \in done : p[1] < t.next
         /\ \A s \in t.updated + 1 .. t.next - 1 : IsSlot(t.schedule, s) => s \in known

TasksBehind == Behind(task, now, ran, accounted) /\ Behind(disk.task, now, ran, accounted)

\* A run that is begun but not started is for a slot nothing ran for, and the
\* task is past it.
PendingOK ==
  /\ active # work => between
  /\ \A r \in runs : r.id = active /\ active # work /\ r.slot # None =>
       /\ r.slot <= now /\ \A p \in ran : p[1] < r.slot
       /\ task # None /\ task.next # None => r.slot < task.next

RanPast == (\A p \in ran : p[1] <= now) /\ NoSlotTwice

SlotInv == TasksBehind /\ PendingOK /\ RanPast

LEMMA StaysBehind ==
  ASSUME NEW t, NEW u, SameWait(u, t), MayWait(t), NEW n \in Nat, NEW m \in Nat, n <= m,
         NEW done, NEW known, NEW more, known \subseteq more, Behind(t, n, done, known)
  PROVE  Behind(u, m, done, more)
<1>1. CASE u = None
  BY <1>1 DEF Behind
<1>2. CASE u # None
  <2>1. /\ t # None /\ t.updated \in Nat
        /\ u.schedule = t.schedule /\ u.updated = t.updated /\ u.next = t.next
    BY <1>2 DEF SameWait, MayWait, Waits, Task
  <2>2. QED
    BY <2>1 DEF Behind
<1>3. QED
  BY <1>1, <1>2

\* A task that waits for its next slot from now on has none behind it.
LEMMA FreshBehind ==
  ASSUME NEW u, Waits(u), NEW n \in Nat, u.updated = n, NEW done, \A p \in done : p[1] \in Nat /\ p[1] <= n,
         u.next = None \/ u.next = nextRunAfter(u.schedule, n), NEW known
  PROVE  Behind(u, n, done, known)
<1>1. u.schedule \in Schedules
  BY DEF Waits, Task
<1>2. u.next # None =>
        u.next \in Nat /\ u.next > n /\ \A s \in n + 1 .. u.next - 1 : ~IsSlot(u.schedule, s)
  BY <1>1, NextSlot
<1>3. QED
  BY <1>2 DEF Behind

LEMMA RanTyped == TypeInv => now \in Nat /\ \A p \in ran : p[1] \in Nat
BY DEF TypeInv, RestTyped

\* The clock does not go back.
LEMMA TimeStep ==
  ASSUME ClockBack = FALSE, TypeInv, [Next]_vars
  PROVE  now' \in Nat /\ now <= now'
<1>1. CASE Clock
  BY <1>1 DEF Clock, TypeInv, RestTyped
<1>2. CASE ~Clock
  <2>1. now' = now
    BY <1>2 DEF Next, vars, memory, ghosts, Load, Start, Quit, End, Tick, SaveTask, Report, RunNow,
                Resume, Begin, Cancel, Save, SetEnabled, Remove
  <2>2. QED
    BY <2>1 DEF TypeInv, RestTyped
<1>3. QED
  BY <1>1, <1>2

\* A slot is run for when a run starts, and accounted for by the check alone.
LEMMA HistoryStep ==
  ASSUME [Next]_vars
  PROVE  /\ ~SaveTask => ran' = ran
         /\ ~Tick => accounted' = accounted
BY DEF Next, vars, memory, ghosts, Load, Start, Quit, End, Tick, SaveTask, Report, RunNow,
       Resume, Begin, Cancel, Clock, Save, SetEnabled, Remove

LEMMA TasksBehindStep ==
  ASSUME ClockBack = FALSE, Inv, TypeInv, SlotInv, [Next]_vars
  PROVE  TasksBehind'
<1> USE DEF Inv
<1>1. /\ now \in Nat /\ now' \in Nat /\ now <= now' /\ MayWait(task) /\ MayWait(disk.task)
      /\ \A p \in ran : p[1] \in Nat /\ p[1] <= now
      /\ Behind(task, now, ran, accounted) /\ Behind(disk.task, now, ran, accounted)
  BY TimeStep, RanTyped DEF TypeInv, FilesTyped, SlotInv, TasksBehind, RanPast
<1>2. ASSUME ran' = ran, accounted' = accounted, NEW u, NEW t \in {task, disk.task}, SameWait(u, t)
      PROVE  Behind(u, now', ran', accounted')
  BY <1>1, <1>2, StaysBehind
<1>3. ASSUME NEW t PROVE SameWait(t, t)
  BY DEF SameWait
<1>4. CASE \/ RunNow \/ Resume \/ Report \/ Quit
           \/ Cancel \/ Clock \/ Start \/ UNCHANGED vars
  <2>1. ran' = ran /\ accounted' = accounted
    BY <1>4 DEF RunNow, Resume, Begin, Report, Quit, Cancel, Clock, Start, vars, ghosts
  <2>2. SameWait(task', task) /\ disk'.task = disk.task
    BY <1>4, TaskKept
  <2>3. QED
    BY <1>2, <1>3, <2>1, <2>2 DEF TasksBehind
<1>5. CASE Load
  <2>1. ran' = ran /\ accounted' = accounted
    BY <1>5 DEF Load, ghosts
  <2>2. SameWait(task', disk.task) /\ disk'.task = disk.task
    BY <1>5, LoadTask
  <2>3. QED
    BY <1>2, <1>3, <2>1, <2>2 DEF TasksBehind
<1>6. CASE End
  <2>1. ran' = ran /\ accounted' = accounted
    BY <1>6 DEF End
  <2>2. task' = None /\ disk'.task = disk.task
    BY <1>6, EndFiles
  <2>3. QED
    BY <1>2, <1>3, <2>1, <2>2 DEF TasksBehind, Behind
<1>7. CASE Save \/ SetEnabled \/ Remove
  <2>1. ran' = ran /\ accounted' = accounted /\ now' = now
    BY <1>7 DEF Save, SetEnabled, Remove, ghosts
  <2>2. disk'.task = disk.task /\ task # None
        /\ \/ task' = None
           \/ /\ Waits(task') /\ task'.updated = now
              /\ \/ task'.next = None \/ task'.next = nextRunAfter(task'.schedule, now)
                 \/ task'.schedule = task.schedule /\ task'.next = task.next
    BY <1>7, EditMoves
  <2>3. Behind(disk'.task, now', ran', accounted')
    BY <1>2, <1>3, <2>1, <2>2
  <2>4. Behind(task', now, ran, accounted)
    <3>1. CASE task' = None
      BY <3>1 DEF Behind
    <3>2. CASE /\ Waits(task') /\ task'.updated = now
               /\ task'.next = None \/ task'.next = nextRunAfter(task'.schedule, now)
      BY <1>1, <3>2, FreshBehind
    <3>3. CASE /\ Waits(task') /\ task'.updated = now
               /\ task'.schedule = task.schedule /\ task'.next = task.next
      <4>1. /\ task.updated \in Nat /\ task.updated <= now
            /\ task.next # None => task.next \in Nat
        BY <1>1, <2>2 DEF MayWait, Waits, Task, Behind
      <4>2. QED
        BY <1>1, <2>2, <3>3, <4>1 DEF Behind
    <3>4. QED
      BY <2>2, <3>1, <3>2, <3>3
  <2>5. QED
    BY <2>1, <2>3, <2>4 DEF TasksBehind
<1>8. CASE Tick
  <2>1. ran' = ran /\ now' = now /\ disk'.task = disk.task /\ Moves
    BY <1>8, TickMoves DEF Tick
  <2>2. accounted \subseteq accounted'
    BY <2>1 DEF Moves
  <2>3. Behind(disk'.task, now', ran', accounted')
    BY <1>1, <1>3, <2>1, <2>2, StaysBehind
  <2>4. task # None /\ task.updated \in Nat /\ task.next \in Nat
    BY <1>8, DueTask DEF Waits, Task
  <2>5. Behind(task', now, ran, accounted')
    <3>1. CASE /\ task.next \in Nat /\ task.next <= now
               /\ accounted' = accounted \cup Due(task)
               /\ task'.next # None =>
                    \A s \in now + 1 .. task'.next - 1 : ~IsSlot(task'.schedule, s)
      <4>1. ASSUME task'.next # None, NEW s \in task'.updated + 1 .. task'.next - 1,
                   IsSlot(task'.schedule, s)
            PROVE  s \in accounted'
        <5>1. /\ task'.updated = task.updated /\ task'.schedule = task.schedule
              /\ task'.next \in Nat /\ task'.next > now
          BY <2>1, <4>1 DEF Moves
        <5>2. CASE s < task.next
          BY <1>1, <2>4, <3>1, <4>1, <5>1, <5>2, NoneAssumption DEF Behind
        <5>3. CASE s > now
          BY <1>1, <2>4, <3>1, <4>1, <5>1, <5>3
        <5>4. CASE task.next <= s /\ s <= now
          BY <1>1, <2>4, <3>1, <4>1, <5>1, <5>4 DEF Due
        <5>5. QED
          BY <1>1, <2>4, <5>1, <5>2, <5>3, <5>4
      <4>2. task'.next # None => \A p \in ran : p[1] < task'.next
        BY <1>1, <2>1 DEF Moves
      <4>3. QED
        BY <1>1, <2>1, <2>4, <4>1, <4>2 DEF Behind, Moves
    <3>2. CASE task'.next < task.next /\ task'.next # None /\ accounted' = accounted
      <4>1. /\ task'.updated = task.updated /\ task'.schedule = task.schedule
            /\ task'.next \in Nat /\ task'.next > now
        BY <2>1, <3>2 DEF Moves
      <4>2. QED
        BY <1>1, <2>4, <3>2, <4>1, NoneAssumption DEF Behind
    <3>3. QED
      BY <2>1, <3>1, <3>2 DEF Moves
  <2>6. QED
    BY <2>1, <2>3, <2>5 DEF TasksBehind
<1>9. CASE SaveTask
  <2>1. /\ now' = now /\ accounted' = accounted /\ disk'.task = task /\ task' = task
    BY <1>9, SaveTaskFile DEF SaveTask
  <2>2. ASSUME task # None, task.next # None, NEW p \in ran' PROVE p[1] < task.next
    <3>1. CASE p \in ran
      BY <1>1, <2>2, <3>1 DEF Behind
    <3>2. CASE p \notin ran
      <4>1. PICK r \in runs : r.id = active /\ r.id # work /\ r.slot # None /\ p = <<r.slot, r.id>>
        BY <1>9, <2>2, <3>2 DEF SaveTask
      <4>2. QED
        BY <2>2, <4>1 DEF SlotInv, PendingOK
    <3>3. QED
      BY <3>1, <3>2
  <2>3. Behind(task, now, ran', accounted)
    BY <1>1, <2>2 DEF Behind
  <2>4. QED
    BY <2>1, <2>3 DEF TasksBehind
<1>10. QED
  BY <1>4, <1>5, <1>6, <1>7, <1>8, <1>9 DEF Next

\* Between two calls every run that is begun is started.
LEMMA ReadyStarted == SlotInv /\ ~between => active = work
BY DEF SlotInv, PendingOK

\* Only the check makes a run for a slot, and for the last one due.
LEMMA PendingStep ==
  ASSUME Inv, TypeInv, SlotInv, [Next]_vars
  PROVE  PendingOK'
<1> USE DEF Inv
<1>1. (made \in Nat /\ Good(runs, made)) \/ up = "off"
  BY DEF FilesOK
<1>2. CASE Load
  BY <1>2 DEF Load, PendingOK
<1>3. CASE End
  BY <1>3 DEF End, PendingOK
<1>4. CASE SaveTask
  BY <1>4 DEF SaveTask, PendingOK
<1>5. CASE Report
  BY <1>5 DEF Report, PendingOK
<1>6. CASE Quit \/ Cancel \/ Clock \/ Start \/ Save \/ SetEnabled \/ Remove
  <2>1. ~between /\ active' = active /\ work' = work
    BY <1>6 DEF Quit, Cancel, Clock, Start, Save, SetEnabled, Remove, Ready, memory
  <2>2. QED
    BY <2>1, ReadyStarted DEF PendingOK
<1>7. CASE UNCHANGED vars
  BY <1>7 DEF vars, memory, ghosts, SlotInv, PendingOK
<1>8. ASSUME NEW t, NEW new, Begin(t, new), new.id = made + 1, up # "off"
      PROVE  between' = TRUE /\ \A r \in runs' : r.id = active' => r = new
  <2>1. active' = made + 1 /\ runs' \subseteq runs \cup {new} /\ between' = TRUE
    BY <1>8 DEF Begin, Commit, Trim
  <2>2. \A r \in runs : r.id # made + 1
    BY <1>1, <1>8 DEF Good
  <2>3. QED
    BY <2>1, <2>2
<1>9. ASSUME NEW of, NEW t, Begin(t, [Blank EXCEPT !.retryOf = of]), up # "off"
      PROVE  PendingOK'
  <2> DEFINE new == [Blank EXCEPT !.retryOf = of]
  <2>1. new.id = made + 1 /\ new.slot = None
    BY DEF Blank
  <2>2. Begin(t, new)
    BY <1>9
  <2> HIDE DEF new
  <2>3. QED
    BY <1>8, <1>9, <2>1, <2>2 DEF PendingOK
<1>10. CASE RunNow
  BY <1>9, <1>10 DEF RunNow, Ready
<1>11. CASE Resume
  <2>1. CASE UNCHANGED <<now, up, task, runs, active, work, byUser, between, disk, made, ghosts>>
    BY <2>1 DEF ghosts, SlotInv, PendingOK
  <2>2. QED
    BY <1>9, <1>11, <2>1 DEF Resume, Ready
<1>12. CASE Tick
  <2>1. ~between /\ active = work /\ work' = work /\ up # "off" /\ now' = now /\ ran' = ran
    BY <1>12, ReadyStarted DEF Tick, Ready
  <2>2. CASE Skip \/ PullIn \/ Miss
    <3>1. active' = active
      BY <2>2 DEF Skip, PullIn, Miss
    <3>2. QED
      BY <2>1, <3>1 DEF PendingOK
  <2>3. CASE Run
    <3> DEFINE new == [Blank EXCEPT !.slot = latestDue(task)]
    <3>1. Begin(Advance(task), new) /\ task.next <= now
      BY <2>3 DEF Run
    <3>2. new.id = made + 1 /\ new.slot = latestDue(task)
      BY DEF Blank
    <3> HIDE DEF new
    <3>3. between' = TRUE /\ \A r \in runs' : r.id = active' => r = new
      BY <2>1, <3>1, <3>2, <1>8
    <3>4. /\ task # None /\ task.next # None /\ task.next \in Nat /\ now \in Nat
          /\ latestDue(task) \in Due(task)
      BY <1>12, <3>1, DueTask, LatestDue, NoneAssumption
    <3>5. /\ latestDue(task) <= now /\ latestDue(task) \in Nat
          /\ \A p \in ran : p[1] < latestDue(task)
      BY <3>4, RanTyped DEF Due, SlotInv, TasksBehind, Behind
    <3>6. task'.next # None => latestDue(task) < task'.next
      BY <1>12, <3>4, <3>5, TickMoves DEF Moves
    <3>7. QED
      BY <2>1, <3>2, <3>3, <3>5, <3>6 DEF PendingOK
  <2>4. QED
    BY <1>12, <2>2, <2>3 DEF Tick
<1>13. QED
  BY <1>2, <1>3, <1>4, <1>5, <1>6, <1>7, <1>10, <1>11, <1>12 DEF Next

LEMMA RanPastStep ==
  ASSUME ClockBack = FALSE, Inv, TypeInv, SlotInv, [Next]_vars
  PROVE  RanPast'
<1>1. /\ now \in Nat /\ now' \in Nat /\ now <= now'
      /\ \A p \in ran : p[1] \in Nat /\ p[1] <= now
  BY TimeStep, RanTyped DEF SlotInv, RanPast
<1>2. CASE ~SaveTask
  <2>1. ran' = ran
    BY <1>2, HistoryStep
  <2>2. QED
    BY <1>1, <2>1 DEF SlotInv, RanPast, NoSlotTwice
<1>3. CASE SaveTask
  <2>1. ASSUME NEW p \in ran', p \notin ran
        PROVE  \E r \in runs : /\ r.id = active /\ r.id # work /\ r.slot # None
                               /\ p = <<r.slot, r.id>>
    BY <1>3, <2>1 DEF SaveTask
  <2>2. ASSUME NEW p \in ran', p \notin ran
        PROVE  p[2] = active /\ p[1] <= now /\ \A q \in ran : q[1] < p[1]
    BY <2>1, <2>2 DEF SlotInv, PendingOK
  <2>3. ASSUME NEW p \in ran', NEW q \in ran', p \notin ran, q \notin ran PROVE p = q
    <3>1. PICK r \in runs : r.id = active /\ r.slot # None /\ r.id # work /\ p = <<r.slot, r.id>>
      BY <2>1, <2>3
    <3>2. PICK s \in runs : s.id = active /\ s.slot # None /\ s.id # work /\ q = <<s.slot, s.id>>
      BY <2>1, <2>3
    <3>3. Good(runs, made)
      <4>1. r.id \in Int
        BY DEF TypeInv, FilesTyped, RestTyped, Record, Ids
      <4>2. up # "off"
        BY <3>1, <4>1, NoneAssumption DEF Inv, ProgressOK
      <4>3. QED
        BY <4>2 DEF Inv, FilesOK
    <3>4. QED
      BY <3>1, <3>2, <3>3 DEF Good
  <2>4. now' = now
    BY <1>3 DEF SaveTask
  <2>5. \A p \in ran' : p[1] <= now'
    BY <1>1, <2>2, <2>4
  <2>6. ASSUME NEW p \in ran', NEW q \in ran', p[1] = q[1] PROVE p = q
    <3>1. CASE p \in ran /\ q \in ran
      BY <2>6, <3>1 DEF SlotInv, RanPast, NoSlotTwice
    <3>2. CASE p \in ran /\ q \notin ran
      BY <1>1, <2>2, <2>6, <3>2
    <3>3. CASE p \notin ran /\ q \in ran
      BY <1>1, <2>2, <2>6, <3>3
    <3>4. CASE p \notin ran /\ q \notin ran
      BY <2>3, <3>4
    <3>5. QED
      BY <3>1, <3>2, <3>3, <3>4
  <2>7. QED
    BY <2>5, <2>6 DEF RanPast, NoSlotTwice
<1>4. QED
  BY <1>2, <1>3

LEMMA SlotStep == ClockBack = FALSE /\ Inv /\ TypeInv /\ SlotInv /\ [Next]_vars => SlotInv'
BY TasksBehindStep, PendingStep, RanPastStep DEF SlotInv

LEMMA SlotInit == Init => SlotInv
<1> SUFFICES ASSUME Init PROVE SlotInv
  OBVIOUS
<1>1. now = 0 /\ task = None /\ ran = {} /\ runs = {} /\ active = None /\ work = None
  BY DEF Init
<1>2. PICK sch \in Schedules :
        disk = [runs |-> {}, task |-> [schedule |-> sch, enabled |-> TRUE, updated |-> 0,
                                       next |-> nextRunAfter(sch, 0), lastStatus |-> None]]
  BY DEF Init
<1>3. /\ disk.task.schedule = sch /\ disk.task.updated = 0
      /\ disk.task.next = nextRunAfter(sch, 0)
  BY <1>2
<1>4. disk.task = None \/ Waits(disk.task)
  BY TypeInit DEF TypeInv, FilesTyped, MayWait
<1>5. Behind(disk.task, 0, {}, accounted)
  <2>1. CASE disk.task = None
    BY <2>1 DEF Behind
  <2>2. CASE Waits(disk.task)
    BY <1>3, <2>2, FreshBehind
  <2>3. QED
    BY <1>4, <2>1, <2>2
<1>6. QED
  BY <1>1, <1>5 DEF SlotInv, TasksBehind, Behind, PendingOK, RanPast, NoSlotTwice

\* Each slot is run for once at most, and none since the task was last changed
\* passes without a run, a skip or a miss on record, over any quits, crashes and
\* launches (engine.ts tick, advance and begin).  The clock must not be set
\* back: a slot that comes again is run for again.
THEOREM EverySlotOnceCorrect == ClockBack = FALSE => (Spec => []EverySlotOnce)
<1> SUFFICES ASSUME ClockBack = FALSE PROVE Spec => []EverySlotOnce
  OBVIOUS
<1> DEFINE I == Inv /\ TypeInv /\ SlotInv
<1>1. Init => I
  BY InvInit, TypeInit, SlotInit
<1>2. I /\ [Next]_vars => I'
  BY InvStep, TypeStep, SlotStep
<1>3. I => EverySlotOnce
  <2> SUFFICES ASSUME I PROVE NoSlotTwice /\ NoSlotSilent
    BY DEF EverySlotOnce
  <2>1. \A t \in {task, disk.task} : MayWait(t) /\ Behind(t, now, ran, accounted)
    BY DEF SlotInv, TasksBehind, TypeInv, FilesTyped
  <2>2. NoSlotSilent
    BY <2>1 DEF NoSlotSilent, MayWait, Waits, Behind
  <2>3. QED
    BY <2>2 DEF SlotInv, RanPast
<1> HIDE DEF I
<1>4. QED
  BY <1>1, <1>2, <1>3, PTL DEF Spec

-----------------------------------------------------------------------------
(* A retry is not repeated.                                                *)

\* The same record, whatever has become of it.
Kin(q, r) == q.id = r.id /\ q.at = r.at /\ q.retryOf = r.retryOf

\* Nothing is added, and nothing goes that is newer than what stays.
KeepsNewer ==
  /\ made' = made /\ retried' = retried
  /\ \A q \in disk'.runs :
       /\ \E r \in disk.runs : Kin(q, r)
       /\ \A r \in disk.runs : Newer(r, q) => \E s \in disk'.runs : Kin(s, r)

\* A record is added, and nothing goes that is newer than what stays.
AddsNewer(new) ==
  /\ made' = made + 1 /\ new.id = made + 1 /\ new.at \in Nat /\ new.at <= now
  /\ disk'.runs \subseteq disk.runs \cup {new}
  /\ \A q \in disk'.runs, r \in disk.runs \cup {new} : Newer(r, q) => r \in disk'.runs

LEMMA RecordsDated == TypeInv => made \in Nat /\ Dated(disk.runs) /\ Dated(runs)
BY DEF TypeInv, RestTyped, FilesTyped, Record, Ids, Dated

LEMMA CommitKeepsNewer ==
  ASSUME FilesOK, NEW t, NEW rs, NEW m \in Nat, Good(rs, m), Dated(rs), Commit(t, rs)
  PROVE  /\ disk'.runs \subseteq rs
         /\ \A q \in disk'.runs, r \in rs : Newer(r, q) => r \in disk'.runs
<1>1. disk'.runs = Trim(t, rs)
  BY DEF Commit, FilesOK
<1>2. IsFiniteSet(rs)
  BY FiniteRecords
<1>3. \A q \in Trim(t, rs), r \in rs : Newer(r, q) => r \in Trim(t, rs)
  BY <1>2, TrimKeepsNewer
<1>4. Trim(t, rs) \subseteq rs
  BY DEF Trim
<1>5. QED
  BY <1>1, <1>3, <1>4

\* Settling and finding cut off keep every record.
LEMMA SettledKin ==
  ASSUME NEW rs, NEW m, rs \subseteq RecordOf(m), NEW id, NEW status, NEW quit
  PROVE  /\ \A q \in Settled(rs, id, status, quit) : \E r \in rs : Kin(q, r)
         /\ \A r \in rs : \E q \in Settled(rs, id, status, quit) : Kin(q, r)
<1> DEFINE Mark(r) == IF r.id = id THEN [r EXCEPT !.status = status, !.quit = quit] ELSE r
<1>1. Settled(rs, id, status, quit) = {Mark(r) : r \in rs}
  BY DEF Settled
<1>2. ASSUME NEW r \in rs PROVE Kin(Mark(r), r)
  BY DEF RecordOf, Kin
<1> HIDE DEF Mark
<1>3. QED
  BY <1>1, <1>2

LEMMA FailedKin ==
  ASSUME NEW rs, NEW m, rs \subseteq RecordOf(m)
  PROVE  LET fs == {IF r.status = "running" THEN [r EXCEPT !.status = "failed"] ELSE r : r \in rs}
         IN /\ \A q \in fs : \E r \in rs : Kin(q, r)
            /\ \A r \in rs : \E q \in fs : Kin(q, r)
<1> DEFINE Mark(r) == IF r.status = "running" THEN [r EXCEPT !.status = "failed"] ELSE r
<1>1. ASSUME NEW r \in rs PROVE Kin(Mark(r), r)
  BY DEF RecordOf, Kin
<1>2. SUFFICES LET fs == {Mark(r) : r \in rs}
               IN /\ \A q \in fs : \E r \in rs : Kin(q, r)
                  /\ \A r \in rs : \E q \in fs : Kin(q, r)
  OBVIOUS
<1> HIDE DEF Mark
<1>3. QED
  BY <1>1

\* A commit of the same records, changed or not, keeps what is newer.
LEMMA CommitKin ==
  ASSUME FilesOK, TypeInv, NEW t, NEW rs, Good(rs, made), rs \subseteq RecordOf(made),
         \A q \in rs : \E r \in disk.runs : Kin(q, r),
         \A r \in disk.runs : \E q \in rs : Kin(q, r),
         Commit(t, rs), made' = made, retried' = retried
  PROVE  KeepsNewer
<1>1. made \in Nat /\ Dated(rs) /\ Dated(disk.runs)
  BY RecordsDated DEF RecordOf, Dated
<1>2. /\ disk'.runs \subseteq rs
      /\ \A q \in disk'.runs, r \in rs : Newer(r, q) => r \in disk'.runs
  BY <1>1, CommitKeepsNewer
<1>3. ASSUME NEW q \in disk'.runs, NEW r \in disk.runs, Newer(r, q)
      PROVE  \E s \in disk'.runs : Kin(s, r)
  <2>1. PICK s \in rs : Kin(s, r)
    OBVIOUS
  <2>2. Newer(s, q)
    BY <1>3, <2>1 DEF Kin, Newer
  <2>3. QED
    BY <1>2, <2>1, <2>2
<1>4. QED
  BY <1>2, <1>3 DEF KeepsNewer

LEMMA SameKeepsNewer ==
  disk'.runs = disk.runs /\ made' = made /\ retried' = retried => KeepsNewer
BY DEF KeepsNewer, Kin

LEMMA AddKin ==
  ASSUME FilesOK, TypeInv, up # "off", NEW t, NEW new \in RecordOf(made + 1),
         new.id = made + 1, new.at <= now, Commit(t, runs \cup {new}), made' = made + 1
  PROVE  AddsNewer(new)
<1>1. made \in Nat /\ Dated(runs) /\ runs = disk.runs /\ Good(runs, made)
  BY RecordsDated DEF FilesOK
<1>2. Dated(runs \cup {new}) /\ Good(runs \cup {new}, made + 1) /\ new.at \in Nat
  BY <1>1 DEF RecordOf, Dated, Good, Fields
<1>3. QED
  BY <1>1, <1>2, CommitKeepsNewer DEF AddsNewer

\* A retry by the app: of a candidate, made now.
RetryOf(new) ==
  \E r \in Candidates : /\ new.retryOf = r.id /\ new.at = now
                        /\ retried' = retried \cup {<<r.id, made + 1>>}

LEMMA TickNewer ==
  ASSUME FilesOK, TypeInv, Tick
  PROVE  KeepsNewer \/ \E new : AddsNewer(new) /\ retried' = retried
<1>1. /\ task.next \in Nat /\ now \in Nat /\ made \in Nat /\ up # "off" /\ retried' = retried
      /\ runs = disk.runs /\ Good(runs, made) /\ runs \subseteq RecordOf(made)
      /\ IsSlot(task.schedule, task.next)
  BY DueTask, RecordsOfMade DEF Tick, TypeInv, RestTyped, FilesTyped, FilesOK
<1>2. ASSUME NEW t, Commit(t, runs), made' = made PROVE KeepsNewer
  BY <1>1, <1>2, CommitKin DEF Kin
<1>3. task.next <= now => latestDue(task) \in Nat /\ latestDue(task) <= now
  BY <1>1, LatestDue DEF Due
<1>4. CASE Skip
  <2>1. CASE \E r \in runs : r.blockedBy = active
    BY <1>2, <1>4, <2>1 DEF Skip
  <2>2. CASE ~\E r \in runs : r.blockedBy = active
    <3> DEFINE new == [Blank EXCEPT !.at = task.next, !.status = "skipped", !.blockedBy = active]
    <3>1. active \in Ids /\ task.next <= now
      BY <1>4 DEF Skip, TypeInv, RestTyped
    <3>2. new \in RecordOf(made + 1) /\ new.id = made + 1 /\ new.at = task.next
      BY <1>1, <3>1, NewRecordTyped DEF Blank
    <3>3. Commit(Advance(task), runs \cup {new}) /\ made' = made + 1
      BY <1>4, <2>2 DEF Skip
    <3> HIDE DEF new
    <3>4. AddsNewer(new)
      BY <1>1, <3>1, <3>2, <3>3, AddKin
    <3>5. QED
      BY <1>1, <3>4
  <2>3. QED
    BY <2>1, <2>2
<1>5. CASE PullIn
  BY <1>2, <1>5 DEF PullIn
<1>6. CASE Miss
  <2> DEFINE new == [Blank EXCEPT !.at = latestDue(task), !.status = "missed"]
             t == [Advance(task) EXCEPT !.lastStatus = "missed"]
  <2>1. Commit(t, runs \cup {new}) /\ made' = made + 1 /\ task.next <= now
    BY <1>6 DEF Miss
  <2>2. new \in RecordOf(made + 1) /\ new.id = made + 1 /\ new.at = latestDue(task)
    BY <1>1, <1>3, <2>1, NewRecordTyped DEF Blank
  <2> HIDE DEF new, t
  <2>3. AddsNewer(new)
    BY <1>1, <1>3, <2>1, <2>2, AddKin
  <2>4. QED
    BY <1>1, <2>3
<1>7. CASE Run
  <2> DEFINE new == [Blank EXCEPT !.slot = latestDue(task)]
             t == [Advance(task) EXCEPT !.lastStatus = "running"]
  <2>1. Commit(t, runs \cup {new}) /\ made' = made + 1 /\ task.next <= now
    BY <1>7 DEF Run, Begin
  <2>2. new \in RecordOf(made + 1) /\ new.id = made + 1 /\ new.at = now
    BY <1>1, <1>3, <2>1, NewRecordTyped DEF Blank
  <2> HIDE DEF new, t
  <2>3. AddsNewer(new)
    BY <1>1, <2>1, <2>2, AddKin
  <2>4. QED
    BY <1>1, <2>3
<1>8. QED
  BY <1>4, <1>5, <1>6, <1>7 DEF Tick

\* A run asked for, by the user or by the app, is made now.
LEMMA AskedNewer ==
  ASSUME FilesOK, TypeInv, up # "off", NEW of \in Ids \cup {None}, NEW t,
         Begin(t, [Blank EXCEPT !.retryOf = of])
  PROVE  \E new : AddsNewer(new) /\ new.retryOf = of /\ new.at = now
<1> DEFINE new == [Blank EXCEPT !.retryOf = of]
           u == [t EXCEPT !.lastStatus = "running"]
<1>1. now \in Nat /\ made \in Nat
  BY DEF TypeInv, RestTyped
<1>2. new \in RecordOf(made + 1) /\ new.id = made + 1 /\ new.at = now /\ new.retryOf = of
  BY <1>1, NewRecordTyped DEF Blank
<1>3. Commit(u, runs \cup {new}) /\ made' = made + 1
  BY DEF Begin
<1> HIDE DEF new, u
<1>4. AddsNewer(new)
  BY <1>1, <1>2, <1>3, AddKin
<1>5. QED
  BY <1>2, <1>4

LEMMA SettleNewer ==
  ASSUME FilesOK, TypeInv, up # "off", NEW id, NEW status \in Statuses, NEW quit \in BOOLEAN,
         NEW t, Commit(t, Settled(runs, id, status, quit)), made' = made, retried' = retried
  PROVE  KeepsNewer
<1>1. runs = disk.runs /\ Good(runs, made) /\ runs \subseteq RecordOf(made)
  BY RecordsOfMade DEF TypeInv, FilesTyped, FilesOK
<1>2. /\ Good(Settled(runs, id, status, quit), made)
      /\ Settled(runs, id, status, quit) \subseteq RecordOf(made)
  BY <1>1, SettledRecords, SettledTyped
<1>3. QED
  BY <1>1, <1>2, SettledKin, CommitKin

LEMMA RecordsStep ==
  ASSUME Inv, TypeInv, [Next]_vars
  PROVE  KeepsNewer \/ \E new : AddsNewer(new) /\ (retried' = retried \/ RetryOf(new))
<1> USE DEF Inv
<1>1. \A r \in runs : r.id \in Ids
  BY DEF TypeInv, FilesTyped, Record
<1>2. CASE Load
  <2> DEFINE fs == {IF r.status = "running" THEN [r EXCEPT !.status = "failed"] ELSE r : r \in disk.runs}
  <2>1. disk.runs \subseteq RecordOf(made) /\ Good(disk.runs, made)
    BY RecordsOfMade DEF TypeInv, FilesTyped, FilesOK
  <2>2. /\ Good(fs, made) /\ fs \subseteq RecordOf(made)
        /\ \A q \in fs : \E r \in disk.runs : Kin(q, r)
        /\ \A r \in disk.runs : \E q \in fs : Kin(q, r)
    BY <2>1, FailedRecords, FailedTyped, FailedKin
  <2>3. \E t : Commit(t, fs)
    BY <1>2 DEF Load
  <2>4. made' = made /\ retried' = retried
    BY <1>2 DEF Load, ghosts
  <2> HIDE DEF fs
  <2>5. QED
    BY <2>2, <2>3, <2>4, CommitKin
<1>3. CASE SaveTask \/ Cancel \/ Clock \/ Start
  BY <1>3, QuietSteps, SameKeepsNewer
<1>4. CASE End \/ UNCHANGED vars
  BY <1>4, SameKeepsNewer DEF End, vars, ghosts
<1>5. CASE Report
  <2>1. made' = made /\ retried' = retried /\ up # "off"
    BY <1>5 DEF Report, ghosts
  <2>2. CASE Recorded(work)
    <3>1. \E t : Commit(t, Settled(runs, work, "ended", FALSE))
      BY <1>5, <2>2 DEF Report
    <3>2. QED
      BY <2>1, <3>1, SettleNewer DEF Statuses
  <2>3. CASE ~Recorded(work)
    BY <1>5, <2>1, <2>3, SameKeepsNewer DEF Report
  <2>4. QED
    BY <2>2, <2>3
<1>6. CASE Quit
  <2>1. made' = made /\ retried' = retried /\ up # "off"
    BY <1>6 DEF Quit, ghosts
  <2>2. CASE Recorded(active)
    <3>1. \E t : Commit(t, Settled(runs, active, "cancelled", ~byUser))
      BY <1>6, <2>2 DEF Quit
    <3>2. (~byUser) \in BOOLEAN
      OBVIOUS
    <3>3. QED
      BY <2>1, <3>1, <3>2, SettleNewer DEF Statuses
  <2>3. CASE ~Recorded(active)
    BY <1>6, <2>1, <2>3, SameKeepsNewer DEF Quit
  <2>4. QED
    BY <2>2, <2>3
<1>7. CASE Tick
  BY <1>7, TickNewer
<1>8. CASE RunNow
  <2>1. up # "off" /\ retried' = retried
    BY <1>8 DEF RunNow, Ready
  <2>2. PICK of \in {None} \cup {r.id : r \in runs} : Begin(task, [Blank EXCEPT !.retryOf = of])
    BY <1>8 DEF RunNow
  <2>3. of \in Ids \cup {None}
    BY <1>1
  <2>4. QED
    BY <2>1, <2>2, <2>3, AskedNewer
<1>9. CASE Resume
  <2>1. CASE UNCHANGED <<now, up, task, runs, active, work, byUser, between, disk, made, ghosts>>
    BY <2>1, SameKeepsNewer DEF ghosts
  <2>2. ASSUME NEW r \in Candidates, Begin(task, [Blank EXCEPT !.retryOf = r.id]),
               retried' = retried \cup {<<r.id, made + 1>>}
        PROVE  \E new : AddsNewer(new) /\ RetryOf(new)
    <3>1. up # "off" /\ r.id \in Ids \cup {None}
      BY <1>1, <1>9, <2>2 DEF Resume, Ready, Candidates
    <3>2. PICK new : AddsNewer(new) /\ new.retryOf = r.id /\ new.at = now
      BY <2>2, <3>1, AskedNewer
    <3>3. QED
      BY <2>2, <3>2 DEF RetryOf
  <2>3. QED
    BY <1>9, <2>1, <2>2 DEF Resume
<1>10. CASE Save \/ SetEnabled \/ Remove
  <2>1. made' = made /\ retried' = retried /\ up # "off" /\ \E t : Commit(t, runs)
    BY <1>10 DEF Save, SetEnabled, Remove, Ready, ghosts
  <2>2. runs = disk.runs /\ Good(runs, made) /\ runs \subseteq RecordOf(made)
    BY <2>1, RecordsOfMade DEF TypeInv, FilesTyped, FilesOK
  <2>3. QED
    BY <2>1, <2>2, CommitKin DEF Kin
<1>11. QED
  BY <1>2, <1>3, <1>4, <1>5, <1>6, <1>7, <1>8, <1>9, <1>10 DEF Next

\* While the record of a run that was made again is kept, so is that of its
\* retry, which is newer; and the record of a retry says so.
RetryInv ==
  /\ \A r \in disk.runs : r.at <= now
  /\ \A p \in retried, r \in disk.runs :
       /\ r.id = p[1] => \E q \in disk.runs : q.id = p[2] /\ q.retryOf = p[1] /\ Newer(q, r)
       /\ r.id = p[2] => r.retryOf # None
  /\ RetriedOnce

LEMMA RetryIds ==
  TypeInv => /\ made \in Nat /\ now \in Nat
             /\ \A p \in retried : p[1] \in Nat /\ p[1] <= made /\ p[2] \in Nat /\ p[2] <= made
             /\ \A r \in disk.runs : /\ r.id \in Nat /\ r.id <= made /\ r.at \in Nat
                                     /\ r.id # None
BY NoneAssumption DEF TypeInv, RestTyped, FilesTyped, Record, Ids

LEMMA KeepRetry ==
  ASSUME TypeInv, TypeInv', now <= now', RetryInv, KeepsNewer
  PROVE  RetryInv'
<1>1. /\ \A r \in disk.runs : r.at \in Nat /\ r.id \in Nat /\ r.at <= now
      /\ now \in Nat /\ now' \in Nat
  BY RetryIds DEF RetryInv, TypeInv, RestTyped
<1>2. \A q \in disk'.runs : \E r \in disk.runs : Kin(q, r)
  BY DEF KeepsNewer
<1>3. \A q \in disk'.runs : q.at <= now'
  BY <1>1, <1>2 DEF Kin
<1>4. ASSUME NEW p \in retried, NEW q \in disk'.runs
      PROVE  /\ q.id = p[1] => \E s \in disk'.runs : s.id = p[2] /\ s.retryOf = p[1] /\ Newer(s, q)
             /\ q.id = p[2] => q.retryOf # None
  <2>1. PICK r \in disk.runs : Kin(q, r)
    BY <1>2
  <2>2. ASSUME q.id = p[1]
        PROVE  \E s \in disk'.runs : s.id = p[2] /\ s.retryOf = p[1] /\ Newer(s, q)
    <3>1. PICK z \in disk.runs : z.id = p[2] /\ z.retryOf = p[1] /\ Newer(z, r)
      BY <2>1, <2>2 DEF RetryInv, Kin
    <3>2. Newer(z, q)
      BY <2>1, <3>1 DEF Newer, Kin
    <3>3. PICK s \in disk'.runs : Kin(s, z)
      BY <3>2 DEF KeepsNewer
    <3>4. Newer(s, q)
      BY <3>2, <3>3 DEF Newer, Kin
    <3>5. QED
      BY <3>1, <3>3, <3>4 DEF Kin
  <2>3. q.id = p[2] => q.retryOf # None
    BY <2>1 DEF RetryInv, Kin
  <2>4. QED
    BY <2>2, <2>3
<1>5. retried' = retried
  BY DEF KeepsNewer
<1>6. RetriedOnce'
  BY <1>5 DEF RetryInv, RetriedOnce
<1>7. QED
  BY <1>3, <1>4, <1>5, <1>6 DEF RetryInv

\* A record that is added is no retry of the app's, nor was it made again.
LEMMA AddRetry ==
  ASSUME TypeInv, now <= now', now' \in Nat, RetryInv, NEW new, AddsNewer(new)
  PROVE  /\ \A q \in disk'.runs : q.at <= now'
         /\ \A p \in retried, q \in disk'.runs :
              /\ q.id = p[1] => \E s \in disk'.runs : s.id = p[2] /\ s.retryOf = p[1] /\ Newer(s, q)
              /\ q.id = p[2] => q.retryOf # None
<1>1. /\ now \in Nat /\ made \in Nat /\ new.id = made + 1 /\ new.at \in Nat /\ new.at <= now
      /\ disk'.runs \subseteq disk.runs \cup {new}
  BY RetryIds DEF AddsNewer
<1>2. \A r \in disk.runs : r.at \in Nat /\ r.at <= now
  BY RetryIds DEF RetryInv
<1>3. \A q \in disk'.runs : q.at <= now'
  BY <1>1, <1>2
<1>4. ASSUME NEW p \in retried, NEW q \in disk'.runs
      PROVE  /\ q.id = p[1] => \E s \in disk'.runs : s.id = p[2] /\ s.retryOf = p[1] /\ Newer(s, q)
             /\ q.id = p[2] => q.retryOf # None
  <2>1. p[1] # new.id /\ p[2] # new.id
    BY <1>1, RetryIds
  <2>2. CASE q \notin disk.runs
    BY <1>1, <2>1, <2>2
  <2>3. CASE q \in disk.runs
    <3>1. ASSUME q.id = p[1]
          PROVE  \E s \in disk'.runs : s.id = p[2] /\ s.retryOf = p[1] /\ Newer(s, q)
      <4>1. PICK z \in disk.runs : z.id = p[2] /\ z.retryOf = p[1] /\ Newer(z, q)
        BY <2>3, <3>1 DEF RetryInv
      <4>2. z \in disk'.runs
        BY <4>1 DEF AddsNewer
      <4>3. QED
        BY <4>1, <4>2
    <3>2. q.id = p[2] => q.retryOf # None
      BY <2>3 DEF RetryInv
    <3>3. QED
      BY <3>1, <3>2
  <2>4. QED
    BY <2>2, <2>3
<1>5. QED
  BY <1>3, <1>4

LEMMA RetryStep ==
  ASSUME ClockBack = FALSE, Inv, TypeInv, TypeInv', RetryInv, [Next]_vars
  PROVE  RetryInv'
<1>1. now <= now' /\ now' \in Nat /\ now \in Nat /\ made \in Nat
  BY TimeStep DEF TypeInv, RestTyped
<1>2. CASE KeepsNewer
  BY <1>1, <1>2, KeepRetry
<1>3. ASSUME NEW new, AddsNewer(new), retried' = retried PROVE RetryInv'
  <2>1. RetriedOnce'
    BY <1>3 DEF RetryInv, RetriedOnce
  <2>2. QED
    BY <1>1, <1>3, <2>1, AddRetry DEF RetryInv
<1>4. ASSUME NEW new, AddsNewer(new), RetryOf(new) PROVE RetryInv'
  <2>1. PICK c \in Candidates : /\ new.retryOf = c.id /\ new.at = now
                                /\ retried' = retried \cup {<<c.id, made + 1>>}
    BY <1>4 DEF RetryOf
  <2>2. /\ c \in runs /\ c.id \in cutOff /\ c.retryOf = None
        /\ \A q \in runs : q.retryOf # c.id
    BY DEF Candidates
  <2>3. runs = disk.runs /\ Good(disk.runs, made)
    BY <2>2 DEF Inv, FilesOK, ProgressOK
  <2>4. /\ c.id \in Nat /\ c.id <= made /\ c.id # None /\ c.at \in Nat /\ c.at <= now
        /\ new.id = made + 1 /\ disk'.runs \subseteq disk.runs \cup {new}
    BY <1>4, <2>2, <2>3, RetryIds DEF RetryInv, AddsNewer
  <2>5. ASSUME NEW p \in retried PROVE p[1] # c.id /\ p[2] # c.id /\ p[1] # made + 1
    BY <1>1, <2>2, <2>3, RetryIds DEF RetryInv
  <2>6. RetriedOnce'
    <3>1. ASSUME NEW p \in retried', NEW q \in retried'
          PROVE  (p[1] = q[1] => p = q) /\ p[2] # q[1]
      <4>1. CASE p \in retried /\ q \in retried
        BY <4>1 DEF RetryInv, RetriedOnce
      <4>2. CASE p \in retried /\ q = <<c.id, made + 1>>
        BY <2>5, <4>2
      <4>3. CASE p = <<c.id, made + 1>> /\ q \in retried
        BY <2>5, <4>3
      <4>4. CASE p = <<c.id, made + 1>> /\ q = <<c.id, made + 1>>
        BY <1>1, <2>4, <4>4
      <4>5. QED
        BY <2>1, <4>1, <4>2, <4>3, <4>4
    <3>2. QED
      BY <3>1 DEF RetriedOnce
  <2>7. ASSUME NEW q \in disk'.runs
        PROVE  /\ q.id = c.id =>
                    \E s \in disk'.runs : s.id = made + 1 /\ s.retryOf = c.id /\ Newer(s, q)
               /\ q.id = made + 1 => q.retryOf # None
    <3>1. CASE q = new
      BY <1>1, <2>1, <2>4, <3>1
    <3>2. CASE q \in disk.runs
      <4>1. q.id <= made /\ q.id \in Nat
        BY <3>2, RetryIds
      <4>2. ASSUME q.id = c.id
            PROVE  \E s \in disk'.runs : s.id = made + 1 /\ s.retryOf = c.id /\ Newer(s, q)
        <5>1. q = c
          BY <2>2, <2>3, <3>2, <4>2 DEF Good
        <5>2. Newer(new, q)
          BY <1>1, <2>1, <2>4, <5>1 DEF Newer
        <5>3. new \in disk'.runs
          BY <1>4, <5>2 DEF AddsNewer
        <5>4. QED
          BY <2>1, <2>4, <5>2, <5>3
      <4>3. QED
        BY <1>1, <4>1, <4>2
    <3>3. QED
      BY <2>4, <3>1, <3>2
  <2>8. QED
    <3>1. /\ \A q \in disk'.runs : q.at <= now'
          /\ \A p \in retried, q \in disk'.runs :
               /\ q.id = p[1] => \E s \in disk'.runs : s.id = p[2] /\ s.retryOf = p[1] /\ Newer(s, q)
               /\ q.id = p[2] => q.retryOf # None
      BY <1>1, <1>4, AddRetry
    <3>2. ASSUME NEW p \in retried', NEW q \in disk'.runs
          PROVE  /\ q.id = p[1] => \E s \in disk'.runs : s.id = p[2] /\ s.retryOf = p[1] /\ Newer(s, q)
                 /\ q.id = p[2] => q.retryOf # None
      <4>1. CASE p \in retried
        BY <3>1, <4>1
      <4>2. CASE p = <<c.id, made + 1>>
        <5>1. p[1] = c.id /\ p[2] = made + 1
          BY <4>2
        <5>2. QED
          BY <2>7, <5>1
      <4>3. QED
        BY <2>1, <4>1, <4>2
    <3>3. QED
      BY <2>6, <3>1, <3>2 DEF RetryInv
<1>5. QED
  BY <1>2, <1>3, <1>4, RecordsStep

\* A run that was cut off is made again by the app once at most, and its retry
\* is not made again (service.ts cutOffPurchasesToRetry).  The clock must not be
\* set back: a retry that is dated before the run it repeats may be forgotten
\* before it.
THEOREM RetriedOnceCorrect == ClockBack = FALSE => (Spec => []RetriedOnce)
<1> SUFFICES ASSUME ClockBack = FALSE PROVE Spec => []RetriedOnce
  OBVIOUS
<1> DEFINE I == Inv /\ TypeInv /\ RetryInv
<1>1. Init => I
  <2>1. Init => disk.runs = {} /\ retried = {}
    BY DEF Init
  <2>2. QED
    BY <2>1, InvInit, TypeInit DEF RetryInv, RetriedOnce
<1>2. I /\ [Next]_vars => I'
  BY InvStep, TypeStep, RetryStep
<1>3. I => RetriedOnce
  BY DEF RetryInv
<1> HIDE DEF I
<1>4. QED
  BY <1>1, <1>2, <1>3, PTL DEF Spec

=============================================================================
