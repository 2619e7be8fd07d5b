---------------------------- MODULE WorkerJobsProofs ----------------------------
(***************************************************************************)
(* The properties of the jobs that workers hand over, for any workers,     *)
(* jobs and limits.                                                        *)
(*                                                                         *)
(* A memory is Sound when its jobs are typed, told of, alive and within    *)
(* the limits. Each operator is described by what it leaves in the fields  *)
(* of a job; each handler makes a sound memory of a sound one, and so does *)
(* the tick that follows it. Who waits for whom is a second invariant,     *)
(* Wired, that only handing over and taking back bear on.                  *)
(***************************************************************************)
EXTENDS WorkerJobs, FiniteSetTheorems, TLAPS

-----------------------------------------------------------------------------
(* The invariant, of a memory e.                                           *)

\* A job's parent was sent a result when it has ended, and none before.
ToldFit(e, j) ==
  /\ e.state[j] \in Ended => e.told[j] > 0
  /\ e.state[j] \notin Ended => e.told[j] = 0

\* An open thread is one of a worker that is there; a job that is not there, or
\* not sent yet, has no thread.
ThreadFit(e, j) ==
  /\ e.thread[j] = "open" => e.to[j] \in e.alive
  /\ j \in e.sending => e.state[j] # "none"
  /\ j \in e.sending \/ e.state[j] = "none" => e.thread[j] \in {"none", "gone"}

Lively(e, j) ==
  \/ j \in e.sending \cup e.mail
  \/ e.run[j] # "idle" \/ e.beat[j] = "set"
  \/ e.thread[j] # "open"

For(e, w) == {j \in Open(e) : e.to[j] = w}

Bounded(e) ==
  /\ IsFiniteSet(Open(e)) /\ Cardinality(Open(e)) <= MaxOpen
  /\ \A w \in Workers : Cardinality(For(e, w)) <= MaxFor

\* Sound, but for jobs S that are being settled.
SoundBut(e, S) ==
  /\ e \in Memory /\ Bounded(e)
  /\ \A j \in Jobs :
       /\ ThreadFit(e, j)
       /\ j \notin S => ToldFit(e, j)
       /\ j \notin S /\ e.state[j] \in OpenStates => Lively(e, j)

Sound(e) == SoundBut(e, {})

LEMMA SoundAt ==
  ASSUME NEW e, NEW S, SoundBut(e, S), NEW j \in Jobs
  PROVE  /\ ThreadFit(e, j)
         /\ j \notin S => ToldFit(e, j)
         /\ j \notin S /\ e.state[j] \in OpenStates => Lively(e, j)
BY DEF SoundBut

\* Jobs that end make room.
LEMMA FewerBounded ==
  ASSUME NEW e, NEW g, Bounded(e), Open(g) \subseteq Open(e),
         \A j \in Open(g) : g.to[j] = e.to[j]
  PROVE  Bounded(g)
<1>1. IsFiniteSet(Open(g)) /\ Cardinality(Open(g)) <= Cardinality(Open(e))
  BY FS_Subset DEF Bounded
<1>2. Cardinality(Open(g)) \in Nat /\ Cardinality(Open(e)) \in Nat
  BY <1>1, FS_CardinalityType DEF Bounded
<1>3. ASSUME NEW w \in Workers
      PROVE  Cardinality(For(g, w)) <= MaxFor
  <2>1. For(g, w) \subseteq For(e, w) /\ For(e, w) \subseteq Open(e)
    BY DEF For
  <2>2. IsFiniteSet(For(e, w))
    BY <2>1, FS_Subset DEF Bounded
  <2>3. IsFiniteSet(For(g, w)) /\ Cardinality(For(g, w)) <= Cardinality(For(e, w))
    BY <2>1, <2>2, FS_Subset
  <2>4. Cardinality(For(g, w)) \in Nat /\ Cardinality(For(e, w)) \in Nat
    BY <2>2, <2>3, FS_CardinalityType
  <2>5. Cardinality(For(e, w)) <= MaxFor
    BY DEF Bounded
  <2>6. QED
    BY <2>3, <2>4, <2>5, JobsAssumption
<1>4. QED
  BY <1>1, <1>2, <1>3, JobsAssumption DEF Bounded

-----------------------------------------------------------------------------
(* The tick.                                                               *)

BegunOf(e, S, F, g) ==
  /\ g \in Memory /\ g.alive = e.alive /\ g.to = e.to /\ g.told = e.told
  /\ g.thread = e.thread /\ g.sending = e.sending /\ g.mail = e.mail \ S
  /\ \A t \in Threads : g.run[t] = IF t \in S THEN "going" ELSE e.run[t]
  /\ \A j \in Jobs :
       /\ g.beat[j] = IF j \in F THEN "used" ELSE e.beat[j]
       /\ g.state[j] = IF j \in S /\ e.state[j] \in OpenStates THEN "running" ELSE e.state[j]

LEMMA BegunEffect ==
  ASSUME NEW e \in Memory, NEW S \in SUBSET Threads, NEW F \in SUBSET S
  PROVE  BegunOf(e, S, F, Begun(e, S, F))
BY DEF BegunOf, Begun, Memory, OpenStates, Threads

LEMMA BegunSound ==
  ASSUME NEW e, Sound(e), NEW S \in SUBSET Threads, NEW F \in SUBSET S
  PROVE  Sound(Begun(e, S, F))
<1> DEFINE g == Begun(e, S, F)
<1>1. e \in Memory
  BY DEF Sound, SoundBut
<1>2. BegunOf(e, S, F, g)
  BY <1>1, BegunEffect
<1>. HIDE DEF g
<1>3. Open(g) = Open(e)
  BY <1>2 DEF BegunOf, Open, OpenStates
<1>4. Bounded(g)
  BY <1>2, <1>3, FewerBounded DEF BegunOf, Sound, SoundBut
<1>5. ASSUME NEW j \in Jobs
      PROVE  /\ ThreadFit(g, j)
             /\ ToldFit(g, j)
             /\ g.state[j] \in OpenStates => Lively(g, j)
  <2>1. /\ ThreadFit(e, j) /\ ToldFit(e, j)
        /\ e.state[j] \in OpenStates => Lively(e, j)
    BY SoundAt DEF Sound
  <2>2. ThreadFit(g, j)
    BY <1>2, <2>1 DEF BegunOf, ThreadFit, OpenStates
  <2>3. ToldFit(g, j)
    BY <1>2, <2>1 DEF BegunOf, ToldFit, OpenStates, Ended
  <2>4. g.state[j] \in OpenStates => Lively(g, j)
    BY <1>2, <2>1 DEF BegunOf, Lively, Threads, OpenStates
  <2>5. QED
    BY <2>2, <2>3, <2>4
<1>6. Sound(g)
  BY <1>2, <1>4, <1>5 DEF BegunOf, Sound, SoundBut
<1>7. QED
  BY <1>6 DEF g

LEMMA StartsSets ==
  ASSUME NEW e, NEW p \in Starts(e)
  PROVE  /\ p[1] \in SUBSET Threads
         /\ p[2] \in SUBSET p[1]
<1>1. PICK S \in SUBSET Due(e) :
        p \in {<<S, F>> : F \in {H \in SUBSET {j \in S \cap Jobs : e.beat[j] = "set"} :
                               \A t \in S : t \in e.mail \cup H \/ e.run[t] = "again"}}
  BY DEF Starts
<1>2. PICK F \in SUBSET {j \in S \cap Jobs : e.beat[j] = "set"} : p = <<S, F>>
  BY <1>1
<1>3. QED
  BY <1>1, <1>2 DEF Due

LEMMA TickSound ==
  ASSUME NEW f, Sound(f), Tick(f)
  PROVE  Sound(eng')
<1>1. PICK p \in Starts(f) : eng' = Begun(f, p[1], p[2])
  BY DEF Tick
<1>2. QED
  BY <1>1, StartsSets, BegunSound

-----------------------------------------------------------------------------
(* What the operators leave in the fields of a job.                        *)

\* Runs that are stopped are still there.
AbortedOf(e, g) ==
  /\ g \in Memory /\ g.alive = e.alive /\ g.to = e.to /\ g.told = e.told
  /\ g.thread = e.thread /\ g.sending = e.sending /\ g.mail = e.mail
  /\ g.beat = e.beat /\ g.state = e.state
  /\ \A t \in Threads : g.run[t] = "idle" => e.run[t] = "idle"

LEMMA AbortedEffect ==
  ASSUME NEW e \in Memory, NEW S
  PROVE  AbortedOf(e, Aborted(e, S))
BY DEF AbortedOf, Aborted, Memory

\* A thread that has been written to is open, and has mail.
MailedOf(e, S, g) ==
  /\ g \in Memory /\ g.alive = e.alive /\ g.to = e.to /\ g.told = e.told
  /\ g.sending = e.sending /\ g.beat = e.beat /\ g.state = e.state /\ g.run = e.run
  /\ e.mail \subseteq g.mail
  /\ \A j \in Jobs :
       /\ j \in S /\ e.thread[j] \in {"open", "closed"} => j \in g.mail
       /\ \/ g.thread[j] = e.thread[j]
          \/ /\ e.thread[j] = "closed" /\ g.thread[j] = "open"
             /\ j \in g.mail /\ e.to[j] \in e.alive

LEMMA MailedEffect ==
  ASSUME NEW e \in Memory, NEW S, \A t \in S : Owner(e, t) \in e.alive
  PROVE  MailedOf(e, S, Mailed(e, S))
<1> DEFINE new == {IF Here(e, t) THEN t ELSE Owner(e, t) : t \in S}
           th == [j \in Jobs |-> IF j \in S /\ Here(e, j) THEN "open" ELSE e.thread[j]]
           g == [e EXCEPT !.mail = @ \cup new, !.thread = th]
<1>1. e.alive \subseteq Workers
  BY DEF Memory
<1>2. new \subseteq Threads
  BY <1>1 DEF Here, Threads
<1>3. th \in [Jobs -> {"none", "open", "closed", "gone"}]
  BY DEF Memory
<1>4. \A j \in Jobs : j \in S /\ Here(e, j) => j \in new
  OBVIOUS
<1>5. \A j \in Jobs : Here(e, j) => e.thread[j] \in {"open", "closed"}
  BY JobsAssumption DEF Here
<1>6. \A j \in Jobs : e.thread[j] \in {"open", "closed"} => Here(e, j)
  BY JobsAssumption DEF Here
<1>7. \A j \in S \cap Jobs : e.to[j] \in e.alive
  BY JobsAssumption DEF Owner
<1>8. Mailed(e, S) = g
  BY DEF Mailed
<1>9. \A j \in Jobs : th[j] = IF j \in S /\ Here(e, j) THEN "open" ELSE e.thread[j]
  OBVIOUS
<1>. HIDE DEF new, th
<1>10. /\ g \in Memory /\ g.mail = e.mail \cup new /\ g.thread = th
       /\ g.alive = e.alive /\ g.to = e.to /\ g.told = e.told
       /\ g.sending = e.sending /\ g.beat = e.beat /\ g.state = e.state /\ g.run = e.run
  BY <1>2, <1>3 DEF Memory
<1>. HIDE DEF g
<1>11. QED
  BY <1>4, <1>5, <1>6, <1>7, <1>8, <1>9, <1>10 DEF MailedOf

\* The parents of the jobs S have been told, and written to.
ToldOf(e, S, g) ==
  /\ g \in Memory /\ g.alive = e.alive /\ g.to = e.to /\ g.sending = e.sending
  /\ g.beat = e.beat /\ g.state = e.state /\ g.run = e.run /\ e.mail \subseteq g.mail
  /\ \A j \in Jobs :
       /\ j \in S => g.told[j] > 0
       /\ j \notin S => g.told[j] = e.told[j]
       /\ \/ g.thread[j] = e.thread[j]
          \/ /\ e.thread[j] = "closed" /\ g.thread[j] = "open"
             /\ j \in g.mail /\ e.to[j] \in e.alive

LEMMA ToldEffect ==
  ASSUME NEW e \in Memory, NEW S
  PROVE  ToldOf(e, S, Told(e, S))
<1> DEFINE n == [j \in Jobs |-> IF j \in S /\ e.told[j] < 2 THEN e.told[j] + 1 ELSE e.told[j]]
           f == [e EXCEPT !.told = n]
           T == {t \in {e.from[j] : j \in S} : Owner(e, t) \in e.alive}
<1>1. n \in [Jobs -> 0..2] /\ \A j \in Jobs : IF j \in S THEN n[j] > 0 ELSE n[j] = e.told[j]
  BY DEF Memory
<1>2. Told(e, S) = Mailed(f, T)
  BY DEF Told, Memory
<1>. HIDE DEF n
<1>3. /\ f \in Memory /\ f.told = n /\ f.alive = e.alive /\ f.to = e.to
      /\ f.sending = e.sending /\ f.beat = e.beat /\ f.state = e.state /\ f.run = e.run
      /\ f.mail = e.mail /\ f.thread = e.thread
  BY <1>1 DEF Memory
<1>. HIDE DEF f
<1>4. \A t \in T : Owner(f, t) \in f.alive
  BY <1>3 DEF Owner
<1>. HIDE DEF T
<1>5. MailedOf(f, T, Mailed(f, T))
  BY <1>3, <1>4, MailedEffect
<1>6. QED
  BY <1>1, <1>2, <1>3, <1>5 DEF ToldOf, MailedOf

-----------------------------------------------------------------------------
(* The operators keep a memory sound.                                      *)

LEMMA MailedSound ==
  ASSUME NEW e, NEW S, Sound(e), \A t \in S : Owner(e, t) \in e.alive
  PROVE  Sound(Mailed(e, S))
<1> DEFINE g == Mailed(e, S)
<1>1. MailedOf(e, S, g)
  BY MailedEffect DEF Sound, SoundBut
<1>. HIDE DEF g
<1>2. Bounded(g)
  <2>1. Open(g) = Open(e)
    BY <1>1 DEF MailedOf, Open
  <2>2. QED
    BY <1>1, <2>1, FewerBounded DEF MailedOf, Sound, SoundBut
<1>3. ASSUME NEW j \in Jobs
      PROVE  /\ ThreadFit(g, j)
             /\ ToldFit(g, j)
             /\ g.state[j] \in OpenStates => Lively(g, j)
  <2>1. /\ ThreadFit(e, j) /\ ToldFit(e, j)
        /\ e.state[j] \in OpenStates => Lively(e, j)
    BY SoundAt DEF Sound
  <2>2. ThreadFit(g, j)
    BY <1>1, <2>1 DEF MailedOf, ThreadFit
  <2>3. ToldFit(g, j)
    BY <1>1, <2>1 DEF MailedOf, ToldFit
  <2>4. g.state[j] \in OpenStates => Lively(g, j)
    BY <1>1, <2>1 DEF MailedOf, Lively, Threads
  <2>5. QED
    BY <2>2, <2>3, <2>4
<1>4. Sound(g)
  BY <1>1, <1>2, <1>3 DEF MailedOf, Sound, SoundBut
<1>5. QED
  BY <1>4 DEF g

LEMMA AbortedSound ==
  ASSUME NEW e, NEW S, Sound(e)
  PROVE  Sound(Aborted(e, S))
<1> DEFINE g == Aborted(e, S)
<1>1. AbortedOf(e, g)
  BY AbortedEffect DEF Sound, SoundBut
<1>. HIDE DEF g
<1>2. Bounded(g)
  <2>1. Open(g) = Open(e)
    BY <1>1 DEF AbortedOf, Open
  <2>2. QED
    BY <1>1, <2>1, FewerBounded DEF AbortedOf, Sound, SoundBut
<1>3. ASSUME NEW j \in Jobs
      PROVE  /\ ThreadFit(g, j)
             /\ ToldFit(g, j)
             /\ g.state[j] \in OpenStates => Lively(g, j)
  <2>1. /\ ThreadFit(e, j) /\ ToldFit(e, j)
        /\ e.state[j] \in OpenStates => Lively(e, j)
    BY SoundAt DEF Sound
  <2>2. ThreadFit(g, j)
    BY <1>1, <2>1 DEF AbortedOf, ThreadFit
  <2>3. ToldFit(g, j)
    BY <1>1, <2>1 DEF AbortedOf, ToldFit
  <2>4. g.state[j] \in OpenStates => Lively(g, j)
    BY <1>1, <2>1 DEF AbortedOf, Lively, Threads
  <2>5. QED
    BY <2>2, <2>3, <2>4
<1>4. Sound(g)
  BY <1>1, <1>2, <1>3 DEF AbortedOf, Sound, SoundBut
<1>5. QED
  BY <1>4 DEF g

\* Once their parents are told, jobs that have ended are settled.
LEMMA ToldSound ==
  ASSUME NEW e, NEW S, SoundBut(e, S), \A j \in S \cap Jobs : e.state[j] \in Ended
  PROVE  Sound(Told(e, S))
<1> DEFINE g == Told(e, S)
<1>1. ToldOf(e, S, g)
  BY ToldEffect DEF SoundBut
<1>. HIDE DEF g
<1>2. Bounded(g)
  <2>1. Open(g) = Open(e)
    BY <1>1 DEF ToldOf, Open
  <2>2. QED
    BY <1>1, <2>1, FewerBounded DEF ToldOf, SoundBut
<1>3. ASSUME NEW j \in Jobs
      PROVE  /\ ThreadFit(g, j)
             /\ ToldFit(g, j)
             /\ g.state[j] \in OpenStates => Lively(g, j)
  <2>1. /\ ThreadFit(e, j)
        /\ j \notin S => ToldFit(e, j)
        /\ j \notin S /\ e.state[j] \in OpenStates => Lively(e, j)
        /\ j \in S => e.state[j] \in Ended
    BY SoundAt
  <2>2. ThreadFit(g, j)
    BY <1>1, <2>1 DEF ToldOf, ThreadFit
  <2>3. ToldFit(g, j)
    BY <1>1, <2>1 DEF ToldOf, ToldFit
  <2>4. g.state[j] \in OpenStates => Lively(g, j)
    BY <1>1, <2>1 DEF ToldOf, Lively, Threads, OpenStates, Ended
  <2>5. QED
    BY <2>2, <2>3, <2>4
<1>4. Sound(g)
  BY <1>1, <1>2, <1>3 DEF ToldOf, Sound, SoundBut
<1>5. QED
  BY <1>4 DEF g

LEMMA EndSound ==
  ASSUME NEW e, NEW S, NEW how \in {"failed", "cancelled"},
         SoundBut(e, S), \A j \in Jobs : ToldFit(e, j)
  PROVE  Sound(End(e, S, how))
<1> DEFINE ends == S \cap Open(e)
           open == {j \in ends : e.thread[j] = "open"}
           st == [j \in Jobs |-> IF j \in ends THEN how ELSE e.state[j]]
           th == [j \in Jobs |-> IF j \in open THEN "closed" ELSE e.thread[j]]
           be == [j \in Jobs |-> IF j \in open /\ e.beat[j] = "set" THEN "none" ELSE e.beat[j]]
           f == [e EXCEPT !.state = st, !.thread = th, !.beat = be]
           g == Aborted(f, ends)
<1>1. e \in Memory
  BY DEF SoundBut
<1>2. End(e, S, how) = Told(g, ends)
  BY <1>1 DEF End, Memory
<1>3. /\ st \in [Jobs -> {"none"} \cup OpenStates \cup Ended]
      /\ th \in [Jobs -> {"none", "open", "closed", "gone"}]
      /\ be \in [Jobs -> {"none", "set", "used"}]
  BY <1>1 DEF Memory, Ended
<1>4. \A j \in Jobs :
        /\ j \in ends => st[j] = how
        /\ j \notin ends => st[j] = e.state[j] /\ th[j] = e.thread[j] /\ be[j] = e.beat[j]
        /\ th[j] = e.thread[j] \/ (th[j] = "closed" /\ e.thread[j] = "open")
  OBVIOUS
<1>5. \A j \in Jobs : j \in ends <=> j \in S /\ e.state[j] \in OpenStates
  BY DEF Open
<1>. HIDE DEF ends, st, th, be
<1>6. /\ f \in Memory /\ f.state = st /\ f.thread = th /\ f.beat = be
      /\ f.alive = e.alive /\ f.to = e.to /\ f.told = e.told /\ f.sending = e.sending
      /\ f.mail = e.mail /\ f.run = e.run
  BY <1>1, <1>3 DEF Memory
<1>. HIDE DEF f
<1>7. AbortedOf(f, g)
  BY <1>6, AbortedEffect
<1>. HIDE DEF g
<1>8. Bounded(g)
  <2>1. Open(g) \subseteq Open(e) /\ g.to = e.to
    BY <1>4, <1>5, <1>6, <1>7 DEF AbortedOf, Open, OpenStates
  <2>2. QED
    BY <2>1, FewerBounded DEF SoundBut
<1>9. ASSUME NEW j \in Jobs
      PROVE  /\ ThreadFit(g, j)
             /\ j \notin ends => ToldFit(g, j)
             /\ j \notin ends /\ g.state[j] \in OpenStates => Lively(g, j)
  <2>1. /\ ThreadFit(e, j) /\ ToldFit(e, j)
        /\ j \notin S /\ e.state[j] \in OpenStates => Lively(e, j)
    BY SoundAt
  <2>2. ThreadFit(g, j)
    BY <1>4, <1>5, <1>6, <1>7, <2>1 DEF AbortedOf, ThreadFit, OpenStates
  <2>3. j \notin ends => ToldFit(g, j)
    BY <1>4, <1>6, <1>7, <2>1 DEF AbortedOf, ToldFit
  <2>4. j \notin ends /\ g.state[j] \in OpenStates => Lively(g, j)
    BY <1>4, <1>5, <1>6, <1>7, <2>1 DEF AbortedOf, Lively, Threads
  <2>5. QED
    BY <2>2, <2>3, <2>4
<1>10. SoundBut(g, ends)
  BY <1>7, <1>8, <1>9 DEF SoundBut, AbortedOf
<1>11. \A j \in ends \cap Jobs : g.state[j] \in Ended
  BY <1>4, <1>6, <1>7 DEF AbortedOf, Ended
<1>12. QED
  BY <1>2, <1>10, <1>11, ToldSound

Fit(e, j) ==
  /\ ThreadFit(e, j) /\ ToldFit(e, j)
  /\ e.state[j] \in OpenStates => Lively(e, j)

LEMMA SoundFit ==
  ASSUME NEW e, Sound(e)
  PROVE  e \in Memory /\ Bounded(e) /\ \A j \in Jobs : Fit(e, j)
BY DEF Sound, SoundBut, Fit

LEMMA FitSound ==
  ASSUME NEW e, NEW g \in Memory, Sound(e),
         \A j \in Jobs :
           /\ Fit(e, j) => Fit(g, j)
           /\ g.state[j] \in OpenStates => e.state[j] \in OpenStates /\ g.to[j] = e.to[j]
  PROVE  Sound(g)
<1>1. Open(g) \subseteq Open(e) /\ \A j \in Open(g) : g.to[j] = e.to[j]
  BY DEF Open
<1>2. Bounded(g)
  BY <1>1, SoundFit, FewerBounded
<1>3. \A j \in Jobs : Fit(g, j)
  BY SoundFit
<1>4. QED
  BY <1>2, <1>3 DEF Sound, SoundBut, Fit

LEMMA UnlistedSound ==
  ASSUME NEW e, NEW S, Sound(e), \A j \in S \cap Jobs : e.thread[j] \in {"none", "gone"}
  PROVE  Sound(Unlisted(e, S))
<1> DEFINE g == Unlisted(e, S)
<1>1. e \in Memory
  BY SoundFit
<1>2. /\ g.alive = e.alive /\ g.sending = e.sending \ S
      /\ g.thread = e.thread /\ g.mail = e.mail /\ g.run = e.run /\ g.beat = e.beat
      /\ \A j \in Jobs :
           /\ j \in S => g.state[j] = "none" /\ g.told[j] = 0
           /\ j \notin S =>
                g.state[j] = e.state[j] /\ g.told[j] = e.told[j] /\ g.to[j] = e.to[j]
  BY <1>1 DEF Unlisted, Memory
<1>3. g \in Memory
  <2> DEFINE st == [j \in Jobs |-> IF j \in S THEN "none" ELSE e.state[j]]
             fr == [j \in Jobs |-> IF j \in S THEN Nobody ELSE e.from[j]]
             to == [j \in Jobs |-> IF j \in S THEN Nobody ELSE e.to[j]]
             ch == [j \in Jobs |-> IF j \in S THEN {} ELSE e.chain[j]]
             tl == [j \in Jobs |-> IF j \in S THEN 0 ELSE e.told[j]]
  <2>1. /\ st \in [Jobs -> {"none"} \cup OpenStates \cup Ended]
        /\ fr \in [Jobs -> Threads \cup {Nobody}] /\ to \in [Jobs -> Workers \cup {Nobody}]
    BY <1>1 DEF Memory
  <2>2. ch \in [Jobs -> SUBSET Workers] /\ tl \in [Jobs -> 0..2]
    BY <1>1 DEF Memory
  <2>3. g = [e EXCEPT !.state = st, !.from = fr, !.to = to, !.chain = ch, !.told = tl,
                      !.sending = @ \ S]
    BY <1>1 DEF Unlisted, Memory
  <2>. HIDE DEF st, fr, to, ch, tl, g
  <2>4. QED
    BY <1>1, <2>1, <2>2, <2>3 DEF Memory
<1>. HIDE DEF g
<1>4. ASSUME NEW j \in Jobs
      PROVE  /\ Fit(e, j) => Fit(g, j)
             /\ g.state[j] \in OpenStates =>
                  e.state[j] \in OpenStates /\ g.to[j] = e.to[j]
  <2>1. CASE j \in S
    BY <1>2, <2>1 DEF Fit, ThreadFit, ToldFit, OpenStates, Ended
  <2>2. CASE j \notin S
    BY <1>2, <2>2 DEF Fit, ThreadFit, ToldFit, Lively
  <2>3. QED
    BY <2>1, <2>2
<1>5. Sound(g)
  BY <1>3, <1>4, FitSound
<1>6. QED
  BY <1>5 DEF g

-----------------------------------------------------------------------------
(* Handing over and reporting.                                             *)

LEMMA HandSound ==
  ASSUME Sound(eng), NEW t \in Threads, NEW w \in Workers, NEW j \in Jobs, Hand(t, w, j)
  PROVE  Sound(eng')
<1>1. eng \in Memory /\ Bounded(eng) /\ \A k \in Jobs : Fit(eng, k)
  BY SoundFit
<1>2. /\ eng.state[j] = "none" /\ w \in eng.alive
      /\ Cardinality(Open(eng)) < MaxOpen /\ Cardinality(For(eng, w)) < MaxFor
  <2>1. IsFiniteSet(Open(eng)) /\ For(eng, w) \subseteq Open(eng)
    BY <1>1 DEF Bounded, For
  <2>2. Cardinality(Open(eng)) \in Nat /\ Cardinality(For(eng, w)) \in Nat
    BY <2>1, FS_Subset, FS_CardinalityType
  <2>3. ~(Cardinality(Open(eng)) >= MaxOpen) /\ ~(Cardinality(For(eng, w)) >= MaxFor)
    BY DEF Hand, Refused, For
  <2>4. QED
    BY <2>2, <2>3, JobsAssumption DEF Hand
<1>3. ChainFrom(eng, t) \subseteq Workers
  BY <1>1 DEF ChainFrom, Hand, Memory, Threads
<1>4. /\ eng' \in Memory /\ eng'.alive = eng.alive /\ eng'.told = eng.told
      /\ eng'.thread = eng.thread /\ eng'.mail = eng.mail /\ eng'.run = eng.run
      /\ eng'.beat = eng.beat /\ eng'.sending = eng.sending \cup {j}
      /\ eng'.state = [eng.state EXCEPT ![j] = "assigned"]
      /\ eng'.to = [eng.to EXCEPT ![j] = w]
  BY <1>1, <1>3 DEF Hand, Memory, OpenStates, Threads
<1>5. \A k \in Jobs :
        /\ eng'.state[k] = IF k = j THEN "assigned" ELSE eng.state[k]
        /\ eng'.to[k] = IF k = j THEN w ELSE eng.to[k]
  BY <1>1, <1>4 DEF Memory
<1>6. Open(eng') = Open(eng) \cup {j} /\ j \notin Open(eng)
  BY <1>2, <1>5 DEF Open, OpenStates
<1>7. Bounded(eng')
  <2>1. /\ IsFiniteSet(Open(eng')) /\ Cardinality(Open(eng')) = Cardinality(Open(eng)) + 1
        /\ Cardinality(Open(eng)) \in Nat
    BY <1>1, <1>6, FS_AddElement, FS_CardinalityType DEF Bounded
  <2>2. For(eng', w) = For(eng, w) \cup {j} /\ j \notin For(eng, w)
    BY <1>5, <1>6 DEF For, Open
  <2>3. \A v \in Workers \ {w} : For(eng', v) = For(eng, v)
    BY <1>5, <1>6 DEF For, Open
  <2>4. IsFiniteSet(For(eng, w))
    BY <1>1, FS_Subset DEF Bounded, For
  <2>5. Cardinality(For(eng', w)) = Cardinality(For(eng, w)) + 1 /\ Cardinality(For(eng, w)) \in Nat
    BY <2>2, <2>4, FS_AddElement, FS_CardinalityType
  <2>6. Cardinality(Open(eng')) <= MaxOpen /\ Cardinality(For(eng', w)) <= MaxFor
    BY <1>2, <2>1, <2>5, JobsAssumption
  <2>7. QED
    BY <1>1, <2>1, <2>3, <2>6 DEF Bounded
<1>8. ASSUME NEW k \in Jobs
      PROVE  Fit(eng', k)
  BY <1>1, <1>2, <1>4, <1>5 DEF Fit, ThreadFit, ToldFit, Lively, OpenStates, Ended
<1>9. QED
  BY <1>4, <1>7, <1>8 DEF Sound, SoundBut, Fit

LEMMA SentSound ==
  ASSUME Sound(eng), NEW j \in Jobs, Sent(j)
  PROVE  Sound(eng')
<1> DEFINE f == [eng EXCEPT !.sending = @ \ {j}, !.thread[j] = "open"]
           g == Mailed(f, {j})
<1>1. eng \in Memory /\ \A k \in Jobs : Fit(eng, k)
  BY SoundFit
<1>2. Tick(g) /\ eng.to[j] \in eng.alive /\ j \in eng.sending
  BY DEF Sent
<1>3. /\ f \in Memory /\ f.alive = eng.alive /\ f.to = eng.to /\ f.told = eng.told
      /\ f.state = eng.state /\ f.mail = eng.mail /\ f.run = eng.run
      /\ f.beat = eng.beat /\ f.sending = eng.sending \ {j}
      /\ \A k \in Jobs : f.thread[k] = IF k = j THEN "open" ELSE eng.thread[k]
  BY <1>1 DEF Memory
<1>. HIDE DEF f
<1>4. \A t \in {j} : Owner(f, t) \in f.alive
  BY <1>2, <1>3, JobsAssumption DEF Owner
<1>5. MailedOf(f, {j}, g)
  BY <1>3, <1>4, MailedEffect
<1>. HIDE DEF g
<1>6. ASSUME NEW k \in Jobs
      PROVE  /\ Fit(eng, k) => Fit(g, k)
             /\ g.state[k] \in OpenStates =>
                  eng.state[k] \in OpenStates /\ g.to[k] = eng.to[k]
  <2>1. CASE k = j
    BY <1>2, <1>3, <1>5, <2>1 DEF MailedOf, Fit, ThreadFit, ToldFit, Lively
  <2>2. CASE k # j
    BY <1>3, <1>5, <2>2 DEF MailedOf, Fit, ThreadFit, ToldFit, Lively
  <2>3. QED
    BY <2>1, <2>2
<1>7. Sound(g)
  BY <1>5, <1>6, FitSound DEF MailedOf
<1>8. QED
  BY <1>2, <1>7, TickSound

LEMMA UnsentSound ==
  ASSUME Sound(eng), NEW j \in Jobs, Unsent(j)
  PROVE  Sound(eng')
<1>1. eng.thread[j] \in {"none", "gone"}
  BY SoundFit DEF Unsent, Fit, ThreadFit
<1>2. QED
  BY <1>1, UnlistedSound DEF Unsent

\* A report under way settles nothing yet.
LEMMA ReportsSound ==
  ASSUME Sound(eng), NEW j \in Jobs,
         \/ \E how \in {"own", "away"} : Report(j, how)
         \/ Unreported(j)
  PROVE  Sound(eng')
<1>1. eng \in Memory
  BY SoundFit
<1>2. PICK r \in SUBSET {"own", "away"} : eng' = [eng EXCEPT !.reports[j] = r]
  BY <1>1 DEF Report, Unreported, Memory
<1>3. /\ eng' \in Memory /\ eng'.alive = eng.alive /\ eng'.to = eng.to
      /\ eng'.told = eng.told /\ eng'.thread = eng.thread /\ eng'.mail = eng.mail
      /\ eng'.run = eng.run /\ eng'.beat = eng.beat /\ eng'.sending = eng.sending
      /\ eng'.state = eng.state
  BY <1>1, <1>2 DEF Memory
<1>4. ASSUME NEW k \in Jobs
      PROVE  Fit(eng, k) => Fit(eng', k)
  BY <1>3 DEF Fit, ThreadFit, ToldFit, Lively
<1>5. QED
  BY <1>3, <1>4, FitSound

LEMMA ReportedSound ==
  ASSUME Sound(eng), NEW j \in Jobs, Reported(j)
  PROVE  Sound(eng')
<1>1. eng \in Memory /\ \A k \in Jobs : Fit(eng, k)
  BY SoundFit
<1>2. PICK how \in eng.reports[j], as \in {"completed", "failed"} :
        Tick(Told([eng EXCEPT !.state[j] = as, !.reports[j] = @ \ {how}], {j}))
  BY DEF Reported
<1> DEFINE f == [eng EXCEPT !.state[j] = as, !.reports[j] = @ \ {how}]
<1>3. /\ f \in Memory /\ f.alive = eng.alive /\ f.to = eng.to /\ f.told = eng.told
      /\ f.thread = eng.thread /\ f.mail = eng.mail /\ f.run = eng.run
      /\ f.beat = eng.beat /\ f.sending = eng.sending
      /\ \A k \in Jobs : f.state[k] = IF k = j THEN as ELSE eng.state[k]
  BY <1>1 DEF Memory, Ended
<1>4. Tick(Told(f, {j}))
  BY <1>2
<1>. HIDE DEF f
<1>5. Bounded(f)
  <2>1. Open(f) \subseteq Open(eng)
    BY <1>3 DEF Open, OpenStates
  <2>2. QED
    BY <1>3, <2>1, SoundFit, FewerBounded
<1>6. ASSUME NEW k \in Jobs
      PROVE  /\ ThreadFit(f, k)
             /\ k # j => ToldFit(f, k)
             /\ k # j /\ f.state[k] \in OpenStates => Lively(f, k)
  <2>1. Fit(eng, k)
    BY <1>1
  <2>2. QED
    BY <1>3, <2>1 DEF Fit, ThreadFit, ToldFit, Lively
<1>7. SoundBut(f, {j})
  BY <1>3, <1>5, <1>6 DEF SoundBut
<1>8. \A k \in {j} \cap Jobs : f.state[k] \in Ended
  BY <1>3 DEF Ended
<1>9. QED
  BY <1>4, <1>7, <1>8, ToldSound, TickSound

-----------------------------------------------------------------------------
(* A run.                                                                  *)

LEMMA SetBeatSound ==
  ASSUME Sound(eng), NEW j \in Jobs, SetBeat(j)
  PROVE  Sound(eng')
<1>1. eng \in Memory
  BY SoundFit
<1>2. PICK b \in {"set", "none"} : eng' = [eng EXCEPT !.beat[j] = b]
  BY DEF SetBeat
<1>3. /\ eng' \in Memory /\ eng'.alive = eng.alive /\ eng'.to = eng.to
      /\ eng'.told = eng.told /\ eng'.thread = eng.thread /\ eng'.mail = eng.mail
      /\ eng'.run = eng.run /\ eng'.state = eng.state /\ eng'.sending = eng.sending
      /\ \A k \in Jobs \ {j} : eng'.beat[k] = eng.beat[k]
  BY <1>1, <1>2 DEF Memory
<1>4. eng.run[j] # "idle"
  BY DEF SetBeat
<1>5. ASSUME NEW k \in Jobs
      PROVE  Fit(eng, k) => Fit(eng', k)
  BY <1>3, <1>4 DEF Fit, ThreadFit, ToldFit, Lively
<1>6. QED
  BY <1>3, <1>5, FitSound

LEMMA SoundEnd ==
  ASSUME NEW e, NEW S, NEW how \in {"failed", "cancelled"}, Sound(e)
  PROVE  Sound(End(e, S, how))
<1>1. SoundBut(e, S) /\ \A j \in Jobs : ToldFit(e, j)
  BY DEF Sound, SoundBut
<1>2. QED
  BY <1>1, EndSound

\* A run that ends settles its job, or leaves it a wake-up, unless it was cut short.
LEMMA JobAfterSound ==
  ASSUME NEW e, NEW j \in Jobs, SoundBut(e, {j}), ToldFit(e, j),
         e.beat[j] \in {"none", "set"},
         NEW outcome \in Ended \cup {"cut"}, outcome = "cut" => e.run[j] = "cut"
  PROVE  Sound(JobAfter(e, j, outcome))
<1>1. e \in Memory /\ Bounded(e) /\ \A k \in Jobs : ThreadFit(e, k) /\ ToldFit(e, k)
  BY DEF SoundBut
<1>2. \A k \in Jobs \ {j} : Fit(e, k)
  BY DEF SoundBut, Fit
<1>3. CASE j \notin Open(e) \/ outcome = "cut"
  <2>1. JobAfter(e, j, outcome) = e
    BY <1>3 DEF JobAfter
  <2>2. Fit(e, j)
    BY <1>1, <1>3 DEF Fit, Lively, Open
  <2>3. QED
    BY <1>1, <1>2, <2>1, <2>2 DEF Fit, Sound, SoundBut
<1>4. CASE j \in Open(e) /\ outcome \in {"failed", "cancelled"}
  <2>1. JobAfter(e, j, outcome) = End(e, {j}, outcome)
    BY <1>4 DEF JobAfter
  <2>2. QED
    BY <1>1, <1>4, <2>1, EndSound
<1>5. CASE j \in Open(e) /\ outcome = "completed" /\ e.beat[j] # "none"
  <2> DEFINE g == [e EXCEPT !.state[j] = "waiting"]
  <2>1. JobAfter(e, j, outcome) = g
    BY <1>5 DEF JobAfter
  <2>2. /\ g \in Memory /\ g.alive = e.alive /\ g.to = e.to /\ g.told = e.told
        /\ g.thread = e.thread /\ g.mail = e.mail /\ g.run = e.run
        /\ g.beat = e.beat /\ g.sending = e.sending
        /\ \A k \in Jobs : g.state[k] = IF k = j THEN "waiting" ELSE e.state[k]
    BY <1>1 DEF Memory, OpenStates
  <2>. HIDE DEF g
  <2>3. Open(g) = Open(e)
    BY <1>5, <2>2 DEF Open, OpenStates
  <2>4. Bounded(g)
    BY <1>1, <2>2, <2>3, FewerBounded
  <2>5. ASSUME NEW k \in Jobs
        PROVE  Fit(g, k)
    <3>1. CASE k = j
      BY <1>1, <1>5, <2>2, <3>1 DEF Fit, ThreadFit, ToldFit, Lively, Open, OpenStates, Ended
    <3>2. CASE k # j
      BY <1>2, <2>2, <3>2 DEF Fit, ThreadFit, ToldFit, Lively
    <3>3. QED
      BY <3>1, <3>2
  <2>6. QED
    BY <2>1, <2>2, <2>4, <2>5 DEF Fit, Sound, SoundBut
<1>6. CASE j \in Open(e) /\ outcome = "completed" /\ e.beat[j] = "none"
  <2> DEFINE g == [e EXCEPT !.state[j] = "completed"]
  <2>1. JobAfter(e, j, outcome) = Told(g, {j})
    BY <1>6 DEF JobAfter
  <2>2. /\ g \in Memory /\ g.alive = e.alive /\ g.to = e.to /\ g.told = e.told
        /\ g.thread = e.thread /\ g.mail = e.mail /\ g.run = e.run
        /\ g.beat = e.beat /\ g.sending = e.sending
        /\ \A k \in Jobs : g.state[k] = IF k = j THEN "completed" ELSE e.state[k]
    BY <1>1 DEF Memory, Ended
  <2>. HIDE DEF g
  <2>3. Open(g) \subseteq Open(e)
    BY <2>2 DEF Open, OpenStates
  <2>4. Bounded(g)
    BY <1>1, <2>2, <2>3, FewerBounded
  <2>5. ASSUME NEW k \in Jobs \ {j}
        PROVE  Fit(g, k)
    BY <1>2, <2>2 DEF Fit, ThreadFit, ToldFit, Lively
  <2>6. ThreadFit(g, j)
    BY <1>1, <1>6, <2>2 DEF ThreadFit, Open, OpenStates
  <2>7. SoundBut(g, {j})
    BY <2>2, <2>4, <2>5, <2>6 DEF Fit, SoundBut
  <2>8. \A k \in {j} \cap Jobs : g.state[k] \in Ended
    BY <2>2 DEF Ended
  <2>9. QED
    BY <2>1, <2>7, <2>8, ToldSound
<1>7. QED
  BY <1>3, <1>4, <1>5, <1>6 DEF Ended

LEMMA ClosingSound ==
  ASSUME NEW e, NEW j \in Jobs, Sound(e)
  PROVE  Sound(Closing(e, j))
<1>1. CASE Closing(e, j) = e
  BY <1>1
<1> DEFINE g == [e EXCEPT !.thread[j] = "closed"]
<1>2. CASE Closing(e, j) = g /\ j \notin Open(e) /\ e.thread[j] = "open"
  <2>1. e \in Memory /\ \A k \in Jobs : Fit(e, k)
    BY SoundFit
  <2>2. /\ g \in Memory /\ g.alive = e.alive /\ g.to = e.to /\ g.told = e.told
        /\ g.state = e.state /\ g.mail = e.mail /\ g.run = e.run
        /\ g.beat = e.beat /\ g.sending = e.sending
        /\ \A k \in Jobs : g.thread[k] = IF k = j THEN "closed" ELSE e.thread[k]
    BY <2>1 DEF Memory
  <2>. HIDE DEF g
  <2>3. ASSUME NEW k \in Jobs
        PROVE  Fit(e, k) => Fit(g, k)
    BY <1>2, <2>2 DEF Fit, ThreadFit, ToldFit, Lively
  <2>4. Sound(g)
    BY <2>2, <2>3, FitSound
  <2>5. QED
    BY <1>2, <2>4
<1>3. QED
  BY <1>1, <1>2 DEF Closing

LEMMA RunEndsSound ==
  ASSUME Sound(eng), NEW t \in Threads, NEW outcome \in Ended \cup {"cut"},
         RunEnds(t, outcome)
  PROVE  Sound(eng')
<1>1. eng \in Memory /\ Bounded(eng) /\ \A k \in Jobs : Fit(eng, k)
  BY SoundFit
<1>2. CASE t \in Workers \/ ~Here(eng, t) \/ Owner(eng, t) \notin eng.alive
  <2> DEFINE e == [eng EXCEPT !.run[t] = "idle"]
  <2>1. Tick(e)
    BY <1>2 DEF RunEnds
  <2>0. /\ e \in Memory /\ e.alive = eng.alive /\ e.to = eng.to /\ e.told = eng.told
        /\ e.state = eng.state /\ e.mail = eng.mail /\ e.thread = eng.thread
        /\ e.beat = eng.beat /\ e.sending = eng.sending
        /\ \A k \in Threads : e.run[k] = IF k = t THEN "idle" ELSE eng.run[k]
    BY <1>1 DEF Memory
  <2>. HIDE DEF e
  <2>2. t \in Jobs => eng.thread[t] # "open"
    BY <1>1, <1>2, JobsAssumption DEF Here, Owner, Fit, ThreadFit
  <2>3. ASSUME NEW k \in Jobs
        PROVE  Fit(eng, k) => Fit(e, k)
    BY <2>0, <2>2 DEF Fit, ThreadFit, ToldFit, Lively, Threads
  <2>4. Sound(e)
    BY <2>0, <2>3, FitSound
  <2>5. QED
    BY <2>1, <2>4, TickSound
<1>3. CASE ~(t \in Workers \/ ~Here(eng, t) \/ Owner(eng, t) \notin eng.alive)
  <2>1. PICK b \in BeatAfter(eng.beat[t]) :
          Tick(Closing(JobAfter([eng EXCEPT !.run[t] = RunAfter(outcome), !.beat[t] = b],
                                t, outcome), t))
    BY <1>3 DEF RunEnds
  <2> DEFINE f == [eng EXCEPT !.run[t] = RunAfter(outcome), !.beat[t] = b]
  <2>2. t \in Jobs
    BY <1>3 DEF Threads
  <2>3. b \in {"none", "set"} /\ RunAfter(outcome) \in {"idle", "cut"}
    BY <1>1, <2>1, <2>2 DEF BeatAfter, Memory, RunAfter
  <2>4. Tick(Closing(JobAfter(f, t, outcome), t))
    BY <2>1
  <2>5. /\ f \in Memory /\ f.alive = eng.alive /\ f.to = eng.to /\ f.told = eng.told
        /\ f.state = eng.state /\ f.mail = eng.mail /\ f.thread = eng.thread
        /\ f.sending = eng.sending
        /\ \A k \in Threads : f.run[k] = IF k = t THEN RunAfter(outcome) ELSE eng.run[k]
        /\ \A k \in Jobs : f.beat[k] = IF k = t THEN b ELSE eng.beat[k]
    BY <1>1, <2>3 DEF Memory
  <2>. HIDE DEF f
  <2>6. Bounded(f)
    <3>1. Open(f) = Open(eng)
      BY <2>5 DEF Open
    <3>2. QED
      BY <1>1, <2>5, <3>1, FewerBounded
  <2>7. ASSUME NEW k \in Jobs
        PROVE  /\ ThreadFit(f, k) /\ ToldFit(f, k)
               /\ k # t /\ f.state[k] \in OpenStates => Lively(f, k)
    <3>1. Fit(eng, k)
      BY <1>1
    <3>2. QED
      BY <2>5, <3>1 DEF Fit, ThreadFit, ToldFit, Lively, Threads
  <2>8. SoundBut(f, {t}) /\ ToldFit(f, t) /\ f.beat[t] \in {"none", "set"}
    BY <2>2, <2>3, <2>5, <2>6, <2>7 DEF SoundBut
  <2>9. Sound(Closing(JobAfter(f, t, outcome), t))
    <3>1. outcome = "cut" => f.run[t] = "cut"
      BY <2>5 DEF RunAfter
    <3>2. QED
      BY <2>2, <2>8, <3>1, JobAfterSound, ClosingSound
  <2>10. QED
    BY <2>4, <2>9, TickSound
<1>4. QED
  BY <1>2, <1>3

-----------------------------------------------------------------------------
(* The user, time, and the app.                                            *)

LEMMA CloseThreadSound ==
  ASSUME Sound(eng), NEW j \in Jobs, CloseThread(j)
  PROVE  Sound(eng')
<1> DEFINE b == IF eng.beat[j] = "used" THEN eng.beat[j] ELSE "none"
           f == [eng EXCEPT !.thread[j] = "closed", !.beat[j] = b]
<1>1. eng \in Memory
  BY SoundFit
<1>2. eng' = Aborted(f, {j}) /\ eng.thread[j] = "open"
  BY <1>1 DEF CloseThread, Memory
<1>3. b \in {"none", "used"}
  OBVIOUS
<1>. HIDE DEF b
<1>4. /\ f \in Memory /\ f.alive = eng.alive /\ f.to = eng.to /\ f.told = eng.told
      /\ f.state = eng.state /\ f.mail = eng.mail /\ f.run = eng.run
      /\ f.sending = eng.sending
      /\ \A k \in Jobs :
           /\ f.thread[k] = IF k = j THEN "closed" ELSE eng.thread[k]
           /\ f.beat[k] = IF k = j THEN b ELSE eng.beat[k]
  BY <1>1, <1>3 DEF Memory
<1>. HIDE DEF f
<1>5. ASSUME NEW k \in Jobs
      PROVE  Fit(eng, k) => Fit(f, k)
  BY <1>2, <1>4 DEF Fit, ThreadFit, ToldFit, Lively
<1>6. Sound(f)
  BY <1>4, <1>5, FitSound
<1>7. QED
  BY <1>2, <1>6, AbortedSound

LEMMA RemoveThreadSound ==
  ASSUME Sound(eng), NEW j \in Jobs, RemoveThread(j)
  PROVE  Sound(eng')
<1> DEFINE f == [eng EXCEPT !.thread[j] = "gone", !.mail = @ \ {j}, !.beat[j] = "none"]
<1>1. eng \in Memory
  BY SoundFit
<1>2. eng' = Aborted(f, {j})
  BY DEF RemoveThread
<1>3. /\ f \in Memory /\ f.alive = eng.alive /\ f.to = eng.to /\ f.told = eng.told
      /\ f.state = eng.state /\ f.mail = eng.mail \ {j} /\ f.run = eng.run
      /\ f.sending = eng.sending
      /\ \A k \in Jobs :
           /\ f.thread[k] = IF k = j THEN "gone" ELSE eng.thread[k]
           /\ f.beat[k] = IF k = j THEN "none" ELSE eng.beat[k]
  BY <1>1 DEF Memory
<1>. HIDE DEF f
<1>4. ASSUME NEW k \in Jobs
      PROVE  Fit(eng, k) => Fit(f, k)
  BY <1>3 DEF Fit, ThreadFit, ToldFit, Lively
<1>5. Sound(f)
  BY <1>3, <1>4, FitSound
<1>6. QED
  BY <1>2, <1>5, AbortedSound

LEMMA ForgottenSound ==
  ASSUME NEW e, NEW w \in Workers, Sound(e)
  PROVE  Sound(Forgotten(e, w))
<1> DEFINE own == {t \in Threads : Owner(e, t) = w}
           th == [j \in Jobs |-> IF j \in own THEN "gone" ELSE e.thread[j]]
           be == [j \in Jobs |-> IF j \in own THEN "none" ELSE e.beat[j]]
           ru == [t \in Threads |-> IF t \in own \ Running(e) THEN "idle" ELSE e.run[t]]
           g == [e EXCEPT !.alive = @ \ {w}, !.mail = @ \ own,
                          !.thread = th, !.beat = be, !.run = ru]
<1>1. e \in Memory
  BY SoundFit
<1>2. Forgotten(e, w) = g
  BY <1>1 DEF Forgotten, Memory
<1>3. /\ th \in [Jobs -> {"none", "open", "closed", "gone"}]
      /\ be \in [Jobs -> {"none", "set", "used"}]
      /\ ru \in [Threads -> {"idle", "going", "stopping", "again", "cut"}]
  BY <1>1 DEF Memory
<1>4. \A j \in Jobs :
        /\ j \in own <=> e.to[j] = w
        /\ th[j] = IF j \in own THEN "gone" ELSE e.thread[j]
        /\ j \notin own => be[j] = e.beat[j] /\ ru[j] = e.run[j]
  BY JobsAssumption DEF Owner, Threads
<1>. HIDE DEF own, th, be, ru
<1>5. /\ g \in Memory /\ g.alive = e.alive \ {w} /\ g.to = e.to /\ g.told = e.told
      /\ g.state = e.state /\ g.mail = e.mail \ own /\ g.sending = e.sending
      /\ g.thread = th /\ g.beat = be /\ g.run = ru
  BY <1>1, <1>3 DEF Memory
<1>. HIDE DEF g
<1>6. ASSUME NEW j \in Jobs
      PROVE  Fit(e, j) => Fit(g, j)
  BY <1>4, <1>5 DEF Fit, ThreadFit, ToldFit, Lively
<1>7. Sound(g)
  BY <1>5, <1>6, FitSound
<1>8. QED
  BY <1>2, <1>7

LEMMA RemoveSound ==
  ASSUME Sound(eng), NEW w \in Workers, Remove(w)
  PROVE  Sound(eng')
<1> DEFINE own == {t \in Threads : Owner(eng, t) = w}
           jobs == {j \in Open(eng) : w \in {eng.to[j], Owner(eng, eng.from[j])}}
           e == End(Aborted(eng, own), jobs, "cancelled")
<1>1. PICK p \in (IF jobs = {} THEN {<<{}, {}>>} ELSE Starts(e)) :
        eng' = Forgotten(Begun(e, p[1], p[2]), w)
  BY DEF Remove
<1>2. Sound(e)
  BY AbortedSound, SoundEnd
<1>. HIDE DEF e
<1>3. p[1] \in SUBSET Threads /\ p[2] \in SUBSET p[1]
  <2>1. CASE p \in Starts(e)
    BY <2>1, StartsSets
  <2>2. CASE p = <<{}, {}>>
    BY <2>2
  <2>3. QED
    BY <1>1, <2>1, <2>2
<1>4. QED
  BY <1>1, <1>2, <1>3, BegunSound, ForgottenSound

\* A quit leaves no open job without a run, a wake-up or mail that had one.
LEMMA RestartSound ==
  ASSUME Sound(eng), Restart
  PROVE  Sound(eng')
<1>1. PICK again \in SUBSET {j \in Jobs : eng.run[j] \in {"going", "stopping", "again"}},
           saved \in SUBSET eng.sending :
        LET e == [eng EXCEPT !.run = RunAfterQuit(eng, again),
                             !.beat = [j \in Jobs |-> IF @[j] # "used" THEN @[j]
                                         ELSE IF eng.thread[j] = "open" THEN "set" ELSE "none"],
                             !.reports = [j \in Jobs |-> {}], !.sending = {}]
        IN Tick(Unlisted(e, eng.sending \ saved))
  BY DEF Restart
<1> DEFINE ru == RunAfterQuit(eng, again)
           be == [j \in Jobs |-> IF eng.beat[j] # "used" THEN eng.beat[j]
                                 ELSE IF eng.thread[j] = "open" THEN "set" ELSE "none"]
           none == [j \in Jobs |-> {}]
           e == [eng EXCEPT !.run = ru, !.beat = be, !.reports = none, !.sending = {}]
<1>2. eng \in Memory /\ \A j \in Jobs : Fit(eng, j)
  BY SoundFit
<1>3. Tick(Unlisted(e, eng.sending \ saved))
  BY <1>1, <1>2 DEF Memory
<1>4. /\ ru \in [Threads -> {"idle", "going", "stopping", "again", "cut"}]
      /\ be \in [Jobs -> {"none", "set", "used"}]
      /\ none \in [Jobs -> SUBSET {"own", "away"}]
  BY <1>2 DEF Memory, RunAfterQuit
<1>5. ASSUME NEW j \in Jobs
      PROVE  /\ eng.beat[j] = "set" => be[j] = "set"
             /\ eng.thread[j] = "open" /\ eng.run[j] # "idle" => ru[j] # "idle"
  <2>1. Fit(eng, j) /\ j \notin Workers
    BY <1>2, JobsAssumption
  <2>2. eng.thread[j] = "open" => Here(eng, j) /\ Owner(eng, j) \in eng.alive
    BY <2>1 DEF Here, Owner, Fit, ThreadFit
  <2>3. QED
    BY <2>1, <2>2 DEF RunAfterQuit, Threads
<1>. HIDE DEF ru, be, none
<1>6. /\ e \in Memory /\ e.alive = eng.alive /\ e.to = eng.to /\ e.told = eng.told
      /\ e.state = eng.state /\ e.mail = eng.mail /\ e.thread = eng.thread
      /\ e.sending = {} /\ e.beat = be /\ e.run = ru
  BY <1>2, <1>4 DEF Memory
<1>. HIDE DEF e
<1>7. ASSUME NEW j \in Jobs
      PROVE  Fit(eng, j) => Fit(e, j)
  BY <1>5, <1>6 DEF Fit, ThreadFit, ToldFit, Lively
<1>8. Sound(e)
  BY <1>6, <1>7, FitSound
<1>9. \A j \in eng.sending : e.thread[j] \in {"none", "gone"}
  BY <1>2, <1>6 DEF Memory, Fit, ThreadFit
<1>10. QED
  BY <1>3, <1>8, <1>9, UnlistedSound, TickSound

-----------------------------------------------------------------------------
(* The invariant, and what it says of the specification.                   *)

JobsInv == Sound(eng) /\ spent \in 0..Budget

LEMMA InitSound == Init => JobsInv
<1> SUFFICES ASSUME Init PROVE JobsInv
  OBVIOUS
<1>1. eng \in Memory
  BY DEF Init, Memory, Threads
<1>2. Open(eng) = {}
  BY DEF Init, Open, OpenStates
<1>3. Bounded(eng)
  <2>1. IsFiniteSet({}) /\ Cardinality({}) = 0
    BY FS_EmptySet
  <2>2. \A w \in Workers : For(eng, w) = {}
    BY <1>2 DEF For
  <2>3. QED
    BY <1>2, <2>1, <2>2, JobsAssumption DEF Bounded
<1>4. ASSUME NEW j \in Jobs
      PROVE  ThreadFit(eng, j) /\ ToldFit(eng, j) /\ eng.state[j] \notin OpenStates
  BY DEF Init, ThreadFit, ToldFit, Ended, OpenStates
<1>5. spent \in 0..Budget
  BY JobsAssumption DEF Init
<1>6. QED
  BY <1>1, <1>3, <1>4, <1>5 DEF JobsInv, Sound, SoundBut

LEMMA WorkSound ==
  ASSUME Sound(eng), Work
  PROVE  Sound(eng')
<1>1. ASSUME NEW t \in Threads, NEW w \in Workers, NEW j \in Jobs, Hand(t, w, j)
      PROVE  Sound(eng')
  BY <1>1, HandSound
<1>2. ASSUME NEW j \in Jobs,
             \/ Sent(j) \/ Unsent(j) \/ Report(j, "own") \/ Reported(j) \/ Unreported(j)
             \/ SetBeat(j)
      PROVE  Sound(eng')
  BY <1>2, SentSound, UnsentSound, ReportsSound, ReportedSound, SetBeatSound
<1>3. ASSUME NEW t \in Threads, Finish(t)
      PROVE  Sound(eng')
  BY <1>3, RunEndsSound DEF Finish, Ended
<1>4. CASE Timer
  BY <1>4, TickSound DEF Timer
<1>5. QED
  BY <1>1, <1>2, <1>3, <1>4 DEF Work

LEMMA DisturbanceSound ==
  ASSUME Sound(eng), Disturbance
  PROVE  Sound(eng')
<1>1. ASSUME NEW t \in Threads, Write(t)
      PROVE  Sound(eng')
  BY <1>1, MailedSound, TickSound DEF Write
<1>2. ASSUME NEW j \in Jobs, StopTurn(j)
      PROVE  Sound(eng')
  BY <1>2, AbortedSound DEF StopTurn
<1>3. ASSUME NEW j \in Jobs, CloseThread(j) \/ RemoveThread(j)
      PROVE  Sound(eng')
  BY <1>3, CloseThreadSound, RemoveThreadSound
<1>4. ASSUME NEW j \in Jobs, Expire(j)
      PROVE  Sound(eng')
  BY <1>4, SoundEnd, TickSound DEF Expire
<1>5. ASSUME NEW j \in Jobs, Report(j, "away")
      PROVE  Sound(eng')
  BY <1>5, ReportsSound
<1>6. ASSUME NEW w \in Workers, Remove(w)
      PROVE  Sound(eng')
  BY <1>6, RemoveSound
<1>7. ASSUME NEW j \in Jobs, CutShort(j)
      PROVE  Sound(eng')
  BY <1>7, RunEndsSound DEF CutShort, Threads
<1>8. QED
  BY <1>1, <1>2, <1>3, <1>4, <1>5, <1>6, <1>7, RestartSound DEF Disturbance

LEMMA NextSound == JobsInv /\ [Next]_vars => JobsInv'
<1> SUFFICES ASSUME JobsInv, [Next]_vars PROVE JobsInv'
  OBVIOUS
<1>1. CASE Work /\ UNCHANGED spent
  BY <1>1, WorkSound DEF JobsInv
<1>2. CASE spent < Budget /\ Disturbance /\ spent' = spent + 1
  <2>1. Sound(eng')
    BY <1>2, DisturbanceSound DEF JobsInv
  <2>2. spent' \in 0..Budget
    BY <1>2, JobsAssumption DEF JobsInv
  <2>3. QED
    BY <2>1, <2>2 DEF JobsInv
<1>3. CASE UNCHANGED vars
  BY <1>3 DEF vars, JobsInv
<1>4. QED
  BY <1>1, <1>2, <1>3 DEF Next

LEMMA JobsInvariant == Spec => []JobsInv
BY InitSound, NextSound, PTL DEF Spec

\* Every handler leaves a job's fields with the values the code gives them.
THEOREM TypeCorrect == Spec => []TypeOK
<1>1. JobsInv => TypeOK
  BY DEF JobsInv, Sound, SoundBut, TypeOK
<1>2. QED
  BY <1>1, JobsInvariant, PTL

\* A job's parent was sent a result when the job has ended, however it ended, and
\* none while it is open.
THEOREM ToldWhenEndedCorrect == Spec => []ToldWhenEnded
<1>1. JobsInv => ToldWhenEnded
  BY DEF JobsInv, Sound, SoundBut, ToldFit, ToldWhenEnded, Open, OpenStates, Ended
<1>2. QED
  BY <1>1, JobsInvariant, PTL

\* An open job is never left with nothing that brings its worker back to it, but in
\* a thread the user closed or deleted, or one a quit kept from being opened, and
\* after a run that a quit cut off, or the emergency stop cut short (engine.ts
\* finish, endDelegation, autoReport, load).
THEOREM OpenJobIsWorkedOnCorrect == Spec => []OpenJobIsWorkedOn
<1>1. JobsInv => OpenJobIsWorkedOn
  BY DEF JobsInv, Sound, SoundBut, Lively, OpenJobIsWorkedOn, Open, Memory, Threads
<1>2. QED
  BY <1>1, JobsInvariant, PTL

\* The limits on the open jobs hold, however many hand over at once.
THEOREM OpenJobsBoundedCorrect == Spec => []OpenJobsBounded
<1>1. JobsInv => OpenJobsBounded
  BY DEF JobsInv, Sound, SoundBut, Bounded, For, OpenJobsBounded
<1>2. QED
  BY <1>1, JobsInvariant, PTL

-----------------------------------------------------------------------------
(* Who waits for whom.                                                     *)

\* A job that is not there, or not sent yet, has not run and is not reported on.
Unused(e, j) ==
  e.thread[j] \in {"none", "gone"} /\ e.run[j] = "idle" /\ e.reports[j] = {}

\* A job's chain holds the worker that asked and everyone that waits above it, and
\* not the worker that does it.
WiredJob(e, j) ==
  /\ j \in e.sending => e.state[j] # "none"
  /\ j \in e.sending \/ e.state[j] = "none" => Unused(e, j)
  /\ e.state[j] # "none" =>
       /\ e.from[j] \in Threads /\ Owner(e, e.from[j]) \in e.chain[j]
       /\ e.to[j] \in Workers \ e.chain[j]
       /\ IsFiniteSet(e.chain[j]) /\ Cardinality(e.chain[j]) <= Depth
  /\ e.from[j] \in Jobs =>
       /\ e.state[j] # "none"
       /\ e.from[j] \notin e.sending /\ e.state[e.from[j]] # "none"
       /\ e.chain[e.from[j]] \subseteq e.chain[j]

Wired(e) == e \in Memory /\ \A j \in Jobs : WiredJob(e, j)

\* The same jobs, with none that begins.
SameJobs(e, g) ==
  /\ g \in Memory /\ g.from = e.from /\ g.to = e.to /\ g.chain = e.chain
  /\ g.sending \subseteq e.sending
  /\ \A j \in Jobs :
       /\ g.state[j] = "none" <=> e.state[j] = "none"
       /\ g.thread[j] \in {"open", "closed"} => e.thread[j] \in {"open", "closed"}
       /\ e.run[j] = "idle" => g.run[j] = "idle"
       /\ e.reports[j] = {} => g.reports[j] = {}

LEMMA SameWired ==
  ASSUME NEW e, NEW g, Wired(e), SameJobs(e, g)
  PROVE  Wired(g)
<1>1. ASSUME NEW j \in Jobs PROVE WiredJob(g, j)
  <2>1. WiredJob(e, j) BY DEF Wired
  <2>2. e.state[j] = "none" \/ j \in e.sending => Unused(g, j)
    <3>1. g.thread[j] \in {"none", "open", "closed", "gone"} BY DEF SameJobs, Memory
    <3>2. QED BY <2>1, <3>1 DEF SameJobs, WiredJob, Unused
  <2>3. \A t : Owner(g, t) = Owner(e, t) BY DEF SameJobs, Owner
  <2>4. e.from[j] \in Jobs => (g.state[e.from[j]] = "none" <=> e.state[e.from[j]] = "none")
    BY DEF SameJobs
  <2>5. QED BY <2>1, <2>2, <2>3, <2>4 DEF SameJobs, WiredJob
<1>2. QED BY <1>1 DEF Wired, SameJobs

LEMMA SameTwice ==
  ASSUME NEW e, NEW f, NEW g, SameJobs(e, f), SameJobs(f, g)
  PROVE  SameJobs(e, g)
BY DEF SameJobs

LEMMA AbortedSame == ASSUME NEW e \in Memory, NEW S PROVE SameJobs(e, Aborted(e, S))
BY DEF SameJobs, Aborted, Memory, Threads

LEMMA MailedSame ==
  ASSUME NEW e \in Memory, NEW S, \A t \in S : Owner(e, t) \in e.alive
  PROVE  SameJobs(e, Mailed(e, S))
<1>1. MailedOf(e, S, Mailed(e, S)) BY MailedEffect
<1>2. /\ Mailed(e, S).from = e.from /\ Mailed(e, S).chain = e.chain
      /\ Mailed(e, S).reports = e.reports
  BY DEF Mailed, Memory
<1>3. QED BY <1>1, <1>2 DEF MailedOf, SameJobs, Threads

LEMMA ToldSame == ASSUME NEW e \in Memory, NEW S PROVE SameJobs(e, Told(e, S))
<1>1. ToldOf(e, S, Told(e, S)) BY ToldEffect
<1>2. /\ Told(e, S).from = e.from /\ Told(e, S).chain = e.chain
      /\ Told(e, S).reports = e.reports
  BY DEF Told, Mailed, Memory
<1>3. QED BY <1>1, <1>2 DEF ToldOf, SameJobs, Threads

LEMMA EndSame ==
  ASSUME NEW e \in Memory, NEW S, NEW how \in Ended
  PROVE  SameJobs(e, End(e, S, how))
<1> DEFINE ends == S \cap Open(e)
           open == {j \in ends : e.thread[j] = "open"}
           st == [j \in Jobs |-> IF j \in ends THEN how ELSE e.state[j]]
           th == [j \in Jobs |-> IF j \in open THEN "closed" ELSE e.thread[j]]
           be == [j \in Jobs |-> IF j \in open /\ e.beat[j] = "set" THEN "none" ELSE e.beat[j]]
           f == [e EXCEPT !.state = st, !.thread = th, !.beat = be]
           g == Aborted(f, ends)
<1>1. End(e, S, how) = Told(g, ends) BY DEF End, Memory
<1>2. /\ st \in [Jobs -> {"none"} \cup OpenStates \cup Ended]
      /\ th \in [Jobs -> {"none", "open", "closed", "gone"}]
      /\ be \in [Jobs -> {"none", "set", "used"}]
  BY DEF Memory, Ended
<1>3. \A j \in Jobs : /\ st[j] = "none" <=> e.state[j] = "none"
                      /\ th[j] = e.thread[j] \/ e.thread[j] = "open"
  BY DEF Open, OpenStates, Ended
<1> HIDE DEF st, th, be, ends
<1>4. SameJobs(e, f) BY <1>2, <1>3 DEF SameJobs, Memory
<1> HIDE DEF f
<1>5. SameJobs(f, g) BY <1>4, AbortedSame DEF SameJobs
<1> HIDE DEF g
<1>6. SameJobs(g, Told(g, ends)) BY <1>5, ToldSame DEF SameJobs
<1>7. QED BY <1>1, <1>4, <1>5, <1>6, SameTwice

LEMMA ForgottenSame ==
  ASSUME NEW e \in Memory, NEW w
  PROVE  SameJobs(e, Forgotten(e, w))
<1> DEFINE own == {t \in Threads : Owner(e, t) = w}
           th == [j \in Jobs |-> IF j \in own THEN "gone" ELSE e.thread[j]]
           be == [j \in Jobs |-> IF j \in own THEN "none" ELSE e.beat[j]]
           ru == [t \in Threads |-> IF t \in own \ Running(e) THEN "idle" ELSE e.run[t]]
           g == [e EXCEPT !.alive = @ \ {w}, !.mail = @ \ own,
                          !.thread = th, !.beat = be, !.run = ru]
<1>1. Forgotten(e, w) = g BY DEF Forgotten, Memory
<1>2. /\ th \in [Jobs -> {"none", "open", "closed", "gone"}]
      /\ be \in [Jobs -> {"none", "set", "used"}]
      /\ ru \in [Threads -> {"idle", "going", "stopping", "again", "cut"}]
  BY DEF Memory
<1>3. \A j \in Jobs : /\ th[j] = e.thread[j] \/ th[j] = "gone"
                      /\ ru[j] = e.run[j] \/ ru[j] = "idle"
  BY DEF Threads
<1> HIDE DEF th, be, ru, own
<1>4. SameJobs(e, g) BY <1>2, <1>3 DEF SameJobs, Memory
<1>5. QED BY <1>1, <1>4

\* Only threads that are there are begun, and so no job that is not there, or not
\* sent yet.
LEMMA BegunWired ==
  ASSUME NEW e, Wired(e), NEW S \in SUBSET Due(e), NEW F \in SUBSET S
  PROVE  Wired(Begun(e, S, F))
<1> DEFINE g == Begun(e, S, F)
<1>1. e \in Memory /\ S \in SUBSET Threads BY DEF Wired, Due
<1>2. BegunOf(e, S, F, g) BY <1>1, BegunEffect
<1>3. g.from = e.from /\ g.chain = e.chain /\ g.reports = e.reports BY <1>1 DEF Begun, Memory
<1> HIDE DEF g
<1>4. ASSUME NEW j \in Jobs PROVE WiredJob(g, j)
  <2>1. WiredJob(e, j) BY DEF Wired
  <2>2. j \in S => e.thread[j] \in {"open", "closed"} BY JobsAssumption DEF Due
  <2>3. j \in e.sending \/ e.state[j] = "none" => j \notin S
    BY <2>1, <2>2 DEF WiredJob, Unused
  <2>4. \A k \in Jobs : g.state[k] = "none" <=> e.state[k] = "none"
    BY <1>2 DEF BegunOf, OpenStates
  <2>5. \A t : Owner(g, t) = Owner(e, t) BY <1>2 DEF BegunOf, Owner
  <2>6. j \in g.sending \/ g.state[j] = "none" => Unused(g, j)
    BY <1>2, <1>3, <2>1, <2>3, <2>4 DEF BegunOf, WiredJob, Unused, Threads
  <2>7. QED BY <1>2, <1>3, <2>1, <2>4, <2>5, <2>6 DEF BegunOf, WiredJob
<1>5. QED BY <1>2, <1>4 DEF Wired, BegunOf, g

LEMMA StartsDue ==
  ASSUME NEW e, NEW p \in Starts(e)
  PROVE  p[1] \in SUBSET Due(e) /\ p[2] \in SUBSET p[1]
<1>1. PICK S \in SUBSET Due(e) :
        p \in {<<S, F>> : F \in {H \in SUBSET {j \in S \cap Jobs : e.beat[j] = "set"} :
                               \A t \in S : t \in e.mail \cup H \/ e.run[t] = "again"}}
  BY DEF Starts
<1>2. PICK F \in SUBSET {j \in S \cap Jobs : e.beat[j] = "set"} : p = <<S, F>>
  BY <1>1
<1>3. QED BY <1>1, <1>2

LEMMA TickWired ==
  ASSUME NEW f, Wired(f), Tick(f)
  PROVE  Wired(eng')
<1>1. PICK p \in Starts(f) : eng' = Begun(f, p[1], p[2]) BY DEF Tick
<1>2. QED BY <1>1, StartsDue, BegunWired

LEMMA HandWired ==
  ASSUME Wired(eng), NEW t \in Threads, NEW w \in Workers, NEW j \in Jobs, Hand(t, w, j)
  PROVE  Wired(eng')
<1> DEFINE c == ChainFrom(eng, t)
<1>1. /\ eng \in Memory /\ eng.run[t] = "going" /\ eng.state[j] = "none"
      /\ Owner(eng, t) \in Workers /\ w \notin c /\ ~(Cardinality(c) > Depth)
  BY DEF Hand, Refused, Wired, Memory
<1>2. t \in Jobs => t \notin eng.sending /\ eng.state[t] # "none" /\ WiredJob(eng, t)
  BY <1>1 DEF Wired, WiredJob, Unused
<1>3. /\ c \in SUBSET Workers /\ IsFiniteSet(c) /\ Owner(eng, t) \in c
      /\ t \in Jobs => eng.chain[t] \subseteq c
  <2>1. CASE t \in Jobs
    <3>1. eng.chain[t] \in SUBSET Workers /\ IsFiniteSet(eng.chain[t])
      BY <1>1, <1>2, <2>1 DEF Memory, WiredJob
    <3>2. IsFiniteSet(eng.chain[t] \cup {Owner(eng, t)}) BY <3>1, FS_AddElement
    <3>3. QED BY <1>1, <2>1, <3>1, <3>2 DEF ChainFrom
  <2>2. CASE t \notin Jobs
    <3>1. c = {Owner(eng, t)} BY <2>2 DEF ChainFrom
    <3>2. QED BY <1>1, <2>2, <3>1, FS_Singleton
  <2>3. QED BY <2>1, <2>2
<1>4. Cardinality(c) <= Depth BY <1>1, <1>3, FS_CardinalityType, JobsAssumption
<1>5. eng' = [eng EXCEPT !.state[j] = "assigned", !.from[j] = t, !.to[j] = w,
                         !.chain[j] = c, !.sending = @ \cup {j}]
  BY DEF Hand
<1> HIDE DEF c
<1>6. /\ eng' \in Memory /\ eng'.thread = eng.thread /\ eng'.run = eng.run
      /\ eng'.reports = eng.reports
      /\ eng'.sending = eng.sending \cup {j}
      /\ \A k \in Jobs :
           /\ eng'.state[k] = IF k = j THEN "assigned" ELSE eng.state[k]
           /\ eng'.from[k] = IF k = j THEN t ELSE eng.from[k]
           /\ eng'.to[k] = IF k = j THEN w ELSE eng.to[k]
           /\ eng'.chain[k] = IF k = j THEN c ELSE eng.chain[k]
  <2>1. "assigned" \in {"none"} \cup OpenStates \cup Ended BY DEF OpenStates
  <2>2. QED BY <1>1, <1>3, <1>5, <2>1 DEF Memory
<1>7. \A k \in Threads : eng.state[k] # "none" \/ k \in Workers => Owner(eng', k) = Owner(eng, k)
  BY <1>1, <1>6, JobsAssumption DEF Owner, Threads
<1>8. \A k \in Jobs : WiredJob(eng, k) BY DEF Wired
<1>9. t # j BY <1>1, <1>2
<1>10. WiredJob(eng', j)
  <2>1. Unused(eng', j) BY <1>1, <1>6, <1>8 DEF WiredJob, Unused, Threads
  <2>2. Owner(eng', t) = Owner(eng, t) BY <1>2, <1>7 DEF Threads
  <2>3. eng'.from[j] = t /\ eng'.to[j] = w /\ eng'.chain[j] = c /\ eng'.state[j] = "assigned"
    BY <1>6
  <2>4. t \in Jobs => t \notin eng'.sending /\ eng'.state[t] # "none" /\ eng'.chain[t] \subseteq c
    BY <1>2, <1>3, <1>6, <1>9
  <2>5. QED BY <1>1, <1>3, <1>4, <2>1, <2>2, <2>3, <2>4 DEF WiredJob
<1>11. ASSUME NEW k \in Jobs \ {j} PROVE WiredJob(eng', k)
  <2>1. WiredJob(eng, k) BY <1>8
  <2>2. /\ eng'.state[k] = eng.state[k] /\ eng'.from[k] = eng.from[k] /\ eng'.to[k] = eng.to[k]
        /\ eng'.chain[k] = eng.chain[k] /\ (k \in eng'.sending <=> k \in eng.sending)
        /\ (Unused(eng', k) <=> Unused(eng, k))
    BY <1>6 DEF Unused
  <2>3. eng.from[k] \in Jobs =>
          /\ eng.from[k] # j /\ eng'.state[eng.from[k]] = eng.state[eng.from[k]]
          /\ eng'.chain[eng.from[k]] = eng.chain[eng.from[k]]
          /\ eng.from[k] \notin eng'.sending
    BY <1>1, <1>6, <2>1 DEF WiredJob
  <2>4. eng.state[k] # "none" => Owner(eng', eng.from[k]) = Owner(eng, eng.from[k])
    BY <1>7, <2>1 DEF WiredJob, Threads
  <2>5. QED BY <2>1, <2>2, <2>3, <2>4 DEF WiredJob
<1>12. QED BY <1>6, <1>10, <1>11 DEF Wired

\* Taking back jobs that nothing was handed over from.
LEMMA UnlistedWired ==
  ASSUME NEW e, Wired(e), NEW S,
         \A j \in S \cap Jobs : Unused(e, j),
         \A j \in Jobs : e.from[j] \notin S \cap Jobs
  PROVE  Wired(Unlisted(e, S))
<1> DEFINE g == Unlisted(e, S)
<1>1. e \in Memory /\ \A j \in Jobs : WiredJob(e, j) BY DEF Wired
<1>2. /\ g.thread = e.thread /\ g.run = e.run /\ g.sending = e.sending \ S
      /\ g.reports = e.reports
      /\ \A j \in Jobs :
           /\ g.state[j] = IF j \in S THEN "none" ELSE e.state[j]
           /\ g.from[j] = IF j \in S THEN Nobody ELSE e.from[j]
           /\ g.to[j] = IF j \in S THEN Nobody ELSE e.to[j]
           /\ g.chain[j] = IF j \in S THEN {} ELSE e.chain[j]
  BY <1>1 DEF Unlisted, Memory
<1>3. g \in Memory
  <2> DEFINE st == [j \in Jobs |-> IF j \in S THEN "none" ELSE e.state[j]]
             fr == [j \in Jobs |-> IF j \in S THEN Nobody ELSE e.from[j]]
             to == [j \in Jobs |-> IF j \in S THEN Nobody ELSE e.to[j]]
             ch == [j \in Jobs |-> IF j \in S THEN {} ELSE e.chain[j]]
             td == [j \in Jobs |-> IF j \in S THEN 0 ELSE e.told[j]]
  <2>1. g = [e EXCEPT !.state = st, !.from = fr, !.to = to, !.chain = ch, !.told = td,
                      !.sending = @ \ S]
    BY <1>1 DEF Unlisted, Memory
  <2>2. /\ st \in [Jobs -> {"none"} \cup OpenStates \cup Ended]
        /\ fr \in [Jobs -> Threads \cup {Nobody}]
        /\ to \in [Jobs -> Workers \cup {Nobody}]
        /\ ch \in [Jobs -> SUBSET Workers]
        /\ td \in [Jobs -> 0..2]
    BY <1>1 DEF Memory
  <2> HIDE DEF st, fr, to, ch, td, g
  <2>3. QED BY <1>1, <2>1, <2>2 DEF Memory
<1> HIDE DEF g
<1>4. ASSUME NEW j \in Jobs \ S PROVE WiredJob(g, j)
  <2>1. WiredJob(e, j) /\ e.from[j] \notin S \cap Jobs BY <1>1
  <2>2. /\ g.state[j] = e.state[j] /\ g.from[j] = e.from[j] /\ g.to[j] = e.to[j]
        /\ g.chain[j] = e.chain[j] /\ (j \in g.sending <=> j \in e.sending)
        /\ (Unused(g, j) <=> Unused(e, j))
    BY <1>2 DEF Unused
  <2>3. e.from[j] \in Jobs =>
          /\ g.state[e.from[j]] = e.state[e.from[j]] /\ g.chain[e.from[j]] = e.chain[e.from[j]]
          /\ (e.from[j] \in g.sending => e.from[j] \in e.sending)
          /\ g.to[e.from[j]] = e.to[e.from[j]]
    BY <1>2, <2>1
  <2>4. e.state[j] # "none" => Owner(g, e.from[j]) = Owner(e, e.from[j])
    BY <2>1, <2>3 DEF WiredJob, Owner, Threads
  <2>5. QED BY <2>1, <2>2, <2>3, <2>4 DEF WiredJob
<1>5. ASSUME NEW j \in Jobs \cap S PROVE WiredJob(g, j)
  <2>1. Unused(g, j) BY <1>2 DEF Unused
  <2>2. g.state[j] = "none" /\ g.from[j] = Nobody /\ j \notin g.sending BY <1>2
  <2>3. QED BY <2>1, <2>2, JobsAssumption DEF WiredJob
<1>6. QED BY <1>3, <1>4, <1>5 DEF Wired, g

LEMMA UnsentWired ==
  ASSUME Wired(eng), NEW j \in Jobs, Unsent(j)
  PROVE  Wired(eng')
<1>1. WiredJob(eng, j) /\ j \in eng.sending /\ eng' = Unlisted(eng, {j}) BY DEF Unsent, Wired
<1>2. \A k \in Jobs : eng.from[k] # j BY <1>1 DEF Wired, WiredJob
<1>3. QED BY <1>1, <1>2, UnlistedWired DEF WiredJob

LEMMA SentWired ==
  ASSUME Wired(eng), NEW j \in Jobs, Sent(j)
  PROVE  Wired(eng')
<1> DEFINE f == [eng EXCEPT !.sending = @ \ {j}, !.thread[j] = "open"]
<1>1. eng \in Memory /\ \A k \in Jobs : WiredJob(eng, k) BY DEF Wired
<1>2. j \in eng.sending /\ eng.to[j] \in eng.alive /\ Tick(Mailed(f, {j})) BY DEF Sent
<1>3. /\ f \in Memory /\ f.from = eng.from /\ f.to = eng.to /\ f.chain = eng.chain
      /\ f.state = eng.state /\ f.run = eng.run /\ f.sending = eng.sending \ {j}
      /\ f.alive = eng.alive /\ f.reports = eng.reports
      /\ \A k \in Jobs \ {j} : f.thread[k] = eng.thread[k]
  BY <1>1 DEF Memory
<1> HIDE DEF f
<1>4. ASSUME NEW k \in Jobs PROVE WiredJob(f, k)
  <2>1. WiredJob(eng, k) /\ (k = j => eng.state[k] # "none") BY <1>1, <1>2 DEF WiredJob
  <2>2. \A t : Owner(f, t) = Owner(eng, t) BY <1>3 DEF Owner
  <2>3. k # j => (Unused(f, k) <=> Unused(eng, k)) BY <1>3 DEF Unused
  <2>4. QED BY <1>3, <2>1, <2>2, <2>3 DEF WiredJob
<1>5. Wired(f) BY <1>3, <1>4 DEF Wired
<1>6. \A t \in {j} : Owner(f, t) \in f.alive BY <1>2, <1>3, JobsAssumption DEF Owner
<1>7. Wired(Mailed(f, {j})) BY <1>3, <1>5, <1>6, MailedSame, SameWired
<1>8. QED BY <1>2, <1>7, TickWired

LEMMA ReportWired ==
  ASSUME Wired(eng), NEW j \in Jobs, NEW how \in {"own", "away"}, Report(j, how)
  PROVE  Wired(eng')
<1>1. eng \in Memory /\ \A k \in Jobs : WiredJob(eng, k) BY DEF Wired
<1>2. j \notin eng.sending /\ eng.state[j] # "none"
  BY DEF Report, Open, OpenStates
<1>3. /\ eng' \in Memory /\ eng'.from = eng.from /\ eng'.to = eng.to /\ eng'.chain = eng.chain
      /\ eng'.state = eng.state /\ eng'.run = eng.run /\ eng'.sending = eng.sending
      /\ eng'.thread = eng.thread
      /\ \A k \in Jobs \ {j} : eng'.reports[k] = eng.reports[k]
  BY <1>1 DEF Report, Memory
<1>4. ASSUME NEW k \in Jobs PROVE WiredJob(eng', k)
  <2>1. WiredJob(eng, k) BY <1>1
  <2>2. \A t : Owner(eng', t) = Owner(eng, t) BY <1>3 DEF Owner
  <2>3. k # j => (Unused(eng', k) <=> Unused(eng, k)) BY <1>3 DEF Unused
  <2>4. QED BY <1>2, <1>3, <2>1, <2>2, <2>3 DEF WiredJob
<1>5. QED BY <1>3, <1>4 DEF Wired

LEMMA OwnWired ==
  ASSUME Wired(eng), NEW j \in Jobs, Unreported(j) \/ SetBeat(j)
  PROVE  Wired(eng')
<1>1. eng \in Memory BY DEF Wired
<1>2. SameJobs(eng, eng')
  <2>1. CASE Unreported(j)
    <3>1. PICK how \in eng.reports[j] : eng' = [eng EXCEPT !.reports[j] = @ \ {how}]
      BY <2>1 DEF Unreported
    <3>2. QED BY <1>1, <3>1 DEF SameJobs, Memory
  <2>2. CASE SetBeat(j)
    <3>1. PICK b \in {"set", "none"} : eng' = [eng EXCEPT !.beat[j] = b]
      BY <2>2 DEF SetBeat
    <3>2. QED BY <1>1, <3>1 DEF SameJobs, Memory
  <2>3. QED BY <2>1, <2>2
<1>3. QED BY <1>2, SameWired

LEMMA ReportedWired ==
  ASSUME Wired(eng), NEW j \in Jobs, Reported(j)
  PROVE  Wired(eng')
<1>1. eng \in Memory /\ WiredJob(eng, j) BY DEF Wired
<1>2. PICK how \in eng.reports[j], as \in {"completed", "failed"} :
        Tick(Told([eng EXCEPT !.state[j] = as, !.reports[j] = @ \ {how}], {j}))
  BY DEF Reported
<1> DEFINE f == [eng EXCEPT !.state[j] = as, !.reports[j] = @ \ {how}]
<1>3. as \in Ended /\ as # "none" /\ eng.state[j] # "none"
  BY <1>1, <1>2 DEF Ended, WiredJob, Unused
<1>4. /\ f \in Memory /\ f.from = eng.from /\ f.to = eng.to /\ f.chain = eng.chain
      /\ f.sending = eng.sending /\ f.thread = eng.thread /\ f.run = eng.run
      /\ \A k \in Jobs : /\ f.state[k] = IF k = j THEN as ELSE eng.state[k]
                         /\ f.reports[k] \subseteq eng.reports[k]
  BY <1>1, <1>3 DEF Memory
<1>5. Tick(Told(f, {j})) BY <1>2
<1> HIDE DEF f
<1>6. SameJobs(eng, f) BY <1>3, <1>4 DEF SameJobs
<1>7. SameJobs(f, Told(f, {j})) BY <1>4, ToldSame
<1>8. QED BY <1>5, <1>6, <1>7, SameTwice, SameWired, TickWired

LEMMA RunEndsWired ==
  ASSUME Wired(eng), NEW t \in Threads, NEW outcome \in Ended \cup {"cut"},
         t \in Running(eng), RunEnds(t, outcome)
  PROVE  Wired(eng')
<1>1. eng \in Memory BY DEF Wired
<1>2. CASE t \in Workers \/ ~Here(eng, t) \/ Owner(eng, t) \notin eng.alive
  <2> DEFINE e == [eng EXCEPT !.run[t] = "idle"]
  <2>1. Tick(e) BY <1>2 DEF RunEnds
  <2>2. /\ e \in Memory /\ e.from = eng.from /\ e.to = eng.to /\ e.chain = eng.chain
        /\ e.state = eng.state /\ e.sending = eng.sending /\ e.thread = eng.thread
        /\ e.reports = eng.reports
        /\ \A k \in Threads : e.run[k] = IF k = t THEN "idle" ELSE eng.run[k]
    BY <1>1 DEF Memory
  <2> HIDE DEF e
  <2>3. SameJobs(eng, e) BY <2>2 DEF SameJobs, Threads
  <2>4. QED BY <2>1, <2>3, SameWired, TickWired
<1>3. CASE ~(t \in Workers \/ ~Here(eng, t) \/ Owner(eng, t) \notin eng.alive)
  <2>1. PICK b \in BeatAfter(eng.beat[t]) :
          Tick(Closing(JobAfter([eng EXCEPT !.run[t] = RunAfter(outcome), !.beat[t] = b],
                                t, outcome), t))
    BY <1>3 DEF RunEnds
  <2> DEFINE f == [eng EXCEPT !.run[t] = RunAfter(outcome), !.beat[t] = b]
             g == JobAfter(f, t, outcome)
  <2>2. t \in Jobs BY <1>3 DEF Threads
  <2>3. b \in {"none", "set"} /\ RunAfter(outcome) \in {"idle", "cut"}
    BY <1>1, <2>1, <2>2 DEF BeatAfter, Memory, RunAfter
  <2>4. SameJobs(eng, f)
    <3>1. /\ f \in Memory /\ f.from = eng.from /\ f.to = eng.to /\ f.chain = eng.chain
          /\ f.state = eng.state /\ f.sending = eng.sending /\ f.thread = eng.thread
          /\ f.reports = eng.reports
          /\ \A k \in Threads : f.run[k] = IF k = t THEN RunAfter(outcome) ELSE eng.run[k]
      BY <1>1, <2>3 DEF Memory
    <3> HIDE DEF f
    <3>2. QED BY <2>3, <3>1 DEF SameJobs, Threads, Running
  <2>5. Tick(Closing(g, t)) BY <2>1
  <2> HIDE DEF f
  <2>6. SameJobs(f, g)
    <3>1. f \in Memory BY <2>4 DEF SameJobs
    <3>2. CASE g = f BY <3>1, <3>2 DEF SameJobs
    <3>3. CASE outcome \in {"failed", "cancelled"} /\ g = End(f, {t}, outcome)
      BY <3>1, <3>3, EndSame DEF Ended
    <3>4. CASE t \in Open(f) /\ g = [f EXCEPT !.state[t] = "waiting"]
      <4>1. "waiting" \in OpenStates /\ "none" \notin OpenStates BY DEF OpenStates
      <4> DEFINE h == [f EXCEPT !.state[t] = "waiting"]
      <4>2. /\ h \in Memory /\ h.from = f.from /\ h.to = f.to /\ h.chain = f.chain
            /\ h.run = f.run /\ h.sending = f.sending /\ h.thread = f.thread
            /\ h.reports = f.reports
            /\ \A k \in Jobs : h.state[k] = IF k = t THEN "waiting" ELSE f.state[k]
        BY <3>1, <4>1 DEF Memory
      <4>3. f.state[t] # "none" BY <3>4, <4>1 DEF Open
      <4> HIDE DEF h
      <4>4. SameJobs(f, h) BY <4>2, <4>3 DEF SameJobs
      <4>5. QED BY <3>4, <4>4 DEF h
    <3>5. CASE t \in Open(f) /\ g = Told([f EXCEPT !.state[t] = "completed"], {t})
      <4> DEFINE h == [f EXCEPT !.state[t] = "completed"]
      <4>1. "completed" \in Ended /\ "none" \notin OpenStates BY DEF OpenStates, Ended
      <4>2. SameJobs(f, h) BY <3>1, <3>5, <4>1 DEF SameJobs, Memory, Open
      <4>3. g = Told(h, {t}) BY <3>5
      <4> HIDE DEF h, g
      <4>4. QED BY <4>2, <4>3, ToldSame, SameTwice DEF SameJobs
    <3>6. \/ g = f \/ (outcome \in {"failed", "cancelled"} /\ g = End(f, {t}, outcome))
          \/ t \in Open(f) /\ g = [f EXCEPT !.state[t] = "waiting"]
          \/ t \in Open(f) /\ g = Told([f EXCEPT !.state[t] = "completed"], {t})
      BY DEF JobAfter, Ended
    <3>7. QED BY <3>2, <3>3, <3>4, <3>5, <3>6
  <2> HIDE DEF g
  <2>7. SameJobs(g, Closing(g, t))
    <3>1. g \in Memory BY <2>6 DEF SameJobs
    <3>2. CASE Closing(g, t) = g BY <3>1, <3>2 DEF SameJobs
    <3>3. CASE Closing(g, t) = [g EXCEPT !.thread[t] = "closed"] /\ g.thread[t] = "open"
      <4> DEFINE h == [g EXCEPT !.thread[t] = "closed"]
      <4>1. /\ h \in Memory /\ h.from = g.from /\ h.to = g.to /\ h.chain = g.chain
            /\ h.run = g.run /\ h.sending = g.sending /\ h.state = g.state
            /\ h.reports = g.reports
            /\ \A k \in Jobs : h.thread[k] = IF k = t THEN "closed" ELSE g.thread[k]
        BY <3>1 DEF Memory
      <4> HIDE DEF h
      <4>2. SameJobs(g, h) BY <3>3, <4>1 DEF SameJobs
      <4>3. QED BY <3>3, <4>2 DEF h
    <3>4. QED BY <3>2, <3>3 DEF Closing
  <2>8. SameJobs(eng, Closing(g, t)) BY <2>4, <2>6, <2>7, SameTwice
  <2>9. QED BY <2>5, <2>8, SameWired, TickWired
<1>4. QED BY <1>2, <1>3

LEMMA ThreadWired ==
  ASSUME Wired(eng), NEW j \in Jobs, StopTurn(j) \/ CloseThread(j) \/ RemoveThread(j)
  PROVE  Wired(eng')
<1>1. eng \in Memory BY DEF Wired
<1>2. \A f : Wired(f) => Wired(Aborted(f, {j}))
  <2> SUFFICES ASSUME NEW f, Wired(f) PROVE Wired(Aborted(f, {j}))
    OBVIOUS
  <2>1. SameJobs(f, Aborted(f, {j})) BY AbortedSame DEF Wired
  <2>2. QED BY <2>1, SameWired
<1>3. CASE StopTurn(j) BY <1>2, <1>3 DEF StopTurn
<1>4. CASE CloseThread(j)
  <2> DEFINE b == IF eng.beat[j] = "used" THEN eng.beat[j] ELSE "none"
             f == [eng EXCEPT !.thread[j] = "closed", !.beat[j] = b]
  <2>1. eng' = Aborted(f, {j}) /\ eng.thread[j] = "open"
    BY <1>1, <1>4 DEF CloseThread, Memory
  <2>2. b \in {"none", "used"} OBVIOUS
  <2> HIDE DEF b
  <2>3. SameJobs(eng, f) BY <1>1, <2>1, <2>2 DEF SameJobs, Memory
  <2> HIDE DEF f
  <2>4. QED BY <1>2, <2>1, <2>3, SameWired
<1>5. CASE RemoveThread(j)
  <2> DEFINE f == [eng EXCEPT !.thread[j] = "gone", !.mail = @ \ {j}, !.beat[j] = "none"]
  <2>1. eng' = Aborted(f, {j}) BY <1>5 DEF RemoveThread
  <2>2. SameJobs(eng, f) BY <1>1 DEF SameJobs, Memory
  <2> HIDE DEF f
  <2>3. QED BY <1>2, <2>1, <2>2, SameWired
<1>6. QED BY <1>3, <1>4, <1>5

LEMMA RemoveWired ==
  ASSUME Wired(eng), NEW w \in Workers, Remove(w)
  PROVE  Wired(eng')
<1> DEFINE own == {t \in Threads : Owner(eng, t) = w}
           jobs == {j \in Open(eng) : w \in {eng.to[j], Owner(eng, eng.from[j])}}
           a == Aborted(eng, own)
           e == End(a, jobs, "cancelled")
<1>1. PICK p \in (IF jobs = {} THEN {<<{}, {}>>} ELSE Starts(e)) :
        eng' = Forgotten(Begun(e, p[1], p[2]), w)
  BY DEF Remove
<1>2. SameJobs(eng, a) BY AbortedSame DEF Wired
<1> HIDE DEF a, jobs
<1>3. SameJobs(a, e) BY <1>2, EndSame DEF SameJobs, Ended
<1> HIDE DEF e
<1>4. Wired(e) BY <1>2, <1>3, SameTwice, SameWired
<1>5. p[1] \in SUBSET Due(e) /\ p[2] \in SUBSET p[1]
  <2>1. CASE p \in Starts(e) BY <2>1, StartsDue
  <2>2. CASE p = <<{}, {}>> BY <2>2
  <2>3. QED BY <1>1, <2>1, <2>2
<1>6. Wired(Begun(e, p[1], p[2])) BY <1>4, <1>5, BegunWired
<1>7. SameJobs(Begun(e, p[1], p[2]), eng') BY <1>1, <1>6, ForgottenSame DEF Wired
<1>8. QED BY <1>6, <1>7, SameWired

LEMMA RestartWired ==
  ASSUME Wired(eng), Restart
  PROVE  Wired(eng')
<1>1. PICK again \in SUBSET {j \in Jobs : eng.run[j] \in {"going", "stopping", "again"}},
           saved \in SUBSET eng.sending :
        LET e == [eng EXCEPT !.run = RunAfterQuit(eng, again),
                             !.beat = [j \in Jobs |-> IF @[j] # "used" THEN @[j]
                                         ELSE IF eng.thread[j] = "open" THEN "set" ELSE "none"],
                             !.reports = [j \in Jobs |-> {}], !.sending = {}]
        IN Tick(Unlisted(e, eng.sending \ saved))
  BY DEF Restart
<1> DEFINE ru == RunAfterQuit(eng, again)
           be == [j \in Jobs |-> IF eng.beat[j] # "used" THEN eng.beat[j]
                                 ELSE IF eng.thread[j] = "open" THEN "set" ELSE "none"]
           none == [j \in Jobs |-> {}]
           e == [eng EXCEPT !.run = ru, !.beat = be, !.reports = none, !.sending = {}]
           lost == eng.sending \ saved
<1>2. eng \in Memory /\ \A j \in Jobs : WiredJob(eng, j) BY DEF Wired
<1>3. Tick(Unlisted(e, lost)) BY <1>1, <1>2 DEF Memory
<1>4. /\ ru \in [Threads -> {"idle", "going", "stopping", "again", "cut"}]
      /\ be \in [Jobs -> {"none", "set", "used"}]
      /\ none \in [Jobs -> SUBSET {"own", "away"}]
      /\ \A j \in Jobs : none[j] = {}
      /\ \A j \in Threads : eng.run[j] = "idle" => ru[j] = "idle"
  BY <1>2 DEF Memory, RunAfterQuit
<1> HIDE DEF ru, be, none
<1>5. SameJobs(eng, e) BY <1>2, <1>4 DEF SameJobs, Memory, Threads
<1> HIDE DEF e
<1>6. Wired(e) BY <1>5, SameWired
<1>7. \A j \in lost \cap Jobs : Unused(e, j)
  <2>1. \A j \in lost \cap Jobs : Unused(eng, j) BY <1>2 DEF WiredJob
  <2>2. \A j \in Jobs : e.thread[j] \in {"none", "open", "closed", "gone"}
    BY <1>6 DEF Wired, Memory
  <2>3. QED BY <1>5, <2>1, <2>2 DEF SameJobs, Unused
<1>8. \A j \in Jobs : e.from[j] \notin lost \cap Jobs
  BY <1>2, <1>5 DEF SameJobs, WiredJob
<1>9. Wired(Unlisted(e, lost)) BY <1>6, <1>7, <1>8, UnlistedWired
<1>10. QED BY <1>3, <1>9, TickWired

\* The inductive invariant of the theorem below.
WaitInv == Wired(eng)

LEMMA WiredStep == WaitInv /\ [Next]_vars => WaitInv'
<1> SUFFICES ASSUME Wired(eng), [Next]_vars PROVE Wired(eng')
  BY DEF WaitInv
<1>1. CASE Work
  <2>1. ASSUME NEW t \in Threads, NEW w \in Workers, NEW j \in Jobs, Hand(t, w, j)
        PROVE  Wired(eng')
    BY <2>1, HandWired
  <2>2. ASSUME NEW j \in Jobs,
               \/ Sent(j) \/ Unsent(j) \/ Report(j, "own") \/ Reported(j) \/ Unreported(j)
               \/ SetBeat(j)
        PROVE  Wired(eng')
    BY <2>2, SentWired, UnsentWired, ReportWired, ReportedWired, OwnWired
  <2>3. ASSUME NEW t \in Threads, Finish(t) PROVE Wired(eng')
    BY <2>3, RunEndsWired DEF Finish, Ended
  <2>4. CASE Timer BY <2>4, TickWired DEF Timer
  <2>5. QED BY <1>1, <2>1, <2>2, <2>3, <2>4 DEF Work
<1>2. CASE Disturbance
  <2>1. ASSUME NEW t \in Threads, Write(t) PROVE Wired(eng')
    <3>1. \A u \in {t} : Owner(eng, u) \in eng.alive BY <2>1 DEF Write
    <3>2. Wired(Mailed(eng, {t})) BY <3>1, MailedSame, SameWired DEF Wired
    <3>3. QED BY <2>1, <3>2, TickWired DEF Write
  <2>2. ASSUME NEW j \in Jobs, StopTurn(j) \/ CloseThread(j) \/ RemoveThread(j)
        PROVE  Wired(eng')
    BY <2>2, ThreadWired
  <2>3. ASSUME NEW j \in Jobs, Expire(j) PROVE Wired(eng')
    <3>1. SameJobs(eng, End(eng, {j}, "failed")) BY EndSame DEF Wired, Ended
    <3>2. QED BY <2>3, <3>1, SameWired, TickWired DEF Expire
  <2>4. ASSUME NEW j \in Jobs, Report(j, "away") PROVE Wired(eng') BY <2>4, ReportWired
  <2>5. ASSUME NEW w \in Workers, Remove(w) PROVE Wired(eng') BY <2>5, RemoveWired
  <2>6. ASSUME NEW j \in Jobs, CutShort(j) PROVE Wired(eng')
    BY <2>6, RunEndsWired DEF CutShort, Threads, Running
  <2>7. QED BY <1>2, <2>1, <2>2, <2>3, <2>4, <2>5, <2>6, RestartWired DEF Disturbance
<1>3. CASE UNCHANGED vars BY <1>3 DEF vars
<1>4. QED BY <1>1, <1>2, <1>3 DEF Next

LEMMA WiredInit == Init => WaitInv
<1> SUFFICES ASSUME Init PROVE Wired(eng)
  BY DEF WaitInv
<1>1. eng \in Memory BY DEF Init, Memory, Threads
<1>2. ASSUME NEW j \in Jobs PROVE WiredJob(eng, j)
  BY JobsAssumption DEF Init, WiredJob, Unused, Threads
<1>3. QED BY <1>1, <1>2 DEF Wired

\* The chain a job was handed over with holds all who wait above it.
LEMMA AboveInChain ==
  ASSUME NEW e, Wired(e), NEW j \in Jobs, e.state[j] # "none"
  PROVE  Above(e, j) \subseteq e.chain[j]
<1> DEFINE S == {k \in Jobs : e.state[k] # "none" /\ e.chain[k] \subseteq e.chain[j]}
<1>1. j \in S /\ S \in SUBSET Jobs OBVIOUS
<1>2. \A i \in S : e.from[i] \in Jobs => e.from[i] \in S BY DEF Wired, WiredJob
<1>3. Line(e, j) \subseteq S BY <1>1, <1>2, Zenon DEF Line
<1>4. \A k \in S : Owner(e, e.from[k]) \in e.chain[j] BY DEF Wired, WiredJob
<1> HIDE DEF S
<1>5. QED BY <1>3, <1>4 DEF Above

\* Nobody is handed a job that is waited for, however many colleagues lie between,
\* and none is nested deeper than the limit (delegationRefusal, chainFrom).
THEOREM NoWaitingCircleCorrect == Spec => []NoWaitingCircle
<1>1. ASSUME Wired(eng), NEW j \in Open(eng)
      PROVE  eng.to[j] \notin Above(eng, j) /\ Cardinality(Above(eng, j)) <= Depth
  <2>1. j \in Jobs /\ eng.state[j] # "none" BY DEF Open, OpenStates
  <2>2. /\ eng.to[j] \notin eng.chain[j]
        /\ IsFiniteSet(eng.chain[j]) /\ Cardinality(eng.chain[j]) <= Depth
    BY <1>1, <2>1 DEF Wired, WiredJob
  <2>3. Above(eng, j) \subseteq eng.chain[j] BY <1>1, <2>1, AboveInChain
  <2>4. /\ IsFiniteSet(Above(eng, j))
        /\ Cardinality(Above(eng, j)) <= Cardinality(eng.chain[j])
    BY <2>2, <2>3, FS_Subset
  <2>5. Cardinality(Above(eng, j)) \in Nat /\ Cardinality(eng.chain[j]) \in Nat
    BY <2>2, <2>4, FS_CardinalityType
  <2>6. QED BY <2>2, <2>3, <2>4, <2>5, JobsAssumption
<1>2. WaitInv => NoWaitingCircle BY <1>1 DEF NoWaitingCircle, WaitInv
<1>3. QED BY <1>2, WiredInit, WiredStep, PTL DEF Spec

=============================================================================
