---------------------- MODULE ProspectiveRecorderProofs ----------------------
(* The recorder for any number of forecasts, any queue, any kickoffs and any   *)
(* number of faults: nothing accepted is lost, nothing late is stored, a       *)
(* forecast has one job, the bounds hold, a drained shutdown is one, and the   *)
(* recorder implements the log its callers rely on.                            *)
EXTENDS ProspectiveRecorder, FiniteSetTheorems, SequenceTheorems, TLAPS

\* The forecasts with a job in queue q or in the slots a.
Waiting(q) == {q[i].rec : i \in DOMAIN q}
Slotted(a) == {job.rec : job \in a}
Busy == Waiting(queue) \cup Slotted(active)

Distinct(q, a) ==
    /\ \A i, j \in DOMAIN q : q[i].rec = q[j].rec => i = j
    /\ \A x, y \in a : x.rec = y.rec => x = y
    /\ Waiting(q) \cap Slotted(a) = {}

Attempts(q, a) ==
    /\ \A i \in DOMAIN q : q[i].attempts < MaxAttempts
    /\ \A job \in a : job.at = "waiting" => job.attempts < MaxAttempts

\* The receipts of forecasts that may still reach the table.
Given == {"asked", "accepted", "pending", "error"}

Bounds ==
    /\ TypeOK
    /\ receipt \in [Record -> Log!Receipts] /\ completion \in [Record -> Log!Completions]
    /\ IsFiniteSet(active) /\ Cardinality(active) <= MaxConcurrent /\ Load <= MaxQueue

Jobs ==
    /\ Distinct(queue, active) /\ Attempts(queue, active) /\ Busy \subseteq tracked
    /\ \A job \in active : job.at = "done" => job.rec \in Table
    /\ \A r \in Record : completion[r] = "open" => r \in Busy

\* The file a call is writing is in nobody's hands yet.
Saving ==
    saving # None =>
       /\ mode = "spool" /\ stage # "down" /\ Load < MaxQueue
       /\ receipt[saving.rec] = "asked" /\ saving.rec \notin tracked
       /\ saving.at \in {"linked", "unlinked"} => saving.rec \in files

Origins ==
    /\ tracked \cup files \cup synced \cup adrift \cup Table \subseteq {r \in Record : receipt[r] \in Given}
    /\ \A r \in Record : receipt[r] \in Given => forecastAt[r] # Never /\ forecastAt[r] < Kickoff[r]
    /\ mode = "database" => \A r \in Table : storedAt[r] < Kickoff[r]

\* An accepted file survives a power failure until its forecast is in the table.
Durable ==
    \A r \in Record : receipt[r] = "accepted" => r \in (files \cap synced) \cup Table

Inductive == Bounds /\ Jobs /\ Saving /\ Origins /\ Durable

-----------------------------------------------------------------------------
(* Jobs that move between the queue and the slots.                           *)

LEMMA SmallNumbers ==
    /\ {Records, MaxQueue, MaxConcurrent, MaxAttempts, SpoolLimit} \subseteq Nat \ {0}
    /\ {RetryMargin, ShutdownMs, MaxTime, MaxFaults} \subseteq Nat
BY RecorderAssumption

LEMMA FiniteRecord == IsFiniteSet(Record)
BY FS_Interval, SmallNumbers DEF Record

\* What the jobs that took a slot add to the slots.
LEMMA SlotsGrow ==
    ASSUME NEW q \in Seq(Job), NEW n \in 0..Len(q), NEW a, IsFiniteSet(a)
    PROVE  LET S == {Sent(q[i]) : i \in 1..n}
           IN  /\ IsFiniteSet(a \cup S)
               /\ Cardinality(a \cup S) <= Cardinality(a) + n
<1> DEFINE S == {Sent(q[i]) : i \in 1..n}
           f == [i \in 1..n |-> Sent(q[i])]
<1>1. IsFiniteSet(1..n) /\ Cardinality(1..n) = n
  BY FS_Interval
<1>2. f \in Surjection(1..n, S)
  BY DEF Surjection
<1>3. IsFiniteSet(S) /\ Cardinality(S) <= n
  BY <1>1, <1>2, FS_Surjection
<1>4. /\ IsFiniteSet(a \cup S)
      /\ Cardinality(a \cup S) = Cardinality(a) + Cardinality(S) - Cardinality(a \cap S)
  BY <1>3, FS_Union
<1>5. Cardinality(a) \in Nat /\ Cardinality(S) \in Nat /\ Cardinality(a \cap S) \in Nat
  BY <1>3, FS_CardinalityType, FS_Intersection
<1> QED  BY <1>3, <1>4, <1>5

LEMMA PumpedEffect ==
    ASSUME NEW q \in Seq(Job), NEW a \in SUBSET Slot, IsFiniteSet(a),
           Cardinality(a) <= MaxConcurrent, Distinct(q, a), Attempts(q, a), Pumped(q, a)
    PROVE  /\ queue' \in Seq(Job) /\ active' \subseteq Slot /\ IsFiniteSet(active')
           /\ Cardinality(active') <= MaxConcurrent
           /\ Len(queue') + Cardinality(active') <= Len(q) + Cardinality(a)
           /\ Distinct(queue', active') /\ Attempts(queue', active')
           /\ Waiting(queue') \cup Slotted(active') = Waiting(q) \cup Slotted(a)
           /\ \A job \in active' : job.at = "done" => job \in a
<1> DEFINE n == Taken(q, a)
           S == {Sent(q[i]) : i \in 1..n}
<1>1. n \in 0..Len(q) /\ n <= MaxConcurrent - Cardinality(a) /\ Len(q) \in Nat /\ Cardinality(a) \in Nat
  BY FS_CardinalityType, SmallNumbers DEF Taken, Least
<1>2. /\ queue' \in Seq(Job) /\ Len(queue') = Len(q) - n
      /\ \A i \in DOMAIN queue' : i + n \in DOMAIN q /\ queue'[i] = q[i + n]
      /\ \A i \in DOMAIN q : i > n => i - n \in DOMAIN queue'
  BY <1>1 DEF Pumped
<1>3. active' = a \cup S
  BY DEF Pumped
<1>4. \A i \in 1..n : /\ i \in DOMAIN q /\ q[i] \in Job /\ Sent(q[i]) \in Slot
                      /\ Sent(q[i]).rec = q[i].rec /\ Sent(q[i]).at = "sent"
  <2> TAKE i \in 1..n
  <2>1. i \in DOMAIN q /\ q[i] \in Job /\ q[i].attempts < MaxAttempts
    BY <1>1 DEF Attempts
  <2>2. q[i].attempts + 1 \in 1..MaxAttempts /\ q[i].rec \in Record
    BY <2>1, SmallNumbers DEF Job
  <2> QED  BY <2>1, <2>2 DEF Sent, Slot
<1>5. IsFiniteSet(active') /\ Cardinality(active') <= Cardinality(a) + n
  BY <1>1, <1>3, SlotsGrow
<1>6. Distinct(queue', active')
  <2>1. \A i, j \in DOMAIN queue' : queue'[i].rec = queue'[j].rec => i = j
    <3> SUFFICES ASSUME NEW i \in DOMAIN queue', NEW j \in DOMAIN queue', queue'[i].rec = queue'[j].rec
                 PROVE  i = j
      OBVIOUS
    <3>1. i + n \in DOMAIN q /\ j + n \in DOMAIN q /\ q[i + n].rec = q[j + n].rec
      BY <1>2
    <3>2. i + n = j + n
      BY <3>1 DEF Distinct
    <3>3. i \in Int /\ j \in Int
      BY <1>2
    <3> QED  BY <1>1, <3>2, <3>3
  <2>2. ASSUME NEW x \in active', NEW y \in active', x.rec = y.rec
        PROVE  x = y
    <3>1. CASE x \in a /\ y \in a
      BY <2>2, <3>1 DEF Distinct
    <3>2. CASE x \in S /\ y \in S
      BY <1>4, <2>2, <3>2 DEF Distinct, Sent
    <3>3. CASE x \in a /\ y \in S
      BY <1>4, <2>2, <3>3 DEF Distinct, Waiting, Slotted
    <3>4. CASE x \in S /\ y \in a
      BY <1>4, <2>2, <3>4 DEF Distinct, Waiting, Slotted
    <3> QED  BY <1>3, <3>1, <3>2, <3>3, <3>4
  <2>3. ASSUME NEW i \in DOMAIN queue', NEW x \in active', queue'[i].rec = x.rec
        PROVE  FALSE
    <3>1. CASE x \in a
      <4>1. i + n \in DOMAIN q /\ q[i + n].rec = x.rec
        BY <1>2, <2>3
      <4> QED  BY <3>1, <4>1 DEF Distinct, Waiting, Slotted
    <3>2. CASE x \in S
      <4>1. PICK j \in 1..n : x = Sent(q[j])
        BY <3>2
      <4>2. i + n \in DOMAIN q /\ q[i + n].rec = q[j].rec /\ i \in Nat \ {0}
        BY <1>2, <1>4, <2>3, <4>1
      <4> QED  BY <1>1, <1>4, <4>2 DEF Distinct
    <3> QED  BY <1>3, <3>1, <3>2
  <2> QED  BY <2>1, <2>2, <2>3 DEF Distinct, Waiting, Slotted
<1>7. Attempts(queue', active')
  BY <1>2, <1>3, <1>4 DEF Attempts
<1>8. Waiting(queue') \cup Slotted(active') = Waiting(q) \cup Slotted(a)
  <2>1. Waiting(queue') \subseteq Waiting(q)
    BY <1>2 DEF Waiting
  <2>2. Slotted(active') \subseteq Waiting(q) \cup Slotted(a)
    BY <1>3, <1>4 DEF Waiting, Slotted
  <2>3. Slotted(a) \subseteq Slotted(active')
    BY <1>3 DEF Slotted
  <2>4. ASSUME NEW i \in DOMAIN q
        PROVE  q[i].rec \in Waiting(queue') \cup Slotted(active')
    <3>1. CASE i <= n
      BY <1>3, <1>4, <3>1, i \in 1..n DEF Slotted
    <3>2. CASE i > n
      BY <1>1, <1>2, <3>2, queue'[i - n] = q[i] DEF Waiting
    <3> QED  BY <1>1, <3>1, <3>2
  <2> QED  BY <2>1, <2>2, <2>3, <2>4 DEF Waiting
<1>9. active' \subseteq Slot /\ \A job \in active' : job.at = "done" => job \in a
  BY <1>3, <1>4
<1>10. /\ Cardinality(active') <= MaxConcurrent
       /\ Len(queue') + Cardinality(active') <= Len(q) + Cardinality(a)
  <2>1. Cardinality(active') \in Nat
    BY <1>5, FS_CardinalityType
  <2> QED  BY <1>1, <1>2, <1>5, <2>1, SmallNumbers
<1> QED
  BY <1>2, <1>5, <1>6, <1>7, <1>8, <1>9, <1>10

\* A job that leaves its slot, for good or for the end of the queue.
LEMMA LeaveEffect ==
    ASSUME Bounds, Jobs, NEW job \in active, NEW q,
           q = queue \/ (q = Requeued(job) /\ job.attempts < MaxAttempts),
           Leave(job, q)
    PROVE  /\ queue' \in Seq(Job) /\ active' \subseteq Slot /\ IsFiniteSet(active')
           /\ Cardinality(active') <= MaxConcurrent /\ Load' <= MaxQueue
           /\ Distinct(queue', active') /\ Attempts(queue', active')
           /\ tracked' \subseteq tracked /\ Busy' \subseteq tracked'
           /\ Busy' = IF q = queue THEN Busy \ {job.rec} ELSE Busy
           /\ \A x \in active' : x.at = "done" => x \in active
<1> DEFINE a == active \ {job}
<1>1. /\ queue \in Seq(Job) /\ active \subseteq Slot /\ job \in Slot /\ IsFiniteSet(active)
      /\ Cardinality(active) <= MaxConcurrent /\ Len(queue) + Cardinality(active) <= MaxQueue
      /\ Distinct(queue, active) /\ Attempts(queue, active) /\ Busy \subseteq tracked
  BY DEF Bounds, TypeOK, Jobs, Load
<1>2. /\ a \subseteq Slot /\ IsFiniteSet(a) /\ Cardinality(a) = Cardinality(active) - 1
      /\ Cardinality(active) \in Nat
  BY <1>1, FS_RemoveElement, FS_CardinalityType
<1>3. Slotted(a) = Slotted(active) \ {job.rec} /\ job.rec \in Slotted(active)
  BY <1>1 DEF Slotted, Distinct
<1>4. job.rec \notin Waiting(queue)
  BY <1>1, <1>3 DEF Distinct
<1>5. /\ q \in Seq(Job) /\ Distinct(q, a) /\ Attempts(q, a)
      /\ Len(q) + Cardinality(a) <= MaxQueue
      /\ Waiting(q) = IF q = queue THEN Waiting(queue) ELSE Waiting(queue) \cup {job.rec}
      /\ (\E i \in DOMAIN q : q[i].rec = job.rec) <=> q # queue
  <2>1. CASE q = queue
    <3>1. Distinct(queue, a) /\ Attempts(queue, a)
      BY <1>1, <1>3 DEF Distinct, Attempts
    <3>2. ~\E i \in DOMAIN queue : queue[i].rec = job.rec
      BY <1>4 DEF Waiting
    <3>3. Len(queue) \in Nat
      BY <1>1
    <3> QED  BY <1>1, <1>2, <2>1, <3>1, <3>2, <3>3, SmallNumbers
  <2>2. CASE q = Requeued(job) /\ job.attempts < MaxAttempts
    <3> DEFINE back == [rec |-> job.rec, attempts |-> job.attempts]
    <3>1. back \in Job /\ back.rec = job.rec /\ back.attempts < MaxAttempts
      BY <1>1, <2>2, SmallNumbers DEF Slot, Job
    <3>2. q = Append(queue, back)
      BY <2>2 DEF Requeued
    <3> HIDE DEF back
    <3>3. /\ q \in Seq(Job) /\ Len(q) = Len(queue) + 1 /\ DOMAIN q = 1..(Len(queue) + 1)
          /\ \A i \in DOMAIN queue : i \in DOMAIN q /\ q[i] = queue[i]
          /\ q[Len(queue) + 1] = back /\ Len(queue) + 1 \in DOMAIN q
          /\ \A i \in DOMAIN q : i \in DOMAIN queue \/ i = Len(queue) + 1
          /\ Len(queue) \in Nat
      BY <1>1, <3>1, <3>2
    <3>4. Waiting(q) = Waiting(queue) \cup {job.rec}
      BY <3>1, <3>3 DEF Waiting
    <3>5. \A i, j \in DOMAIN q : q[i].rec = q[j].rec => i = j
      BY <1>1, <1>4, <3>1, <3>3 DEF Distinct, Waiting
    <3>6. Distinct(q, a)
      BY <1>1, <1>3, <3>4, <3>5 DEF Distinct
    <3>7. Attempts(q, a)
      BY <1>1, <3>1, <3>3 DEF Attempts
    <3>8. Len(q) # Len(queue)
      BY <3>3
    <3> QED  BY <1>1, <1>2, <3>1, <3>3, <3>4, <3>6, <3>7, <3>8
  <2> QED  BY <2>1, <2>2
<1>6. Pumped(q, a) /\ Untrack(job.rec, q)
  BY DEF Leave
<1>7. Cardinality(a) <= MaxConcurrent
  BY <1>1, <1>2, SmallNumbers
<1>8. /\ queue' \in Seq(Job) /\ active' \subseteq Slot /\ IsFiniteSet(active')
      /\ Cardinality(active') <= MaxConcurrent
      /\ Len(queue') + Cardinality(active') <= Len(q) + Cardinality(a)
      /\ Distinct(queue', active') /\ Attempts(queue', active')
      /\ Waiting(queue') \cup Slotted(active') = Waiting(q) \cup Slotted(a)
      /\ \A x \in active' : x.at = "done" => x \in a
  BY <1>2, <1>5, <1>6, <1>7, PumpedEffect
<1>9. Load' <= MaxQueue
  <2>1. Len(queue') \in Nat /\ Cardinality(active') \in Nat /\ Len(q) \in Nat /\ Cardinality(a) \in Nat
    BY <1>2, <1>5, <1>8, FS_CardinalityType
  <2> QED  BY <1>5, <1>8, <2>1, SmallNumbers DEF Load
<1>10. Busy' = IF q = queue THEN Busy \ {job.rec} ELSE Busy
  BY <1>3, <1>4, <1>5, <1>8 DEF Busy
<1>11. tracked' = IF q = queue THEN tracked \ {job.rec} ELSE tracked
  BY <1>5, <1>6 DEF Untrack
<1> QED
  BY <1>1, <1>8, <1>9, <1>10, <1>11

\* What the database does with an insert.
LEMMA InsertEffect ==
    ASSUME Bounds, NEW r \in Record, storedAt' = Inserted(r)
    PROVE  /\ storedAt' \in [Record -> 0..MaxTime \cup {Never}]
           /\ Table \subseteq Table' /\ Table' \subseteq Table \cup {r}
           /\ r \in Table' <=> r \in Table \/ Insertable(r)
           /\ \A s \in Table : storedAt'[s] = storedAt[s]
           /\ r \in Table' \ Table => Insertable(r) /\ storedAt'[r] = now
<1>1. storedAt \in [Record -> 0..MaxTime \cup {Never}] /\ now \in 0..MaxTime /\ MaxTime \in Nat
  BY SmallNumbers DEF Bounds, TypeOK
<1>2. now # Never
  BY <1>1 DEF Never
<1>3. CASE Insertable(r) /\ r \notin Table
  BY <1>1, <1>2, <1>3 DEF Inserted, Table
<1>4. CASE ~(Insertable(r) /\ r \notin Table)
  BY <1>1, <1>4 DEF Inserted, Table
<1> QED  BY <1>3, <1>4

-----------------------------------------------------------------------------
(* Every step keeps the invariant.                                           *)

LEMMA InitInductive == Init => Inductive
<1> SUFFICES ASSUME Init PROVE Inductive
  OBVIOUS
<1>1. /\ Cardinality({}) = 0 /\ IsFiniteSet({}) /\ Len(<<>>) = 0 /\ <<>> \in Seq(Job)
  BY FS_EmptySet
<1>2. Bounds
  BY <1>1, SmallNumbers DEF Init, Bounds, TypeOK, Load, Record, Never, Log!Receipts, Log!Completions
<1>3. Table = {}
  BY DEF Init, Table
<1>4. Jobs
  BY <1>3 DEF Init, Jobs, Distinct, Attempts, Busy, Waiting, Slotted
<1>5. Saving /\ Origins /\ Durable
  BY <1>3 DEF Init, Saving, Origins, Durable, Given
<1> QED  BY <1>2, <1>4, <1>5 DEF Inductive

\* The steps that leave the jobs alone.
LEMMA SameJobs ==
    ASSUME Bounds, Jobs, Table \subseteq Table',
           UNCHANGED <<queue, active, tracked, completion>>
    PROVE  Jobs'
BY DEF Jobs, Busy, Waiting, Slotted

LEMMA PumpKeeps == Inductive /\ Pump => Inductive'
<1> SUFFICES ASSUME Inductive, Pump PROVE Inductive'
  OBVIOUS
<1>1. /\ queue \in Seq(Job) /\ active \subseteq Slot /\ IsFiniteSet(active)
      /\ Cardinality(active) <= MaxConcurrent /\ Load <= MaxQueue
      /\ Distinct(queue, active) /\ Attempts(queue, active) /\ Busy \subseteq tracked
  BY DEF Inductive, Bounds, TypeOK, Jobs
<1>2. Pumped(queue, active)
  BY DEF Pump
<1>3. /\ queue' \in Seq(Job) /\ active' \subseteq Slot /\ IsFiniteSet(active')
      /\ Cardinality(active') <= MaxConcurrent /\ Load' <= Load
      /\ Distinct(queue', active') /\ Attempts(queue', active')
      /\ Busy' = Busy /\ \A job \in active' : job.at = "done" => job \in active
  BY <1>1, <1>2, PumpedEffect DEF Load, Busy
<1>4. Load' \in Int /\ Load \in Int
  BY <1>1, <1>3, FS_CardinalityType DEF Load
<1>5. UNCHANGED <<mode, now, processVars, saving, diskVars, adrift, storedAt, callVars, faults>>
  BY DEF Pump
<1>6. Bounds'
  <2>1. TypeOK'
    BY <1>3, <1>5 DEF Inductive, Bounds, TypeOK, processVars, diskVars, callVars
  <2>2. Load' <= MaxQueue
    BY <1>1, <1>3, <1>4, SmallNumbers
  <2> QED  BY <1>3, <1>5, <2>1, <2>2 DEF Inductive, Bounds, callVars
<1>7. Jobs'
  BY <1>3, <1>5 DEF Inductive, Jobs, Table, processVars, callVars
<1>8. Saving' /\ Origins' /\ Durable'
  BY <1>5 DEF Pump, Running, Idle, Inductive, Saving, Origins, Durable, Table, processVars, diskVars, callVars
<1> QED  BY <1>6, <1>7, <1>8 DEF Inductive

LEMMA ExecuteKeeps ==
    ASSUME Inductive, NEW job \in active, Execute(job)
    PROVE  Inductive'
<1> DEFINE r == job.rec
           next == [job EXCEPT !.at = Outcome(r)]
<1>1. /\ active \subseteq Slot /\ IsFiniteSet(active) /\ Distinct(queue, active) /\ Attempts(queue, active)
      /\ r \in Record /\ r \in tracked /\ job \in Slot
      /\ Cardinality(active) <= MaxConcurrent /\ Load <= MaxQueue
  BY DEF Inductive, Bounds, TypeOK, Jobs, Slot, Busy, Slotted
<1>2. /\ job.at = "sent" /\ storedAt' = Inserted(r) /\ active' = (active \ {job}) \cup {next}
      /\ UNCHANGED <<mode, now, processVars, queue, saving, diskVars, adrift, callVars, faults>>
  BY DEF Execute
<1>3. next \in Slot /\ next.rec = r /\ next.at \in {"done", "refused"}
      /\ (next.at = "done" <=> (r \in Table \/ Insertable(r)))
  BY <1>1 DEF Slot, Outcome
<1>4. /\ storedAt' \in [Record -> 0..MaxTime \cup {Never}]
      /\ Table \subseteq Table' /\ Table' \subseteq Table \cup {r}
      /\ r \in Table' <=> r \in Table \/ Insertable(r)
      /\ \A s \in Table : storedAt'[s] = storedAt[s]
      /\ r \in Table' \ Table => Insertable(r) /\ storedAt'[r] = now
  BY <1>1, <1>2, InsertEffect DEF Inductive
<1>5. IsFiniteSet(active') /\ Cardinality(active') <= Cardinality(active) /\ Cardinality(active) \in Nat
      /\ Cardinality(active') \in Nat
  <2>1. IsFiniteSet(active \ {job}) /\ Cardinality(active \ {job}) = Cardinality(active) - 1
    BY <1>1, FS_RemoveElement
  <2>2. Cardinality(active) \in Nat /\ Cardinality(active \ {job}) \in Nat
    BY <1>1, <2>1, FS_CardinalityType
  <2>3. /\ IsFiniteSet((active \ {job}) \cup {next})
        /\ Cardinality((active \ {job}) \cup {next}) =
             IF next \in active \ {job} THEN Cardinality(active \ {job}) ELSE Cardinality(active \ {job}) + 1
    <3> HIDE DEF next
    <3> QED  BY <2>1, FS_AddElement
  <2> QED  BY <1>2, <2>1, <2>2, <2>3, FS_CardinalityType
<1>6. Bounds'
  <2>1. Load' <= MaxQueue /\ Cardinality(active') <= MaxConcurrent
    <3>1. Len(queue) \in Nat /\ queue' = queue
      BY <1>2 DEF Inductive, Bounds, TypeOK
    <3> QED  BY <1>1, <1>5, <3>1, SmallNumbers DEF Load
  <2> QED  BY <1>1, <1>2, <1>3, <1>4, <1>5, <2>1
           DEF Inductive, Bounds, TypeOK, processVars, diskVars, callVars
<1>7. Jobs'
  <2>1. Slotted(active') = Slotted(active)
    BY <1>2, <1>3 DEF Slotted
  <2>2. Distinct(queue', active')
    BY <1>1, <1>2, <1>3, <2>1 DEF Distinct, Slotted
  <2>3. Attempts(queue', active')
    BY <1>1, <1>2, <1>3 DEF Attempts
  <2>4. \A x \in active' : x.at = "done" => x.rec \in Table'
    BY <1>2, <1>3, <1>4 DEF Inductive, Jobs
  <2>5. Busy' = Busy
    BY <1>2, <2>1 DEF Busy
  <2> QED  BY <1>2, <2>2, <2>3, <2>4, <2>5 DEF Inductive, Jobs, processVars, callVars
<1>8. Saving' /\ Durable'
  <2>1. Len(queue) \in Nat /\ queue' = queue
    BY <1>2 DEF Inductive, Bounds, TypeOK
  <2>2. Load' <= Load /\ Load' \in Int /\ Load \in Int
    BY <1>5, <2>1 DEF Load
  <2> QED  BY <1>2, <1>4, <2>2, SmallNumbers DEF Inductive, Saving, Durable, processVars, diskVars, callVars
<1>9. Origins'
  <2>1. receipt[r] \in Given /\ forecastAt[r] < Kickoff[r]
    BY <1>1 DEF Inductive, Origins
  <2>2. mode = "database" => \A s \in Table' : storedAt'[s] < Kickoff[s]
    BY <1>1, <1>4 DEF Inductive, Origins, Insertable
  <2> QED  BY <1>1, <1>2, <1>4, <2>1, <2>2 DEF Inductive, Origins, processVars, diskVars, callVars
<1> QED  BY <1>6, <1>7, <1>8, <1>9 DEF Inductive

\* The steps by which a job leaves its slot.
LEMMA LeaveKeeps ==
    ASSUME Inductive, NEW job \in active, NEW q,
           q = queue \/ (q = Requeued(job) /\ job.attempts < MaxAttempts),
           Leave(job, q),
           q = queue => completion' = [completion EXCEPT ![job.rec] = completion'[job.rec]]
                        /\ completion'[job.rec] \in Log!Completions \ {"open"},
           q # queue => completion' = completion,
           saving = None, files' \subseteq files, files \ files' \subseteq Table,
           \A s \in files' \cap synced : s \in synced', synced' \subseteq files \cup synced,
           adrift' \subseteq adrift \cup {job.rec},
           UNCHANGED <<mode, now, stage, deadline, cursor, verdict, saving, partials, storedAt,
                       forecastAt, receipt, faults>>
    PROVE  Inductive'
<1>1. /\ queue' \in Seq(Job) /\ active' \subseteq Slot /\ IsFiniteSet(active')
      /\ Cardinality(active') <= MaxConcurrent /\ Load' <= MaxQueue
      /\ Distinct(queue', active') /\ Attempts(queue', active')
      /\ tracked' \subseteq tracked /\ Busy' \subseteq tracked'
      /\ Busy' = IF q = queue THEN Busy \ {job.rec} ELSE Busy
      /\ \A x \in active' : x.at = "done" => x \in active
  BY LeaveEffect DEF Inductive
<1>2. job.rec \in Record /\ job.rec \in tracked
  BY DEF Inductive, Bounds, TypeOK, Slot, Jobs, Busy, Slotted
<1>3. Table' = Table
  BY DEF Table
<1>4. completion' \in [Record -> Log!Completions]
  BY <1>2 DEF Inductive, Bounds
<1>5. Bounds'
  BY <1>1, <1>2, <1>4 DEF Inductive, Bounds, TypeOK
<1>6. \A r \in Record : completion'[r] = "open" => r \in Busy'
  BY <1>1, <1>2 DEF Inductive, Jobs, Bounds
<1>7. Jobs'
  BY <1>1, <1>3, <1>6 DEF Inductive, Jobs
<1>8. Saving'
  BY DEF Saving
<1>9. Origins' /\ Durable'
  BY <1>1, <1>2, <1>3 DEF Inductive, Origins, Durable
<1> QED  BY <1>5, <1>7, <1>8, <1>9 DEF Inductive

LEMMA ConfirmKeeps ==
    ASSUME Inductive, NEW job \in active, Confirm(job)
    PROVE  Inductive'
<1>1. job.rec \in Record /\ job.rec \in Table
  BY DEF Confirm, Inductive, Bounds, TypeOK, Slot, Jobs
<1>2. /\ Resolved(job.rec, "stored") /\ Leave(job, queue) /\ RemoveFile(job.rec) /\ saving = None
      /\ UNCHANGED <<mode, now, stage, deadline, cursor, verdict, saving, partials, adrift,
                     storedAt, forecastAt, receipt, faults>>
  BY DEF Confirm, Running, Idle
<1>3. /\ completion' = [completion EXCEPT ![job.rec] = completion'[job.rec]]
      /\ completion'[job.rec] \in Log!Completions \ {"open"}
  BY <1>1, <1>2 DEF Resolved, Inductive, Bounds, Log!Completions
<1>4. /\ files' \subseteq files /\ files \ files' \subseteq Table
      /\ synced' \subseteq files \cup synced /\ \A s \in files' \cap synced : s \in synced'
  BY <1>1, <1>2 DEF RemoveFile, Inductive, Bounds, TypeOK
<1> QED  BY <1>2, <1>3, <1>4, LeaveKeeps

LEMMA RetryKeeps ==
    ASSUME Inductive, NEW job \in active, Retry(job)
    PROVE  Inductive'
<1>1. job.attempts < MaxAttempts
  BY DEF Retry, Inductive, Jobs, Attempts
<1>2. /\ Leave(job, Requeued(job)) /\ saving = None
      /\ UNCHANGED <<mode, now, stage, deadline, cursor, verdict, saving, diskVars, adrift,
                     storedAt, callVars, faults>>
  BY DEF Retry, Running, Idle
<1>3. Requeued(job) # queue
  <2>1. queue \in Seq(Job)
    BY DEF Inductive, Bounds, TypeOK
  <2> QED  BY <2>1 DEF Requeued
<1>4. synced' \subseteq files \cup synced
  BY <1>2 DEF Inductive, Bounds, TypeOK, diskVars
<1> QED  BY <1>1, <1>2, <1>3, <1>4, LeaveKeeps DEF diskVars, callVars

LEMMA FailKeeps ==
    ASSUME Inductive, NEW job \in active, Fail(job)
    PROVE  Inductive'
<1>1. /\ job.rec \in Record /\ job \in Slot /\ saving = None /\ adrift' \subseteq adrift \cup {job.rec}
      /\ UNCHANGED <<mode, now, stage, deadline, cursor, verdict, saving, diskVars, storedAt,
                     forecastAt, receipt, faults>>
  BY DEF Fail, Running, Idle, Inductive, Bounds, TypeOK, Slot
<1>2. CASE /\ CanRetry(job) /\ active' = (active \ {job}) \cup {[job EXCEPT !.at = "waiting"]}
           /\ UNCHANGED <<queue, tracked, completion>>
  <2> DEFINE next == [job EXCEPT !.at = "waiting"]
  <2>1. /\ next \in Slot /\ next.rec = job.rec /\ next.at = "waiting" /\ next.attempts = job.attempts
        /\ job.attempts < MaxAttempts
    BY <1>1, <1>2 DEF Slot, CanRetry
  <2>2. /\ active \subseteq Slot /\ IsFiniteSet(active) /\ Distinct(queue, active) /\ Attempts(queue, active)
        /\ Cardinality(active) <= MaxConcurrent /\ Load <= MaxQueue /\ queue \in Seq(Job)
        /\ job.rec \in tracked
    BY DEF Inductive, Bounds, TypeOK, Jobs, Busy, Slotted
  <2>3. active' = (active \ {job}) \cup {next}
    BY <1>2
  <2>4. IsFiniteSet(active') /\ Cardinality(active') <= Cardinality(active)
        /\ Cardinality(active) \in Nat /\ Cardinality(active') \in Nat
    <3>1. IsFiniteSet(active \ {job}) /\ Cardinality(active \ {job}) = Cardinality(active) - 1
      BY <2>2, FS_RemoveElement
    <3>2. Cardinality(active) \in Nat /\ Cardinality(active \ {job}) \in Nat
      BY <2>2, <3>1, FS_CardinalityType
    <3>3. /\ IsFiniteSet((active \ {job}) \cup {next})
          /\ Cardinality((active \ {job}) \cup {next}) =
               IF next \in active \ {job} THEN Cardinality(active \ {job}) ELSE Cardinality(active \ {job}) + 1
      <4> HIDE DEF next
      <4> QED  BY <3>1, FS_AddElement
    <3> QED  BY <2>3, <3>1, <3>2, <3>3, FS_CardinalityType
  <2>5. Bounds'
    <3>1. Load' <= MaxQueue /\ Cardinality(active') <= MaxConcurrent
      <4>1. Len(queue) \in Nat /\ queue' = queue
        BY <1>2, <2>2
      <4> QED  BY <2>2, <2>4, <4>1, SmallNumbers DEF Load
    <3>2. TypeOK'
      BY <1>1, <1>2, <2>1, <2>2, <2>3 DEF Inductive, Bounds, TypeOK, diskVars
    <3> QED  BY <1>1, <1>2, <2>4, <3>1, <3>2 DEF Inductive, Bounds
  <2>6. Jobs'
    <3>1. Slotted(active') = Slotted(active)
      BY <2>1, <2>3 DEF Slotted
    <3>2. Distinct(queue', active')
      BY <1>2, <2>1, <2>2, <2>3, <3>1 DEF Distinct, Slotted
    <3>3. Attempts(queue', active')
      BY <1>2, <2>1, <2>2, <2>3 DEF Attempts
    <3>4. \A x \in active' : x.at = "done" => x.rec \in Table'
      BY <1>1, <2>1, <2>3 DEF Inductive, Jobs, Table
    <3>5. Busy' = Busy
      BY <1>2, <3>1 DEF Busy
    <3> QED  BY <1>2, <3>2, <3>3, <3>4, <3>5 DEF Inductive, Jobs
  <2>7. Saving' /\ Durable'
    BY <1>1, <1>2 DEF Inductive, Saving, Durable, Table, diskVars
  <2>8. Origins'
    BY <1>1, <1>2, <2>2 DEF Inductive, Origins, Table, diskVars
  <2> QED  BY <2>5, <2>6, <2>7, <2>8 DEF Inductive
<1>3. CASE /\ ~CanRetry(job) /\ Resolved(job.rec, "unconfirmed") /\ Leave(job, queue)
  <2>1. /\ completion' = [completion EXCEPT ![job.rec] = completion'[job.rec]]
        /\ completion'[job.rec] \in Log!Completions \ {"open"}
    BY <1>1, <1>3 DEF Resolved, Inductive, Bounds, Log!Completions
  <2>2. synced' \subseteq files \cup synced
    BY <1>1 DEF Inductive, Bounds, TypeOK, diskVars
  <2> QED  BY <1>1, <1>3, <2>1, <2>2, LeaveKeeps DEF diskVars
<1> QED  BY <1>2, <1>3 DEF Fail

LEMMA LandKeeps ==
    ASSUME Inductive, NEW r \in Record, Land(r)
    PROVE  Inductive'
<1>1. /\ r \in adrift /\ adrift' = adrift \ {r} /\ storedAt' \in {storedAt, Inserted(r)}
      /\ UNCHANGED <<mode, now, processVars, queue, active, saving, diskVars, callVars, faults>>
  BY DEF Land
<1>2. CASE storedAt' = storedAt
  <2>1. Table' = Table /\ Load' = Load
    BY <1>1, <1>2 DEF Table, Load
  <2>2. Bounds' /\ Jobs'
    BY <1>1, <1>2, <2>1, SameJobs DEF Inductive, Bounds, TypeOK, processVars, diskVars, callVars
  <2> QED  BY <1>1, <1>2, <2>1, <2>2
           DEF Inductive, Saving, Origins, Durable, processVars, diskVars, callVars
<1>3. CASE storedAt' = Inserted(r)
  <2>1. /\ storedAt' \in [Record -> 0..MaxTime \cup {Never}]
        /\ Table \subseteq Table' /\ Table' \subseteq Table \cup {r}
        /\ \A s \in Table : storedAt'[s] = storedAt[s]
        /\ r \in Table' \ Table => Insertable(r) /\ storedAt'[r] = now
    BY <1>3, InsertEffect DEF Inductive
  <2>2. Load' = Load
    BY <1>1 DEF Load
  <2>3. Bounds' /\ Jobs'
    BY <1>1, <2>1, <2>2, SameJobs DEF Inductive, Bounds, TypeOK, processVars, diskVars, callVars
  <2>4. Saving' /\ Durable'
    BY <1>1, <2>1, <2>2 DEF Inductive, Saving, Durable, processVars, diskVars, callVars
  <2>5. receipt[r] \in Given /\ forecastAt[r] < Kickoff[r]
    BY <1>1 DEF Inductive, Origins
  <2>6. mode = "database" => \A s \in Table' : storedAt'[s] < Kickoff[s]
    BY <2>1 DEF Inductive, Origins, Insertable
  <2>7. Origins'
    BY <1>1, <2>1, <2>5, <2>6 DEF Inductive, Origins, processVars, diskVars, callVars
  <2> QED  BY <2>3, <2>4, <2>7 DEF Inductive
<1> QED  BY <1>1, <1>2, <1>3

\* New jobs at the end of the queue, each for a forecast that has none.
LEMMA AppendEffect ==
    ASSUME Bounds, Jobs, NEW n \in Nat, NEW list \in [1..n -> Record \ tracked],
           \A i, j \in 1..n : list[i] = list[j] => i = j,
           Load + n <= MaxQueue,
           queue' = queue \o [i \in 1..n |-> [rec |-> list[i], attempts |-> 0]],
           active' = active
    PROVE  /\ queue' \in Seq(Job) /\ Load' = Load + n
           /\ Distinct(queue', active') /\ Attempts(queue', active')
           /\ Busy' = Busy \cup {list[i] : i \in 1..n}
<1> DEFINE more == [i \in 1..n |-> [rec |-> list[i], attempts |-> 0]]
           len == Len(queue)
<1>1. /\ queue \in Seq(Job) /\ Distinct(queue, active) /\ Attempts(queue, active) /\ Busy \subseteq tracked
      /\ len \in Nat
  BY DEF Bounds, TypeOK, Jobs
<1>2. more \in Seq(Job) /\ Len(more) = n
      /\ \A i \in 1..n : more[i].rec = list[i] /\ more[i].attempts = 0
  <2>1. \A i \in 1..n : [rec |-> list[i], attempts |-> 0] \in Job
    BY SmallNumbers DEF Job
  <2>2. more \in [1..n -> Job]
    BY <2>1
  <2> QED  BY <2>2
<1>3. queue' = queue \o more
  OBVIOUS
<1> HIDE DEF more
<1>4. /\ queue' \in Seq(Job) /\ Len(queue') = len + n /\ DOMAIN queue' = 1..(len + n)
      /\ \A i \in DOMAIN queue' : IF i <= len THEN i \in DOMAIN queue /\ queue'[i] = queue[i]
                                              ELSE i - len \in 1..n /\ queue'[i] = more[i - len]
  <2>1. /\ queue' \in Seq(Job) /\ Len(queue') = len + n
        /\ \A i \in 1..(len + n) : queue'[i] = IF i <= len THEN queue[i] ELSE more[i - len]
    <3>1. /\ queue \o more \in Seq(Job) /\ Len(queue \o more) = len + Len(more)
          /\ \A i \in 1..(len + Len(more)) :
                (queue \o more)[i] = IF i <= len THEN queue[i] ELSE more[i - len]
      BY <1>1, <1>2, ConcatProperties
    <3> QED  BY <1>2, <1>3, <3>1, Zenon
  <2>2. DOMAIN queue' = 1..(len + n) /\ DOMAIN queue = 1..len
    BY <1>1, <2>1
  <2>3. \A i \in 1..(len + n) : IF i <= len THEN i \in 1..len ELSE i - len \in 1..n
    BY <1>1
  <2> QED  BY <2>1, <2>2, <2>3
<1>5. Waiting(queue') = Waiting(queue) \cup {list[i] : i \in 1..n}
  <2>1. Waiting(queue') \subseteq Waiting(queue) \cup {list[i] : i \in 1..n}
    <3>1. ASSUME NEW i \in DOMAIN queue'
          PROVE  queue'[i].rec \in Waiting(queue) \cup {list[j] : j \in 1..n}
      <4>1. CASE i <= len
        BY <1>4, <3>1, <4>1 DEF Waiting
      <4>2. CASE ~(i <= len)
        <5>1. i - len \in 1..n /\ queue'[i].rec = list[i - len]
          BY <1>2, <1>4, <3>1, <4>2
        <5> QED  BY <5>1
      <4> QED  BY <4>1, <4>2
    <3> QED  BY <3>1 DEF Waiting
  <2>2. ASSUME NEW i \in DOMAIN queue PROVE queue[i].rec \in Waiting(queue')
    <3>1. DOMAIN queue = 1..len
      BY <1>1
    <3>2. i \in DOMAIN queue' /\ i <= len
      BY <1>1, <1>4, <3>1
    <3>3. queue'[i] = queue[i]
      BY <1>4, <3>2
    <3> QED  BY <3>2, <3>3 DEF Waiting
  <2>3. ASSUME NEW i \in 1..n PROVE list[i] \in Waiting(queue')
    <3>1. i + len \in DOMAIN queue' /\ ~(i + len <= len) /\ i + len - len = i
      BY <1>1, <1>4
    <3>2. queue'[i + len].rec = list[i]
      BY <1>2, <1>4, <3>1
    <3> QED  BY <3>1, <3>2 DEF Waiting
  <2>4. Waiting(queue) \subseteq Waiting(queue')
    <3> SUFFICES ASSUME NEW i \in DOMAIN queue PROVE queue[i].rec \in Waiting(queue')
      BY DEF Waiting
    <3> QED  BY <2>2
  <2> QED  BY <2>1, <2>3, <2>4
<1>6. Distinct(queue', active')
  <2>1. ASSUME NEW i \in DOMAIN queue', NEW j \in DOMAIN queue', queue'[i].rec = queue'[j].rec
        PROVE  i = j
    <3>1. i \in Int /\ j \in Int
      BY <1>1, <1>4
    <3>2. CASE i <= len /\ j <= len
      BY <1>1, <1>4, <2>1, <3>2 DEF Distinct
    <3>3. CASE i > len /\ j > len
      BY <1>1, <1>2, <1>4, <2>1, <3>1, <3>3
    <3>4. CASE i <= len /\ j > len
      <4>1. queue'[i].rec \in tracked /\ queue'[j].rec \notin tracked
        BY <1>1, <1>2, <1>4, <3>1, <3>4 DEF Busy, Waiting
      <4> QED  BY <2>1, <4>1
    <3>5. CASE i > len /\ j <= len
      <4>1. queue'[j].rec \in tracked /\ queue'[i].rec \notin tracked
        BY <1>1, <1>2, <1>4, <3>1, <3>5 DEF Busy, Waiting
      <4> QED  BY <2>1, <4>1
    <3> QED  BY <1>1, <3>1, <3>2, <3>3, <3>4, <3>5
  <2>2. {list[i] : i \in 1..n} \cap Slotted(active) = {}
    BY <1>1 DEF Busy
  <2> QED  BY <1>1, <1>5, <2>1, <2>2 DEF Distinct
<1>7. Attempts(queue', active')
  BY <1>1, <1>2, <1>4, SmallNumbers DEF Attempts
<1>8. Load' = Load + n
  <2>1. IsFiniteSet(active) /\ Cardinality(active) \in Nat
    BY FS_CardinalityType DEF Bounds
  <2> QED  BY <1>1, <1>4, <2>1 DEF Load
<1> QED  BY <1>4, <1>5, <1>6, <1>7, <1>8 DEF Busy

LEMMA EnqueueEffect ==
    ASSUME Inductive, NEW r \in Record, r \notin tracked, Load < MaxQueue,
           Enqueue(r), UNCHANGED <<active, storedAt>>
    PROVE  /\ queue' \in Seq(Job) /\ Load' <= MaxQueue /\ tracked' = tracked \cup {r}
           /\ completion' \in [Record -> Log!Completions]
           /\ Jobs'
<1> DEFINE list == [i \in 1..1 |-> r]
<1>1. queue \in Seq(Job) /\ Load \in Int /\ [rec |-> r, attempts |-> 0] \in Job
  BY FS_CardinalityType, SmallNumbers DEF Inductive, Bounds, TypeOK, Load, Job
<1>2. queue' = queue \o [i \in 1..1 |-> [rec |-> list[i], attempts |-> 0]]
  BY <1>1 DEF Enqueue
<1>3. list \in [1..1 -> Record \ tracked] /\ Load + 1 <= MaxQueue /\ 1 \in Nat
  BY <1>1, SmallNumbers
<1>4. {list[i] : i \in 1..1} = {r} /\ \A i, j \in 1..1 : list[i] = list[j] => i = j
  OBVIOUS
<1> HIDE DEF list
<1>5. /\ queue' \in Seq(Job) /\ Load' = Load + 1
      /\ Distinct(queue', active') /\ Attempts(queue', active')
      /\ Busy' = Busy \cup {list[i] : i \in 1..1}
  <2>1. Bounds /\ Jobs /\ active' = active
    BY DEF Inductive
  <2> QED  BY <1>2, <1>3, <1>4, <2>1, AppendEffect
<1>6. tracked' = tracked \cup {r} /\ completion' = [completion EXCEPT ![r] = "open"]
  BY DEF Enqueue
<1>7. completion' \in [Record -> Log!Completions]
  BY <1>6 DEF Inductive, Bounds, Log!Completions
<1>8. Jobs'
  BY <1>4, <1>5, <1>6 DEF Inductive, Jobs, Bounds, Table
<1> QED  BY <1>1, <1>3, <1>5, <1>6, <1>7, <1>8

LEMMA AskKeeps ==
    ASSUME Inductive, NEW r \in Record, Ask(r)
    PROVE  Inductive'
<1>1. /\ saving = None /\ stage # "down" /\ receipt[r] = "none"
      /\ UNCHANGED <<mode, now, stage, deadline, cursor, verdict, active, diskVars, adrift,
                     storedAt, faults>>
  BY DEF Ask, Running, Idle
<1>2. r \notin tracked \cup files \cup adrift \cup Table
  BY <1>1 DEF Inductive, Origins, Given
<1>3. Table' = Table
  BY <1>1 DEF Table
<1>4. Load \in Int /\ now \in 0..MaxTime /\ now # Never /\ Kickoff[r] \in Nat /\ MaxTime \in Nat
  BY FS_CardinalityType, SmallNumbers, RecorderAssumption DEF Inductive, Bounds, TypeOK, Load, Never
<1>5. CASE /\ RefusedAs(r) # "no" /\ receipt' = [receipt EXCEPT ![r] = RefusedAs(r)]
           /\ UNCHANGED <<queue, tracked, saving, completion, forecastAt>>
  <2>1. RefusedAs(r) \in {"rejected", "ineligible"}
    BY <1>5 DEF RefusedAs
  <2>2. Load' = Load /\ Jobs'
    BY <1>1, <1>3, <1>5, SameJobs DEF Load, Inductive
  <2>3. Bounds'
    BY <1>1, <1>5, <2>1, <2>2 DEF Inductive, Bounds, TypeOK, diskVars, Log!Receipts, Log!Refusals
  <2>4. Saving' /\ Origins' /\ Durable'
    BY <1>1, <1>2, <1>3, <1>5, <2>1 DEF Inductive, Bounds, Saving, Origins, Durable, diskVars, Given
  <2> QED  BY <2>2, <2>3, <2>4 DEF Inductive
<1>6. CASE /\ RefusedAs(r) = "no" /\ mode = "database"
           /\ receipt' = [receipt EXCEPT ![r] = "pending"]
           /\ forecastAt' = [forecastAt EXCEPT ![r] = now]
           /\ Enqueue(r) /\ UNCHANGED saving
  <2>1. Load < MaxQueue /\ now < Kickoff[r]
    BY <1>4, <1>6, SmallNumbers DEF RefusedAs
  <2>2. /\ queue' \in Seq(Job) /\ Load' <= MaxQueue /\ tracked' = tracked \cup {r}
        /\ completion' \in [Record -> Log!Completions]
        /\ Jobs'
    BY <1>1, <1>2, <1>6, <2>1, EnqueueEffect
  <2>3. Bounds'
    BY <1>1, <1>4, <1>6, <2>2 DEF Inductive, Bounds, TypeOK, diskVars, Log!Receipts
  <2>4. Saving' /\ Durable'
    BY <1>1, <1>2, <1>3, <1>6 DEF Inductive, Bounds, Saving, Durable, diskVars
  <2>5. Origins'
    BY <1>1, <1>2, <1>3, <1>4, <1>6, <2>1, <2>2 DEF Inductive, Bounds, TypeOK, Origins, diskVars, Given
  <2> QED  BY <2>2, <2>3, <2>4, <2>5 DEF Inductive
<1>7. CASE /\ RefusedAs(r) = "no" /\ mode = "spool"
           /\ receipt' = [receipt EXCEPT ![r] = "asked"]
           /\ forecastAt' = [forecastAt EXCEPT ![r] = now]
           /\ saving' = [rec |-> r, at |-> "open"]
           /\ UNCHANGED <<queue, tracked, completion>>
  <2>1. Load < MaxQueue /\ now < Kickoff[r]
    BY <1>4, <1>7, SmallNumbers DEF RefusedAs
  <2>2. Load' = Load /\ Jobs'
    BY <1>1, <1>3, <1>7, SameJobs DEF Load, Inductive
  <2>3. Bounds'
    BY <1>1, <1>4, <1>7, <2>2 DEF Inductive, Bounds, TypeOK, diskVars, Log!Receipts, Saves
  <2>4. Saving'
    BY <1>1, <1>2, <1>7, <2>1, <2>2 DEF Inductive, Bounds, Saving
  <2>5. Durable'
    BY <1>1, <1>2, <1>3, <1>7 DEF Inductive, Bounds, Durable, diskVars
  <2>6. Origins'
    BY <1>1, <1>2, <1>3, <1>4, <1>7, <2>1 DEF Inductive, Bounds, TypeOK, Origins, diskVars, Given
  <2> QED  BY <2>2, <2>3, <2>4, <2>5, <2>6 DEF Inductive
<1> QED  BY <1>5, <1>6, <1>7 DEF Ask

\* The admission of a file ends without a receipt.
LEMMA RefusedKeeps ==
    ASSUME Inductive, saving # None, SaveUnchanged, Refused,
           files' \subseteq files, partials' \subseteq Record, synced' \subseteq files \cup synced,
           (files \cap synced) \ {saving.rec} \subseteq files' \cap synced'
    PROVE  Inductive'
<1>1. /\ UNCHANGED <<mode, now, stage, deadline, cursor, verdict, active, adrift, storedAt,
                     forecastAt, faults, queue, tracked, completion>>
      /\ saving' = None /\ receipt' = [receipt EXCEPT ![saving.rec] = "error"]
  BY DEF SaveUnchanged, Refused
<1>2. Table' = Table /\ Load' = Load /\ saving.rec \in Record /\ receipt[saving.rec] = "asked"
  BY <1>1 DEF Table, Load, Inductive, Bounds, TypeOK, Saves, Saving
<1>3. Bounds'
  BY <1>1, <1>2 DEF Inductive, Bounds, TypeOK, Log!Receipts, Log!Refusals
<1>4. Jobs'
  BY <1>1, <1>2, SameJobs DEF Inductive
<1>5. Saving'
  BY <1>1 DEF Saving
<1>6. Origins'
  BY <1>1, <1>2 DEF Inductive, Bounds, Origins, Given
<1>7. Durable'
  BY <1>1, <1>2 DEF Inductive, Bounds, Durable
<1> QED  BY <1>3, <1>4, <1>5, <1>6, <1>7 DEF Inductive

\* It goes on, and its file is not yet promised to anybody.
LEMMA ProceedKeeps ==
    ASSUME Inductive, saving # None, SaveUnchanged,
           NEW step \in {"written", "linked", "unlinked"}, Proceed(step),
           files \subseteq files', files' \subseteq files \cup {saving.rec}, synced' = synced,
           partials' \subseteq Record, step # "written" => saving.rec \in files'
    PROVE  Inductive'
<1>1. /\ UNCHANGED <<mode, now, stage, deadline, cursor, verdict, active, adrift, storedAt,
                     forecastAt, faults, queue, tracked, completion, receipt>>
      /\ saving' = [saving EXCEPT !.at = step]
  BY DEF SaveUnchanged, Proceed
<1>2. Table' = Table /\ Load' = Load /\ saving \in Saves /\ receipt[saving.rec] = "asked"
  BY <1>1 DEF Table, Load, Inductive, Bounds, TypeOK, Saving
<1>3. saving' \in Saves /\ saving'.rec = saving.rec /\ saving'.at = step /\ saving.rec \in Record
  BY <1>1, <1>2 DEF Saves
<1>4. Bounds'
  BY <1>1, <1>2, <1>3 DEF Inductive, Bounds, TypeOK
<1>5. Jobs'
  BY <1>1, <1>2, SameJobs DEF Inductive
<1>6. Saving'
  BY <1>1, <1>2, <1>3 DEF Inductive, Saving
<1>7. Origins'
  BY <1>1, <1>2, <1>3 DEF Inductive, Bounds, Origins, Given
<1>8. Durable'
  BY <1>1, <1>2 DEF Inductive, Durable
<1> QED  BY <1>4, <1>5, <1>6, <1>7, <1>8 DEF Inductive

\* The file is durable, the receipt is given and the job is queued.
LEMMA AcceptKeeps ==
    ASSUME Inductive, saving # None, saving.at = "unlinked", SaveUnchanged,
           Accept(saving.rec), files' = files, synced' = files, partials' = partials
    PROVE  Inductive'
<1> DEFINE r == saving.rec
<1>1. /\ UNCHANGED <<mode, now, stage, deadline, cursor, verdict, active, adrift, storedAt,
                     forecastAt, faults>>
      /\ saving' = None /\ receipt' = [receipt EXCEPT ![r] = "accepted"] /\ Enqueue(r)
  BY DEF SaveUnchanged, Accept
<1>2. /\ Table' = Table /\ r \in Record /\ receipt[r] = "asked" /\ r \notin tracked /\ r \in files
      /\ Load < MaxQueue
  BY <1>1 DEF Table, Inductive, Bounds, TypeOK, Saving, Saves
<1>3. /\ queue' \in Seq(Job) /\ Load' <= MaxQueue /\ tracked' = tracked \cup {r}
      /\ completion' \in [Record -> Log!Completions]
      /\ Jobs'
  BY <1>1, <1>2, EnqueueEffect
<1>4. Bounds'
  BY <1>1, <1>2, <1>3 DEF Inductive, Bounds, TypeOK, Log!Receipts
<1>5. Saving'
  BY <1>1 DEF Saving
<1>6. Origins'
  BY <1>1, <1>2, <1>3 DEF Inductive, Bounds, Origins, Given
<1>7. Durable'
  BY <1>1, <1>2 DEF Inductive, Bounds, Durable
<1> QED  BY <1>3, <1>4, <1>5, <1>6, <1>7 DEF Inductive

LEMMA SaveKeeps == Inductive /\ Save => Inductive'
<1> SUFFICES ASSUME Inductive, Save PROVE Inductive'
  OBVIOUS
<1> DEFINE r == saving.rec
<1>1. /\ saving # None /\ saving \in Saves /\ r \in Record /\ SaveUnchanged
      /\ files \subseteq Record /\ partials \subseteq Record /\ synced \subseteq Record
      /\ saving.at \in {"linked", "unlinked"} => r \in files
  BY DEF Save, Inductive, Bounds, TypeOK, Saves, Saving
<1>2. CASE saving.at = "open" /\ SaveWrite
  BY <1>1, <1>2, ProceedKeeps DEF SaveWrite
<1>3. CASE saving.at = "written" /\ SaveLink
  <2>1. CASE /\ partials' = partials \ {r} /\ Refused /\ UNCHANGED <<files, synced>>
    BY <1>1, <2>1, RefusedKeeps
  <2>2. CASE /\ files' = files \cup {r} /\ Proceed("linked") /\ UNCHANGED <<partials, synced>>
    BY <1>1, <2>2, ProceedKeeps
  <2> QED  BY <1>3, <2>1, <2>2 DEF SaveLink
<1>4. CASE saving.at = "linked" /\ SaveUnlink
  <2>1. CASE /\ partials' = partials \ {r} /\ files' = files \ {r} /\ Refused /\ UNCHANGED synced
    BY <1>1, <2>1, RefusedKeeps
  <2>2. CASE /\ partials' = partials \ {r} /\ Proceed("unlinked") /\ UNCHANGED <<files, synced>>
    BY <1>1, <1>4, <2>2, ProceedKeeps
  <2> QED  BY <1>4, <2>1, <2>2 DEF SaveUnlink
<1>5. CASE saving.at = "unlinked" /\ SaveSync
  <2>1. CASE Late(r)
    BY <1>1, <1>5, <2>1, RefusedKeeps DEF SaveSync
  <2>2. CASE ~Late(r)
    BY <1>1, <1>5, <2>2, AcceptKeeps DEF SaveSync
  <2> QED  BY <2>1, <2>2
<1>6. CASE SaveThrows
  BY <1>1, <1>6, RefusedKeeps DEF SaveThrows
<1> QED  BY <1>2, <1>3, <1>4, <1>5, <1>6 DEF Save

LEMMA RecoverKeeps == Inductive /\ Recover => Inductive'
<1> SUFFICES ASSUME Inductive, Recover PROVE Inductive'
  OBVIOUS
<1>1. /\ saving = None
      /\ UNCHANGED <<mode, now, stage, deadline, verdict, active, saving, diskVars, adrift,
                     storedAt, callVars, faults>>
  BY DEF Recover, Idle
<1>2. PICK last \in files :
         /\ EndsAt(last)
         /\ \E list \in InOrder(Found(last)) :
               queue' = queue \o [i \in DOMAIN list |-> [rec |-> list[i], attempts |-> 0]]
         /\ tracked' = tracked \cup Found(last)
         /\ cursor' = last
  BY DEF Recover, NextCursor
<1> DEFINE F == Found(last)
           n == Cardinality(F)
<1>3. /\ F \subseteq files \ tracked /\ files \subseteq Record /\ F \subseteq Record /\ IsFiniteSet(F)
      /\ n \in Nat /\ n <= Room /\ Load \in Int /\ last \in Record /\ cursor \in Int
  <2>1. F \subseteq files \ tracked /\ files \subseteq Record
    BY DEF Found, Visited, Inductive, Bounds, TypeOK
  <2>2. IsFiniteSet(F)
    BY <2>1, FiniteRecord, FS_Subset
  <2>3. Load \in Int
    BY FS_CardinalityType DEF Inductive, Bounds, TypeOK, Load
  <2>4. n \in Nat /\ n <= Room
    <3>1. n \in Nat /\ Room \in Int
      BY <2>2, <2>3, FS_CardinalityType, SmallNumbers DEF Room
    <3> QED  BY <1>2, <3>1 DEF EndsAt
  <2> QED  BY <2>1, <2>2, <2>3, <2>4, SmallNumbers DEF Inductive, Bounds, TypeOK
<1>4. PICK list \in InOrder(F) :
         queue' = queue \o [i \in DOMAIN list |-> [rec |-> list[i], attempts |-> 0]]
  BY <1>2
<1>5. /\ list \in [1..n -> F] /\ DOMAIN list = 1..n
      /\ \A i, j \in 1..n : i < j => Before(list[i], list[j])
  BY DEF InOrder
<1>6. \A i, j \in 1..n : list[i] = list[j] => i = j
  <2>1. \A x \in Record : ~Before(x, x)
    BY DEF Before, Record
  <2>2. \A i, j \in 1..n : i < j => list[i] # list[j]
    BY <1>3, <1>5, <2>1
  <2> QED  BY <1>3, <2>2
<1>7. list \in [1..n -> Record \ tracked] /\ Load + n <= MaxQueue
  BY <1>3, <1>5, SmallNumbers DEF Room
<1>8. {list[i] : i \in 1..n} \subseteq F
  BY <1>5
<1>9. queue' = queue \o [i \in 1..n |-> [rec |-> list[i], attempts |-> 0]] /\ active' = active
  BY <1>1, <1>4, <1>5
<1> HIDE DEF n, F
<1>10. /\ queue' \in Seq(Job) /\ Load' = Load + n
      /\ Distinct(queue', active') /\ Attempts(queue', active')
      /\ Busy' = Busy \cup {list[i] : i \in 1..n}
  <2>1. Bounds /\ Jobs
    BY DEF Inductive
  <2> QED  BY <1>3, <1>6, <1>7, <1>9, <2>1, AppendEffect
<1>11. tracked' = tracked \cup F /\ Table' = Table
  BY <1>1, <1>2 DEF F, Table
<1>12. Bounds'
  <2>1. Load' <= MaxQueue /\ cursor' \in 0..Records
    BY <1>2, <1>3, <1>7, <1>10, SmallNumbers DEF Record
  <2> QED  BY <1>1, <1>3, <1>10, <1>11, <2>1 DEF Inductive, Bounds, TypeOK, diskVars, callVars
<1>13. Jobs'
  BY <1>1, <1>8, <1>10, <1>11 DEF Inductive, Jobs, callVars
<1>14. Saving' /\ Durable'
  BY <1>1, <1>11 DEF Inductive, Saving, Durable, diskVars, callVars
<1>15. Origins'
  BY <1>1, <1>3, <1>11 DEF Inductive, Origins, diskVars, callVars
<1> QED  BY <1>12, <1>13, <1>14, <1>15 DEF Inductive

\* The steps that leave the jobs, the calls, the files and the table alone.
LEMMA QuietKeeps ==
    ASSUME Inductive,
           UNCHANGED <<mode, tracked, cursor, queue, active, diskVars, adrift, storedAt,
                       callVars, saving>>,
           now' \in 0..MaxTime, faults' \in 0..MaxFaults, deadline' \in Nat,
           stage' \in {"up", "stopping", "closed", "down"},
           saving # None => stage' # "down",
           verdict' \in {"none", "drained", "undrained"}
    PROVE  Inductive'
<1>1. Table' = Table /\ Load' = Load
  BY DEF Table, Load
<1>2. Bounds'
  BY <1>1 DEF Inductive, Bounds, TypeOK, diskVars, callVars
<1>3. Jobs'
  BY <1>1, SameJobs DEF Inductive, callVars
<1>4. Saving' /\ Origins' /\ Durable'
  BY <1>1 DEF Inductive, Saving, Origins, Durable, diskVars, callVars
<1> QED  BY <1>2, <1>3, <1>4 DEF Inductive

LEMMA SignalKeeps == Inductive /\ Signal => Inductive'
<1> SUFFICES ASSUME Inductive, Signal PROVE Inductive'
  OBVIOUS
<1>1. now \in 0..MaxTime /\ faults \in 0..MaxFaults /\ verdict \in {"none", "drained", "undrained"}
  BY DEF Inductive, Bounds, TypeOK
<1>2. faults' \in 0..MaxFaults /\ deadline' \in Nat
  BY <1>1, SmallNumbers DEF Signal
<1> QED  BY <1>1, <1>2, QuietKeeps DEF Signal

LEMMA OtherQuietKeep == Inductive /\ (CloseAdmission \/ Start \/ Tick \/ UNCHANGED vars) => Inductive'
<1> SUFFICES ASSUME Inductive, CloseAdmission \/ Start \/ Tick \/ UNCHANGED vars PROVE Inductive'
  OBVIOUS
<1>1. /\ now \in 0..MaxTime /\ faults \in 0..MaxFaults /\ deadline \in Nat
      /\ verdict \in {"none", "drained", "undrained"}
      /\ stage \in {"up", "stopping", "closed", "down"}
      /\ saving # None => stage # "down"
  BY DEF Inductive, Bounds, TypeOK, Saving
<1>2. CASE CloseAdmission
  BY <1>1, <1>2, QuietKeeps DEF CloseAdmission
<1>3. CASE Start
  BY <1>1, <1>3, QuietKeeps DEF Start
<1>4. CASE Tick
  <2>1. now' \in 0..MaxTime
    BY <1>1, <1>4, SmallNumbers DEF Tick
  <2> QED  BY <1>1, <1>4, <2>1, QuietKeeps DEF Tick, processVars
<1>5. CASE UNCHANGED vars
  BY <1>1, <1>5, QuietKeeps DEF vars, processVars
<1> QED  BY <1>2, <1>3, <1>4, <1>5

\* The end of the process, whatever it leaves on the disk.
LEMMA GoneKeeps ==
    ASSUME Inductive, Gone, verdict' \in {"none", "drained", "undrained"},
           faults' \in 0..MaxFaults,
           files' \subseteq files \cup synced, partials' \subseteq Record, synced' \subseteq Record,
           files' \cup synced' \subseteq {r \in Record : receipt[r] \in Given},
           files \cap synced \subseteq files' \cap synced'
    PROVE  Inductive'
<1>1. /\ stage' = "down" /\ queue' = <<>> /\ active' = {} /\ tracked' = {} /\ cursor' = 0
      /\ saving' = None /\ deadline' = MaxTime + 1
      /\ UNCHANGED <<mode, now, storedAt, forecastAt, receipt>>
      /\ completion' = [r \in Record |-> IF completion[r] = "open" THEN "lost" ELSE completion[r]]
  BY DEF Gone
<1>2. adrift' \subseteq adrift \cup {job.rec : job \in active}
  BY DEF Gone
<1>3. Table' = Table
  BY <1>1 DEF Table
<1>4. {job.rec : job \in active} \subseteq tracked
  BY DEF Inductive, Jobs, Busy, Slotted
<1>5. Load' = 0 /\ IsFiniteSet(active') /\ Cardinality(active') = 0 /\ queue' \in Seq(Job)
  BY <1>1, FS_EmptySet DEF Load
<1>6. Bounds'
  <2>1. files' \subseteq Record /\ adrift' \subseteq Record /\ deadline' \in Nat /\ cursor' \in 0..Records
    BY <1>1, <1>2, <1>4, SmallNumbers DEF Inductive, Bounds, TypeOK
  <2>2. completion' \in [Record -> Log!Completions]
    BY <1>1 DEF Inductive, Bounds, Log!Completions
  <2>3. TypeOK'
    BY <1>1, <1>5, <2>1 DEF Inductive, Bounds, TypeOK
  <2> QED  BY <1>1, <1>5, <2>2, <2>3, SmallNumbers DEF Inductive, Bounds
<1>7. Jobs'
  BY <1>1 DEF Jobs, Distinct, Attempts, Busy, Waiting, Slotted
<1>8. Saving' /\ Durable'
  BY <1>1, <1>3 DEF Inductive, Saving, Durable
<1>9. Origins'
  BY <1>1, <1>2, <1>3, <1>4 DEF Inductive, Origins
<1> QED  BY <1>6, <1>7, <1>8, <1>9 DEF Inductive

LEMMA DownKeeps == Inductive /\ (Exit \/ Crash \/ PowerLoss) => Inductive'
<1> SUFFICES ASSUME Inductive, Exit \/ Crash \/ PowerLoss PROVE Inductive'
  OBVIOUS
<1>1. /\ Gone /\ faults \in 0..MaxFaults /\ verdict \in {"none", "drained", "undrained"}
      /\ files \subseteq Record /\ partials \subseteq Record /\ synced \subseteq Record
      /\ files \cup synced \subseteq {r \in Record : receipt[r] \in Given}
  BY DEF Exit, Crash, PowerLoss, Inductive, Bounds, TypeOK, Origins
<1>2. CASE Exit
  <2>1. verdict' \in {"none", "drained", "undrained"}
    BY <1>2 DEF Exit
  <2> QED  BY <1>1, <1>2, <2>1, GoneKeeps DEF Exit, diskVars
<1>3. ASSUME faults < MaxFaults, faults' = faults + 1
      PROVE  faults' \in 0..MaxFaults
  BY <1>1, <1>3, SmallNumbers
<1>4. CASE Crash
  BY <1>1, <1>3, <1>4, GoneKeeps DEF Crash, diskVars
<1>5. CASE PowerLoss
  <2>1. PICK S \in SUBSET (files \cup synced) :
           files \cap synced \subseteq S /\ files' = S /\ synced' = S
    BY <1>5 DEF PowerLoss
  <2> QED  BY <1>1, <1>3, <1>5, <2>1, GoneKeeps DEF PowerLoss
<1> QED  BY <1>2, <1>4, <1>5

LEMMA NextKeeps == Inductive /\ [Next]_vars => Inductive'
<1> SUFFICES ASSUME Inductive, [Next]_vars PROVE Inductive'
  OBVIOUS
<1>1. CASE \E r \in Record : Ask(r) \/ Land(r)
  BY <1>1, AskKeeps, LandKeeps
<1>2. CASE \E job \in active : Execute(job) \/ Confirm(job) \/ Fail(job) \/ Retry(job)
  BY <1>2, ExecuteKeeps, ConfirmKeeps, FailKeeps, RetryKeeps
<1> QED
  BY <1>1, <1>2, SaveKeeps, PumpKeeps, RecoverKeeps, SignalKeeps, OtherQuietKeep, DownKeeps
  DEF Next, Deliver

LEMMA AlwaysInductive == Spec => []Inductive
BY InitInductive, NextKeeps, PTL DEF Spec

-----------------------------------------------------------------------------
(* The properties.                                                           *)

\* A forecast whose file was accepted is in the spool or in the table at every
\* moment, whatever is refused, lost, retried, switched off or started again.
THEOREM NothingIsLost == Spec => []NothingLost
<1>1. Inductive => NothingLost
  BY DEF Inductive, Durable, NothingLost
<1> QED  BY <1>1, AlwaysInductive, PTL

\* Queue and slots never exceed their limits, whoever fills them.
THEOREM AlwaysWithinBounds == Spec => []WithinBounds
<1>1. Inductive => WithinBounds
  BY DEF Inductive, Bounds, WithinBounds
<1> QED  BY <1>1, AlwaysInductive, PTL

\* A set in which any two elements are equal has one element at most.
LEMMA AtMostOne ==
    ASSUME NEW S, \A x, y \in S : x = y
    PROVE  Cardinality(S) \in {0, 1} /\ (S = {} => Cardinality(S) = 0)
<1>1. CASE S = {}
  BY <1>1, FS_EmptySet
<1>2. CASE S # {}
  <2>1. PICK x : x \in S
    BY <1>2
  <2>2. S = {x}
    BY <2>1
  <2> QED  BY <1>2, <2>2, FS_Singleton
<1> QED  BY <1>1, <1>2

\* No forecast is delivered twice at once: retries, recovery and admission
\* never give it a second job.
THEOREM AlwaysOneJob == Spec => []OneJobPerForecast
<1>1. Inductive => OneJobPerForecast
  <2> SUFFICES ASSUME Inductive, NEW r \in Record
               PROVE  Cardinality({i \in DOMAIN queue : queue[i].rec = r})
                        + Cardinality({job \in active : job.rec = r}) <= 1
    BY DEF OneJobPerForecast
  <2> DEFINE Q == {i \in DOMAIN queue : queue[i].rec = r}
             A == {job \in active : job.rec = r}
  <2>1. (\A i, j \in Q : i = j) /\ (\A x, y \in A : x = y) /\ (Q = {} \/ A = {})
    BY DEF Inductive, Jobs, Distinct, Waiting, Slotted
  <2> HIDE DEF Q, A
  <2>2. /\ Cardinality(Q) \in {0, 1} /\ (Q = {} => Cardinality(Q) = 0)
        /\ Cardinality(A) \in {0, 1} /\ (A = {} => Cardinality(A) = 0)
    BY <2>1, AtMostOne
  <2>3. Cardinality(Q) + Cardinality(A) <= 1
    BY <2>1, <2>2
  <2> QED  BY <2>3 DEF Q, A
<1> QED  BY <1>1, AlwaysInductive, PTL

\* Only the last step of an admission gives the receipt of a file.
LEMMA ReceiptInTime ==
    ASSUME Inductive, [Next]_vars, NEW r \in Record,
           receipt[r] # "accepted", receipt'[r] = "accepted"
    PROVE  now < Kickoff[r]
<1>1. now \in Nat /\ Kickoff[r] \in Nat /\ receipt \in [Record -> Log!Receipts]
  BY SmallNumbers, RecorderAssumption DEF Inductive, Bounds, TypeOK
<1>2. CASE \E s \in Record : Ask(s)
  BY <1>1, <1>2 DEF Ask, RefusedAs
<1>3. CASE Save
  <2>1. ASSUME Refused PROVE FALSE
    BY <1>1, <2>1 DEF Refused
  <2>2. ASSUME NEW step, Proceed(step) PROVE FALSE
    BY <2>2 DEF Proceed
  <2>3. SaveSync /\ ~Late(saving.rec) /\ Accept(saving.rec)
    BY <1>3, <2>1, <2>2 DEF Save, SaveWrite, SaveLink, SaveUnlink, SaveSync, SaveThrows
  <2>4. r = saving.rec
    BY <1>1, <2>3 DEF Accept
  <2> QED  BY <1>1, <2>3, <2>4 DEF Late
<1>4. CASE UNCHANGED receipt
  BY <1>4
<1>5. Deliver => UNCHANGED receipt
  BY DEF Deliver, Execute, Confirm, Fail, Retry, callVars
<1>6. (\E s \in Record : Land(s)) \/ Pump \/ Recover \/ Signal \/ CloseAdmission \/ Start \/ Tick
        => UNCHANGED receipt
  BY DEF Land, Pump, Recover, Signal, CloseAdmission, Start, Tick, callVars
<1>7. Exit \/ Crash \/ PowerLoss => UNCHANGED receipt
  BY DEF Exit, Crash, PowerLoss, Gone
<1> QED  BY <1>2, <1>3, <1>4, <1>5, <1>6, <1>7 DEF Next, vars, callVars

\* Receipts are given and forecasts stored in time, even by a statement that
\* everyone had given up.
THEOREM AlwaysInTime == Spec => InTime
<1>1. Inductive => \A r \in Table : /\ forecastAt[r] < Kickoff[r]
                                    /\ mode = "database" => storedAt[r] < Kickoff[r]
  BY DEF Inductive, Origins, Table
<1>2. Inductive /\ [Next]_vars
        => [\A r \in Record : receipt[r] # "accepted" /\ receipt'[r] = "accepted"
              => now < Kickoff[r]]_vars
  BY ReceiptInTime
<1> QED  BY <1>1, <1>2, AlwaysInductive, PTL DEF Spec, InTime

\* A shutdown that says it is drained has left nothing behind.
LEMMA DrainedStep ==
    ASSUME Inductive, [Next]_vars, verdict # "drained", verdict' = "drained"
    PROVE  /\ \A r \in Record : completion[r] # "open"
           /\ mode = "spool" => \A r \in Record : receipt[r] = "accepted" => r \in Table
<1>1. Exit
  <2>1. Save \/ Pump \/ Deliver \/ Recover \/ Signal \/ CloseAdmission \/ Tick \/ Crash \/ PowerLoss
        \/ (\E r \in Record : Ask(r) \/ Land(r)) \/ UNCHANGED vars => UNCHANGED verdict
    BY DEF Save, SaveUnchanged, Pump, Deliver, Execute, Confirm, Fail, Retry, Recover, Signal,
           CloseAdmission, Tick, Crash, PowerLoss, Ask, Land, vars, processVars
  <2>2. Start => verdict' = "none"
    BY DEF Start
  <2> QED  BY <2>1, <2>2 DEF Next
<1>2. Settled /\ (mode = "database" \/ SpoolCount = 0)
  BY <1>1 DEF Exit
<1>3. Busy = {}
  BY <1>2 DEF Settled, Busy, Waiting, Slotted
<1>4. ASSUME mode = "spool"
      PROVE  files = {}
  <2>1. IsFiniteSet(Record) /\ files \subseteq Record /\ partials \subseteq Record
    BY FiniteRecord DEF Inductive, Bounds, TypeOK
  <2>2. IsFiniteSet(files) /\ IsFiniteSet(partials)
    BY <2>1, FS_Subset
  <2>3. Cardinality(files) \in Nat /\ Cardinality(partials) \in Nat
    BY <2>2, FS_CardinalityType
  <2>4. Cardinality(files) = 0
    BY <1>2, <1>4, <2>3 DEF SpoolCount
  <2> QED  BY <2>2, <2>4, FS_EmptySet
<1>5. \A r \in Record : completion[r] # "open"
  BY <1>3 DEF Inductive, Jobs
<1> QED  BY <1>4, <1>5 DEF Inductive, Durable

THEOREM DrainIsAlwaysTrue == Spec => DrainIsTrue
<1>1. Inductive /\ [Next]_vars
        => [verdict # "drained" /\ verdict' = "drained"
              => /\ \A r \in Record : completion[r] # "open"
                 /\ mode = "spool" => \A r \in Record : receipt[r] = "accepted" => r \in Table]_vars
  BY DrainedStep
<1> QED  BY <1>1, AlwaysInductive, PTL DEF Spec, DrainIsTrue

-----------------------------------------------------------------------------
(* Refinement: every step of the recorder is one of the log, or stutters.    *)

LEMMA InsertIsStore ==
    ASSUME Inductive, NEW r \in Record, receipt[r] \in Given,
           storedAt' \in {storedAt, Inserted(r)}, UNCHANGED <<receipt, completion>>
    PROVE  Log!Store(r) \/ UNCHANGED Log!logVars
<1>1. CASE storedAt' = storedAt
  BY <1>1 DEF Log!logVars, Table
<1>2. CASE storedAt' = Inserted(r)
  <2>1. Table \subseteq Table' /\ Table' \subseteq Table \cup {r}
    BY <1>2, InsertEffect DEF Inductive
  <2> QED  BY <2>1 DEF Log!logVars, Log!Store, Given
<1> QED  BY <1>1, <1>2

LEMMA AskIsOffer ==
    ASSUME Inductive, NEW r \in Record, Ask(r)
    PROVE  Log!Offer(r)
<1>1. Table' = Table /\ receipt[r] = "none"
  BY DEF Ask, Table
<1>2. RefusedAs(r) # "no" => RefusedAs(r) \in Log!Refusals
  BY DEF RefusedAs, Log!Refusals
<1>3. CASE RefusedAs(r) # "no" /\ receipt' = [receipt EXCEPT ![r] = RefusedAs(r)]
           /\ UNCHANGED completion
  BY <1>1, <1>2, <1>3 DEF Log!Offer
<1>4. CASE receipt' = [receipt EXCEPT ![r] = "pending"] /\ Enqueue(r)
  BY <1>1, <1>4 DEF Log!Offer, Enqueue
<1>5. CASE receipt' = [receipt EXCEPT ![r] = "asked"] /\ UNCHANGED completion
  BY <1>1, <1>5 DEF Log!Offer
<1> QED  BY <1>3, <1>4, <1>5 DEF Ask

LEMMA SaveIsReply ==
    ASSUME Inductive, Save
    PROVE  Log!Reply(saving.rec) \/ UNCHANGED Log!logVars
<1>1. Table' = Table /\ receipt[saving.rec] = "asked"
  BY DEF Save, SaveUnchanged, Table, Inductive, Saving
<1>2. CASE Refused
  BY <1>1, <1>2 DEF Refused, Log!Reply
<1>3. CASE Accept(saving.rec)
  BY <1>1, <1>3 DEF Accept, Enqueue, Log!Reply
<1>4. CASE \E step \in {"written", "linked", "unlinked"} : Proceed(step)
  BY <1>1, <1>4 DEF Proceed, Log!logVars
<1> QED
  BY <1>2, <1>3, <1>4 DEF Save, SaveWrite, SaveLink, SaveUnlink, SaveSync, SaveThrows

LEMMA AnswerIsResolve ==
    ASSUME Inductive, NEW job \in active, Confirm(job) \/ Fail(job) \/ Retry(job)
    PROVE  Log!Resolve(job.rec) \/ UNCHANGED Log!logVars
<1>1. Table' = Table /\ receipt' = receipt
  BY DEF Confirm, Fail, Retry, Table, callVars
<1>2. CASE Confirm(job)
  <2>1. job.rec \in Table /\ Resolved(job.rec, "stored")
    BY <1>2 DEF Confirm, Inductive, Jobs
  <2> QED  BY <1>1, <2>1 DEF Resolved, Log!Resolve, Log!logVars
<1>3. CASE Fail(job)
  <2>1. UNCHANGED completion \/ Resolved(job.rec, "unconfirmed")
    BY <1>3 DEF Fail
  <2> QED  BY <1>1, <2>1 DEF Resolved, Log!Resolve, Log!logVars
<1>4. CASE Retry(job)
  BY <1>1, <1>4 DEF Retry, callVars, Log!logVars
<1> QED  BY <1>2, <1>3, <1>4

LEMMA StepIsLogged == Inductive /\ [Next]_vars => [Log!LogNext]_Log!logVars
<1> SUFFICES ASSUME Inductive, [Next]_vars
             PROVE  Log!LogNext \/ UNCHANGED Log!logVars
  OBVIOUS
<1>1. ASSUME NEW r \in Record, Ask(r) \/ Land(r)
      PROVE  Log!LogNext \/ UNCHANGED Log!logVars
  <2>1. CASE Ask(r)
    BY <2>1, AskIsOffer DEF Log!LogNext
  <2>2. CASE Land(r)
    <3>1. receipt[r] \in Given
      BY <2>2 DEF Land, Inductive, Origins
    <3>2. Log!Store(r) \/ UNCHANGED Log!logVars
      BY <2>2, <3>1, InsertIsStore DEF Land, callVars
    <3> QED  BY <3>2 DEF Log!LogNext
  <2> QED  BY <1>1, <2>1, <2>2
<1>2. CASE Save
  <2>1. saving.rec \in Record
    BY <1>2 DEF Save, Inductive, Bounds, TypeOK, Saves
  <2> QED  BY <1>2, <2>1, SaveIsReply DEF Log!LogNext
<1>3. ASSUME NEW job \in active, Execute(job) \/ Confirm(job) \/ Fail(job) \/ Retry(job)
      PROVE  Log!LogNext \/ UNCHANGED Log!logVars
  <2>1. job.rec \in Record /\ receipt[job.rec] \in Given
    BY DEF Inductive, Bounds, TypeOK, Slot, Jobs, Busy, Slotted, Origins
  <2>2. CASE Execute(job)
    <3>1. Log!Store(job.rec) \/ UNCHANGED Log!logVars
      BY <2>1, <2>2, InsertIsStore DEF Execute, callVars
    <3> QED  BY <2>1, <3>1 DEF Log!LogNext
  <2>3. CASE Confirm(job) \/ Fail(job) \/ Retry(job)
    BY <2>1, <2>3, AnswerIsResolve DEF Log!LogNext
  <2> QED  BY <1>3, <2>2, <2>3
<1>4. CASE Exit \/ Crash \/ PowerLoss
  <2>1. Gone
    BY <1>4 DEF Exit, Crash, PowerLoss
  <2>2. Log!Forget(Record)
    BY <2>1 DEF Gone, Log!Forget, Table
  <2> QED  BY <2>2 DEF Log!LogNext
<1>5. CASE Pump \/ Recover \/ Signal \/ CloseAdmission \/ Start \/ Tick \/ UNCHANGED vars
  BY <1>5 DEF Pump, Recover, Signal, CloseAdmission, Start, Tick, vars, callVars, Table, Log!logVars
<1> QED  BY <1>1, <1>2, <1>3, <1>4, <1>5 DEF Next, Deliver

\* The recorder implements the log its callers rely on: whatever happens to the
\* process, they see receipts, completions and a table that only grows.
THEOREM RecorderIsLog == Spec => IsLog
<1>1. Init => Log!LogInit
  BY DEF Init, Log!LogInit, Table
<1>2. Inductive /\ [Next]_vars => [Log!LogNext]_Log!logVars
  BY StepIsLogged
<1> QED  BY <1>1, <1>2, AlwaysInductive, PTL DEF Spec, IsLog, Log!LogSpec
==============================================================================
