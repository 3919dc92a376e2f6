------------------------ MODULE ProspectiveRecorder ------------------------
(* The recorder of the prospective forecasts of model A: one process with a    *)
(* bounded queue, a few deliveries at a time, and, in the mode "spool", one    *)
(* fsynced file per forecast that outlives the process.                        *)
(*                                                                             *)
(* JavaScript runs one callback at a time, so an action is a callback.  Only   *)
(* the admission of a file is cut into steps: its calls block the process, but *)
(* the clock, the database and a fault do not wait for them.                   *)
EXTENDS Integers, Sequences, FiniteSets

CONSTANTS Records,        \* number of forecasts; their identifiers are 1..Records
          Kickoff,        \* their kickoffs
          Conflicting,    \* those the table refuses for ever
          Modes,          \* of MODEL_A_PROSPECTIVE_STORAGE: "spool", "database"
          MaxQueue, MaxConcurrent, MaxAttempts,
          SpoolLimit,     \* files admitted in the spool
          RetryMargin,    \* a retry starts only this long before the kickoff
          ShutdownMs,     \* time a signalled process gives its work
          None,
          MaxTime, MaxFaults   \* bounds of the exploration

Record == 1..Records
Never == -1

ASSUME RecorderAssumption ==
    /\ {Records, MaxQueue, MaxConcurrent, MaxAttempts, SpoolLimit} \subseteq Nat \ {0}
    /\ {RetryMargin, ShutdownMs, MaxTime, MaxFaults} \subseteq Nat
    /\ Kickoff \in [Record -> Nat]
    /\ Conflicting \subseteq Record
    /\ Modes \subseteq {"spool", "database"}

VARIABLES
    mode,        \* of the installation
    now,
    stage,       \* of the process: "up", "stopping", "closed", "down"
    deadline,    \* admissionDeadline
    queue,       \* jobs that wait for a slot
    active,      \* jobs that hold one
    tracked,     \* identifiers with a job, which recovery skips
    cursor,      \* recoveryCursor
    saving,      \* the admission of a file in progress
    files,       \* <id>.json
    partials,    \* <id>.json.partial
    synced,      \* the files the last directory sync has made durable
    adrift,      \* inserts nobody waits for, still on their way
    storedAt,    \* the table, with the time of the insert
    forecastAt,
    receipt, completion,
    verdict,     \* what the last shutdown logged
    faults

diskVars == <<files, partials, synced>>
callVars == <<forecastAt, receipt, completion>>
processVars == <<stage, deadline, tracked, cursor, verdict>>
vars == <<mode, now, processVars, queue, active, saving, diskVars, adrift, storedAt,
          callVars, faults>>

Table == {r \in Record : storedAt[r] # Never}
Job == [rec : Record, attempts : 0..MaxAttempts]
Slot == [rec : Record, attempts : 1..MaxAttempts, at : {"sent", "done", "refused", "waiting"}]
Saves == [rec : Record, at : {"open", "written", "linked", "unlinked"}]

Init ==
    /\ mode \in Modes
    /\ now = 0 /\ faults = 0
    /\ stage = "up" /\ deadline = MaxTime + 1 /\ verdict = "none"
    /\ queue = <<>> /\ active = {} /\ tracked = {} /\ cursor = 0 /\ saving = None
    /\ files = {} /\ partials = {} /\ synced = {}
    /\ adrift = {} /\ storedAt = [r \in Record |-> Never]
    /\ forecastAt = [r \in Record |-> Never]
    /\ receipt = [r \in Record |-> "none"]
    /\ completion = [r \in Record |-> "none"]

-----------------------------------------------------------------------------
(* The queue.                                                                *)

Load == Len(queue) + Cardinality(active)
Idle == saving = None        \* no callback is in the middle of its file calls
Running == stage # "down" /\ Idle

\* pump: jobs take the free slots, in order.
\* A job that waits for its retry keeps its slot.
Least(x, y) == IF x < y THEN x ELSE y
TakenBesideWaiting(q, a) ==
    Least(Len(q), MaxConcurrent - Cardinality({job \in a : job.at # "waiting"}))
Taken(q, a) == Least(Len(q), MaxConcurrent - Cardinality(a))
Sent(job) == [rec |-> job.rec, attempts |-> job.attempts + 1, at |-> "sent"]
Pumped(q, a) ==
    /\ queue' = SubSeq(q, Taken(q, a) + 1, Len(q))
    /\ active' = a \cup {Sent(q[i]) : i \in 1..Taken(q, a)}

\* The callback of setImmediate.
Pump ==
    /\ Running
    /\ Taken(queue, active) > 0
    /\ Pumped(queue, active)
    /\ UNCHANGED <<mode, now, processVars, saving, diskVars, adrift, storedAt, callVars, faults>>

\* A job leaves its slot; its identifier is forgotten unless it waits again.
UntrackAlways(r, q) == tracked' = tracked \ {r}
Untrack(r, q) == tracked' = IF \E i \in DOMAIN q : q[i].rec = r THEN tracked ELSE tracked \ {r}
Leave(job, q) == Untrack(job.rec, q) /\ Pumped(q, active \ {job})

ResolvedAgain(r, outcome) == completion' = [completion EXCEPT ![r] = outcome]
Resolved(r, outcome) ==
    completion' = IF completion[r] = "open" THEN [completion EXCEPT ![r] = outcome]
                                            ELSE completion

\* INSERT OR IGNORE ... WHERE durable OR before the kickoff.
InsertableEver(r) == r \notin Conflicting
Insertable(r) == r \notin Conflicting /\ (mode = "spool" \/ now < Kickoff[r])
Inserted(r) == IF Insertable(r) /\ r \notin Table THEN [storedAt EXCEPT ![r] = now] ELSE storedAt

\* An ignored insert is a success only if the row that is there is the same.
OutcomeIgnored(r) == "done"
Outcome(r) == IF r \in Table \/ Insertable(r) THEN "done" ELSE "refused"

\* The database runs the insert of a waiting job; the job is answered later.
Execute(job) ==
    /\ job.at = "sent"
    /\ storedAt' = Inserted(job.rec)
    /\ active' = (active \ {job}) \cup {[job EXCEPT !.at = Outcome(job.rec)]}
    /\ UNCHANGED <<mode, now, processVars, queue, saving, diskVars, adrift, callVars, faults>>

\* removeSpool: the unlink may fail, and so may the sync of the directory after it.
RemoveFile(r) ==
    \/ files' = files \ {r} /\ synced' \in {files', synced}
    \/ UNCHANGED <<files, synced>>

Confirm(job) ==
    /\ Running
    /\ job.at = "done"
    /\ Resolved(job.rec, "stored")
    /\ RemoveFile(job.rec)
    /\ Leave(job, queue)
    /\ UNCHANGED <<mode, now, stage, deadline, cursor, verdict, saving, partials, adrift,
                   storedAt, forecastAt, receipt, faults>>

\* The job hears of an error: the answer was lost, the statement still is on its
\* way, or the table refused it.  It waits in its slot for a retry or gives up.
CanRetry(job) == job.attempts < MaxAttempts /\ now + RetryMargin < Kickoff[job.rec]
Fail(job) ==
    /\ Running
    /\ job.at \in {"sent", "done", "refused"}
    /\ \/ UNCHANGED adrift
       \/ job.at = "sent" /\ adrift' = adrift \cup {job.rec}
    /\ \/ /\ CanRetry(job)
          /\ active' = (active \ {job}) \cup {[job EXCEPT !.at = "waiting"]}
          /\ UNCHANGED <<queue, tracked, completion>>
       \/ /\ ~CanRetry(job)
          /\ Resolved(job.rec, "unconfirmed")
          /\ Leave(job, queue)
    /\ UNCHANGED <<mode, now, stage, deadline, cursor, verdict, saving, diskVars, storedAt,
                   forecastAt, receipt, faults>>

\* The timer of a retry: the job returns to the queue and its slot is free.
Requeued(job) == Append(queue, [rec |-> job.rec, attempts |-> job.attempts])
Retry(job) ==
    /\ Running
    /\ job.at = "waiting"
    /\ Leave(job, Requeued(job))
    /\ UNCHANGED <<mode, now, stage, deadline, cursor, verdict, saving, diskVars, adrift,
                   storedAt, callVars, faults>>

\* A statement nobody waits for reaches the database, or never does.
Land(r) ==
    /\ r \in adrift
    /\ adrift' = adrift \ {r}
    /\ storedAt' \in {storedAt, Inserted(r)}
    /\ UNCHANGED <<mode, now, processVars, queue, active, saving, diskVars, callVars, faults>>

-----------------------------------------------------------------------------
(* scheduleModelAProspective and persistSpool.                               *)

AdmissionOpen == stage \in {"up", "stopping"} /\ now < deadline
SpoolCount == Cardinality(files) + Cardinality(partials)
RefusedAs(r) ==
    IF ~AdmissionOpen THEN "rejected"
    ELSE IF now >= Kickoff[r] THEN "ineligible"
    ELSE IF Load >= MaxQueue \/ (mode = "spool" /\ SpoolCount >= SpoolLimit) THEN "rejected"
    ELSE "no"

Enqueue(r) ==
    /\ queue' = Append(queue, [rec |-> r, attempts |-> 0])
    /\ tracked' = tracked \cup {r}
    /\ completion' = [completion EXCEPT ![r] = "open"]

Ask(r) ==
    /\ Running
    /\ receipt[r] = "none"
    /\ \/ /\ RefusedAs(r) # "no"
          /\ receipt' = [receipt EXCEPT ![r] = RefusedAs(r)]
          /\ UNCHANGED <<queue, tracked, saving, completion, forecastAt>>
       \/ /\ RefusedAs(r) = "no" /\ mode = "database"
          /\ receipt' = [receipt EXCEPT ![r] = "pending"]
          /\ forecastAt' = [forecastAt EXCEPT ![r] = now]
          /\ Enqueue(r)
          /\ UNCHANGED saving
       \/ /\ RefusedAs(r) = "no" /\ mode = "spool"
          /\ receipt' = [receipt EXCEPT ![r] = "asked"]
          /\ forecastAt' = [forecastAt EXCEPT ![r] = now]
          /\ saving' = [rec |-> r, at |-> "open"]
          /\ UNCHANGED <<queue, tracked, completion>>
    /\ UNCHANGED <<mode, now, stage, deadline, cursor, verdict, active, diskVars, adrift,
                   storedAt, faults>>

Late(r) == now >= Kickoff[r]
SaveUnchanged == UNCHANGED <<mode, now, stage, deadline, cursor, verdict, active, adrift,
                             storedAt, forecastAt, faults>>
Refused == /\ saving' = None
           /\ receipt' = [receipt EXCEPT ![saving.rec] = "error"]
           /\ UNCHANGED <<queue, tracked, completion>>
Proceed(step) == /\ saving' = [saving EXCEPT !.at = step]
                 /\ UNCHANGED <<queue, tracked, receipt, completion>>

\* openSync, writeFileSync, fsyncSync.
SaveWrite ==
    /\ partials' = partials \cup {saving.rec}
    /\ Proceed("written")
    /\ UNCHANGED <<files, synced>>

\* The first look at the clock, then linkSync.
SaveLink ==
    \/ /\ Late(saving.rec)
       /\ partials' = partials \ {saving.rec}
       /\ Refused
       /\ UNCHANGED <<files, synced>>
    \/ /\ ~Late(saving.rec)
       /\ files' = files \cup {saving.rec}
       /\ Proceed("linked")
       /\ UNCHANGED <<partials, synced>>

\* The temporary name goes; the second look.
SaveUnlink ==
    /\ partials' = partials \ {saving.rec}
    /\ \/ Late(saving.rec) /\ files' = files \ {saving.rec} /\ Refused
       \/ ~Late(saving.rec) /\ Proceed("unlinked") /\ UNCHANGED files
    /\ UNCHANGED synced

\* syncDirectory, the third look, and the receipt.
Accept(r) == /\ saving' = None
             /\ receipt' = [receipt EXCEPT ![r] = "accepted"]
             /\ Enqueue(r)
SaveSync ==
    /\ files' = IF Late(saving.rec) THEN files \ {saving.rec} ELSE files
    /\ synced' = files'
    /\ IF Late(saving.rec) THEN Refused ELSE Accept(saving.rec)
    /\ UNCHANGED partials

\* A file call throws: what it has left on the disk stays there.
SaveThrows ==
    /\ Refused
    /\ UNCHANGED <<files, synced>>
    /\ \/ UNCHANGED partials
       \/ saving.at = "open" /\ partials' = partials \cup {saving.rec}

Save ==
    /\ saving # None
    /\ \/ saving.at = "open" /\ SaveWrite
       \/ saving.at = "written" /\ SaveLink
       \/ saving.at = "linked" /\ SaveUnlink
       \/ saving.at = "unlinked" /\ SaveSync
       \/ SaveThrows
    /\ SaveUnchanged

-----------------------------------------------------------------------------
(* recoverModelAProspective: files nobody tracks return to the queue, from   *)
(* the one after the last visited, as many as the queue has room for.        *)

Room == MaxQueue - Load
Before(r, s) == IF (r > cursor) = (s > cursor) THEN r < s ELSE r > cursor
Visited(last) == {r \in files : r = last \/ Before(r, last)}
Found(last) == Visited(last) \ tracked

\* The round ends at the file that takes the last place, or after all files.
EndsAt(last) ==
    \/ Cardinality(Found(last)) = Room /\ last \notin tracked
    \/ Cardinality(Found(last)) < Room /\ Visited(last) = files
InOrder(S) ==
    {list \in [1..Cardinality(S) -> S] : \A i, j \in DOMAIN list : i < j => Before(list[i], list[j])}
NextCursorStart(last) == 0
NextCursor(last) == last

Recover ==
    /\ stage = "up" /\ Idle
    /\ mode = "spool" /\ Room > 0
    /\ \E last \in files :
          /\ EndsAt(last)
          /\ \E list \in InOrder(Found(last)) :
                queue' = queue \o [i \in DOMAIN list |-> [rec |-> list[i], attempts |-> 0]]
          /\ tracked' = tracked \cup Found(last)
          /\ cursor' = NextCursor(last)
    /\ UNCHANGED <<mode, now, stage, deadline, verdict, active, saving, diskVars, adrift,
                   storedAt, callVars, faults>>

-----------------------------------------------------------------------------
(* Shutdown, faults and restart.                                             *)

\* SIGTERM or SIGINT: recovery stops, admission gets a deadline.
Signal ==
    /\ stage = "up" /\ Idle /\ faults < MaxFaults
    /\ stage' = "stopping" /\ faults' = faults + 1
    /\ deadline' = now + ShutdownMs
    /\ UNCHANGED <<mode, now, tracked, cursor, verdict, queue, active, saving, diskVars, adrift,
                   storedAt, callVars>>

\* The server has closed, or its time is over.
CloseAdmission ==
    /\ stage = "stopping" /\ Idle
    /\ stage' = "closed"
    /\ UNCHANGED <<mode, now, deadline, tracked, cursor, verdict, queue, active, saving, diskVars,
                   adrift, storedAt, callVars, faults>>

\* The process is gone: its memory, its promises, and the answers it waited for.
Gone ==
    /\ stage' = "down"
    /\ queue' = <<>> /\ active' = {} /\ tracked' = {} /\ cursor' = 0 /\ saving' = None
    /\ deadline' = MaxTime + 1
    /\ \E S \in SUBSET {job.rec : job \in {j \in active : j.at = "sent"}} :
          adrift' = adrift \cup S
    /\ completion' = [r \in Record |-> IF completion[r] = "open" THEN "lost" ELSE completion[r]]
    /\ UNCHANGED <<mode, now, storedAt, forecastAt, receipt>>

\* drainModelAProspective, then process.exit.
SettledSlots == active = {}
Settled == queue = <<>> /\ active = {}
Exit ==
    /\ stage = "closed" /\ Idle
    /\ \/ Settled /\ verdict' = IF mode = "database" \/ SpoolCount = 0 THEN "drained" ELSE "undrained"
       \/ ~Settled /\ now >= deadline /\ verdict' = "undrained"
    /\ Gone
    /\ UNCHANGED <<diskVars, faults>>

Crash ==
    /\ stage # "down" /\ faults < MaxFaults
    /\ faults' = faults + 1
    /\ Gone
    /\ UNCHANGED <<diskVars, verdict>>

\* The machine loses power: directory entries not yet synced may or may not survive.
PowerLoss ==
    /\ stage # "down" /\ faults < MaxFaults /\ files # synced
    /\ faults' = faults + 1
    /\ \E S \in SUBSET (files \cup synced) : files \cap synced \subseteq S /\ files' = S /\ synced' = S
    /\ Gone
    /\ UNCHANGED <<partials, verdict>>

Start ==
    /\ stage = "down"
    /\ stage' = "up" /\ verdict' = "none"
    /\ UNCHANGED <<mode, now, deadline, tracked, cursor, queue, active, saving, diskVars, adrift,
                   storedAt, callVars, faults>>

Tick ==
    /\ now < MaxTime
    /\ now' = now + 1
    /\ UNCHANGED <<mode, processVars, queue, active, saving, diskVars, adrift, storedAt, callVars, faults>>

-----------------------------------------------------------------------------
Deliver == \E job \in active : Execute(job) \/ Confirm(job) \/ Fail(job) \/ Retry(job)

Next ==
    \/ \E r \in Record : Ask(r) \/ Land(r)
    \/ Save \/ Pump \/ Deliver \/ Recover
    \/ Signal \/ CloseAdmission \/ Exit \/ Crash \/ PowerLoss \/ Start
    \/ Tick

Spec == Init /\ [][Next]_vars

\* The event loop never sits before something it can run, a stopped process is
\* started again, the recovery timer finds room now and then, and the database,
\* asked for ever, runs a statement and has its answer heard.
Loop == \/ Save \/ Pump \/ CloseAdmission \/ Exit \/ Start
        \/ \E job \in active : Confirm(job) \/ Fail(job) \/ Retry(job)
ExecuteOf(r) == \E job \in active : job.rec = r /\ Execute(job)
ConfirmOf(r) == \E job \in active : job.rec = r /\ Confirm(job)
Fairness ==
    /\ WF_vars(Loop) /\ SF_vars(Recover)
    /\ \A r \in Record \ Conflicting : SF_vars(ExecuteOf(r)) /\ SF_vars(ConfirmOf(r))
FairSpec == Spec /\ Fairness

-----------------------------------------------------------------------------
(* Properties.                                                               *)

TypeOK ==
    /\ mode \in Modes /\ now \in 0..MaxTime /\ faults \in 0..MaxFaults
    /\ stage \in {"up", "stopping", "closed", "down"} /\ deadline \in Nat
    /\ queue \in Seq(Job) /\ active \subseteq Slot
    /\ tracked \subseteq Record /\ cursor \in 0..Records
    /\ saving \in Saves \cup {None}
    /\ files \subseteq Record /\ partials \subseteq Record /\ synced \subseteq Record
    /\ adrift \subseteq Record
    /\ {storedAt, forecastAt} \subseteq [Record -> 0..MaxTime \cup {Never}]
    /\ verdict \in {"none", "drained", "undrained"}

\* A forecast whose file was accepted is in the spool or in the table at every
\* moment, whatever the process, the machine and the database do.
NothingLost ==
    \A r \in Record : receipt[r] = "accepted" => r \in files \cup Table

\* The bounds of the queue and of the deliveries hold while retries, recovery and
\* admission all feed the same queue, and so do the types.
WithinBounds == TypeOK /\ Load <= MaxQueue /\ Cardinality(active) <= MaxConcurrent

\* A forecast has one job at most: recovery does not deliver what a retry delivers.
OneJobPerForecast ==
    \A r \in Record :
       Cardinality({i \in DOMAIN queue : queue[i].rec = r})
         + Cardinality({job \in active : job.rec = r}) <= 1

\* A receipt is given before the kickoff, however long the disk took.  The table holds
\* no forecast made after its kickoff, and in the mode "database" none that arrived
\* after it, even from a statement everyone had given up.
InTime ==
    /\ [](\A r \in Table : /\ forecastAt[r] < Kickoff[r]
                           /\ mode = "database" => storedAt[r] < Kickoff[r])
    /\ [][\A r \in Record : receipt[r] # "accepted" /\ receipt'[r] = "accepted"
                              => now < Kickoff[r]]_vars

\* A shutdown that reports itself drained leaves nobody waiting for a completion,
\* and in the mode "spool" every accepted forecast in the table.
DrainIsTrue ==
    [][verdict # "drained" /\ verdict' = "drained"
         => /\ \A r \in Record : completion[r] # "open"
            /\ mode = "spool" => \A r \in Record : receipt[r] = "accepted" => r \in Table]_vars

\* What the collector relies on: see ForecastLog.
Log == INSTANCE ForecastLog WITH Record <- Record, table <- Table
IsLog == Log!LogSpec

\* An accepted forecast reaches the table in the end, whatever the faults, and
\* although others that the table refuses compete with it for the queue.
AcceptedEndsStored ==
    \A r \in Record \ Conflicting : receipt[r] = "accepted" ~> r \in Table
=============================================================================
