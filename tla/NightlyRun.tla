------------------------------ MODULE NightlyRun ------------------------------
(***************************************************************************)
(* The nightly decision run: attempts of a scheduled workflow, which may   *)
(* overlap, die or be retried under the same run identity, claim one lease *)
(* for the run and one for each fixture, prepare the decisions outside any *)
(* transaction while a timer renews the leases, and record them in one     *)
(* transaction.  An attempt's lease token is the attempt itself, a job is  *)
(* known by its match (match_id is unique), and the two families' decisions*)
(* on a match are one input, with or without a bet.                        *)
(***************************************************************************)
EXTENDS Integers, FiniteSetsExt

CONSTANTS
  Attempt,      \* executions of runResearchNightly
  Run,          \* run identities: GITHUB_RUN_ID, or the scheduled day
  RunOf,        \* the identity that an attempt was started with
  Match,        \* fixtures of the top five competitions
  Kickoffs,     \* instants a fixture may be scheduled for
  None,         \* no row
  Window,       \* windowHours: how long a run may decide
  Lease,        \* leaseMs
  MaxTime,      \* bound: the last instant of the clock
  MaxChanges    \* bound: changes of a kickoff

RunRow == [status : {"RUNNING", "COMPLETED", "ERROR"}, holder : Attempt,
           expires : Nat, ends : Nat, registered : Nat]
JobRow == [status : {"PENDING", "CLAIMED", "COMPLETED", "MISSED", "SKIPPED"},
           holder : Attempt, expires : Nat, kickoff : Nat, run : Run]

ASSUME NightlyAssumption ==
  /\ RunOf \in [Attempt -> Run]
  /\ Window \in Nat \ {0} /\ Lease \in Nat \ {0}
  /\ MaxTime \in Nat /\ MaxChanges \in Nat /\ Kickoffs \subseteq Nat
  /\ IsFiniteSet(Match)
  /\ None \notin Attempt \union RunRow \union JobRow

VARIABLES
  now,        \* the clock, the same for every process and the database
  kickoff,    \* matches.date
  played,     \* matches with goals
  changes,    \* changes of kickoff so far
  staked,     \* matches with a bet of another writer in research_bets
  runs,       \* research_nightly_runs
  jobs,       \* research_jobs with their research_nightly_jobs row
  inputs,     \* research_inputs, with the bets of their decisions
  phase,      \* by attempt, where runResearchNightly is
  mem         \* by attempt, what it keeps in memory
fixtures == <<now, kickoff, played, changes>>
tables == <<staked, runs, jobs, inputs>>
vars == <<fixtures, tables, phase, mem>>

Phases == {"waiting", "listed", "working", "committing", "reporting", "finishing", "ended"}
Input == [match : Match, holder : Attempt, bet : BOOLEAN]

(* windowEndAt, the fixtures read with their kickoffs, the jobs still to   *)
(* prepare and the one in preparation, the prepared and the admissible     *)
(* ones, summary.errors > 0, leaseLost and summary.registeredBets.         *)
Memory == [ends : Nat, listed : UNION {[M -> Kickoffs] : M \in SUBSET Match},
           todo : SUBSET Match, doing : SUBSET Match, ready : SUBSET Match,
           chosen : SUBSET Match, failed : BOOLEAN, lost : BOOLEAN, count : Nat]
Blank == [ends |-> 0, listed |-> [m \in {} |-> 0], todo |-> {}, doing |-> {}, ready |-> {},
          chosen |-> {}, failed |-> FALSE, lost |-> FALSE, count |-> 0]

Earlier(s, t) == IF s < t THEN s ELSE t
(* nightlyLeaseExpiry; mutant: the lease lasts as long as the window. *)
LeaseEndOfWindow(end) == end
LeaseEnd(end) == Earlier(end, now + Lease)

(* One write transaction at a time.  Only a commit lasts: it reads, decides *)
(* and writes while the clock goes on.                                      *)
Unlocked == \A a \in Attempt : phase[a] # "committing"

Recorded(m) == \E i \in inputs : i.match = m
Active(r) == runs[r] # None /\ runs[r].status = "RUNNING" /\ now < runs[r].expires

(* assertNightlyRunLease *)
HoldsRun(a) == /\ runs[RunOf[a]] # None /\ runs[RunOf[a]].status = "RUNNING"
               /\ runs[RunOf[a]].holder = a
               /\ now < runs[RunOf[a]].expires /\ now < runs[RunOf[a]].ends
(* assertCommitWindow of a nightly job *)
HoldsJob(a, m) ==
  /\ jobs[m].status = "CLAIMED" /\ jobs[m].holder = a /\ now < jobs[m].expires
  /\ now < jobs[m].kickoff /\ now < runs[jobs[m].run].ends

-----------------------------------------------------------------------------
(* The beginning of an attempt. *)

(* It reads the row of its run, whose window it keeps, and the fixtures.   *)
List(a) ==
  /\ phase[a] = "waiting"
  /\ LET r == RunOf[a]
         end == IF runs[r] = None THEN now + Window ELSE runs[r].ends
         upcoming == {m \in Match : now <= kickoff[m] /\ kickoff[m] <= end /\ m \notin played}
     IN mem' = [mem EXCEPT ![a] = [@ EXCEPT !.ends = end, !.listed = [m \in upcoming |-> kickoff[m]]]]
  /\ phase' = [phase EXCEPT ![a] = "listed"]
  /\ UNCHANGED <<fixtures, tables>>

(* The run is another window's, completed, busy, or closed. *)
Refused(a) ==
  LET r == RunOf[a]
  IN \/ runs[r] # None /\ (runs[r].ends # mem[a].ends \/ runs[r].status = "COMPLETED")
     \/ \E q \in Run : Active(q)
     \/ mem[a].ends <= now

Unclaimed(m) == ~(jobs[m] # None /\ jobs[m].status = "CLAIMED" /\ now < jobs[m].expires)
(* Mutant: fixtures are claimed again after their decision. *)
ClaimableAgain(a, m) ==
  /\ m \in DOMAIN mem[a].listed /\ now < mem[a].listed[m]
  /\ m \notin staked /\ Unclaimed(m)
Claimable(a, m) ==
  /\ m \in DOMAIN mem[a].listed /\ now < mem[a].listed[m]
  /\ ~Recorded(m) /\ m \notin staked /\ Unclaimed(m)

(* Mutant: the job's lease ends at the kickoff, whatever the run's does. *)
ClaimedUntilKickoff(a, m) ==
  [status |-> "CLAIMED", holder |-> a, run |-> RunOf[a], kickoff |-> mem[a].listed[m],
   expires |-> mem[a].listed[m]]
ClaimedJob(a, m) ==
  [status |-> "CLAIMED", holder |-> a, run |-> RunOf[a], kickoff |-> mem[a].listed[m],
   expires |-> Earlier(LeaseEnd(mem[a].ends), mem[a].listed[m])]

(* claimNightlyBatch *)
Claim(a) ==
  /\ phase[a] = "listed" /\ Unlocked
  /\ IF Refused(a)
     THEN /\ phase' = [phase EXCEPT ![a] = "ended"]
          /\ mem' = [mem EXCEPT ![a] = Blank]
          /\ UNCHANGED <<runs, jobs>>
     ELSE LET M == {m \in Match : Claimable(a, m)}
          IN /\ runs' = [runs EXCEPT ![RunOf[a]] =
                  [status |-> "RUNNING", holder |-> a, ends |-> mem[a].ends,
                   expires |-> LeaseEnd(mem[a].ends),
                   registered |-> IF @ = None THEN 0 ELSE @.registered]]
             /\ jobs' = [m \in Match |-> IF m \in M THEN ClaimedJob(a, m) ELSE jobs[m]]
             /\ mem' = [mem EXCEPT ![a].todo = M]
             /\ phase' = [phase EXCEPT ![a] = "working"]
  /\ UNCHANGED <<fixtures, staked, inputs>>

-----------------------------------------------------------------------------
(* The timer. *)

(* It runs from the claim on; the end waits for a renewal in flight. *)
Renewing(a) == phase[a] \in {"working", "committing", "reporting", "finishing"}
HeldJobs(a) == {m \in Match : jobs[m] # None /\ jobs[m].status = "CLAIMED"
                              /\ jobs[m].holder = a /\ jobs[m].run = RunOf[a]}

(* Mutant: a lapsed lease is renewed as long as the token is still there. *)
RenewableLapsed(a) == runs[RunOf[a]] # None /\ runs[RunOf[a]].holder = a
Renewable(a) == HoldsRun(a)

(* renewNightlyLease; a renewal that is refused or fails marks the lease   *)
(* as lost.                                                                *)
Renew(a) ==
  /\ Renewing(a) /\ Unlocked
  /\ IF Renewable(a)
     THEN LET end == LeaseEnd(runs[RunOf[a]].ends)
          IN /\ runs' = [runs EXCEPT ![RunOf[a]].expires = end]
             /\ jobs' = [m \in Match |->
                  IF m \in HeldJobs(a)
                  THEN [jobs[m] EXCEPT !.expires = Earlier(jobs[m].kickoff, end)]
                  ELSE jobs[m]]
             /\ UNCHANGED mem
     ELSE mem' = [mem EXCEPT ![a].lost = TRUE] /\ UNCHANGED <<runs, jobs>>
  /\ UNCHANGED <<fixtures, staked, inputs, phase>>

RenewalFails(a) ==
  /\ Renewing(a)
  /\ mem' = [mem EXCEPT ![a].lost = TRUE]
  /\ UNCHANGED <<fixtures, tables, phase>>

-----------------------------------------------------------------------------
(* Preparation, job by job. *)

(* An error ends the work of an attempt, which goes on to report it. *)
Throw(a) == /\ phase' = [phase EXCEPT ![a] = "finishing"]
            /\ mem' = [mem EXCEPT ![a] = [Blank EXCEPT !.failed = TRUE]]

(* Mutant: a finished job forgets its token. *)
FinishJobForgets(a, m, status, rest) ==
  /\ Unlocked /\ jobs[m].holder = a
  /\ jobs' = [jobs EXCEPT ![m].status = status, ![m].holder = None]
  /\ mem' = [mem EXCEPT ![a] = rest]
  /\ UNCHANGED <<phase, fixtures, staked, runs, inputs>>
(* finishJob compares the token alone.  The attempt remembers rest. *)
FinishJob(a, m, status, rest) ==
  /\ Unlocked
  /\ IF jobs[m].holder = a
     THEN /\ jobs' = [jobs EXCEPT ![m].status =
                        IF @ \in {"COMPLETED", "MISSED"} THEN @ ELSE status]
          /\ mem' = [mem EXCEPT ![a] = rest]
          /\ UNCHANGED phase
     ELSE Throw(a) /\ UNCHANGED jobs
  /\ UNCHANGED <<fixtures, staked, runs, inputs>>

Started(a, m) == now >= mem[a].listed[m]
Choosing(a, m) == phase[a] = "working" /\ ~mem[a].lost /\ m \in mem[a].todo /\ mem[a].doing = {}
Preparing(a, m) == phase[a] = "working" /\ m \in mem[a].todo /\ mem[a].doing = {m}
Tried(a, m) == [mem[a] EXCEPT !.todo = @ \ {m}, !.doing = {}]

(* The kickoff passed before the job's turn. *)
MissJob(a, m) ==
  Choosing(a, m) /\ Started(a, m) /\ FinishJob(a, m, "MISSED", Tried(a, m))

StartJob(a, m) ==
  /\ Choosing(a, m) /\ ~Started(a, m)
  /\ mem' = [mem EXCEPT ![a].doing = {m}]
  /\ UNCHANGED <<fixtures, tables, phase>>

(* A changed or started fixture, or no usable odds within the credit budget.*)
SkipJob(a, m) ==
  Preparing(a, m) /\ FinishJob(a, m, "SKIPPED", Tried(a, m))

(* The preparation fails: a later attempt may try the job again.           *)
RetryJob(a, m) ==
  /\ Preparing(a, m)
  /\ LET open == now < runs[jobs[m].run].ends /\ now < jobs[m].kickoff
     IN FinishJob(a, m, IF open THEN "PENDING" ELSE "MISSED",
                  [Tried(a, m) EXCEPT !.failed = TRUE])

PrepareJob(a, m) ==
  /\ Preparing(a, m)
  /\ kickoff[m] = mem[a].listed[m] /\ m \notin played
  /\ mem' = [mem EXCEPT ![a] = [Tried(a, m) EXCEPT !.ready = @ \union {m}]]
  /\ UNCHANGED <<fixtures, tables, phase>>

(* The last look at the kickoff before the transaction. *)
Admitting(a, m) == phase[a] = "working" /\ mem[a].todo = {} /\ m \in mem[a].ready
Settled(a, m) == [mem[a] EXCEPT !.ready = @ \ {m}]
AdmitJob(a, m) ==
  /\ Admitting(a, m) /\ ~Started(a, m)
  /\ mem' = [mem EXCEPT ![a] = [Settled(a, m) EXCEPT !.chosen = @ \union {m}]]
  /\ UNCHANGED <<fixtures, tables, phase>>
DropJob(a, m) ==
  Admitting(a, m) /\ Started(a, m) /\ FinishJob(a, m, "MISSED", Settled(a, m))

(* A failed read, a failed settlement, a data gate, a lease found lost. *)
Fail(a) ==
  /\ phase[a] \in {"working", "reporting"} /\ Throw(a)
  /\ UNCHANGED <<fixtures, tables>>

-----------------------------------------------------------------------------
(* The commit of the whole batch. *)

Prepared(a) == /\ phase[a] = "working" /\ ~mem[a].lost
               /\ mem[a].todo = {} /\ mem[a].ready = {}

(* Mutant: the fixture is not read again. *)
FixtureNotRead(m) == TRUE
FixtureAsPrepared(m) == kickoff[m] = jobs[m].kickoff /\ m \notin played

MayCommit(a) ==
  HoldsRun(a) /\ \A m \in mem[a].chosen : HoldsJob(a, m) /\ FixtureAsPrepared(m)

(* commitBatch with nothing to commit opens no transaction. *)
SkipCommit(a) ==
  /\ Prepared(a) /\ mem[a].chosen = {}
  /\ phase' = [phase EXCEPT ![a] = "reporting"]
  /\ UNCHANGED <<fixtures, tables, mem>>

BeginCommit(a) ==
  /\ Prepared(a) /\ mem[a].chosen # {} /\ Unlocked
  /\ IF MayCommit(a)
     THEN phase' = [phase EXCEPT ![a] = "committing"] /\ UNCHANGED mem
     ELSE Throw(a)
  /\ UNCHANGED <<fixtures, tables>>

(* The jobs' leases are checked once more before the commit; its response  *)
(* may get lost after it has happened.                                     *)
Commit(a) ==
  /\ phase[a] = "committing"
  /\ \A m \in mem[a].chosen : HoldsJob(a, m)
  /\ \E B \in SUBSET (mem[a].chosen \ staked) :
       inputs' = inputs \union
         {[match |-> m, holder |-> a, bet |-> m \in B] : m \in mem[a].chosen}
  /\ jobs' = [m \in Match |-> IF m \in mem[a].chosen
                              THEN [jobs[m] EXCEPT !.status = "COMPLETED"] ELSE jobs[m]]
  /\ \/ phase' = [phase EXCEPT ![a] = "reporting"] /\ UNCHANGED mem
     \/ Throw(a)
  /\ UNCHANGED <<fixtures, staked, runs>>

(* A closed window or an error of the database: nothing is written. *)
Rollback(a) ==
  /\ phase[a] = "committing" /\ Throw(a)
  /\ UNCHANGED <<fixtures, tables>>

-----------------------------------------------------------------------------
(* The end of an attempt. *)

(* Mutant: only the bets of the attempt that holds the run are counted. *)
RegisteredByHolder(r) ==
  {i \in inputs : i.bet /\ jobs[i.match].run = r /\ i.holder = runs[r].holder}
Registered(r) == {i \in inputs : i.bet /\ jobs[i.match].run = r}

(* getNightlyRunMetrics counts what is stored, also by earlier attempts.   *)
Report(a) ==
  /\ phase[a] = "reporting"
  /\ mem' = [mem EXCEPT ![a].count = Cardinality(Registered(RunOf[a]))]
  /\ phase' = [phase EXCEPT ![a] = "finishing"]
  /\ UNCHANGED <<fixtures, tables>>

(* finishNightlyRun *)
Finish(a) ==
  /\ phase[a] = "finishing" /\ Unlocked
  /\ LET r == RunOf[a]
         status == IF mem[a].failed \/ mem[a].lost THEN "ERROR" ELSE "COMPLETED"
     IN IF runs[r].holder # a \/ runs[r].status = "COMPLETED"
        THEN UNCHANGED <<runs, jobs>>
        ELSE /\ runs' = [runs EXCEPT ![r].status = status, ![r].expires = now,
                                     ![r].registered = mem[a].count]
             /\ jobs' = [m \in Match |->
                  IF status = "ERROR" /\ m \in HeldJobs(a)
                  THEN [jobs[m] EXCEPT !.status = "PENDING", !.expires = now] ELSE jobs[m]]
  /\ phase' = [phase EXCEPT ![a] = "ended"]
  /\ mem' = [mem EXCEPT ![a] = Blank]
  /\ UNCHANGED <<fixtures, staked, inputs>>

(* The runner is stopped; an open transaction is rolled back. *)
Crash(a) ==
  /\ phase[a] \notin {"waiting", "ended"}
  /\ phase' = [phase EXCEPT ![a] = "ended"]
  /\ mem' = [mem EXCEPT ![a] = Blank]
  /\ UNCHANGED <<fixtures, tables>>

-----------------------------------------------------------------------------
(* The environment. *)

Tick == /\ now < MaxTime /\ now' = now + 1
        /\ UNCHANGED <<kickoff, played, changes, tables, phase, mem>>

Reschedule(m, k) ==
  /\ Unlocked /\ m \notin played /\ k # kickoff[m] /\ changes < MaxChanges
  /\ kickoff' = [kickoff EXCEPT ![m] = k] /\ changes' = changes + 1
  /\ UNCHANGED <<now, played, tables, phase, mem>>

(* A match that was brought forward may have goals before its stored date. *)
Play(m) == /\ Unlocked /\ m \notin played
           /\ played' = played \union {m}
           /\ UNCHANGED <<now, kickoff, changes, tables, phase, mem>>

(* A later policy places its bet on the match. *)
StakeElsewhere(m) == /\ Unlocked /\ m \notin staked /\ now < kickoff[m]
                     /\ staked' = staked \union {m}
                     /\ UNCHANGED <<fixtures, runs, jobs, inputs, phase, mem>>

Fresh ==
  /\ now = 0 /\ kickoff \in [Match -> Kickoffs] /\ played = {} /\ changes = 0
  /\ staked = {} /\ runs = [r \in Run |-> None] /\ jobs = [m \in Match |-> None]
  /\ inputs = {} /\ mem = [a \in Attempt |-> Blank]
Init == Fresh /\ phase = [a \in Attempt |-> "waiting"]

JobStep(a, m) == MissJob(a, m) \/ StartJob(a, m) \/ SkipJob(a, m) \/ RetryJob(a, m)
                 \/ PrepareJob(a, m) \/ AdmitJob(a, m) \/ DropJob(a, m)

Advance(a) == \/ List(a) \/ Claim(a)
              \/ \E m \in Match : JobStep(a, m)
              \/ Fail(a) \/ SkipCommit(a) \/ BeginCommit(a) \/ Commit(a) \/ Rollback(a)
              \/ Report(a) \/ Finish(a)

Next == \/ \E a \in Attempt : Advance(a) \/ Renew(a) \/ RenewalFails(a) \/ Crash(a)
        \/ Tick
        \/ \E m \in Match : Play(m) \/ StakeElsewhere(m)
        \/ \E m \in Match, k \in Kickoffs : Reschedule(m, k)

Spec == Init /\ [][Next]_vars

-----------------------------------------------------------------------------
(* Properties. *)

(* Rows have their columns' values; no lease that is held outlives the     *)
(* window of its run or the kickoff its job was claimed for.               *)
TypeOK ==
  /\ now \in 0..MaxTime /\ kickoff \in [Match -> Kickoffs]
  /\ played \subseteq Match /\ changes \in 0..MaxChanges /\ staked \subseteq Match
  /\ runs \in [Run -> RunRow \union {None}] /\ jobs \in [Match -> JobRow \union {None}]
  /\ \A r \in Run : runs[r] # None /\ runs[r].status = "RUNNING"
                    => runs[r].expires <= runs[r].ends
  /\ \A m \in Match : jobs[m] # None /\ jobs[m].status = "CLAIMED"
                      => jobs[m].expires <= jobs[m].kickoff
  /\ inputs \subseteq Input
  /\ phase \in [Attempt -> Phases] /\ mem \in [Attempt -> Memory]

(* A live claim on a fixture lies within the live lease of its run, held by*)
(* the same attempt: checking the job's lease at the commit suffices.      *)
LeasesNest ==
  \A m \in Match :
    jobs[m] # None /\ jobs[m].status = "CLAIMED" /\ now < jobs[m].expires =>
      /\ Active(jobs[m].run) /\ runs[jobs[m].run].holder = jobs[m].holder
      /\ jobs[m].expires <= runs[jobs[m].run].expires

(* A run whose attempt died turns the others away for one lease at most,  *)
(* and no fixture stays claimed for longer, however many renewals preceded. *)
BusyForOneLease ==
  /\ \A r \in Run : Active(r) => runs[r].expires <= now + Lease
  /\ \A m \in Match : jobs[m] # None /\ jobs[m].status = "CLAIMED"
                      => jobs[m].expires <= now + Lease

(* A match is decided once, whatever lapses, retries and take-overs occur. *)
DecidedOnce == \A i, j \in inputs : i.match = j.match => i = j

(* What the summary of a completed run says stays true: its bets are those *)
(* stored for its jobs, by whichever attempt, and none of its jobs hangs.  *)
CompletedIsTrue ==
  \A r \in Run : runs[r] # None /\ runs[r].status = "COMPLETED" =>
    /\ runs[r].registered = Cardinality({i \in inputs : i.bet /\ jobs[i.match].run = r})
    /\ \A m \in Match : jobs[m] # None /\ jobs[m].status = "CLAIMED"
                           => jobs[m].holder # runs[r].holder

(* Decisions are recorded before the kickoff that is official at that time *)
(* and never on a match with a result, even when the fixture moves between *)
(* preparation and commit or the clock passes it within the transaction.   *)
DecidesInTime ==
  [][\A i \in inputs' \ inputs : now < kickoff[i.match] /\ i.match \notin played]_vars

(* Only one attempt at a time can decide, and only while its lease of the  *)
(* run is live: the protocol implements exclusive ownership.               *)
Holder == IF \E r \in Run : Active(r)
          THEN runs[CHOOSE r \in Run : Active(r)].holder ELSE None
D == INSTANCE Decisions WITH
       Owner <- Attempt, Fixture <- Match, Nobody <- None,
       owner <- Holder, decided <- {<<i.match, i.holder>> : i \in inputs}
IsExclusive == D!Spec
==============================================================================
