------------------------- MODULE ChallengerAdoption -------------------------
(* The registry by which one deployment of model C replaces another: dossiers  *)
(* that pin a candidate and its incumbent, paired forecasts frozen before the  *)
(* outcomes, one verdict for a dossier, rollback on measured failures.  Runs   *)
(* of the nightly job and of the weekly workflow do all this at the same time; *)
(* matches move and results are corrected meanwhile.  Statements on numbers    *)
(* (what the forecasts are worth) are a free choice.                           *)
EXTENDS Integers, Sequences, FiniteSets, SequencesExt

CONSTANTS Runs, Nightly,       \* runs that may overlap; the others are weekly
          Version, Initial,    \* deployments, and the one of the release
          Match, FutureTest,   \* Match: a set of numbers; those of the test partition
          None,
          TestSize, Failures,  \* 500 forecasts and 3 failures in the code
          ResultDelay, Fresh, HealthFor, Night,   \* 2 hours, 5 minutes, one week, one night
          FirstKickoff,        \* kickoffs at the start
          Changing,            \* matches that may move or be corrected
          MaxTime, MaxChanges, MaxChecks, MaxDossiers

ASSUME AdoptionAssumption ==
    /\ Nightly \subseteq Runs /\ Initial \in Version /\ Match \subseteq Nat /\ FutureTest \cup Changing \subseteq Match
    /\ FirstKickoff \in [Match -> Nat]
    /\ {TestSize, Failures} \subseteq Nat \ {0} /\ None \notin Nat
    /\ {ResultDelay, Fresh, HealthFor, Night, MaxTime} \subseteq Nat /\ Fresh <= ResultDelay

VARIABLES
    now,
    kickoff, score, changes,   \* the fixtures, and how often they were changed
    dossiers,                  \* challenger_candidates, in the order of registration
    forecasts, results,        \* challenger_paired_forecasts, challenger_forecast_results
    reviews,                   \* challenger_candidate_reviews
    events,                    \* challenger_adoption_events
    checks,                    \* research_model_check rows of scheduler_runs
    pc, mem                    \* of a run: the next step, and what it remembers

fixtureVars == <<kickoff, score, changes>>
registryVars == <<dossiers, forecasts, results, reviews, events>>
vars == <<now, fixtureVars, registryVars, checks, pc, mem>>

Dossier == DOMAIN dossiers
Blank == [list |-> None, version |-> None, done |-> {}, match |-> None, at |-> 0, kickoff |-> 0]

Init ==
    /\ now = 0 /\ changes = 0
    /\ kickoff = FirstKickoff /\ score = [m \in Match |-> None]
    /\ dossiers = <<>> /\ forecasts = {} /\ results = {} /\ reviews = <<>>
    /\ events = <<>> /\ checks = <<>>
    /\ pc = [r \in Runs |-> "idle"] /\ mem = [r \in Runs |-> Blank]

\* The state is that of the last event.
InForce == IF events = <<>> THEN Initial ELSE Last(events).to

-----------------------------------------------------------------------------
(* The test of a dossier.                                                    *)

OfDossier(d) == {f \in forecasts : f.dossier = d}
Later(f, g) == f.at > g.at \/ (f.at = g.at /\ f.match > g.match)
Earlier(f, g) == f.at < g.at \/ (f.at = g.at /\ f.match < g.match)
InTest(d) == {f \in OfDossier(d) : f.match \in FutureTest}
FixedTest(d) ==
    {f \in InTest(d) : Cardinality({g \in InTest(d) : Earlier(g, f)}) < TestSize}
ResultOf(f) == {o \in results : o.dossier = f.dossier /\ o.match = f.match}

\* A label is written once, when the match has been over for a while at the kickoff
\* the forecast was made for.
Due(f) == /\ score[f.match] # None /\ kickoff[f.match] = f.kickoff
          /\ now >= f.kickoff + ResultDelay
Settle(d) ==
    results \cup {[dossier |-> d, match |-> f.match, score |-> score[f.match], at |-> now] :
                    f \in {g \in OfDossier(d) : ResultOf(g) = {} /\ Due(g)}}

\* challenger_evidence_changed_or_corrupt
Unchanged(f, labels) ==
    /\ kickoff[f.match] = f.kickoff
    /\ \E o \in labels : o.dossier = f.dossier /\ o.match = f.match /\ o.score = score[f.match]
Labelled(f, labels) == \E o \in labels : o.dossier = f.dossier /\ o.match = f.match

\* unproven_preoutcome_chronology_or_identity
Chronological(f, labels) ==
    /\ dossiers[f.dossier].at <= f.at /\ f.at <= f.frozen /\ f.frozen < f.kickoff
    /\ \A o \in labels : o.dossier = f.dossier /\ o.match = f.match => o.at >= f.kickoff + ResultDelay

-----------------------------------------------------------------------------
(* Transactions of the registry.  One that decides nothing changes nothing.  *)

\* A dossier is known by its candidate and its incumbent.
Registrable(v) ==
    /\ v # InForce
    /\ ~\E d \in Dossier : dossiers[d].candidate = v /\ dossiers[d].reference = InForce
Register(v) ==
    /\ Registrable(v)
    /\ Len(dossiers) < MaxDossiers
    /\ dossiers' = Append(dossiers, [candidate |-> v, reference |-> InForce, at |-> now])
    /\ reviews' = Append(reviews, "none")
    /\ UNCHANGED <<now, fixtureVars, forecasts, results, events, checks, pc, mem>>

\* listCollectingCandidates: the oldest dossier that may still be judged.
Collecting(d) == reviews[d] = "none" /\ dossiers[d].reference = InForce
Oldest == IF \E d \in Dossier : Collecting(d)
          THEN CHOOSE d \in Dossier : Collecting(d) /\ \A e \in Dossier : Collecting(e) => d <= e
          ELSE 0

\* The guards of recordPairedChallengerForecast.
Admissible(d, m, at, k) ==
    /\ Collecting(d) /\ dossiers[d].at <= at
    /\ at <= now /\ now - at <= Fresh /\ now < k /\ kickoff[m] = k /\ score[m] = None
    /\ ~\E f \in OfDossier(d) : f.match = m

\* The test is full, every label is there, and none is contradicted by its fixture.
DecisiveWhenMore(d, labels) ==
    LET test == FixedTest(d)
    IN  /\ Cardinality(test) > TestSize
        /\ \A f \in test : Labelled(f, labels) /\ Unchanged(f, labels)
Decisive(d, labels) ==
    LET test == FixedTest(d)
    IN  /\ Cardinality(test) = TestSize
        /\ \A f \in test : Labelled(f, labels) /\ Unchanged(f, labels)
Corrupt(d, labels) ==
    LET test == FixedTest(d)
    IN  /\ Cardinality(test) = TestSize /\ \A f \in test : Labelled(f, labels)
        /\ \E f \in test : ~Unchanged(f, labels)

JudgeableOnce(d) == reviews[d] = "none"
Judgeable(d) == reviews[d] = "none" /\ dossiers[d].reference = InForce

\* assessAndAdopt
Assess(d) ==
    IF d = 0 \/ ~Judgeable(d) \/ Corrupt(d, Settle(d)) THEN UNCHANGED registryVars
    ELSE /\ results' = Settle(d)
         /\ IF ~Decisive(d, Settle(d)) THEN UNCHANGED <<reviews, events>>
            ELSE \E passed \in BOOLEAN :
                    /\ passed => \A f \in FixedTest(d) : Chronological(f, Settle(d))
                    /\ reviews' = [reviews EXCEPT ![d] = IF passed THEN "ADOPT" ELSE "REJECT"]
                    /\ events' = IF ~passed THEN events
                          ELSE Append(events, [action |-> "ADOPT", dossier |-> d, at |-> now,
                                 from |-> dossiers[d].reference, to |-> dossiers[d].candidate])
         /\ UNCHANGED <<dossiers, forecasts>>

\* rollbackUnhealthy: the last check of each match since the adoption, the most recent
\* Failures of them, all failed.  Checks of one instant are in the order of their rows.
SinceEver(e) == 0
Since(e) == e.at
Counts(i) == /\ checks[i].version = InForce
             /\ Since(Last(events)) <= checks[i].at /\ now - checks[i].at <= HealthFor
After(i, j) == checks[i].at > checks[j].at \/ (checks[i].at = checks[j].at /\ i > j)
LastOfMatch == {i \in DOMAIN checks : Counts(i) /\ ~\E j \in DOMAIN checks :
                    Counts(j) /\ checks[j].match = checks[i].match /\ After(j, i)}
MostRecent == {i \in LastOfMatch : Cardinality({j \in LastOfMatch : After(j, i)}) < Failures}
Unhealthy == Cardinality(MostRecent) = Failures /\ \A i \in MostRecent : ~checks[i].passed
Adopted == events # <<>> /\ Last(events).action = "ADOPT"
Rollback ==
    IF Adopted /\ Unhealthy
    THEN events' = Append(events, [action |-> "ROLLBACK", dossier |-> Last(events).dossier,
                                   at |-> now, from |-> InForce, to |-> Last(events).from])
    ELSE UNCHANGED events

-----------------------------------------------------------------------------
(* A run.                                                                    *)

Goto(r, step) == pc' = [pc EXCEPT ![r] = step]
Untouched == UNCHANGED <<now, fixtureVars>>

Start(r) ==
    /\ pc[r] = "idle" /\ Rollback /\ Goto(r, "listing")
    /\ Untouched /\ UNCHANGED <<dossiers, forecasts, results, reviews, checks, mem>>

List(r) ==
    /\ pc[r] = "listing"
    /\ mem' = [mem EXCEPT ![r].list = Oldest]
    /\ Goto(r, "assessing")
    /\ Untouched /\ UNCHANGED <<registryVars, checks>>

Review(r) ==
    /\ pc[r] = "assessing" /\ Assess(mem[r].list)
    /\ Goto(r, IF r \in Nightly THEN "reading" ELSE "idle")
    /\ mem' = [mem EXCEPT ![r].list = None]
    /\ Untouched /\ UNCHANGED checks

\* The nightly job works with the deployment it reads here.
ReadState(r) ==
    /\ pc[r] = "reading"
    /\ Goto(r, "working") /\ mem' = [mem EXCEPT ![r].version = InForce]
    /\ Untouched /\ UNCHANGED <<registryVars, checks>>

\* The next match of the night is prepared as of now.
Observe(r, m) ==
    /\ pc[r] = "working" /\ m \notin mem[r].done /\ Len(checks) < MaxChecks
    /\ now < kickoff[m] /\ kickoff[m] <= now + Night /\ score[m] = None
    /\ mem' = [mem EXCEPT ![r].done = @ \cup {m}, ![r].match = m, ![r].at = now,
                          ![r].kickoff = kickoff[m]]
    /\ Goto(r, "checking")
    /\ Untouched /\ UNCHANGED <<registryVars, checks>>

Check(r) ==
    /\ pc[r] = "checking" /\ Goto(r, "recording")
    /\ Len(checks) < MaxChecks
    /\ \E passed \in BOOLEAN :
          checks' = Append(checks, [version |-> mem[r].version, match |-> mem[r].match,
                                    at |-> mem[r].at, passed |-> passed])
    /\ Untouched /\ UNCHANGED <<registryVars, mem>>

\* The list is read once in a run, before its first forecast, and may be old by then.
Record(r) ==
    /\ pc[r] = "recording" /\ Goto(r, "working")
    /\ LET list == IF mem[r].list = None THEN Oldest ELSE mem[r].list
           new == [dossier |-> list, match |-> mem[r].match, at |-> mem[r].at,
                   kickoff |-> mem[r].kickoff, frozen |-> now]
       IN  /\ forecasts' = IF list # 0 /\ Admissible(list, new.match, new.at, new.kickoff)
                           THEN forecasts \cup {new} ELSE forecasts
           /\ mem' = [mem EXCEPT ![r].list = list, ![r].match = None, ![r].at = 0, ![r].kickoff = 0]
    /\ Untouched /\ UNCHANGED <<dossiers, results, reviews, events, checks>>

End(r) ==
    /\ pc[r] = "working" /\ Goto(r, "idle")
    /\ mem' = [mem EXCEPT ![r] = Blank]
    /\ Untouched /\ UNCHANGED <<registryVars, checks>>

-----------------------------------------------------------------------------
(* The fixtures and the clock.                                               *)

Move(m) ==
    /\ changes < MaxChanges /\ score[m] = None
    /\ \E k \in 1..MaxTime \ {kickoff[m]} : kickoff' = [kickoff EXCEPT ![m] = k]
    /\ changes' = changes + 1
    /\ UNCHANGED <<now, score, registryVars, checks, pc, mem>>
Play(m) ==
    /\ score[m] = None /\ now >= kickoff[m]
    /\ score' = [score EXCEPT ![m] = 0]
    /\ UNCHANGED <<now, kickoff, changes, registryVars, checks, pc, mem>>
Correct(m) ==
    /\ changes < MaxChanges /\ score[m] # None
    /\ score' = [score EXCEPT ![m] = 1 - @]
    /\ changes' = changes + 1
    /\ UNCHANGED <<now, kickoff, registryVars, checks, pc, mem>>
Tick ==
    /\ now < MaxTime /\ now' = now + 1
    /\ UNCHANGED <<fixtureVars, registryVars, checks, pc, mem>>

Step(r) == \/ Start(r) \/ List(r) \/ Review(r) \/ ReadState(r)
           \/ Check(r) \/ Record(r) \/ End(r)

Next ==
    \/ \E r \in Runs : Step(r) \/ \E m \in Match : Observe(r, m)
    \/ \E v \in Version : Register(v)
    \/ \E m \in Changing : Move(m) \/ Correct(m)
    \/ \E m \in Match : Play(m)
    \/ Tick

Spec == Init /\ [][Next]_vars

\* The weekly workflow starts a run again and again, and its runs go on; nothing is
\* assumed of the nightly job.
Fairness == \A r \in Runs \ Nightly : WF_vars(Step(r))
FairSpec == Spec /\ Fairness

-----------------------------------------------------------------------------
(* Properties.                                                               *)

TypeOK ==
    /\ now \in 0..MaxTime
    /\ kickoff \in [Match -> Nat] /\ score \in [Match -> {None, 0, 1}]
    /\ \A d \in Dossier : /\ dossiers[d] \in [candidate : Version, reference : Version, at : 0..now]
                          /\ dossiers[d].candidate # dossiers[d].reference
    /\ forecasts \subseteq [dossier : Dossier, match : Match, at : 0..now, kickoff : Nat, frozen : 0..now]
    /\ results \subseteq [dossier : Dossier, match : Match, score : {0, 1}, at : 0..now]
    /\ reviews \in [Dossier -> {"none", "ADOPT", "REJECT"}]
    /\ \A i \in DOMAIN events :
          events[i] \in [action : {"ADOPT", "ROLLBACK"}, dossier : Dossier, at : 0..now,
                        from : Version, to : Version]
    /\ \A i \in DOMAIN checks :
          checks[i] \in [version : Version, match : Match, at : 0..now, passed : BOOLEAN]
    /\ \A r \in Runs : mem[r].list \in Dossier \cup {0, None} /\ mem[r].version \in Version \cup {None}

\* The events are a history of one deployment: each starts from the deployment in
\* force, an adoption replaces exactly the incumbent its dossier was compared with, a
\* rollback undoes the adoption just before it and nothing older.
InForceBefore(i) == IF i = 1 THEN Initial ELSE events[i - 1].to
ReplacesItsReference(i) ==
    LET e == events[i]
        d == dossiers[e.dossier]
    IN  /\ e.from = InForceBefore(i)
        /\ e.action = "ADOPT" => e.from = d.reference /\ e.to = d.candidate
        /\ e.action = "ROLLBACK" =>
              /\ i > 1 /\ events[i - 1].action = "ADOPT"
              /\ events[i - 1].dossier = e.dossier /\ e.to = events[i - 1].from

\* And a dossier is adopted at most once, whatever is rolled back and adopted
\* meanwhile, and only with the verdict for it.  The rows keep their types.
OneHistory ==
    /\ TypeOK
    /\ \A i \in DOMAIN events : ReplacesItsReference(i)
    /\ \A i, j \in DOMAIN events : events[i].action = "ADOPT" =>
          /\ reviews[events[i].dossier] = "ADOPT"
          /\ events[j].action = "ADOPT" /\ events[j].dossier = events[i].dossier => i = j

\* A rollback rests on Failures checks of different matches that failed while the
\* deployment was in force by the adoption the rollback undoes.
RollbackEarned ==
    \A i \in DOMAIN events : events[i].action = "ROLLBACK" =>
       Cardinality({m \in Match : \E j \in DOMAIN checks :
           /\ checks[j].match = m /\ ~checks[j].passed /\ checks[j].version = events[i].from
           /\ events[i - 1].at <= checks[j].at /\ checks[j].at <= events[i].at}) >= Failures

\* Outcomes do not choose the test: once the outcome of a forecast may be read, the
\* forecast neither enters nor leaves the test of its dossier.
OutcomesDoNotChoose ==
    [][\A d \in Dossier : \A f \in FixedTest(d) \cup FixedTest(d)' :
          Due(f) \/ ResultOf(f) # {} => (f \in FixedTest(d) <=> f \in FixedTest(d)')]_vars

\* The oldest dossier with a full test, whose matches have been played at their kickoffs
\* and whose labels were not corrected, does not stay without a verdict.
Complete(d) ==
    /\ d \in Dossier /\ d = Oldest
    /\ Cardinality(FixedTest(d)) = TestSize
    /\ \A f \in FixedTest(d) : \/ ResultOf(f) = {} /\ Due(f)
                               \/ ResultOf(f) # {} /\ Unchanged(f, results)
EndsJudged == \A d \in 1..MaxDossiers : []<>~Complete(d)
=============================================================================
