# FootPredictor: formal models

FootPredictor forecasts football matches, compares its probabilities with bookmaker odds and keeps
virtual wallets that show what following the forecasts would have earned. This directory holds TLA+
modules of the parts of its backend where concurrency, leases, money and limited credits meet, the
TLC configurations that check them on small instances, and TLAPS proofs of what matters most.

## 1. The system

A Node.js/TypeScript backend (`backend/src`), a libSQL database shared by every process, scheduled
GitHub Actions workflows that run the same code against the same database, a React/Android client
and an offline Python training pipeline. No process trusts its memory: what must survive or be
shared is a row, and a *write transaction* of the database is the only unit of atomicity
(`ResearchStore.write` retries a busy one). Everything outside a transaction - a request to the odds
provider, the preparation of a forecast, a list of pending bets - may be interleaved with the
transactions of any other process, and any process may die between two of them.

| Component | State it keeps | Operations | What makes it correct | Module |
|---|---|---|---|---|
| Odds request store (`SmartOddsRequestStore`) | `smart_odds_` requests, results, leases, cache, budgets | `execute`: admission, wait, fetch, completion | one live call per key; month's liability within the limit; reserve kept for essential calls; the balance it believes in is never above the real one | `SmartOdds` |
| Virtual wallets (`ResearchStore`, `ResearchRecommendationStore`, `ManualModelBetService`, `ResearchBetCancellation`) | five bet tables, their settlements and cancellations, `research_ledger` | batch of stakes, manual stake, settlement pass, withdrawal, refund, policy change | every cent explained by a bet; no overdraft; a selection staked once; a bet ends once | `Wallet`, `ResearchLedger` |
| Nightly decision run (`runResearchNightly` and the nightly part of `ResearchStore`) | `research_nightly_runs`, `research_jobs`, `research_inputs` | claim, renew, prepare, admit, commit, finish | a match decided once, by the attempt that owns it, before its kickoff; reports stay true | `Decisions`, `NightlyRun` |
| Recommendation execution (`claimBatch`, `renewLeases`, technical recovery) | `research_execution_jobs`, `_inputs`, `_decisions` | claim, renew, finish, commit, recovery | a decision per policy and match | not modelled |
| T-15 worker (`T15Scheduler`, `ResearchWorkerCoordinator`, `syncJobs`) | `research_worker_state`, per-job leases | tick, prepare, commit, settle | as the nightly run, in a 60 s window | not modelled |
| Adoption of challengers (`ChallengerAdoption`, `recordCollectingChallengers`) | dossiers, paired forecasts, results, reviews, adoption events, health checks in `scheduler_runs` | register, record, settle, assess and adopt, roll back | a candidate replaces only the incumbent it was compared with, once; evidence frozen before the outcome; rollback on failures of that term | `ChallengerAdoption` |
| Model registry (`changeChampion`, `setMarketState`, history reset) | champions, benchmarks, markets | promote, roll back, reset | no promotion on evidence against a former champion | not modelled |
| Prospective evidence (`freezeProspectiveObservations` ...) | observations, results, invalidations | freeze, settle, reconcile | forecasts frozen before the result is known | not modelled |
| Prospective recorder of model A (`ModelAProspectiveRecorder`, `ModelAProspectiveSpool`, `ModelAProspectiveShutdown`) | an in-memory queue, spool files, `model_a_prospective_forecasts` | schedule, pump, retry, recover, drain | an accepted forecast survives a crash and reaches the table; nothing late gets in | `ForecastLog`, `ProspectiveRecorder` |
| Prospective collection (`ModelAProspectiveCollection`) | collection ledger | claim, predict, confirm | a fixture collected once per protocol and kickoff; the ledger tells the truth, and in the end all of it | `ProspectiveCollection` |
| Result refresh and calendar of model A | refresh state with a lease, observations | page, refresh | every result is looked at in the end | not modelled |
| Shared bankroll (`placeBetAtomically`, `settlePendingBetsAtomically`, `createOrResetBudget`) | `budgets`, `budget_sessions`, `bets` | place, settle by hand or by sync, reset | the balance is explained by the session's bets; no stake overdraws it; one bet per selection; a bet ends once | `Bankroll` |
| Odds transport (`OddsApiService`, `OddsProviderCoordinator`) | none that lasts | probe and retry, timeout race | credits go through the request store | as calls of `SmartOdds` |
| Analysis and backtest jobs (`PredictionJobService`, `HeavyJobService`) | a map of jobs, a running flag | create, start, complete, prune | one at a time, never stuck | not modelled |
| In-process schedulers (`index.ts`) | timers, running flags | run, retry, reschedule | always rescheduled | not modelled |
| Results refresh, source feeds, scrapers | match rows, feed rows | import, reconcile | - | effect only: "a result is published", "a kickoff moves" |
| Prediction engine, backtesting, evaluation, Python training | model parameters, reports | numeric | - | no: real-valued statistics |
| Schema, HTTP routes, sessions, observability, clients, scripts | - | - | - | no: I/O, presentation, access control |

The two kinds of money are separate: the wallets of the research models in `research_ledger`, and the
shared bankroll a person manages over the HTTP interface.

How they meet: the nightly run asks the request store for odds while it prepares its decisions, and
commits decisions together with their stakes. The settlement pass (run by the worker every minute,
by two HTTP routes and at the start of each nightly run) pays the stakes when the results refresh
has published a result. Fixtures move and results are corrected under all of them.

What is hard here: leases that lapse while their holder works on; timers and answers that cross;
answers that are lost after the commit; workflows that die and are started again under the same
identity; five tables that hold stakes on the same selections; credits whose true consumption only
the provider knows; a month boundary that falls into a request. `PROJECT.json` lists these hazards
at their lines, with the properties that cover them.

## 2. Plan

Done, in this order: `SmartOdds`; `Wallet` and `ResearchLedger`; `Decisions` and `NightlyRun`; `Bankroll`;
`ForecastLog` and `ProspectiveRecorder`; `ProspectiveCollection`, composed with the recorder through
`ForecastLog`; `ChallengerAdoption`.

Next, by weight: the leases of recommendation execution with its technical recovery, and their
composition with `ResearchLedger` (the commit under a lease, the cancellation that respects live
leases); the prospective evidence and its invalidation; the result refresh of model A; the analysis jobs
and in-process schedulers; the T-15 worker, which the nightly run has replaced.

Abstract specifications: `Wallet` (a purse that is drawn on, paid and never overdrawn), `Decisions`
(exclusive ownership of decisions), `ForecastLog` (a receipt, perhaps a completion, and a table in
which a forecast appears at most once and stays). The last one stands between two components: the
recorder is shown to implement it, and the collector is checked on top of it and of nothing else.

Every safety property of the passing runs is proved; section 5 says how, and what stays with the model checker.

## 3. What the modules model

### SmartOdds

One `provider`/`account_scope` pair. `call` is a program counter with the locals of every
`execute` call; `requests`, `results`, `leases`, `cache` and `budget` are the tables; `billed` and the
provider's reset instant are the truth that only the provider knows. Each action is one write
transaction or one await:

| Action | Code |
|---|---|
| `Begin` | entry of `execute`, normalisation, the start of the wait clock |
| `CacheHit`, `DenyCacheOnly`, `Decide`, `GiveUpWaiting` | the four outcomes of the admission transaction: fresh cache row; network not allowed; a lapsed lease is settled as unknown and the credits are reserved or denied; another caller's lease is live and the wait is used up |
| `Receive`, `TransportFails`, `FetchTimeout` | the race of the fetch against its timer |
| `Complete` | the completion transaction: result row, cache row if the lease is still owned, quota header, release |
| `Crash` | the process dies between any two of these |
| `Tick`, `ProviderServes`, `ProviderResets` | clock, billing and monthly reset of the provider (external) |

Amounts are sums over rows, written as the cardinality of sets of credit units. Costs are integers,
and the provider never charges more than the estimate the caller passed.
A denied admission still commits the unknown settlement of the lapsed lease it found. A call whose
fetch ended before its lease lapsed may still write the cache after another call has marked its
result unknown; `CacheNeverGoesBack` covers this. The request of a crashed process is settled only
when its key is asked for again; until then its credits stay reserved, over month boundaries too.

### Wallet and ResearchLedger

`ResearchLedger` has the bet rows of the five tables (`bets`, with a `kind`), `settlements`,
`archived` and `cancelled` (the two cancellation tables) and `ledger`. A batch is a transaction that
lasts: `asked` are the decisions it has to go through and `new` the bets it inserted; `Decide` handles
one decision, `Commit` appends bets and stake entries, `Rollback` drops them, and no other writer
runs while it is open. `PlaceManual`, `SettleBet`, `CancelVirtual`, `CancelFunded` and `NextPolicy` are
single transactions. A settlement pass lists the pending bets (`ListPending`), reads each fixture
outside the transaction (`ReadFixture`) and settles (`SettleBet`); a conflicting settlement throws and
drops the rest of the pass. Stakes are integer cents with the shares and rounding of the code,
`Verdict` is the outcome table of `settleGoalQuote`, multipliers follow its half wins and losses.
The policies only move forward, as the transition scripts do. Paper bets are left out (they never
touch the ledger), and so is the lease check of the cancellation script.

`Wallet` is the abstract purse: money free and money at stake, drawn on, paid out and handed back, never
negative. `IsWallet` says that every step of the ledger is a step of the purses or leaves them alone.

### Decisions and NightlyRun

An *attempt* is one execution of `runResearchNightly`, and it is its own lease token. `runs` and `jobs`
are the lease rows, `inputs` the recorded decisions, `phase` and `mem` where an attempt is and what it
remembers: `todo`, `doing`, `ready`, `chosen`, `lost` (a failed renewal), `failed`, `count`.

| Action | Code |
|---|---|
| `List`, `Claim`, `Refused` | the fixtures read before, and the transaction of, `claimNightlyBatch` |
| `Renew`, `RenewalFails` | the renewal timer, any time until the attempt ends, also in flight at the end |
| `StartJob`, `MissJob`, `PrepareJob`, `SkipJob`, `RetryJob` | the preparation loop, one fixture at a time |
| `AdmitJob`, `DropJob` | the admission loop over what was prepared |
| `BeginCommit`, `SkipCommit`, `Commit`, `Rollback` | `commitBatch`, whose transaction stays open while the clock runs |
| `Report`, `Finish`, `Throw`, `Fail` | metrics, `finishNightlyRun` and the error paths |
| `Crash`, `Tick`, `Reschedule`, `Play`, `StakeElsewhere` | the runner dies; the clock; other writers of fixtures and bets |

The mode modelled is the one that decides; the diagnostic mode records only abstentions with the
same leases. `Commit` may succeed and its answer be lost; the attempt then fails like after a rollback.

`Decisions` is the promise: a set of owners of which at most one is active, and decisions that only
the owner adds, on matches that had none.

### Bankroll

A *request* is one call of `/bets/place`, `/bets/sync`, `/bets/:id/settle` or `/budget/:user/init`; it makes
at most one bet or one session, so the random ids of these are the request. `budget`, `sessions` and `bets`
are the tables, `at` and `mem` what a request awaits and what it carries: the bets it read, then the
settlements it computed.

| Action | Code |
|---|---|
| `ListPending`, `ReadResults` | `syncPendingBets`, which every placement runs first: bets of the active session, then matches and verdicts |
| `ReadBet` | `settleBet` up to the check that the bet is pending |
| `SettleBets` | the batch that writes what is still pending and recomputes the budget row |
| `PlaceBet` | the batch that inserts under its conditions and debits if it inserted |
| `ReadSession`, `CloseSession`, `OpenSession`, `ResetBudget` | the four statements of `createOrResetBudget` |
| `Publish`, `Crash` | a result is published or corrected; the server dies |

A batch is one transaction; between two awaits of a request anything else happens. Amounts are cents.
Stakes and the amounts of a reset are checked to be positive; the return of a bet settled by hand is not
(`POST /bets/:betId/settle` hands it on, `settleBetInternal` asks only that it be a finite number and takes 0 otherwise), so
`ManualReturns` is a set of integers of any sign. A bet settled as won with a return below zero, when the rest
of the budget is staked, leaves a negative balance; `BudgetExplained` says that nothing else does, and that the debt is never
more than such returns of the session come to. `ReadResults` takes any subset of what could be told,
since matches are read one by one and a match may fail to resolve.

### ForecastLog and ProspectiveRecorder

`ForecastLog` is the view of a caller: `receipt` (what `scheduleModelAProspective` returned), `completion`
(what the promise in it resolved to) and `table`. A call may be refused, accepted, or never
heard of; a forecast may reach the table long after, even when the caller was told of an error; `stored` is
only ever said of a forecast that is there; the promises of a process die with it.

`ProspectiveRecorder` is one server process after another. `queue`, `active` and `tracked` are its
memory, `files`, `partials` and `synced` the directory of the spool, `adrift` statements whose caller has lost
them, `storedAt` the table. In the mode `spool` a forecast is accepted when its file is safe, in the mode
`database` it is only queued.

| Action | Code |
|---|---|
| `Ask`, `Save` (`SaveWrite`, `SaveLink`, `SaveUnlink`, `SaveSync`, `SaveThrows`) | admission, then the file calls of `persistSpool` one by one, with the kickoff looked at before the link and after the last sync |
| `Pump`, `Execute`, `Confirm`, `Fail`, `Retry` | `pump`: a job starts, its insert runs at the database, its answer comes or does not, a retry keeps its place |
| `Land` | a statement whose answer was lost arrives after all |
| `Recover`, `Start` | the recovery timer, which goes round the spool with a cursor, and the start of the process |
| `Signal`, `CloseAdmission`, `Exit` | shutdown: the drain ends when nothing is queued or when its time is over |
| `Crash`, `PowerLoss`, `Tick` | the process ends anywhere; entries of the directory that were not synced may be lost; the clock |

### ProspectiveCollection

A *run* is one execution of `ModelAProspectiveCollection.run`; it is meant to be the only one (the
workflow has a concurrency group), but the ledger alone keeps two apart when one is started by hand or
the runner is slow to die. `ledger` has a row per match and kickoff, `claims` who made which claim, `forecast`
what the recorder was given for it.

| Action | Code |
|---|---|
| `Start` | the page of fixtures, or the calendar, as it is now |
| `Examine` | insert or ignore, the row that is there, an observed row whose window has closed |
| `TakeClaim` | the conditional update that makes the row its own |
| `Reread` | the fixture is looked at again; the run may have been told to stop |
| `Predict`, `Note`, `Close` | the prediction with the kickoff of its own moment, the receipt, the completion |
| `Reconfirm` | a claimed row of an earlier run, whose forecast may have arrived since |
| `Recorder`, `Crash`, `Move`, `Play`, `Tick` | the recorder as `ForecastLog` promises it; the run dies; the sources; the clock |

The collector treats all refusals alike and a pending receipt like one that is asked for and accepted, so the
model offers one of each. What `confirmed` finds once it finds always, so its reading and the
writing of `stored` are one step. The reason column, the rows of the runs and the marks on rows of moved
kickoffs are left out: nothing reads them. A match that moves within the window may be claimed under both
kickoffs, and `predict`, which takes the kickoff of its moment, may then record two forecasts for the
new one; only the one whose claim is of that kickoff is ever called stored (`StoredIsTrue`), and
`OneForecastPerKey` speaks of claims.

### ChallengerAdoption

`dossiers`, `forecasts`, `results`, `reviews` and `events` are the five tables of the registry, `checks` the model
checks in `scheduler_runs`. A run reviews (`Start` is the rollback, `List`, `Review`), and a nightly one
then reads the deployment in force (`ReadState`) and works through its matches: `Observe` fixes the input of
a match, `Check` logs whether the model could be used, `Record` offers the paired forecast. Each is one
transaction or one statement, so a run that dies is one that takes no further step. `Register` is the
training script, `Move`, `Play`, `Correct` and `Tick` the world.

What the report measures is a free choice of the verdict, once the test is full, every label is there and none is
contradicted by its fixture. A review that throws leaves everything as it was and the nightly run goes on. The
test is the first 500 forecasts of the partition; the model has 1 (`TestSize`), and 2 failures for 3 in a
rollback. The list of open dossiers is read once in a run, here together with the first
forecast. Left out: hashes, the data-quality quarantine, the selector policy, checks that measured
nothing, the limit of 200 rows, the reset of the history by a maintenance script. The identity of a dossier also covers the
training evidence, so one candidate may be registered against one reference again on another
manifest; the model has one dossier of a pair, and no property depends on it. `currentDeployment` throws when the artifact or the
probability configuration it resolves is not the deployment in force, which abandons the listing and the review
of that run until the configuration is repaired; the model has no such drift, which only `EndsJudged` could notice: it is a claim
about deployments whose configuration stays what it was.

A dossier whose test match is postponed, or whose result is corrected after its label was written, is
never judged: its label is missing, or contradicts the fixture for ever. As only the oldest open
dossier is listed, every later one of the same incumbent then waits for ever. No text of the repository says
otherwise, so `EndsJudged` asks for a verdict only where this has not happened.

## 4. What the runs check

The runs use the MC modules, which only give the constants values (that of the nightly run also chooses which
attempts run); `collection` needs none. Deadlock is not checked: clocks
and attempts are bounded, so a run may really end.

| Run | Instance | Shows |
|---|---|---|
| `odds_life` | 2 calls, 1 key, limit 2, reserve 1, lease 2, clock 0..4, fair; 0.09M states | an unresolved request holds its key's lease; results are final; the cache never goes back; the reserve holds; every call ends although the provider may be silent and holders die |
| `odds_rollover` | 3 calls, 2 keys, full and partial quota headers, a month of 2 ticks, one provider reset, limit 3; 4.8M | liability and billed credits stay within the limit across months; the believed balance is conservative |
| `odds_late_billing` | the previous one with `LateBilling` | violated: see section 7 |
| `ledger_money` | one family, two matches, 3 bets in batches of up to 2, a settler; 1.1M | ledger = journal of the tables; committed = pending stakes; exposure; one stake per selection over five tables; refines `Wallet`, so no overdraft |
| `ledger_ends` | two settlers, corrections, cancellations, fair; 0.3M | a bet ends once; every resolvable bet ends |
| `nightly_run` | two attempts, of one run or of two, leases of 2 renewed in a window of 3, a fixture whose kickoff is inside or beyond the window (2 or 4) and may move or be played, one attempt of three already ended, clock 0..3; 1.9M | a match is decided once; what a completed run reported stays true; job leases nest in run leases; the run of a dead attempt is busy for one lease time at most; refines `Decisions`; decisions only before the official kickoff |
| `bankroll_race` | 3 requests that sync, place or settle, with returns by hand of 1 and -1, 2 resets, 2 keys, a death of the server; 0.34M | the budget row accounts for its session's bets, and only for these; only returns below zero overdraw it, by no more than their sum; one bet per selection; a bet ends once; new bets go to an open session |
| `bankroll_sessions` | one user of the bankroll, 2 resets | violated: see section 7 |
| `recorder_faults` | 2 forecasts, one of which the table refuses, both modes, queue of 2, 2 faults; 1.3M | an accepted forecast is never lost; nothing late is accepted or stored; bounds; one job per forecast; a drained shutdown is one; refines `ForecastLog` |
| `recorder_delivers` | a queue of 1, spool, 1 fault, fair; 0.17M | an accepted forecast reaches the table although one that the table refuses competes with it for ever |
| `collection` | 2 runs, a match that moves once between two kickoffs, 2 claims, 1 crash, fair; 1.1M | one forecast per claimed match and kickoff; `stored` is true; a forecast that exists is shown in the end |
| `adoption` | a nightly and a weekly run, 3 matches, 2 versions, 2 dossiers, 3 checks, one move or correction, fair; 1.3M | an adoption replaces its reference only, and happens once and on a review that adopts; rollback earned; outcomes do not choose the test; a complete dossier is judged |

Why the bounds suffice. A lease of one tick and a clock of a few ticks put every step of one
process before, inside and after the lease of another. Three calls are a holder, a successor and
a third whose late step could hurt the successor. Limits of three or four credits with costs of one
and two make admissions fail by one unit, with and without the reserve. Wallets of one euro and
odds of 2.50 make a batch hit both the balance and the exposure limit. Two attempts of one run are a crash and a
retry, attempts of two runs are rivals that take over (`TwoAttempts` starts where the third attempt died before it
claimed anything, a state `Spec` reaches); a lease of two ticks can be renewed before it lapses and still lapse within the
clock. More attempts, fixtures and time are covered by the proofs, which establish every property of this run. A crash and a lost answer are two faults of one recorder; two forecasts suffice for one to stand in the other's
way. Two kickoffs whose windows differ let a claim of the old one meet the new one. Three matches on three
days are a test match, a rival for its place, and a second match that fails. With one nightly run and a decision as fresh as its
forecast (`Fresh = 0`), forecasts are frozen in the order they are prepared; that the order does not matter is shown by the proof of
`OutcomesDoNotChoose` alone. A budget of three cents and stakes of one and two let a third bet be the one too many, and a return of -1 take the balance below zero. Each property has a mutant in `PROJECT.json`, a plausible slip in the code
under which the same run fails, so the instance is large enough to meet the case.
Symmetric attempts of one run, matches, callers and keys are permuted where nothing orders them.

Fairness. *Odds*: timers fire, the write queue of a process drains, and the clock goes on
(`setTimeout` and the promise chain of the store); nothing is assumed of the provider, of other processes or of
crashes. *Ledger*: a pass that is under way goes on (`WF(SettlerStep)`), a bet that can be
settled again and again is settled (`SF(SettleBet)`), open transactions end, and at some time the process
running settlement stops stopping. The worker repeats a pass every 60 seconds and survives a failed
one (`ResearchRuntime.ts:329`), the routes and the nightly run start passes too. Strong
fairness stands for "passes come round in an order that does not for ever put a throwing bet first".
*Nightly*: no liveness; an attempt runs once, and its repetition belongs to the workflow.
*Recorder*: the event loop runs what it can, a stopped process is started again, the recovery timer (every 30
seconds, `startModelAProspectiveRecovery`) finds room in the queue now and then (`SF(Recover)`), and the database, asked for ever for
a forecast it accepts, runs the statement and is heard (`SF`). *Collection*: the workflow starts
a run every half hour, which goes on while its process lives, and the recorder answers; an overlapping run may stop
anywhere (`Steady`). *Adoption*: the weekly workflow starts runs, which go on; the nightly job may
stop anywhere, matches need not be played, forecasts not made; the configuration of the deployment in force does not drift.

## 5. What is proved

Proofs hold for every value of the constants that satisfies the named assumptions of the modules (the six of `SmartOdds`,
`LedgerAssumption`, `NightlyAssumption`, `BankrollAssumption`, `RecorderAssumption`, `CollectionAssumption` and `AdoptionAssumption` with
the `NoneAssumption` of their module): bounds are naturals, parameters have the types their comments say, `None` is not a
value, a window closes after it opens, and an input is fresh for no longer than a result takes (5 minutes and 2 hours in
the code; the model checker's instance counts in days, where both are 0).

| Theorem | Says | Argument |
|---|---|---|
| `SmartOddsProofs!TypeCorrect` | types | `Inductive == TypeOK /\ RowsFitCalls`: rows name the call that wrote them and agree with its locals; needed to type what a completion writes |
| `SmartOddsProofs!LeaseSafety` | an unresolved request holds its lease | inductive together with the above: every action that frees a lease also writes the result |
| `SmartOddsProofs!ResultsFinal`, `CacheMonotone` | results are final, the cache moves forward | `INSERT OR IGNORE`; the owner's fetch is later than the row it replaces (`CacheBeforeHolder`) |
| `SmartOddsProofs!LimitHolds`, `ReserveHolds` | monthly liability within the limit, informational calls outside the reserve | the set of liable credits of a month grows only at an admission, by at most the estimate, and the admission has checked that it fits (`AdmissionFits`); completions and the clock shrink it |
| `SmartOddsProofs!ConservativeHolds` | what the store believes available is left at the provider, if `~LateBilling` | `BooksExplained`: some order of service explains every header, as told below |
| `SmartOddsProofs!BillsHold` | never more billed than the limit, if `~LateBilling` and `InitialUse = 0` | `BillsFit`: what is billed and what unanswered requests may still cost fit the limit together; an admission adds its estimate, which the header (`HeaderCovers`) or, in the first month, the local plan (`FirstMonthCovers`) leaves room for |
| `ResearchLedgerProofs!TypeCorrect` | types, fresh identities | rows keep column values; `SeenResolved`: a settler remembers only finished fixtures |
| `ResearchLedgerProofs!EndsOnce` | never both settled and cancelled | with `NewIsFresh`: a rolled-back or open batch never reuses the id of a settled bet |
| `ResearchLedgerProofs!StakesOnce` | one stake per family and selection | `StakesFit`: along the order of policies, each checks every table its predecessors could have written |
| `ResearchLedgerProofs!JournalAlways` | ledger = journal | each action adds or removes the row and its entry together |
| `ResearchLedgerProofs!CommittedIsAlwaysPending` | what is committed is what the pending bets staked | `MoneyInv`: an open batch stakes no more than is free (`Covered`), the ledger is the journal, and its entries sum up to the stakes of the bets that did not end (`Backed`) |
| `ResearchLedgerProofs!ExposureIsAlwaysCapped` | at most 5 % of the equity at stake under the early policies | also in `MoneyInv`: a loss takes its stake from both sides of the inequality, a win only adds to the equity, and an open batch keeps the limit with what it inserted (`BatchCapped`) |
| `ResearchLedgerProofs!LedgerIsWallet` | `ResearchLedger` implements `Wallet` | `StepCases`: a step of the tables is a stake of fresh bets, a settlement of a pending one, a cancellation, or none; each is a step of the purses by the sums above |
| `NightlyRunProofs!TypeCorrect` | types; leases end with windows and kickoffs | `RowsKnown`: claimed jobs belong to known runs |
| `NightlyRunProofs!LeasesAlwaysNest` | a live job lease lies in its run's live lease | `HeldIsWork`: a claimed job's token belongs to an attempt that works on it, or failed, or ended |
| `NightlyRunProofs!DecidesOnce` | a match is decided once | `RecordedIsCompleted`: a recorded match has a completed job, which nobody claims |
| `NightlyRunProofs!FreeAfterOneLease` | the run of a dead attempt and its fixtures are free after one lease time | `ShortLeases`: claims and renewals alone write an expiry, and never one further away |
| `NightlyRunProofs!DecidesBeforeKickoff` | decisions come before the official kickoff, on matches without a result | `CommitsAsPrepared`: while a commit is open nobody else writes, so the fixtures it read stay as it read them; the lease checked last ends at the kickoff |
| `NightlyRunProofs!ReportsStayTrue` | the bets that a completed run reported are those of its jobs; its holder left no claim | `CountsFit`: only the holder of a live lease adds bets to a run, so a count stays current until another attempt takes the run over, and then the late attempt writes nothing |
| `NightlyRunProofs!Exclusive` | `NightlyRun` implements `Decisions` | `OneActive`; a claim maps to Acquire, a commit to Record, the rest to Release or a stutter |
| `BankrollProofs!OneBet` | one bet per selection and session | `Rows`: only a request that is done has a bet; the batch looks at the session it inserts into |
| `BankrollProofs!Settled` | bets stay, and end once | `Carried`: what a request remembers are versions of rows that are still there, so a batch over the pending ones replaces each by itself |
| `BankrollProofs!BudgetAlwaysOnOpenSession` | new bets go to an open session | `Placed` and `Started`: until the budget names it, a session is met by no bet and no other reset, so nobody closes it; a reset that closed the session of the budget is on its way to replace it |
| `BankrollProofs!BudgetAlwaysExplained` | the budget row is the account of its session | `BudgetInv`: the row accounts for the bets of its session (`Accounted`), and a bet pending or lost returns nothing (`NothingUnearned`); with returns below zero left out, what the session started from and gained covers its stakes: a placement looks at a balance that is no more than that, and a batch of settlements maps the bets one to one and gains no less |
| `ProspectiveRecorderProofs!NothingIsLost` | an accepted forecast has a safe file, or is in the table | `Inductive == Bounds /\ Jobs /\ Saving /\ Origins /\ Durable`: a file is deleted only for a forecast in the table, and accepted only when synced |
| `ProspectiveRecorderProofs!AlwaysWithinBounds`, `AlwaysOneJob` | queue, slots and attempts within their limits; one job per forecast | `Jobs`: the queue and the slots never share a forecast, and `tracked` has them all |
| `ProspectiveRecorderProofs!AlwaysInTime`, `DrainIsAlwaysTrue` | nothing late is accepted or stored; a shutdown that says drained is one | `Origins`: what may reach the table has a receipt of before its kickoff |
| `ProspectiveRecorderProofs!RecorderIsLog` | `ProspectiveRecorder` implements `ForecastLog` | one step of the log for each action; a crash closes the open promises of a process at once |
| `ProspectiveCollectionProofs!AlwaysOneForecastPerKey` | a match and kickoff is claimed once, by any number of runs | `Owned`: a row and its claim name each other, and a row never changes its claim (`Grows`) |
| `ProspectiveCollectionProofs!StoredIsAlwaysTrue` | a row that says stored is of a forecast of that kickoff that is there | `Offered`, `Local`, `Truthful`: a run remembers the claim it made; what is confirmed once stays so |
| `ChallengerAdoptionProofs!AlwaysOneHistory`, `RollbackIsEarned` | each deployment replaces the one it was compared with, on a verdict, once; a rollback after failures of that term | `History`, `RollbackEarned`: both are kept by growing sequences, and an adoption looks for the deployment in force in its own transaction |
| `ChallengerAdoptionProofs!TestIsNotChosen` | no outcome chooses the forecasts of a test | `Evidence`: forecasts precede their kickoff, labels follow it by the delay of results |

The two theorems about the bills relate the tables to a history that nobody keeps: in which order the provider served requests
that ran side by side. `BooksExplained` therefore says that *some* order exists, a position for each served request
(`ServiceOrder`), such that

- the use reported to a request falls short of today's by no more than the cost of those served after it;
- a request measured before another was admitted was served before it, which is what entitles the
  completion to count it as included in the header (`Included`, `HeaderAnchor`);
- in the month of a request, those served after it are requests the month is liable for.

The row of the month then corresponds to one position: its strictest value reports the use up to there, and its anchor
counts only requests measured up to there (`HeaderAt`). `used` and `remaining` may come from different headers, so only one of
them need fit the anchor; the minimum taken by `remaining()` makes that enough. TLC has checked these invariants, with
all orders enumerated, on the instance of `odds_rollover` before they were proved. The hypotheses are those of the run, and needed: `odds_late_billing`
refutes the first theorem without `~LateBilling`, and with `InitialUse > 0` nothing tells the store, before its first header, what
others used.

Money is a sum over rows, and induction over the size of a set takes an operator as a parameter, which the provers cannot
instantiate. `SumTheorems` does without: a set of counterexamples has a smallest member, by the well-foundedness of proper inclusion
on finite sets, so the sum of the library (`SumFunctionOnSet`) is shown to be the one function that is additive over single
elements. The rest follows from that: sums of unions, differences, renamed and compared terms.

`TypeOK` of `SmartOdds` and `ResearchLedger` is proved and not checked by a run; in `Bankroll`, `ProspectiveRecorder`,
`ProspectiveCollection` and `ChallengerAdoption` it is a conjunct of an invariant that the runs check (`BudgetExplained`,
`WithinBounds`, `StoredIsTrue`, `OneHistory`).

Only model-checked: the liveness properties `EveryCallEnds`, `EveryWagerEnds`, `AcceptedEndsStored`, `ForecastEndsShown` and
`EndsJudged`, as the prover does not reason about fairness and `ENABLED`.

## 6. Abstractions

Clocks of all processes and of the database agree. Identifiers drawn at random never collide.
JSON documents, hashes and messages are left out unless a guard compares them. Forecasts and quotes
are an input of the decisions, with any outcome. Match results are published, corrected and
moved at any instant by an environment that stands for the results refresh, the importers and an
administrator. Exposure and rounding are integer arithmetic where the code rounds floating-point
products; the difference is at most a cent below the limit.

## 7. Disagreements found

`odds_late_billing`: the carry-over query of `SmartOddsRequestStore.amounts` counts a paid request of
an earlier month while it has no result, or when its result was written in the current month. A fetch that
times out just before the boundary gets its unknown result in the old month and is dropped, while the
provider may bill it in the new one: for that time the store believes in credits that are gone. The
comment above the query claims that such requests stay charged. If the provider never bills after the timeout the
property holds, as `odds_rollover` shows.

`bankroll_sessions`: the migration of the budget sessions says that a reset closes the current session and
starts a new one (`migrations/003_budget_sessions.sql:1`). `createOrResetBudget` reads the session to close,
closes it, inserts the new one and replaces the budget row in separate statements. Two overlapping
resets read the same session (or none), and the one that writes last replaces the other's session without
closing it: that session stays active for ever. The budget itself stays sound (`BudgetExplained`), and so
does the choice of a session for new bets while the server lives (`BudgetOnOpenSession`).
