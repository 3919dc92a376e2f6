----------------------- MODULE ProspectiveCollection -----------------------
(* The collector of the prospective forecasts of model A: runs that overlap,   *)
(* die and come back, a ledger with one row per protocol, match and kickoff,   *)
(* and a recorder it knows only through ForecastLog.  One protocol; matches    *)
(* move to other kickoffs and are played while the runs work on them.          *)
EXTENDS Integers, Sequences, FiniteSets

CONSTANTS Runs,           \* the processes that may collect at the same time
          Steady,         \* those that are started again and again and go on
          Match, Kickoffs,
          Opens, Closes,  \* the window: so long before the kickoff it opens and closes
          None,
          MaxTime, MaxClaims, MaxMoves, MaxCrashes   \* bounds of the exploration

ASSUME CollectionAssumption ==
    /\ Steady \subseteq Runs
    /\ Kickoffs \subseteq Nat /\ {Opens, Closes} \subseteq Nat /\ Closes <= Opens
    /\ {MaxTime, MaxClaims, MaxMoves, MaxCrashes} \subseteq Nat

Key == Match \X Kickoffs      \* primary key of the ledger within the protocol
Claim == 1..MaxClaims         \* claim_id, which is also that of its forecast

VARIABLES
    now,
    kickoff, played,          \* the fixtures, as the sources have them
    ledger,                   \* model_a_collection_ledger
    claims,                   \* who made which claim, and when
    forecast,                 \* of a claim: time and kickoff the recorder was given
    receipt, completion, table,   \* see ForecastLog
    pc, mem,                  \* of a run: the next statement, and what it remembers
    moves, crashes

fixtureVars == <<kickoff, played, moves>>
logVars == <<receipt, completion, table>>
vars == <<now, fixtureVars, ledger, claims, forecast, logVars, pc, mem, crashes>>

Log == INSTANCE ForecastLog WITH Record <- Claim

States == {"observed", "expired", "claimed", "skipped", "unconfirmed", "stored"}
Row == [state : States, claim : Claim \cup {None}]
ASSUME NoneAssumption == None \notin Key \union Claim \union Row \union [at : Nat, kickoff : Kickoffs]
Steps == {"idle", "scanning", "claiming", "confirming", "rereading", "predicting",
          "noting", "awaiting"}
Blank == [todo |-> {}, key |-> None, at |-> 0, claim |-> None]

Init ==
    /\ now = 0 /\ moves = 0 /\ crashes = 0
    /\ kickoff \in [Match -> Kickoffs] /\ played = {}
    /\ ledger = [k \in Key |-> None]
    /\ claims = <<>>
    /\ forecast = [c \in Claim |-> None]
    /\ Log!LogInit
    /\ pc = [r \in Runs |-> "idle"] /\ mem = [r \in Runs |-> Blank]

InWindow(t, k) == k - Opens <= t /\ t <= k - Closes

-----------------------------------------------------------------------------
(* One run.                                                                  *)

Goto(r, step) == pc' = [pc EXCEPT ![r] = step]
Remember(r, rest) == mem' = [mem EXCEPT ![r] = rest]
Leave(r) == /\ Remember(r, [Blank EXCEPT !.todo = mem[r].todo])
            /\ Goto(r, IF mem[r].todo = {} THEN "idle" ELSE "scanning")
SetState(key, state) == ledger' = [ledger EXCEPT ![key].state = state]
Untouched == UNCHANGED <<now, fixtureVars, crashes>>
NoCalls == UNCHANGED <<claims, forecast, logVars>>

\* The page, or the calendar: the fixtures as they are now.
Start(r) ==
    /\ pc[r] = "idle"
    /\ Remember(r, [Blank EXCEPT !.todo = {<<m, kickoff[m], m \in played>> : m \in Match}])
    /\ Goto(r, "scanning")
    /\ Untouched /\ NoCalls /\ UNCHANGED ledger

Reason(t, k, result) ==
    IF result THEN "result_present" ELSE IF t < k - Opens THEN "not_due"
    ELSE IF t > k - Closes THEN "window_expired" ELSE "eligible"

\* A row that has been claimed and is not stored is looked at again.  An observed row
\* is claimed, marked, or left for later.
Observed == [state |-> "observed", claim |-> None]
Expires(row, reason) == row.state = "observed" /\ reason = "window_expired"
StepForOnce(row, reason) ==
    IF row.state = "observed" /\ reason = "eligible" THEN "claiming" ELSE "done"
StepFor(row, reason) ==
    IF row.state = "observed" /\ reason = "eligible" THEN "claiming"
    ELSE IF row.claim # None /\ row.state # "stored" THEN "confirming" ELSE "done"

\* The clock is read once for a fixture, and its time serves the claim as well; then
\* INSERT OR IGNORE, the row that is there, and the UPDATE of a window that closed.
Examine(r) ==
    /\ pc[r] = "scanning"
    /\ \E f \in mem[r].todo :
          LET key == <<f[1], f[2]>>
              row == IF ledger[key] = None THEN Observed ELSE ledger[key]
              rest == mem[r].todo \ {f}
              reason == Reason(now, f[2], f[3])
          IN  /\ ledger' = [ledger EXCEPT ![key] =
                    IF Expires(row, reason) THEN [row EXCEPT !.state = "expired"] ELSE row]
              /\ IF StepFor(row, reason) = "done"
                 THEN /\ Remember(r, [Blank EXCEPT !.todo = rest])
                      /\ Goto(r, IF rest = {} THEN "idle" ELSE "scanning")
                 ELSE /\ Remember(r, [todo |-> rest, key |-> key, at |-> now, claim |-> row.claim])
                      /\ Goto(r, StepFor(row, reason))
    /\ Untouched /\ NoCalls

\* confirmed: a forecast of this very claim, for this kickoff, made in the window.
ConfirmedOfAny(c, key) ==
    \E d \in table : /\ claims[d].key[1] = key[1] /\ forecast[d].kickoff = key[2]
                     /\ claims[c].at <= forecast[d].at /\ InWindow(forecast[d].at, key[2])
Confirmed(c, key) ==
    /\ c \in table
    /\ claims[c].key[1] = key[1] /\ forecast[c].kickoff = key[2]
    /\ claims[c].at <= forecast[c].at /\ InWindow(forecast[c].at, key[2])

\* An earlier claim, whose forecast may have arrived since.  What is confirmed once
\* stays confirmed, so reading and writing need not be told apart, here and in Close.
Reconfirm(r) ==
    /\ pc[r] = "confirming"
    /\ LET key == mem[r].key
       IN  IF Confirmed(mem[r].claim, key)
           THEN SetState(key, "stored") ELSE UNCHANGED ledger
    /\ Leave(r)
    /\ Untouched /\ NoCalls

\* The UPDATE of the claim: it counts if the row is still observed.
FreeAlways(key) == TRUE
Free(key) == ledger[key].state = "observed"
TakeClaim(r) ==
    /\ pc[r] = "claiming"
    /\ LET key == mem[r].key
           c == Len(claims) + 1
       IN  \/ /\ Free(key) /\ c <= MaxClaims
              /\ claims' = Append(claims, [key |-> key, run |-> r, at |-> mem[r].at])
              /\ ledger' = [ledger EXCEPT ![key] =
                              [state |-> "claimed", claim |-> c]]
              /\ Remember(r, [mem[r] EXCEPT !.claim = c, !.at = 0]) /\ Goto(r, "rereading")
           \/ ~Free(key) /\ Leave(r) /\ UNCHANGED <<claims, ledger>>
    /\ Untouched /\ UNCHANGED <<forecast, logVars>>

\* The fixture, or the evidence of the calendar, is read again; the run may also
\* have been told to stop.
AsListed(key) == kickoff[key[1]] = key[2] /\ key[1] \notin played
Reread(r) ==
    /\ pc[r] = "rereading"
    /\ \/ /\ AsListed(mem[r].key) /\ InWindow(now, mem[r].key[2])
          /\ Goto(r, "predicting") /\ UNCHANGED <<ledger, mem>>
       \/ SetState(mem[r].key, "skipped") /\ Leave(r)
    /\ Untouched /\ NoCalls

Unconfirm(r) == SetState(mem[r].key, "unconfirmed") /\ Leave(r)

\* predict hands the forecast to the recorder, with the kickoff of that moment, or
\* throws before it does.  The collector treats all refusals alike, and a pending receipt
\* like one that is asked for and accepted: one of each will do.
Predict(r) ==
    /\ pc[r] = "predicting"
    /\ LET c == mem[r].claim
           m == mem[r].key[1]
       IN  \/ /\ Log!Offer(c)
              /\ receipt'[c] \in {"asked", "rejected"}
              /\ receipt'[c] # "rejected" => m \notin played /\ now < kickoff[m]
              /\ forecast' = IF receipt'[c] = "rejected" THEN forecast
                             ELSE [forecast EXCEPT ![c] = [at |-> now, kickoff |-> kickoff[m]]]
              /\ Goto(r, "noting") /\ UNCHANGED <<ledger, mem>>
           \/ Unconfirm(r) /\ UNCHANGED <<forecast, logVars>>
    /\ Untouched /\ UNCHANGED claims

\* The receipt goes into the ledger, unless predict throws after it was given.
Note(r) ==
    /\ pc[r] = "noting" /\ receipt[mem[r].claim] # "asked"
    /\ \/ SetState(mem[r].key, "unconfirmed") /\ Goto(r, "awaiting") /\ UNCHANGED mem
       \/ Unconfirm(r)
    /\ Untouched /\ NoCalls

\* The completion of the receipt; a refusal is complete at once.
Verdict(c, key) ==
    IF completion[c] = "stored" /\ Confirmed(c, key) THEN "stored" ELSE "unconfirmed"
Close(r) ==
    /\ pc[r] = "awaiting" /\ completion[mem[r].claim] # "open"
    /\ SetState(mem[r].key, Verdict(mem[r].claim, mem[r].key))
    /\ Leave(r)
    /\ Untouched /\ NoCalls

\* The process dies, or a statement of its own fails: the run ends where it is.
Crash(r) ==
    /\ pc[r] # "idle" /\ crashes < MaxCrashes
    /\ crashes' = crashes + 1
    /\ Log!Forget({c \in DOMAIN claims : claims[c].run = r})
    /\ Remember(r, Blank) /\ Goto(r, "idle")
    /\ UNCHANGED <<now, fixtureVars, ledger, claims, forecast>>

-----------------------------------------------------------------------------
(* The rest of the system.                                                   *)

Recorder ==
    /\ \E c \in Claim : Log!Reply(c) \/ Log!Resolve(c) \/ (Log!Store(c) /\ c \notin table)
    /\ UNCHANGED <<now, fixtureVars, ledger, claims, forecast, pc, mem, crashes>>

Move(m) ==
    /\ moves < MaxMoves /\ moves' = moves + 1
    /\ \E k \in Kickoffs \ {kickoff[m]} : kickoff' = [kickoff EXCEPT ![m] = k]
    /\ UNCHANGED <<now, played, ledger, claims, forecast, logVars, pc, mem, crashes>>
Play(m) ==
    /\ now >= kickoff[m] /\ played' = played \cup {m}
    /\ UNCHANGED <<now, kickoff, moves, ledger, claims, forecast, logVars, pc, mem, crashes>>
Tick ==
    /\ now < MaxTime /\ now' = now + 1
    /\ UNCHANGED <<fixtureVars, ledger, claims, forecast, logVars, pc, mem, crashes>>

Proceed(r) ==
    \/ Examine(r) \/ Reconfirm(r)
    \/ TakeClaim(r) \/ Reread(r) \/ Predict(r) \/ Note(r) \/ Close(r)

Next ==
    \/ \E r \in Runs : Start(r) \/ Proceed(r) \/ Crash(r)
    \/ Recorder \/ Tick
    \/ \E m \in Match : Move(m) \/ Play(m)

Spec == Init /\ [][Next]_vars

\* The workflow starts a steady run every half hour, which goes on while its process
\* lives; the others may stop anywhere.  The recorder answers its callers.
Answers == /\ \E c \in Claim : Log!Reply(c) \/ Log!Resolve(c)
           /\ UNCHANGED <<now, fixtureVars, ledger, claims, forecast, pc, mem, crashes>>
Fairness == WF_vars(Answers) /\ \A r \in Steady : WF_vars(Start(r) \/ Proceed(r))
FairSpec == Spec /\ Fairness

-----------------------------------------------------------------------------
(* Properties.                                                               *)

TypeOK ==
    /\ now \in 0..MaxTime /\ moves \in 0..MaxMoves /\ crashes \in 0..MaxCrashes
    /\ kickoff \in [Match -> Kickoffs] /\ played \subseteq Match
    /\ ledger \in [Key -> Row \cup {None}]
    /\ \A key \in Key : ledger[key] # None =>
          (ledger[key].claim = None <=> ledger[key].state \in {"observed", "expired"})
    /\ Len(claims) <= MaxClaims
    /\ \A c \in DOMAIN claims : claims[c] \in [key : Key, run : Runs, at : 0..MaxTime]
    /\ forecast \in [Claim -> [at : 0..MaxTime, kickoff : Kickoffs] \cup {None}]
    /\ pc \in [Runs -> Steps]
    /\ \A r \in Runs : mem[r].key \in Key \cup {None}

\* However many runs overlap, die and retry, a match has one forecast of the protocol
\* for each kickoff it was claimed under.
OneForecastPerKey ==
    \A c, d \in table : claims[c].key = claims[d].key => c = d

\* The rows keep their types, and a row that says stored names a forecast of its own
\* claim that the table holds, made in the window of its kickoff and after the claim.
StoredIsTrue ==
    /\ TypeOK
    /\ \A key \in Key :
          ledger[key] # None /\ ledger[key].state = "stored" =>
             LET c == ledger[key].claim
             IN  /\ c \in table /\ claims[c].key = key
                 /\ forecast[c].kickoff = key[2] /\ InWindow(forecast[c].at, key[2])
                 /\ claims[c].at <= forecast[c].at

\* A forecast that is there for the kickoff the match keeps is shown by the ledger in
\* the end, although the run that asked for it died, was told of an error, or wrote
\* its own verdict over that of a later run.
ForecastEndsShown ==
    \A c \in Claim :
       <>[](c \in table /\ Confirmed(c, claims[c].key)
              /\ kickoff[claims[c].key[1]] = claims[c].key[2])
         => <>[](c \in table => ledger[claims[c].key].state = "stored")
=============================================================================
