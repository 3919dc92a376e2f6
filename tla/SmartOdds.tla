------------------------------ MODULE SmartOdds ------------------------------
(***************************************************************************)
(* The persistent transport accounting of SmartOddsRequestStore: several   *)
(* processes share, through one database, the credits of one odds account, *)
(* a response cache and one lease per request key.  A call of execute() is *)
(* an admission transaction (repeated while another call holds the lease), *)
(* an HTTP fetch outside any transaction, and a completion transaction.    *)
(* Rows of different (provider, account_scope) pairs never meet, so one    *)
(* account is modelled.  A call admits at most one request: the request id *)
(* and the lease token are both named by the call.                         *)
(***************************************************************************)
EXTENDS Integers, FiniteSets

CONSTANTS
  Call,           \* calls of execute(), by any process
  Key,            \* request keys (the hash of requestKey)
  Input,          \* the requests a call may be given
  None,           \* SQL NULL, an absent row or an absent header
  MonthlyLimit,   \* monthlyLimit
  ReserveCredits, \* reserveCredits, kept from informational requests
  LeaseMs,        \* LEASE_MS
  FetchTimeoutMs, \* FETCH_TIMEOUT_MS
  WaitMs,         \* WAIT_MS
  EssentialAgeMs, \* the 300000 ms cap of normalize()
  MonthMs,        \* length of a planning month
  MaxCredits,     \* bound: credits one request may cost
  MaxTime,        \* bound: the last instant of the clock
  MaxResets,      \* bound: quota resets made by the provider
  InitialUse,     \* credits used on the account before the first call
  HeaderSets,     \* which quota headers a response may carry
  LateBilling     \* may the provider bill an ended request in a later month?

Request == [key : Key, expected : 0..MaxCredits, informational : BOOLEAN,
            maxAge : Nat, network : BOOLEAN]
Header == {"used", "remaining", "last"}

Month(t) == t \div MonthMs
Months == 0..Month(MaxTime)

(* The rows of the tables, and what passes between a call and the provider. *)
Time == 0..MaxTime
RequestRows == [month : Months, at : Time]
ResultRows == [charged : 0..MaxCredits,
               measured : 0..MaxCredits \union {None}, finishedAt : Time]
LeaseRows == [holder : Call, expires : Nat]
BudgetRows == [used : Nat \union {None}, remaining : Nat \union {None},
               anchor : Nat, confirmed : BOOLEAN]
Fetched == [ok : BOOLEAN, used : Nat \union {None}, remaining : Nat \union {None},
            cost : 0..MaxCredits \union {None}, at : Time]
Reply == [used : Nat, cost : 0..MaxCredits]


ASSUME NoneAssumption ==
  None \notin Nat \union Request \union RequestRows \union ResultRows
            \union LeaseRows \union BudgetRows \union Fetched \union Reply
ASSUME CallAssumption == IsFiniteSet(Call)
ASSUME InputAssumption == Input \subseteq Request
ASSUME NumberAssumption ==
  /\ MonthlyLimit \in Nat /\ ReserveCredits \in Nat /\ EssentialAgeMs \in Nat
  /\ LeaseMs \in Nat \ {0} /\ FetchTimeoutMs \in Nat /\ WaitMs \in Nat
  /\ MonthMs \in Nat \ {0} /\ MaxCredits \in Nat /\ InitialUse \in Nat
  /\ MaxTime \in Nat /\ MaxResets \in Nat
ASSUME HeaderAssumption == HeaderSets \subseteq SUBSET Header
ASSUME LateBillingAssumption == LateBilling \in BOOLEAN

VARIABLES
  now,      \* this.clock(), the same for every process
  pc,       \* where each call stands, or how it ended
  input,    \* the normalized request of each call
  started,  \* when each call started
  request,  \* smart_odds_requests: planning month and reserved_at
  result,   \* smart_odds_results, one row at most for each request
  lease,    \* smart_odds_leases, one row at most for each key
  cache,    \* smart_odds_cache: fetched_at of the row of each key
  budget,   \* smart_odds_budgets, one row at most for each month
  fetched,  \* what a call's fetch returned, until its completion commits
  billed,   \* external: credits used in the provider's current period
  reply,    \* external: the provider's answer to each request it served
  resets    \* external: quota resets so far

store == <<request, result, lease, cache, budget>>
local == <<pc, input, started, fetched>>
provider == <<billed, reply, resets>>
vars == <<now, store, local, provider>>

Ended == {"hit", "returned", "failed", "lost", "denied", "crashed"}

(* A timer set at t with delay d is due; at the bound of the clock, which  *)
(* stands for all later time, every timer is.                              *)
Due(t, d) == now - t >= d \/ now = MaxTime

Larger(a, b) == IF a > b THEN a ELSE b
Smaller(a, b) == IF a < b THEN a ELSE b

----------------------------------------------------------------------------
(* amounts(): SQL sums over the request and result rows.  A sum of credits *)
(* is the cardinality of its set of single credits.                        *)

Admitted == {c \in Call : request[c] # None}
Amount(res, c) == IF res[c] = None THEN input[c].expected ELSE res[c].charged
Credits(res, S) == {u \in S \X (1..MaxCredits) : u[2] <= Amount(res, u[1])}
Sum(res, S) == Cardinality(Credits(res, S))

InMonth(m) == {c \in Admitted : request[c].month = m}
Finished(res, m) == {c \in InMonth(m) : res[c] # None}
Outstanding(res, m) == {c \in InMonth(m) : res[c] = None}
Unmeasured(res, m) == {c \in Finished(res, m) : res[c].measured = None}
CarriedOver(res, m) ==
  {c \in Admitted : /\ request[c].month < m
                    /\ res[c] = None \/ res[c].finishedAt >= m * MonthMs}

Charged(res, m) == Sum(res, Finished(res, m))
Reserved(res, m) == Sum(res, Outstanding(res, m))
UnknownCharged(res, m) == Sum(res, Unmeasured(res, m))
(* Mutant: an earlier request stops counting as soon as it has a result. *)
CarryoverOutstanding(res, m) ==
  Sum(res, {c \in CarriedOver(res, m) : res[c] = None})

Carryover(res, m) == Sum(res, CarriedOver(res, m))

(* remaining(): the strictest of the local plan and the measured headers. *)
SinceHeader(res, row, m) ==
  UnknownCharged(res, m)
    + Larger(0, Charged(res, m) - UnknownCharged(res, m) - row.anchor)

(* Mutant: requests of earlier months are forgotten. *)
BoundsWithoutCarryover(res, row, m) ==
  LET due == Reserved(res, m)
      sinceHeader == SinceHeader(res, row, m) + due
  IN  {MonthlyLimit - Charged(res, m) - due}
        \union (IF row.used = None THEN {}
                ELSE {MonthlyLimit - row.used - sinceHeader})
        \union (IF row.remaining = None THEN {}
                ELSE {row.remaining - sinceHeader})

Bounds(res, row, m) ==
  LET due == Reserved(res, m) + Carryover(res, m)
      sinceHeader == SinceHeader(res, row, m) + due
  IN  {MonthlyLimit - Charged(res, m) - due}
        \union (IF row.used = None THEN {}
                ELSE {MonthlyLimit - row.used - sinceHeader})
        \union (IF row.remaining = None THEN {}
                ELSE {row.remaining - sinceHeader})

Available(res, row, m) ==
  LET bounds == Bounds(res, row, m)
  IN  Larger(0, CHOOSE b \in bounds : \A x \in bounds : b <= x)

----------------------------------------------------------------------------
(* The admission transaction of execute(). *)

MaxAge(c) ==
  IF ~input[c].informational /\ input[c].expected > 0
  THEN Smaller(input[c].maxAge, EssentialAgeMs)
  ELSE input[c].maxAge

Fresh(c) ==
  LET at == cache[input[c].key]
  IN  at # None /\ now - at <= MaxAge(c)

Live(k) == lease[k] # None /\ lease[k].expires > now

(* Mutant: INSERT OR REPLACE. *)
ReplaceResult(c, row) == [result EXCEPT ![c] = row]

(* INSERT OR IGNORE INTO smart_odds_results. *)
InsertResult(c, row) ==
  [result EXCEPT ![c] = IF @ = None THEN row ELSE @]

(* Mutant: an expired lease is taken over without settling its request. *)
AbandonSilently(k) == result

(* An expired lease charges its request as unknown, unless it has a result. *)
Abandon(k) ==
  IF lease[k] = None THEN result
  ELSE InsertResult(lease[k].holder,
         [charged |-> input[lease[k].holder].expected,
          measured |-> None, finishedAt |-> now])

(* Mutant: every new month starts with a full, confirmed allowance. *)
BudgetRowMinted(m) ==
  IF budget[m] # None THEN budget[m]
  ELSE [used |-> None, remaining |-> None, anchor |-> 0, confirmed |-> TRUE]

(* The month's budget row, copied from the latest earlier one when new. *)
BudgetRow(m) ==
  LET earlier == {p \in Months : p < m /\ budget[p] # None}
      prior == budget[CHOOSE p \in earlier : \A q \in earlier : q <= p]
  IN  IF budget[m] # None THEN budget[m]
      ELSE IF earlier = {}
      THEN [used |-> None, remaining |-> None, anchor |-> 0, confirmed |-> TRUE]
      ELSE [used |-> prior.used, remaining |-> prior.remaining,
            anchor |-> 0, confirmed |-> FALSE]

(* Mutant: informational requests may use the reserve. *)
AffordableNoReserve(c, res, row) ==
  input[c].expected > 0 =>
    row.confirmed /\ Available(res, row, Month(now)) >= input[c].expected

Affordable(c, res, row) ==
  input[c].expected > 0 =>
    /\ row.confirmed
    /\ Available(res, row, Month(now)) - input[c].expected
         >= (IF input[c].informational THEN ReserveCredits ELSE 0)

(* The call ends: its local variables go out of scope. *)
End(c, how) ==
  /\ pc' = [pc EXCEPT ![c] = how]
  /\ started' = [started EXCEPT ![c] = 0]
  /\ fetched' = [fetched EXCEPT ![c] = None]
  /\ UNCHANGED input

Begin(c) ==
  /\ pc[c] = "idle"
  /\ \E i \in Input : input' = [input EXCEPT ![c] = i]
  /\ pc' = [pc EXCEPT ![c] = "trying"]
  /\ started' = [started EXCEPT ![c] = now]
  /\ UNCHANGED <<now, store, fetched, provider>>

CacheHit(c) ==
  /\ pc[c] = "trying" /\ Fresh(c)
  /\ End(c, "hit")
  /\ UNCHANGED <<now, store, provider>>

DenyCacheOnly(c) ==
  /\ pc[c] = "trying" /\ ~Fresh(c) /\ ~input[c].network
  /\ End(c, "denied")
  /\ UNCHANGED <<now, store, provider>>

(* A call that finds a live lease polls again until WAIT_MS have passed. *)
GiveUpWaiting(c) ==
  /\ pc[c] = "trying" /\ ~Fresh(c) /\ input[c].network
  /\ Live(input[c].key) /\ Due(started[c], WaitMs)
  /\ End(c, "denied")
  /\ UNCHANGED <<now, store, provider>>

(* No live lease: settle the abandoned request, then admit or deny.  The   *)
(* settlement and the budget row are committed even when the request is    *)
(* denied.                                                                 *)
Decide(c) ==
  LET k == input[c].key
      m == Month(now)
      res == Abandon(k)
      row == BudgetRow(m)
      affordable == Affordable(c, res, row)
  IN  /\ pc[c] = "trying" /\ ~Fresh(c) /\ input[c].network /\ ~Live(k)
      /\ result' = res
      /\ budget' = [budget EXCEPT ![m] = row]
      /\ \/ /\ ~affordable
            /\ End(c, "denied")
            /\ UNCHANGED <<request, lease>>
         \/ /\ affordable
            /\ pc' = [pc EXCEPT ![c] = "fetching"]
            /\ started' = [started EXCEPT ![c] = 0]
            /\ UNCHANGED <<input, fetched>>
            /\ request' = [request EXCEPT ![c] = [month |-> m, at |-> now]]
            /\ lease' = [lease EXCEPT ![k] =
                           [holder |-> c, expires |-> now + LeaseMs]]
      /\ UNCHANGED <<now, cache, provider>>

----------------------------------------------------------------------------
(* The fetch: a race between the HTTP exchange and a timer. *)

Keep(c, ok, used, remaining, cost) ==
  /\ fetched' = [fetched EXCEPT ![c] =
                   [ok |-> ok, used |-> used, remaining |-> remaining,
                    cost |-> cost, at |-> now]]
  /\ pc' = [pc EXCEPT ![c] = "fetched"]
  /\ UNCHANGED <<now, store, input, started, provider>>

(* The answer arrives, a success or an error, with some quota headers. *)
Receive(c) ==
  /\ pc[c] = "fetching" /\ reply[c] # None
  /\ \E ok \in BOOLEAN, headers \in HeaderSets :
       LET sent(h, v) == IF h \in headers THEN v ELSE None
       IN  Keep(c, ok, sent("used", reply[c].used),
                sent("remaining", Larger(0, MonthlyLimit - reply[c].used)),
                sent("last", reply[c].cost))

(* The exchange fails with no answer; the request may still be served. *)
TransportFails(c) ==
  /\ pc[c] = "fetching"
  /\ Keep(c, FALSE, None, None, None)

(* Mutant: the timer only fires when an answer has come. *)
TimeoutWithAnswer(c) ==
  /\ pc[c] = "fetching" /\ reply[c] # None
  /\ Due(request[c].at, FetchTimeoutMs)
  /\ Keep(c, FALSE, None, None, None)

FetchTimeout(c) ==
  /\ pc[c] = "fetching" /\ Due(request[c].at, FetchTimeoutMs)
  /\ Keep(c, FALSE, None, None, None)

(* The process dies before the completion transaction commits. *)
Crash(c) ==
  /\ pc[c] \in {"fetching", "fetched"}
  /\ End(c, "crashed")
  /\ UNCHANGED <<now, store, provider>>

----------------------------------------------------------------------------
(* The completion transaction of execute(). *)

(* Mutant: the completion does not compare the token nor the expiry. *)
OwnsAlways(c) == TRUE

Owns(c) ==
  LET row == lease[input[c].key]
  IN  row # None /\ row.holder = c /\ row.expires > fetched[c].at

ResultRow(c) ==
  LET f == fetched[c]
  IN  [charged |-> IF f.cost = None THEN input[c].expected ELSE f.cost,
       measured |-> f.cost, finishedAt |-> f.at]

(* Measured requests that this call's quota header certainly includes. *)
Included(res, c) ==
  {d \in Finished(res, request[c].month) :
     /\ res[d].measured # None
     /\ res[d].finishedAt < request[c].at \/ d = c}

ConfirmsReset(c, row) ==
  LET f == fetched[c]
  IN  /\ ~row.confirmed /\ input[c].expected = 0
      /\ \/ f.used # None /\ (row.used = None \/ f.used < row.used)
         \/ f.remaining # None
              /\ (row.remaining = None \/ f.remaining > row.remaining)
         \/ f.used = 0 /\ f.remaining # None /\ f.remaining >= MonthlyLimit

Stricter(c, row) ==
  LET f == fetched[c]
  IN  \/ ConfirmsReset(c, row)
      \/ f.used # None /\ (row.used = None \/ f.used > row.used)
      \/ f.remaining # None
           /\ (row.remaining = None \/ f.remaining < row.remaining)

HeaderAnchor(c, res, row) ==
  LET m == request[c].month
  IN  Smaller(Charged(res, m) - UnknownCharged(res, m),
              Larger(row.anchor, Sum(res, Included(res, c))))

HeaderUpdate(c, res, row) ==
  LET f == fetched[c]
      reset == ConfirmsReset(c, row)
      strictest(old, new, pick(_, _)) ==
        IF reset THEN new ELSE IF new = None THEN old
        ELSE IF old = None THEN new ELSE pick(old, new)
  IN  [used |-> strictest(row.used, f.used, Larger),
       remaining |-> strictest(row.remaining, f.remaining, Smaller),
       anchor |-> HeaderAnchor(c, res, row),
       confirmed |-> row.confirmed \/ reset]

Complete(c) ==
  LET k == input[c].key
      m == request[c].month
      f == fetched[c]
  IN  /\ pc[c] = "fetched"
      /\ result' = InsertResult(c, ResultRow(c))
      /\ budget' = IF m = Month(now) /\ Stricter(c, budget[m])
                   THEN [budget EXCEPT ![m] = HeaderUpdate(c, result', @)]
                   ELSE budget
      /\ cache' = IF f.ok /\ Owns(c)
                  THEN [cache EXCEPT ![k] = f.at] ELSE cache
      /\ lease' = IF lease[k] # None /\ lease[k].holder = c
                  THEN [lease EXCEPT ![k] = None] ELSE lease
      /\ End(c, IF ~f.ok THEN "failed"
                ELSE IF Owns(c) THEN "returned" ELSE "lost")
      /\ UNCHANGED <<now, request, provider>>

----------------------------------------------------------------------------
(* The clock, and the provider as the code's headers and comments see it.  *)

Tick ==
  /\ now < MaxTime
  /\ now' = now + 1
  /\ UNCHANGED <<store, local, provider>>

(* A request not yet served may be billed, even after its caller gave up;  *)
(* in a later month than the one its fetch ended in, only if LateBilling.  *)
FetchEndedEarlier(c) ==
  \/ fetched[c] # None /\ Month(fetched[c].at) < Month(now)
  \/ result[c] # None /\ Month(result[c].finishedAt) < Month(now)

MayBeBilled ==
  {c \in Admitted : /\ reply[c] = None
                    /\ LateBilling \/ ~FetchEndedEarlier(c)}

ProviderServes(c) ==
  /\ c \in MayBeBilled
  /\ \E cost \in 0..input[c].expected :
       /\ billed' = billed + cost
       /\ reply' = [reply EXCEPT ![c] = [used |-> billed', cost |-> cost]]
  /\ UNCHANGED <<now, store, local, resets>>

ProviderResets ==
  /\ resets < MaxResets
  /\ resets' = resets + 1
  /\ billed' = 0
  /\ UNCHANGED <<now, store, local, reply>>

Init ==
  /\ now = 0
  /\ pc = [c \in Call |-> "idle"]
  /\ input = [c \in Call |-> None]
  /\ started = [c \in Call |-> 0]
  /\ request = [c \in Call |-> None]
  /\ result = [c \in Call |-> None]
  /\ lease = [k \in Key |-> None]
  /\ cache = [k \in Key |-> None]
  /\ budget = [m \in Months |-> None]
  /\ fetched = [c \in Call |-> None]
  /\ billed = InitialUse
  /\ reply = [c \in Call |-> None]
  /\ resets = 0

Admission(c) ==
  CacheHit(c) \/ DenyCacheOnly(c) \/ GiveUpWaiting(c) \/ Decide(c)

Next ==
  \/ \E c \in Call :
       \/ Begin(c) \/ Admission(c) \/ Receive(c) \/ TransportFails(c)
       \/ FetchTimeout(c) \/ Crash(c) \/ Complete(c) \/ ProviderServes(c)
  \/ Tick
  \/ ProviderResets

Spec == Init /\ [][Next]_vars

(* Timers fire, the write queue drains and an admission that can be decided *)
(* is decided; nothing is assumed of the provider.                          *)
Fairness ==
  /\ WF_vars(Tick)
  /\ \A c \in Call : /\ WF_vars(Admission(c))
                     /\ WF_vars(FetchTimeout(c))
                     /\ WF_vars(Complete(c))

FairSpec == Spec /\ Fairness

----------------------------------------------------------------------------
(* Properties. *)

(* Every variable keeps the type of its table, local variable or header.   *)
TypeOK ==
  /\ now \in Time
  /\ pc \in [Call -> {"idle", "trying", "fetching", "fetched"} \union Ended]
  /\ input \in [Call -> Input \union {None}]
  /\ started \in [Call -> Time]
  /\ request \in [Call -> RequestRows \union {None}]
  /\ result \in [Call -> ResultRows \union {None}]
  /\ lease \in [Key -> LeaseRows \union {None}]
  /\ cache \in [Key -> Time \union {None}]
  /\ budget \in [Months -> BudgetRows \union {None}]
  /\ fetched \in [Call -> Fetched \union {None}]
  /\ billed \in Nat
  /\ reply \in [Call -> Reply \union {None}]
  /\ resets \in Nat

(* The rows of the store fit the calls that wrote them: a call has a       *)
(* request row exactly from its admission on, a lease row names a request  *)
(* of its key, a request's month has a budget row, and no charge exceeds   *)
(* the estimate that was reserved for it.                                  *)
RowsFitCalls ==
  /\ \A c \in Call :
       /\ pc[c] = "idle" <=> input[c] = None
       /\ pc[c] \in {"idle", "trying"} => request[c] = None
       /\ pc[c] \in {"fetching", "fetched"} => request[c] # None
       /\ pc[c] = "fetched" <=> fetched[c] # None
       /\ request[c] = None => result[c] = None /\ reply[c] = None
       /\ request[c] # None =>
            /\ request[c].at <= now /\ request[c].month = Month(request[c].at)
            /\ budget[request[c].month] # None
       /\ result[c] # None => /\ result[c].finishedAt <= now
                              /\ result[c].charged <= input[c].expected
       /\ fetched[c] # None =>
            /\ fetched[c].at <= now
            /\ fetched[c].cost # None => fetched[c].cost <= input[c].expected
       /\ reply[c] # None => reply[c].cost <= input[c].expected
  /\ \A k \in Key : lease[k] # None =>
       /\ request[lease[k].holder] # None
       /\ input[lease[k].holder].key = k

(* A request that has no result row holds the lease row of its key, so a   *)
(* key never has two requests whose credits are still reserved, whatever   *)
(* crashes, expires or answers late.                                       *)
UnresolvedHoldsLease ==
  \A c \in Admitted : result[c] = None =>
    lease[input[c].key] # None /\ lease[input[c].key].holder = c

(* The credits of this month's requests and of those carried over into it, *)
(* spent or reserved, stay within the monthly limit.                       *)
LiabilityWithinLimit ==
  LET m == Month(now)
  IN  Sum(result, InMonth(m) \union CarriedOver(result, m)) <= MonthlyLimit

(* Informational requests of one month, however they interleave and end,   *)
(* leave the reserve to the essential ones.                                *)
InformationalLeavesReserve ==
  \A m \in Months :
    Sum(result, {c \in InMonth(m) : input[c].informational})
      <= Larger(0, MonthlyLimit - ReserveCredits)

(* Once a quota header has been recorded for the month, the credits the    *)
(* store believes available never exceed what the provider has left when   *)
(* every request that may still be billed is billed in full.               *)
AvailableIsConservative ==
  LET row == budget[Month(now)]
  IN  row # None /\ row.confirmed /\ (row.used # None \/ row.remaining # None)
        => Available(result, row, Month(now))
             <= Larger(0, MonthlyLimit - billed - Sum(result, MayBeBilled))

(* On an account used by this store alone the provider never bills more    *)
(* than the monthly limit between two of its resets, wherever they fall.   *)
BilledWithinLimit == billed <= MonthlyLimit

(* A cached response is only replaced by a later one: no late answer, of a *)
(* call that lost its lease, takes the cache back.                         *)
CacheNeverGoesBack ==
  [][\A k \in Key : cache[k] # None =>
       cache'[k] # None /\ cache'[k] >= cache[k]]_vars

(* A result, once recorded, is never rewritten: neither by the late answer *)
(* of an abandoned request nor by the settlement of its expired lease.     *)
ResultsAreFinal ==
  [][\A c \in Call : result[c] # None => result'[c] = result[c]]_vars

(* A call that waits for another call's lease ends; so does one that       *)
(* fetches, unless its process dies.                                       *)
EveryCallEnds == \A c \in Call : pc[c] = "trying" ~> pc[c] \in Ended
=============================================================================
