------------------------------- MODULE Bankroll -------------------------------
(***************************************************************************)
(* The shared bankroll of the deterministic model: one budget row, the     *)
(* sessions it went through and the bets of each.  Requests of the HTTP    *)
(* interface place a bet, settle one by hand, settle what was played, or   *)
(* reset the budget; one server process interleaves them at every await,   *)
(* and may die between two statements.  A placement and a settlement are   *)
(* one batch each, a reset is four statements.                             *)
(***************************************************************************)
EXTENDS Integers, FiniteSets, Functions

CONSTANTS
  Request,        \* HTTP requests, each served once
  Resets,         \* the requests that reset the budget; the others use it
  Key,            \* a match, market and selection
  Odds,           \* decimal odds of a key, in hundredths
  None,           \* no budget row, no session, no result
  Stakes,         \* amounts staked, in cents
  ManualReturns,  \* returns a request enters for a bet won, in cents; of any sign
  Amounts,        \* amounts of a reset, in cents
  CrashLimit      \* bound: 0 when the server process never dies, else 1

Ended == {"WON", "LOST", "VOID"}

ASSUME BankrollAssumption ==
  /\ IsFiniteSet(Request) /\ Resets \subseteq Request
  /\ Stakes \subseteq Nat \ {0} /\ ManualReturns \subseteq Int /\ Amounts \subseteq Nat \ {0}
  /\ Odds \in [Key -> Nat] /\ \A k \in Key : Odds[k] > 100
  /\ CrashLimit \in {0, 1} /\ None \notin Request \union Ended

VARIABLES
  result,    \* by key, how the selection ends, None until it can be told
  budget,    \* the row of budgets, None before the first reset
  sessions,  \* rows of budget_sessions
  bets,      \* rows of bets
  at,        \* by request, where it is
  mem,       \* by request, the bets it read, then the settlements it computed
  current,   \* by reset, the session it read as the active one
  crashes    \* deaths of the server so far
tables == <<budget, sessions, bets>>
vars == <<result, tables, at, mem, current, crashes>>

(* Session and bet ids are random: each is known by the request that made it. *)
Session == [id : Resets, initial : Amounts, status : {"active", "closed"}]
Budget == [session : Resets, total : Amounts, available : Int,
           bets : Nat, staked : Nat, won : Int, lost : Nat]
Bet == [id : Request \ Resets, session : Resets, key : Key, stake : Stakes,
        status : {"PENDING"} \union Ended, returned : Int]
UserPlaces == {"new", "listed", "settling", "byHand", "placing", "done"}
ResetPlaces == {"new", "read", "closed", "opened", "done"}

Init ==
  /\ result = [k \in Key |-> None]
  /\ budget = None /\ sessions = {} /\ bets = {}
  /\ at = [r \in Request |-> "new"]
  /\ mem = [r \in Request |-> {}]
  /\ current = [r \in Resets |-> None]
  /\ crashes = 0

Goto(r, p, m) == at' = [at EXCEPT ![r] = p] /\ mem' = [mem EXCEPT ![r] = m]
OfSession(s, B) == {b \in B : b.session = s}
Staked(S) == SumFunction([b \in S |-> b.stake])
Returned(S) == SumFunction([b \in S |-> b.returned])

-----------------------------------------------------------------------------
(* Placement. *)

(* Mutant: only the budget row is there; amount and duplicates were checked *)
(* before the await.                                                        *)
AdmissibleBefore(k, stake) == budget # None
Admissible(k, stake) ==
  /\ budget # None
  /\ budget.available >= stake
  /\ \A b \in OfSession(budget.session, bets) : b.key # k

(* The debit looks for the row the batch inserted. *)
Debited(stake, placed) ==
  IF placed THEN [budget EXCEPT !.available = @ - stake, !.bets = @ + 1, !.staked = @ + stake]
            ELSE budget

PlaceBet(r) ==
  /\ at[r] = "placing"
  /\ \E k \in Key, stake \in Stakes :
       /\ bets' = IF Admissible(k, stake)
                  THEN bets \union {[id |-> r, session |-> budget.session, key |-> k, stake |-> stake,
                                     status |-> "PENDING", returned |-> 0]}
                  ELSE bets
       /\ budget' = Debited(stake, Admissible(k, stake))
  /\ Goto(r, "done", {})
  /\ UNCHANGED <<result, sessions, current, crashes>>

-----------------------------------------------------------------------------
(* Settlement. *)

(* What a verdict returns, to the nearest cent. *)
Return(b, verdict) == CASE verdict = "WON" -> (b.stake * Odds[b.key] + 50) \div 100
                        [] verdict = "VOID" -> b.stake
                        [] verdict = "LOST" -> 0

(* The totals of the bets B of the active session; mutant: what the bets of *)
(* every session returned.                                                  *)
Totals(S, R) ==
  [budget EXCEPT
     !.available = budget.total - Staked(S) + Returned({b \in R : b.status \in {"WON", "VOID"}}),
     !.bets = Cardinality(S),
     !.staked = Staked(S),
     !.won = Returned({b \in S : b.status = "WON"}),
     !.lost = Staked({b \in S : b.status = "LOST"})]
RecomputedFromAll(B) == IF budget = None THEN None ELSE Totals(OfSession(budget.session, B), B)
Recomputed(B) ==
  IF budget = None THEN None
  ELSE LET S == OfSession(budget.session, B) IN Totals(S, S)

(* syncPendingBets: the pending bets of the active session; placeBet runs  *)
(* it first.                                                               *)
ListPending(r) ==
  /\ at[r] = "new" /\ r \notin Resets
  /\ Goto(r, "listed", IF budget = None THEN {}
                       ELSE {b \in OfSession(budget.session, bets) : b.status = "PENDING"})
  /\ UNCHANGED <<result, tables, current, crashes>>

Verdict(b, s, cents) == [b EXCEPT !.status = s, !.returned = cents]

(* The results are read bet by bet: any of those that can be told are seen. *)
ReadResults(r) ==
  /\ at[r] = "listed"
  /\ \E seen \in SUBSET {b \in mem[r] : result[b.key] # None} :
       \/ /\ seen # {}
          /\ Goto(r, "settling", {Verdict(b, result[b.key], Return(b, result[b.key])) : b \in seen})
       \/ /\ seen = {}
          /\ Goto(r, "placing", {}) \/ Goto(r, "done", {})
  /\ UNCHANGED <<result, tables, current, crashes>>

(* settleBet: the bet is read, in whatever session, before it is settled.  *)
(* The return a request enters is taken as it is, and as 0 when it is no   *)
(* number; a request may also leave it to the odds.                        *)
ReadBet(r) ==
  /\ at[r] = "new" /\ r \notin Resets
  /\ \E b \in {c \in bets : c.status = "PENDING"} :
       \/ Goto(r, "byHand", {Verdict(b, "LOST", 0)})
       \/ \E cents \in ManualReturns \union {0, Return(b, "WON")} :
            Goto(r, "byHand", {Verdict(b, "WON", cents)})
  /\ UNCHANGED <<result, tables, current, crashes>>

(* The settlements whose bet is still pending; mutant: all of them. *)
StillOpenAll(L) == L
StillOpen(L) == {l \in L : \E b \in bets : b.id = l.id /\ b.status = "PENDING"}

(* The rows of bets once L is written. *)
Written(L) == {b \in bets : \A l \in L : l.id # b.id} \union L

(* settlePendingBetsAtomically, settlePendingBetAtomically: one batch. *)
SettleBets(r) ==
  /\ at[r] \in {"settling", "byHand"}
  /\ bets' = Written(StillOpen(mem[r]))
  /\ budget' = Recomputed(bets')
  /\ \/ at[r] = "settling" /\ Goto(r, "placing", {})
     \/ Goto(r, "done", {})
  /\ UNCHANGED <<result, sessions, current, crashes>>

-----------------------------------------------------------------------------
(* initBudget: deleteBetsByUser archives the bets without a session, and   *)
(* every bet is placed in one; then createOrResetBudget.                   *)

ReadSession(r) ==
  /\ at[r] = "new" /\ r \in Resets
  /\ current' = [current EXCEPT ![r] = IF budget = None THEN None ELSE budget.session]
  /\ Goto(r, "read", {})
  /\ UNCHANGED <<result, tables, crashes>>

(* The sessions a reset closes; mutant: all, whoever opened them. *)
ClosedByAll(r) == sessions
ClosedBy(r) == {s \in sessions : s.id = current[r]}

CloseSession(r) ==
  /\ at[r] = "read"
  /\ sessions' = (sessions \ ClosedBy(r)) \union {[s EXCEPT !.status = "closed"] : s \in ClosedBy(r)}
  /\ Goto(r, "closed", {})
  /\ UNCHANGED <<result, budget, bets, current, crashes>>

OpenSession(r) ==
  /\ at[r] = "closed"
  /\ \E a \in Amounts :
       sessions' = sessions \union {[id |-> r, initial |-> a, status |-> "active"]}
  /\ Goto(r, "opened", {})
  /\ UNCHANGED <<result, budget, bets, current, crashes>>

ResetRow(s) == [session |-> s.id, total |-> s.initial, available |-> s.initial,
                bets |-> 0, staked |-> 0, won |-> 0, lost |-> 0]

ResetBudget(r) ==
  /\ at[r] = "opened"
  /\ \E s \in sessions : s.id = r /\ budget' = ResetRow(s)
  /\ Goto(r, "done", {})
  /\ UNCHANGED <<result, sessions, bets, current, crashes>>

-----------------------------------------------------------------------------
(* The sources tell how a selection ended, and may correct it later. *)
Publish(k) ==
  /\ \E v \in Ended : result' = [result EXCEPT ![k] = v]
  /\ UNCHANGED <<tables, at, mem, current, crashes>>

(* The server process dies with the requests it serves. *)
Crash ==
  /\ crashes < CrashLimit
  /\ crashes' = crashes + 1
  /\ at' = [r \in Request |-> IF at[r] = "new" THEN "new" ELSE "done"]
  /\ mem' = [r \in Request |-> {}]
  /\ UNCHANGED <<result, tables, current>>

Serve(r) == \/ ListPending(r) \/ ReadResults(r) \/ ReadBet(r) \/ SettleBets(r) \/ PlaceBet(r)
            \/ ReadSession(r) \/ CloseSession(r) \/ OpenSession(r) \/ ResetBudget(r)

Next == (\E r \in Request : Serve(r)) \/ (\E k \in Key : Publish(k)) \/ Crash

Spec == Init /\ [][Next]_vars

-----------------------------------------------------------------------------
(* Properties. *)

(* The types, and the primary keys of the two tables. *)
TypeOK ==
  /\ result \in [Key -> Ended \union {None}]
  /\ budget \in Budget \union {None} /\ sessions \subseteq Session /\ bets \subseteq Bet
  /\ \A b, c \in bets : b.id = c.id => b = c
  /\ \A s, t \in sessions : s.id = t.id => s = t
  /\ \A r \in Request : at[r] \in IF r \in Resets THEN ResetPlaces ELSE UserPlaces
  /\ mem \in [Request -> SUBSET Bet]
  /\ current \in [Resets -> Resets \union {None}] /\ crashes \in 0..CrashLimit

(* The budget row, moved by debits at placements, by recomputations at     *)
(* settlements and by resets, at any time accounts for its own session:    *)
(* what it started from, less what is pending, plus what each ended bet    *)
(* won or lost.  No bet of an earlier session, however late it is settled, *)
(* moves the money of this one.  Requests that race never stake more than  *)
(* it has: only a return entered below zero, which settleBet takes, can    *)
(* overdraw it, and by no more than these returns come to.                 *)
BudgetExplained ==
  /\ TypeOK
  /\ budget # None =>
       LET S == OfSession(budget.session, bets)
           pending == {b \in S : b.status = "PENDING"}
       IN  /\ budget.available = budget.total - Staked(pending)
                                 + SumFunction([b \in S \ pending |-> b.returned - b.stake])
           /\ budget.available >= Returned({b \in S : b.returned < 0})
           /\ budget.bets = Cardinality(S) /\ budget.staked = Staked(S)
           /\ \E s \in sessions : s.id = budget.session /\ s.initial = budget.total

(* A session holds one bet on a selection, whatever raced to place it and  *)
(* whichever session was opened meanwhile (placeBetAtomically).            *)
OneBetPerSelection ==
  \A b, c \in bets : b.session = c.session /\ b.key = c.key => b = c

(* A bet, once placed, stays where it was placed with its stake; once      *)
(* ended, it keeps its verdict and return for ever, however many requests  *)
(* computed another from a result since corrected.                         *)
SettledOnce ==
  [][\A b \in bets : \E c \in bets' :
       /\ c.id = b.id /\ c.session = b.session /\ c.key = b.key /\ c.stake = b.stake
       /\ b.status # "PENDING" => c = b]_vars

(* While the process lives, resets that race may leave a session open, but *)
(* once they end the session new bets go to is an open one.                *)
BudgetOnOpenSession ==
  crashes = 0 /\ budget # None /\ (\A r \in Resets : at[r] \in {"new", "done"}) =>
    \E s \in sessions : s.id = budget.session /\ s.status = "active"

(* "A reset closes the current session and starts a new one" (migration    *)
(* 003): when no reset is under way, the session of the budget is active   *)
(* and no other is.                                                        *)
OneActiveSession ==
  (\A r \in Resets : at[r] \in {"new", "done"}) =>
    \A s \in sessions : s.status = "active" <=> budget # None /\ s.id = budget.session
==============================================================================
