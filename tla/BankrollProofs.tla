---------------------------- MODULE BankrollProofs ----------------------------
(***************************************************************************)
(* What placements, settlements, resets and crashes preserve, whatever     *)
(* their order and number: the rows of bets, the sessions and the row of   *)
(* the budget, whose amounts are sums over the bets of its session.        *)
(***************************************************************************)
EXTENDS Bankroll, SumTheorems

Columns == {"id", "session", "key", "stake", "status", "returned"}
IsRow(b) == b = [f \in Columns |-> b[f]]
SameBet(b, c) == c.id = b.id /\ c.session = b.session /\ c.key = b.key /\ c.stake = b.stake

(* A request has a bet only once it is done, and what a request carries in *)
(* memory are settlements of rows that are still there: bets are neither   *)
(* deleted nor moved.                                                      *)
Shape == /\ at = [r \in Request |-> at[r]]
         /\ mem = [r \in Request |-> mem[r]]
Rows == \A b \in bets : IsRow(b) /\ b.id \in Request /\ at[b.id] = "done"
UniqueIds == \A b, c \in bets : b.id = c.id => b = c
Versions(m) == /\ \A l \in m : IsRow(l) /\ \E b \in bets : SameBet(b, l)
               /\ \A k, l \in m : k.id = l.id => k = l
Carried == \A r \in Request : Versions(mem[r])
IInv == Shape /\ Rows /\ UniqueIds /\ Carried /\ OneBetPerSelection

(* A verdict is another version of its bet. *)
LEMMA VerdictSame ==
  ASSUME NEW b, IsRow(b), NEW s, NEW cents
  PROVE  IsRow(Verdict(b, s, cents)) /\ SameBet(b, Verdict(b, s, cents))
BY DEF Verdict, IsRow, Columns, SameBet

(* Where a request goes and what it carries, for every request. *)
LEMMA GotoStep ==
  ASSUME Shape, NEW r \in Request, NEW p, NEW m, Goto(r, p, m)
  PROVE  /\ Shape'
         /\ \A q \in Request : at'[q] = IF q = r THEN p ELSE at[q]
         /\ \A q \in Request : mem'[q] = IF q = r THEN m ELSE mem[q]
BY DEF Shape, Goto

(* A step that leaves the bets alone, moves a request that is not done and *)
(* gives it versions of bets to carry, keeps the invariant.                *)
LEMMA SameBetsStep ==
  ASSUME IInv, NEW r \in Request, NEW p, NEW m, Goto(r, p, m), at[r] # "done", bets' = bets,
         Versions(m)
  PROVE  IInv'
<1>1. /\ Shape'
      /\ \A q \in Request : at'[q] = IF q = r THEN p ELSE at[q]
      /\ \A q \in Request : mem'[q] = IF q = r THEN m ELSE mem[q]
  BY GotoStep DEF IInv
<1>2. Rows'
  BY <1>1 DEF IInv, Rows, IsRow
<1>3. UniqueIds' /\ OneBetPerSelection'
  BY DEF IInv, UniqueIds, OneBetPerSelection
<1>4. Carried'
  BY <1>1 DEF IInv, Carried, Versions
<1> QED
  BY <1>1, <1>2, <1>3, <1>4 DEF IInv

LEMMA InitInv ==
  ASSUME Init
  PROVE  IInv
BY DEF Init, IInv, Shape, Rows, UniqueIds, Carried, Versions, OneBetPerSelection

(* A placement adds at most one row, of a request without one, on a        *)
(* selection the session did not hold.                                     *)
LEMMA PlaceBetStep ==
  ASSUME IInv, NEW r \in Request, PlaceBet(r)
  PROVE  IInv' /\ bets \subseteq bets'
<1>1. PICK k \in Key, stake \in Stakes :
        bets' = IF Admissible(k, stake)
                THEN bets \union {[id |-> r, session |-> budget.session, key |-> k, stake |-> stake,
                                   status |-> "PENDING", returned |-> 0]}
                ELSE bets
  BY DEF PlaceBet
<1> DEFINE new == [id |-> r, session |-> budget.session, key |-> k, stake |-> stake,
                   status |-> "PENDING", returned |-> 0]
<1>2. /\ Shape'
      /\ \A q \in Request : at'[q] = IF q = r THEN "done" ELSE at[q]
      /\ \A q \in Request : mem'[q] = IF q = r THEN {} ELSE mem[q]
  BY GotoStep DEF PlaceBet, IInv
<1>3. IsRow(new) /\ new.id = r /\ new.session = budget.session /\ new.key = k
  BY DEF IsRow, Columns
<1>4. \A b \in bets : b.id # r
  BY DEF IInv, Rows, PlaceBet
<1>5. Admissible(k, stake) => \A b \in bets : b.session = budget.session => b.key # k
  BY DEF Admissible, OfSession
<1>6. bets \subseteq bets' /\ \A b \in bets' : b \in bets \/ (b = new /\ Admissible(k, stake))
  BY <1>1
<1> HIDE DEF new
<1>7. Rows'
  BY <1>2, <1>3, <1>6 DEF IInv, Rows, IsRow
<1>8. UniqueIds'
  BY <1>3, <1>4, <1>6 DEF IInv, UniqueIds
<1>9. OneBetPerSelection'
  BY <1>3, <1>5, <1>6 DEF IInv, OneBetPerSelection
<1>10. Carried'
  BY <1>2, <1>6 DEF IInv, Carried, Versions, IsRow, SameBet
<1> QED
  BY <1>2, <1>6, <1>7, <1>8, <1>9, <1>10 DEF IInv

(* A batch of settlements replaces pending rows by versions of them. *)
LEMMA SettleBetsStep ==
  ASSUME IInv, NEW r \in Request, SettleBets(r)
  PROVE  /\ IInv'
         /\ \A b \in bets : \E c \in bets' : SameBet(b, c) /\ (b.status # "PENDING" => c = b)
         /\ \A c \in bets' : \E b \in bets : /\ SameBet(b, c)
                                             /\ c = b \/ (b.status = "PENDING" /\ c \in mem[r])
<1> DEFINE L == StillOpen(mem[r])
<1>1. bets' = {b \in bets : \A l \in L : l.id # b.id} \union L
  BY DEF SettleBets, Written
<1>2. \A l \in L : /\ l \in mem[r] /\ IsRow(l)
                   /\ \E b \in bets : SameBet(b, l) /\ b.status = "PENDING"
  BY DEF StillOpen, IInv, Carried, Versions, UniqueIds, SameBet
<1>3. PICK p : Goto(r, p, {})
  BY DEF SettleBets
<1>4. /\ Shape'
      /\ \A q \in Request : at'[q] = IF q = r THEN p ELSE at[q]
      /\ \A q \in Request : mem'[q] = IF q = r THEN {} ELSE mem[q]
  BY <1>3, GotoStep DEF IInv
<1>5. at[r] # "done"
  BY DEF SettleBets
<1> HIDE DEF L
<1>6. \A c \in bets' : /\ IsRow(c)
                      /\ \E b \in bets : /\ SameBet(b, c)
                                         /\ c = b \/ (b.status = "PENDING" /\ c \in mem[r])
  BY <1>1, <1>2 DEF IInv, Rows, SameBet
<1>7. \A b \in bets : \E c \in bets' : SameBet(b, c) /\ (b.status # "PENDING" => c = b)
  <2> SUFFICES ASSUME NEW b \in bets
               PROVE  \E c \in bets' : SameBet(b, c) /\ (b.status # "PENDING" => c = b)
    OBVIOUS
  <2>1. CASE \A l \in L : l.id # b.id
    BY <2>1, <1>1 DEF SameBet
  <2>2. CASE \E l \in L : l.id = b.id
    <3>1. PICK l \in L : l.id = b.id
      BY <2>2
    <3>2. PICK a \in bets : SameBet(a, l) /\ a.status = "PENDING"
      BY <1>2
    <3>3. a = b
      BY <3>1, <3>2 DEF IInv, UniqueIds, SameBet
    <3> QED
      BY <1>1, <3>2, <3>3
  <2> QED
    BY <2>1, <2>2
<1>8. Rows'
  BY <1>4, <1>5, <1>6 DEF IInv, Rows, SameBet
<1>9. UniqueIds'
  <2>1. \A k, l \in L : k.id = l.id => k = l
    BY DEF L, StillOpen, IInv, Carried, Versions
  <2> QED
    BY <1>1, <2>1 DEF IInv, UniqueIds
<1>10. OneBetPerSelection'
  <2> SUFFICES ASSUME NEW c \in bets', NEW d \in bets', c.session = d.session, c.key = d.key
               PROVE  c.id = d.id
    BY <1>9 DEF OneBetPerSelection, UniqueIds
  <2>1. PICK a \in bets, b \in bets : SameBet(a, c) /\ SameBet(b, d)
    BY <1>6
  <2>2. a = b
    BY <2>1 DEF IInv, OneBetPerSelection, SameBet
  <2> QED
    BY <2>1, <2>2 DEF SameBet
<1>11. Carried'
  <2> SUFFICES ASSUME NEW q \in Request, q # r
               PROVE  Versions(mem[q])'
    BY <1>4 DEF Carried, Versions
  <2>1. Versions(mem[q]) /\ mem'[q] = mem[q]
    BY <1>4 DEF IInv, Carried
  <2>2. \A l \in mem[q] : \E c \in bets' : SameBet(c, l)
    BY <1>7, <2>1 DEF Versions, SameBet
  <2> QED
    BY <2>1, <2>2 DEF Versions
<1> QED
  BY <1>4, <1>6, <1>7, <1>8, <1>9, <1>10, <1>11 DEF IInv

(* Reading the bets, or their results, makes versions of bets. *)
LEMMA ListPendingStep ==
  ASSUME IInv, NEW r \in Request, ListPending(r)
  PROVE  IInv'
<1> DEFINE m == IF budget = None THEN {}
                ELSE {b \in OfSession(budget.session, bets) : b.status = "PENDING"}
<1>1. Goto(r, "listed", m) /\ at[r] # "done" /\ bets' = bets
  BY DEF ListPending, tables
<1>2. m \subseteq bets
  BY DEF OfSession
<1>3. Versions(m)
  BY <1>2 DEF IInv, Rows, UniqueIds, Versions, SameBet
<1> QED
  BY <1>1, <1>3, SameBetsStep

LEMMA ReadResultsStep ==
  ASSUME IInv, NEW r \in Request, ReadResults(r)
  PROVE  IInv'
<1>1. at[r] # "done" /\ bets' = bets
  BY DEF ReadResults, tables
<1>2. PICK seen \in SUBSET {b \in mem[r] : result[b.key] # None} :
        \/ Goto(r, "settling", {Verdict(b, result[b.key], Return(b, result[b.key])) : b \in seen})
        \/ Goto(r, "placing", {}) \/ Goto(r, "done", {})
  BY DEF ReadResults
<1>3. CASE Goto(r, "placing", {}) \/ Goto(r, "done", {})
  BY <1>1, <1>3, SameBetsStep DEF Versions
<1>4. CASE Goto(r, "settling", {Verdict(b, result[b.key], Return(b, result[b.key])) : b \in seen})
  <2> DEFINE V(b) == Verdict(b, result[b.key], Return(b, result[b.key]))
             m == {V(b) : b \in seen}
  <2>1. \A b \in seen : /\ IsRow(b) /\ \E a \in bets : SameBet(a, b)
                         /\ \A c \in seen : c.id = b.id => c = b
    BY DEF IInv, Carried, Versions
  <2>2. \A b \in seen : IsRow(V(b)) /\ SameBet(b, V(b))
    BY <2>1, VerdictSame
  <2> HIDE DEF V
  <2>3. Versions(m)
    BY <2>1, <2>2 DEF Versions, SameBet
  <2> QED
    BY <1>1, <1>4, <2>3, SameBetsStep DEF V
<1> QED
  BY <1>2, <1>3, <1>4

LEMMA ReadBetStep ==
  ASSUME IInv, NEW r \in Request, ReadBet(r)
  PROVE  IInv'
<1>1. at[r] # "done" /\ bets' = bets
  BY DEF ReadBet, tables
<1>2. PICK b \in bets : \E s, cents : Goto(r, "byHand", {Verdict(b, s, cents)})
  BY DEF ReadBet
<1>3. PICK s, cents : Goto(r, "byHand", {Verdict(b, s, cents)})
  BY <1>2
<1>4. Versions({Verdict(b, s, cents)})
  BY VerdictSame DEF IInv, Rows, Versions
<1> QED
  BY <1>1, <1>3, <1>4, SameBetsStep

(* A reset carries nothing and leaves the bets where they are. *)
LEMMA ResetStep ==
  ASSUME IInv, NEW r \in Request,
         ReadSession(r) \/ CloseSession(r) \/ OpenSession(r) \/ ResetBudget(r)
  PROVE  IInv' /\ bets' = bets
<1>1. bets' = bets /\ at[r] # "done"
  BY DEF ReadSession, CloseSession, OpenSession, ResetBudget, tables
<1>2. PICK p : Goto(r, p, {})
  BY DEF ReadSession, CloseSession, OpenSession, ResetBudget
<1>3. Versions({})
  BY DEF Versions
<1> QED
  BY <1>1, <1>2, <1>3, SameBetsStep

LEMMA CrashStep ==
  ASSUME IInv, Crash
  PROVE  IInv' /\ bets' = bets
BY DEF Crash, tables, IInv, Shape, Rows, IsRow, UniqueIds, Carried, Versions, OneBetPerSelection

LEMMA IdleStep ==
  ASSUME IInv, UNCHANGED <<bets, at, mem>>
  PROVE  IInv'
BY DEF IInv, Shape, Rows, IsRow, UniqueIds, Carried, Versions, OneBetPerSelection

(* Every step keeps the invariant, and every bet as SettledOnce says. *)
Kept == \A b \in bets : \E c \in bets' : SameBet(b, c) /\ (b.status # "PENDING" => c = b)

LEMMA NextStep ==
  ASSUME IInv, [Next]_vars
  PROVE  IInv' /\ Kept
<1>1. ASSUME bets \subseteq bets'
      PROVE  Kept
  BY <1>1 DEF Kept, SameBet
<1>2. ASSUME NEW r \in Request, Serve(r)
      PROVE  IInv' /\ Kept
  <2>1. CASE ListPending(r)
    BY <1>1, <2>1, ListPendingStep DEF ListPending, tables
  <2>2. CASE ReadResults(r)
    BY <1>1, <2>2, ReadResultsStep DEF ReadResults, tables
  <2>3. CASE ReadBet(r)
    BY <1>1, <2>3, ReadBetStep DEF ReadBet, tables
  <2>4. CASE SettleBets(r)
    BY <2>4, SettleBetsStep DEF Kept
  <2>5. CASE PlaceBet(r)
    BY <1>1, <2>5, PlaceBetStep
  <2>6. CASE ReadSession(r) \/ CloseSession(r) \/ OpenSession(r) \/ ResetBudget(r)
    BY <1>1, <2>6, ResetStep
  <2> QED
    BY <1>2, <2>1, <2>2, <2>3, <2>4, <2>5, <2>6 DEF Serve
<1>3. CASE (\E k \in Key : Publish(k)) \/ UNCHANGED vars
  BY <1>1, <1>3, IdleStep DEF Publish, vars, tables
<1>4. CASE Crash
  BY <1>1, <1>4, CrashStep
<1> QED
  BY <1>2, <1>3, <1>4 DEF Next

THEOREM Inductive == Spec => []IInv
<1>1. Init => IInv
  BY InitInv
<1>2. IInv /\ [Next]_vars => IInv'
  BY NextStep
<1> QED
  BY <1>1, <1>2, PTL DEF Spec

(* A session never holds two bets on one selection, however many requests  *)
(* place, settle and reset (placeBetAtomically, 4774-4782).                *)
THEOREM OneBet == Spec => []OneBetPerSelection
<1>1. IInv => OneBetPerSelection
  BY DEF IInv
<1> QED
  BY <1>1, Inductive, PTL

(* No step of any request, and no crash, deletes a bet, moves it to another *)
(* session, changes its stake or settles it a second time.                  *)
THEOREM Settled == Spec => SettledOnce
<1>1. IInv /\ [Next]_vars => [Kept]_vars
  BY NextStep
<1>2. Kept => \A b \in bets : \E c \in bets' :
                /\ c.id = b.id /\ c.session = b.session /\ c.key = b.key /\ c.stake = b.stake
                /\ b.status # "PENDING" => c = b
  BY DEF Kept, SameBet
<1> QED
  BY <1>1, <1>2, Inductive, PTL DEF Spec, SettledOnce

-----------------------------------------------------------------------------
(***************************************************************************)
(* Types, and the order in which a reset works: it opens its session, then *)
(* points the budget at it, and only then can a bet or another reset meet  *)
(* that session.                                                           *)
(***************************************************************************)

Placed ==
  /\ \A b \in bets : at[b.session] = "done"
  /\ budget # None => at[budget.session] = "done"
  /\ \A q \in Resets : current[q] # None => at[current[q]] = "done"
  /\ \A s \in sessions : /\ at[s.id] \in {"opened", "done"}
                         /\ at[s.id] = "opened" => s.status = "active"

(* The session of the budget is active, unless the process died or a reset *)
(* has closed it and is about to replace it.                               *)
Started ==
  budget # None =>
    \E s \in sessions :
      /\ s.id = budget.session /\ s.initial = budget.total
      /\ \/ crashes > 0 \/ s.status = "active"
         \/ \E q \in Resets : current[q] = s.id /\ at[q] \in {"closed", "opened"}

Base == IInv /\ TypeOK /\ Placed /\ Started

stakeOf == [b \in Bet |-> b.stake]
returnOf == [b \in Bet |-> b.returned]

LEMMA RowAmounts ==
  ASSUME BankrollAssumption
  PROVE  \A b \in Bet : /\ stakeOf[b] = b.stake /\ b.stake \in Nat
                        /\ returnOf[b] = b.returned /\ b.returned \in Int
  BY DEF stakeOf, returnOf, Bet, BankrollAssumption

LEMMA SumsOfBets ==
  ASSUME BankrollAssumption, NEW S \in SUBSET Bet, IsFiniteSet(S)
  PROVE  /\ Staked(S) = SumFunctionOnSet(stakeOf, S) /\ Staked(S) \in Nat
         /\ Returned(S) = SumFunctionOnSet(returnOf, S) /\ Returned(S) \in Int
<1> DEFINE x == [b \in S |-> b.stake]
           y == [b \in S |-> b.returned]
<1>1. \A b \in S : /\ stakeOf[b] \in Nat /\ stakeOf[b] \in Int /\ x[b] = stakeOf[b]
                   /\ returnOf[b] \in Int /\ y[b] = returnOf[b]
  BY RowAmounts
<1>2. Staked(S) = SumFunctionOnSet(x, S) /\ Returned(S) = SumFunctionOnSet(y, S)
  BY DEF Staked, Returned, SumFunction
<1> HIDE DEF x, y
<1>3. SumFunctionOnSet(x, S) = SumFunctionOnSet(stakeOf, S)
  BY <1>1, SumSame
<1>4. SumFunctionOnSet(y, S) = SumFunctionOnSet(returnOf, S)
  BY <1>1, SumSame
<1>5. SumFunctionOnSet(stakeOf, S) \in Nat
  BY <1>1, SumNatural
<1>6. SumFunctionOnSet(returnOf, S) \in Int
  BY <1>1, SumType
<1> QED  BY <1>2, <1>3, <1>4, <1>5, <1>6

(* The tables are finite: a bet has the identity of its request. *)
LEMMA FiniteBets ==
  ASSUME BankrollAssumption, NEW S \in SUBSET Bet, \A b, c \in S : b.id = c.id => b = c
  PROVE  IsFiniteSet(S)
<1> DEFINE id == [b \in S |-> b.id]
<1>1. id \in [S -> Request] /\ \A b, c \in S : id[b] = id[c] => b = c
  BY DEF Bet
<1>2. IsFiniteSet(Request)
  BY DEF BankrollAssumption
<1> HIDE DEF id
<1>3. id \in Injection(S, Request)
  BY <1>1 DEF Injection, IsInjective
<1> QED  BY <1>2, <1>3, FS_Injection

LEMMA ReturnType ==
  ASSUME BankrollAssumption, NEW b \in Bet, NEW v \in Ended
  PROVE  Return(b, v) \in Nat
<1>1. b.stake \in Nat /\ Odds[b.key] \in Nat
  BY DEF Bet, BankrollAssumption
<1>2. b.stake * Odds[b.key] \in Nat
  BY <1>1
<1>3. (b.stake * Odds[b.key] + 50) \div 100 \in Nat
  BY <1>2
<1> QED  BY <1>1, <1>3 DEF Return, Ended

LEMMA VerdictType ==
  ASSUME NEW b \in Bet, NEW v \in Ended, NEW cents \in Int
  PROVE  Verdict(b, v, cents) \in Bet /\ Verdict(b, v, cents).status = v
         /\ Verdict(b, v, cents).returned = cents
  BY DEF Verdict, Bet

LEMMA TotalsType ==
  ASSUME BankrollAssumption, budget \in Budget, NEW S \in SUBSET Bet, IsFiniteSet(S),
         NEW R \in SUBSET Bet, IsFiniteSet(R)
  PROVE  Totals(S, R) \in Budget
<1> DEFINE won == {b \in S : b.status = "WON"}
           lost == {b \in S : b.status = "LOST"}
           paid == {b \in R : b.status \in {"WON", "VOID"}}
<1>1. /\ won \in SUBSET Bet /\ lost \in SUBSET Bet /\ paid \in SUBSET Bet
      /\ IsFiniteSet(won) /\ IsFiniteSet(lost) /\ IsFiniteSet(paid)
  BY FS_Subset
<1> HIDE DEF won, lost, paid
<1>2. /\ Staked(S) \in Nat /\ Returned(won) \in Int /\ Staked(lost) \in Nat
      /\ Returned(paid) \in Int
  BY <1>1, SumsOfBets
<1>3. Cardinality(S) \in Nat
  BY FS_CardinalityType
<1>4. budget.total \in Nat
  BY DEF Budget, BankrollAssumption
<1>5. budget.total - Staked(S) + Returned(paid) \in Int
  BY <1>2, <1>4
<1> QED  BY <1>2, <1>3, <1>5 DEF Totals, Budget, won, lost, paid

(* A request that moves keeps the types of where it is and what it carries. *)
LEMMA Moved ==
  ASSUME Base, NEW r \in Request, NEW p, NEW m \in SUBSET Bet, Goto(r, p, m),
         p \in IF r \in Resets THEN ResetPlaces ELSE UserPlaces
  PROVE  /\ \A q \in Request : at'[q] \in IF q \in Resets THEN ResetPlaces ELSE UserPlaces
         /\ mem' \in [Request -> SUBSET Bet]
         /\ \A q \in Request : at'[q] = IF q = r THEN p ELSE at[q]
<1>1. \A q \in Request : at'[q] = IF q = r THEN p ELSE at[q]
  <2>1. Shape
    BY DEF Base, IInv
  <2> QED  BY <2>1, GotoStep
<1>2. mem' = [mem EXCEPT ![r] = m]
  BY DEF Goto
<1>3. mem \in [Request -> SUBSET Bet]
      /\ \A q \in Request : at[q] \in IF q \in Resets THEN ResetPlaces ELSE UserPlaces
  BY DEF Base, TypeOK
<1>4. mem' \in [Request -> SUBSET Bet]
  BY <1>2, <1>3
<1> QED  BY <1>1, <1>3, <1>4

(* A request that uses the budget leaves the sessions and the resets alone. *)
LEMMA UserPlaced ==
  ASSUME BankrollAssumption, Base, TypeOK', NEW r \in Request \ Resets,
         \A q \in Request : q # r => at'[q] = at[q],
         UNCHANGED <<sessions, current, crashes>>,
         \A c \in bets' : c.session \in Resets /\ at[c.session] = "done",
         budget' # None => /\ budget # None
                           /\ budget'.session = budget.session /\ budget'.total = budget.total
  PROVE  Placed' /\ Started'
<1>1. \A q \in Resets : q \in Request /\ q # r /\ at'[q] = at[q]
  BY DEF Base, TypeOK, BankrollAssumption
<1>2. budget # None => budget.session \in Resets
  BY DEF Base, TypeOK, Budget
<1>3. \A q \in Resets : current[q] # None => current[q] \in Resets
  BY DEF Base, TypeOK
<1>4. \A s \in sessions : s.id \in Resets
  BY DEF Base, TypeOK, Session
<1>5. Placed'
  BY <1>1, <1>2, <1>3, <1>4 DEF Base, Placed
<1>6. Started'
  BY <1>1, <1>2 DEF Base, Started
<1> QED  BY <1>5, <1>6

LEMMA ReadBase ==
  ASSUME BankrollAssumption, Base, NEW r \in Request,
         ListPending(r) \/ ReadResults(r) \/ ReadBet(r)
  PROVE  TypeOK' /\ Placed' /\ Started'
<1>1. UNCHANGED <<result, tables, current, crashes>>
  BY DEF ListPending, ReadResults, ReadBet
<1>2. r \in Request \ Resets
  BY DEF ListPending, ReadResults, ReadBet, Base, TypeOK, ResetPlaces
<1>3. \E p \in UserPlaces, m \in SUBSET Bet : Goto(r, p, m)
  <2>1. CASE ListPending(r)
    BY <2>1 DEF ListPending, UserPlaces, OfSession, Base, TypeOK
  <2>2. CASE ReadResults(r)
    <3>1. PICK seen \in SUBSET {b \in mem[r] : result[b.key] # None} :
            \/ Goto(r, "settling", {Verdict(b, result[b.key], Return(b, result[b.key])) : b \in seen})
            \/ Goto(r, "placing", {}) \/ Goto(r, "done", {})
      BY <2>2 DEF ReadResults
    <3>2. \A b \in seen : Verdict(b, result[b.key], Return(b, result[b.key])) \in Bet
      <4>1. \A b \in seen : b \in Bet /\ result[b.key] \in Ended
        BY DEF Base, TypeOK, Bet
      <4> QED  BY <4>1, ReturnType, VerdictType
    <3> QED  BY <3>1, <3>2 DEF UserPlaces
  <2>3. CASE ReadBet(r)
    <3>1. PICK b \in bets :
            \/ Goto(r, "byHand", {Verdict(b, "LOST", 0)})
            \/ \E cents \in ManualReturns \union {0, Return(b, "WON")} :
                 Goto(r, "byHand", {Verdict(b, "WON", cents)})
      BY <2>3 DEF ReadBet
    <3>2. b \in Bet /\ "WON" \in Ended /\ "LOST" \in Ended
      BY DEF Base, TypeOK, Ended
    <3>3. \A cents \in ManualReturns \union {0, Return(b, "WON")} : cents \in Int
      BY <3>2, ReturnType DEF BankrollAssumption
    <3>4. \A cents \in Int : Verdict(b, "LOST", cents) \in Bet /\ Verdict(b, "WON", cents) \in Bet
      BY <3>2, VerdictType
    <3>5. PICK v \in {"WON", "LOST"}, cents \in Int : Goto(r, "byHand", {Verdict(b, v, cents)})
      BY <3>1, <3>3
    <3>6. {Verdict(b, v, cents)} \in SUBSET Bet
      BY <3>4
    <3> QED  BY <3>5, <3>6 DEF UserPlaces
  <2> QED  BY <2>1, <2>2, <2>3
<1>4. PICK p \in UserPlaces, m \in SUBSET Bet : Goto(r, p, m)
  BY <1>3
<1>5. /\ \A q \in Request : at'[q] \in IF q \in Resets THEN ResetPlaces ELSE UserPlaces
      /\ mem' \in [Request -> SUBSET Bet]
      /\ \A q \in Request : at'[q] = IF q = r THEN p ELSE at[q]
  BY <1>2, <1>4, Moved
<1>6. TypeOK'
  BY <1>1, <1>5 DEF Base, TypeOK, tables
<1>7. \A c \in bets' : c.session \in Resets /\ at[c.session] = "done"
  BY <1>1 DEF Base, TypeOK, Bet, Placed, tables
<1> QED  BY <1>1, <1>2, <1>5, <1>6, <1>7, UserPlaced DEF tables

LEMMA PlaceBetBase ==
  ASSUME BankrollAssumption, Base, NEW r \in Request, PlaceBet(r)
  PROVE  TypeOK' /\ Placed' /\ Started'
<1>1. UNCHANGED <<result, sessions, current, crashes>> /\ Goto(r, "done", {})
  BY DEF PlaceBet
<1>2. r \in Request \ Resets
  BY DEF PlaceBet, Base, TypeOK, ResetPlaces
<1>3. PICK k \in Key, stake \in Stakes :
        /\ bets' = IF Admissible(k, stake)
                   THEN bets \union {[id |-> r, session |-> budget.session, key |-> k,
                                      stake |-> stake, status |-> "PENDING", returned |-> 0]}
                   ELSE bets
        /\ budget' = Debited(stake, Admissible(k, stake))
  BY DEF PlaceBet
<1>4. /\ \A q \in Request : at'[q] \in IF q \in Resets THEN ResetPlaces ELSE UserPlaces
      /\ mem' \in [Request -> SUBSET Bet]
      /\ \A q \in Request : at'[q] = IF q = r THEN "done" ELSE at[q]
  BY <1>1, <1>2, Moved DEF UserPlaces
<1>5. bets' \subseteq Bet /\ \A b, c \in bets' : b.id = c.id => b = c
  <2>1. \A b, c \in bets' : b.id = c.id => b = c
    BY PlaceBetStep DEF Base, IInv, UniqueIds
  <2>2. Admissible(k, stake) =>
          [id |-> r, session |-> budget.session, key |-> k, stake |-> stake,
           status |-> "PENDING", returned |-> 0] \in Bet
    BY <1>2 DEF Admissible, Base, TypeOK, Budget, Bet
  <2> QED  BY <1>3, <2>1, <2>2 DEF Base, TypeOK
<1>6. budget' \in Budget \union {None}
  <2>1. CASE Admissible(k, stake)
    <3>1. budget \in Budget /\ stake \in Nat
      BY <2>1 DEF Admissible, Base, TypeOK, BankrollAssumption
    <3>2. budget' = [budget EXCEPT !.available = budget.available - stake,
                                   !.bets = budget.bets + 1, !.staked = budget.staked + stake]
      BY <1>3, <2>1 DEF Debited
    <3>3. budget.available - stake \in Int /\ budget.bets + 1 \in Nat /\ budget.staked + stake \in Nat
      BY <3>1 DEF Budget
    <3> QED  BY <3>1, <3>2, <3>3 DEF Budget
  <2>2. CASE ~Admissible(k, stake)
    BY <1>3, <2>2 DEF Debited, Base, TypeOK
  <2> QED  BY <2>1, <2>2
<1>7. TypeOK'
  BY <1>1, <1>4, <1>5, <1>6 DEF Base, TypeOK
<1>8. \A c \in bets' : c.session \in Resets /\ at[c.session] = "done"
  BY <1>3 DEF Base, TypeOK, Bet, Placed, Admissible, Budget
<1>9. budget' # None => /\ budget # None
                        /\ budget'.session = budget.session /\ budget'.total = budget.total
  <2>1. CASE Admissible(k, stake)
    <3>1. budget \in Budget /\ budget # None
      BY <2>1 DEF Admissible, Base, TypeOK
    <3> QED  BY <1>3, <2>1, <3>1 DEF Debited, Budget
  <2>2. CASE ~Admissible(k, stake)
    BY <1>3, <2>2 DEF Debited
  <2> QED  BY <2>1, <2>2
<1> QED  BY <1>1, <1>2, <1>4, <1>7, <1>8, <1>9, UserPlaced

LEMMA SettleBetsBase ==
  ASSUME BankrollAssumption, Base, NEW r \in Request, SettleBets(r)
  PROVE  TypeOK' /\ Placed' /\ Started'
<1>1. /\ UNCHANGED <<result, sessions, current, crashes>>
      /\ budget' = Recomputed(bets') /\ bets' = Written(StillOpen(mem[r]))
  BY DEF SettleBets
<1>2. r \in Request \ Resets
  BY DEF SettleBets, Base, TypeOK, ResetPlaces
<1>3. PICK p \in UserPlaces : Goto(r, p, {})
  BY DEF SettleBets, UserPlaces
<1>4. /\ \A q \in Request : at'[q] \in IF q \in Resets THEN ResetPlaces ELSE UserPlaces
      /\ mem' \in [Request -> SUBSET Bet]
      /\ \A q \in Request : at'[q] = IF q = r THEN p ELSE at[q]
  BY <1>2, <1>3, Moved
<1>5. /\ \A b, c \in bets' : b.id = c.id => b = c
      /\ \A c \in bets' : \E b \in bets : SameBet(b, c)
  <2>1. IInv
    BY DEF Base
  <2>2. UniqueIds'
    BY <2>1, SettleBetsStep DEF IInv
  <2>3. \A c \in bets' : \E b \in bets : /\ SameBet(b, c)
                                         /\ c = b \/ (b.status = "PENDING" /\ c \in mem[r])
    BY <2>1, SettleBetsStep
  <2>4. \A b, c \in bets' : b.id = c.id => b = c
    BY <2>2 DEF UniqueIds
  <2>5. \A c \in bets' : \E b \in bets : SameBet(b, c)
    BY <2>3
  <2> QED  BY <2>4, <2>5
<1>6. bets' \subseteq Bet
  <2>1. mem[r] \subseteq Bet /\ bets \subseteq Bet
    BY DEF Base, TypeOK
  <2> QED  BY <1>1, <2>1 DEF Written, StillOpen
<1>7. /\ budget' \in Budget \union {None}
      /\ budget' # None => /\ budget # None
                           /\ budget'.session = budget.session /\ budget'.total = budget.total
  <2>1. CASE budget = None
    BY <1>1, <2>1 DEF Recomputed
  <2>2. CASE budget # None
    <3>1. PICK S : S = OfSession(budget.session, bets')
      OBVIOUS
    <3>2. S \in SUBSET Bet /\ \A b, c \in S : b.id = c.id => b = c
      BY <1>5, <1>6, <3>1 DEF OfSession
    <3>3. IsFiniteSet(S)
      BY <3>2, FiniteBets
    <3>4. budget \in Budget
      BY <2>2 DEF Base, TypeOK
    <3>5. budget' = Totals(S, S)
      BY <1>1, <2>2, <3>1 DEF Recomputed
    <3>6. Totals(S, S) \in Budget
      BY <3>2, <3>3, <3>4, TotalsType
    <3>7. Totals(S, S).session = budget.session /\ Totals(S, S).total = budget.total
      BY <3>4 DEF Totals, Budget
    <3> QED  BY <2>2, <3>5, <3>6, <3>7
  <2> QED  BY <2>1, <2>2
<1>8. TypeOK'
  BY <1>1, <1>4, <1>5, <1>6, <1>7 DEF Base, TypeOK
<1>9. \A c \in bets' : c.session \in Resets /\ at[c.session] = "done"
  BY <1>5 DEF Base, TypeOK, Bet, Placed, SameBet
<1> QED  BY <1>1, <1>2, <1>4, <1>7, <1>8, <1>9, UserPlaced

(* A reset opens a session no bet and no other reset has met. *)
LEMMA ResetBase ==
  ASSUME BankrollAssumption, Base, NEW r \in Request,
         ReadSession(r) \/ CloseSession(r) \/ OpenSession(r) \/ ResetBudget(r)
  PROVE  TypeOK' /\ Placed' /\ Started'
<1>1. r \in Resets /\ UNCHANGED <<result, bets, crashes>>
  BY DEF ReadSession, CloseSession, OpenSession, ResetBudget, Base, TypeOK, UserPlaces, tables
<1>2. PICK p \in ResetPlaces : Goto(r, p, {})
  BY DEF ReadSession, CloseSession, OpenSession, ResetBudget, ResetPlaces
<1>3. /\ \A q \in Request : at'[q] \in IF q \in Resets THEN ResetPlaces ELSE UserPlaces
      /\ mem' \in [Request -> SUBSET Bet]
      /\ \A q \in Request : at'[q] = IF q = r THEN p ELSE at[q]
  BY <1>1, <1>2, Moved
<1>4. /\ Resets \subseteq Request /\ None \notin Resets
      /\ \A b \in bets : b.session \in Resets
      /\ budget # None => budget \in Budget /\ budget.session \in Resets
      /\ \A s \in sessions : s.id \in Resets
      /\ \A q \in Resets : current[q] \in Resets \union {None}
  BY DEF Base, TypeOK, Bet, Budget, Session, BankrollAssumption
<1>5. /\ \A q \in Resets : at'[q] = IF q = r THEN p ELSE at[q]
      /\ \A b, c \in bets' : b.id = c.id => b = c
      /\ bets' \subseteq Bet /\ result' \in [Key -> Ended \union {None}] /\ crashes' \in 0..CrashLimit
  BY <1>1, <1>3, <1>4 DEF Base, TypeOK
<1>6. CASE ReadSession(r)
  <2>1. /\ at[r] = "new" /\ UNCHANGED <<budget, sessions>>
        /\ current' = [current EXCEPT ![r] = IF budget = None THEN None ELSE budget.session]
    BY <1>6 DEF ReadSession, tables
  <2>2. current' \in [Resets -> Resets \union {None}]
        /\ \A q \in Resets : current'[q] = IF q # r THEN current[q]
                                           ELSE IF budget = None THEN None ELSE budget.session
    BY <1>1, <1>4, <2>1 DEF Base, TypeOK
  <2>3. TypeOK'
    BY <1>3, <1>5, <2>1, <2>2 DEF Base, TypeOK
  <2>4. Placed'
    BY <1>1, <1>4, <1>5, <2>1, <2>2 DEF Base, Placed
  <2>5. Started'
    BY <1>1, <1>4, <1>5, <2>1, <2>2 DEF Base, Started
  <2> QED  BY <2>3, <2>4, <2>5
<1>7. CASE CloseSession(r)
  <2>1. /\ at[r] = "read" /\ UNCHANGED <<budget, current>> /\ p = "closed"
        /\ sessions' = (sessions \ ClosedBy(r)) \union {[s EXCEPT !.status = "closed"] : s \in ClosedBy(r)}
    <3>1. Goto(r, "closed", {})
      BY <1>7 DEF CloseSession
    <3>2. at'[r] = "closed"
      BY <3>1, GotoStep DEF Base, IInv
    <3> QED  BY <1>5, <1>7, <1>1, <3>2 DEF CloseSession
  <2> DEFINE After(s) == IF s.id = current[r] THEN [s EXCEPT !.status = "closed"] ELSE s
  <2>2. \A s \in sessions : /\ After(s) \in Session
                            /\ After(s).id = s.id /\ After(s).initial = s.initial
                            /\ s.id # current[r] => After(s) = s
    BY DEF Base, TypeOK, Session
  <2>3. sessions' = {After(s) : s \in sessions}
    BY <2>1 DEF ClosedBy
  <2>4. \A s, t \in sessions : s.id = t.id => s = t
    BY DEF Base, TypeOK
  <2> HIDE DEF After
  <2>5. sessions' \subseteq Session /\ \A s, t \in sessions' : s.id = t.id => s = t
    BY <2>2, <2>3, <2>4
  <2>6. TypeOK'
    BY <1>3, <1>5, <2>1, <2>5 DEF Base, TypeOK
  <2>7. Placed'
    <3>1. ASSUME NEW s \in sessions
          PROVE  /\ at'[s.id] \in {"opened", "done"}
                 /\ at'[s.id] = "opened" => After(s) = s /\ s.status = "active"
      <4>1. /\ at[s.id] \in {"opened", "done"}
            /\ at[s.id] = "opened" => s.status = "active"
            /\ \A q \in Resets : current[q] # None => at[current[q]] = "done"
        BY DEF Base, Placed
      <4>2. s.id \in Resets /\ s.id # r /\ s.id # None
        BY <1>4, <2>1, <4>1
      <4>3. at'[s.id] = at[s.id]
        BY <1>5, <4>2
      <4> QED  BY <1>1, <2>2, <4>1, <4>2, <4>3
    <3>2. \A t \in sessions' : /\ at'[t.id] \in {"opened", "done"}
                               /\ at'[t.id] = "opened" => t.status = "active"
      BY <2>2, <2>3, <3>1
    <3> QED  BY <1>1, <1>4, <1>5, <2>1, <3>2 DEF Base, Placed
  <2>8. Started'
    <3> SUFFICES ASSUME budget # None
                 PROVE  \E t \in sessions' :
                          /\ t.id = budget.session /\ t.initial = budget.total
                          /\ \/ crashes > 0 \/ t.status = "active"
                             \/ \E q \in Resets : current[q] = t.id /\ at'[q] \in {"closed", "opened"}
      BY <1>1, <2>1 DEF Started
    <3>1. PICK s \in sessions :
            /\ s.id = budget.session /\ s.initial = budget.total
            /\ \/ crashes > 0 \/ s.status = "active"
               \/ \E q \in Resets : current[q] = s.id /\ at[q] \in {"closed", "opened"}
      BY DEF Base, Started
    <3>2. After(s) \in sessions' /\ After(s).id = s.id /\ After(s).initial = s.initial
      BY <2>2, <2>3
    <3>3. CASE s.id = current[r]
      BY <1>1, <1>5, <2>1, <3>1, <3>2, <3>3
    <3>4. CASE s.id # current[r]
      BY <1>5, <2>1, <2>2, <3>1, <3>2, <3>4
    <3> QED  BY <3>3, <3>4
  <2> QED  BY <2>6, <2>7, <2>8
<1>8. CASE OpenSession(r)
  <2>1. PICK a \in Amounts : /\ at[r] = "closed" /\ UNCHANGED <<budget, current>>
                             /\ sessions' = sessions \union {[id |-> r, initial |-> a, status |-> "active"]}
    BY <1>8 DEF OpenSession
  <2>2. p = "opened"
    <3>1. Goto(r, "opened", {})
      BY <1>8 DEF OpenSession
    <3>2. at'[r] = "opened"
      BY <3>1, GotoStep DEF Base, IInv
    <3> QED  BY <1>1, <1>5, <3>2
  <2>3. \A s \in sessions : s.id # r
    BY <2>1 DEF Base, Placed
  <2>4. [id |-> r, initial |-> a, status |-> "active"] \in Session
    BY <1>1 DEF Session
  <2>5. TypeOK'
    BY <1>3, <1>5, <2>1, <2>3, <2>4 DEF Base, TypeOK
  <2>6. Placed'
    BY <1>1, <1>4, <1>5, <2>1, <2>2 DEF Base, Placed
  <2>7. Started'
    BY <1>1, <1>4, <1>5, <2>1, <2>2 DEF Base, Started
  <2> QED  BY <2>5, <2>6, <2>7
<1>9. CASE ResetBudget(r)
  <2>1. PICK s \in sessions : /\ at[r] = "opened" /\ UNCHANGED <<sessions, current>>
                              /\ s.id = r /\ budget' = ResetRow(s)
    BY <1>9 DEF ResetBudget
  <2>2. p = "done"
    <3>1. Goto(r, "done", {})
      BY <1>9 DEF ResetBudget
    <3>2. at'[r] = "done"
      BY <3>1, GotoStep DEF Base, IInv
    <3> QED  BY <1>1, <1>5, <3>2
  <2>3. /\ budget' \in Budget /\ budget'.session = r /\ budget'.total = s.initial
        /\ s.status = "active"
    <3>1. s.id = r /\ s.initial \in Amounts /\ s.initial \in Int
      <4>1. s.initial \in Amounts
        BY DEF Base, TypeOK, Session
      <4>2. Amounts \subseteq Int
        BY DEF BankrollAssumption
      <4> QED  BY <2>1, <4>1, <4>2
    <3>2. ResetRow(s) \in Budget /\ ResetRow(s).session = r /\ ResetRow(s).total = s.initial
      BY <1>1, <3>1 DEF ResetRow, Budget
    <3>3. s.status = "active"
      BY <2>1, <3>1 DEF Base, Placed
    <3> QED  BY <2>1, <3>2, <3>3
  <2>4. TypeOK'
    BY <1>3, <1>5, <2>1, <2>3 DEF Base, TypeOK
  <2>5. Placed'
    BY <1>1, <1>4, <1>5, <2>1, <2>2, <2>3 DEF Base, Placed
  <2>6. Started'
    BY <1>1, <2>1, <2>3 DEF Started
  <2> QED  BY <2>4, <2>5, <2>6
<1> QED  BY <1>6, <1>7, <1>8, <1>9

LEMMA CrashBase ==
  ASSUME BankrollAssumption, Base, Crash
  PROVE  TypeOK' /\ Placed' /\ Started'
<1>1. /\ UNCHANGED <<result, tables, current>> /\ crashes < CrashLimit /\ crashes' = crashes + 1
      /\ at' = [r \in Request |-> IF at[r] = "new" THEN "new" ELSE "done"]
      /\ mem' = [r \in Request |-> {}]
  BY DEF Crash
<1>2. crashes' \in 0..CrashLimit /\ crashes' > 0
  BY <1>1 DEF Base, TypeOK, BankrollAssumption
<1>3. /\ Resets \subseteq Request
      /\ \A b \in bets : b.session \in Resets
      /\ budget # None => budget.session \in Resets
      /\ \A s \in sessions : s.id \in Resets
      /\ \A q \in Resets : current[q] \in Resets \union {None}
  BY DEF Base, TypeOK, Bet, Budget, Session, BankrollAssumption
<1>4. TypeOK'
  BY <1>1, <1>2 DEF Base, TypeOK, tables, UserPlaces, ResetPlaces
<1>5. Placed'
  BY <1>1, <1>3 DEF Base, Placed, tables
<1>6. Started'
  BY <1>1, <1>2 DEF Base, Started, tables
<1> QED  BY <1>4, <1>5, <1>6

LEMMA PublishBase ==
  ASSUME Base, (\E k \in Key : Publish(k)) \/ UNCHANGED vars
  PROVE  TypeOK' /\ Placed' /\ Started'
<1>1. UNCHANGED <<budget, sessions, bets, at, mem, current, crashes>>
  BY DEF Publish, vars, tables
<1>2. result' \in [Key -> Ended \union {None}]
  BY DEF Publish, vars, Base, TypeOK
<1> QED  BY <1>1, <1>2 DEF Base, TypeOK, Placed, Started

LEMMA BaseStep ==
  ASSUME BankrollAssumption, Base, [Next]_vars
  PROVE  Base'
<1>1. IInv'
  BY NextStep DEF Base
<1>2. TypeOK' /\ Placed' /\ Started'
  <2>1. ASSUME NEW r \in Request, Serve(r)
        PROVE  TypeOK' /\ Placed' /\ Started'
    BY <2>1, ReadBase, SettleBetsBase, PlaceBetBase, ResetBase DEF Serve
  <2>2. CASE Crash
    BY <2>2, CrashBase
  <2>3. CASE (\E k \in Key : Publish(k)) \/ UNCHANGED vars
    BY <2>3, PublishBase
  <2> QED  BY <2>1, <2>2, <2>3 DEF Next
<1> QED  BY <1>1, <1>2 DEF Base

LEMMA InitBase ==
  ASSUME BankrollAssumption, Init
  PROVE  Base
<1>1. IInv
  BY InitInv
<1>2. TypeOK
  BY DEF Init, TypeOK, BankrollAssumption, UserPlaces, ResetPlaces
<1>3. Placed /\ Started
  BY DEF Init, Placed, Started
<1> QED  BY <1>1, <1>2, <1>3 DEF Base

THEOREM AlwaysBase == Spec => []Base
<1>1. Init => Base
  BY InitBase, BankrollAssumption
<1>2. Base /\ [Next]_vars => Base'
  BY BaseStep, BankrollAssumption
<1> QED  BY <1>1, <1>2, PTL DEF Spec

(* While the process lives, a reset that has closed the session of the     *)
(* budget is still to point it elsewhere: once no reset is under way the   *)
(* budget's session is open, whichever resets raced.                       *)
THEOREM BudgetAlwaysOnOpenSession == Spec => []BudgetOnOpenSession
<1>1. Base => BudgetOnOpenSession
  BY DEF Base, Started, BudgetOnOpenSession
<1> QED  BY <1>1, AlwaysBase, PTL

-----------------------------------------------------------------------------
(***************************************************************************)
(* The amounts of the budget row are sums over the bets of its session.    *)
(* They need two more facts: a bet that is pending or lost returns         *)
(* nothing, and the stakes are covered by what the session started from    *)
(* and what its bets gained, returns below zero left out: a settlement can *)
(* lower the balance, but never what covers the stakes.                    *)
(***************************************************************************)

Unpaid(S) == \A b \in S : b.status \in {"PENDING", "LOST"} => b.returned = 0
NothingUnearned == Unpaid(bets) /\ \A r \in Request : Unpaid(mem[r])

gainOf == [b \in Bet |-> IF b.returned < 0 THEN 0 ELSE b.returned]
Gained(S) == SumFunctionOnSet(gainOf, S)
Owing(S) == {b \in S : b.returned < 0}

Accounted(row, S) ==
  /\ row.available = row.total - Staked(S) + Returned(S)
  /\ Staked(S) <= row.total + Gained(S)
  /\ row.bets = Cardinality(S) /\ row.staked = Staked(S)
Accounts == budget # None => Accounted(budget, OfSession(budget.session, bets))

BudgetInv == Base /\ NothingUnearned /\ Accounts

LEMMA OwnBets ==
  ASSUME BankrollAssumption, NEW B \in SUBSET Bet, \A b, c \in B : b.id = c.id => b = c, NEW s
  PROVE  OfSession(s, B) \in SUBSET Bet /\ IsFiniteSet(OfSession(s, B))
<1>1. PICK S : S = OfSession(s, B)
  OBVIOUS
<1>2. S \in SUBSET Bet /\ \A b, c \in S : b.id = c.id => b = c
  BY <1>1 DEF OfSession
<1>3. IsFiniteSet(S)
  BY <1>2, FiniteBets
<1> QED  BY <1>1, <1>2, <1>3

LEMMA NoBets == Staked({}) = 0 /\ Returned({}) = 0 /\ Gained({}) = 0 /\ Cardinality({}) = 0
  BY SumEmpty, FS_EmptySet DEF Staked, Returned, Gained, SumFunction

LEMMA GainType ==
  ASSUME BankrollAssumption
  PROVE  \A b \in Bet : /\ gainOf[b] \in Nat /\ gainOf[b] \in Int /\ b.returned <= gainOf[b]
                        /\ b.returned >= 0 => gainOf[b] = b.returned
                        /\ b.returned < 0 => gainOf[b] = 0
<1> SUFFICES ASSUME NEW b \in Bet
             PROVE  /\ gainOf[b] \in Nat /\ gainOf[b] \in Int /\ b.returned <= gainOf[b]
                    /\ b.returned >= 0 => gainOf[b] = b.returned
                    /\ b.returned < 0 => gainOf[b] = 0
  OBVIOUS
<1>1. gainOf[b] = IF b.returned < 0 THEN 0 ELSE b.returned
  BY DEF gainOf
<1>2. b.returned \in Int
  BY RowAmounts
<1> QED  BY <1>1, <1>2

(* Bets gain no less than they return. *)
LEMMA GainedSums ==
  ASSUME BankrollAssumption, NEW S \in SUBSET Bet, IsFiniteSet(S)
  PROVE  Gained(S) \in Nat /\ Returned(S) <= Gained(S)
<1>1. \A b \in S : /\ gainOf[b] \in Nat /\ gainOf[b] \in Int
                   /\ returnOf[b] \in Int /\ returnOf[b] <= gainOf[b]
  BY GainType, RowAmounts
<1>2. SumFunctionOnSet(gainOf, S) \in Nat
  BY <1>1, SumNatural
<1>3. SumFunctionOnSet(returnOf, S) <= SumFunctionOnSet(gainOf, S)
  BY <1>1, SumMonotone
<1>4. Returned(S) = SumFunctionOnSet(returnOf, S)
  BY SumsOfBets
<1> QED  BY <1>2, <1>3, <1>4 DEF Gained

(* What they return is what they gain and, below zero, what they owe. *)
LEMMA GainedAndOwed ==
  ASSUME BankrollAssumption, NEW S \in SUBSET Bet, IsFiniteSet(S)
  PROVE  Returned(S) = Gained(S) + Returned(Owing(S)) /\ Returned(Owing(S)) \in Int
<1>1. PICK N : N = Owing(S)
  OBVIOUS
<1>2. /\ N \in SUBSET S /\ N \in SUBSET Bet /\ IsFiniteSet(N)
      /\ S \ N \in SUBSET Bet /\ IsFiniteSet(S \ N)
  BY <1>1, FS_Subset DEF Owing
<1>3. \A b \in S : gainOf[b] \in Int /\ returnOf[b] \in Int
  BY GainType, RowAmounts
<1>4. /\ SumFunctionOnSet(returnOf, S \ N) = SumFunctionOnSet(returnOf, S) - SumFunctionOnSet(returnOf, N)
      /\ SumFunctionOnSet(gainOf, S \ N) = SumFunctionOnSet(gainOf, S) - SumFunctionOnSet(gainOf, N)
  BY <1>2, <1>3, SumDifference
<1>5. SumFunctionOnSet(gainOf, N) = 0
  <2>1. \A b \in N : b \in Bet /\ b.returned < 0
    BY <1>1, <1>2 DEF Owing
  <2>2. \A b \in N : gainOf[b] = 0
    BY <2>1, GainType
  <2> QED  BY <1>2, <2>2, SumZero
<1>6. SumFunctionOnSet(returnOf, S \ N) = SumFunctionOnSet(gainOf, S \ N)
  <2>1. \A b \in S \ N : b \in Bet /\ b.returned \in Int /\ ~(b.returned < 0)
    BY <1>1, <1>2, RowAmounts DEF Owing
  <2>2. \A b \in S \ N : b.returned >= 0
    BY <2>1
  <2>3. \A b \in S \ N : gainOf[b] \in Int /\ returnOf[b] = gainOf[b]
    BY <2>1, <2>2, GainType, RowAmounts
  <2> QED  BY <1>2, <2>3, SumSame
<1>7. /\ Returned(S) = SumFunctionOnSet(returnOf, S) /\ Returned(S) \in Int
      /\ Returned(N) = SumFunctionOnSet(returnOf, N) /\ Returned(N) \in Int
  BY <1>2, SumsOfBets
<1>8. Gained(S) \in Int /\ Gained(S) = SumFunctionOnSet(gainOf, S)
  BY GainedSums DEF Gained
<1> QED  BY <1>1, <1>4, <1>5, <1>6, <1>7, <1>8

(* What is returned is returned to bets won or void. *)
LEMMA PaidPart ==
  ASSUME BankrollAssumption, NEW S \in SUBSET Bet, IsFiniteSet(S), Unpaid(S)
  PROVE  Returned({b \in S : b.status \in {"WON", "VOID"}}) = Returned(S)
<1>1. PICK P : P = {b \in S : b.status \in {"WON", "VOID"}}
  OBVIOUS
<1>2. /\ P \in SUBSET S /\ P \in SUBSET Bet /\ IsFiniteSet(P)
      /\ S \ P \in SUBSET Bet /\ IsFiniteSet(S \ P)
  BY <1>1, FS_Subset
<1>3. \A b \in S : returnOf[b] \in Int
  BY RowAmounts
<1>4. \A b \in S \ P : returnOf[b] = 0
  BY <1>1, RowAmounts DEF Unpaid, Bet, Ended
<1>5. SumFunctionOnSet(returnOf, S \ P) = 0
  BY <1>2, <1>4, SumZero
<1>6. SumFunctionOnSet(returnOf, S \ P) = SumFunctionOnSet(returnOf, S) - SumFunctionOnSet(returnOf, P)
  BY <1>2, <1>3, SumDifference
<1>7. /\ Returned(P) = SumFunctionOnSet(returnOf, P) /\ Returned(P) \in Int
      /\ Returned(S) = SumFunctionOnSet(returnOf, S) /\ Returned(S) \in Int
  BY <1>2, SumsOfBets
<1> QED  BY <1>1, <1>5, <1>6, <1>7

(* One more bet. *)
LEMMA OneMoreBet ==
  ASSUME BankrollAssumption, NEW S \in SUBSET Bet, IsFiniteSet(S), NEW b \in Bet, b \notin S
  PROVE  /\ Staked(S \union {b}) = Staked(S) + b.stake
         /\ Returned(S \union {b}) = Returned(S) + b.returned
         /\ Gained(S \union {b}) = Gained(S) + gainOf[b]
         /\ Cardinality(S \union {b}) = Cardinality(S) + 1
<1>1. PICK T : T = S \union {b}
  OBVIOUS
<1>2. T \in SUBSET Bet /\ IsFiniteSet(T) /\ Cardinality(T) = Cardinality(S) + 1
  BY <1>1, FS_AddElement
<1>3. \A c \in S \union {b} : stakeOf[c] \in Int /\ returnOf[c] \in Int /\ gainOf[c] \in Int
  BY RowAmounts, GainType
<1>4. SumFunctionOnSet(stakeOf, S \union {b}) = SumFunctionOnSet(stakeOf, S) + stakeOf[b]
  BY <1>3, SumAdd
<1>5. SumFunctionOnSet(returnOf, S \union {b}) = SumFunctionOnSet(returnOf, S) + returnOf[b]
  BY <1>3, SumAdd
<1>6. SumFunctionOnSet(gainOf, S \union {b}) = SumFunctionOnSet(gainOf, S) + gainOf[b]
  BY <1>3, SumAdd
<1>7. /\ Staked(T) = SumFunctionOnSet(stakeOf, T) /\ Returned(T) = SumFunctionOnSet(returnOf, T)
      /\ Staked(S) = SumFunctionOnSet(stakeOf, S) /\ Returned(S) = SumFunctionOnSet(returnOf, S)
  BY <1>2, SumsOfBets
<1>8. stakeOf[b] = b.stake /\ returnOf[b] = b.returned
  BY RowAmounts
<1> QED  BY <1>1, <1>2, <1>4, <1>5, <1>6, <1>7, <1>8 DEF Gained

(* Settling bets keeps what is staked and gains no less. *)
LEMMA SettledSums ==
  ASSUME BankrollAssumption, NEW S \in SUBSET Bet, IsFiniteSet(S), NEW T \in SUBSET Bet,
         IsFiniteSet(T), NEW h \in Bijection(S, T),
         \A b \in S : h[b] \in T /\ h[b].stake = b.stake /\ gainOf[b] <= gainOf[h[b]]
  PROVE  Staked(T) = Staked(S) /\ Gained(S) <= Gained(T)
<1> DEFINE later == [b \in S |-> gainOf[h[b]]]
<1>1. \A b \in S : /\ later[b] = gainOf[h[b]] /\ h[b] \in Bet /\ b \in Bet
                   /\ stakeOf[b] \in Int /\ stakeOf[h[b]] = stakeOf[b]
                   /\ later[b] \in Int /\ gainOf[b] \in Int /\ gainOf[b] <= later[b]
  BY RowAmounts, GainType
<1> HIDE DEF later
<1>2. SumFunctionOnSet(stakeOf, T) = SumFunctionOnSet(stakeOf, S)
  BY <1>1, SumRenamed
<1>3. SumFunctionOnSet(gainOf, T) = SumFunctionOnSet(later, S)
  BY <1>1, SumRenamed
<1>4. SumFunctionOnSet(gainOf, S) <= SumFunctionOnSet(later, S)
  BY <1>1, SumMonotone
<1>5. Staked(T) = SumFunctionOnSet(stakeOf, T) /\ Staked(S) = SumFunctionOnSet(stakeOf, S)
  BY SumsOfBets
<1> QED  BY <1>2, <1>3, <1>4, <1>5 DEF Gained

(* The totals a settlement recomputes account for the bets it leaves. *)
LEMMA TotalsAccount ==
  ASSUME BankrollAssumption, budget \in Budget, NEW S \in SUBSET Bet, IsFiniteSet(S),
         NEW T \in SUBSET Bet, IsFiniteSet(T), Accounted(budget, S), Unpaid(T),
         Staked(T) = Staked(S), Gained(S) <= Gained(T)
  PROVE  Accounted(Totals(T, T), T)
<1>1. /\ Totals(T, T).available = budget.total - Staked(T) + Returned(T)
      /\ Totals(T, T).total = budget.total
      /\ Totals(T, T).bets = Cardinality(T) /\ Totals(T, T).staked = Staked(T)
  <2>1. Returned({b \in T : b.status \in {"WON", "VOID"}}) = Returned(T)
    BY PaidPart
  <2> QED  BY <2>1 DEF Totals, Budget
<1>2. budget.total \in Int
  <2>1. budget.total \in Amounts
    BY DEF Budget
  <2>2. Amounts \subseteq Int
    BY DEF BankrollAssumption
  <2> QED  BY <2>1, <2>2
<1>3. Staked(S) \in Nat /\ Gained(S) \in Nat /\ Gained(T) \in Nat
  BY SumsOfBets, GainedSums
<1>4. Staked(S) <= budget.total + Gained(S)
  BY DEF Accounted
<1>5. Staked(T) <= budget.total + Gained(T)
  BY <1>2, <1>3, <1>4
<1> QED  BY <1>1, <1>5 DEF Accounted

LEMMA UnearnedStep ==
  ASSUME BankrollAssumption, Base, NothingUnearned, [Next]_vars
  PROVE  NothingUnearned'
<1>1. ASSUME NEW r \in Request, NEW p, NEW m, Goto(r, p, m), Unpaid(m), Unpaid(bets')
      PROVE  NothingUnearned'
  <2>1. \A q \in Request : mem'[q] = IF q = r THEN m ELSE mem[q]
    BY <1>1, GotoStep DEF Base, IInv
  <2> QED  BY <1>1, <2>1 DEF NothingUnearned, Unpaid
<1>2. Unpaid({})
  BY DEF Unpaid
<1>3. Unpaid(bets) /\ \A r \in Request : Unpaid(mem[r])
  BY DEF NothingUnearned
<1>4. ASSUME NEW r \in Request, Serve(r)
      PROVE  NothingUnearned'
  <2>1. CASE ListPending(r)
    <3>1. PICK m : Goto(r, "listed", m) /\ m \subseteq bets
      BY <2>1 DEF ListPending, OfSession
    <3>2. Unpaid(m) /\ bets' = bets
      BY <1>3, <2>1, <3>1 DEF ListPending, tables, Unpaid
    <3> QED  BY <1>1, <1>3, <3>1, <3>2
  <2>2. CASE ReadResults(r)
    <3>1. bets' = bets
      BY <2>2 DEF ReadResults, tables
    <3>2. PICK seen \in SUBSET {b \in mem[r] : result[b.key] # None} :
            \/ Goto(r, "settling", {Verdict(b, result[b.key], Return(b, result[b.key])) : b \in seen})
            \/ Goto(r, "placing", {}) \/ Goto(r, "done", {})
      BY <2>2 DEF ReadResults
    <3>3. PICK m : m = {Verdict(b, result[b.key], Return(b, result[b.key])) : b \in seen}
      OBVIOUS
    <3>4. \A b \in seen : b \in Bet /\ result[b.key] \in Ended
      BY DEF Base, TypeOK, Bet
    <3>5. \A b \in seen : /\ Return(b, result[b.key]) \in Nat
                          /\ result[b.key] = "LOST" => Return(b, result[b.key]) = 0
      BY <3>4, ReturnType DEF Return
    <3>6. \A b \in seen : /\ Verdict(b, result[b.key], Return(b, result[b.key])).status = result[b.key]
                          /\ Verdict(b, result[b.key], Return(b, result[b.key])).returned
                               = Return(b, result[b.key])
      BY <3>4, <3>5, VerdictType
    <3>7. Unpaid(m)
      BY <3>3, <3>4, <3>5, <3>6 DEF Unpaid, Ended
    <3> QED  BY <1>1, <1>2, <1>3, <3>1, <3>2, <3>3, <3>7
  <2>3. CASE ReadBet(r)
    <3>1. bets' = bets
      BY <2>3 DEF ReadBet, tables
    <3>2. PICK b \in bets :
            \/ Goto(r, "byHand", {Verdict(b, "LOST", 0)})
            \/ \E cents \in ManualReturns \union {0, Return(b, "WON")} :
                 Goto(r, "byHand", {Verdict(b, "WON", cents)})
      BY <2>3 DEF ReadBet
    <3>3. b \in Bet /\ "WON" \in Ended /\ "LOST" \in Ended
      BY DEF Base, TypeOK, Ended
    <3>4. \A cents \in ManualReturns \union {0, Return(b, "WON")} : cents \in Int
      BY <3>3, ReturnType DEF BankrollAssumption
    <3>5. PICK v \in {"WON", "LOST"}, cents \in Int :
            Goto(r, "byHand", {Verdict(b, v, cents)}) /\ (v = "LOST" => cents = 0)
      BY <3>2, <3>4
    <3>6. Unpaid({Verdict(b, v, cents)})
      BY <3>3, <3>5, VerdictType DEF Unpaid
    <3> QED  BY <1>1, <1>3, <3>1, <3>5, <3>6
  <2>4. CASE SettleBets(r)
    <3>1. PICK p : Goto(r, p, {})
      BY <2>4 DEF SettleBets
    <3>2. bets' \subseteq bets \union mem[r]
      BY <2>4 DEF SettleBets, Written, StillOpen
    <3>3. Unpaid(bets')
      BY <1>3, <3>2 DEF Unpaid
    <3> QED  BY <1>1, <1>2, <3>1, <3>3
  <2>5. CASE PlaceBet(r)
    <3>1. Goto(r, "done", {})
      BY <2>5 DEF PlaceBet
    <3>2. \A c \in bets' : c \in bets \/ c.returned = 0
      BY <2>5 DEF PlaceBet
    <3>3. Unpaid(bets')
      BY <1>3, <3>2 DEF Unpaid
    <3> QED  BY <1>1, <1>2, <3>1, <3>3
  <2>6. CASE ReadSession(r) \/ CloseSession(r) \/ OpenSession(r) \/ ResetBudget(r)
    <3>1. PICK p : Goto(r, p, {})
      BY <2>6 DEF ReadSession, CloseSession, OpenSession, ResetBudget
    <3>2. bets' = bets
      BY <2>6 DEF ReadSession, CloseSession, OpenSession, ResetBudget, tables
    <3> QED  BY <1>1, <1>2, <1>3, <3>1, <3>2
  <2> QED  BY <1>4, <2>1, <2>2, <2>3, <2>4, <2>5, <2>6 DEF Serve
<1>5. CASE (\E k \in Key : Publish(k)) \/ UNCHANGED vars
  BY <1>5 DEF Publish, vars, tables, NothingUnearned
<1>6. CASE Crash
  BY <1>2, <1>3, <1>6 DEF Crash, tables, NothingUnearned
<1> QED  BY <1>4, <1>5, <1>6 DEF Next

(* A placement is debited what it stakes, and only when it fits. *)
LEMMA PlaceBetAccounts ==
  ASSUME BankrollAssumption, BudgetInv, NEW r \in Request, PlaceBet(r)
  PROVE  Accounts'
<1>1. PICK k \in Key, stake \in Stakes :
        /\ bets' = IF Admissible(k, stake)
                   THEN bets \union {[id |-> r, session |-> budget.session, key |-> k,
                                      stake |-> stake, status |-> "PENDING", returned |-> 0]}
                   ELSE bets
        /\ budget' = Debited(stake, Admissible(k, stake))
  BY DEF PlaceBet
<1>2. CASE ~Admissible(k, stake)
  BY <1>1, <1>2 DEF Debited, BudgetInv, Accounts
<1>3. CASE Admissible(k, stake)
  <2>1. PICK new : new = [id |-> r, session |-> budget.session, key |-> k,
                          stake |-> stake, status |-> "PENDING", returned |-> 0]
    OBVIOUS
  <2>2. PICK S : S = OfSession(budget.session, bets)
    OBVIOUS
  <2>3. /\ budget \in Budget /\ budget # None /\ budget.available >= stake
        /\ bets \in SUBSET Bet /\ \A b, c \in bets : b.id = c.id => b = c
    BY <1>3 DEF Admissible, BudgetInv, Base, TypeOK
  <2>4. S \in SUBSET Bet /\ IsFiniteSet(S)
    BY <2>2, <2>3, OwnBets
  <2>5. r \in Request \ Resets /\ at[r] # "done"
    BY DEF PlaceBet, BudgetInv, Base, TypeOK, ResetPlaces
  <2>6. new \in Bet /\ new.stake = stake /\ new.returned = 0 /\ new.session = budget.session
    BY <2>1, <2>3, <2>5 DEF Budget, Bet
  <2>7. new \notin S
    BY <2>1, <2>2, <2>5 DEF OfSession, BudgetInv, Base, IInv, Rows
  <2>8. /\ budget.available = budget.total - Staked(S) + Returned(S)
        /\ budget.bets = Cardinality(S) /\ budget.staked = Staked(S)
    BY <2>2, <2>3 DEF BudgetInv, Accounts, Accounted
  <2>9. budget' = [budget EXCEPT !.available = budget.available - stake,
                                 !.bets = budget.bets + 1, !.staked = budget.staked + stake]
    BY <1>1, <1>3 DEF Debited
  <2>10. /\ budget'.session = budget.session /\ budget'.total = budget.total
         /\ budget'.available = budget.available - stake
         /\ budget'.bets = budget.bets + 1 /\ budget'.staked = budget.staked + stake
    BY <2>3, <2>9 DEF Budget
  <2>11. OfSession(budget'.session, bets') = S \union {new}
    BY <1>1, <1>3, <2>1, <2>2, <2>6, <2>10 DEF OfSession
  <2>12. /\ Staked(S \union {new}) = Staked(S) + stake
         /\ Returned(S \union {new}) = Returned(S)
         /\ Gained(S \union {new}) = Gained(S)
         /\ Cardinality(S \union {new}) = Cardinality(S) + 1
    <3>1. Returned(S) \in Int /\ Gained(S) \in Nat
      BY <2>4, SumsOfBets, GainedSums
    <3>2. gainOf[new] = 0
      BY <2>6, GainType
    <3> QED  BY <2>4, <2>6, <2>7, <3>1, <3>2, OneMoreBet
  <2>13. /\ Staked(S) \in Nat /\ Returned(S) \in Int /\ budget.total \in Int
         /\ Gained(S) \in Int /\ Returned(S) <= Gained(S)
         /\ stake \in Int /\ budget.available \in Int
    <3>1. stake \in Int /\ budget.total \in Int /\ budget.available \in Int
      <4>1. Stakes \subseteq Int /\ Amounts \subseteq Int
        BY DEF BankrollAssumption
      <4>2. budget.total \in Amounts /\ budget.available \in Int
        BY <2>3 DEF Budget
      <4> QED  BY <4>1, <4>2
    <3> QED  BY <2>4, <3>1, SumsOfBets, GainedSums
  <2>14. /\ budget'.available = budget'.total - (Staked(S) + stake) + Returned(S)
         /\ Staked(S) + stake <= budget'.total + Gained(S)
    BY <2>3, <2>8, <2>10, <2>13
  <2>15. Accounted(budget', S \union {new})
    BY <2>8, <2>10, <2>12, <2>14 DEF Accounted
  <2> QED  BY <2>11, <2>15 DEF Accounts
<1> QED  BY <1>2, <1>3

(* A batch of settlements maps the bets of the session one to one. *)
LEMMA SettleBetsAccounts ==
  ASSUME BankrollAssumption, BudgetInv, NEW r \in Request, SettleBets(r), TypeOK', NothingUnearned'
  PROVE  Accounts'
<1>1. budget' = Recomputed(bets')
  BY DEF SettleBets
<1>2. CASE budget = None
  BY <1>1, <1>2 DEF Recomputed, Accounts
<1>3. CASE budget # None
  <2>1. PICK S : S = OfSession(budget.session, bets)
    OBVIOUS
  <2>2. PICK T : T = OfSession(budget.session, bets')
    OBVIOUS
  <2>3. /\ budget \in Budget
        /\ bets \in SUBSET Bet /\ \A b, c \in bets : b.id = c.id => b = c
        /\ bets' \in SUBSET Bet /\ \A b, c \in bets' : b.id = c.id => b = c
    BY <1>3 DEF BudgetInv, Base, TypeOK
  <2>4. S \in SUBSET Bet /\ IsFiniteSet(S)
    BY <2>1, <2>3, OwnBets
  <2>5. T \in SUBSET Bet /\ IsFiniteSet(T)
    BY <2>2, <2>3, OwnBets
  <2>6. /\ \A b \in bets : \E c \in bets' : SameBet(b, c) /\ (b.status # "PENDING" => c = b)
        /\ \A c \in bets' : \E b \in bets : SameBet(b, c)
    <3>1. \A c \in bets' : \E b \in bets : /\ SameBet(b, c)
                                           /\ c = b \/ (b.status = "PENDING" /\ c \in mem[r])
      BY SettleBetsStep DEF BudgetInv, Base
    <3>2. \A b \in bets : \E c \in bets' : SameBet(b, c) /\ (b.status # "PENDING" => c = b)
      BY SettleBetsStep DEF BudgetInv, Base
    <3> QED  BY <3>1, <3>2
  <2>7. \A b \in S : \E c \in T : SameBet(b, c) /\ (b.status # "PENDING" => c = b)
    BY <2>1, <2>2, <2>6 DEF OfSession, SameBet
  <2>8. \A c \in T : \E b \in S : SameBet(b, c)
    BY <2>1, <2>2, <2>6 DEF OfSession, SameBet
  <2>9. \A b, c \in T : b.id = c.id => b = c
    BY <2>2, <2>3 DEF OfSession
  <2>10. \A b, c \in S : b.id = c.id => b = c
    BY <2>1, <2>3 DEF OfSession
  <2>11. PICK h : h = [b \in S |-> CHOOSE c \in T : SameBet(b, c) /\ (b.status # "PENDING" => c = b)]
    OBVIOUS
  <2>12. \A b \in S : h[b] \in T /\ SameBet(b, h[b]) /\ (b.status # "PENDING" => h[b] = b)
    BY <2>7, <2>11
  <2>13. h \in Bijection(S, T)
    <3>1. h \in [S -> T]
      BY <2>11, <2>12
    <3>2. \A b, c \in S : h[b] = h[c] => b = c
      BY <2>10, <2>12 DEF SameBet
    <3>3. \A c \in T : \E b \in S : h[b] = c
      BY <2>8, <2>9, <2>12 DEF SameBet
    <3> QED  BY <3>1, <3>2, <3>3 DEF Bijection, Injection, Surjection, IsInjective
  <2>14. \A b \in S : h[b] \in T /\ h[b].stake = b.stake /\ gainOf[b] <= gainOf[h[b]]
    <3>1. \A b \in S : b \in Bet /\ h[b] \in Bet /\ (b.status = "PENDING" => b.returned = 0)
      BY <2>1, <2>4, <2>5, <2>12 DEF BudgetInv, NothingUnearned, Unpaid, OfSession
    <3>2. \A b \in S : gainOf[b] \in Nat /\ gainOf[h[b]] \in Nat /\ (b.returned = 0 => gainOf[b] = 0)
      BY <3>1, GainType
    <3>3. \A b \in S : gainOf[b] <= gainOf[h[b]]
      BY <2>12, <3>1, <3>2
    <3> QED  BY <2>12, <3>3 DEF SameBet
  <2>15. Staked(T) = Staked(S) /\ Gained(S) <= Gained(T)
    BY <2>4, <2>5, <2>13, <2>14, SettledSums
  <2>16. Accounted(budget, S)
    BY <1>3, <2>1 DEF BudgetInv, Accounts
  <2>17. Unpaid(T)
    BY <2>2 DEF NothingUnearned, Unpaid, OfSession
  <2>18. Accounted(Totals(T, T), T)
    BY <2>3, <2>4, <2>5, <2>15, <2>16, <2>17, TotalsAccount
  <2>19. budget' = Totals(T, T) /\ Totals(T, T).session = budget.session
    BY <1>1, <1>3, <2>2, <2>3 DEF Recomputed, Totals, Budget
  <2> QED  BY <2>2, <2>18, <2>19 DEF Accounts
<1> QED  BY <1>2, <1>3

(* A session starts without bets. *)
LEMMA ResetBudgetAccounts ==
  ASSUME BankrollAssumption, BudgetInv, NEW r \in Request, ResetBudget(r)
  PROVE  Accounts'
<1>1. PICK s \in sessions : /\ at[r] = "opened" /\ bets' = bets
                            /\ s.id = r /\ budget' = ResetRow(s)
  BY DEF ResetBudget
<1>2. OfSession(r, bets') = {}
  BY <1>1 DEF OfSession, BudgetInv, Base, Placed
<1>3. s.initial \in Nat
  <2>1. s.initial \in Amounts
    BY DEF BudgetInv, Base, TypeOK, Session
  <2>2. Amounts \subseteq Nat
    BY DEF BankrollAssumption
  <2> QED  BY <2>1, <2>2
<1>4. Accounted(ResetRow(s), {})
  BY <1>3, NoBets DEF Accounted, ResetRow
<1>5. budget'.session = r
  BY <1>1 DEF ResetRow
<1> QED  BY <1>1, <1>2, <1>4, <1>5 DEF Accounts

LEMMA BudgetStep ==
  ASSUME BankrollAssumption, BudgetInv, [Next]_vars
  PROVE  BudgetInv'
<1>1. Base'
  BY BaseStep DEF BudgetInv
<1>2. NothingUnearned'
  BY UnearnedStep DEF BudgetInv
<1>3. ASSUME UNCHANGED <<budget, bets>>
      PROVE  Accounts'
  BY <1>3 DEF BudgetInv, Accounts
<1>4. Accounts'
  <2>1. ASSUME NEW r \in Request, Serve(r)
        PROVE  Accounts'
    <3>1. CASE PlaceBet(r)
      BY <3>1, PlaceBetAccounts
    <3>2. CASE SettleBets(r)
      BY <1>1, <1>2, <3>2, SettleBetsAccounts DEF Base
    <3>3. CASE ResetBudget(r)
      BY <3>3, ResetBudgetAccounts
    <3>4. CASE ListPending(r) \/ ReadResults(r) \/ ReadBet(r)
      BY <1>3, <3>4 DEF ListPending, ReadResults, ReadBet, tables
    <3>5. CASE ReadSession(r) \/ CloseSession(r) \/ OpenSession(r)
      BY <1>3, <3>5 DEF ReadSession, CloseSession, OpenSession, tables
    <3> QED  BY <2>1, <3>1, <3>2, <3>3, <3>4, <3>5 DEF Serve
  <2>2. CASE (\E k \in Key : Publish(k)) \/ Crash \/ UNCHANGED vars
    BY <1>3, <2>2 DEF Publish, Crash, vars, tables
  <2> QED  BY <2>1, <2>2 DEF Next
<1> QED  BY <1>1, <1>2, <1>4 DEF BudgetInv

(* What ended bets won or lost is what they returned less what they staked, *)
(* so the equation of the row and that of the property are the same.        *)
LEMMA Explained ==
  ASSUME BankrollAssumption, BudgetInv, budget # None,
         NEW S, S = OfSession(budget.session, bets), NEW P, P = {b \in S : b.status = "PENDING"}
  PROVE  /\ budget.available = budget.total - Staked(P)
                               + SumFunction([b \in S \ P |-> b.returned - b.stake])
         /\ budget.available >= Returned({b \in S : b.returned < 0})
<1>1. /\ bets \in SUBSET Bet /\ \A b, c \in bets : b.id = c.id => b = c
      /\ budget.total \in Int
  <2>1. budget \in Budget /\ Amounts \subseteq Int
    BY DEF BudgetInv, Base, TypeOK, BankrollAssumption
  <2>2. bets \in SUBSET Bet /\ \A b, c \in bets : b.id = c.id => b = c
    BY DEF BudgetInv, Base, TypeOK
  <2> QED  BY <2>1, <2>2 DEF Budget
<1>2. S \in SUBSET Bet /\ IsFiniteSet(S)
  BY <1>1, OwnBets
<1>3. PICK E : E = S \ P
  OBVIOUS
<1>4. /\ P \in SUBSET S /\ P \in SUBSET Bet /\ IsFiniteSet(P)
      /\ E \in SUBSET Bet /\ IsFiniteSet(E)
  BY <1>2, <1>3, FS_Subset
<1>5. \A b \in S : stakeOf[b] \in Int /\ returnOf[b] \in Int
  BY <1>2, RowAmounts
<1>6. /\ SumFunctionOnSet(stakeOf, E) = SumFunctionOnSet(stakeOf, S) - SumFunctionOnSet(stakeOf, P)
      /\ SumFunctionOnSet(returnOf, E) = SumFunctionOnSet(returnOf, S) - SumFunctionOnSet(returnOf, P)
  BY <1>2, <1>3, <1>4, <1>5, SumDifference
<1>7. SumFunctionOnSet(returnOf, P) = 0
  <2>1. \A b \in P : b \in Bet /\ b \in bets /\ b.status = "PENDING"
    BY <1>4 DEF OfSession
  <2>2. \A b \in P : returnOf[b] = 0
    BY <2>1, RowAmounts DEF BudgetInv, NothingUnearned, Unpaid
  <2> QED  BY <1>4, <2>2, SumZero
<1>8. SumFunction([b \in E |-> b.returned - b.stake])
        = SumFunctionOnSet(returnOf, E) - SumFunctionOnSet(stakeOf, E)
  <2>1. PICK gain : gain = [b \in E |-> b.returned - b.stake]
    OBVIOUS
  <2>2. SumFunction(gain) = SumFunctionOnSet(gain, E)
    BY <2>1 DEF SumFunction
  <2>3. \A b \in E : returnOf[b] \in Int /\ stakeOf[b] \in Int /\ gain[b] = returnOf[b] - stakeOf[b]
    BY <1>4, <2>1, RowAmounts
  <2>4. SumFunctionOnSet(gain, E) = SumFunctionOnSet(returnOf, E) - SumFunctionOnSet(stakeOf, E)
    BY <1>4, <2>3, SumMinus
  <2> QED  BY <2>1, <2>2, <2>4
<1>9. /\ Staked(S) = SumFunctionOnSet(stakeOf, S) /\ Staked(S) \in Nat
      /\ Returned(S) = SumFunctionOnSet(returnOf, S) /\ Returned(S) \in Int
  BY <1>2, SumsOfBets
<1>10. Staked(P) = SumFunctionOnSet(stakeOf, P) /\ Staked(P) \in Nat
  BY <1>4, SumsOfBets
<1>11. budget.available = budget.total - Staked(S) + Returned(S)
  BY DEF BudgetInv, Accounts, Accounted
<1>12. SumFunction([b \in E |-> b.returned - b.stake]) = Returned(S) - (Staked(S) - Staked(P))
  BY <1>6, <1>7, <1>8, <1>9, <1>10
<1>13. budget.available >= Returned(Owing(S))
  <2>1. /\ Returned(S) = Gained(S) + Returned(Owing(S)) /\ Returned(Owing(S)) \in Int
        /\ Gained(S) \in Nat
    BY <1>2, GainedAndOwed, GainedSums
  <2>2. Staked(S) <= budget.total + Gained(S)
    BY DEF BudgetInv, Accounts, Accounted
  <2> QED  BY <1>1, <1>9, <1>11, <2>1, <2>2
<1> QED  BY <1>1, <1>3, <1>9, <1>10, <1>11, <1>12, <1>13 DEF Owing

THEOREM AlwaysAccounted == Spec => []BudgetInv
<1>1. Init => BudgetInv
  <2> SUFFICES ASSUME Init PROVE BudgetInv
    OBVIOUS
  <2>1. Base
    BY InitBase, BankrollAssumption
  <2>2. NothingUnearned /\ Accounts
    BY DEF Init, NothingUnearned, Unpaid, Accounts
  <2> QED  BY <2>1, <2>2 DEF BudgetInv
<1>2. BudgetInv /\ [Next]_vars => BudgetInv'
  BY BudgetStep, BankrollAssumption
<1> QED  BY <1>1, <1>2, PTL DEF Spec

(* Whatever races to place, settle and reset, wherever the process dies    *)
(* and whatever returns are entered, the budget row accounts for the bets  *)
(* of its session, cent by cent; no stake overdraws it, and returns        *)
(* entered below zero do by no more than they come to.                     *)
THEOREM BudgetAlwaysExplained == Spec => []BudgetExplained
<1>1. BudgetInv => BudgetExplained
  <2> SUFFICES ASSUME BudgetInv PROVE BudgetExplained
    OBVIOUS
  <2>1. TypeOK
    BY DEF BudgetInv, Base
  <2>2. ASSUME budget # None,
               NEW S, S = OfSession(budget.session, bets), NEW P, P = {b \in S : b.status = "PENDING"}
        PROVE  /\ budget.available = budget.total - Staked(P)
                                      + SumFunction([b \in S \ P |-> b.returned - b.stake])
               /\ budget.available >= Returned({b \in S : b.returned < 0})
               /\ budget.bets = Cardinality(S) /\ budget.staked = Staked(S)
               /\ \E s \in sessions : s.id = budget.session /\ s.initial = budget.total
    <3>1. /\ budget.available = budget.total - Staked(P)
                                 + SumFunction([b \in S \ P |-> b.returned - b.stake])
          /\ budget.available >= Returned({b \in S : b.returned < 0})
      BY <2>2, Explained, BankrollAssumption
    <3>2. budget.bets = Cardinality(S) /\ budget.staked = Staked(S)
      BY <2>2 DEF BudgetInv, Accounts, Accounted
    <3>3. \E s \in sessions : s.id = budget.session /\ s.initial = budget.total
      BY <2>2 DEF BudgetInv, Base, Started
    <3> QED  BY <3>1, <3>2, <3>3
  <2> QED  BY <2>1, <2>2 DEF BudgetExplained
<1> QED  BY <1>1, AlwaysAccounted, PTL
==============================================================================
