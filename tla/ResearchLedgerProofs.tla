------------------------- MODULE ResearchLedgerProofs -------------------------
(***************************************************************************)
(* For any families, fixtures, odds, verdicts and numbers of settlers: the *)
(* rows of ResearchLedger are well formed, the ledger is the journal of    *)
(* the bet tables, what is committed is what is pending and stays within   *)
(* the exposure cap, and the ledger of each family is a Wallet.            *)
(***************************************************************************)
EXTENDS ResearchLedger, SumTheorems

(* What a settler carries can be paid out: only selections that its        *)
(* outcome resolves are read.                                              *)
SeenResolved ==
  \A p \in Settlers :
    seen[p] # None => Verdict[<<seen[p].bet.sel, seen[p].outcome>>] # "UNRESOLVED"

RowsFit == TypeOK /\ SeenResolved

-----------------------------------------------------------------------------
LEMMA PolicyNames ==
  ASSUME policy \in 1..Len(Policies)
  PROVE  /\ Policies[policy] \in {"nightly", "virtual", "funded", "dynamic"}
         /\ policy <= 2 <=> Policies[policy] \in {"nightly", "virtual"}
         /\ policy <= 3 <=> Policies[policy] # "dynamic"
<1>1. policy \in {1, 2, 3, 4}
  BY DEF Policies
<1>2. CASE policy = 1  BY <1>2 DEF Policies
<1>3. CASE policy = 2  BY <1>3 DEF Policies
<1>4. CASE policy = 3  BY <1>4 DEF Policies
<1>5. CASE policy = 4  BY <1>5 DEF Policies
<1> QED  BY <1>1, <1>2, <1>3, <1>4, <1>5

(* A fresh identity is one that no stored or inserted bet has. *)
LEMMA FreshId ==
  ASSUME FreeIds # {}, NEW c, NEW cents
  PROVE  /\ NewBet(c, cents).id \in BetIds
         /\ \A b \in bets \union archived \union new : b.id # NewBet(c, cents).id
  BY DEF FreeIds, NewBet, Ids

LEMMA NewBetType ==
  ASSUME TypeOK, FreeIds # {}, NEW c, NEW cents \in Nat \ {0},
         c.kind \in Kinds, c.family \in Family, c.match \in Match, c.sel \in Selection
  PROVE  NewBet(c, cents) \in Bet
<1>1. NewBet(c, cents).id \in BetIds
  BY FreshId
<1>2. kickoff[c.match] \in Kickoffs
  BY DEF TypeOK
<1> QED  BY <1>1, <1>2 DEF NewBet, Bet

LEMMA PayoutType ==
  ASSUME LedgerAssumption, NEW b \in Bet, NEW o \in Outcome,
         Verdict[<<b.sel, o>>] # "UNRESOLVED"
  PROVE  Payout(b, o) \in Nat
<1> DEFINE v == Verdict[<<b.sel, o>>]
           m == Multiplier(Odds[b.sel], v)
<1>1. b.sel \in Selection /\ b.stake \in Nat /\ Odds[b.sel] \in Nat
  BY DEF Bet, LedgerAssumption
<1>2. v \in Verdicts /\ v # "UNRESOLVED"
  BY <1>1 DEF LedgerAssumption
<1>3. m \in Nat
  BY <1>1, <1>2 DEF Multiplier, Verdicts
<1>4. b.stake * m \in Nat
  BY <1>1, <1>3
<1> HIDE DEF m
<1>5. (b.stake * m + 100) \div 200 \in Nat
  BY <1>4
<1> QED  BY <1>5 DEF Payout, m

CandidateType ==
  \A c \in Candidates : /\ c.kind \in Kinds /\ c.family \in Family
                        /\ c.match \in Match /\ c.sel \in Selection

LEMMA CandidatesAreTyped ==
  ASSUME policy \in 1..Len(Policies)
  PROVE  CandidateType
<1>1. Policies[policy] \in Kinds
  BY PolicyNames DEF Kinds
<1> QED  BY <1>1 DEF CandidateType, Candidates

-----------------------------------------------------------------------------
(* Type correctness, action by action. *)

LEMMA InitType == LedgerAssumption /\ Init => RowsFit
  BY DEF Init, RowsFit, TypeOK, SeenResolved, Policies, LedgerAssumption,
         OpenEntry, Entry, BetIds

LEMMA DecideType ==
  ASSUME RowsFit, NEW c \in Candidates, Decide(c)
  PROVE  RowsFit'
<1>1. TypeOK /\ FreeIds # {}
  BY DEF RowsFit, Decide
<1>2. asked' \subseteq Candidates'
  BY <1>1 DEF Decide, TypeOK, Candidates, fixtures
<1>3. CASE Admissible(c)
  <2>1. StakeOf(c) \in Nat \ {0}
    BY <1>3 DEF Admissible
  <2>2. NewBet(c, StakeOf(c)) \in Bet
    BY <1>1, <2>1, NewBetType, CandidatesAreTyped DEF CandidateType, TypeOK
  <2>3. new' = new \union {NewBet(c, StakeOf(c))}
    BY <1>3 DEF Decide
  <2>4. \A b \in bets \union archived \union new : b.id # NewBet(c, StakeOf(c)).id
    BY <1>1, FreshId
  <2> HIDE DEF NewBet
  <2>5. \A b, d \in bets' \union archived' \union new' : b.id = d.id => b = d
    BY <1>1, <2>3, <2>4 DEF TypeOK, Decide
  <2> QED
    BY <1>1, <1>2, <2>2, <2>3, <2>5 DEF RowsFit, TypeOK, SeenResolved, Decide, fixtures, settlers
<1>4. CASE ~Admissible(c)
  <2>1. new' = new
    BY <1>4 DEF Decide
  <2> QED
    BY <1>1, <1>2, <2>1 DEF RowsFit, TypeOK, SeenResolved, Decide, fixtures, settlers
<1> QED  BY <1>3, <1>4

LEMMA StakeEntryType ==
  ASSUME NEW b \in Bet
  PROVE  StakeEntry(b) \in Entry /\ RefundEntry(b) \in Entry
  BY DEF StakeEntry, RefundEntry, Entry, Bet, BetIds

LEMMA CommitType ==
  ASSUME RowsFit, Commit
  PROVE  RowsFit'
<1>1. {StakeEntry(b) : b \in new} \subseteq Entry
  BY StakeEntryType DEF RowsFit, TypeOK
<1> QED
  BY <1>1 DEF RowsFit, TypeOK, SeenResolved, Commit, fixtures, settlers

LEMMA RollbackType ==
  ASSUME RowsFit, Rollback
  PROVE  RowsFit'
  BY DEF RowsFit, TypeOK, SeenResolved, Rollback, fixtures, settlers

LEMMA PlaceManualType ==
  ASSUME LedgerAssumption, RowsFit, NEW c \in Manual, PlaceManual(c)
  PROVE  RowsFit'
<1> DEFINE b == NewBet(c, c.stake)
<1>1. TypeOK /\ FreeIds # {}
  BY DEF RowsFit, PlaceManual
<1>2. b \in Bet
  BY <1>1, NewBetType DEF Manual, Kinds, LedgerAssumption
<1>3. bets' = bets \union {b} /\ ledger' = ledger \union {StakeEntry(b)}
  BY DEF PlaceManual
<1>4. \A d \in bets \union archived \union new : d.id # b.id
  BY <1>1, FreshId
<1> HIDE DEF b
<1>5. StakeEntry(b) \in Entry
  BY <1>2, StakeEntryType
<1>6. \A d, e \in bets' \union archived' \union new' : d.id = e.id => d = e
  BY <1>1, <1>3, <1>4 DEF TypeOK, PlaceManual, batch
<1>7. asked' \subseteq Candidates'
  BY <1>1 DEF PlaceManual, TypeOK, Candidates, batch
<1> QED
  BY <1>1, <1>2, <1>3, <1>5, <1>6, <1>7
  DEF RowsFit, TypeOK, SeenResolved, PlaceManual, fixtures, settlers, batch

LEMMA ListPendingType ==
  ASSUME RowsFit, NEW p \in Settlers, ListPending(p)
  PROVE  RowsFit'
<1>1. Pending \subseteq Bet
  BY DEF RowsFit, TypeOK, Pending
<1> QED
  BY <1>1 DEF RowsFit, TypeOK, SeenResolved, ListPending, fixtures, batch, Candidates

LEMMA ReadFixtureType ==
  ASSUME RowsFit, NEW p \in Settlers, NEW b \in pass[p], ReadFixture(p, b)
  PROVE  RowsFit'
<1>1. b \in Bet /\ b.match \in Match
  BY DEF RowsFit, TypeOK, Bet
<1>2. CASE ~Resolvable(b)
  BY <1>1, <1>2 DEF RowsFit, TypeOK, SeenResolved, ReadFixture, fixtures, batch, Candidates
<1>3. CASE Resolvable(b)
  <2> DEFINE s == [bet |-> b, outcome |-> result[b.match], kickoff |-> kickoff[b.match]]
  <2>1. seen' = [seen EXCEPT ![p] = s] /\ pass' = pass
    BY <1>3 DEF ReadFixture
  <2>2. s \in [bet : Bet, outcome : Outcome, kickoff : Kickoffs]
    BY <1>1, <1>3 DEF Resolvable, RowsFit, TypeOK
  <2>3. Verdict[<<s.bet.sel, s.outcome>>] # "UNRESOLVED"
    BY <1>3 DEF Resolvable
  <2> HIDE DEF s
  <2>4. SeenResolved'
    BY <2>1, <2>3 DEF RowsFit, TypeOK, SeenResolved
  <2> QED
    BY <2>1, <2>2, <2>4 DEF RowsFit, TypeOK, ReadFixture, fixtures, batch, Candidates
<1> QED  BY <1>2, <1>3

LEMMA SettleBetType ==
  ASSUME LedgerAssumption, RowsFit, NEW p \in Settlers, SettleBet(p)
  PROVE  RowsFit'
<1> DEFINE b == seen[p].bet
           row == [bet |-> b.id, outcome |-> seen[p].outcome,
                   kickoff |-> seen[p].kickoff, returned |-> Payout(b, seen[p].outcome)]
           throws == b \notin bets \/ b.id \in cancelled \/ Conflicts(row)
<1>1. seen[p] \in [bet : Bet, outcome : Outcome, kickoff : Kickoffs]
  BY DEF RowsFit, TypeOK, SettleBet
<1>2. Payout(b, seen[p].outcome) \in Nat
  <2>1. Verdict[<<b.sel, seen[p].outcome>>] # "UNRESOLVED"
    BY DEF RowsFit, SeenResolved, SettleBet
  <2> QED  BY <1>1, <2>1, PayoutType
<1>3. row \in Settlement
  BY <1>1, <1>2 DEF Settlement, Bet
<1>4. SettleEntry(b, row.returned) \in Entry
  BY <1>1, <1>2 DEF SettleEntry, Entry, Bet, BetIds
<1>5. /\ pass' = [pass EXCEPT ![p] = IF throws THEN {} ELSE @ \ {b}]
      /\ IF throws \/ row \in settlements
         THEN UNCHANGED <<settlements, ledger>>
         ELSE /\ settlements' = settlements \union {row}
              /\ ledger' = ledger \union {SettleEntry(b, row.returned)}
      /\ seen' = [seen EXCEPT ![p] = None]
  BY DEF SettleBet
<1> HIDE DEF row, throws
<1>6. pass' \in [Settlers -> SUBSET Bet]
  BY <1>5 DEF RowsFit, TypeOK
<1>7. settlements' \subseteq Settlement /\ ledger' \subseteq Entry
  BY <1>3, <1>4, <1>5 DEF RowsFit, TypeOK
<1>8. SeenResolved'
  BY <1>5 DEF RowsFit, TypeOK, SeenResolved
<1> QED
  BY <1>5, <1>6, <1>7, <1>8
  DEF RowsFit, TypeOK, SettleBet, fixtures, batch, Candidates

LEMMA SettlerStopsType ==
  ASSUME RowsFit, NEW p \in Settlers, SettlerStops(p)
  PROVE  RowsFit'
  BY DEF RowsFit, TypeOK, SeenResolved, SettlerStops, fixtures, batch, Candidates

LEMMA CancelVirtualType ==
  ASSUME RowsFit, NEW B \in SUBSET bets, CancelVirtual(B)
  PROVE  RowsFit'
  BY DEF RowsFit, TypeOK, SeenResolved, CancelVirtual, fixtures, settlers, batch, Candidates

LEMMA CancelFundedType ==
  ASSUME RowsFit, NEW B \in SUBSET bets, CancelFunded(B)
  PROVE  RowsFit'
<1>1. {RefundEntry(b) : b \in B} \subseteq Entry /\ {b.id : b \in B} \subseteq BetIds
  BY StakeEntryType DEF RowsFit, TypeOK, Bet
<1> QED
  BY <1>1 DEF RowsFit, TypeOK, SeenResolved, CancelFunded, fixtures, settlers, batch, Candidates

(* The clock, the sources and the operator write no table of the wallets. *)
LEMMA EnvironmentType ==
  ASSUME LedgerAssumption, RowsFit,
         \/ Tick \/ NextPolicy
         \/ \E m \in Match, o \in Outcome : Publish(m, o)
         \/ \E m \in Match, k \in Kickoffs : Reschedule(m, k)
  PROVE  RowsFit'
<1>1. CASE Tick
  BY <1>1 DEF RowsFit, TypeOK, SeenResolved, Tick, Unchanged, settlers, batch, Candidates
<1>2. CASE NextPolicy
  <2>1. policy' \in 1..Len(Policies)
    BY <1>2 DEF RowsFit, TypeOK, NextPolicy, Policies
  <2> QED
    BY <1>2, <2>1 DEF RowsFit, TypeOK, SeenResolved, NextPolicy, Unlocked, Unchanged, fixtures,
                settlers, batch
<1>3. ASSUME NEW m \in Match, NEW o \in Outcome, Publish(m, o) PROVE RowsFit'
  <2>1. changes' \in 0..MaxChanges
    BY <1>3 DEF RowsFit, TypeOK, Publish, LedgerAssumption
  <2>2. result' \in [Match -> Outcome \union {None}]
    BY <1>3 DEF RowsFit, TypeOK, Publish
  <2> QED
    BY <1>3, <2>1, <2>2
    DEF RowsFit, TypeOK, SeenResolved, Publish, Unchanged, settlers, batch, Candidates
<1>4. ASSUME NEW m \in Match, NEW k \in Kickoffs, Reschedule(m, k) PROVE RowsFit'
  <2>1. changes' \in 0..MaxChanges
    BY <1>4 DEF RowsFit, TypeOK, Reschedule, LedgerAssumption
  <2>2. kickoff' \in [Match -> Kickoffs]
    BY <1>4 DEF RowsFit, TypeOK, Reschedule
  <2> QED
    BY <1>4, <2>1, <2>2
    DEF RowsFit, TypeOK, SeenResolved, Reschedule, Unchanged, settlers, batch, Candidates
<1> QED  BY <1>1, <1>2, <1>3, <1>4

LEMMA StepType ==
  ASSUME LedgerAssumption, RowsFit, [Next]_vars
  PROVE  RowsFit'
<1>1. CASE \E c \in Candidates : Decide(c)
  BY <1>1, DecideType
<1>2. CASE Commit \/ Rollback
  BY <1>2, CommitType, RollbackType
<1>3. CASE \E c \in Manual : PlaceManual(c)
  BY <1>3, PlaceManualType
<1>4. CASE \E p \in Settlers : SettlerStep(p) \/ SettlerStops(p)
  BY <1>4, ListPendingType, ReadFixtureType, SettleBetType, SettlerStopsType DEF SettlerStep
<1>5. CASE \E B \in SUBSET bets : CancelVirtual(B) \/ CancelFunded(B)
  BY <1>5, CancelVirtualType, CancelFundedType
<1>6. CASE UNCHANGED vars
  BY <1>6 DEF RowsFit, TypeOK, SeenResolved, vars, fixtures, settlers, batch, Candidates
<1> QED
  BY <1>1, <1>2, <1>3, <1>4, <1>5, <1>6, EnvironmentType DEF Next

(* Every state of every behaviour has well-formed rows, one row per bet    *)
(* identity, and settlers that carry only resolved selections.             *)
THEOREM RowsAlwaysFit == Spec => []RowsFit
<1>1. Init => RowsFit
  BY InitType, LedgerAssumption
<1>2. RowsFit /\ [Next]_vars => RowsFit'
  BY StepType, LedgerAssumption
<1> QED  BY <1>1, <1>2, PTL DEF Spec

(* The tables of ResearchLedger keep their types. *)
THEOREM TypeCorrect == Spec => []TypeOK
<1>1. RowsFit => TypeOK
  BY DEF RowsFit
<1> QED  BY <1>1, RowsAlwaysFit, PTL

-----------------------------------------------------------------------------
(***************************************************************************)
(* For every value of the constants: a bet ends in one way, the ledger is  *)
(* the journal of the bet tables, and a family stakes on a selection once. *)
(***************************************************************************)

(* What an open transaction inserts has identities no stored bet ever had, *)
(* and a closed one leaves nothing behind.                                 *)
NewIsFresh == /\ asked = {} => new = {}
              /\ Ids(new) \intersect Ids(bets \union archived) = {}

EndsInv == RowsFit /\ NewIsFresh /\ SettledXorCancelled

tables == <<bets, settlements, archived, cancelled, batch, ledger>>

(* The steps that write no table of the wallets. *)
Quiet ==
  \/ \E p \in Settlers : ListPending(p) \/ SettlerStops(p)
  \/ \E p \in Settlers : \E b \in pass[p] : ReadFixture(p, b)
  \/ Tick \/ NextPolicy
  \/ \E m \in Match, o \in Outcome : Publish(m, o)
  \/ \E m \in Match, k \in Kickoffs : Reschedule(m, k)
  \/ UNCHANGED vars

LEMMA QuietKeepsTables == Quiet => UNCHANGED tables
  BY DEF Quiet, tables, batch, vars, ListPending, SettlerStops, ReadFixture, Tick, NextPolicy,
         Publish, Reschedule, Unchanged

(* The steps that write one. *)
LEMMA StepCases ==
  ASSUME [Next]_vars
  PROVE  \/ Quiet
         \/ \E c \in Candidates : Decide(c)
         \/ Commit \/ Rollback
         \/ \E c \in Manual : PlaceManual(c)
         \/ \E p \in Settlers : SettleBet(p)
         \/ \E B \in SUBSET bets : CancelVirtual(B) \/ CancelFunded(B)
  BY DEF Next, Quiet, SettlerStep

-----------------------------------------------------------------------------
(* A bet ends in one way. *)

LEMMA EndsStep ==
  ASSUME EndsInv, [Next]_vars
  PROVE  NewIsFresh' /\ SettledXorCancelled'
<1> USE DEF EndsInv, NewIsFresh, SettledXorCancelled, Ids, Settled
<1>1. CASE Quiet
  BY <1>1, QuietKeepsTables DEF tables, batch
<1>2. ASSUME NEW c \in Candidates, Decide(c) PROVE NewIsFresh' /\ SettledXorCancelled'
  <2>1. \A b \in bets \union archived : b.id # NewBet(c, StakeOf(c)).id
    BY <1>2, FreshId DEF Decide
  <2>2. new' = new \/ new' = new \union {NewBet(c, StakeOf(c))}
    BY <1>2 DEF Decide
  <2>3. asked' # {}
    BY <1>2 DEF Decide
  <2> HIDE DEF NewBet
  <2>4. Ids(new') \intersect Ids(bets \union archived) = {}
    BY <2>1, <2>2
  <2>5. UNCHANGED <<bets, archived, settlements, cancelled>>
    BY <1>2 DEF Decide
  <2> QED  BY <2>3, <2>4, <2>5
<1>3. CASE Commit
  <2>1. /\ bets' = bets \union new /\ new' = {}
        /\ UNCHANGED <<archived, settlements, cancelled>>
    BY <1>3 DEF Commit
  <2>2. Ids(bets') = Ids(bets) \union Ids(new)
    BY <2>1
  <2>3. Ids(new) \intersect Ids(archived) = {}
    OBVIOUS
  <2>4. SettledXorCancelled'
    BY <2>1, <2>2, <2>3
  <2> QED  BY <2>1, <2>4
<1>4. CASE Rollback
  BY <1>4 DEF Rollback
<1>5. ASSUME NEW c \in Manual, PlaceManual(c) PROVE NewIsFresh' /\ SettledXorCancelled'
  <2>1. \A b \in bets \union archived : b.id # NewBet(c, c.stake).id
    BY <1>5, FreshId DEF PlaceManual
  <2>2. bets' = bets \union {NewBet(c, c.stake)} /\ new = {} /\ new' = {} /\ asked' = {}
    BY <1>5 DEF PlaceManual, Unlocked, batch
  <2> HIDE DEF NewBet
  <2> QED  BY <1>5, <2>1, <2>2 DEF PlaceManual
<1>6. ASSUME NEW p \in Settlers, SettleBet(p) PROVE NewIsFresh' /\ SettledXorCancelled'
  <2> DEFINE b == seen[p].bet
             row == [bet |-> b.id, outcome |-> seen[p].outcome,
                     kickoff |-> seen[p].kickoff, returned |-> Payout(b, seen[p].outcome)]
  <2>1. \/ settlements' = settlements
        \/ /\ settlements' = settlements \union {row}
           /\ b \in bets /\ b.id \notin cancelled
    BY <1>6 DEF SettleBet
  <2>2. row.bet = b.id
    OBVIOUS
  <2> HIDE DEF row
  <2> QED  BY <1>6, <2>1, <2>2 DEF SettleBet, batch
<1>7. ASSUME NEW B \in SUBSET bets, CancelVirtual(B)
      PROVE  NewIsFresh' /\ SettledXorCancelled'
  <2>1. \A b \in B : b.id \notin {s.bet : s \in settlements} \union cancelled
    BY <1>7 DEF CancelVirtual, Cancellable, Pending
  <2>2. \A b \in bets \ B, c \in B : b.id # c.id
    BY DEF RowsFit, TypeOK
  <2>3. new = {} /\ new' = {} /\ asked' = {}
    BY <1>7 DEF CancelVirtual, Unlocked, batch
  <2> QED  BY <1>7, <2>1, <2>2, <2>3 DEF CancelVirtual
<1>8. ASSUME NEW B \in SUBSET bets, CancelFunded(B)
      PROVE  NewIsFresh' /\ SettledXorCancelled'
  <2>1. \A b \in B : b.id \notin {s.bet : s \in settlements}
    BY <1>8 DEF CancelFunded, Cancellable, Pending
  <2>2. /\ UNCHANGED <<bets, archived, settlements, asked, new>>
        /\ cancelled' = cancelled \union {b.id : b \in B}
    BY <1>8 DEF CancelFunded, batch
  <2>3. \A b \in B : b.id \in Ids(bets) /\ b.id \notin Ids(archived)
    OBVIOUS
  <2>4. SettledXorCancelled'
    BY <2>1, <2>2, <2>3
  <2> QED  BY <2>2, <2>4
<1> QED
  BY <1>1, <1>2, <1>3, <1>4, <1>5, <1>6, <1>7, <1>8, StepCases

LEMMA EndsInit == LedgerAssumption /\ Init => EndsInv
<1> SUFFICES ASSUME LedgerAssumption, Init PROVE EndsInv
  OBVIOUS
<1>1. RowsFit
  BY InitType
<1> QED
  BY <1>1 DEF EndsInv, Init, NewIsFresh, SettledXorCancelled, Ids, Settled

LEMMA EndsAlways == Spec => []EndsInv
<1>1. Init => EndsInv
  BY EndsInit, LedgerAssumption
<1>2. EndsInv /\ [Next]_vars => EndsInv'
  BY EndsStep, StepType, LedgerAssumption DEF EndsInv
<1> QED  BY <1>1, <1>2, PTL DEF Spec

(* No behaviour settles a refunded or withdrawn bet, refunds a settled one *)
(* or gives an identity twice.                                             *)
THEOREM EndsOnce == Spec => []SettledXorCancelled
<1>1. EndsInv => SettledXorCancelled
  BY DEF EndsInv
<1> QED  BY <1>1, EndsAlways, PTL

-----------------------------------------------------------------------------
(* One stake per family and selection of a match. *)

(* The policies move forward, so while one of the first two is in force no *)
(* bet of the later ones exists for it to overlook; the bets that an open  *)
(* transaction inserts are kept apart from the stored ones as well.        *)
Live(S) == {x \in S : x.id \notin cancelled}
Apart(S) == \A b, c \in Live(S) :
              b.family = c.family /\ b.match = c.match /\ b.sel = c.sel => b = c
StakesFit ==
  /\ \A b \in new : b.kind = Policies[policy]
  /\ policy <= 2 => \A b \in bets : b.kind \in {"nightly", "virtual", "manual"}
  /\ Apart(bets \union new)

StakesInv == EndsInv /\ StakesFit

(* A candidate that passes shares its selection with no live bet. *)
LEMMA AdmissibleApart ==
  ASSUME StakesInv, NEW c \in Candidates, Admissible(c), NEW b \in Live(bets \union new),
         b.family = c.family, b.match = c.match
  PROVE  b.sel # c.sel
<1>1. policy \in 1..Len(Policies) /\ c.kind = Policies[policy]
  BY DEF StakesInv, EndsInv, RowsFit, TypeOK, Candidates
<1>2. Duplicates(c) = {}
  BY DEF Admissible
<1>3. CASE c.kind \in {"nightly", "virtual"}
  <2>1. policy <= 2
    BY <1>1, <1>3, PolicyNames
  <2>2. b.kind \in {"nightly", "virtual", "manual"}
    BY <1>1, <1>3, <2>1 DEF Live, StakesInv, StakesFit
  <2>3. OnMatch(Tables({"nightly", "virtual", "manual"}, bets \union new), c) = {}
    BY <1>2, <1>3 DEF Duplicates
  <2> QED  BY <2>2, <2>3 DEF OnMatch, Tables, Live
<1>4. CASE c.kind = "funded"
  <2>1. OnSelection(bets \union new, c) = {}
    BY <1>2, <1>4 DEF Duplicates
  <2> QED  BY <2>1 DEF OnSelection, OnMatch, Live
<1>5. CASE c.kind = "dynamic"
  <2>1. OnSelection({d \in bets \union new : d.id \notin cancelled}, c) = {}
    BY <1>2, <1>5 DEF Duplicates
  <2> QED  BY <2>1 DEF OnSelection, OnMatch, Live
<1> QED  BY <1>1, <1>3, <1>4, <1>5, PolicyNames

(* Nor does a bet that the user places. *)
LEMMA ManualApart ==
  ASSUME StakesInv, NEW c \in Manual, PlaceManual(c), NEW b \in Live(bets),
         b.family = c.family, b.match = c.match
  PROVE  b.sel # c.sel
<1>1. b.kind \in Kinds
  BY DEF StakesInv, EndsInv, RowsFit, TypeOK, Bet, Live
<1>2. CASE b.kind \in {"nightly", "virtual", "manual"}
  BY <1>2 DEF PlaceManual, OnMatch, Tables, Live
<1>3. CASE b.kind \in {"funded", "dynamic"}
  BY <1>3 DEF PlaceManual, OnSelection, OnMatch, Tables, Live
<1> QED  BY <1>1, <1>2, <1>3 DEF Kinds

LEMMA StakesStep ==
  ASSUME StakesInv, [Next]_vars
  PROVE  StakesFit'
<1>0. /\ NewIsFresh /\ SettledXorCancelled /\ StakesFit
      /\ policy \in 1..Len(Policies)
  BY DEF StakesInv, EndsInv, RowsFit, TypeOK
<1>1. CASE Quiet
  <2>1. UNCHANGED <<bets, cancelled, asked, new>>
    BY <1>1, QuietKeepsTables DEF tables, batch
  <2>2. policy' = policy \/ (policy' = policy + 1 /\ new = {})
    BY <1>0, <1>1 DEF NewIsFresh, Quiet, vars, ListPending, SettlerStops, ReadFixture, Tick,
                      NextPolicy, Unlocked, Publish, Reschedule
  <2> QED  BY <1>0, <2>1, <2>2 DEF StakesFit, Apart, Live, Policies
<1>2. ASSUME NEW c \in Candidates, Decide(c) PROVE StakesFit'
  <2> DEFINE n == NewBet(c, StakeOf(c))
  <2>1. UNCHANGED <<bets, cancelled, policy>>
    BY <1>2 DEF Decide
  <2>2. CASE ~Admissible(c)
    <3>1. new' = new
      BY <1>2, <2>2 DEF Decide
    <3> QED  BY <1>0, <2>1, <3>1 DEF StakesFit, Apart, Live
  <2>3. CASE Admissible(c)
    <3>1. new' = new \union {n}
      BY <1>2, <2>3 DEF Decide
    <3>2. n.kind = Policies[policy] /\ n.family = c.family /\ n.match = c.match /\ n.sel = c.sel
      BY DEF NewBet, Candidates
    <3>3. \A b \in Live(bets \union new) :
            ~(b.family = n.family /\ b.match = n.match /\ b.sel = n.sel)
      BY <2>3, <3>2, AdmissibleApart
    <3> HIDE DEF n
    <3> QED  BY <1>0, <2>1, <3>1, <3>2, <3>3 DEF StakesFit, Apart, Live
  <2> QED  BY <2>2, <2>3
<1>3. CASE Commit
  <2>1. /\ bets' = bets \union new /\ new' = {} /\ UNCHANGED <<cancelled, policy>>
    BY <1>3 DEF Commit
  <2>2. policy <= 2 => \A b \in new : b.kind \in {"nightly", "virtual", "manual"}
    BY <1>0, PolicyNames DEF StakesFit
  <2> QED  BY <1>0, <2>1, <2>2 DEF StakesFit, Apart, Live
<1>4. CASE Rollback
  BY <1>0, <1>4 DEF Rollback, StakesFit, Apart, Live
<1>5. ASSUME NEW c \in Manual, PlaceManual(c) PROVE StakesFit'
  <2> DEFINE n == NewBet(c, c.stake)
  <2>1. /\ bets' = bets \union {n} /\ new = {} /\ new' = {}
        /\ UNCHANGED <<cancelled, policy>>
    BY <1>0, <1>5 DEF PlaceManual, Unlocked, batch, NewIsFresh
  <2>2. n.kind = "manual" /\ n.family = c.family /\ n.match = c.match /\ n.sel = c.sel
    BY DEF NewBet, Manual
  <2>3. \A b \in Live(bets) : ~(b.family = n.family /\ b.match = n.match /\ b.sel = n.sel)
    BY <1>5, <2>2, ManualApart
  <2> HIDE DEF n
  <2> QED  BY <1>0, <2>1, <2>2, <2>3 DEF StakesFit, Apart, Live
<1>6. ASSUME NEW p \in Settlers, SettleBet(p) PROVE StakesFit'
  BY <1>0, <1>6 DEF SettleBet, batch, StakesFit, Apart, Live
<1>7. ASSUME NEW B \in SUBSET bets, CancelVirtual(B) PROVE StakesFit'
  BY <1>0, <1>7 DEF CancelVirtual, batch, StakesFit, Apart, Live
<1>8. ASSUME NEW B \in SUBSET bets, CancelFunded(B) PROVE StakesFit'
  BY <1>0, <1>8 DEF CancelFunded, batch, StakesFit, Apart, Live
<1> QED
  BY <1>1, <1>2, <1>3, <1>4, <1>5, <1>6, <1>7, <1>8, StepCases

(* Whatever the policies and the user stake, and however policies change,  *)
(* two bets of a family on one selection are one bet, or one is cancelled. *)
THEOREM StakesOnce == Spec => []OneStakePerSelection
<1>1. Init => StakesInv
  <2>1. Init => EndsInv
    BY EndsInit, LedgerAssumption
  <2>2. Init => StakesFit
    BY DEF Init, StakesFit, Apart, Live
  <2> QED  BY <2>1, <2>2 DEF StakesInv
<1>2. StakesInv /\ [Next]_vars => StakesInv'
  BY StakesStep, EndsStep, StepType, LedgerAssumption DEF StakesInv, EndsInv
<1>3. StakesInv => OneStakePerSelection
  BY DEF StakesInv, StakesFit, Apart, Live, OneStakePerSelection
<1> QED  BY <1>1, <1>2, <1>3, PTL DEF Spec

-----------------------------------------------------------------------------
(* The ledger is the journal of the bet tables. *)

JournalInv == EndsInv /\ LedgerIsJournal

Opening(e) == \E f \in Family : e = OpenEntry(f)
RowOf(b, e) == \/ e = StakeEntry(b)
               \/ (b.id \in cancelled /\ e = RefundEntry(b))
               \/ \E s \in settlements : s.bet = b.id /\ e = SettleEntry(b, s.returned)

LEMMA JournalByRows ==
  LedgerIsJournal <=> \A e : e \in ledger <=> Opening(e) \/ \E b \in bets : RowOf(b, e)
<1>1. ASSUME NEW b, NEW e PROVE e \in Rows(b) <=> RowOf(b, e)
  BY DEF Rows, RowOf
<1>2. ASSUME NEW e PROVE e \in {OpenEntry(f) : f \in Family} <=> Opening(e)
  BY DEF Opening
<1> QED  BY <1>1, <1>2 DEF LedgerIsJournal

LEMMA JournalByRowsNext ==
  LedgerIsJournal' <=> \A e : e \in ledger' <=> Opening(e) \/ \E b \in bets' : RowOf(b, e)'
<1>1. ASSUME NEW b, NEW e PROVE e \in Rows(b)' <=> RowOf(b, e)'
  BY DEF Rows, RowOf
<1>2. ASSUME NEW e PROVE e \in {OpenEntry(f) : f \in Family} <=> Opening(e)
  BY DEF Opening
<1>3. {OpenEntry(f) : f \in Family}' = {OpenEntry(f) : f \in Family}
  BY DEF OpenEntry
<1> QED  BY <1>1, <1>2, <1>3 DEF LedgerIsJournal

(* Staking bets that were never cancelled or settled. *)
LEMMA StakingJournal ==
  ASSUME JournalInv, NEW N, bets' = bets \union N,
         ledger' = ledger \union {StakeEntry(b) : b \in N},
         UNCHANGED <<settlements, cancelled>>,
         \A b \in N : b.id \notin cancelled /\ b.id \notin Settled
  PROVE  LedgerIsJournal'
<1>1. ASSUME NEW b, NEW e PROVE RowOf(b, e)' <=> RowOf(b, e)
  BY DEF RowOf, StakeEntry, RefundEntry, SettleEntry
<1>2. ASSUME NEW b \in N, NEW e PROVE RowOf(b, e) <=> e = StakeEntry(b)
  BY DEF RowOf, Settled
<1> QED
  BY <1>1, <1>2, JournalByRows, JournalByRowsNext DEF JournalInv

LEMMA SettlingJournal ==
  ASSUME JournalInv, NEW b \in bets, NEW row, row.bet = b.id,
         settlements' = settlements \union {row},
         ledger' = ledger \union {SettleEntry(b, row.returned)},
         UNCHANGED <<bets, cancelled>>
  PROVE  LedgerIsJournal'
<1>1. \A d \in bets : row.bet = d.id => d = b
  BY DEF JournalInv, EndsInv, RowsFit, TypeOK
<1>2. ASSUME NEW d \in bets, NEW e
      PROVE  RowOf(d, e)' <=> RowOf(d, e) \/ (d = b /\ e = SettleEntry(b, row.returned))
  BY <1>1 DEF RowOf, StakeEntry, RefundEntry, SettleEntry
<1> QED
  BY <1>2, JournalByRows, JournalByRowsNext DEF JournalInv

LEMMA WithdrawingJournal ==
  ASSUME JournalInv, NEW B \in SUBSET bets, CancelVirtual(B)
  PROVE  LedgerIsJournal'
<1>1. /\ bets' = bets \ B /\ ledger' = ledger \ {StakeEntry(b) : b \in B}
      /\ UNCHANGED <<settlements, cancelled>>
  BY DEF CancelVirtual
<1>2. ASSUME NEW b, NEW e PROVE RowOf(b, e)' <=> RowOf(b, e)
  BY <1>1 DEF RowOf, StakeEntry, RefundEntry, SettleEntry
<1>3. ASSUME NEW b \in B, NEW e PROVE RowOf(b, e) <=> e = StakeEntry(b)
  BY DEF RowOf, CancelVirtual, Cancellable, Pending, Settled
<1>4. ASSUME NEW d \in bets \ B, NEW b \in B, RowOf(d, StakeEntry(b)) PROVE FALSE
  <2>1. d.id # b.id
    BY DEF JournalInv, EndsInv, RowsFit, TypeOK
  <2> QED  BY <1>4, <2>1 DEF RowOf, StakeEntry, RefundEntry, SettleEntry
<1>5. ASSUME NEW b \in B PROVE ~Opening(StakeEntry(b))
  BY DEF Opening, OpenEntry, StakeEntry
<1> QED
  BY <1>1, <1>2, <1>3, <1>4, <1>5, JournalByRows, JournalByRowsNext DEF JournalInv

LEMMA RefundingJournal ==
  ASSUME JournalInv, NEW B \in SUBSET bets, CancelFunded(B)
  PROVE  LedgerIsJournal'
<1>1. /\ cancelled' = cancelled \union {b.id : b \in B}
      /\ ledger' = ledger \union {RefundEntry(b) : b \in B}
      /\ UNCHANGED <<bets, settlements>>
  BY DEF CancelFunded
<1>2. \A b \in bets, c \in B : b.id = c.id => b = c
  BY DEF JournalInv, EndsInv, RowsFit, TypeOK
<1>3. ASSUME NEW b \in bets, NEW e
      PROVE  RowOf(b, e)' <=> RowOf(b, e) \/ (b \in B /\ e = RefundEntry(b))
  BY <1>1, <1>2 DEF RowOf, StakeEntry, RefundEntry, SettleEntry
<1> QED
  BY <1>1, <1>3, JournalByRows, JournalByRowsNext DEF JournalInv

LEMMA JournalStep ==
  ASSUME JournalInv, [Next]_vars
  PROVE  LedgerIsJournal'
<1> DEFINE unwritten == <<bets, settlements, cancelled, ledger>>
<1>0. LedgerIsJournal /\ SettledXorCancelled /\ NewIsFresh
  BY DEF JournalInv, EndsInv
<1>1. CASE UNCHANGED unwritten
  BY <1>0, <1>1 DEF LedgerIsJournal, Rows, OpenEntry, StakeEntry, RefundEntry, SettleEntry
<1>2. CASE Commit
  <2>1. \A b \in new : b.id \notin cancelled /\ b.id \notin Settled
    BY <1>0 DEF SettledXorCancelled, NewIsFresh, Ids
  <2> QED  BY <1>2, <2>1, StakingJournal DEF Commit
<1>3. ASSUME NEW c \in Manual, PlaceManual(c) PROVE LedgerIsJournal'
  <2> DEFINE n == NewBet(c, c.stake)
  <2>1. /\ bets' = bets \union {n} /\ ledger' = ledger \union {StakeEntry(n)}
        /\ UNCHANGED <<settlements, cancelled>>
    BY <1>3 DEF PlaceManual
  <2>2. \A b \in bets : b.id # n.id
    BY <1>3, FreshId DEF PlaceManual
  <2> HIDE DEF n
  <2>3. n.id \notin cancelled /\ n.id \notin Settled
    BY <1>0, <2>2 DEF SettledXorCancelled, Ids
  <2>4. {StakeEntry(b) : b \in {n}} = {StakeEntry(n)}
    OBVIOUS
  <2> QED  BY <2>1, <2>3, <2>4, StakingJournal
<1>4. ASSUME NEW p \in Settlers, SettleBet(p) PROVE LedgerIsJournal'
  <2> DEFINE b == seen[p].bet
             row == [bet |-> b.id, outcome |-> seen[p].outcome,
                     kickoff |-> seen[p].kickoff, returned |-> Payout(b, seen[p].outcome)]
  <2>1. \/ UNCHANGED unwritten
        \/ /\ b \in bets /\ settlements' = settlements \union {row}
           /\ ledger' = ledger \union {SettleEntry(b, row.returned)}
           /\ UNCHANGED <<bets, cancelled>>
    BY <1>4 DEF SettleBet
  <2>2. row.bet = b.id
    OBVIOUS
  <2> HIDE DEF row, b
  <2> QED  BY <1>1, <2>1, <2>2, SettlingJournal
<1>5. Quiet => UNCHANGED unwritten
  BY QuietKeepsTables DEF tables
<1>6. (\E c \in Candidates : Decide(c)) \/ Rollback => UNCHANGED unwritten
  BY DEF Decide, Rollback
<1> QED
  BY <1>1, <1>2, <1>3, <1>4, <1>5, <1>6, WithdrawingJournal, RefundingJournal, StepCases

(* Every ledger row is accounted for by a bet table and every bet by the   *)
(* ledger, after any interleaving of batches, users, settlers and          *)
(* cancellations.                                                          *)
THEOREM JournalAlways == Spec => []LedgerIsJournal
<1>1. Init => JournalInv
  <2>1. Init => EndsInv
    BY EndsInit, LedgerAssumption
  <2>2. Init => LedgerIsJournal
    BY DEF Init, LedgerIsJournal
  <2> QED  BY <2>1, <2>2 DEF JournalInv
<1>2. JournalInv /\ [Next]_vars => JournalInv'
  BY JournalStep, EndsStep, StepType, LedgerAssumption DEF JournalInv, EndsInv
<1>3. JournalInv => LedgerIsJournal
  BY DEF JournalInv
<1> QED  BY <1>1, <1>2, <1>3, PTL DEF Spec

-----------------------------------------------------------------------------
(***************************************************************************)
(* Money: the balances are sums over the ledger, and each kind of step     *)
(* moves them by the stakes of the bets it books.                          *)
(***************************************************************************)

OfFamily(S, f) == {x \in S : x.family = f}
availableOf == [e \in Entry |-> e.available]
committedOf == [e \in Entry |-> e.committed]
stakeOf == [b \in Bet |-> b.stake]

AvailableIn(L, f) == SumFunctionOnSet(availableOf, OfFamily(L, f))
CommittedIn(L, f) == SumFunctionOnSet(committedOf, OfFamily(L, f))
StakedIn(B, f) == SumFunctionOnSet(stakeOf, OfFamily(B, f))

LEMMA RowAmounts ==
  /\ \A e \in Entry : /\ availableOf[e] = e.available /\ e.available \in Int
                      /\ committedOf[e] = e.committed /\ e.committed \in Int
  /\ \A b \in Bet : stakeOf[b] = b.stake /\ b.stake \in Nat
  BY DEF availableOf, committedOf, stakeOf, Entry, Bet

LEMMA BalancesAreSums ==
  ASSUME NEW L \in SUBSET Entry, NEW f, IsFiniteSet(OfFamily(L, f))
  PROVE  /\ SumFunction([e \in OfFamily(L, f) |-> e.available]) = AvailableIn(L, f)
         /\ SumFunction([e \in OfFamily(L, f) |-> e.committed]) = CommittedIn(L, f)
         /\ AvailableIn(L, f) \in Int /\ CommittedIn(L, f) \in Int
<1> DEFINE S == OfFamily(L, f)
           a == [e \in S |-> e.available]
           c == [e \in S |-> e.committed]
<1>1. S \in SUBSET Entry
  BY DEF OfFamily
<1>2. \A e \in S : /\ availableOf[e] \in Int /\ a[e] = availableOf[e]
                   /\ committedOf[e] \in Int /\ c[e] = committedOf[e]
  BY <1>1, RowAmounts
<1>3. SumFunction(a) = SumFunctionOnSet(a, S) /\ SumFunction(c) = SumFunctionOnSet(c, S)
  BY DEF SumFunction
<1> HIDE DEF S, a, c
<1>4. IsFiniteSet(S)
  BY DEF S
<1>5. /\ SumFunctionOnSet(a, S) = SumFunctionOnSet(availableOf, S)
      /\ SumFunctionOnSet(c, S) = SumFunctionOnSet(committedOf, S)
  BY <1>2, <1>4, SumSame
<1>6. SumFunctionOnSet(availableOf, S) \in Int /\ SumFunctionOnSet(committedOf, S) \in Int
  BY <1>2, <1>4, SumType
<1> QED  BY <1>3, <1>5, <1>6 DEF S, a, c, AvailableIn, CommittedIn

LEMMA StakesAreSums ==
  ASSUME NEW B \in SUBSET Bet, NEW f, IsFiniteSet(OfFamily(B, f))
  PROVE  /\ SumFunction([b \in OfFamily(B, f) |-> b.stake]) = StakedIn(B, f)
         /\ StakedIn(B, f) \in Nat
<1> DEFINE S == OfFamily(B, f)
           k == [b \in S |-> b.stake]
<1>1. S \in SUBSET Bet
  BY DEF OfFamily
<1>2. \A b \in S : stakeOf[b] \in Nat /\ k[b] = stakeOf[b]
  BY <1>1, RowAmounts
<1>3. SumFunction(k) = SumFunctionOnSet(k, S)
  BY DEF SumFunction
<1> HIDE DEF S, k
<1>4. IsFiniteSet(S)
  BY DEF S
<1>5. SumFunctionOnSet(k, S) = SumFunctionOnSet(stakeOf, S)
  BY <1>2, <1>4, SumSame
<1>6. SumFunctionOnSet(stakeOf, S) \in Nat
  BY <1>2, <1>4, SumNatural
<1> QED  BY <1>3, <1>5, <1>6 DEF S, k, StakedIn

LEMMA StakedType ==
  ASSUME NEW B \in SUBSET Bet, NEW f, IsFiniteSet(B)
  PROVE  IsFiniteSet(OfFamily(B, f)) /\ StakedIn(B, f) \in Nat /\ StakedIn(B, f) \in Int
<1>1. IsFiniteSet(OfFamily(B, f))
  BY FS_Subset DEF OfFamily
<1>2. StakedIn(B, f) \in Nat
  BY <1>1, StakesAreSums, Zenon
<1> QED  BY <1>1, <1>2

(* Ledger M is L with a row h[b] for each bet b of B, which L did not have. *)
Books(L, B, h, M) ==
  /\ L \in SUBSET Entry /\ B \in SUBSET Bet /\ IsFiniteSet(B) /\ h \in [B -> Entry]
  /\ M = L \union {h[b] : b \in B}
  /\ \A b \in B : h[b] \notin L /\ h[b].family = b.family
  /\ \A b, c \in B : h[b] = h[c] => b = c

(* Its sums grow by those of the new rows. *)
LEMMA Booked ==
  ASSUME NEW L, NEW B, NEW h, NEW M, Books(L, B, h, M), NEW f,
         IsFiniteSet(OfFamily(L, f)) \/ IsFiniteSet(OfFamily(M, f)),
         NEW k \in [Entry -> Int], NEW kh, \A b \in B : kh[b] = k[h[b]]
  PROVE  /\ IsFiniteSet(OfFamily(L, f)) /\ IsFiniteSet(OfFamily(M, f))
         /\ SumFunctionOnSet(k, OfFamily(M, f))
              = SumFunctionOnSet(k, OfFamily(L, f)) + SumFunctionOnSet(kh, OfFamily(B, f))
<1> USE DEF Books
<1> DEFINE S == OfFamily(B, f)
           T == {h[b] : b \in S}
           X == OfFamily(L, f)
           Y == OfFamily(M, f)
           g == [b \in S |-> h[b]]
<1>1. Y = X \union T /\ X \intersect T = {} /\ X \in SUBSET Entry /\ T \in SUBSET Entry
  BY DEF OfFamily
<1>2. S \in SUBSET B /\ IsFiniteSet(S)
  BY FS_Subset DEF OfFamily
<1>3. g \in Bijection(S, T)
  <2>1. g \in [S -> T] /\ \A b, c \in S : g[b] = g[c] => b = c
    BY <1>2
  <2>2. \A t \in T : \E b \in S : g[b] = t
    OBVIOUS
  <2> HIDE DEF g, S, T
  <2> QED  BY <2>1, <2>2 DEF Bijection, Injection, Surjection, IsInjective
<1>4. \A b \in S : kh[b] \in Int /\ k[g[b]] = kh[b]
  BY <1>2
<1>5. IsFiniteSet(T)
  <2> HIDE DEF g, S, T
  <2> QED  BY <1>2, <1>3, FS_Bijection DEF ExistsBijection
<1>6. IsFiniteSet(X) /\ IsFiniteSet(Y)
  <2>1. CASE IsFiniteSet(X)
    <3> HIDE DEF X, Y, T
    <3> QED  BY <2>1, <1>1, <1>5, FS_Union
  <2>2. CASE IsFiniteSet(Y)
    <3> HIDE DEF X, Y, T
    <3> QED  BY <2>2, <1>1, FS_Subset
  <2> QED  BY <2>1, <2>2
<1>7. SumFunctionOnSet(k, T) = SumFunctionOnSet(kh, S)
  <2> HIDE DEF g, S, T, Books
  <2> QED  BY <1>2, <1>3, <1>4, SumRenamed
<1>8. SumFunctionOnSet(k, Y) = SumFunctionOnSet(k, X) + SumFunctionOnSet(k, T)
  <2>1. \A e \in X \union T : k[e] \in Int
    BY <1>1
  <2> HIDE DEF X, Y, T
  <2> QED  BY <1>1, <1>5, <1>6, <2>1, SumUnion
<1> QED  BY <1>6, <1>7, <1>8

(* Sums over the bets of a family, when each row moves its stake forth or back. *)
LEMMA SumsOfMoves ==
  ASSUME NEW B \in SUBSET Bet, IsFiniteSet(B), NEW f, NEW k,
         \/ \A b \in B : k[b] = b.stake
         \/ \A b \in B : k[b] = 0 - b.stake
  PROVE  /\ (\A b \in B : k[b] = b.stake) => SumFunctionOnSet(k, OfFamily(B, f)) = StakedIn(B, f)
         /\ (\A b \in B : k[b] = 0 - b.stake)
              => SumFunctionOnSet(k, OfFamily(B, f)) = 0 - StakedIn(B, f)
<1> DEFINE S == OfFamily(B, f)
<1>1. S \in SUBSET B /\ IsFiniteSet(S)
  BY FS_Subset DEF OfFamily
<1>2. \A b \in S : stakeOf[b] = b.stake /\ stakeOf[b] \in Int
  BY <1>1, RowAmounts
<1> HIDE DEF S
<1>3. (\A b \in B : k[b] = b.stake) => SumFunctionOnSet(k, S) = SumFunctionOnSet(stakeOf, S)
  BY <1>1, <1>2, SumSame
<1>4. (\A b \in B : k[b] = 0 - b.stake)
        => SumFunctionOnSet(k, S) = 0 - SumFunctionOnSet(stakeOf, S)
  BY <1>1, <1>2, SumNegated
<1> QED  BY <1>3, <1>4 DEF S, StakedIn

(* A finite set of bets with an identity each. *)
Distinct(B) == B \in SUBSET Bet /\ IsFiniteSet(B) /\ \A b, c \in B : b.id = c.id => b = c

StakeRows(B) == {StakeEntry(b) : b \in B}
RefundRows(B) == {RefundEntry(b) : b \in B}

LEMMA StakesBooked ==
  ASSUME NEW B, Distinct(B), NEW L \in SUBSET Entry, NEW f, NEW M,
         M = L \union StakeRows(B), StakeRows(B) \intersect L = {},
         IsFiniteSet(OfFamily(L, f)) \/ IsFiniteSet(OfFamily(M, f))
  PROVE  /\ IsFiniteSet(OfFamily(L, f)) /\ IsFiniteSet(OfFamily(M, f))
         /\ AvailableIn(M, f) = AvailableIn(L, f) - StakedIn(B, f)
         /\ CommittedIn(M, f) = CommittedIn(L, f) + StakedIn(B, f)
<1> USE DEF Distinct
<1> DEFINE h == [b \in B |-> StakeEntry(b)]
           ka == [b \in B |-> availableOf[h[b]]]
           kc == [b \in B |-> committedOf[h[b]]]
<1>1. h \in [B -> Entry] /\ \A b \in B : h[b] \notin L /\ h[b].family = b.family
  BY StakeEntryType DEF StakeEntry, StakeRows
<1>2. \A b, c \in B : h[b] = h[c] => b = c
  BY DEF StakeEntry
<1>3. \A b \in B : ka[b] = 0 - b.stake /\ kc[b] = b.stake
  BY <1>1, RowAmounts DEF StakeEntry
<1>4. M = L \union {h[b] : b \in B}
  BY DEF StakeRows, RefundRows
<1>5. availableOf \in [Entry -> Int] /\ committedOf \in [Entry -> Int]
  BY DEF availableOf, committedOf, Entry
<1> HIDE DEF h
<1>6. Books(L, B, h, M)
  BY <1>1, <1>2, <1>4 DEF Books
<1>7. /\ IsFiniteSet(OfFamily(L, f)) /\ IsFiniteSet(OfFamily(M, f))
      /\ AvailableIn(M, f) = AvailableIn(L, f) + SumFunctionOnSet(ka, OfFamily(B, f))
  <2>1. \A b \in B : ka[b] = availableOf[h[b]]
    OBVIOUS
  <2> HIDE DEF ka
  <2> QED  BY <2>1, <1>5, <1>6, Booked DEF AvailableIn
<1>8. CommittedIn(M, f) = CommittedIn(L, f) + SumFunctionOnSet(kc, OfFamily(B, f))
  <2>1. \A b \in B : kc[b] = committedOf[h[b]]
    OBVIOUS
  <2> HIDE DEF kc
  <2> QED  BY <2>1, <1>5, <1>6, Booked DEF CommittedIn
<1> HIDE DEF ka, kc
<1>9. /\ SumFunctionOnSet(ka, OfFamily(B, f)) = 0 - StakedIn(B, f)
      /\ SumFunctionOnSet(kc, OfFamily(B, f)) = StakedIn(B, f)
  BY <1>3, SumsOfMoves
<1>10. AvailableIn(L, f) \in Int /\ StakedIn(B, f) \in Int
  BY <1>7, BalancesAreSums, StakedType
<1> QED  BY <1>7, <1>8, <1>9, <1>10

LEMMA RefundsBooked ==
  ASSUME NEW B, Distinct(B), NEW L \in SUBSET Entry, NEW f, NEW M,
         M = L \union RefundRows(B), RefundRows(B) \intersect L = {},
         IsFiniteSet(OfFamily(L, f))
  PROVE  /\ IsFiniteSet(OfFamily(M, f))
         /\ AvailableIn(M, f) = AvailableIn(L, f) + StakedIn(B, f)
         /\ CommittedIn(M, f) = CommittedIn(L, f) - StakedIn(B, f)
<1> USE DEF Distinct
<1> DEFINE h == [b \in B |-> RefundEntry(b)]
           ka == [b \in B |-> availableOf[h[b]]]
           kc == [b \in B |-> committedOf[h[b]]]
<1>1. h \in [B -> Entry] /\ \A b \in B : h[b] \notin L /\ h[b].family = b.family
  BY StakeEntryType DEF RefundEntry, RefundRows
<1>2. \A b, c \in B : h[b] = h[c] => b = c
  BY DEF RefundEntry
<1>3. \A b \in B : ka[b] = b.stake /\ kc[b] = 0 - b.stake
  BY <1>1, RowAmounts DEF RefundEntry
<1>4. M = L \union {h[b] : b \in B}
  BY DEF StakeRows, RefundRows
<1>5. availableOf \in [Entry -> Int] /\ committedOf \in [Entry -> Int]
  BY DEF availableOf, committedOf, Entry
<1> HIDE DEF h
<1>6. Books(L, B, h, M)
  BY <1>1, <1>2, <1>4 DEF Books
<1>7. /\ IsFiniteSet(OfFamily(L, f)) /\ IsFiniteSet(OfFamily(M, f))
      /\ AvailableIn(M, f) = AvailableIn(L, f) + SumFunctionOnSet(ka, OfFamily(B, f))
  <2>1. \A b \in B : ka[b] = availableOf[h[b]]
    OBVIOUS
  <2> HIDE DEF ka
  <2> QED  BY <2>1, <1>5, <1>6, Booked DEF AvailableIn
<1>8. CommittedIn(M, f) = CommittedIn(L, f) + SumFunctionOnSet(kc, OfFamily(B, f))
  <2>1. \A b \in B : kc[b] = committedOf[h[b]]
    OBVIOUS
  <2> HIDE DEF kc
  <2> QED  BY <2>1, <1>5, <1>6, Booked DEF CommittedIn
<1> HIDE DEF ka, kc
<1>9. /\ SumFunctionOnSet(ka, OfFamily(B, f)) = StakedIn(B, f)
      /\ SumFunctionOnSet(kc, OfFamily(B, f)) = 0 - StakedIn(B, f)
  BY <1>3, SumsOfMoves
<1>10. CommittedIn(L, f) \in Int /\ StakedIn(B, f) \in Int
  BY BalancesAreSums, StakedType
<1> QED  BY <1>7, <1>8, <1>9, <1>10

LEMMA StakedOne ==
  ASSUME NEW b \in Bet, NEW f
  PROVE  StakedIn({b}, f) = IF b.family = f THEN b.stake ELSE 0
<1>1. OfFamily({b}, f) = IF b.family = f THEN {b} ELSE {}
  BY DEF OfFamily
<1>2. stakeOf[b] = b.stake /\ b.stake \in Int
  BY RowAmounts
<1>3. SumFunctionOnSet(stakeOf, {b}) = stakeOf[b] /\ SumFunctionOnSet(stakeOf, {}) = 0
  BY <1>2, SumSingleton, SumEmpty
<1> QED  BY <1>1, <1>2, <1>3 DEF StakedIn

LEMMA PayoutBooked ==
  ASSUME NEW L \in SUBSET Entry, NEW b \in Bet, NEW cents \in Nat, NEW f, NEW M,
         M = L \union {SettleEntry(b, cents)}, SettleEntry(b, cents) \notin L,
         IsFiniteSet(OfFamily(L, f))
  PROVE  /\ IsFiniteSet(OfFamily(M, f))
         /\ AvailableIn(M, f) = AvailableIn(L, f) + (IF b.family = f THEN cents ELSE 0)
         /\ CommittedIn(M, f) = CommittedIn(L, f) - StakedIn({b}, f)
         /\ StakedIn({b}, f) = IF b.family = f THEN b.stake ELSE 0
<1> DEFINE e == SettleEntry(b, cents)
<1>1. e \in Entry /\ e.family = b.family /\ e.available = cents /\ e.committed = 0 - b.stake
  BY DEF SettleEntry, Entry, Bet, BetIds
<1> HIDE DEF e
<1>2. OfFamily(M, f) = IF b.family = f THEN OfFamily(L, f) \union {e} ELSE OfFamily(L, f)
  BY <1>1 DEF OfFamily, e
<1>3. e \notin OfFamily(L, f) /\ \A x \in OfFamily(L, f) \union {e} : x \in Entry
  BY <1>1 DEF OfFamily, e
<1>4. \A x \in OfFamily(L, f) \union {e} : availableOf[x] \in Int /\ committedOf[x] \in Int
  BY <1>3, RowAmounts
<1>5. /\ SumFunctionOnSet(availableOf, OfFamily(L, f) \union {e})
           = AvailableIn(L, f) + availableOf[e]
      /\ SumFunctionOnSet(committedOf, OfFamily(L, f) \union {e})
           = CommittedIn(L, f) + committedOf[e]
  BY <1>3, <1>4, SumAdd DEF AvailableIn, CommittedIn
<1>6. availableOf[e] = cents /\ committedOf[e] = 0 - b.stake
  BY <1>1, RowAmounts
<1>7. StakedIn({b}, f) = IF b.family = f THEN b.stake ELSE 0
  BY StakedOne
<1>8. AvailableIn(L, f) \in Int /\ CommittedIn(L, f) \in Int
  BY BalancesAreSums
<1>10. b.stake \in Int
  BY RowAmounts
<1>9. IsFiniteSet(OfFamily(M, f))
  BY <1>2, FS_AddElement
<1> QED
  BY <1>2, <1>5, <1>6, <1>7, <1>8, <1>9, <1>10 DEF AvailableIn, CommittedIn

-----------------------------------------------------------------------------
(* The steps that move money, and what they do to the tables. *)

(* Bets B, with identities no row has had, are stored and staked. *)
Staking(B) ==
  /\ B \in SUBSET Bet
  /\ \A b, c \in B : b.id = c.id => b = c
  /\ \A b \in B : b.id \notin Ids(bets \union archived)
  /\ bets' = bets \union B
  /\ ledger' = ledger \union {StakeEntry(b) : b \in B}
  /\ UNCHANGED <<settlements, cancelled, archived>>

(* A pending bet gets its pay-out. *)
PayingOut(b, row) ==
  /\ b \in Pending /\ row.bet = b.id /\ row.returned \in Nat
  /\ settlements' = settlements \union {row}
  /\ ledger' = ledger \union {SettleEntry(b, row.returned)}
  /\ UNCHANGED <<bets, cancelled, archived>>

books == <<bets, settlements, archived, cancelled, ledger>>

LEMMA MoneySteps ==
  ASSUME LedgerAssumption, JournalInv, [Next]_vars
  PROVE  \/ /\ UNCHANGED books
            /\ \/ Quiet \/ Rollback \/ \E c \in Candidates : Decide(c)
               \/ \E p \in Settlers : SettleBet(p)
         \/ Commit /\ Staking(new)
         \/ \E c \in Manual : PlaceManual(c) /\ Staking({NewBet(c, c.stake)})
         \/ \E p \in Settlers, b \in Pending, row \in Settlement :
              SettleBet(p) /\ PayingOut(b, row)
         \/ \E B \in SUBSET bets : CancelVirtual(B) \/ CancelFunded(B)
<1>0. TypeOK /\ SeenResolved /\ NewIsFresh /\ SettledXorCancelled
  BY DEF JournalInv, EndsInv, RowsFit
<1>1. CASE Quiet
  BY <1>1, QuietKeepsTables DEF tables, books
<1>2. CASE (\E c \in Candidates : Decide(c)) \/ Rollback
  BY <1>2 DEF Decide, Rollback, books
<1>3. CASE Commit
  <2>1. new \in SUBSET Bet /\ \A b, c \in new : b.id = c.id => b = c
    BY <1>0 DEF TypeOK
  <2>2. \A b \in new : b.id \notin Ids(bets \union archived)
    BY <1>0 DEF NewIsFresh, Ids
  <2> QED  BY <1>3, <2>1, <2>2 DEF Commit, Staking
<1>4. ASSUME NEW c \in Manual, PlaceManual(c)
      PROVE  Staking({NewBet(c, c.stake)})
  <2> DEFINE n == NewBet(c, c.stake)
  <2>1. n \in Bet
    BY <1>0, <1>4, NewBetType DEF PlaceManual, Manual, Kinds, LedgerAssumption
  <2>2. n.id \notin Ids(bets \union archived)
    BY <1>4, FreshId DEF PlaceManual, Ids
  <2>3. /\ bets' = bets \union {n} /\ ledger' = ledger \union {StakeEntry(n)}
        /\ UNCHANGED <<settlements, cancelled, archived>>
    BY <1>4 DEF PlaceManual
  <2> HIDE DEF n
  <2>4. {StakeEntry(b) : b \in {n}} = {StakeEntry(n)}
    OBVIOUS
  <2>5. {n} \in SUBSET Bet /\ \A b \in {n} : b = n
    BY <2>1
  <2>6. \A b \in {n} : b.id \notin Ids(bets \union archived)
    BY <2>2, <2>5
  <2>7. ledger' = ledger \union {StakeEntry(b) : b \in {n}}
    BY <2>3, <2>4
  <2>8. \A a, b \in {n} : a.id = b.id => a = b
    BY <2>5
  <2>9. Staking({n})
    BY <2>3, <2>5, <2>6, <2>7, <2>8 DEF Staking
  <2> QED  BY <2>9 DEF n
<1>5. ASSUME NEW p \in Settlers, SettleBet(p)
      PROVE  \/ UNCHANGED books
             \/ \E b \in Pending, row \in Settlement : PayingOut(b, row)
  <2> DEFINE b == seen[p].bet
             row == [bet |-> b.id, outcome |-> seen[p].outcome,
                     kickoff |-> seen[p].kickoff, returned |-> Payout(b, seen[p].outcome)]
  <2>1. \/ UNCHANGED books
        \/ /\ b \in bets /\ b.id \notin cancelled /\ ~Conflicts(row) /\ row \notin settlements
           /\ settlements' = settlements \union {row}
           /\ ledger' = ledger \union {SettleEntry(b, row.returned)}
           /\ UNCHANGED <<bets, cancelled, archived>>
    BY <1>5 DEF SettleBet, books
  <2>2. seen[p] \in [bet : Bet, outcome : Outcome, kickoff : Kickoffs]
    BY <1>0, <1>5 DEF TypeOK, SettleBet
  <2>3. row.returned \in Nat
    <3>1. Verdict[<<seen[p].bet.sel, seen[p].outcome>>] # "UNRESOLVED"
      BY <1>0, <1>5 DEF SeenResolved, SettleBet
    <3> QED  BY <2>2, <3>1, PayoutType
  <2>4. row \in Settlement
    BY <2>2, <2>3 DEF Settlement, Bet
  <2>5. row.bet = b.id
    OBVIOUS
  <2> HIDE DEF row, b
  <2>6. ~Conflicts(row) /\ row \notin settlements => b.id \notin Settled
    BY <2>5 DEF Conflicts, Settled
  <2>7. CASE ~UNCHANGED books
    <3>1. b \in Pending
      BY <2>1, <2>6, <2>7 DEF Pending
    <3> QED  BY <2>1, <2>3, <2>4, <2>5, <2>7, <3>1 DEF PayingOut
  <2> QED  BY <2>7
<1> QED
  BY <1>1, <1>2, <1>3, <1>4, <1>5, StepCases

LEMMA BetsAreFinite ==
  ASSUME LedgerAssumption, NEW S \in SUBSET Bet, \A b, c \in S : b.id = c.id => b = c
  PROVE  IsFiniteSet(S)
<1> DEFINE id == [b \in S |-> b.id]
<1>1. IsFiniteSet(BetIds)
  BY FS_Interval DEF BetIds, LedgerAssumption
<1>2. id \in [S -> BetIds] /\ \A b, c \in S : id[b] = id[c] => b = c
  BY DEF Bet
<1> HIDE DEF id
<1>3. id \in Injection(S, BetIds)
  BY <1>2 DEF Injection, IsInjective
<1> QED  BY <1>1, <1>3, FS_Injection

(* What a bet that leaves play does to a wallet: its stake is no longer      *)
(* committed, nothing free is lost, and the equity at most its stake.        *)
Leave(B, f) ==
  /\ IsFiniteSet(Entries(f)') /\ Available(f)' \in Int
  /\ Committed(f)' = Committed(f) - StakedIn(B, f)
  /\ Available(f)' >= Available(f)
  /\ Available(f)' + Committed(f)' >= Available(f) + Committed(f) - StakedIn(B, f)
  /\ OfFamily(B, f) = {} => Available(f)' = Available(f)

LEMMA BalancesNow ==
  ASSUME TypeOK, NEW f, IsFiniteSet(Entries(f))
  PROVE  /\ Available(f) = AvailableIn(ledger, f) /\ Committed(f) = CommittedIn(ledger, f)
         /\ Available(f) \in Int /\ Committed(f) \in Int
<1>1. Entries(f) = OfFamily(ledger, f) /\ ledger \in SUBSET Entry
  BY DEF Entries, OfFamily, TypeOK
<1> QED  BY <1>1, BalancesAreSums DEF Available, Committed

LEMMA BalancesNext ==
  ASSUME TypeOK', NEW f, IsFiniteSet(OfFamily(ledger', f))
  PROVE  /\ IsFiniteSet(Entries(f)')
         /\ Available(f)' = AvailableIn(ledger', f) /\ Committed(f)' = CommittedIn(ledger', f)
         /\ Available(f)' \in Int /\ Committed(f)' \in Int
<1>1. Entries(f)' = OfFamily(ledger', f) /\ ledger' \in SUBSET Entry
  BY DEF Entries, OfFamily, TypeOK
<1> QED  BY <1>1, BalancesAreSums DEF Available, Committed

LEMMA StakingMoves ==
  ASSUME LedgerAssumption, JournalInv, TypeOK', NEW B, Staking(B), NEW f,
         IsFiniteSet(Entries(f))
  PROVE  /\ IsFiniteSet(Entries(f)')
         /\ Available(f)' = Available(f) - StakedIn(B, f)
         /\ Committed(f)' = Committed(f) + StakedIn(B, f)
         /\ Pending' = Pending \union B /\ Pending \intersect B = {}
<1>0. TypeOK /\ SettledXorCancelled
  BY DEF JournalInv, EndsInv, RowsFit
<1>1. Distinct(B)
  BY BetsAreFinite DEF Staking, Distinct
<1>2. \A b \in B, d \in bets : b.id # d.id
  BY DEF Staking, Ids
<1>3. ASSUME NEW b \in B PROVE StakeEntry(b) \notin ledger
  <2>1. ~Opening(StakeEntry(b))
    BY DEF Opening, OpenEntry, StakeEntry
  <2>2. ASSUME NEW d \in bets, RowOf(d, StakeEntry(b)) PROVE FALSE
    BY <1>2, <2>2 DEF RowOf, StakeEntry, RefundEntry, SettleEntry
  <2> QED  BY <2>1, <2>2, JournalByRows DEF JournalInv
<1>4. Pending' = Pending \union B /\ Pending \intersect B = {}
  <2>1. \A b \in B : b.id \notin Settled \union cancelled
    BY <1>0, <1>2 DEF SettledXorCancelled, Ids
  <2>2. bets' = bets \union B /\ Settled' = Settled /\ cancelled' = cancelled
    BY DEF Staking, Settled
  <2> QED  BY <1>2, <2>1, <2>2 DEF Pending
<1>5. /\ ledger \in SUBSET Entry /\ ledger' = ledger \union StakeRows(B)
      /\ OfFamily(ledger, f) = Entries(f) /\ StakeRows(B) \intersect ledger = {}
  BY <1>0, <1>3 DEF TypeOK, Staking, OfFamily, Entries, StakeRows
<1>6. /\ IsFiniteSet(OfFamily(ledger', f))
      /\ AvailableIn(ledger', f) = AvailableIn(ledger, f) - StakedIn(B, f)
      /\ CommittedIn(ledger', f) = CommittedIn(ledger, f) + StakedIn(B, f)
  <2>1. IsFiniteSet(OfFamily(ledger, f))
    BY <1>5
  <2> QED  BY <1>1, <1>5, <2>1, StakesBooked
<1> QED  BY <1>0, <1>4, <1>6, BalancesNow, BalancesNext

LEMMA PayingOutMoves ==
  ASSUME JournalInv, TypeOK', NEW b, NEW row, PayingOut(b, row), NEW f,
         IsFiniteSet(Entries(f))
  PROVE  Pending' = Pending \ {b} /\ Leave({b}, f)
<1>0. TypeOK /\ b \in Bet /\ b \in bets /\ b.stake \in Nat
  BY DEF JournalInv, EndsInv, RowsFit, PayingOut, Pending, TypeOK, Bet
<1>1. SettleEntry(b, row.returned) \notin ledger
  <2> DEFINE e == SettleEntry(b, row.returned)
  <2>1. ~Opening(e)
    BY DEF Opening, OpenEntry, SettleEntry
  <2>2. ASSUME NEW d \in bets, RowOf(d, e) PROVE FALSE
    <3>1. \E s \in settlements : s.bet = b.id
      BY <2>2 DEF RowOf, StakeEntry, RefundEntry, SettleEntry
    <3> QED  BY <3>1 DEF PayingOut, Pending, Settled
  <2> QED  BY <2>1, <2>2, JournalByRows DEF JournalInv
<1>2. Pending' = Pending \ {b}
  <2>1. bets' = bets /\ cancelled' = cancelled /\ Settled' = Settled \union {b.id}
    BY DEF PayingOut, Settled
  <2>2. \A d \in bets : d.id = b.id => d = b
    BY <1>0 DEF TypeOK
  <2> QED  BY <2>1, <2>2 DEF Pending
<1>3. /\ ledger \in SUBSET Entry /\ row.returned \in Nat
      /\ ledger' = ledger \union {SettleEntry(b, row.returned)}
      /\ OfFamily(ledger, f) = Entries(f)
  BY <1>0 DEF TypeOK, PayingOut, OfFamily, Entries
<1>4. /\ IsFiniteSet(OfFamily(ledger', f))
      /\ AvailableIn(ledger', f)
           = AvailableIn(ledger, f) + (IF b.family = f THEN row.returned ELSE 0)
      /\ CommittedIn(ledger', f) = CommittedIn(ledger, f) - StakedIn({b}, f)
      /\ StakedIn({b}, f) = IF b.family = f THEN b.stake ELSE 0
  <2>1. PICK cents \in Nat : cents = row.returned
    BY <1>3
  <2>2. ledger' = ledger \union {SettleEntry(b, cents)} /\ SettleEntry(b, cents) \notin ledger
    BY <1>1, <1>3, <2>1
  <2>3. IsFiniteSet(OfFamily(ledger, f))
    BY <1>3
  <2> QED  BY <1>0, <1>3, <2>1, <2>2, <2>3, PayoutBooked
<1>5. OfFamily({b}, f) = {} <=> b.family # f
  BY DEF OfFamily
<1>6. Leave({b}, f)
  <2>1. /\ IsFiniteSet(Entries(f)') /\ Available(f) \in Int /\ Committed(f) \in Int
        /\ Available(f)' \in Int
        /\ Available(f)' = Available(f) + (IF b.family = f THEN row.returned ELSE 0)
        /\ Committed(f)' = Committed(f) - StakedIn({b}, f)
    BY <1>0, <1>4, BalancesNow, BalancesNext
  <2>2. CASE b.family = f
    <3>1. /\ Available(f)' = Available(f) + row.returned /\ row.returned \in Nat
          /\ Committed(f)' = Committed(f) - b.stake /\ StakedIn({b}, f) = b.stake
      BY <1>3, <1>4, <2>1, <2>2
    <3>2. /\ Available(f)' >= Available(f)
          /\ Available(f)' + Committed(f)' >= Available(f) + Committed(f) - b.stake
      BY <1>0, <2>1, <3>1
    <3> QED  BY <1>5, <2>1, <2>2, <3>1, <3>2 DEF Leave
  <2>3. CASE b.family # f
    BY <1>0, <1>3, <1>4, <1>5, <2>1, <2>3 DEF Leave
  <2> QED  BY <2>2, <2>3
<1> QED  BY <1>2, <1>6

LEMMA WithdrawingMoves ==
  ASSUME LedgerAssumption, JournalInv, TypeOK', NEW B \in SUBSET bets, CancelVirtual(B),
         NEW f, IsFiniteSet(Entries(f))
  PROVE  B \subseteq Pending /\ Pending' = Pending \ B /\ Leave(B, f)
<1>0. TypeOK /\ B \in SUBSET Bet /\ B \subseteq Pending
  BY DEF JournalInv, EndsInv, RowsFit, TypeOK, CancelVirtual, Cancellable
<1>1. \A b, c \in bets : b.id = c.id => b = c
  BY <1>0 DEF TypeOK
<1>2. Distinct(B)
  BY <1>0, <1>1, BetsAreFinite DEF Distinct
<1>3. Pending' = Pending \ B
  <2>1. bets' = bets \ B /\ cancelled' = cancelled /\ Settled' = Settled
    BY DEF CancelVirtual, Settled
  <2> QED  BY <2>1 DEF Pending
<1>4. ASSUME NEW b \in B PROVE StakeEntry(b) \in ledger
  <2>1. RowOf(b, StakeEntry(b))
    BY DEF RowOf
  <2> QED  BY <2>1, JournalByRows DEF JournalInv
<1>5. /\ ledger' \in SUBSET Entry /\ ledger = ledger' \union StakeRows(B)
      /\ StakeRows(B) \intersect ledger' = {} /\ OfFamily(ledger, f) = Entries(f)
  BY <1>0, <1>4 DEF TypeOK, CancelVirtual, OfFamily, Entries, StakeRows
<1>6. /\ IsFiniteSet(OfFamily(ledger', f))
      /\ AvailableIn(ledger, f) = AvailableIn(ledger', f) - StakedIn(B, f)
      /\ CommittedIn(ledger, f) = CommittedIn(ledger', f) + StakedIn(B, f)
  <2>1. IsFiniteSet(OfFamily(ledger, f))
    BY <1>5
  <2> QED  BY <1>2, <1>5, <2>1, StakesBooked
<1>7. /\ IsFiniteSet(Entries(f)')
      /\ Available(f)' = AvailableIn(ledger', f) /\ Committed(f)' = CommittedIn(ledger', f)
      /\ Available(f)' \in Int /\ Committed(f)' \in Int
  BY <1>6, BalancesNext
<1>8. /\ Available(f) = AvailableIn(ledger, f) /\ Committed(f) = CommittedIn(ledger, f)
      /\ Available(f) \in Int /\ Committed(f) \in Int
  BY <1>0, BalancesNow
<1>9. StakedIn(B, f) \in Nat /\ (OfFamily(B, f) = {} => StakedIn(B, f) = 0)
  BY <1>0, <1>2, StakedType, SumEmpty DEF StakedIn, Distinct
<1>10. Leave(B, f)
  BY <1>6, <1>7, <1>8, <1>9 DEF Leave
<1> QED  BY <1>0, <1>3, <1>10

LEMMA RefundingMoves ==
  ASSUME LedgerAssumption, JournalInv, TypeOK', NEW B \in SUBSET bets, CancelFunded(B),
         NEW f, IsFiniteSet(Entries(f))
  PROVE  B \subseteq Pending /\ Pending' = Pending \ B /\ Leave(B, f)
<1>0. TypeOK /\ B \in SUBSET Bet /\ B \subseteq Pending
  BY DEF JournalInv, EndsInv, RowsFit, TypeOK, CancelFunded, Cancellable
<1>1. \A b, c \in bets : b.id = c.id => b = c
  BY <1>0 DEF TypeOK
<1>2. Distinct(B)
  BY <1>0, <1>1, BetsAreFinite DEF Distinct
<1>3. Pending' = Pending \ B
  <2>1. bets' = bets /\ cancelled' = cancelled \union {b.id : b \in B} /\ Settled' = Settled
    BY DEF CancelFunded, Settled
  <2>2. \A d \in bets : d.id \in {b.id : b \in B} <=> d \in B
    BY <1>1
  <2> QED  BY <2>1, <2>2 DEF Pending
<1>4. ASSUME NEW b \in B PROVE RefundEntry(b) \notin ledger
  <2>1. ~Opening(RefundEntry(b))
    BY DEF Opening, OpenEntry, RefundEntry
  <2>2. ASSUME NEW d \in bets, RowOf(d, RefundEntry(b)) PROVE FALSE
    <3>1. b.id \in cancelled
      BY <2>2 DEF RowOf, StakeEntry, RefundEntry, SettleEntry
    <3> QED  BY <1>0, <3>1 DEF Pending
  <2> QED  BY <2>1, <2>2, JournalByRows DEF JournalInv
<1>5. /\ ledger \in SUBSET Entry /\ ledger' = ledger \union RefundRows(B)
      /\ OfFamily(ledger, f) = Entries(f) /\ RefundRows(B) \intersect ledger = {}
  BY <1>0, <1>4 DEF TypeOK, CancelFunded, OfFamily, Entries, RefundRows
<1>6. /\ IsFiniteSet(OfFamily(ledger', f))
      /\ AvailableIn(ledger', f) = AvailableIn(ledger, f) + StakedIn(B, f)
      /\ CommittedIn(ledger', f) = CommittedIn(ledger, f) - StakedIn(B, f)
  <2>1. IsFiniteSet(OfFamily(ledger, f))
    BY <1>5
  <2> QED  BY <1>2, <1>5, <2>1, RefundsBooked
<1>7. /\ IsFiniteSet(Entries(f)')
      /\ Available(f)' = AvailableIn(ledger', f) /\ Committed(f)' = CommittedIn(ledger', f)
  BY <1>6, BalancesNext
<1>8. /\ Available(f) = AvailableIn(ledger, f) /\ Committed(f) = CommittedIn(ledger, f)
      /\ Available(f) \in Int /\ Committed(f) \in Int
  BY <1>0, BalancesNow
<1>9. StakedIn(B, f) \in Nat /\ (OfFamily(B, f) = {} => StakedIn(B, f) = 0)
  BY <1>0, <1>2, StakedType, SumEmpty DEF StakedIn, Distinct
<1>10. Leave(B, f)
  BY <1>6, <1>7, <1>8, <1>9 DEF Leave
<1> QED  BY <1>0, <1>3, <1>10

-----------------------------------------------------------------------------
(* Stakes of unions and differences. *)

LEMMA StakedUnion ==
  ASSUME NEW S \in SUBSET Bet, IsFiniteSet(S), NEW B \in SUBSET Bet, IsFiniteSet(B),
         S \intersect B = {}, NEW f
  PROVE  StakedIn(S \union B, f) = StakedIn(S, f) + StakedIn(B, f)
<1> DEFINE X == OfFamily(S, f)
           Y == OfFamily(B, f)
<1>1. /\ OfFamily(S \union B, f) = X \union Y /\ X \intersect Y = {}
      /\ \A b \in X \union Y : b \in Bet
  BY DEF OfFamily
<1>2. IsFiniteSet(X) /\ IsFiniteSet(Y)
  BY StakedType
<1>3. \A b \in X \union Y : stakeOf[b] \in Int
  BY <1>1, RowAmounts
<1> HIDE DEF X, Y
<1>4. SumFunctionOnSet(stakeOf, X \union Y)
        = SumFunctionOnSet(stakeOf, X) + SumFunctionOnSet(stakeOf, Y)
  BY <1>1, <1>2, <1>3, SumUnion
<1> QED  BY <1>1, <1>4 DEF StakedIn, X, Y

LEMMA StakedDifference ==
  ASSUME NEW S \in SUBSET Bet, IsFiniteSet(S), NEW B \in SUBSET S, NEW f
  PROVE  StakedIn(S \ B, f) = StakedIn(S, f) - StakedIn(B, f)
<1> DEFINE R == S \ B
<1>1. /\ IsFiniteSet(B) /\ IsFiniteSet(R) /\ R \in SUBSET Bet /\ B \in SUBSET Bet
      /\ R \intersect B = {} /\ R \union B = S
  BY FS_Subset
<1> HIDE DEF R
<1>2. StakedIn(S, f) = StakedIn(R, f) + StakedIn(B, f)
  BY <1>1, StakedUnion
<1>3. StakedIn(R, f) \in Int /\ StakedIn(B, f) \in Int
  BY <1>1, StakedType
<1> QED  BY <1>2, <1>3 DEF R

LEMMA StakedIsSum ==
  ASSUME NEW S \in SUBSET Bet, IsFiniteSet(S), NEW f
  PROVE  Staked(S, f) = StakedIn(S, f)
<1>1. {x \in S : x.family = f} = OfFamily(S, f) /\ IsFiniteSet(OfFamily(S, f))
  BY StakedType DEF OfFamily
<1> QED  BY <1>1, StakesAreSums DEF Staked

-----------------------------------------------------------------------------
(* The invariant of a wallet.  An open batch stakes no more than is free and *)
(* keeps the exposure; the ledger does not move while it is open.            *)

Careful(S) == \A b \in S : b.kind \in {"nightly", "virtual"}
Limit(f) == (Equity(f) * 5) \div 100

Backed(f) == Committed(f) = StakedIn(Pending, f)
Covered(f) == StakedIn(new, f) <= Available(f)
Capped(f) == Careful(OfFamily(bets, f)) => Committed(f) <= Limit(f)
BatchCapped(f) ==
  Careful(OfFamily(new, f)) /\ OfFamily(new, f) # {}
    => Committed(f) + StakedIn(new, f) <= Limit(f)

Money(f) == /\ IsFiniteSet(Entries(f))
            /\ Backed(f) /\ Covered(f) /\ Capped(f) /\ BatchCapped(f)
MoneyInv == JournalInv /\ \A f \in Family : Money(f)

LEMMA FiniteTables ==
  ASSUME LedgerAssumption, JournalInv
  PROVE  /\ Pending \in SUBSET Bet /\ IsFiniteSet(Pending)
         /\ new \in SUBSET Bet /\ IsFiniteSet(new)
<1>1. TypeOK
  BY DEF JournalInv, EndsInv, RowsFit
<1>2. /\ Pending \in SUBSET Bet /\ \A b, c \in Pending : b.id = c.id => b = c
      /\ new \in SUBSET Bet /\ \A b, c \in new : b.id = c.id => b = c
  BY <1>1 DEF TypeOK, Pending
<1> QED  BY <1>2, BetsAreFinite

(* Five per cent of an equity that loses s cents shrinks by s at most. *)
LEMMA LimitShrinks ==
  ASSUME NEW e \in Int, NEW d \in Int, NEW s \in Nat, d >= e - s
  PROVE  (d * 5) \div 100 >= (e * 5) \div 100 - s
<1>1. PICK x \in Int : x = (e * 5) \div 100
  OBVIOUS
<1>2. PICK y \in Int : y = (d * 5) \div 100
  OBVIOUS
<1>3. x * 100 <= e * 5 /\ d * 5 < y * 100 + 100
  BY <1>1, <1>2
<1> QED  BY <1>1, <1>2, <1>3

LEMMA NothingStaked ==
  ASSUME NEW S, NEW f, OfFamily(S, f) = {}
  PROVE  StakedIn(S, f) = 0
  BY SumEmpty DEF StakedIn

(* Bets leave play while no batch is open. *)
LEMMA LeavingMoney ==
  ASSUME LedgerAssumption, JournalInv, NEW f, Money(f), NEW B \in SUBSET Pending,
         Pending' = Pending \ B, Leave(B, f), new = {}, new' = {},
         Careful(OfFamily(bets', f)) => Careful(OfFamily(bets, f))
  PROVE  Money(f)'
<1>0. TypeOK /\ IsFiniteSet(Entries(f)) /\ Backed(f) /\ Covered(f) /\ Capped(f)
  BY DEF Money, JournalInv, EndsInv, RowsFit
<1>1. /\ Available(f) \in Int /\ Committed(f) \in Int
  BY <1>0, BalancesNow
<1>2. Pending \in SUBSET Bet /\ IsFiniteSet(Pending) /\ IsFiniteSet(B) /\ B \in SUBSET Bet
  BY FiniteTables, FS_Subset
<1>3. StakedIn(B, f) \in Nat /\ StakedIn(Pending \ B, f) = StakedIn(Pending, f) - StakedIn(B, f)
  BY <1>2, StakedType, StakedDifference
<1>4. PICK a, c : a = Available(f)' /\ c = Committed(f)'
  OBVIOUS
<1>5. /\ IsFiniteSet(Entries(f)') /\ c = Committed(f) - StakedIn(B, f) /\ a >= Available(f)
      /\ a + c >= Available(f) + Committed(f) - StakedIn(B, f)
  BY <1>4 DEF Leave
<1>6. a \in Int /\ c \in Int
  BY <1>1, <1>3, <1>4, <1>5 DEF Leave
<1>7. Backed(f)'
  BY <1>0, <1>3, <1>4, <1>5 DEF Backed
<1>8. Covered(f)'
  BY <1>0, <1>1, <1>4, <1>5, <1>6, NothingStaked DEF Covered, OfFamily
<1>9. Capped(f)'
  <2>1. SUFFICES ASSUME Careful(OfFamily(bets, f)) PROVE c <= ((a + c) * 5) \div 100
    BY <1>4 DEF Capped, Limit, Equity
  <2>2. Committed(f) <= ((Available(f) + Committed(f)) * 5) \div 100
    BY <1>0, <2>1 DEF Capped, Limit, Equity
  <2>3. PICK e \in Int : e = Available(f) + Committed(f)
    BY <1>1
  <2>4. PICK d \in Int : d = a + c
    BY <1>6
  <2>5. (d * 5) \div 100 >= (e * 5) \div 100 - StakedIn(B, f)
    <3>1. PICK s \in Nat : s = StakedIn(B, f)
      BY <1>3
    <3>2. d >= e - s
      BY <1>1, <1>5, <1>6, <2>3, <2>4, <3>1
    <3> QED  BY <3>1, <3>2, LimitShrinks
  <2>6. PICK x \in Int : x = (e * 5) \div 100
    BY <2>3
  <2>7. PICK y \in Int : y = (d * 5) \div 100
    BY <2>4
  <2> QED  BY <1>1, <1>3, <1>5, <2>2, <2>3, <2>4, <2>5, <2>6, <2>7
<1>10. BatchCapped(f)'
  BY DEF BatchCapped, OfFamily
<1> QED  BY <1>5, <1>7, <1>8, <1>9, <1>10 DEF Money

(* Bets are staked, and no batch is open afterwards. *)
LEMMA StakingMoney ==
  ASSUME LedgerAssumption, JournalInv, TypeOK', NEW f, Money(f), NEW B, Staking(B), new' = {},
         StakedIn(B, f) <= Available(f),
         OfFamily(B, f) # {} /\ Careful(OfFamily(B, f))
           => Committed(f) + StakedIn(B, f) <= Limit(f)
  PROVE  Money(f)'
<1>0. TypeOK /\ IsFiniteSet(Entries(f)) /\ Backed(f) /\ Capped(f)
  BY DEF Money, JournalInv, EndsInv, RowsFit
<1>1. Available(f) \in Int /\ Committed(f) \in Int
  BY <1>0, BalancesNow
<1>2. /\ IsFiniteSet(Entries(f)')
      /\ Available(f)' = Available(f) - StakedIn(B, f)
      /\ Committed(f)' = Committed(f) + StakedIn(B, f)
      /\ Pending' = Pending \union B /\ Pending \intersect B = {}
  BY <1>0, StakingMoves
<1>3. B \in SUBSET Bet /\ IsFiniteSet(B) /\ Pending \in SUBSET Bet /\ IsFiniteSet(Pending)
  BY FiniteTables, BetsAreFinite DEF Staking
<1>4. /\ StakedIn(B, f) \in Nat
      /\ StakedIn(Pending \union B, f) = StakedIn(Pending, f) + StakedIn(B, f)
  BY <1>2, <1>3, StakedType, StakedUnion
<1>5. Backed(f)'
  BY <1>0, <1>2, <1>4 DEF Backed
<1>6. Covered(f)'
  BY <1>1, <1>2, <1>4, NothingStaked DEF Covered, OfFamily
<1>7. Limit(f)' = Limit(f)
  <2>1. Available(f)' + Committed(f)' = Available(f) + Committed(f)
    BY <1>1, <1>2, <1>4
  <2> QED  BY <2>1 DEF Limit, Equity
<1>8. Capped(f)'
  <2>1. SUFFICES ASSUME Careful(OfFamily(bets, f)'), bets' = bets \union B
                 PROVE  Committed(f) + StakedIn(B, f) <= Limit(f)
    BY <1>2, <1>7 DEF Capped, Staking
  <2>2. Careful(OfFamily(bets, f)) /\ Careful(OfFamily(B, f))
    BY <2>1 DEF Careful, OfFamily
  <2>3. CASE OfFamily(B, f) = {}
    BY <1>0, <1>1, <2>2, <2>3, NothingStaked DEF Capped
  <2> QED  BY <2>2, <2>3
<1>9. BatchCapped(f)'
  BY DEF BatchCapped, OfFamily
<1> QED  BY <1>2, <1>5, <1>6, <1>8, <1>9 DEF Money

(* A decision reserves its stake within the batch. *)
LEMMA DecideMoney ==
  ASSUME LedgerAssumption, JournalInv, NEW f \in Family, Money(f),
         NEW c \in Candidates, Decide(c)
  PROVE  Money(f)'
<1>0. /\ TypeOK /\ IsFiniteSet(Entries(f)) /\ Backed(f) /\ Covered(f) /\ Capped(f)
      /\ BatchCapped(f)
  BY DEF Money, JournalInv, EndsInv, RowsFit
<1>1. /\ Available(f)' = Available(f) /\ Committed(f)' = Committed(f) /\ Entries(f)' = Entries(f)
      /\ Pending' = Pending /\ bets' = bets /\ Limit(f)' = Limit(f)
  BY DEF Decide, Available, Committed, Entries, Pending, Settled, Limit, Equity
<1>2. Backed(f)' /\ Capped(f)' /\ IsFiniteSet(Entries(f)')
  BY <1>0, <1>1 DEF Backed, Capped
<1>3. CASE ~Admissible(c)
  BY <1>0, <1>1, <1>2, <1>3 DEF Decide, Money, Covered, BatchCapped
<1>4. CASE Admissible(c)
  <2> DEFINE n == NewBet(c, StakeOf(c))
  <2>1. /\ new' = new \union {n} /\ StakeOf(c) \in Nat \ {0}
        /\ StakeOf(c) <= Available(c.family) - Staked(new, c.family)
        /\ c.kind \in {"nightly", "virtual"} =>
             Committed(c.family) + Staked(new, c.family) + StakeOf(c) <= Limit(c.family)
    BY <1>4 DEF Decide, Admissible, WithinExposure, Exposure, Limit
  <2>2. n \in Bet /\ n \notin new
    BY <1>0, <2>1, NewBetType, CandidatesAreTyped, FreshId DEF CandidateType, TypeOK, Decide
  <2>3. n.kind = c.kind /\ n.family = c.family /\ n.stake = StakeOf(c)
    BY DEF NewBet
  <2> HIDE DEF n
  <2>4. new \in SUBSET Bet /\ IsFiniteSet(new)
    BY FiniteTables
  <2>5. StakedIn(new \union {n}, f) = StakedIn(new, f) + StakedIn({n}, f)
    <3>1. IsFiniteSet({n})
      BY FS_Singleton
    <3>2. {n} \in SUBSET Bet /\ new \intersect {n} = {}
      BY <2>2
    <3> QED  BY <2>4, <3>1, <3>2, StakedUnion
  <2>6. StakedIn(new, f) \in Nat /\ Staked(new, f) = StakedIn(new, f)
    BY <2>4, StakedType, StakedIsSum
  <2>7. Available(f) \in Int /\ Committed(f) \in Int
    BY <1>0, BalancesNow
  <2>8. CASE c.family = f
    <3>1. StakedIn(new', f) = StakedIn(new, f) + StakeOf(c)
      BY <2>1, <2>2, <2>3, <2>5, <2>8, StakedOne
    <3>2. Covered(f)'
      BY <1>1, <2>1, <2>6, <2>7, <2>8, <3>1 DEF Covered
    <3>3. Careful(OfFamily(new', f)) => c.kind \in {"nightly", "virtual"}
      BY <2>1, <2>3, <2>8 DEF Careful, OfFamily
    <3>4. BatchCapped(f)'
      <4>1. SUFFICES ASSUME c.kind \in {"nightly", "virtual"}
                     PROVE  Committed(f) + StakedIn(new', f) <= Limit(f)
        BY <1>1, <3>3 DEF BatchCapped
      <4>2. Committed(f) + StakedIn(new, f) + StakeOf(c) <= Limit(f)
        BY <2>1, <2>6, <2>8, <4>1
      <4> QED  BY <2>1, <2>6, <2>7, <3>1, <4>2
    <3> QED  BY <1>2, <3>2, <3>4 DEF Money
  <2>9. CASE c.family # f
    <3>1. StakedIn(new', f) = StakedIn(new, f)
      BY <2>1, <2>2, <2>3, <2>5, <2>6, <2>9, StakedOne
    <3>2. OfFamily(new', f) = OfFamily(new, f)
      BY <2>1, <2>3, <2>9 DEF OfFamily
    <3> QED  BY <1>0, <1>1, <1>2, <3>1, <3>2 DEF Money, Covered, BatchCapped
  <2> QED  BY <2>8, <2>9
<1> QED  BY <1>3, <1>4

LEMMA MoneyStep ==
  ASSUME LedgerAssumption, MoneyInv, JournalInv', [Next]_vars, NEW f \in Family
  PROVE  Money(f)'
<1>0. /\ JournalInv /\ TypeOK /\ TypeOK' /\ Money(f) /\ NewIsFresh /\ NewIsFresh'
      /\ IsFiniteSet(Entries(f)) /\ Backed(f) /\ Covered(f) /\ Capped(f) /\ BatchCapped(f)
  BY DEF MoneyInv, Money, JournalInv, EndsInv, RowsFit
<1>1. ASSUME UNCHANGED books, new' = new \/ new' = {} PROVE Money(f)'
  <2>1. /\ Available(f)' = Available(f) /\ Committed(f)' = Committed(f)
        /\ Entries(f)' = Entries(f) /\ Pending' = Pending /\ bets' = bets
        /\ Limit(f)' = Limit(f)
    BY <1>1 DEF books, Available, Committed, Entries, Pending, Settled, Limit, Equity
  <2>2. Backed(f)' /\ Capped(f)' /\ IsFiniteSet(Entries(f)')
    BY <1>0, <2>1 DEF Backed, Capped
  <2>3. CASE new' = new
    BY <1>0, <2>1, <2>2, <2>3 DEF Money, Covered, BatchCapped
  <2>4. CASE new' = {}
    <3>1. StakedIn(new', f) = 0 /\ OfFamily(new', f) = {}
      BY <2>4, NothingStaked DEF OfFamily
    <3>2. Available(f) \in Int /\ StakedIn(new, f) \in Nat
      BY <1>0, BalancesNow, FiniteTables, StakedType
    <3>3. 0 <= Available(f)
      BY <1>0, <3>2 DEF Covered
    <3> QED  BY <2>1, <2>2, <3>1, <3>3 DEF Money, Covered, BatchCapped
  <2> QED  BY <1>1, <2>3, <2>4
<1>2. ASSUME Quiet \/ Rollback, UNCHANGED books PROVE Money(f)'
  <2>1. Quiet => new' = new
    BY QuietKeepsTables DEF tables, batch
  <2> QED  BY <1>1, <1>2, <2>1 DEF Rollback
<1>3. ASSUME NEW c \in Candidates, Decide(c) PROVE Money(f)'
  BY <1>0, <1>3, DecideMoney
<1>4. ASSUME NEW p \in Settlers, SettleBet(p), UNCHANGED books PROVE Money(f)'
  BY <1>1, <1>4 DEF SettleBet, batch
<1>5. CASE Commit /\ Staking(new)
  <2>1. new' = {} /\ Staking(new) /\ StakedIn(new, f) <= Available(f)
    BY <1>0, <1>5 DEF Commit, Covered
  <2>2. OfFamily(new, f) # {} /\ Careful(OfFamily(new, f))
          => Committed(f) + StakedIn(new, f) <= Limit(f)
    BY <1>0 DEF BatchCapped
  <2> QED  BY <1>0, <2>1, <2>2, StakingMoney
<1>6. ASSUME NEW c \in Manual, PlaceManual(c), Staking({NewBet(c, c.stake)}) PROVE Money(f)'
  <2> DEFINE n == NewBet(c, c.stake)
  <2>1. /\ new = {} /\ new' = {} /\ Staking({n}) /\ c.stake <= Available(c.family)
        /\ n.kind = "manual" /\ n.family = c.family /\ n.stake = c.stake
    BY <1>0, <1>6 DEF PlaceManual, Unlocked, NewIsFresh, batch, NewBet, Manual
  <2> HIDE DEF n
  <2>2. n \in Bet
    BY <2>1 DEF Staking
  <2>3. StakedIn({n}, f) <= Available(f)
    <3>1. CASE n.family = f
      BY <2>1, <2>2, <3>1, StakedOne
    <3>2. CASE n.family # f
      <4>1. 0 <= Available(f)
        BY <1>0, <2>1, NothingStaked DEF Covered, OfFamily
      <4> QED  BY <2>2, <3>2, <4>1, StakedOne
    <3> QED  BY <3>1, <3>2
  <2>4. ~(OfFamily({n}, f) # {} /\ Careful(OfFamily({n}, f)))
    BY <2>1 DEF OfFamily, Careful
  <2>5. PICK B : B = {n}
    OBVIOUS
  <2> QED  BY <1>0, <2>1, <2>3, <2>4, <2>5, StakingMoney
<1>7. ASSUME NEW p \in Settlers, NEW b \in Pending, NEW row \in Settlement,
             SettleBet(p), PayingOut(b, row)
      PROVE  Money(f)'
  <2>1. new = {} /\ new' = {} /\ bets' = bets
    BY <1>0, <1>7 DEF SettleBet, Unlocked, NewIsFresh, batch
  <2>2. Pending' = Pending \ {b} /\ Leave({b}, f) /\ {b} \in SUBSET Pending
    BY <1>0, <1>7, PayingOutMoves
  <2> QED  BY <1>0, <2>1, <2>2, LeavingMoney
<1>8. ASSUME NEW B \in SUBSET bets, CancelVirtual(B) PROVE Money(f)'
  <2>1. new = {} /\ new' = {}
    BY <1>0, <1>8 DEF CancelVirtual, Unlocked, NewIsFresh, batch
  <2>2. B \in SUBSET Pending /\ Pending' = Pending \ B /\ Leave(B, f)
    BY <1>0, <1>8, WithdrawingMoves
  <2>3. Careful(OfFamily(bets', f)) => Careful(OfFamily(bets, f))
    BY <1>8 DEF CancelVirtual, Cancellable, Careful, OfFamily
  <2> QED  BY <1>0, <2>1, <2>2, <2>3, LeavingMoney
<1>9. ASSUME NEW B \in SUBSET bets, CancelFunded(B) PROVE Money(f)'
  <2>1. new = {} /\ new' = {} /\ bets' = bets
    BY <1>0, <1>9 DEF CancelFunded, Unlocked, NewIsFresh, batch
  <2>2. B \in SUBSET Pending /\ Pending' = Pending \ B /\ Leave(B, f)
    BY <1>0, <1>9, RefundingMoves
  <2> QED  BY <1>0, <2>1, <2>2, LeavingMoney
<1> QED
  BY <1>0, <1>2, <1>3, <1>4, <1>5, <1>6, <1>7, <1>8, <1>9, MoneySteps

LEMMA MoneyInit ==
  LedgerAssumption /\ Init => \A f \in Family : Money(f) /\ Available(f) = OpeningCents
<1> SUFFICES ASSUME LedgerAssumption, Init, NEW f \in Family
             PROVE  Money(f) /\ Available(f) = OpeningCents
  OBVIOUS
<1> DEFINE o == OpenEntry(f)
<1>1. /\ ledger \in SUBSET Entry /\ Entries(f) = {o} /\ OfFamily(ledger, f) = {o}
      /\ bets = {} /\ new = {} /\ Pending = {}
  BY DEF Init, Entries, OfFamily, OpenEntry, Entry, LedgerAssumption, Pending
<1>2. o \in Entry /\ o.available = OpeningCents /\ o.committed = 0 /\ OpeningCents \in Nat
  BY DEF OpenEntry, Entry, LedgerAssumption
<1> HIDE DEF o
<1>3. IsFiniteSet(Entries(f)) /\ IsFiniteSet(OfFamily(ledger, f))
  <2>1. IsFiniteSet({o})
    BY FS_Singleton
  <2> QED  BY <1>1, <2>1
<1>4. availableOf[o] = OpeningCents /\ committedOf[o] = 0
  BY <1>2, RowAmounts
<1>5. AvailableIn(ledger, f) = OpeningCents /\ CommittedIn(ledger, f) = 0
  <2>1. availableOf[o] \in Int /\ committedOf[o] \in Int
    BY <1>2, <1>4
  <2>2. SumFunctionOnSet(availableOf, {o}) = availableOf[o]
    BY <2>1, SumSingleton
  <2>3. SumFunctionOnSet(committedOf, {o}) = committedOf[o]
    BY <2>1, SumSingleton
  <2> QED  BY <1>1, <1>4, <2>2, <2>3 DEF AvailableIn, CommittedIn
<1>6. Available(f) = OpeningCents /\ Committed(f) = 0
  <2>1. OfFamily(ledger, f) = {e \in ledger : e.family = f}
    BY DEF OfFamily
  <2> QED  BY <1>1, <1>3, <1>5, <2>1, BalancesAreSums DEF Available, Committed, Entries
<1>7. StakedIn(Pending, f) = 0 /\ StakedIn(new, f) = 0 /\ OfFamily(new, f) = {}
  BY <1>1, NothingStaked DEF OfFamily
<1>8. 0 <= Limit(f)
  BY <1>2, <1>6 DEF Limit, Equity
<1> QED
  BY <1>2, <1>3, <1>6, <1>7, <1>8 DEF Money, Backed, Covered, Capped, BatchCapped

LEMMA MoneyAlways == Spec => []MoneyInv
<1>1. Init => MoneyInv
  <2>1. Init => EndsInv
    BY EndsInit, LedgerAssumption
  <2>2. Init => LedgerIsJournal
    BY DEF Init, LedgerIsJournal
  <2> QED  BY <2>1, <2>2, MoneyInit, LedgerAssumption DEF MoneyInv, JournalInv
<1>2. MoneyInv /\ [Next]_vars => MoneyInv'
  <2>1. MoneyInv /\ [Next]_vars => JournalInv'
    BY JournalStep, EndsStep, StepType, LedgerAssumption DEF MoneyInv, JournalInv, EndsInv
  <2> QED  BY <2>1, MoneyStep, LedgerAssumption DEF MoneyInv
<1> QED  BY <1>1, <1>2, PTL DEF Spec

(* Whatever stakes, settles, refunds or withdraws, and in whatever order, the *)
(* committed cents of a wallet are the stakes of its pending bets.            *)
THEOREM CommittedIsAlwaysPending == Spec => []CommittedIsPending
<1>1. MoneyInv => CommittedIsPending
  <2>1. SUFFICES ASSUME MoneyInv, NEW f \in Family PROVE Committed(f) = Staked(Pending, f)
    BY DEF CommittedIsPending
  <2>2. Staked(Pending, f) = StakedIn(Pending, f)
    BY <2>1, FiniteTables, StakedIsSum, LedgerAssumption DEF MoneyInv
  <2> QED  BY <2>1, <2>2 DEF MoneyInv, Money, Backed
<1> QED  BY <1>1, MoneyAlways, PTL

(* Five per cent of the equity bounds what the nightly and virtual policies   *)
(* have at risk, after any losses.                                            *)
THEOREM ExposureIsAlwaysCapped == Spec => []ExposureCap
<1>1. MoneyInv => ExposureCap
  BY DEF MoneyInv, Money, Capped, Careful, OfFamily, Limit, ExposureCap
<1> QED  BY <1>1, MoneyAlways, PTL

-----------------------------------------------------------------------------
(***************************************************************************)
(* The tables implement the abstract wallet.                               *)
(***************************************************************************)

InPlay(b) == [id |-> b.id, family |-> b.family, stake |-> b.stake]
Plays(B) == {InPlay(b) : b \in B}
Over == Settled \union cancelled \union Ids(archived)

LEMMA AmountIsStaked ==
  ASSUME NEW B, Distinct(B), NEW f
  PROVE  W!Amount(Plays(B), f) = StakedIn(B, f)
<1> DEFINE S == OfFamily(B, f)
           T == {w \in Plays(B) : w.family = f}
           h == [b \in S |-> InPlay(b)]
           g == [w \in T |-> w.stake]
<1>1. S \in SUBSET Bet /\ IsFiniteSet(S) /\ \A b, c \in S : b.id = c.id => b = c
  BY FS_Subset DEF Distinct, OfFamily
<1>2. h \in Bijection(S, T)
  <2>1. \A b \in S : h[b] \in T /\ h[b].id = b.id
    BY DEF OfFamily, Plays, InPlay
  <2>2. \A t \in T : \E b \in S : h[b] = t
    BY DEF OfFamily, Plays, InPlay
  <2>3. h \in [S -> T] /\ \A b, c \in S : h[b] = h[c] => b = c
    BY <1>1, <2>1
  <2> HIDE DEF h, S, T
  <2> QED  BY <2>2, <2>3 DEF Bijection, Injection, Surjection, IsInjective
<1>3. \A b \in S : stakeOf[b] \in Int /\ g[h[b]] = stakeOf[b]
  <2>1. \A b \in S : h[b] \in T /\ h[b].stake = b.stake
    BY DEF OfFamily, Plays, InPlay
  <2> QED  BY <1>1, <2>1, RowAmounts
<1>4. W!Amount(Plays(B), f) = SumFunctionOnSet(g, T)
  BY DEF W!Amount, W!SumFunction, SumFunctionOnSet, W!SumFunctionOnSet,
         W!FoldFunctionOnSet, FoldFunctionOnSet, W!MapThenFoldSet, MapThenFoldSet
<1> HIDE DEF S, T, h, g
<1>5. SumFunctionOnSet(g, T) = SumFunctionOnSet(stakeOf, S)
  BY <1>1, <1>2, <1>3, SumRenamed
<1> QED  BY <1>4, <1>5 DEF StakedIn, S

(* A batch, or a user's bet, is one stake of the wallet. *)
LEMMA StakeRefined ==
  ASSUME LedgerAssumption, MoneyInv, TypeOK', NEW B, Staking(B), B # {},
         \A f \in Family : StakedIn(B, f) <= Available(f)
  PROVE  W!Next
<1>1. Distinct(B) /\ JournalInv /\ TypeOK /\ SettledXorCancelled
  BY BetsAreFinite DEF Staking, Distinct, MoneyInv, JournalInv, EndsInv, RowsFit
<1>2. \A f \in Family : Available(f)' = Available(f) - StakedIn(B, f)
  BY <1>1, StakingMoves DEF MoneyInv, Money
<1>3. \A f : W!Amount(Plays(B), f) = StakedIn(B, f)
  BY <1>1, AmountIsStaked
<1>4. /\ Pending' = Pending \union B
      /\ \A b \in B : b.id \notin Ids(bets \union archived)
      /\ Over' = Over
  <2>1. bets' = bets \union B /\ UNCHANGED <<settlements, cancelled, archived>>
    BY DEF Staking
  <2>2. \A b \in B : b.id \notin Settled \union cancelled
    BY <1>1 DEF Staking, SettledXorCancelled, Ids
  <2> QED  BY <2>1, <2>2 DEF Pending, Settled, Over, Ids, Staking
<1>5. \A b \in B : /\ b.id \notin {w.id : w \in Plays(Pending)} /\ b.id \notin Over
                   /\ b.id \in BetIds /\ b.stake > 0
  <2>1. \A b \in B, d \in bets \union archived : b.id # d.id
    BY <1>4 DEF Ids
  <2>2. {w.id : w \in Plays(Pending)} \subseteq Ids(bets)
    BY DEF Plays, InPlay, Pending, Ids
  <2>3. Over \subseteq Ids(bets \union archived)
    BY <1>1 DEF Over, SettledXorCancelled, Ids
  <2>4. \A b \in B : b.id \in BetIds /\ b.stake > 0
    BY <1>1 DEF Distinct, Bet
  <2> QED  BY <1>4, <2>2, <2>3, <2>4 DEF Ids
<1>6. \A w \in Plays(B) : \E b \in B : w = InPlay(b)
  BY DEF Plays
<1>7. Plays(Pending') \ Plays(Pending) = Plays(B) /\ Plays(Pending') = Plays(Pending) \union Plays(B)
  <2>1. ASSUME NEW b \in B PROVE InPlay(b) \notin Plays(Pending)
    BY <1>5 DEF InPlay
  <2> QED  BY <1>4, <2>1 DEF Plays
<1>8. W!Stake(Plays(B))
  <2>1. Plays(B) # {}
    BY DEF Plays
  <2>2. \A w \in Plays(B) : w.stake > 0 /\ w.id \in BetIds \ W!Known
    BY <1>5, <1>6 DEF InPlay, Plays, W!Known, Over
  <2>3. \A v, w \in Plays(B) : v.id = w.id => v = w
    BY <1>1, <1>6 DEF InPlay, Distinct
  <2>4. /\ \A f \in Family : W!Amount(Plays(B), f) <= [x \in Family |-> Available(x)][f]
        /\ [x \in Family |-> Available(x)'] =
             [f \in Family |-> [x \in Family |-> Available(x)][f] - W!Amount(Plays(B), f)]
    BY <1>2, <1>3
  <2>5. Plays(Pending)' = Plays(Pending) \union Plays(B)
    BY <1>7 DEF Plays, InPlay
  <2> QED
    BY <1>4, <2>1, <2>2, <2>3, <2>4, <2>5 DEF W!Stake, Plays, InPlay, Over
<1>9. Plays(Pending)' = Plays(Pending')
  BY DEF Plays, InPlay
<1>10. W!Stake(Plays(Pending)' \ Plays(Pending))
  BY <1>7, <1>8, <1>9 DEF W!Stake
<1> QED  BY <1>10 DEF W!Next, Plays, InPlay

(* A settlement, a withdrawal or a refund closes its bets. *)
LEMMA CloseRefined ==
  ASSUME TypeOK, NEW B \in SUBSET Pending, B # {}, Pending' = Pending \ B,
         Over' = Over \union Ids(B), \A f \in Family : Leave(B, f)
  PROVE  W!Next
<1>1. \A b, c \in Pending : b.id = c.id => b = c
  BY DEF TypeOK, Pending
<1>2. Plays(Pending)' = Plays(Pending) \ Plays(B) /\ Plays(B) \subseteq Plays(Pending)
  <2>1. \A b \in Pending, c \in B : InPlay(b) = InPlay(c) => b = c
    BY <1>1 DEF InPlay
  <2>2. Plays(Pending)' = Plays(Pending \ B)
    BY DEF Plays, InPlay
  <2> QED  BY <2>1, <2>2 DEF Plays
<1>3. Plays(Pending) \ Plays(Pending)' = Plays(B)
  BY <1>2
<1>4. {w.id : w \in Plays(B)} = Ids(B)
  <2>1. \A w : w \in Plays(B) <=> \E b \in B : w = InPlay(b)
    BY DEF Plays
  <2>2. \A b : InPlay(b).id = b.id
    BY DEF InPlay
  <2> QED  BY <2>1, <2>2 DEF Ids
<1>5. Plays(B) # {}
  BY DEF Plays
<1>6. \A f \in Family : IF \E w \in Plays(B) : w.family = f
                        THEN Available(f)' >= Available(f) ELSE Available(f)' = Available(f)
  <2>1. \A f \in Family : Available(f)' >= Available(f)
                          /\ (OfFamily(B, f) = {} => Available(f)' = Available(f))
    BY DEF Leave
  <2>2. \A w : w \in Plays(B) <=> \E b \in B : w = InPlay(b)
    BY DEF Plays
  <2>3. \A b : InPlay(b).family = b.family
    BY DEF InPlay
  <2>4. \A f : (\E w \in Plays(B) : w.family = f) <=> OfFamily(B, f) # {}
    BY <2>2, <2>3 DEF OfFamily
  <2> QED  BY <2>1, <2>4
<1>7. /\ DOMAIN [f \in Family |-> Available(f)'] = Family
      /\ \A f \in Family : IF \E w \in Plays(B) : w.family = f
           THEN [x \in Family |-> Available(x)'][f] >= [x \in Family |-> Available(x)][f]
           ELSE [x \in Family |-> Available(x)'][f] = [x \in Family |-> Available(x)][f]
  BY <1>6
<1>8. W!Close(Plays(B))
  BY <1>2, <1>4, <1>5, <1>7 DEF W!Close, Plays, InPlay, Over
<1>9. W!Close(Plays(Pending) \ Plays(Pending)')
  BY <1>3, <1>8 DEF W!Close
<1> QED  BY <1>9 DEF W!Next, Plays, InPlay

LEMMA WalletStutters == UNCHANGED books => UNCHANGED W!vars
<1> SUFFICES ASSUME UNCHANGED books PROVE UNCHANGED W!vars
  OBVIOUS
<1>1. Pending' = Pending /\ Over' = Over
  BY DEF books, Pending, Over, Settled, Ids
<1>2. [f \in Family |-> Available(f)]' = [f \in Family |-> Available(f)]
  BY DEF books, Available, Entries
<1> QED  BY <1>1, <1>2 DEF W!vars, Over

LEMMA WalletStep ==
  ASSUME LedgerAssumption, MoneyInv, TypeOK', [Next]_vars
  PROVE  W!Next \/ UNCHANGED W!vars
<1>0. /\ JournalInv /\ TypeOK /\ NewIsFresh
      /\ \A f \in Family : IsFiniteSet(Entries(f)) /\ Covered(f)
  BY DEF MoneyInv, Money, JournalInv, EndsInv, RowsFit
<1>1. CASE UNCHANGED books
  BY <1>1, WalletStutters
<1>2. CASE Commit /\ Staking(new)
  <2>1. CASE new = {}
    BY <1>1, <1>2, <2>1 DEF Commit, books
  <2>2. CASE new # {}
    <3>1. \A f \in Family : StakedIn(new, f) <= Available(f)
      BY <1>0 DEF Covered
    <3> QED  BY <1>2, <2>2, <3>1, StakeRefined
  <2> QED  BY <2>1, <2>2
<1>3. ASSUME NEW c \in Manual, PlaceManual(c), Staking({NewBet(c, c.stake)}) PROVE W!Next
  <2> DEFINE n == NewBet(c, c.stake)
  <2>1. /\ new = {} /\ Staking({n}) /\ c.stake <= Available(c.family)
        /\ n.family = c.family /\ n.stake = c.stake
    BY <1>0, <1>3 DEF PlaceManual, Unlocked, NewIsFresh, NewBet
  <2> HIDE DEF n
  <2>2. n \in Bet
    BY <2>1 DEF Staking
  <2>3. ASSUME NEW f \in Family PROVE StakedIn({n}, f) <= Available(f)
    <3>1. CASE n.family = f
      BY <2>1, <2>2, <3>1, StakedOne
    <3>2. CASE n.family # f
      <4>1. 0 <= Available(f)
        BY <1>0, <2>1, NothingStaked DEF Covered, OfFamily
      <4> QED  BY <2>2, <3>2, <4>1, StakedOne
    <3> QED  BY <3>1, <3>2
  <2>4. PICK B : B = {n} /\ B # {}
    OBVIOUS
  <2> QED  BY <2>1, <2>3, <2>4, StakeRefined
<1>4. ASSUME NEW b \in Pending, NEW row, PayingOut(b, row) PROVE W!Next
  <2>1. /\ \A f \in Family : Leave({b}, f)
        /\ \A f \in Family : Pending' = Pending \ {b}
    BY <1>0, <1>4, PayingOutMoves
  <2>2. Pending' = Pending \ {b}
    BY <2>1, <1>0 DEF TypeOK, Bet, Pending
  <2>3. Over' = Over \union Ids({b})
    BY <1>4 DEF PayingOut, Over, Settled, Ids
  <2>4. {b} \in SUBSET Pending /\ {b} # {}
    OBVIOUS
  <2> QED  BY <1>0, <2>1, <2>2, <2>3, <2>4, CloseRefined
<1>5. ASSUME NEW B \in SUBSET bets, CancelVirtual(B) \/ CancelFunded(B) PROVE W!Next
  <2>1. \A f \in Family : B \subseteq Pending /\ Pending' = Pending \ B /\ Leave(B, f)
    BY <1>0, <1>5, WithdrawingMoves, RefundingMoves
  <2>2. B # {} /\ \A b \in B : b.family \in Family
    BY <1>0, <1>5 DEF CancelVirtual, CancelFunded, TypeOK, Bet
  <2>3. B \in SUBSET Pending /\ Pending' = Pending \ B
    BY <2>1, <2>2
  <2>4. Over' = Over \union Ids(B)
    BY <1>5 DEF CancelVirtual, CancelFunded, Over, Settled, Ids
  <2> QED  BY <1>0, <2>1, <2>2, <2>3, <2>4, CloseRefined
<1> QED  BY <1>0, <1>1, <1>2, <1>3, <1>4, <1>5, MoneySteps

(* Five writers, their settlers and their cancellations are one wallet per    *)
(* family: stakes come whole out of free money, and each bet leaves play once.*)
THEOREM LedgerIsWallet == Spec => IsWallet
<1>1. Init => W!Init
  <2>1. SUFFICES ASSUME Init PROVE W!Init
    OBVIOUS
  <2>2. \A f \in Family : Available(f) = OpeningCents
    BY <2>1, MoneyInit, LedgerAssumption
  <2>3. Pending = {} /\ Over = {}
    BY <2>1 DEF Init, Pending, Over, Settled, Ids
  <2> QED  BY <2>2, <2>3 DEF W!Init, Over
<1>2. MoneyInv /\ TypeOK' /\ [Next]_vars => [W!Next]_W!vars
  BY WalletStep, LedgerAssumption
<1>3. Spec => [](MoneyInv /\ TypeOK)
  BY MoneyAlways, TypeCorrect, PTL
<1> QED  BY <1>1, <1>2, <1>3, PTL DEF Spec, IsWallet, W!Spec
==============================================================================
