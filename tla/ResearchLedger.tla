---------------------------- MODULE ResearchLedger ----------------------------
(***************************************************************************)
(* The virtual wallets of the research models: the ledger of integer cents,*)
(* the wagers that five writers place against it (the nightly run, the     *)
(* three execution policies that followed it, and the user by hand), their *)
(* settlement and their cancellation.  Every writer runs in one write      *)
(* transaction of the shared database.  A batch of decisions takes a step  *)
(* for each decision, while other writers wait and readers and the clock   *)
(* go on; other transactions are one action, and what a settler reads      *)
(* before its transaction is a step of its own.                            *)
(* The execution policy only moves forward (nightly, virtual, funded,      *)
(* dynamic): the transition scripts retire one before the next registers.  *)
(***************************************************************************)
EXTENDS Integers, Sequences, FiniteSets, Functions

CONSTANTS
  Family,         \* model families ("A", "C"), one portfolio each
  Match,          \* fixtures
  Selection,      \* selection keys: market, line and side
  Outcome,        \* official results
  Odds,           \* decimal odds of a selection, in hundredths
  Verdict,        \* how a selection ends under an outcome (settleGoalQuote)
  None,           \* no result, nothing read
  OpeningCents,   \* the OPEN entry of a portfolio (100000)
  BasisPoints,    \* suggested stakes of virtual and dynamic candidates
  Percents,       \* 1, 3 or 5: the confidence percentages of funded candidates
  ManualStakes,   \* amounts a user may stake, in cents
  Settlers,       \* concurrent passes of settleResearchBets
  Kickoffs,       \* instants a fixture may be scheduled for
  FirstPolicy,    \* bound: the policy in force at the beginning, 1..4
  MaxTime,        \* bound: the last instant of the clock
  MaxBets,        \* bound: wagers ever placed
  MaxBatch,       \* bound: candidates of one batch
  MaxChanges      \* bound: corrections of a result and changes of a kickoff

Policies == <<"nightly", "virtual", "funded", "dynamic">>
Verdicts == {"LOST", "HALF_LOST", "VOID", "HALF_WON", "WON", "UNRESOLVED"}
BetIds == 1..MaxBets

ASSUME LedgerAssumption ==
  /\ OpeningCents \in Nat /\ MaxTime \in Nat /\ MaxBets \in Nat
  /\ MaxBatch \in Nat /\ MaxChanges \in Nat /\ FirstPolicy \in 1..4
  /\ Kickoffs \subseteq 1..MaxTime
  /\ ManualStakes \subseteq Nat \ {0} /\ Percents \subseteq {1, 3, 5}
  /\ BasisPoints \subseteq 1..500
  /\ Odds \in [Selection -> Nat] /\ \A s \in Selection : Odds[s] > 100
  /\ Verdict \in [Selection \X Outcome -> Verdicts]
  /\ None \notin Outcome \union Nat

VARIABLES
  now,          \* the clock, the same for every process
  kickoff,      \* matches.date
  result,       \* the goals of matches, None while unknown
  changes,      \* corrections and changes of kickoff so far
  policy,       \* index in Policies of the policy in force
  bets,         \* rows of the bet tables
  settlements,  \* rows of the settlement tables
  archived,     \* bets withdrawn into research_bet_cancellations
  cancelled,    \* bet ids in funded_model_bet_cancellations
  asked,        \* decisions of the open batch transaction, {} when none is open
  new,          \* bets inserted by the open batch transaction
  ledger,       \* rows of research_ledger
  pass,         \* by settler, the pending bets it still has to look at
  seen          \* by settler, the fixture it read for its current bet
fixtures == <<now, kickoff, result, changes>>
settlers == <<pass, seen>>
batch == <<asked, new>>
vars == <<fixtures, policy, bets, settlements, archived, cancelled, batch, ledger, settlers>>

Kinds == {"nightly", "virtual", "funded", "dynamic", "manual"}
Bet == [id : BetIds, kind : Kinds, family : Family, match : Match,
        sel : Selection, stake : Nat \ {0}, kickoff : Kickoffs]
Settlement == [bet : BetIds, outcome : Outcome, kickoff : Kickoffs, returned : Nat]
Entry == [entry : {"open", "stake", "settle", "cancel"}, bet : 0..MaxBets,
          family : Family, available : Int, committed : Int]

(* The balances the transactions read: sums over the portfolio's entries. *)
Entries(f) == {e \in ledger : e.family = f}
Available(f) == SumFunction([e \in Entries(f) |-> e.available])
Committed(f) == SumFunction([e \in Entries(f) |-> e.committed])
Equity(f) == Available(f) + Committed(f)
Staked(S, f) == SumFunction([b \in {x \in S : x.family = f} |-> b.stake])

Settled == {s.bet : s \in settlements}
Pending == {b \in bets : b.id \notin Settled \union cancelled}
Upcoming(m) == result[m] = None /\ now < kickoff[m]
Ids(S) == {b.id : b \in S}
FreeIds == BetIds \ Ids(bets \union archived \union new)
Unlocked == asked = {}

OpenEntry(f) == [entry |-> "open", bet |-> 0, family |-> f,
                 available |-> OpeningCents, committed |-> 0]
StakeEntry(b) == [entry |-> "stake", bet |-> b.id, family |-> b.family,
                  available |-> 0 - b.stake, committed |-> b.stake]
SettleEntry(b, cents) == [entry |-> "settle", bet |-> b.id, family |-> b.family,
                          available |-> cents, committed |-> 0 - b.stake]
(* Mutant: the refund leaves the stake committed. *)
RefundEntryHalf(b) == [entry |-> "cancel", bet |-> b.id, family |-> b.family,
                       available |-> b.stake, committed |-> 0]
RefundEntry(b) == [entry |-> "cancel", bet |-> b.id, family |-> b.family,
                   available |-> b.stake, committed |-> 0 - b.stake]

-----------------------------------------------------------------------------
(* Placement. *)

Tables(kinds, S) == {b \in S : b.kind \in kinds}
OnMatch(S, c) == {b \in S : b.family = c.family /\ b.match = c.match}
OnSelection(S, c) == {b \in OnMatch(S, c) : b.sel = c.sel}

(* Mutant: the policies that followed do not look at each other's tables. *)
DuplicatesInOwnTable(c) ==
  IF c.kind \in {"nightly", "virtual"}
  THEN OnMatch(Tables({"nightly", "virtual", "manual"}, bets \union new), c)
  ELSE OnSelection(Tables({c.kind}, bets \union new), c)
(* Which earlier bets keep candidate c out, by the policy that places it.  *)
Duplicates(c) ==
  CASE c.kind \in {"nightly", "virtual"} ->
         OnMatch(Tables({"nightly", "virtual", "manual"}, bets \union new), c)
    [] c.kind = "funded" -> OnSelection(bets \union new, c)
    [] c.kind = "dynamic" ->
         OnSelection({b \in bets \union new : b.id \notin cancelled}, c)

(* Nightly bets stake 1 % and virtual ones a suggested share of the equity, *)
(* dynamic ones a suggested share and funded ones a percentage of what was  *)
(* available when the batch began.                                          *)
StakeOf(c) == IF c.kind = "funded" THEN (Available(c.family) * c.share) \div 100
                                   ELSE (Equity(c.family) * c.share) \div 10000

(* Mutant: the exposure forgets the earlier bets of the batch. *)
ExposureAlone(c) == Committed(c.family) + StakeOf(c)
Exposure(c) == Committed(c.family) + Staked(new, c.family) + StakeOf(c)
WithinExposure(c) == Exposure(c) <= (Equity(c.family) * 5) \div 100

(* Mutant: stakes reserved one by one. *)
AdmissibleAlone(c) ==
  /\ StakeOf(c) \in Nat \ {0} /\ StakeOf(c) <= Available(c.family)
  /\ c.kind \in {"nightly", "virtual"} => WithinExposure(c)
  /\ Duplicates(c) = {}
Admissible(c) ==
  /\ StakeOf(c) \in Nat \ {0}
  /\ StakeOf(c) <= Available(c.family) - Staked(new, c.family)
  /\ c.kind \in {"nightly", "virtual"} => WithinExposure(c)
  /\ Duplicates(c) = {}

NewBet(c, cents) ==
  [id |-> CHOOSE i \in FreeIds : TRUE, kind |-> c.kind, family |-> c.family,
   match |-> c.match, sel |-> c.sel, stake |-> cents, kickoff |-> kickoff[c.match]]

Shares(kind) == CASE kind = "nightly" -> {100}
                  [] kind \in {"virtual", "dynamic"} -> BasisPoints
                  [] kind = "funded" -> Percents
Candidates == [kind : {Policies[policy]}, family : Family, match : Match,
               sel : Selection, share : Shares(Policies[policy])]

(* A batch has one decision for a family and match, or for a selection of  *)
(* it.  Confidence allocation serves the larger percentages first; the     *)
(* other orders depend on expected values, on which no stake depends.      *)
Follows(c, d) ==
  /\ <<c.family, c.match>> = <<d.family, d.match>> =>
       c.kind \in {"funded", "dynamic"} /\ c.sel # d.sel
  /\ c.kind = "funded" /\ c.family = d.family => c.share <= d.share

(* One decision of commitBatch's loop: a candidate that does not pass is   *)
(* recorded as an abstention.                                              *)
Decide(c) ==
  /\ Cardinality(asked) < MaxBatch /\ FreeIds # {}
  /\ Upcoming(c.match) /\ \A d \in asked : Follows(c, d)
  /\ asked' = asked \union {c}
  /\ new' = IF Admissible(c) THEN new \union {NewBet(c, StakeOf(c))} ELSE new
  /\ UNCHANGED <<fixtures, policy, bets, settlements, archived, cancelled, ledger, settlers>>

(* The transaction commits unless a kickoff was reached meanwhile.         *)
Commit ==
  /\ asked # {} /\ \A c \in asked : Upcoming(c.match)
  /\ bets' = bets \union new
  /\ ledger' = ledger \union {StakeEntry(b) : b \in new}
  /\ asked' = {} /\ new' = {}
  /\ UNCHANGED <<fixtures, policy, settlements, archived, cancelled, settlers>>

(* An error, an expired lease, a lost connection: nothing of it remains.   *)
Rollback ==
  /\ asked # {} /\ asked' = {} /\ new' = {}
  /\ UNCHANGED <<fixtures, policy, bets, settlements, archived, cancelled, ledger, settlers>>

(* place: a user stakes an amount on a current recommendation; a second    *)
(* request for the same match returns the first bet or is refused.         *)
PlaceManual(c) ==
  /\ Unlocked /\ FreeIds # {}
  /\ Upcoming(c.match)
  /\ OnMatch(Tables({"nightly", "virtual", "manual"}, bets), c) = {}
  /\ OnSelection({b \in Tables({"funded", "dynamic"}, bets) : b.id \notin cancelled}, c) = {}
  /\ c.stake <= Available(c.family)
  /\ LET b == NewBet(c, c.stake)
     IN /\ bets' = bets \union {b}
        /\ ledger' = ledger \union {StakeEntry(b)}
  /\ UNCHANGED <<fixtures, policy, settlements, archived, cancelled, batch, settlers>>

Manual == [kind : {"manual"}, family : Family, match : Match, sel : Selection,
           stake : ManualStakes]

-----------------------------------------------------------------------------
(* Settlement.  A pass lists the pending bets, then reads the fixture of   *)
(* one, outside any transaction, and settles it in a transaction.          *)

(* Twice the multiplier, in hundredths, of odds that are in hundredths. *)
Multiplier(odds, verdict) == CASE verdict = "LOST" -> 0
                               [] verdict = "HALF_LOST" -> 100
                               [] verdict = "VOID" -> 200
                               [] verdict = "HALF_WON" -> odds + 100
                               [] verdict = "WON" -> 2 * odds
(* Math.round of the stake times the multiplier. *)
Payout(b, o) ==
  (b.stake * Multiplier(Odds[b.sel], Verdict[<<b.sel, o>>]) + 100) \div 200

ListPending(p) ==
  /\ pass[p] = {} /\ Pending # {}
  /\ pass' = [pass EXCEPT ![p] = Pending]
  /\ UNCHANGED <<fixtures, policy, bets, settlements, archived, cancelled, batch, ledger, seen>>

(* A fixture without goals, or without the statistics that the selection   *)
(* needs, leaves its bet unresolved.                                       *)
Resolvable(b) == /\ result[b.match] # None
                 /\ Verdict[<<b.sel, result[b.match]>>] # "UNRESOLVED"
(* Mutant: the pass waits for the fixture instead of skipping the bet. *)
ReadFixtureOrWait(p, b) ==
  /\ seen[p] = None /\ b \in pass[p] /\ Resolvable(b)
  /\ seen' = [seen EXCEPT ![p] = [bet |-> b, outcome |-> result[b.match],
                                 kickoff |-> kickoff[b.match]]]
  /\ UNCHANGED <<fixtures, policy, bets, settlements, archived, cancelled, batch, ledger, pass>>
ReadFixture(p, b) ==
  /\ seen[p] = None /\ b \in pass[p]
  /\ IF ~Resolvable(b)
     THEN /\ pass' = [pass EXCEPT ![p] = @ \ {b}]
          /\ UNCHANGED seen
     ELSE /\ seen' = [seen EXCEPT ![p] = [bet |-> b, outcome |-> result[b.match],
                                          kickoff |-> kickoff[b.match]]]
          /\ UNCHANGED pass
  /\ UNCHANGED <<fixtures, policy, bets, settlements, archived, cancelled, batch, ledger>>

(* settleBet: a bet that is gone, cancelled, or settled on other evidence  *)
(* makes the call throw, which ends the whole pass.                        *)
Conflicts(row) == \E s \in settlements : s.bet = row.bet /\ s # row
SettleBet(p) ==
  /\ Unlocked /\ seen[p] # None
  /\ LET b == seen[p].bet
         row == [bet |-> b.id, outcome |-> seen[p].outcome, kickoff |-> seen[p].kickoff,
                 returned |-> Payout(b, seen[p].outcome)]
         throws == b \notin bets \/ b.id \in cancelled \/ Conflicts(row)
     IN /\ pass' = [pass EXCEPT ![p] = IF throws THEN {} ELSE @ \ {b}]
        /\ IF throws \/ row \in settlements
           THEN UNCHANGED <<settlements, ledger>>
           ELSE /\ settlements' = settlements \union {row}
                /\ ledger' = ledger \union {SettleEntry(b, row.returned)}
  /\ seen' = [seen EXCEPT ![p] = None]
  /\ UNCHANGED <<fixtures, policy, bets, archived, cancelled, batch>>

(* The process of a pass ends: nothing it kept in memory survives. *)
SettlerStops(p) ==
  /\ pass[p] # {}
  /\ pass' = [pass EXCEPT ![p] = {}]
  /\ seen' = [seen EXCEPT ![p] = None]
  /\ UNCHANGED <<fixtures, policy, bets, settlements, archived, cancelled, batch, ledger>>

-----------------------------------------------------------------------------
(* Cancellation of the bets B of an approved plan, all or none, only before*)
(* the kickoff they were placed for.  (Both scripts also wait for running  *)
(* leases to end, which this module does not have.)                        *)

(* Mutant: only a moved kickoff forbids a cancellation. *)
CancellableUnmoved(kind) ==
  {b \in bets : b.kind = kind /\ b.id \notin cancelled /\ kickoff[b.match] = b.kickoff}
Cancellable(kind) ==
  {b \in Pending : b.kind = kind /\ Upcoming(b.match) /\ kickoff[b.match] = b.kickoff}

(* Mutant: the stake entries of the archived bets stay. *)
CancelVirtualRows(B) ==
  /\ Unlocked /\ B # {} /\ B \subseteq Cancellable("virtual")
  /\ bets' = bets \ B
  /\ archived' = archived \union B
  /\ UNCHANGED <<fixtures, policy, settlements, cancelled, batch, ledger, settlers>>
(* apply: virtual bets are archived; their rows and stake entries go. *)
CancelVirtual(B) ==
  /\ Unlocked /\ B # {} /\ B \subseteq Cancellable("virtual")
  /\ bets' = bets \ B
  /\ archived' = archived \union B
  /\ ledger' = ledger \ {StakeEntry(b) : b \in B}
  /\ UNCHANGED <<fixtures, policy, settlements, cancelled, batch, settlers>>

(* Funded bets keep their rows; a trigger books the refunds. *)
CancelFunded(B) ==
  /\ Unlocked /\ B # {} /\ B \subseteq Cancellable("funded")
  /\ cancelled' = cancelled \union {b.id : b \in B}
  /\ ledger' = ledger \union {RefundEntry(b) : b \in B}
  /\ UNCHANGED <<fixtures, policy, bets, settlements, archived, batch, settlers>>

-----------------------------------------------------------------------------
(* The environment: the clock, the fixtures, the operator. *)

Unchanged == UNCHANGED <<bets, settlements, archived, cancelled, batch, ledger, settlers>>

Tick == /\ now < MaxTime /\ now' = now + 1
        /\ UNCHANGED <<kickoff, result, changes, policy>> /\ Unchanged

(* A result appears after the kickoff; a source may correct it later. *)
Publish(m, o) ==
  /\ Unlocked /\ now >= kickoff[m] /\ result[m] # o
  /\ result[m] # None => changes < MaxChanges
  /\ changes' = IF result[m] = None THEN changes ELSE changes + 1
  /\ result' = [result EXCEPT ![m] = o]
  /\ UNCHANGED <<now, kickoff, policy>> /\ Unchanged

Reschedule(m, k) ==
  /\ Unlocked /\ result[m] = None /\ k > now /\ k # kickoff[m] /\ changes < MaxChanges
  /\ changes' = changes + 1
  /\ kickoff' = [kickoff EXCEPT ![m] = k]
  /\ UNCHANGED <<now, result, policy>> /\ Unchanged

NextPolicy == /\ Unlocked /\ policy < Len(Policies) /\ policy' = policy + 1
              /\ UNCHANGED fixtures /\ Unchanged

Init ==
  /\ now = 0 /\ kickoff \in [Match -> Kickoffs]
  /\ result = [m \in Match |-> None] /\ changes = 0 /\ policy = FirstPolicy
  /\ bets = {} /\ settlements = {} /\ archived = {} /\ cancelled = {}
  /\ asked = {} /\ new = {} /\ ledger = {OpenEntry(f) : f \in Family}
  /\ pass = [p \in Settlers |-> {}] /\ seen = [p \in Settlers |-> None]

SettlerStep(p) == \/ ListPending(p)
                  \/ \E b \in pass[p] : ReadFixture(p, b)
                  \/ SettleBet(p)

Next == \/ \E c \in Candidates : Decide(c)
        \/ Commit \/ Rollback
        \/ \E c \in Manual : PlaceManual(c)
        \/ \E p \in Settlers : SettlerStep(p) \/ SettlerStops(p)
        \/ \E B \in SUBSET bets : CancelVirtual(B) \/ CancelFunded(B)
        \/ Tick
        \/ \E m \in Match, o \in Outcome : Publish(m, o)
        \/ \E m \in Match, k \in Kickoffs : Reschedule(m, k)
        \/ NextPolicy

Spec == Init /\ [][Next]_vars

(* A pass is repeated by the daily jobs, goes on unless its process dies,  *)
(* and gets the write lock, which no transaction keeps; processes do not   *)
(* die for ever.                                                           *)
FairSpec == /\ Spec
            /\ \A p \in Settlers : WF_vars(SettlerStep(p)) /\ SF_vars(SettleBet(p))
            /\ WF_vars(Commit \/ Rollback)
            /\ <>[][\A p \in Settlers : ~SettlerStops(p)]_vars

-----------------------------------------------------------------------------
(* Properties. *)

(* Every row has its columns' values, every stored bet an identity of its  *)
(* own (the primary keys and CHECKs of migrations 015, 026, 029 to 031).   *)
TypeOK ==
  /\ now \in 0..MaxTime /\ kickoff \in [Match -> Kickoffs]
  /\ result \in [Match -> Outcome \union {None}] /\ changes \in 0..MaxChanges
  /\ policy \in 1..Len(Policies)
  /\ bets \subseteq Bet /\ archived \subseteq Bet
  /\ asked \subseteq Candidates /\ new \subseteq Bet
  /\ \A b, c \in bets \union archived \union new : b.id = c.id => b = c
  /\ settlements \subseteq Settlement /\ cancelled \subseteq BetIds
  /\ ledger \subseteq Entry
  /\ pass \in [Settlers -> SUBSET Bet]
  /\ seen \in [Settlers -> [bet : Bet, outcome : Outcome, kickoff : Kickoffs] \union {None}]

(* The ledger explains itself from the bet tables: one opening per family, *)
(* one stake per stored bet, one pay-out per settlement, one refund per    *)
(* cancellation, and nothing of a withdrawn bet.                           *)
Rows(b) ==
  {StakeEntry(b)}
  \union {RefundEntry(b) : i \in {b.id} \intersect cancelled}
  \union {SettleEntry(b, s.returned) : s \in {t \in settlements : t.bet = b.id}}
LedgerIsJournal ==
  ledger = {OpenEntry(f) : f \in Family} \union UNION {Rows(b) : b \in bets}

(* The committed cents of a wallet are the stakes of its pending bets,     *)
(* whichever writer placed them and whatever raced to settle them.         *)
CommittedIsPending == \A f \in Family : Committed(f) = Staked(Pending, f)

(* While only the nightly and virtual policies stake, what is at risk stays*)
(* within 5 % of the equity, also after losses have shrunk the equity.     *)
ExposureCap ==
  \A f \in Family :
    (\A b \in bets : b.family = f => b.kind \in {"nightly", "virtual"})
      => Committed(f) <= (Equity(f) * 5) \div 100

(* A bet ends in one way: what was refunded or withdrawn is never settled. *)
SettledXorCancelled ==
  /\ Settled \intersect (cancelled \union Ids(archived)) = {}
  /\ Ids(bets) \intersect Ids(archived) = {}
  /\ Settled \union cancelled \subseteq Ids(bets)

(* A family stakes on a selection of a match once, through the changes of  *)
(* policy and next to the user's own bets, unless the first was cancelled. *)
OneStakePerSelection ==
  \A b, c \in {x \in bets : x.id \notin cancelled} :
    b.family = c.family /\ b.match = c.match /\ b.sel = c.sel => b = c

(* The tables implement the abstract wallet: stakes come whole from free   *)
(* money and each bet leaves play exactly once.                            *)
W == INSTANCE Wallet WITH
       Wager <- BetIds, Opening <- OpeningCents,
       free <- [f \in Family |-> Available(f)],
       open <- {[id |-> b.id, family |-> b.family, stake |-> b.stake] : b \in Pending},
       closed <- Settled \union cancelled \union Ids(archived)
IsWallet == W!Spec

(* No bet whose result is known stays pending for ever, although a pass is *)
(* abandoned when one of its settlements conflicts with a concurrent one.  *)
EveryWagerEnds ==
  \A i \in BetIds : []<>~(\E b \in Pending : b.id = i /\ Resolvable(b))
==============================================================================
