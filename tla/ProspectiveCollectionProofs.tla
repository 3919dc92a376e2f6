---------------------- MODULE ProspectiveCollectionProofs ----------------------
(* The collector for any matches, kickoffs, window and claims, and any number  *)
(* of runs that overlap and die: a key has one claim for ever, so it has one   *)
(* forecast, and a row that says stored tells the truth.                       *)
EXTENDS ProspectiveCollection, TLAPS

Made == [key : Key, run : Runs, at : 0..MaxTime]
Memory == [todo : SUBSET (Match \X Kickoffs \X BOOLEAN), key : Key \cup {None},
           at : 0..MaxTime, claim : Claim \cup {None}]

Types ==
    /\ TypeOK
    /\ claims \in Seq(Made) /\ mem \in [Runs -> Memory]
    /\ receipt \in [Claim -> Log!Receipts] /\ completion \in [Claim -> Log!Completions]
    /\ table \subseteq Claim

\* A row and its claim name each other, so no two claims have the same key.
Owned ==
    /\ \A c \in DOMAIN claims : /\ ledger[claims[c].key] # None
                                /\ ledger[claims[c].key].claim = c
    /\ \A key \in Key : ledger[key] # None /\ ledger[key].claim # None =>
          ledger[key].claim \in DOMAIN claims /\ claims[ledger[key].claim].key = key

\* The recorder knows only forecasts of claims.
Offered ==
    /\ \A c \in Claim : receipt[c] # "none" => c \in DOMAIN claims
    /\ \A c \in table : receipt[c] # "none"

\* What a run remembers of the row it works on.
Busy(r) == pc[r] \in {"rereading", "predicting", "noting", "awaiting"}
Local(r) ==
    /\ pc[r] \in {"claiming", "confirming"} => mem[r].key \in Key /\ ledger[mem[r].key] # None
    /\ pc[r] = "confirming" => /\ mem[r].claim # None
                               /\ ledger[mem[r].key].claim = mem[r].claim
    /\ Busy(r) => /\ mem[r].claim \in DOMAIN claims
                  /\ claims[mem[r].claim].key = mem[r].key

Truthful ==
    \A key \in Key : ledger[key] # None /\ ledger[key].state = "stored" =>
       Confirmed(ledger[key].claim, key)

Inductive == Types /\ Owned /\ Offered /\ (\A r \in Runs : Local(r)) /\ Truthful

-----------------------------------------------------------------------------
(* Rows, claims and memories from one state to the next.                     *)

\* Rows and claims are never withdrawn, and a row never changes its claim.
Grows ==
    /\ \A key \in Key : ledger[key] # None =>
          ledger'[key] # None /\ (ledger[key].claim # None => ledger'[key].claim = ledger[key].claim)
    /\ \A c \in DOMAIN claims : c \in DOMAIN claims' /\ claims'[c] = claims[c]

LEMMA RowFacts ==
    ASSUME Types, NEW key \in Key, ledger[key] # None
    PROVE  /\ ledger[key] \in Row
           /\ ledger[key].claim = None <=> ledger[key].state \in {"observed", "expired"}
BY DEF Types, TypeOK

LEMMA ClaimFacts ==
    ASSUME Types, NEW c \in DOMAIN claims
    PROVE  c \in Claim /\ claims[c] \in Made /\ claims[c].key \in Key /\ c # None
<1>1. claims \in Seq(Made) /\ Len(claims) <= MaxClaims /\ MaxClaims \in Nat
  BY CollectionAssumption DEF Types, TypeOK
<1>2. c \in 1..Len(claims) /\ claims[c] \in Made
  BY <1>1
<1>3. c \in Claim
  BY <1>1, <1>2 DEF Claim
<1> QED  BY <1>2, <1>3, NoneAssumption DEF Made

LEMMA OthersKeep ==
    ASSUME Inductive, Grows, NEW s \in Runs, pc'[s] = pc[s], mem'[s] = mem[s]
    PROVE  Local(s)'
BY DEF Inductive, Local, Busy, Grows

\* What was confirmed stays confirmed.
LEMMA ConfirmedKeeps ==
    ASSUME Grows, table \subseteq table', \A c \in table : forecast'[c] = forecast[c],
           NEW key, NEW c \in DOMAIN claims, Confirmed(c, key)
    PROVE  Confirmed(c, key)'
BY DEF Grows, Confirmed

\* A run writes one row, without changing its claim, and goes on to a step it has
\* the memory for.
LEMMA WriteKeeps ==
    ASSUME Inductive, NEW r \in Runs, NEW step \in Steps, NEW rest \in Memory,
           Goto(r, step), Remember(r, rest), Local(r)',
           NEW key \in Key, NEW row \in Row, ledger' = [ledger EXCEPT ![key] = row],
           row.claim = None <=> row.state \in {"observed", "expired"},
           IF ledger[key] = None THEN row.claim = None ELSE row.claim = ledger[key].claim,
           row.state = "stored" => Confirmed(row.claim, key),
           Untouched, NoCalls
    PROVE  Inductive'
<1>1. /\ UNCHANGED <<now, kickoff, played, moves, crashes, claims, forecast, receipt, completion, table>>
      /\ row # None
  BY NoneAssumption DEF Untouched, NoCalls, fixtureVars, logVars
<1>2. /\ pc' \in [Runs -> Steps] /\ mem' \in [Runs -> Memory]
      /\ \A s \in Runs \ {r} : pc'[s] = pc[s] /\ mem'[s] = mem[s]
  BY DEF Goto, Remember, Inductive, Types, TypeOK
<1>3. /\ ledger' \in [Key -> Row \cup {None}] /\ ledger'[key] = row
      /\ \A k \in Key \ {key} : ledger'[k] = ledger[k]
  BY DEF Inductive, Types, TypeOK
<1>4. Grows
  BY <1>1, <1>3 DEF Grows
<1>5. Types'
  BY <1>1, <1>2, <1>3 DEF Inductive, Types, TypeOK, Memory
<1>6. Owned'
  <2>1. \A c \in DOMAIN claims : claims[c].key \in Key /\ c # None
    BY ClaimFacts DEF Inductive
  <2> QED  BY <1>1, <1>3, <2>1 DEF Inductive, Owned
<1>7. Offered'
  BY <1>1 DEF Inductive, Offered
<1>8. \A s \in Runs : Local(s)'
  BY <1>2, <1>4, OthersKeep
<1>9. Truthful'
  BY <1>1, <1>3 DEF Inductive, Truthful, Confirmed
<1> QED  BY <1>5, <1>6, <1>7, <1>8, <1>9 DEF Inductive

\* The same when no row is written.
LEMMA ReadKeeps ==
    ASSUME Inductive, NEW r \in Runs, NEW step \in Steps, NEW rest \in Memory,
           Goto(r, step), Remember(r, rest), Local(r)', ledger' = ledger, Untouched, NoCalls
    PROVE  Inductive'
<1>1. UNCHANGED <<now, kickoff, played, moves, crashes, claims, forecast, receipt, completion, table>>
  BY DEF Untouched, NoCalls, fixtureVars, logVars
<1>2. /\ pc' \in [Runs -> Steps] /\ mem' \in [Runs -> Memory]
      /\ \A s \in Runs \ {r} : pc'[s] = pc[s] /\ mem'[s] = mem[s]
  BY DEF Goto, Remember, Inductive, Types, TypeOK
<1>3. Grows
  BY <1>1 DEF Grows
<1>4. Types' /\ Owned' /\ Offered'
  BY <1>1, <1>2 DEF Inductive, Types, TypeOK, Memory, Owned, Offered
<1>5. \A s \in Runs : Local(s)'
  BY <1>2, <1>3, OthersKeep
<1>6. Truthful'
  BY <1>1 DEF Inductive, Truthful, Confirmed
<1> QED  BY <1>4, <1>5, <1>6 DEF Inductive

\* After Leave a run remembers only what is left to do.
LEMMA LeaveFacts ==
    ASSUME Inductive, NEW r \in Runs, Leave(r)
    PROVE  /\ \E step \in Steps, rest \in Memory : Goto(r, step) /\ Remember(r, rest)
           /\ Local(r)'
<1> DEFINE rest == [Blank EXCEPT !.todo = mem[r].todo]
           step == IF mem[r].todo = {} THEN "idle" ELSE "scanning"
<1>1. Goto(r, step) /\ Remember(r, rest) /\ step \in Steps
  BY DEF Leave, Steps
<1>2. mem[r] \in Memory
  BY DEF Inductive, Types
<1>3. rest \in Memory
  BY <1>2, CollectionAssumption DEF Blank, Memory
<1>4. pc'[r] = step
  BY <1>1 DEF Goto, Inductive, Types, TypeOK
<1>5. Local(r)'
  BY <1>4 DEF Local, Busy
<1> QED  BY <1>1, <1>3, <1>5

\* A claimed row gets another state.
LEMMA MarkKeeps ==
    ASSUME Inductive, NEW r \in Runs, NEW step \in Steps, NEW rest \in Memory,
           Goto(r, step), Remember(r, rest), Local(r)',
           NEW key \in Key, ledger[key] # None, ledger[key].claim # None,
           NEW state \in {"skipped", "unconfirmed", "stored"}, SetState(key, state),
           state = "stored" => Confirmed(ledger[key].claim, key),
           Untouched, NoCalls
    PROVE  Inductive'
<1> DEFINE row == [ledger[key] EXCEPT !.state = state]
<1>1. ledger[key] \in Row
  BY RowFacts DEF Inductive
<1>2. row \in Row /\ row.claim = ledger[key].claim /\ row.state = state
  BY <1>1 DEF Row, States
<1>3. ledger' = [ledger EXCEPT ![key] = row]
  BY DEF SetState
<1>4. row.claim = None <=> row.state \in {"observed", "expired"}
  BY <1>2
<1> HIDE DEF row
<1> QED  BY <1>2, <1>3, <1>4, WriteKeeps

\* The row of a run that has claimed it.
LEMMA ClaimedRow ==
    ASSUME Inductive, NEW r \in Runs, Busy(r)
    PROVE  LET key == mem[r].key
               c == mem[r].claim
           IN  /\ key \in Key /\ c \in DOMAIN claims /\ claims[c].key = key /\ c # None
               /\ ledger[key] # None /\ ledger[key].claim = c
<1>1. mem[r].claim \in DOMAIN claims /\ claims[mem[r].claim].key = mem[r].key
  BY DEF Inductive, Local
<1> QED  BY <1>1, ClaimFacts DEF Inductive, Owned

-----------------------------------------------------------------------------
(* Every step keeps the invariant.                                           *)

LEMMA InitInductive == Init => Inductive
<1> SUFFICES ASSUME Init PROVE Inductive
  OBVIOUS
<1>1. /\ now = 0 /\ moves = 0 /\ crashes = 0 /\ kickoff \in [Match -> Kickoffs] /\ played = {}
      /\ ledger = [k \in Key |-> None] /\ claims = <<>>
      /\ forecast = [c \in Claim |-> None] /\ table = {}
      /\ receipt = [c \in Claim |-> "none"] /\ completion = [c \in Claim |-> "none"]
      /\ pc = [r \in Runs |-> "idle"] /\ mem = [r \in Runs |-> Blank]
  BY DEF Init, Log!LogInit
<1>2. Blank \in Memory /\ Blank.key = None
  BY CollectionAssumption DEF Blank, Memory
<1>3. TypeOK
  BY <1>1, <1>2, CollectionAssumption DEF TypeOK, Steps
<1>4. Types
  BY <1>1, <1>2, <1>3 DEF Types, Log!Receipts, Log!Completions
<1>5. Owned /\ Offered /\ (\A r \in Runs : Local(r)) /\ Truthful
  BY <1>1 DEF Owned, Offered, Local, Busy, Truthful
<1> QED  BY <1>4, <1>5 DEF Inductive

LEMMA StartKeeps ==
    ASSUME Inductive, NEW r \in Runs, Start(r)
    PROVE  Inductive'
<1> DEFINE rest == [Blank EXCEPT !.todo = {<<m, kickoff[m], m \in played>> : m \in Match}]
<1>1. Goto(r, "scanning") /\ Remember(r, rest) /\ ledger' = ledger /\ Untouched /\ NoCalls
  BY DEF Start
<1>2. rest \in Memory
  <2>1. \A m \in Match : kickoff[m] \in Kickoffs
    BY DEF Inductive, Types, TypeOK
  <2>2. {<<m, kickoff[m], m \in played>> : m \in Match} \subseteq Match \X Kickoffs \X BOOLEAN
    <3>1. \A m \in Match, b \in BOOLEAN : <<m, kickoff[m], b>> \in Match \X Kickoffs \X BOOLEAN
      BY <2>1
    <3>2. \A m \in Match : (m \in played) \in BOOLEAN
      OBVIOUS
    <3> QED  BY <3>1, <3>2, Zenon
  <2> QED  BY <2>2, CollectionAssumption DEF Blank, Memory
<1>3. pc'[r] = "scanning"
  BY <1>1 DEF Goto, Inductive, Types, TypeOK
<1>4. Local(r)'
  BY <1>3 DEF Local, Busy
<1> QED  BY <1>1, <1>2, <1>4, ReadKeeps DEF Steps

LEMMA ExamineKeeps ==
    ASSUME Inductive, NEW r \in Runs, Examine(r)
    PROVE  Inductive'
<1>1. PICK f \in mem[r].todo :
          LET key == <<f[1], f[2]>>
              row == IF ledger[key] = None THEN Observed ELSE ledger[key]
              rest == mem[r].todo \ {f}
              reason == Reason(now, f[2], f[3])
          IN  /\ ledger' = [ledger EXCEPT ![key] =
                    IF Expires(row, reason) THEN [row EXCEPT !.state = "expired"] ELSE row]
              /\ IF StepFor(row, reason) = "done"
                 THEN /\ Remember(r, [Blank EXCEPT !.todo = rest])
                      /\ Goto(r, IF rest = {} THEN "idle" ELSE "scanning")
                 ELSE /\ Remember(r, [todo |-> rest, key |-> key, at |-> now, claim |-> row.claim])
                      /\ Goto(r, StepFor(row, reason))
  BY DEF Examine
<1> DEFINE key == <<f[1], f[2]>>
           row == IF ledger[key] = None THEN Observed ELSE ledger[key]
           left == mem[r].todo \ {f}
           reason == Reason(now, f[2], f[3])
           marked == IF Expires(row, reason) THEN [row EXCEPT !.state = "expired"] ELSE row
           done == StepFor(row, reason) = "done"
           step == IF done THEN (IF left = {} THEN "idle" ELSE "scanning") ELSE StepFor(row, reason)
           rest == IF done THEN [Blank EXCEPT !.todo = left]
                   ELSE [todo |-> left, key |-> key, at |-> now, claim |-> row.claim]
<1>2. Untouched /\ NoCalls /\ Goto(r, step) /\ Remember(r, rest)
      /\ ledger' = [ledger EXCEPT ![key] = marked]
  BY <1>1 DEF Examine
<1>3. mem[r] \in Memory /\ now \in 0..MaxTime
  BY DEF Inductive, Types, TypeOK
<1>4. key \in Key /\ left \in SUBSET (Match \X Kickoffs \X BOOLEAN)
  BY <1>3 DEF Memory, Key
<1>5. row \in Row /\ (row.claim = None <=> row.state \in {"observed", "expired"})
      /\ IF ledger[key] = None THEN row.claim = None ELSE row.claim = ledger[key].claim
  <2>1. CASE ledger[key] = None
    BY <2>1 DEF Observed, Row, States
  <2>2. CASE ledger[key] # None
    BY <1>4, <2>2, RowFacts DEF Inductive
  <2> QED  BY <2>1, <2>2
<1>6. /\ marked \in Row /\ marked.claim = row.claim
      /\ marked.claim = None <=> marked.state \in {"observed", "expired"}
      /\ marked.state = "stored" => ledger[key] # None /\ ledger[key].state = "stored"
  <2>1. CASE Expires(row, reason)
    BY <1>5, <2>1 DEF Expires, Row, States
  <2>2. CASE ~Expires(row, reason)
    BY <1>5, <2>2 DEF Observed
  <2> QED  BY <2>1, <2>2
<1>7. marked.state = "stored" => Confirmed(marked.claim, key)
  BY <1>4, <1>5, <1>6 DEF Inductive, Truthful
<1>8. StepFor(row, reason) \in {"claiming", "confirming", "done"}
      /\ (StepFor(row, reason) = "confirming" => row.claim # None)
  BY DEF StepFor
<1>9. step \in Steps /\ rest \in Memory
  <2>1. [todo |-> left, key |-> key, at |-> now, claim |-> row.claim] \in Memory
    BY <1>3, <1>4, <1>5 DEF Memory, Row
  <2>2. [Blank EXCEPT !.todo = left] \in Memory
    BY <1>4, CollectionAssumption DEF Memory, Blank
  <2>3. step \in Steps
    BY <1>8 DEF Steps
  <2>4. rest \in Memory
    BY <2>1, <2>2
  <2> QED  BY <2>3, <2>4
<1>10. Local(r)'
  <2>1. pc'[r] = step /\ mem'[r] = rest /\ ledger'[key] = marked /\ marked # None
    BY <1>2, <1>4, <1>6, NoneAssumption DEF Goto, Remember, Inductive, Types, TypeOK
  <2>2. CASE done
    BY <2>1, <2>2 DEF Local, Busy
  <2>3. CASE ~done
    <3>1. rest.key = key /\ rest.claim = row.claim
      BY <2>3
    <3>2. step \in {"claiming", "confirming"} /\ (step = "confirming" => row.claim # None)
      BY <1>8, <2>3
    <3> HIDE DEF rest, step, marked, row, key
    <3> QED  BY <1>4, <1>6, <2>1, <3>1, <3>2 DEF Local, Busy
  <2> QED  BY <2>2, <2>3
<1> HIDE DEF rest, step, marked, row, key
<1>11. IF ledger[key] = None THEN marked.claim = None ELSE marked.claim = ledger[key].claim
  BY <1>5, <1>6
<1> QED  BY <1>2, <1>4, <1>6, <1>7, <1>9, <1>10, <1>11, WriteKeeps

LEMMA ReconfirmKeeps ==
    ASSUME Inductive, NEW r \in Runs, Reconfirm(r)
    PROVE  Inductive'
<1>1. /\ pc[r] = "confirming" /\ Leave(r) /\ Untouched /\ NoCalls
      /\ \/ SetState(mem[r].key, "stored") /\ Confirmed(mem[r].claim, mem[r].key)
         \/ UNCHANGED ledger
  BY DEF Reconfirm
<1>2. /\ mem[r].key \in Key /\ ledger[mem[r].key] # None /\ mem[r].claim # None
      /\ ledger[mem[r].key].claim = mem[r].claim
  BY <1>1 DEF Inductive, Local
<1>3. PICK step \in Steps, rest \in Memory : Goto(r, step) /\ Remember(r, rest)
  BY <1>1, LeaveFacts
<1>4. Local(r)'
  BY <1>1, LeaveFacts
<1> QED  BY <1>1, <1>2, <1>3, <1>4, MarkKeeps, ReadKeeps

LEMMA TakeClaimKeeps ==
    ASSUME Inductive, NEW r \in Runs, TakeClaim(r)
    PROVE  Inductive'
<1> DEFINE key == mem[r].key
           c == Len(claims) + 1
           made == [key |-> key, run |-> r, at |-> mem[r].at]
           row == [state |-> "claimed", claim |-> c]
           rest == [mem[r] EXCEPT !.claim = c, !.at = 0]
<1>1. /\ pc[r] = "claiming" /\ key \in Key /\ ledger[key] # None /\ mem[r] \in Memory
      /\ claims \in Seq(Made) /\ Len(claims) <= MaxClaims /\ MaxClaims \in Nat
  BY CollectionAssumption DEF TakeClaim, Inductive, Local, Types, TypeOK
<1>2. CASE ~Free(key) /\ Leave(r) /\ UNCHANGED <<claims, ledger>>
  <2>1. PICK step \in Steps, left \in Memory : Goto(r, step) /\ Remember(r, left)
    BY <1>2, LeaveFacts
  <2>2. Local(r)'
    BY <1>2, LeaveFacts
  <2>3. Untouched /\ NoCalls /\ ledger' = ledger
    BY <1>2 DEF TakeClaim, NoCalls
  <2> QED  BY <2>1, <2>2, <2>3, ReadKeeps
<1>3. CASE /\ Free(key) /\ c <= MaxClaims
           /\ claims' = Append(claims, made)
           /\ ledger' = [ledger EXCEPT ![key] = row]
           /\ Remember(r, rest) /\ Goto(r, "rereading")
  <2>1. UNCHANGED <<now, kickoff, played, moves, crashes, forecast, receipt, completion, table>>
    BY DEF TakeClaim, Untouched, fixtureVars, logVars
  <2>2. made \in Made /\ c \in Claim /\ c # None /\ row \in Row /\ rest \in Memory /\ rest.key = key
        /\ rest.claim = c
    <3>1. c \in Claim
      BY <1>1, <1>3 DEF Claim
    <3>2. c # None
      BY <3>1, NoneAssumption
    <3>3. rest \in Memory /\ rest.key = key /\ rest.claim = c
      <4>1. ASSUME NEW m \in Memory, NEW d \in Claim
            PROVE  LET n == [m EXCEPT !.claim = d, !.at = 0]
                   IN  n \in Memory /\ n.key = m.key /\ n.claim = d
        <5>1. 0 \in 0..MaxTime
          BY CollectionAssumption
        <5> QED  BY <5>1 DEF Memory
      <4> HIDE DEF c
      <4> QED  BY <1>1, <3>1, <4>1
    <3> QED  BY <1>1, <3>1, <3>2, <3>3 DEF Made, Memory, Row, States
  <2> HIDE DEF made, rest
  <2>3. /\ claims' \in Seq(Made) /\ Len(claims') = c /\ DOMAIN claims' = DOMAIN claims \cup {c}
        /\ claims'[c] = made /\ c \notin DOMAIN claims
        /\ \A d \in DOMAIN claims : claims'[d] = claims[d]
    BY <1>1, <1>3, <2>2
  <2>4. /\ ledger' \in [Key -> Row \cup {None}] /\ ledger'[key] = row
        /\ \A k \in Key \ {key} : ledger'[k] = ledger[k]
    BY <1>1, <1>3, <2>2 DEF Inductive, Types, TypeOK
  <2>5. ledger[key].claim = None /\ row # None
    BY <1>1, <1>3, <2>2, RowFacts, NoneAssumption DEF Free, Inductive
  <2>6. /\ pc' \in [Runs -> Steps] /\ mem' \in [Runs -> Memory] /\ pc'[r] = "rereading" /\ mem'[r] = rest
        /\ \A s \in Runs \ {r} : pc'[s] = pc[s] /\ mem'[s] = mem[s]
    BY <1>3, <2>2 DEF Goto, Remember, Inductive, Types, TypeOK, Steps
  <2>7. Grows
    BY <2>3, <2>4, <2>5 DEF Grows
  <2>8. Types'
    <3>1. \A d \in DOMAIN claims' : claims'[d] \in [key : Key, run : Runs, at : 0..MaxTime]
      BY <2>2, <2>3, ClaimFacts DEF Made, Inductive
    <3>2. \A k \in Key : ledger'[k] # None =>
             (ledger'[k].claim = None <=> ledger'[k].state \in {"observed", "expired"})
      BY <2>2, <2>4 DEF Inductive, Types, TypeOK
    <3>3. \A s \in Runs : mem'[s].key \in Key \cup {None}
      BY <2>6 DEF Memory
    <3> QED  BY <1>3, <2>1, <2>3, <2>4, <2>6, <3>1, <3>2, <3>3 DEF Inductive, Types, TypeOK
  <2>9. Owned'
    <3>1. \A d \in DOMAIN claims : claims[d].key # key /\ claims[d].key \in Key
      BY <2>5, ClaimFacts DEF Inductive, Owned
    <3>2. made.key = key
      BY DEF made
    <3> QED  BY <1>1, <2>2, <2>3, <2>4, <2>5, <3>1, <3>2 DEF Inductive, Owned
  <2>10. Offered'
    BY <2>1, <2>3 DEF Inductive, Offered
  <2>11. Local(r)'
    <3>1. made.key = key
      BY DEF made
    <3> QED  BY <2>2, <2>3, <2>6, <3>1 DEF Local, Busy
  <2>12. \A s \in Runs : Local(s)'
    BY <2>6, <2>7, <2>11, OthersKeep
  <2>13. Truthful'
    <3> SUFFICES ASSUME NEW k \in Key, ledger'[k] # None, ledger'[k].state = "stored"
                 PROVE  Confirmed(ledger[k].claim, k)'
      BY DEF Truthful
    <3>1. k # key /\ ledger'[k] = ledger[k]
      BY <2>4
    <3>2. Confirmed(ledger[k].claim, k) /\ ledger[k].claim # None
      BY <3>1, RowFacts DEF Inductive, Truthful
    <3>3. ledger[k].claim \in DOMAIN claims
      BY <3>1, <3>2 DEF Inductive, Owned
    <3>4. ASSUME NEW d \in DOMAIN claims, Confirmed(d, k) PROVE Confirmed(d, k)'
      BY <2>1, <2>7, <3>4, ConfirmedKeeps
    <3> QED  BY <3>1, <3>2, <3>3, <3>4 DEF Confirmed
  <2> QED  BY <2>8, <2>9, <2>10, <2>12, <2>13 DEF Inductive
<1> QED  BY <1>2, <1>3 DEF TakeClaim

\* The steps after the claim, up to the receipt and after it, that only mark the row.
LEMMA FinishKeeps ==
    ASSUME Inductive, NEW r \in Runs, Busy(r), Leave(r), Untouched, NoCalls,
           NEW state \in {"skipped", "unconfirmed", "stored"}, SetState(mem[r].key, state),
           state = "stored" => Confirmed(mem[r].claim, mem[r].key)
    PROVE  Inductive'
<1>1. PICK step \in Steps, rest \in Memory : Goto(r, step) /\ Remember(r, rest)
  BY LeaveFacts
<1>2. Local(r)'
  BY LeaveFacts
<1>3. /\ mem[r].key \in Key /\ ledger[mem[r].key] # None /\ ledger[mem[r].key].claim = mem[r].claim
      /\ mem[r].claim # None
  BY ClaimedRow
<1> QED  BY <1>1, <1>2, <1>3, MarkKeeps

\* A run with a claim goes to its next step.
LEMMA AdvanceFacts ==
    ASSUME Inductive, NEW r \in Runs, Busy(r), NEW step \in {"predicting", "noting", "awaiting"},
           Goto(r, step), mem' = mem, claims' = claims
    PROVE  step \in Steps /\ mem[r] \in Memory /\ Remember(r, mem[r]) /\ Local(r)'
<1>1. pc'[r] = step /\ mem'[r] = mem[r] /\ Busy(r)'
  BY DEF Goto, Inductive, Types, TypeOK, Busy
<1>2. mem \in [Runs -> Memory]
  BY DEF Inductive, Types
<1>3. Remember(r, mem[r])
  BY <1>2 DEF Remember
<1> QED  BY <1>1, <1>2, <1>3 DEF Local, Busy, Inductive, Steps

LEMMA RereadKeeps ==
    ASSUME Inductive, NEW r \in Runs, Reread(r)
    PROVE  Inductive'
<1>1. Busy(r) /\ Untouched /\ NoCalls /\ claims' = claims
  BY DEF Reread, Busy, NoCalls
<1>2. CASE SetState(mem[r].key, "skipped") /\ Leave(r)
  BY <1>1, <1>2, FinishKeeps
<1>3. CASE Goto(r, "predicting") /\ UNCHANGED <<ledger, mem>>
  BY <1>1, <1>3, AdvanceFacts, ReadKeeps
<1> QED  BY <1>2, <1>3 DEF Reread

LEMMA NoteKeeps ==
    ASSUME Inductive, NEW r \in Runs, Note(r)
    PROVE  Inductive'
<1>1. Busy(r) /\ Untouched /\ NoCalls /\ claims' = claims
  BY DEF Note, Busy, NoCalls
<1>2. CASE Unconfirm(r)
  BY <1>1, <1>2, FinishKeeps DEF Unconfirm
<1>3. CASE SetState(mem[r].key, "unconfirmed") /\ Goto(r, "awaiting") /\ UNCHANGED mem
  <2>1. /\ mem[r].key \in Key /\ ledger[mem[r].key] # None
        /\ ledger[mem[r].key].claim = mem[r].claim /\ mem[r].claim # None
    BY <1>1, ClaimedRow
  <2>2. "awaiting" \in Steps /\ mem[r] \in Memory /\ Remember(r, mem[r]) /\ Local(r)'
    BY <1>1, <1>3, AdvanceFacts
  <2> QED  BY <1>1, <1>3, <2>1, <2>2, MarkKeeps
<1> QED  BY <1>2, <1>3 DEF Note

LEMMA CloseKeeps ==
    ASSUME Inductive, NEW r \in Runs, Close(r)
    PROVE  Inductive'
<1>1. /\ Busy(r) /\ Untouched /\ NoCalls /\ Leave(r)
      /\ SetState(mem[r].key, Verdict(mem[r].claim, mem[r].key))
  BY DEF Close, Busy
<1>2. /\ Verdict(mem[r].claim, mem[r].key) \in {"unconfirmed", "stored"}
      /\ Verdict(mem[r].claim, mem[r].key) = "stored" => Confirmed(mem[r].claim, mem[r].key)
  BY DEF Verdict
<1> QED  BY <1>1, <1>2, FinishKeeps

\* The recorder hears of a new forecast, or answers; the ledger is not written.
LEMMA LogKeeps ==
    ASSUME Inductive, Grows, ledger' = ledger, claims' = claims,
           receipt' \in [Claim -> Log!Receipts], completion' \in [Claim -> Log!Completions],
           table \subseteq table', table' \subseteq Claim,
           \A c \in Claim : receipt'[c] # "none" => c \in DOMAIN claims,
           \A c \in table' : receipt'[c] # "none",
           forecast' \in [Claim -> [at : 0..MaxTime, kickoff : Kickoffs] \cup {None}],
           \A c \in table : forecast'[c] = forecast[c],
           pc' \in [Runs -> Steps], mem' = mem, \A s \in Runs : Local(s)',
           crashes' \in 0..MaxCrashes, UNCHANGED <<now, fixtureVars>>
    PROVE  Inductive'
<1>1. Types' /\ Owned' /\ Offered'
  BY DEF Inductive, Types, TypeOK, Owned, Offered, fixtureVars
<1>2. Truthful'
  <2> SUFFICES ASSUME NEW key \in Key, ledger[key] # None, ledger[key].state = "stored"
               PROVE  Confirmed(ledger[key].claim, key)'
    BY DEF Truthful
  <2>1. Confirmed(ledger[key].claim, key) /\ ledger[key].claim # None
    BY RowFacts DEF Inductive, Truthful
  <2>2. ledger[key].claim \in DOMAIN claims
    BY <2>1 DEF Inductive, Owned
  <2>3. ASSUME NEW d \in DOMAIN claims, Confirmed(d, key) PROVE Confirmed(d, key)'
    BY <2>3, ConfirmedKeeps
  <2> QED  BY <2>1, <2>2, <2>3 DEF Confirmed
<1> QED  BY <1>1, <1>2 DEF Inductive

LEMMA PredictKeeps ==
    ASSUME Inductive, NEW r \in Runs, Predict(r)
    PROVE  Inductive'
<1> DEFINE c == mem[r].claim
           m == mem[r].key[1]
<1>1. Busy(r) /\ Untouched /\ claims' = claims
  BY DEF Predict, Busy
<1>2. CASE Unconfirm(r) /\ UNCHANGED <<forecast, logVars>>
  BY <1>1, <1>2, FinishKeeps DEF Unconfirm, NoCalls
<1>3. CASE /\ Log!Offer(c)
           /\ receipt'[c] \in {"asked", "rejected"}
           /\ forecast' = IF receipt'[c] = "rejected" THEN forecast
                          ELSE [forecast EXCEPT ![c] = [at |-> now, kickoff |-> kickoff[m]]]
           /\ Goto(r, "noting") /\ UNCHANGED <<ledger, mem>>
  <2>1. /\ mem[r].key \in Key /\ c \in DOMAIN claims /\ c \in Claim
    BY <1>1, ClaimedRow, ClaimFacts DEF Inductive
  <2>2. m \in Match /\ kickoff[m] \in Kickoffs /\ now \in 0..MaxTime
    BY <2>1 DEF Key, Inductive, Types, TypeOK
  <2>3. /\ receipt[c] = "none" /\ table' = table
        /\ receipt' \in [Claim -> Log!Receipts] /\ completion' \in [Claim -> Log!Completions]
        /\ \A d \in Claim \ {c} : receipt'[d] = receipt[d]
    BY <1>3, <2>1 DEF Log!Offer, Log!Receipts, Log!Completions, Log!Refusals, Inductive, Types
  <2>4. /\ c \notin table
        /\ forecast' \in [Claim -> [at : 0..MaxTime, kickoff : Kickoffs] \cup {None}]
        /\ \A d \in table : forecast'[d] = forecast[d]
    BY <1>3, <2>1, <2>2, <2>3 DEF Inductive, Types, TypeOK, Offered
  <2>5. /\ \A d \in Claim : receipt'[d] # "none" => d \in DOMAIN claims
        /\ \A d \in table' : receipt'[d] # "none"
    BY <1>3, <2>1, <2>3, <2>4 DEF Inductive, Types, Offered
  <2>6. Grows
    BY <1>1, <1>3 DEF Grows
  <2>7. pc' \in [Runs -> Steps] /\ \A s \in Runs \ {r} : pc'[s] = pc[s]
    BY <1>3 DEF Goto, Inductive, Types, TypeOK, Steps
  <2>8. \A s \in Runs : Local(s)'
    BY <1>1, <1>3, <2>6, <2>7, AdvanceFacts, OthersKeep
  <2>9. table \subseteq Claim /\ crashes' \in 0..MaxCrashes /\ UNCHANGED <<now, fixtureVars>>
    BY <1>1 DEF Untouched, Inductive, Types, TypeOK
  <2> QED
    BY <1>1, <1>3, <2>3, <2>4, <2>5, <2>6, <2>7, <2>8, <2>9, LogKeeps
<1> QED  BY <1>2, <1>3 DEF Predict

LEMMA CrashKeeps ==
    ASSUME Inductive, NEW r \in Runs, Crash(r)
    PROVE  Inductive'
<1>1. /\ UNCHANGED <<now, fixtureVars, ledger, claims, forecast, receipt, table>>
      /\ Remember(r, Blank) /\ Goto(r, "idle")
      /\ completion' \in [Claim -> Log!Completions]
  BY DEF Crash, Log!Forget, Log!Completions, Inductive, Types
<1>2. crashes' \in 0..MaxCrashes
  BY CollectionAssumption DEF Crash, Inductive, Types, TypeOK
<1>3. Blank \in Memory
  BY CollectionAssumption DEF Blank, Memory
<1>4. /\ pc' \in [Runs -> Steps] /\ mem' \in [Runs -> Memory] /\ pc'[r] = "idle"
      /\ \A s \in Runs \ {r} : pc'[s] = pc[s] /\ mem'[s] = mem[s]
  BY <1>1, <1>3 DEF Goto, Remember, Inductive, Types, TypeOK, Steps
<1>5. Grows
  BY <1>1 DEF Grows
<1>6. Local(r)'
  BY <1>4 DEF Local, Busy
<1>7. \A s \in Runs : Local(s)'
  BY <1>4, <1>5, <1>6, OthersKeep
<1>8. Types'
  BY <1>1, <1>2, <1>4 DEF Inductive, Types, TypeOK, Memory, fixtureVars
<1>9. Owned' /\ Offered'
  BY <1>1 DEF Inductive, Owned, Offered
<1>10. Truthful'
  BY <1>1 DEF Inductive, Truthful, Confirmed
<1> QED  BY <1>7, <1>8, <1>9, <1>10 DEF Inductive

LEMMA RecorderKeeps == Inductive /\ Recorder => Inductive'
<1> SUFFICES ASSUME Inductive, Recorder PROVE Inductive'
  OBVIOUS
<1>1. UNCHANGED <<now, fixtureVars, ledger, claims, forecast, pc, mem, crashes>>
  BY DEF Recorder
<1>2. PICK c \in Claim : Log!Reply(c) \/ Log!Resolve(c) \/ (Log!Store(c) /\ c \notin table)
  BY DEF Recorder
<1>3. /\ receipt' \in [Claim -> Log!Receipts] /\ completion' \in [Claim -> Log!Completions]
      /\ table \subseteq table' /\ table' \subseteq Claim
      /\ \A d \in Claim : receipt'[d] # "none" => receipt[d] # "none"
      /\ \A d \in table' : receipt'[d] # "none"
  BY <1>2 DEF Log!Reply, Log!Resolve, Log!Store, Log!Receipts, Log!Refusals, Log!Completions,
              Inductive, Types, Offered
<1>4. Grows
  BY <1>1 DEF Grows
<1>5. /\ \A s \in Runs : Local(s)'
      /\ \A d \in Claim : receipt'[d] # "none" => d \in DOMAIN claims
  BY <1>1, <1>3, <1>4, OthersKeep DEF Inductive, Offered
<1>6. /\ crashes' \in 0..MaxCrashes /\ pc' \in [Runs -> Steps]
      /\ forecast' \in [Claim -> [at : 0..MaxTime, kickoff : Kickoffs] \cup {None}]
  BY <1>1 DEF Inductive, Types, TypeOK
<1> QED  BY <1>1, <1>3, <1>4, <1>5, <1>6, LogKeeps

\* Time and fixtures change what a run decides, not what it has written.
LEMMA WorldKeeps ==
    ASSUME Inductive,
           UNCHANGED <<ledger, claims, forecast, logVars, pc, mem, crashes>>,
           now' \in 0..MaxTime, kickoff' \in [Match -> Kickoffs], played' \subseteq Match,
           moves' \in 0..MaxMoves
    PROVE  Inductive'
<1>1. Types'
  BY DEF Inductive, Types, TypeOK, logVars
<1>2. Owned' /\ Offered' /\ Truthful' /\ \A s \in Runs : Local(s)'
  BY DEF Inductive, Owned, Offered, Truthful, Confirmed, Local, Busy, logVars
<1> QED  BY <1>1, <1>2 DEF Inductive

LEMMA NextKeeps == Inductive /\ [Next]_vars => Inductive'
<1> SUFFICES ASSUME Inductive, [Next]_vars PROVE Inductive'
  OBVIOUS
<1>1. /\ now \in 0..MaxTime /\ kickoff \in [Match -> Kickoffs] /\ played \subseteq Match
      /\ moves \in 0..MaxMoves
  BY DEF Inductive, Types, TypeOK
<1>2. ASSUME NEW r \in Runs, Start(r) \/ Proceed(r) \/ Crash(r)
      PROVE  Inductive'
  BY <1>2, StartKeeps, ExamineKeeps, ReconfirmKeeps, TakeClaimKeeps, RereadKeeps, PredictKeeps,
     NoteKeeps, CloseKeeps, CrashKeeps DEF Proceed
<1>3. CASE Tick
  <2>1. now' \in 0..MaxTime
    BY <1>1, <1>3, CollectionAssumption DEF Tick
  <2> QED  BY <1>1, <1>3, <2>1, WorldKeeps DEF Tick, fixtureVars
<1>4. ASSUME NEW m \in Match, Move(m)
      PROVE  Inductive'
  <2>1. moves' \in 0..MaxMoves
    BY <1>1, <1>4, CollectionAssumption DEF Move
  <2>2. kickoff' \in [Match -> Kickoffs]
    BY <1>1, <1>4 DEF Move
  <2> QED  BY <1>1, <1>4, <2>1, <2>2, WorldKeeps DEF Move
<1>5. ASSUME NEW m \in Match, Play(m)
      PROVE  Inductive'
  BY <1>1, <1>5, WorldKeeps DEF Play
<1>6. CASE UNCHANGED vars
  BY <1>1, <1>6, WorldKeeps DEF vars, fixtureVars
<1> QED  BY <1>2, <1>3, <1>4, <1>5, <1>6, RecorderKeeps DEF Next

LEMMA AlwaysInductive == Spec => []Inductive
BY InitInductive, NextKeeps, PTL DEF Spec

-----------------------------------------------------------------------------
(* The properties.                                                           *)

\* A match has one forecast for each kickoff, however many runs meet over it,
\* die with it or come back to it.
THEOREM AlwaysOneForecastPerKey == Spec => []OneForecastPerKey
<1>1. Inductive => OneForecastPerKey
  <2> SUFFICES ASSUME Inductive, NEW c \in table, NEW d \in table, claims[c].key = claims[d].key
               PROVE  c = d
    BY DEF OneForecastPerKey
  <2>1. c \in DOMAIN claims /\ d \in DOMAIN claims
    BY DEF Inductive, Types, Offered
  <2> QED  BY <2>1 DEF Inductive, Owned
<1> QED  BY <1>1, AlwaysInductive, PTL

\* A row that says stored names a forecast the table holds, of its own claim.
THEOREM StoredIsAlwaysTrue == Spec => []StoredIsTrue
<1>1. Inductive => StoredIsTrue
  <2> SUFFICES ASSUME Inductive, NEW key \in Key, ledger[key] # None, ledger[key].state = "stored"
               PROVE  LET c == ledger[key].claim
                      IN  /\ c \in table /\ claims[c].key = key
                          /\ forecast[c].kickoff = key[2] /\ InWindow(forecast[c].at, key[2])
                          /\ claims[c].at <= forecast[c].at
    BY DEF StoredIsTrue, Inductive, Types
  <2>1. Confirmed(ledger[key].claim, key) /\ ledger[key].claim # None
    BY RowFacts DEF Inductive, Truthful
  <2>2. claims[ledger[key].claim].key = key
    BY <2>1 DEF Inductive, Owned
  <2> QED  BY <2>1, <2>2 DEF Confirmed
<1> QED  BY <1>1, AlwaysInductive, PTL
=============================================================================
