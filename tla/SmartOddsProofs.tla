-------------------------- MODULE SmartOddsProofs --------------------------
(***************************************************************************)
(* Proofs about SmartOdds for every set of calls, keys and inputs and      *)
(* every value of its numeric constants.                                   *)
(***************************************************************************)
EXTENDS SmartOdds, FiniteSetTheorems, TLAPS

----------------------------------------------------------------------------
(* Planning months. *)

LEMMA MonthBounds ==
  ASSUME NEW t \in Nat
  PROVE  /\ Month(t) \in Nat
         /\ Month(t) * MonthMs <= t
         /\ t < (Month(t) + 1) * MonthMs
<1>1. MonthMs \in Nat /\ MonthMs > 0
  BY NumberAssumption
<1> QED
  BY <1>1 DEF Month

LEMMA MonthMonotone ==
  ASSUME NEW s \in Nat, NEW t \in Nat, s <= t
  PROVE  Month(s) <= Month(t)
<1>1. MonthMs \in Nat /\ MonthMs > 0
  BY NumberAssumption
<1> QED
  BY <1>1 DEF Month

LEMMA MonthType ==
  ASSUME NEW t \in Time
  PROVE  Month(t) \in Months
BY MonthBounds, MonthMonotone, NumberAssumption DEF Time, Months

(* A non-empty set of months has a latest one. *)
LEMMA LatestOf ==
  ASSUME NEW n \in Nat, NEW S \in SUBSET (0..n), S # {}
  PROVE  \E p \in S : \A q \in S : q <= p
<1> DEFINE T == {p+1..n : p \in S}
<1>1. IsFiniteSet(0..n)
  BY FS_Interval
<1>2. T \subseteq FiniteSubsetsOf(0..n)
  <2>1. T \subseteq SUBSET (0..n)
    OBVIOUS
  <2> QED
    BY <1>1, <2>1, FS_FiniteSubsetsOfFinite
<1>3. T # {}
  OBVIOUS
<1>4. PICK x \in T : \A y \in T : ~(<<y, x>> \in StrictSubsetOrdering(0..n))
  BY <1>2, <1>3, FS_StrictSubsetOrderingWellFounded, WFMin
<1>5. PICK p \in S : x = p+1..n
  OBVIOUS
<1>6. ASSUME NEW q \in S, q > p PROVE FALSE
  <2>1. q+1..n \in T /\ q+1..n \subseteq p+1..n
    BY <1>6
  <2>2. q \in p+1..n /\ q \notin q+1..n
    BY <1>6
  <2>3. <<q+1..n, p+1..n>> \in StrictSubsetOrdering(0..n)
    BY <2>1, <2>2 DEF StrictSubsetOrdering
  <2> QED
    BY <1>4, <1>5, <2>1, <2>3
<1>7. \A q \in S : q \in Int /\ p \in Int
  OBVIOUS
<1> QED
  BY <1>6, <1>7

LEMMA LatestMonth ==
  ASSUME NEW S \in SUBSET Months, S # {}
  PROVE  \E p \in S : \A q \in S : q <= p
BY LatestOf, MonthBounds, NumberAssumption DEF Months

----------------------------------------------------------------------------
(* Sums of credits. *)

Ledger == Call \X (1..MaxCredits)

LEMMA CreditSets ==
  ASSUME NEW A \in SUBSET Ledger
  PROVE  IsFiniteSet(A) /\ Cardinality(A) \in Nat
<1>1. IsFiniteSet(1..MaxCredits)
  BY FS_Interval, NumberAssumption
<1>2. IsFiniteSet(Ledger)
  BY <1>1, CallAssumption, FS_Product DEF Ledger
<1> QED
  BY <1>2, FS_Subset, FS_CardinalityType

LEMMA CreditSubset ==
  ASSUME NEW B \in SUBSET Ledger, NEW A \in SUBSET B
  PROVE  Cardinality(A) <= Cardinality(B)
BY CreditSets, FS_Subset

LEMMA SumType ==
  ASSUME NEW res, NEW S \in SUBSET Call
  PROVE  /\ Credits(res, S) \in SUBSET Ledger
         /\ Sum(res, S) \in Nat
<1>1. Credits(res, S) \in SUBSET Ledger
  BY DEF Credits, Ledger
<1> QED
  BY <1>1, CreditSets DEF Sum

(* A sum over fewer requests is not larger. *)
LEMMA SumMonotone ==
  ASSUME NEW res, NEW S \in SUBSET Call, NEW T \in SUBSET S
  PROVE  Sum(res, T) <= Sum(res, S)
<1>1. Credits(res, T) \in SUBSET Credits(res, S)
  BY DEF Credits
<1> QED
  BY <1>1, SumType, CreditSubset DEF Sum

(* The sum over two disjoint sets of requests is the sum of the sums. *)
LEMMA SumUnion ==
  ASSUME NEW res, NEW S \in SUBSET Call, NEW T \in SUBSET Call, S \cap T = {}
  PROVE  Sum(res, S \union T) = Sum(res, S) + Sum(res, T)
<1> DEFINE A == Credits(res, S)
           B == Credits(res, T)
<1>1. Credits(res, S \union T) = A \union B
  BY DEF Credits
<1>2. A \cap B = {}
  BY DEF Credits
<1>3. /\ IsFiniteSet(A) /\ Cardinality(A) \in Nat
      /\ IsFiniteSet(B) /\ Cardinality(B) \in Nat
  BY SumType, CreditSets
<1> HIDE DEF A, B
<1>4. Cardinality(A \union B)
        = Cardinality(A) + Cardinality(B) - Cardinality(A \cap B)
  BY <1>3, FS_Union
<1>5. Cardinality(A \cap B) = 0
  BY <1>2, FS_EmptySet
<1>6. Cardinality(A \union B) = Cardinality(A) + Cardinality(B)
  BY <1>3, <1>4, <1>5
<1> QED
  BY <1>1, <1>6 DEF Sum, A, B

LEMMA AmountsAreSums ==
  ASSUME NEW res, NEW m
  PROVE  /\ Charged(res, m) \in Nat
         /\ Reserved(res, m) \in Nat
         /\ Carryover(res, m) \in Nat
         /\ UnknownCharged(res, m) \in Nat
         /\ UnknownCharged(res, m) <= Charged(res, m)
<1>1. /\ Finished(res, m) \in SUBSET Call
      /\ Outstanding(res, m) \in SUBSET Call
      /\ CarriedOver(res, m) \in SUBSET Call
      /\ Unmeasured(res, m) \in SUBSET Finished(res, m)
  BY DEF Finished, Outstanding, CarriedOver, Unmeasured, InMonth, Admitted
<1>2. Unmeasured(res, m) \in SUBSET Call
  BY <1>1
<1> QED
  BY <1>1, <1>2, SumType, SumMonotone
  DEF Charged, Reserved, Carryover, UnknownCharged

----------------------------------------------------------------------------
(* Types, and the fit of rows and calls. *)

Inductive == TypeOK /\ RowsFitCalls

LEMMA InitInductive == Init => Inductive
<1> SUFFICES ASSUME Init PROVE Inductive
  OBVIOUS
<1>1. 0 \in Time
  BY NumberAssumption DEF Time
<1>2. TypeOK
  BY <1>1, NumberAssumption DEF Init, TypeOK
<1>3. RowsFitCalls
  BY DEF Init, RowsFitCalls
<1> QED
  BY <1>2, <1>3 DEF Inductive

(* What the admission transaction writes has the types of the tables. *)
LEMMA AbandonType ==
  ASSUME Inductive, NEW k \in Key
  PROVE  /\ Abandon(k) \in [Call -> ResultRows \union {None}]
         /\ \A c \in Call : Abandon(k)[c] # None =>
              /\ request[c] # None
              /\ Abandon(k)[c].finishedAt <= now
              /\ Abandon(k)[c].charged <= input[c].expected
<1> USE DEF Inductive
<1>1. CASE lease[k] = None
  BY <1>1 DEF Abandon, TypeOK, RowsFitCalls
<1>2. CASE lease[k] # None
  <2> DEFINE h == lease[k].holder
             row == [charged |-> input[h].expected, measured |-> None,
                     finishedAt |-> now]
  <2>1. h \in Call /\ request[h] # None
    BY <1>2 DEF TypeOK, RowsFitCalls, LeaseRows
  <2>2. input[h] \in Request
    BY <2>1, InputAssumption DEF TypeOK, RowsFitCalls
  <2>3. row \in ResultRows /\ row # None /\ row.finishedAt <= now
    BY <2>2, NoneAssumption DEF ResultRows, Request, TypeOK, Time
  <2>4. Abandon(k) = [result EXCEPT ![h] = IF @ = None THEN row ELSE @]
    BY <1>2 DEF Abandon, InsertResult
  <2> QED
    BY <2>1, <2>2, <2>3, <2>4 DEF TypeOK, RowsFitCalls, Request
<1> QED
  BY <1>1, <1>2

LEMMA BudgetRowType ==
  ASSUME Inductive, NEW m \in Months
  PROVE  BudgetRow(m) \in BudgetRows
<1> DEFINE earlier == {p \in Months : p < m /\ budget[p] # None}
           last == CHOOSE p \in earlier : \A q \in earlier : q <= p
<1>1. CASE budget[m] # None
  BY <1>1 DEF BudgetRow, Inductive, TypeOK
<1>2. CASE budget[m] = None /\ earlier = {}
  BY <1>2 DEF BudgetRow, BudgetRows
<1>3. CASE budget[m] = None /\ earlier # {}
  <2>1. earlier \in SUBSET Months
    OBVIOUS
  <2>2. \E p \in earlier : \A q \in earlier : q <= p
    BY <1>3, <2>1, LatestMonth
  <2>3. last \in earlier
    BY <2>2
  <2>4. budget[last] \in BudgetRows
    BY <2>3 DEF Inductive, TypeOK
  <2>5. BudgetRow(m) = [used |-> budget[last].used,
                        remaining |-> budget[last].remaining,
                        anchor |-> 0, confirmed |-> FALSE]
    BY <1>3 DEF BudgetRow
  <2> QED
    BY <2>4, <2>5 DEF BudgetRows
<1> QED
  BY <1>1, <1>2, <1>3

(* The call starts. *)
LEMMA BeginStep ==
  ASSUME Inductive, NEW c \in Call, Begin(c)
  PROVE  Inductive'
<1> USE DEF Begin, Inductive, store, provider
<1>1. PICK i \in Input : input' = [input EXCEPT ![c] = i]
  OBVIOUS
<1>2. i # None
  BY InputAssumption, NoneAssumption
<1>3. TypeOK'
  BY <1>1 DEF TypeOK
<1>4. input[c] = None /\ request[c] = None
  BY DEF RowsFitCalls
<1>5. \A k \in Key : lease[k] # None => lease[k].holder # c
  BY <1>4 DEF RowsFitCalls
<1>6. RowsFitCalls'
  BY <1>1, <1>2, <1>4, <1>5 DEF RowsFitCalls, TypeOK
<1> QED
  BY <1>3, <1>6

(* The call ends with the store unchanged. *)
LEMMA EndStep ==
  ASSUME Inductive, NEW c \in Call, NEW how \in Ended,
         End(c, how), pc[c] \in {"trying", "fetching", "fetched"},
         UNCHANGED <<now, store, provider>>
  PROVE  Inductive'
<1> USE DEF End, Inductive, store, provider
<1>1. TypeOK'
  BY NumberAssumption DEF TypeOK, Time
<1>2. RowsFitCalls'
  BY DEF RowsFitCalls, TypeOK, Ended
<1> QED
  BY <1>1, <1>2

(* The admission transaction decides. *)
LEMMA DecideStep ==
  ASSUME Inductive, NEW c \in Call, Decide(c)
  PROVE  Inductive'
<1> DEFINE k == input[c].key
           m == Month(now)
<1>1. /\ now \in Time /\ now \in Nat
      /\ m \in Months
      /\ pc[c] = "trying" /\ input[c] \in Input /\ k \in Key
      /\ request[c] = None /\ fetched[c] = None
  BY MonthType, NumberAssumption, InputAssumption
  DEF Inductive, TypeOK, RowsFitCalls, Decide, Request, Time
<1>2. /\ result' = Abandon(k) /\ result' \in [Call -> ResultRows \union {None}]
      /\ \A d \in Call : result'[d] # None =>
           /\ request[d] # None
           /\ result'[d].finishedAt <= now
           /\ result'[d].charged <= input[d].expected
  BY <1>1, AbandonType DEF Decide
<1>3. /\ budget' = [budget EXCEPT ![m] = BudgetRow(m)]
      /\ BudgetRow(m) \in BudgetRows /\ BudgetRow(m) # None
  BY <1>1, BudgetRowType, NoneAssumption DEF Decide
<1>4. UNCHANGED <<now, input, cache, billed, reply, resets, fetched>>
  BY <1>1 DEF Decide, End, provider, Inductive, TypeOK
<1>5. budget' \in [Months -> BudgetRows \union {None}]
      /\ \A p \in Months : budget[p] # None => budget'[p] # None
  BY <1>1, <1>3 DEF Inductive, TypeOK
<1>6. CASE End(c, "denied") /\ UNCHANGED <<request, lease>>
  <2>1. TypeOK'
    BY <1>2, <1>4, <1>5, <1>6, NumberAssumption
    DEF Inductive, TypeOK, End, Ended, Time
  <2>2. RowsFitCalls'
    BY <1>1, <1>2, <1>4, <1>5, <1>6
    DEF Inductive, TypeOK, RowsFitCalls, End, RequestRows
  <2> QED
    BY <2>1, <2>2 DEF Inductive
<1>7. CASE /\ pc' = [pc EXCEPT ![c] = "fetching"]
           /\ started' = [started EXCEPT ![c] = 0]
           /\ request' = [request EXCEPT ![c] = [month |-> m, at |-> now]]
           /\ lease' = [lease EXCEPT ![k] =
                          [holder |-> c, expires |-> now + LeaseMs]]
  <2>1. /\ [month |-> m, at |-> now] \in RequestRows
        /\ [holder |-> c, expires |-> now + LeaseMs] \in LeaseRows
    BY <1>1, NumberAssumption DEF RequestRows, LeaseRows
  <2>2. TypeOK'
    BY <1>1, <1>2, <1>4, <1>5, <1>7, <2>1, NumberAssumption
    DEF Inductive, TypeOK, Time
  <2>3. \A d \in Call : d # c => request'[d] = request[d] /\ pc'[d] = pc[d]
    BY <1>7 DEF Inductive, TypeOK
  <2>4. request'[c] = [month |-> m, at |-> now] /\ request'[c] # None
        /\ pc'[c] = "fetching" /\ budget'[m] # None
    BY <1>1, <1>3, <1>7, <2>1, NoneAssumption DEF Inductive, TypeOK
  <2>5. \A j \in Key : lease'[j] # None =>
          request'[lease'[j].holder] # None /\ input'[lease'[j].holder].key = j
    BY <1>1, <1>4, <1>7, <2>3, <2>4
    DEF Inductive, TypeOK, RowsFitCalls, LeaseRows
  <2>6. result[c] = None /\ result'[c] = None /\ reply[c] = None
    BY <1>1, <1>2 DEF Inductive, RowsFitCalls
  <2>7. \A d \in Call : request[d] # None => request[d].month \in Months
    BY DEF Inductive, TypeOK, RequestRows
  <2>8. RowsFitCalls'
    BY <1>1, <1>2, <1>4, <1>5, <2>3, <2>4, <2>5, <2>6, <2>7
    DEF Inductive, RowsFitCalls
  <2> QED
    BY <2>2, <2>8 DEF Inductive
<1> QED
  BY <1>6, <1>7 DEF Decide

(* The fetch ends, with what the answer carried or with nothing. *)
LEMMA KeepStep ==
  ASSUME Inductive, NEW c \in Call, pc[c] = "fetching",
         NEW ok \in BOOLEAN, NEW used \in Nat \union {None},
         NEW remaining \in Nat \union {None},
         NEW cost \in 0..MaxCredits \union {None},
         cost # None => cost <= input[c].expected,
         Keep(c, ok, used, remaining, cost)
  PROVE  Inductive'
<1> USE DEF Keep, Inductive, store, provider
<1> DEFINE f == [ok |-> ok, used |-> used, remaining |-> remaining,
                 cost |-> cost, at |-> now]
<1>1. f \in Fetched /\ f # None
  BY NoneAssumption DEF Fetched, TypeOK
<1>2. TypeOK'
  BY <1>1 DEF TypeOK
<1>3. now <= now
  BY NumberAssumption DEF TypeOK, Time
<1>4. RowsFitCalls'
  BY <1>1, <1>3 DEF RowsFitCalls, TypeOK
<1> QED
  BY <1>2, <1>4

LEMMA ReceiveStep ==
  ASSUME Inductive, NEW c \in Call, Receive(c)
  PROVE  Inductive'
<1>1. PICK ok \in BOOLEAN, headers \in HeaderSets :
        Keep(c, ok,
             IF "used" \in headers THEN reply[c].used ELSE None,
             IF "remaining" \in headers
             THEN Larger(0, MonthlyLimit - reply[c].used) ELSE None,
             IF "last" \in headers THEN reply[c].cost ELSE None)
  BY DEF Receive
<1>2. /\ pc[c] = "fetching" /\ reply[c] \in Reply
      /\ reply[c].cost <= input[c].expected
  BY DEF Receive, Inductive, TypeOK, RowsFitCalls
<1>3. Larger(0, MonthlyLimit - reply[c].used) \in Nat
  BY <1>2, NumberAssumption DEF Larger, Reply
<1> QED
  BY <1>1, <1>2, <1>3, KeepStep DEF Reply

LEMMA FetchEndsStep ==
  ASSUME Inductive, NEW c \in Call, TransportFails(c) \/ FetchTimeout(c)
  PROVE  Inductive'
BY KeepStep DEF TransportFails, FetchTimeout

(* What the completion transaction writes has the types of the tables. *)
LEMMA ResultRowType ==
  ASSUME Inductive, NEW c \in Call, pc[c] = "fetched"
  PROVE  /\ ResultRow(c) \in ResultRows /\ ResultRow(c) # None
         /\ ResultRow(c).finishedAt <= now
         /\ ResultRow(c).charged <= input[c].expected
<1>1. fetched[c] \in Fetched /\ input[c] \in Request
  BY InputAssumption DEF Inductive, TypeOK, RowsFitCalls
<1>2. /\ fetched[c].at <= now
      /\ fetched[c].cost # None => fetched[c].cost <= input[c].expected
  BY DEF Inductive, TypeOK, RowsFitCalls
<1>3. ResultRow(c) \in ResultRows
  BY <1>1 DEF ResultRow, ResultRows, Fetched, Request
<1>4. input[c].expected <= input[c].expected
  BY <1>1, NumberAssumption DEF Request
<1> QED
  BY <1>2, <1>3, <1>4, NoneAssumption DEF ResultRow

LEMMA HeaderUpdateType ==
  ASSUME Inductive, NEW c \in Call, pc[c] = "fetched", NEW res,
         NEW row \in BudgetRows
  PROVE  HeaderUpdate(c, res, row) \in BudgetRows
<1>1. fetched[c] \in Fetched
  BY DEF Inductive, TypeOK, RowsFitCalls
<1>2. Included(res, c) \in SUBSET Call
  BY DEF Included, Finished, InMonth, Admitted
<1>3. Sum(res, Included(res, c)) \in Nat
  BY <1>2, SumType
<1>4. HeaderAnchor(c, res, row) \in Nat
  BY <1>3, AmountsAreSums DEF HeaderAnchor, Smaller, Larger, BudgetRows
<1>5. ConfirmsReset(c, row) \in BOOLEAN
  BY DEF ConfirmsReset
<1> QED
  BY <1>1, <1>4, <1>5
  DEF HeaderUpdate, BudgetRows, Fetched, Larger, Smaller

LEMMA CompleteStep ==
  ASSUME Inductive, NEW c \in Call, Complete(c)
  PROVE  Inductive'
<1> DEFINE k == input[c].key
           m == request[c].month
<1>1. /\ pc[c] = "fetched" /\ input[c] \in Request /\ k \in Key
      /\ request[c] # None /\ request[c] \in RequestRows
      /\ fetched[c] \in Fetched
      /\ m \in Months /\ budget[m] \in BudgetRows
      /\ now \in Nat
  BY InputAssumption, NumberAssumption
  DEF Complete, Inductive, TypeOK, RowsFitCalls, Request, RequestRows, Time
<1>2. /\ result' = [result EXCEPT ![c] = IF @ = None THEN ResultRow(c) ELSE @]
      /\ result' \in [Call -> ResultRows \union {None}]
      /\ \A d \in Call : result'[d] # None =>
           /\ request[d] # None
           /\ result'[d].finishedAt <= now
           /\ result'[d].charged <= input[d].expected
  <2>1. result' = [result EXCEPT ![c] = IF @ = None THEN ResultRow(c) ELSE @]
    BY DEF Complete, InsertResult
  <2> QED
    BY <1>1, <2>1, ResultRowType DEF Inductive, TypeOK, RowsFitCalls
<1>3. /\ budget' \in [Months -> BudgetRows \union {None}]
      /\ \A p \in Months : budget[p] # None => budget'[p] # None
  <2>1. CASE budget' = budget
    BY <2>1 DEF Inductive, TypeOK
  <2>2. CASE budget' = [budget EXCEPT ![m] = HeaderUpdate(c, result', @)]
    <3>1. HeaderUpdate(c, result', budget[m]) \in BudgetRows
      BY <1>1, HeaderUpdateType
    <3> QED
      BY <2>2, <3>1, NoneAssumption DEF Inductive, TypeOK
  <2> QED
    BY <2>1, <2>2 DEF Complete
<1>4. /\ cache' \in [Key -> Time \union {None}]
      /\ lease' \in [Key -> LeaseRows \union {None}]
      /\ \A j \in Key : lease'[j] # None => lease'[j] = lease[j]
  BY <1>1 DEF Complete, Inductive, TypeOK, Fetched
<1>5. \E how \in Ended : End(c, how)
  BY DEF Complete, Ended
<1>6. TypeOK'
  BY <1>2, <1>3, <1>4, <1>5, NumberAssumption
  DEF Complete, Inductive, TypeOK, End, provider, Time
<1>7. RowsFitCalls'
  <2>1. UNCHANGED <<now, input, request, reply>>
    BY DEF Complete, End, provider
  <2>2. /\ fetched' = [fetched EXCEPT ![c] = None]
        /\ \E how \in Ended : pc' = [pc EXCEPT ![c] = how]
    BY <1>5 DEF End
  <2>3. \A d \in Call : request[d] # None => request[d].month \in Months
    BY DEF Inductive, TypeOK, RequestRows
  <2>4. \A d \in Call :
          /\ pc'[d] = "idle" <=> input[d] = None
          /\ pc'[d] \in {"idle", "trying"} => request[d] = None
          /\ pc'[d] \in {"fetching", "fetched"} => request[d] # None
          /\ pc'[d] = "fetched" <=> fetched'[d] # None
    BY <1>1, <2>2 DEF Inductive, TypeOK, RowsFitCalls, Ended
  <2>5. \A d \in Call : fetched'[d] # None => fetched'[d] = fetched[d]
    BY <2>2 DEF Inductive, TypeOK
  <2> QED
    BY <1>2, <1>3, <1>4, <2>1, <2>3, <2>4, <2>5
    DEF Inductive, RowsFitCalls
<1> QED
  BY <1>6, <1>7 DEF Inductive

LEMMA ClockStep ==
  ASSUME Inductive, Tick
  PROVE  Inductive'
<1> USE DEF Tick, Inductive, store, local, provider
<1>1. now \in Nat /\ now' \in Time /\ now' = now + 1
  BY NumberAssumption DEF TypeOK, Time
<1>2. TypeOK'
  BY <1>1 DEF TypeOK
<1>3. /\ \A c \in Call : request[c] # None => request[c].at \in Nat
      /\ \A c \in Call : result[c] # None => result[c].finishedAt \in Nat
      /\ \A c \in Call : fetched[c] # None => fetched[c].at \in Nat
  BY NumberAssumption
  DEF TypeOK, RequestRows, ResultRows, Fetched, Time
<1>4. RowsFitCalls'
  BY <1>1, <1>3 DEF RowsFitCalls
<1> QED
  BY <1>2, <1>4

LEMMA ProviderStep ==
  ASSUME Inductive, ProviderResets \/ \E c \in Call : ProviderServes(c)
  PROVE  Inductive'
<1> USE DEF Inductive, store, local
<1>1. CASE ProviderResets
  BY <1>1 DEF ProviderResets, TypeOK, RowsFitCalls
<1>2. ASSUME NEW c \in Call, ProviderServes(c) PROVE Inductive'
  <2>1. PICK cost \in 0..input[c].expected :
          /\ billed' = billed + cost
          /\ reply' = [reply EXCEPT ![c] = [used |-> billed', cost |-> cost]]
    BY <1>2 DEF ProviderServes
  <2>2. request[c] # None /\ input[c] \in Request
    BY <1>2, InputAssumption
    DEF ProviderServes, MayBeBilled, Admitted, TypeOK, RowsFitCalls
  <2>3. /\ billed' \in Nat /\ cost <= input[c].expected
        /\ [used |-> billed', cost |-> cost] \in Reply
    BY <2>1, <2>2, NumberAssumption DEF Reply, Request, TypeOK
  <2>4. TypeOK'
    BY <1>2, <2>1, <2>3 DEF ProviderServes, TypeOK
  <2>5. RowsFitCalls'
    BY <1>2, <2>1, <2>2, <2>3 DEF ProviderServes, TypeOK, RowsFitCalls
  <2> QED
    BY <2>4, <2>5
<1> QED
  BY <1>1, <1>2

LEMMA StepInductive == Inductive /\ [Next]_vars => Inductive'
<1> SUFFICES ASSUME Inductive, [Next]_vars PROVE Inductive'
  OBVIOUS
<1>1. ASSUME NEW c \in Call, Admission(c) PROVE Inductive'
  <2>1. CASE CacheHit(c)
    BY <2>1, EndStep DEF CacheHit, Ended
  <2>2. CASE DenyCacheOnly(c)
    BY <2>2, EndStep DEF DenyCacheOnly, Ended
  <2>3. CASE GiveUpWaiting(c)
    BY <2>3, EndStep DEF GiveUpWaiting, Ended
  <2>4. CASE Decide(c)
    BY <2>4, DecideStep
  <2> QED
    BY <1>1, <2>1, <2>2, <2>3, <2>4 DEF Admission
<1>2. ASSUME NEW c \in Call, Crash(c) PROVE Inductive'
  BY <1>2, EndStep DEF Crash, Ended
<1>3. CASE UNCHANGED vars
  BY <1>3 DEF vars, store, local, provider, Inductive, TypeOK, RowsFitCalls
<1> QED
  BY <1>1, <1>2, <1>3, BeginStep, ReceiveStep, FetchEndsStep, CompleteStep,
     ClockStep, ProviderStep DEF Next

(* Every reachable state has the declared types and coherent rows.         *)
THEOREM TypeCorrect == Spec => [](TypeOK /\ RowsFitCalls)
<1>1. Spec => []Inductive
  BY InitInductive, StepInductive, PTL DEF Spec
<1> QED
  BY <1>1, PTL DEF Inductive

-----------------------------------------------------------------------------
(***************************************************************************)
(* Safety of SmartOdds for every value of its constants: leases and late   *)
(* answers, the cache, and the monthly limit.  Each invariant is preserved *)
(* together with Inductive, the types and the fit of rows and calls.       *)
(***************************************************************************)

(* What a settlement writes: the holder's row, only where none exists, with *)
(* the estimate that was reserved as its charge.                            *)
LEMMA AbandonEffect ==
  ASSUME Inductive, NEW k \in Key
  PROVE  \A d \in Call :
           \/ Abandon(k)[d] = result[d] /\ ~(lease[k] # None /\ lease[k].holder = d
                                             /\ result[d] = None)
           \/ /\ lease[k] # None /\ lease[k].holder = d /\ result[d] = None
              /\ Abandon(k)[d] # None
              /\ Abandon(k)[d].charged = input[d].expected
              /\ Abandon(k)[d].finishedAt = now
<1>1. CASE lease[k] = None
  BY <1>1 DEF Abandon
<1>2. CASE lease[k] # None
  <2> DEFINE h == lease[k].holder
             row == [charged |-> input[h].expected, measured |-> None,
                     finishedAt |-> now]
  <2>1. h \in Call /\ request[h] # None
    BY <1>2 DEF Inductive, TypeOK, RowsFitCalls, LeaseRows
  <2>2. input[h] \in Request
    BY <2>1, InputAssumption DEF Inductive, TypeOK, RowsFitCalls
  <2>3. row # None
    BY <2>2, NoneAssumption DEF ResultRows, Request, Inductive, TypeOK, Time
  <2>4. Abandon(k) = [result EXCEPT ![h] = IF @ = None THEN row ELSE @]
    BY <1>2 DEF Abandon, InsertResult
  <2> QED
    BY <1>2, <2>1, <2>3, <2>4 DEF Inductive, TypeOK
<1> QED
  BY <1>1, <1>2

(* What a completion writes: the call's row, only where none exists.        *)
LEMMA CompleteEffect ==
  ASSUME Inductive, NEW c \in Call, Complete(c)
  PROVE  /\ request[c] # None
         /\ result'[c] # None
         /\ result[c] # None => result'[c] = result[c]
         /\ result[c] = None => result'[c].charged <= input[c].expected
         /\ \A d \in Call \ {c} : result'[d] = result[d]
         /\ UNCHANGED <<now, input, request>>
<1>1. pc[c] = "fetched"
  BY DEF Complete
<1>2. result' = [result EXCEPT ![c] = IF @ = None THEN ResultRow(c) ELSE @]
  BY DEF Complete, InsertResult
<1> QED
  BY <1>1, <1>2, ResultRowType
  DEF Complete, End, provider, Inductive, TypeOK, RowsFitCalls

(* The steps that leave requests and their results alone.                   *)
LEMMA StoreKept ==
  ASSUME Inductive, [Next]_vars,
         ~(\E c \in Call : Decide(c) \/ Complete(c))
  PROVE  /\ UNCHANGED <<request, result, lease, cache>>
         /\ \A c \in Call : request[c] # None => input'[c] = input[c]
<1>1. ASSUME NEW c \in Call, Begin(c)
      PROVE  /\ UNCHANGED <<request, result, lease, cache>>
             /\ \A d \in Call : request[d] # None => input'[d] = input[d]
  <2>1. request[c] = None
    BY <1>1 DEF Begin, Inductive, RowsFitCalls
  <2> QED
    BY <1>1, <2>1 DEF Begin, store, Inductive, TypeOK
<1>2. ASSUME NEW c \in Call,
             \/ Admission(c) \/ Receive(c) \/ TransportFails(c)
             \/ FetchTimeout(c) \/ Crash(c) \/ ProviderServes(c)
      PROVE  UNCHANGED <<request, result, lease, cache, input>>
  BY <1>2 DEF Admission, CacheHit, DenyCacheOnly, GiveUpWaiting, End, Receive,
     TransportFails, FetchTimeout, Keep, Crash, ProviderServes, store, local
<1>3. CASE Tick \/ ProviderResets \/ UNCHANGED vars
  BY <1>3 DEF Tick, ProviderResets, vars, store, local
<1> QED
  BY <1>1, <1>2, <1>3 DEF Next

----------------------------------------------------------------------------
(* Leases and results. *)

LEMMA LeaseInit == Init => UnresolvedHoldsLease
BY DEF Init, UnresolvedHoldsLease, Admitted

LEMMA LeaseStep ==
  ASSUME Inductive, Inductive', UnresolvedHoldsLease, [Next]_vars
  PROVE  UnresolvedHoldsLease'
<1>1. ASSUME NEW c \in Call, Decide(c) PROVE UnresolvedHoldsLease'
  <2> DEFINE k == input[c].key
  <2>1. k \in Key /\ request[c] = None /\ UNCHANGED input
    BY <1>1, InputAssumption
    DEF Decide, End, Inductive, TypeOK, RowsFitCalls, Request
  <2>2. result' = Abandon(k)
    BY <1>1 DEF Decide
  <2>3. CASE UNCHANGED <<request, lease>>
    BY <2>1, <2>2, <2>3, AbandonEffect DEF UnresolvedHoldsLease, Admitted
  <2>4. CASE /\ request' = [request EXCEPT ![c] =
                              [month |-> Month(now), at |-> now]]
             /\ lease' = [lease EXCEPT ![k] =
                            [holder |-> c, expires |-> now + LeaseMs]]
    <3> SUFFICES ASSUME NEW d \in Call, request'[d] # None, result'[d] = None
                 PROVE  lease'[input[d].key] # None
                        /\ lease'[input[d].key].holder = d
      BY <2>1 DEF UnresolvedHoldsLease, Admitted
    <3>1. lease'[k] # None /\ lease'[k].holder = c
      <4>1. lease'[k] = [holder |-> c, expires |-> now + LeaseMs]
        BY <2>1, <2>4 DEF Inductive, TypeOK
      <4>2. now + LeaseMs \in Nat
        BY NumberAssumption DEF Inductive, TypeOK, Time
      <4> QED
        BY <4>1, <4>2, NoneAssumption DEF LeaseRows
    <3>2. CASE d = c
      BY <3>1, <3>2
    <3>3. CASE d # c
      <4>1. request[d] # None
        BY <2>4, <3>3 DEF Inductive, TypeOK
      <4>2. result[d] = None /\ ~(lease[k] # None /\ lease[k].holder = d)
        BY <2>1, <2>2, AbandonEffect
      <4>3. lease[input[d].key] # None /\ lease[input[d].key].holder = d
        BY <4>1, <4>2 DEF UnresolvedHoldsLease, Admitted
      <4>4. input[d].key # k
        BY <4>2, <4>3
      <4> QED
        BY <2>1, <2>4, <4>3, <4>4 DEF Inductive, TypeOK
    <3> QED
      BY <3>2, <3>3
  <2> QED
    BY <1>1, <2>3, <2>4 DEF Decide
<1>2. ASSUME NEW c \in Call, Complete(c) PROVE UnresolvedHoldsLease'
  <2> SUFFICES ASSUME NEW d \in Call, request'[d] # None, result'[d] = None
               PROVE  lease'[input'[d].key] # None
                      /\ lease'[input'[d].key].holder = d
    BY DEF UnresolvedHoldsLease, Admitted
  <2>1. d # c /\ request[d] # None /\ result[d] = None /\ input' = input
    BY <1>2, CompleteEffect
  <2>2. lease[input[d].key] # None /\ lease[input[d].key].holder = d
    BY <2>1 DEF UnresolvedHoldsLease, Admitted
  <2>3. lease' = lease \/ (lease[input[c].key].holder = c
                           /\ lease' = [lease EXCEPT ![input[c].key] = None])
    BY <1>2 DEF Complete
  <2>4. input[d].key \in Key
    BY <2>1, InputAssumption DEF Inductive, TypeOK, RowsFitCalls, Request
  <2> QED
    BY <2>1, <2>2, <2>3, <2>4 DEF Inductive, TypeOK
<1>3. CASE ~(\E c \in Call : Decide(c) \/ Complete(c))
  BY <1>3, StoreKept DEF UnresolvedHoldsLease, Admitted
<1> QED
  BY <1>1, <1>2, <1>3

(* The lease row of a key belongs to the only request of that key whose    *)
(* credits are still reserved, in every reachable state.                   *)
THEOREM LeaseSafety == Spec => []UnresolvedHoldsLease
<1>1. Init => Inductive /\ UnresolvedHoldsLease
  BY InitInductive, LeaseInit
<1>2. (Inductive /\ UnresolvedHoldsLease) /\ [Next]_vars
        => (Inductive /\ UnresolvedHoldsLease)'
  BY StepInductive, LeaseStep
<1> QED
  BY <1>1, <1>2, PTL DEF Spec

(* No step rewrites or removes a recorded result.                          *)
THEOREM ResultsFinal == Spec => ResultsAreFinal
<1>1. Inductive /\ [Next]_vars
        => [\A c \in Call : result[c] # None => result'[c] = result[c]]_vars
  <2> SUFFICES ASSUME Inductive, [Next]_vars, NEW d \in Call, result[d] # None
               PROVE  result'[d] = result[d]
    OBVIOUS
  <2>1. ASSUME NEW c \in Call, Decide(c) PROVE result'[d] = result[d]
    <3>1. input[c].key \in Key /\ result' = Abandon(input[c].key)
      BY <2>1, InputAssumption
      DEF Decide, Inductive, TypeOK, RowsFitCalls, Request
    <3> QED
      BY <3>1, AbandonEffect
  <2>2. ASSUME NEW c \in Call, Complete(c) PROVE result'[d] = result[d]
    BY <2>2, CompleteEffect
  <2> QED
    BY <2>1, <2>2, StoreKept
<1> QED
  BY <1>1, InitInductive, StepInductive, PTL DEF Spec, ResultsAreFinal

----------------------------------------------------------------------------
(* The cache: its row is not younger than the admission of the call that   *)
(* holds the lease of the key, nor is an answer older than its admission.  *)

CacheBeforeHolder ==
  /\ \A k \in Key : cache[k] # None =>
       /\ cache[k] <= now
       /\ lease[k] # None => cache[k] <= request[lease[k].holder].at
  /\ \A c \in Call : fetched[c] # None => request[c].at <= fetched[c].at

LEMMA CacheInit == Init => CacheBeforeHolder
BY DEF Init, CacheBeforeHolder

(* The completion of a call that owns the lease is what writes the cache. *)
LEMMA CacheWrite ==
  ASSUME Inductive, CacheBeforeHolder, NEW c \in Call, Complete(c)
  PROVE  LET k == input[c].key
         IN  /\ k \in Key
             /\ \A j \in Key \ {k} : cache'[j] = cache[j] /\ lease'[j] = lease[j]
             /\ \/ cache'[k] = cache[k] /\ (lease'[k] = lease[k] \/ lease'[k] = None)
                \/ /\ cache'[k] = fetched[c].at /\ cache'[k] # None
                   /\ fetched[c].at <= now
                   /\ cache[k] # None => cache[k] <= fetched[c].at
                   /\ lease'[k] = None
<1> DEFINE k == input[c].key
<1>1. /\ k \in Key /\ fetched[c] \in Fetched /\ request[c] \in RequestRows
      /\ fetched[c].at <= now /\ request[c].at <= fetched[c].at
  BY InputAssumption
  DEF Complete, Inductive, TypeOK, RowsFitCalls, Request, CacheBeforeHolder
<1>2. /\ cache' = cache \/ (cache' = [cache EXCEPT ![k] = fetched[c].at] /\ Owns(c))
      /\ \/ lease' = lease /\ (lease[k] = None \/ lease[k].holder # c)
         \/ lease' = [lease EXCEPT ![k] = None]
  BY DEF Complete
<1>3. fetched[c].at \in Nat /\ request[c].at \in Nat /\ fetched[c].at # None
  BY <1>1, NumberAssumption, NoneAssumption DEF Fetched, RequestRows, Time
<1>4. CASE cache' = cache
  BY <1>1, <1>2, <1>4 DEF Inductive, TypeOK
<1>5. CASE cache' = [cache EXCEPT ![k] = fetched[c].at] /\ Owns(c)
  <2>1. lease[k] # None /\ lease[k].holder = c
    BY <1>5 DEF Owns
  <2>2. cache[k] # None => cache[k] <= request[c].at /\ cache[k] \in Nat
    BY <1>1, <2>1, NumberAssumption
    DEF CacheBeforeHolder, Inductive, TypeOK, Time
  <2>3. cache[k] # None => cache[k] <= fetched[c].at
    BY <1>1, <1>3, <2>2
  <2> QED
    BY <1>1, <1>2, <1>3, <1>5, <2>1, <2>3 DEF Inductive, TypeOK
<1> QED
  BY <1>2, <1>4, <1>5

LEMMA CacheStep ==
  ASSUME Inductive, Inductive', CacheBeforeHolder, [Next]_vars
  PROVE  CacheBeforeHolder'
<1>1. now \in Nat /\ (\A k \in Key : cache[k] # None => cache[k] \in Nat)
  BY NumberAssumption DEF Inductive, TypeOK, Time
<1>2. ASSUME NEW c \in Call, Decide(c) PROVE CacheBeforeHolder'
  <2> DEFINE k == input[c].key
  <2>1. /\ k \in Key /\ request[c] = None /\ fetched[c] = None
        /\ UNCHANGED <<now, cache, fetched>>
    BY <1>2, InputAssumption
    DEF Decide, End, Inductive, TypeOK, RowsFitCalls, Request
  <2>2. CASE UNCHANGED <<request, lease>>
    BY <2>1, <2>2 DEF CacheBeforeHolder
  <2>3. CASE /\ request' = [request EXCEPT ![c] =
                              [month |-> Month(now), at |-> now]]
             /\ lease' = [lease EXCEPT ![k] =
                            [holder |-> c, expires |-> now + LeaseMs]]
    <3>1. request'[c].at = now /\ (\A d \in Call \ {c} : request'[d] = request[d])
      BY <2>3 DEF Inductive, TypeOK
    <3>2. lease'[k].holder = c /\ (\A j \in Key \ {k} : lease'[j] = lease[j])
      BY <2>1, <2>3 DEF Inductive, TypeOK
    <3>3. ASSUME NEW j \in Key, cache[j] # None, lease'[j] # None
          PROVE  cache[j] <= request'[lease'[j].holder].at
      <4>1. CASE j = k
        BY <3>1, <3>2, <3>3, <4>1 DEF CacheBeforeHolder
      <4>2. CASE j # k
        <5>1. lease'[j] = lease[j] /\ lease[j].holder \in Call
              /\ lease[j].holder # c
          BY <2>1, <3>2, <3>3, <4>2
          DEF Inductive, TypeOK, RowsFitCalls, LeaseRows
        <5> QED
          BY <3>1, <3>3, <5>1 DEF CacheBeforeHolder
      <4> QED
        BY <4>1, <4>2
    <3> QED
      BY <2>1, <3>1, <3>3 DEF CacheBeforeHolder
  <2> QED
    BY <1>2, <2>2, <2>3 DEF Decide
<1>3. ASSUME NEW c \in Call, Complete(c) PROVE CacheBeforeHolder'
  <2>1. UNCHANGED <<now, request>>
        /\ \A d \in Call : fetched'[d] # None => fetched'[d] = fetched[d]
    BY <1>3 DEF Complete, End, Inductive, TypeOK
  <2> QED
    BY <1>3, <2>1, CacheWrite DEF CacheBeforeHolder
<1>4. ASSUME NEW c \in Call, Receive(c) \/ TransportFails(c) \/ FetchTimeout(c)
      PROVE  CacheBeforeHolder'
  <2>1. \E ok, used, remaining, cost : Keep(c, ok, used, remaining, cost)
    BY <1>4 DEF Receive, TransportFails, FetchTimeout
  <2>2. pc[c] = "fetching"
    BY <1>4 DEF Receive, TransportFails, FetchTimeout
  <2>3. /\ UNCHANGED <<now, request, cache, lease>>
        /\ fetched'[c].at = now
        /\ \A d \in Call \ {c} : fetched'[d] = fetched[d]
    BY <2>1 DEF Keep, store, Inductive, TypeOK
  <2>4. request[c].at <= now
    BY <2>2 DEF Inductive, RowsFitCalls
  <2> QED
    BY <2>3, <2>4 DEF CacheBeforeHolder
<1>5. CASE Tick
  BY <1>1, <1>5 DEF Tick, store, local, CacheBeforeHolder
<1>6. ASSUME NEW c \in Call,
             Begin(c) \/ (Admission(c) /\ ~Decide(c)) \/ Crash(c) \/ ProviderServes(c)
      PROVE  CacheBeforeHolder'
  <2>1. /\ UNCHANGED <<now, request, cache, lease>>
        /\ \A d \in Call : fetched'[d] # None => fetched'[d] = fetched[d]
    BY <1>6 DEF Begin, Admission, CacheHit, DenyCacheOnly, GiveUpWaiting, Crash,
       End, ProviderServes, store, local, Inductive, TypeOK
  <2> QED
    BY <2>1 DEF CacheBeforeHolder
<1>7. CASE ProviderResets \/ UNCHANGED vars
  BY <1>7 DEF ProviderResets, vars, store, local, CacheBeforeHolder
<1> QED
  BY <1>2, <1>3, <1>4, <1>5, <1>6, <1>7 DEF Next

(* A cached response is only ever replaced by one fetched later.           *)
THEOREM CacheMonotone == Spec => CacheNeverGoesBack
<1>1. Inductive /\ CacheBeforeHolder /\ [Next]_vars
        => [\A k \in Key : cache[k] # None =>
              cache'[k] # None /\ cache'[k] >= cache[k]]_vars
  <2> SUFFICES ASSUME Inductive, CacheBeforeHolder, [Next]_vars,
                      NEW k \in Key, cache[k] # None
               PROVE  cache'[k] # None /\ cache'[k] >= cache[k]
    OBVIOUS
  <2>1. cache[k] \in Nat
    BY NumberAssumption DEF Inductive, TypeOK, Time
  <2>2. ASSUME NEW c \in Call, Decide(c) PROVE cache' = cache
    BY <2>2 DEF Decide
  <2>3. ASSUME NEW c \in Call, Complete(c)
        PROVE  cache'[k] # None /\ cache'[k] >= cache[k]
    <3>1. fetched[c].at \in Nat
      BY <2>3, NumberAssumption
      DEF Complete, Inductive, TypeOK, RowsFitCalls, Fetched, Time
    <3> QED
      BY <2>1, <2>3, <3>1, CacheWrite
  <2> QED
    BY <2>1, <2>2, <2>3, StoreKept
<1>2. Init => Inductive /\ CacheBeforeHolder
  BY InitInductive, CacheInit
<1>3. (Inductive /\ CacheBeforeHolder) /\ [Next]_vars
        => (Inductive /\ CacheBeforeHolder)'
  BY StepInductive, CacheStep
<1> QED
  BY <1>1, <1>2, <1>3, PTL DEF Spec, CacheNeverGoesBack

-----------------------------------------------------------------------------
(***************************************************************************)
(* The monthly limit and the reserve of SmartOdds, proved for every value  *)
(* of its constants.  A set of single credits stands for a sum, so that a  *)
(* step is followed by what it adds to the set.                            *)
(***************************************************************************)

Liable(m) == InMonth(m) \union CarriedOver(result, m)
Informational(m) == {c \in InMonth(m) : input[c].informational}

(* The credits a call may be charged at most. *)
Estimate(c) == {c} \X (1..input[c].expected)

(* The least of the at most three bounds on the credits available. *)
LEMMA LeastOf ==
  ASSUME NEW x \in Int, NEW Y, NEW Z,
         Y = {} \/ (\E y \in Int : Y = {y}), Z = {} \/ (\E z \in Int : Z = {z})
  PROVE  \E b \in {x} \union Y \union Z :
           \A a \in {x} \union Y \union Z : b <= a
<1>1. CASE Y = {} /\ Z = {}
  BY <1>1
<1>2. ASSUME NEW y \in Int, Y = {y}, Z = {} PROVE x <= y \/ y <= x
  OBVIOUS
<1>3. ASSUME NEW y \in Int, NEW z \in Int, Y = {y}, Z = {z}
      PROVE  \E b \in {x, y, z} : b <= x /\ b <= y /\ b <= z
  <2>1. CASE x <= y /\ x <= z
    BY <2>1
  <2>2. CASE y <= x /\ y <= z
    BY <2>2
  <2>3. CASE z <= x /\ z <= y
    BY <2>3
  <2> QED
    BY <2>1, <2>2, <2>3
<1>4. ASSUME NEW z \in Int, Z = {z}, Y = {} PROVE x <= z \/ z <= x
  OBVIOUS
<1> QED
  BY <1>1, <1>2, <1>3, <1>4

(* What is available is a number, and when positive within every bound. *)
LEMMA AvailableLeast ==
  ASSUME NEW res, NEW row \in BudgetRows, NEW m
  PROVE  /\ Available(res, row, m) \in Nat
         /\ Bounds(res, row, m) \in SUBSET Int
         /\ Available(res, row, m) > 0 =>
              \A b \in Bounds(res, row, m) : Available(res, row, m) <= b
<1> DEFINE due == Reserved(res, m) + Carryover(res, m)
           since == SinceHeader(res, row, m) + due
           plan == MonthlyLimit - Charged(res, m) - due
           Y == IF row.used = None THEN {} ELSE {MonthlyLimit - row.used - since}
           Z == IF row.remaining = None THEN {} ELSE {row.remaining - since}
           B == Bounds(res, row, m)
           least == CHOOSE b \in B : \A x \in B : b <= x
<1>1. due \in Nat /\ plan \in Int /\ since \in Int
  BY AmountsAreSums, NumberAssumption DEF SinceHeader, Larger, BudgetRows
<1>2. B = {plan} \union Y \union Z
  BY DEF Bounds
<1>3. /\ Y = {} \/ (\E y \in Int : Y = {y})
      /\ Z = {} \/ (\E z \in Int : Z = {z})
  BY <1>1, NumberAssumption DEF BudgetRows
<1> HIDE DEF since, plan, Y, Z, B
<1>4. \E b \in B : \A a \in B : b <= a
  BY <1>1, <1>2, <1>3, LeastOf
<1>5. least \in B /\ (\A a \in B : least <= a)
  BY <1>4
<1>6. B \in SUBSET Int /\ least \in Int
  BY <1>1, <1>2, <1>3, <1>5
<1>7. Available(res, row, m) = Larger(0, least)
  BY DEF Available, B
<1> HIDE DEF least
<1>8. /\ Available(res, row, m) \in Nat
      /\ Available(res, row, m) > 0 => Available(res, row, m) = least
  BY <1>6, <1>7 DEF Larger
<1> QED
  BY <1>5, <1>6, <1>8 DEF B

(* In particular within the local plan. *)
LEMMA AvailableType ==
  ASSUME NEW res, NEW row \in BudgetRows, NEW m
  PROVE  /\ Available(res, row, m) \in Nat
         /\ Available(res, row, m) > 0 =>
              Available(res, row, m)
                <= MonthlyLimit - Charged(res, m) - Reserved(res, m)
                     - Carryover(res, m)
<1> DEFINE plan == MonthlyLimit - Charged(res, m)
                     - (Reserved(res, m) + Carryover(res, m))
<1>1. plan \in Bounds(res, row, m)
  BY DEF Bounds
<1>2. plan = MonthlyLimit - Charged(res, m) - Reserved(res, m) - Carryover(res, m)
  BY AmountsAreSums, NumberAssumption
<1> QED
  BY <1>1, <1>2, AvailableLeast

(* The local plan counts exactly the credits a month is liable for.        *)
LEMMA PlanIsLiability ==
  ASSUME NEW res, NEW m \in Nat, Inductive
  PROVE  Charged(res, m) + Reserved(res, m) + Carryover(res, m)
           = Sum(res, InMonth(m) \union CarriedOver(res, m))
<1> DEFINE F == Finished(res, m)
           O == Outstanding(res, m)
           C == CarriedOver(res, m)
<1>1. F \in SUBSET Call /\ O \in SUBSET Call /\ C \in SUBSET Call
  BY DEF Finished, Outstanding, CarriedOver, InMonth, Admitted
<1>2. F \cap O = {} /\ InMonth(m) = F \union O
  BY DEF Finished, Outstanding
<1>3. InMonth(m) \cap C = {}
  BY DEF InMonth, CarriedOver, Inductive, TypeOK, RequestRows, Months
<1>4. Sum(res, InMonth(m)) = Sum(res, F) + Sum(res, O)
  BY <1>1, <1>2, SumUnion
<1>5. InMonth(m) \in SUBSET Call
  BY <1>1, <1>2
<1>6. Sum(res, InMonth(m) \union C) = Sum(res, InMonth(m)) + Sum(res, C)
  BY <1>1, <1>3, <1>5, SumUnion
<1> QED
  BY <1>1, <1>4, <1>6, SumType DEF Charged, Reserved, Carryover

LEMMA EstimateSize ==
  ASSUME NEW c \in Call, input[c] \in Request
  PROVE  Estimate(c) \in SUBSET Ledger
         /\ Cardinality(Estimate(c)) = input[c].expected
<1> DEFINE e == input[c].expected
<1>1. e \in Nat /\ e <= MaxCredits
  BY NumberAssumption DEF Request
<1>2. Estimate(c) \in SUBSET Ledger
  BY <1>1, NumberAssumption DEF Estimate, Ledger
<1> HIDE DEF e
<1>3. IsFiniteSet(1..e) /\ Cardinality(1..e) = e
  BY <1>1, FS_Interval
<1>4. IsFiniteSet({c}) /\ Cardinality({c}) = 1
  BY FS_Singleton
<1>5. Cardinality({c} \X (1..e)) = Cardinality({c}) * Cardinality(1..e)
  BY <1>3, <1>4, FS_Product
<1>6. Cardinality({c} \X (1..e)) = e
  BY <1>1, <1>3, <1>4, <1>5
<1> QED
  BY <1>2, <1>6 DEF Estimate, e

(* A set of credits to which at most an estimate is added. *)
LEMMA CreditsAdded ==
  ASSUME NEW c \in Call, input[c] \in Request,
         NEW A \in SUBSET Ledger, NEW B, B \subseteq A \union Estimate(c)
  PROVE  Cardinality(B) <= Cardinality(A) + input[c].expected
<1> DEFINE E == Estimate(c)
<1>1. E \in SUBSET Ledger /\ Cardinality(E) = input[c].expected
  BY EstimateSize
<1> HIDE DEF E
<1>2. /\ IsFiniteSet(A) /\ Cardinality(A) \in Nat
      /\ IsFiniteSet(E) /\ Cardinality(E) \in Nat
      /\ Cardinality(A \cap E) \in Nat
  <2>1. A \cap E \in SUBSET Ledger
    OBVIOUS
  <2> QED
    BY <1>1, <2>1, CreditSets
<1>3. Cardinality(A \union E)
        = Cardinality(A) + Cardinality(E) - Cardinality(A \cap E)
  BY <1>2, FS_Union
<1>4. A \union E \in SUBSET Ledger /\ B \in SUBSET (A \union E)
  BY <1>1 DEF E
<1>5. Cardinality(B) <= Cardinality(A \union E)
  BY <1>4, CreditSubset
<1>6. Cardinality(B) \in Nat /\ Cardinality(A \union E) \in Nat
  <2>1. B \in SUBSET Ledger
    BY <1>4
  <2> QED
    BY <1>4, <2>1, CreditSets
<1>7. Cardinality(B) <= Cardinality(A) + Cardinality(E)
  BY <1>2, <1>3, <1>5, <1>6
<1> QED
  BY <1>1, <1>7

(* Settling an abandoned request moves its credits, and loses none.        *)
LEMMA SettlementKeepsCredits ==
  ASSUME Inductive, NEW k \in Key
  PROVE  /\ \A S \in SUBSET Admitted :
              Credits(Abandon(k), S) = Credits(result, S)
         /\ CarriedOver(Abandon(k), Month(now)) = CarriedOver(result, Month(now))
<1>1. \A d \in Call : Amount(Abandon(k), d) = Amount(result, d)
  BY AbandonEffect DEF Amount
<1>2. \A S \in SUBSET Admitted : Credits(Abandon(k), S) = Credits(result, S)
  BY <1>1 DEF Credits, Admitted
<1>3. now \in Nat /\ now >= Month(now) * MonthMs
  <2>1. now \in Nat
    BY NumberAssumption DEF Inductive, TypeOK, Time
  <2>2. Month(now) * MonthMs <= now /\ Month(now) \in Nat /\ MonthMs \in Nat
    BY <2>1, MonthBounds, NumberAssumption
  <2>3. Month(now) * MonthMs \in Nat
    BY <2>2
  <2> QED
    BY <2>1, <2>2, <2>3
<1>4. CarriedOver(Abandon(k), Month(now)) = CarriedOver(result, Month(now))
  BY <1>3, AbandonEffect DEF CarriedOver, Admitted
<1> QED
  BY <1>2, <1>4

(* What an admission knows: the credits of the month, those of the new     *)
(* request and the reserve it must leave fit the monthly limit.            *)
LEMMA AdmissionFits ==
  ASSUME Inductive, NEW c \in Call, pc[c] = "trying", input[c].expected > 0,
         Affordable(c, Abandon(input[c].key), BudgetRow(Month(now)))
  PROVE  Sum(result, Liable(Month(now))) + input[c].expected
           + (IF input[c].informational THEN ReserveCredits ELSE 0)
             <= MonthlyLimit
<1> DEFINE k == input[c].key
           m == Month(now)
           res == Abandon(k)
           row == BudgetRow(m)
           e == input[c].expected
           reserve == IF input[c].informational THEN ReserveCredits ELSE 0
<1>1. /\ k \in Key /\ m \in Months /\ m \in Nat /\ e \in Nat /\ reserve \in Nat
  BY MonthType, MonthBounds, InputAssumption, NumberAssumption
  DEF Inductive, TypeOK, RowsFitCalls, Request, Time
<1>2. row \in BudgetRows
  BY <1>1, BudgetRowType
<1>3. Available(res, row, m) - e >= reserve
  BY DEF Affordable
<1>4. Available(res, row, m) > 0
  <2>1. Available(res, row, m) \in Int
    BY <1>2, AvailableType
  <2> QED
    BY <1>1, <1>3, <2>1
<1>5. /\ Available(res, row, m) \in Nat
      /\ Available(res, row, m)
           <= MonthlyLimit - Charged(res, m) - Reserved(res, m)
                - Carryover(res, m)
  BY <1>2, <1>4, AvailableType
<1>6. Charged(res, m) + Reserved(res, m) + Carryover(res, m)
        = Sum(res, InMonth(m) \union CarriedOver(res, m))
  BY <1>1, PlanIsLiability
<1>7. Sum(res, InMonth(m) \union CarriedOver(res, m)) = Sum(result, Liable(m))
  <2>1. Liable(m) \in SUBSET Admitted
    BY DEF Liable, InMonth, CarriedOver
  <2> QED
    BY <1>1, <2>1, SettlementKeepsCredits DEF Sum, Liable
<1>8. /\ Charged(res, m) \in Nat /\ Reserved(res, m) \in Nat
      /\ Carryover(res, m) \in Nat
  BY AmountsAreSums
<1> HIDE DEF res, row, m, e, reserve
<1>9. Sum(result, Liable(m)) + e + reserve <= MonthlyLimit
  BY <1>1, <1>3, <1>5, <1>6, <1>7, <1>8, NumberAssumption
<1> QED
  BY <1>9 DEF m, e, reserve

----------------------------------------------------------------------------
(* The liability of the month follows every step. *)

MonthCredits == Credits(result, Liable(Month(now)))
InformationalCredits(m) == Credits(result, Informational(m))

(* An admission transaction changes one request at most, settles with the  *)
(* estimate, and admits only what fits.                                    *)
LEMMA DecideEffect ==
  ASSUME Inductive, NEW c \in Call, Decide(c)
  PROVE  /\ UNCHANGED <<now, input>>
         /\ request[c] = None /\ input[c] \in Request
         /\ \A d \in Call \ {c} : request'[d] = request[d]
         /\ \A d \in Call :
              /\ Amount(result', d) = Amount(result, d)
              /\ result[d] = None =>
                   result'[d] = None \/ result'[d].finishedAt = now
              /\ result[d] # None => result'[d] = result[d]
         /\ \/ request'[c] = None
            \/ /\ request'[c] = [month |-> Month(now), at |-> now]
               /\ request'[c] # None
               /\ result'[c] = None
               /\ input[c].expected > 0 =>
                    Sum(result, Liable(Month(now))) + input[c].expected
                      + (IF input[c].informational THEN ReserveCredits ELSE 0)
                        <= MonthlyLimit
<1> DEFINE k == input[c].key
<1>1. /\ pc[c] = "trying" /\ request[c] = None /\ input[c] \in Request
      /\ k \in Key /\ UNCHANGED <<now, input>> /\ result' = Abandon(k)
  BY InputAssumption
  DEF Decide, End, Inductive, TypeOK, RowsFitCalls, Request
<1>2. \A d \in Call :
        /\ Amount(result', d) = Amount(result, d)
        /\ result[d] = None => result'[d] = None \/ result'[d].finishedAt = now
        /\ result[d] # None => result'[d] = result[d]
  BY <1>1, AbandonEffect DEF Amount
<1>3. CASE request' = request
  BY <1>1, <1>2, <1>3
<1>4. CASE /\ Affordable(c, Abandon(k), BudgetRow(Month(now)))
           /\ request' = [request EXCEPT ![c] = [month |-> Month(now), at |-> now]]
  <2>1. [month |-> Month(now), at |-> now] \in RequestRows
    BY MonthType DEF RequestRows, Inductive, TypeOK
  <2>2. /\ request'[c] = [month |-> Month(now), at |-> now]
        /\ request'[c] # None
        /\ \A d \in Call \ {c} : request'[d] = request[d]
    BY <1>4, <2>1, NoneAssumption DEF Inductive, TypeOK
  <2>3. result'[c] = None
    BY <1>1, AbandonType, AbandonEffect DEF Inductive, RowsFitCalls
  <2> QED
    BY <1>1, <1>2, <1>4, <2>2, <2>3, AdmissionFits
<1> QED
  BY <1>1, <1>3, <1>4 DEF Decide

(* A request of the month or carried over into it was so before the step.  *)
LEMMA DecideKeepsLiable ==
  ASSUME Inductive, NEW c \in Call, Decide(c), NEW d \in Call,
         d \in Liable(Month(now))'
  PROVE  d \in Liable(Month(now)) \/ (d = c /\ request'[c] # None)
<1>1. request'[d] # None
  BY DEF Liable, InMonth, CarriedOver, Admitted
<1>2. CASE d = c
  BY <1>1, <1>2
<1>3. CASE d # c
  <2>1. /\ request'[d] = request[d] /\ now' = now
        /\ result[d] # None => result'[d] = result[d]
    BY <1>3, DecideEffect
  <2>2. \/ request[d].month = Month(now)
        \/ /\ request[d].month < Month(now)
           /\ result'[d] = None \/ result'[d].finishedAt >= Month(now) * MonthMs
    BY <2>1 DEF Liable, InMonth, CarriedOver
  <2>3. d \in Admitted
    BY <1>1, <2>1 DEF Admitted
  <2>4. CASE request[d].month = Month(now)
    BY <2>3, <2>4 DEF Liable, InMonth
  <2>5. CASE result[d] = None /\ request[d].month < Month(now)
    BY <2>3, <2>5 DEF Liable, CarriedOver
  <2>6. CASE result[d] # None /\ request[d].month < Month(now)
             /\ request[d].month # Month(now)
    BY <2>1, <2>2, <2>3, <2>6 DEF Liable, CarriedOver
  <2> QED
    BY <2>2, <2>4, <2>5, <2>6
<1> QED
  BY <1>2, <1>3

LEMMA LiabilityStep ==
  ASSUME Inductive, Inductive', LiabilityWithinLimit, [Next]_vars
  PROVE  LiabilityWithinLimit'
<1>1. /\ MonthCredits \in SUBSET Ledger /\ Cardinality(MonthCredits) \in Nat
      /\ Cardinality(MonthCredits) = Sum(result, Liable(Month(now)))
      /\ Cardinality(MonthCredits) <= MonthlyLimit
  <2>1. Liable(Month(now)) \in SUBSET Call
    BY DEF Liable, InMonth, CarriedOver, Admitted
  <2> QED
    BY <2>1, SumType DEF MonthCredits, Sum, LiabilityWithinLimit, Liable
<1>2. Cardinality(MonthCredits') <= MonthlyLimit => LiabilityWithinLimit'
  BY DEF MonthCredits, Sum, LiabilityWithinLimit, Liable
<1>3. ASSUME MonthCredits' \subseteq MonthCredits
      PROVE  LiabilityWithinLimit'
  <2>1. MonthCredits' \in SUBSET Ledger
    BY <1>1, <1>3
  <2>2. Cardinality(MonthCredits') <= Cardinality(MonthCredits)
    BY <1>1, <1>3, CreditSubset
  <2>3. Cardinality(MonthCredits') \in Nat
    BY <2>1, CreditSets
  <2> QED
    BY <1>1, <1>2, <2>2, <2>3, NumberAssumption
<1>4. ASSUME NEW c \in Call, Decide(c) PROVE LiabilityWithinLimit'
  <2>1. MonthCredits' \subseteq MonthCredits
          \union (IF request'[c] = None THEN {} ELSE Estimate(c))
    <3> SUFFICES ASSUME NEW u \in MonthCredits'
                 PROVE  \/ u \in MonthCredits
                        \/ request'[c] # None /\ u \in Estimate(c)
      OBVIOUS
    <3>1. PICK d \in Call, n \in 1..MaxCredits :
            /\ u = <<d, n>> /\ d \in Liable(Month(now))'
            /\ n <= Amount(result, d)'
      BY DEF MonthCredits, Credits, Liable, InMonth, CarriedOver, Admitted
    <3>2. Amount(result, d)' = Amount(result, d)
      BY <1>4, DecideEffect DEF Amount
    <3>3. CASE d \in Liable(Month(now))
      BY <3>1, <3>2, <3>3 DEF MonthCredits, Credits
    <3>4. CASE d = c /\ request'[c] # None
      <4>1. Amount(result, c) = input[c].expected
        BY <1>4, <3>4, DecideEffect DEF Amount
      <4> QED
        BY <3>1, <3>2, <3>4, <4>1 DEF Estimate
    <3> QED
      BY <1>4, <3>1, <3>3, <3>4, DecideKeepsLiable
  <2>2. CASE request'[c] = None
    BY <1>3, <2>1, <2>2
  <2>3. CASE request'[c] # None
    <3>1. /\ input[c] \in Request
          /\ input[c].expected > 0 =>
               Sum(result, Liable(Month(now))) + input[c].expected
                 + (IF input[c].informational THEN ReserveCredits ELSE 0)
                   <= MonthlyLimit
      BY <1>4, <2>3, DecideEffect
    <3>2. Cardinality(MonthCredits')
            <= Cardinality(MonthCredits) + input[c].expected
      BY <1>1, <2>1, <2>3, <3>1, CreditsAdded
    <3>3. Cardinality(MonthCredits') \in Nat
      <4>1. MonthCredits' \in SUBSET Ledger
        BY <1>1, <2>1, <2>3, <3>1, EstimateSize
      <4> QED
        BY <4>1, CreditSets
    <3>4. input[c].expected \in Nat
      BY <3>1, NumberAssumption DEF Request
    <3>5. Cardinality(MonthCredits') <= MonthlyLimit
      BY <1>1, <3>1, <3>2, <3>3, <3>4, NumberAssumption
    <3> QED
      BY <1>2, <3>5
  <2> QED
    BY <2>2, <2>3
<1>5. ASSUME NEW c \in Call, Complete(c) PROVE LiabilityWithinLimit'
  <2>1. /\ UNCHANGED <<now, input, request>>
        /\ result'[c] # None
        /\ result[c] # None => result'[c] = result[c]
        /\ result[c] = None => result'[c].charged <= input[c].expected
        /\ \A d \in Call \ {c} : result'[d] = result[d]
    BY <1>5, CompleteEffect
  <2>2. result'[c].charged \in Nat /\ request[c] # None
    BY <1>5, <2>1, CompleteEffect, NumberAssumption
    DEF Inductive, TypeOK, ResultRows
  <2>3. input[c].expected \in Nat
    BY <2>2, InputAssumption, NumberAssumption
    DEF Inductive, TypeOK, RowsFitCalls, Request
  <2>4. \A d \in Liable(Month(now))' : d \in Liable(Month(now))
    BY <2>1 DEF Liable, InMonth, CarriedOver, Admitted
  <2>5. \A d \in Call, n \in 1..MaxCredits :
          n <= Amount(result, d)' => n <= Amount(result, d)
    BY <2>1, <2>2, <2>3, NumberAssumption DEF Amount
  <2>6. MonthCredits' \subseteq MonthCredits
    <3> SUFFICES ASSUME NEW u \in MonthCredits' PROVE u \in MonthCredits
      OBVIOUS
    <3>1. PICK d \in Call, n \in 1..MaxCredits :
            /\ u = <<d, n>> /\ d \in Liable(Month(now))'
            /\ n <= Amount(result, d)'
      BY DEF MonthCredits, Credits, Liable, InMonth, CarriedOver, Admitted
    <3> QED
      BY <2>4, <2>5, <3>1 DEF MonthCredits, Credits
  <2> QED
    BY <1>3, <2>6
<1>6. CASE Tick
  <2>1. /\ now \in Nat /\ now' = now + 1 /\ UNCHANGED <<input, request, result>>
    BY <1>6, NumberAssumption
    DEF Tick, store, local, Inductive, TypeOK, Time
  <2>2. Month(now) \in Nat /\ Month(now') \in Nat /\ Month(now) <= Month(now')
        /\ Month(now') * MonthMs <= now' /\ now < (Month(now) + 1) * MonthMs
    BY <2>1, MonthBounds, MonthMonotone
  <2>3. ASSUME NEW d \in Liable(Month(now))' PROVE d \in Liable(Month(now))
    <3>1. /\ d \in Call /\ request[d] # None
          /\ request[d].at \in Nat /\ request[d].at <= now
          /\ request[d].month = Month(request[d].at) /\ request[d].month \in Nat
          /\ result[d] # None => result[d].finishedAt \in Nat
                                 /\ result[d].finishedAt <= now
      BY <2>1, <2>3, MonthBounds, NumberAssumption
      DEF Liable, InMonth, CarriedOver, Admitted, Inductive, TypeOK,
          RowsFitCalls, RequestRows, ResultRows, Time
    <3>2. request[d].month <= Month(now)
      BY <2>1, <3>1, MonthMonotone
    <3>3. CASE Month(now') = Month(now)
      BY <2>1, <2>3, <3>3 DEF Liable, InMonth, CarriedOver, Admitted
    <3>4. CASE Month(now') > Month(now)
      <4>1. Month(now') * MonthMs >= (Month(now) + 1) * MonthMs
        BY <2>2, <3>4, NumberAssumption
      <4>2. result[d] # None => ~(result[d].finishedAt >= Month(now') * MonthMs)
        BY <2>1, <2>2, <3>1, <4>1, NumberAssumption
      <4>3. result[d] = None
        BY <2>1, <2>2, <2>3, <3>1, <3>2, <3>4, <4>2
        DEF Liable, InMonth, CarriedOver
      <4> QED
        BY <2>2, <3>1, <3>2, <4>3 DEF Liable, InMonth, CarriedOver, Admitted
    <3> QED
      BY <2>2, <3>3, <3>4
  <2> QED
    BY <1>3, <2>1, <2>3 DEF MonthCredits, Credits, Amount
<1>7. ASSUME ~(\E c \in Call : Decide(c) \/ Complete(c)), now' = now
      PROVE  LiabilityWithinLimit'
  <2>1. UNCHANGED <<request, result>>
        /\ \A d \in Call : request[d] # None => input'[d] = input[d]
    BY <1>7, StoreKept
  <2> QED
    BY <1>3, <1>7, <2>1
    DEF MonthCredits, Credits, Liable, InMonth, CarriedOver, Admitted, Amount
<1>8. now' = now \/ Tick
  BY DEF Next, Begin, Admission, CacheHit, DenyCacheOnly, GiveUpWaiting, Decide,
     Receive, TransportFails, FetchTimeout, Keep, Crash, Complete, ProviderServes,
     ProviderResets, vars
<1> QED
  BY <1>4, <1>5, <1>6, <1>7, <1>8

(* The credits spent, reserved or carried over never exceed the monthly    *)
(* limit, whatever interleaves, crashes or crosses a month boundary.       *)
THEOREM LimitHolds == Spec => []LiabilityWithinLimit
<1>1. Init => LiabilityWithinLimit
  <2> SUFFICES ASSUME Init PROVE LiabilityWithinLimit
    OBVIOUS
  <2>1. Credits(result, Liable(Month(now))) = {}
    BY DEF Init, Credits, Liable, InMonth, CarriedOver, Admitted
  <2>2. Cardinality(Credits(result, Liable(Month(now)))) = 0
    BY <2>1, FS_EmptySet
  <2> QED
    BY <2>2, NumberAssumption DEF LiabilityWithinLimit, Liable, Sum
<1>2. (Inductive /\ LiabilityWithinLimit) /\ [Next]_vars
        => (Inductive /\ LiabilityWithinLimit)'
  BY StepInductive, LiabilityStep
<1> QED
  BY <1>1, <1>2, InitInductive, PTL DEF Spec

----------------------------------------------------------------------------
(* The reserve kept from informational requests. *)

LEMMA ReserveStep ==
  ASSUME Inductive, Inductive', InformationalLeavesReserve, [Next]_vars
  PROVE  InformationalLeavesReserve'
<1> DEFINE Rest == Larger(0, MonthlyLimit - ReserveCredits)
<1>1. Rest \in Nat /\ Rest >= MonthlyLimit - ReserveCredits
  BY NumberAssumption DEF Larger
<1> HIDE DEF Rest
<1> SUFFICES ASSUME NEW m \in Months
             PROVE  Cardinality(InformationalCredits(m)') <= Rest
  BY DEF InformationalLeavesReserve, InformationalCredits, Informational, Sum, Rest
<1>2. /\ InformationalCredits(m) \in SUBSET Ledger
      /\ Cardinality(InformationalCredits(m)) \in Nat
      /\ Cardinality(InformationalCredits(m)) <= Rest
  <2>1. Informational(m) \in SUBSET Call
    BY DEF Informational, InMonth, Admitted
  <2> QED
    BY <2>1, SumType
    DEF InformationalCredits, Sum, InformationalLeavesReserve, Informational, Rest
<1>3. ASSUME InformationalCredits(m)' \subseteq InformationalCredits(m)
      PROVE  Cardinality(InformationalCredits(m)') <= Rest
  <2>1. InformationalCredits(m)' \in SUBSET Ledger
    BY <1>2, <1>3
  <2>2. Cardinality(InformationalCredits(m)') <= Cardinality(InformationalCredits(m))
    BY <1>2, <1>3, CreditSubset
  <2>3. Cardinality(InformationalCredits(m)') \in Nat
    BY <2>1, CreditSets
  <2> QED
    BY <1>1, <1>2, <2>2, <2>3
<1>4. ASSUME NEW u \in InformationalCredits(m)'
      PROVE  \E d \in Call, n \in 1..MaxCredits :
               /\ u = <<d, n>> /\ n <= Amount(result, d)'
               /\ request'[d] # None /\ request'[d].month = m
               /\ input'[d].informational
  BY <1>4 DEF InformationalCredits, Credits, Informational, InMonth, Admitted
<1>5. ASSUME NEW d \in Call, NEW n \in 1..MaxCredits, n <= Amount(result, d),
             request[d] # None, request[d].month = m, input[d].informational
      PROVE  <<d, n>> \in InformationalCredits(m)
  BY <1>5 DEF InformationalCredits, Credits, Informational, InMonth, Admitted
<1>6. ASSUME NEW c \in Call, Decide(c)
      PROVE  Cardinality(InformationalCredits(m)') <= Rest
  <2> DEFINE grows == /\ request'[c] # None /\ input[c].informational
                      /\ m = Month(now)
  <2>1. /\ input' = input /\ input[c] \in Request
        /\ \A d \in Call \ {c} : request'[d] = request[d]
        /\ \A d \in Call : Amount(result', d) = Amount(result, d)
        /\ request'[c] # None =>
             /\ request'[c].month = Month(now) /\ result'[c] = None
             /\ input[c].expected > 0 =>
                  Sum(result, Liable(Month(now))) + input[c].expected
                    + (IF input[c].informational THEN ReserveCredits ELSE 0)
                      <= MonthlyLimit
    BY <1>6, DecideEffect
  <2>2. \A d \in Call : Amount(result, d)' = Amount(result, d)
    BY <2>1 DEF Amount
  <2>3. request'[c] # None => Amount(result, c) = input[c].expected
    BY <2>1 DEF Amount
  <2>4. InformationalCredits(m)' \subseteq InformationalCredits(m)
          \union (IF grows THEN Estimate(c) ELSE {})
    <3> SUFFICES ASSUME NEW u \in InformationalCredits(m)'
                 PROVE  \/ u \in InformationalCredits(m)
                        \/ grows /\ u \in Estimate(c)
      OBVIOUS
    <3>1. PICK d \in Call, n \in 1..MaxCredits :
            /\ u = <<d, n>> /\ n <= Amount(result, d)'
            /\ request'[d] # None /\ request'[d].month = m
            /\ input'[d].informational
      BY <1>4
    <3>2. CASE d = c
      <4>1. grows
        BY <2>1, <3>1, <3>2
      <4>2. n <= input[c].expected
        BY <2>2, <2>3, <3>1, <3>2
      <4> QED
        BY <3>1, <3>2, <4>1, <4>2 DEF Estimate
    <3>3. CASE d # c
      BY <1>5, <2>1, <2>2, <3>1, <3>3
    <3> QED
      BY <3>2, <3>3
  <2>5. CASE ~grows
    BY <1>3, <2>4, <2>5
  <2>6. CASE grows
    <3>1. Cardinality(InformationalCredits(m)')
            <= Cardinality(InformationalCredits(m)) + input[c].expected
      BY <1>2, <2>1, <2>4, <2>6, CreditsAdded
    <3>2. Cardinality(InformationalCredits(m)') \in Nat
      <4>1. InformationalCredits(m)' \in SUBSET Ledger
        BY <1>2, <2>1, <2>4, <2>6, EstimateSize
      <4> QED
        BY <4>1, CreditSets
    <3>3. Cardinality(InformationalCredits(m)) <= Sum(result, Liable(m))
          /\ Sum(result, Liable(m)) \in Nat
      <4>1. /\ Informational(m) \in SUBSET Liable(m)
            /\ Liable(m) \in SUBSET Call
        BY DEF Informational, Liable, InMonth, CarriedOver, Admitted
      <4> QED
        BY <4>1, SumMonotone, SumType DEF InformationalCredits, Sum
    <3>4. input[c].expected \in Nat
      BY <2>1, NumberAssumption DEF Request
    <3>5. CASE input[c].expected = 0
      BY <1>1, <1>2, <3>1, <3>2, <3>5
    <3>6. CASE input[c].expected > 0
      <4>1. Sum(result, Liable(m)) + input[c].expected + ReserveCredits
              <= MonthlyLimit
        BY <2>1, <2>6, <3>6
      <4> QED
        BY <1>1, <1>2, <3>1, <3>2, <3>3, <3>4, <4>1, NumberAssumption
    <3> QED
      BY <3>4, <3>5, <3>6
  <2> QED
    BY <2>5, <2>6
<1>7. ASSUME NEW c \in Call, Complete(c)
      PROVE  Cardinality(InformationalCredits(m)') <= Rest
  <2>1. /\ UNCHANGED <<input, request>> /\ request[c] # None
        /\ result'[c] # None
        /\ result[c] # None => result'[c] = result[c]
        /\ result[c] = None => result'[c].charged <= input[c].expected
        /\ \A d \in Call \ {c} : result'[d] = result[d]
    BY <1>7, CompleteEffect
  <2>2. result'[c].charged \in Nat /\ input[c].expected \in Nat
    BY <2>1, InputAssumption, NumberAssumption
    DEF Inductive, TypeOK, RowsFitCalls, Request, ResultRows
  <2>3. \A d \in Call, n \in 1..MaxCredits :
          n <= Amount(result, d)' => n <= Amount(result, d)
    BY <2>1, <2>2, NumberAssumption DEF Amount
  <2>4. InformationalCredits(m)' \subseteq InformationalCredits(m)
    BY <1>4, <1>5, <2>1, <2>3
  <2> QED
    BY <1>3, <2>4
<1>8. CASE ~(\E c \in Call : Decide(c) \/ Complete(c))
  <2>1. UNCHANGED <<request, result>>
        /\ \A d \in Call : request[d] # None => input'[d] = input[d]
    BY <1>8, StoreKept
  <2>2. \A d \in Call : request[d] # None =>
          Amount(result, d)' = Amount(result, d)
    BY <2>1 DEF Amount
  <2>3. InformationalCredits(m)' \subseteq InformationalCredits(m)
    BY <1>4, <1>5, <2>1, <2>2
  <2> QED
    BY <1>3, <2>3
<1> QED
  BY <1>6, <1>7, <1>8

(* Informational requests never use the credits reserved for the others.   *)
THEOREM ReserveHolds == Spec => []InformationalLeavesReserve
<1>1. Init => InformationalLeavesReserve
  <2> SUFFICES ASSUME Init, NEW m \in Months
               PROVE  Cardinality(InformationalCredits(m))
                        <= Larger(0, MonthlyLimit - ReserveCredits)
    BY DEF InformationalLeavesReserve, InformationalCredits, Informational, Sum
  <2>1. InformationalCredits(m) = {}
    BY DEF Init, InformationalCredits, Credits, Informational, InMonth, Admitted
  <2>2. Cardinality(InformationalCredits(m)) = 0
    BY <2>1, FS_EmptySet
  <2> QED
    BY <2>2, NumberAssumption DEF Larger
<1>2. (Inductive /\ InformationalLeavesReserve) /\ [Next]_vars
        => (Inductive /\ InformationalLeavesReserve)'
  BY StepInductive, ReserveStep
<1> QED
  BY <1>1, <1>2, InitInductive, PTL DEF Spec

-----------------------------------------------------------------------------
(***************************************************************************)
(* The books of the store against what the provider billed.                *)
(*                                                                         *)
(* Neither the store nor the state of the model remembers in which order   *)
(* the provider served the requests.  The invariant says that some order   *)
(* explains the state: a position for every served request, such that the  *)
(* use a header reported falls short of the use of today by no more than   *)
(* the cost of the requests served later, and that a request measured      *)
(* before another was admitted was served before it.                       *)
(***************************************************************************)

(* Sums of a function that is the same in two states. *)
Fees == [Call -> 0..MaxCredits]
Fee(f, S) == {u \in S \X (1..MaxCredits) : u[2] <= f[u[1]]}
Total(f, S) == Cardinality(Fee(f, S))

LEMMA TotalType ==
  ASSUME NEW f, NEW S \in SUBSET Call
  PROVE  Fee(f, S) \in SUBSET Ledger /\ Total(f, S) \in Nat
<1>1. Fee(f, S) \in SUBSET Ledger
  BY DEF Fee, Ledger
<1> QED
  BY <1>1, CreditSets DEF Total

LEMMA TotalMonotone ==
  ASSUME NEW f \in Fees, NEW g \in Fees, NEW T \in SUBSET Call,
         NEW S \in SUBSET T, \A c \in S : f[c] <= g[c]
  PROVE  Total(f, S) <= Total(g, T)
<1>1. ASSUME NEW c \in S, NEW n \in 1..MaxCredits, n <= f[c] PROVE n <= g[c]
  <2>1. f[c] \in Nat /\ g[c] \in Nat
    BY NumberAssumption DEF Fees
  <2> QED
    BY <1>1, <2>1
<1>2. Fee(f, S) \in SUBSET Fee(g, T)
  BY <1>1 DEF Fee
<1> QED
  BY <1>2, TotalType, CreditSubset DEF Total

LEMMA TotalUnion ==
  ASSUME NEW f, NEW S \in SUBSET Call, NEW T \in SUBSET Call, S \cap T = {}
  PROVE  Total(f, S \union T) = Total(f, S) + Total(f, T)
<1> DEFINE A == Fee(f, S)
           B == Fee(f, T)
<1>1. Fee(f, S \union T) = A \union B
  BY DEF Fee
<1>2. A \cap B = {}
  BY DEF Fee
<1>3. /\ IsFiniteSet(A) /\ Cardinality(A) \in Nat
      /\ IsFiniteSet(B) /\ Cardinality(B) \in Nat
  BY TotalType, CreditSets
<1> HIDE DEF A, B
<1>4. Cardinality(A \union B)
        = Cardinality(A) + Cardinality(B) - Cardinality(A \cap B)
  BY <1>3, FS_Union
<1>5. Cardinality(A \cap B) = 0
  BY <1>2, FS_EmptySet
<1>6. Cardinality(A \union B) = Cardinality(A) + Cardinality(B)
  BY <1>3, <1>4, <1>5
<1> QED
  BY <1>1, <1>6 DEF Total, A, B

LEMMA TotalOne ==
  ASSUME NEW f \in Fees, NEW c \in Call
  PROVE  Total(f, {c}) = f[c] /\ f[c] \in Nat
<1> DEFINE e == f[c]
<1>1. e \in Nat /\ e <= MaxCredits
  BY NumberAssumption DEF Fees
<1>2. Fee(f, {c}) = {c} \X (1..e)
  BY <1>1, NumberAssumption DEF Fee
<1> HIDE DEF e
<1>3. IsFiniteSet(1..e) /\ Cardinality(1..e) = e
  BY <1>1, FS_Interval
<1>4. IsFiniteSet({c}) /\ Cardinality({c}) = 1
  BY FS_Singleton
<1>5. Cardinality({c} \X (1..e)) = Cardinality({c}) * Cardinality(1..e)
  BY <1>3, <1>4, FS_Product
<1>6. Cardinality({c} \X (1..e)) = e
  BY <1>1, <1>3, <1>4, <1>5
<1>7. Total(f, {c}) = e
  BY <1>2, <1>6 DEF Total
<1> QED
  BY <1>1, <1>7 DEF e

(* What each admitted request counts for in the books, and what each served *)
(* one cost.                                                                *)
Amounts == [c \in Call |-> IF request[c] = None THEN 0 ELSE Amount(result, c)]
Costs == [c \in Call |-> IF reply[c] = None THEN 0 ELSE reply[c].cost]

LEMMA AmountsType ==
  ASSUME Inductive
  PROVE  /\ Amounts \in Fees /\ Costs \in Fees
         /\ \A c \in Call : request[c] # None =>
              /\ input[c] \in Request /\ input[c].expected \in Nat
              /\ Amounts[c] <= input[c].expected
<1>1. ASSUME NEW c \in Call, request[c] # None
      PROVE  /\ input[c] \in Request
             /\ input[c].expected \in 0..MaxCredits
             /\ Amount(result, c) \in 0..MaxCredits
             /\ Amount(result, c) <= input[c].expected
  <2>1. input[c] \in Request /\ input[c].expected \in 0..MaxCredits
    BY <1>1, InputAssumption DEF Inductive, TypeOK, RowsFitCalls, Request
  <2> QED
    BY <1>1, <2>1, NumberAssumption
    DEF Amount, Inductive, TypeOK, RowsFitCalls, ResultRows
<1>2. Amounts \in Fees
  BY <1>1, NumberAssumption DEF Amounts, Fees
<1>3. Costs \in Fees
  BY NumberAssumption DEF Costs, Fees, Inductive, TypeOK, Reply
<1> QED
  BY <1>1, <1>2, <1>3, NumberAssumption DEF Amounts

LEMMA TotalIsSum ==
  ASSUME NEW S \in SUBSET Admitted
  PROVE  Sum(result, S) = Total(Amounts, S)
<1>1. Credits(result, S) = Fee(Amounts, S)
  BY DEF Credits, Fee, Amounts, Admitted
<1> QED
  BY <1>1 DEF Sum, Total

----------------------------------------------------------------------------
(* The steps, sorted by what they do to the store and to the fetches. *)

Quiet ==
  /\ UNCHANGED <<now, store, provider>>
  /\ \A d \in Call : /\ fetched'[d] # None => fetched'[d] = fetched[d]
                     /\ request[d] # None => input'[d] = input[d]

(* A header repeats what the provider answered. *)
Repeats(f, r) ==
  /\ f.used # None => r # None /\ f.used = r.used
  /\ f.remaining # None =>
       r # None /\ f.remaining = Larger(0, MonthlyLimit - r.used)
  /\ f.cost # None => r # None /\ f.cost = r.cost

FetchEnds(c) ==
  /\ UNCHANGED <<now, store, input, provider>>
  /\ request[c] # None
  /\ \A d \in Call \ {c} : fetched'[d] = fetched[d]
  /\ fetched'[c] # None /\ fetched'[c].at = now
  /\ Repeats(fetched'[c], reply[c])

LEMMA StepKinds ==
  ASSUME Inductive, [Next]_vars
  PROVE  \/ Quiet \/ Tick \/ ProviderResets
         \/ \E c \in Call : \/ FetchEnds(c) \/ Decide(c)
                            \/ Complete(c) \/ ProviderServes(c)
<1>1. ASSUME NEW c \in Call, Begin(c) PROVE Quiet
  <2>1. request[c] = None
    BY <1>1 DEF Begin, Inductive, RowsFitCalls
  <2> QED
    BY <1>1, <2>1 DEF Begin, Quiet, Inductive, TypeOK
<1>2. ASSUME NEW c \in Call,
             CacheHit(c) \/ DenyCacheOnly(c) \/ GiveUpWaiting(c) \/ Crash(c)
      PROVE  Quiet
  BY <1>2 DEF CacheHit, DenyCacheOnly, GiveUpWaiting, Crash, End, Quiet,
     Inductive, TypeOK
<1>3. ASSUME NEW c \in Call, pc[c] = "fetching", NEW ok, NEW used, NEW remaining,
             NEW cost, Keep(c, ok, used, remaining, cost),
             Repeats([ok |-> ok, used |-> used, remaining |-> remaining,
                      cost |-> cost, at |-> now], reply[c])
      PROVE  FetchEnds(c)
  <2> DEFINE f == [ok |-> ok, used |-> used, remaining |-> remaining,
                   cost |-> cost, at |-> now]
  <2>1. fetched' = [fetched EXCEPT ![c] = f] /\ pc' = [pc EXCEPT ![c] = "fetched"]
    BY <1>3 DEF Keep
  <2>2. fetched'[c] = f /\ \A d \in Call \ {c} : fetched'[d] = fetched[d]
    BY <2>1 DEF Inductive, TypeOK
  <2>3. Inductive' /\ pc'[c] = "fetched"
    BY <2>1, StepInductive DEF Inductive, TypeOK
  <2>4. fetched'[c] # None
    BY <2>3 DEF Inductive, RowsFitCalls
  <2> QED
    BY <1>3, <2>2, <2>4 DEF Keep, FetchEnds, Inductive, RowsFitCalls
<1>4. ASSUME NEW c \in Call, Receive(c) PROVE FetchEnds(c)
  <2>1. PICK ok \in BOOLEAN, headers \in HeaderSets :
          Keep(c, ok,
               IF "used" \in headers THEN reply[c].used ELSE None,
               IF "remaining" \in headers
               THEN Larger(0, MonthlyLimit - reply[c].used) ELSE None,
               IF "last" \in headers THEN reply[c].cost ELSE None)
    BY <1>4 DEF Receive
  <2> QED
    BY <1>3, <1>4, <2>1 DEF Receive, Repeats
<1>5. ASSUME NEW c \in Call, TransportFails(c) \/ FetchTimeout(c)
      PROVE  FetchEnds(c)
  BY <1>3, <1>5 DEF TransportFails, FetchTimeout, Repeats
<1>6. CASE UNCHANGED vars
  BY <1>6 DEF vars, store, local, Quiet
<1> QED
  BY <1>1, <1>2, <1>4, <1>5, <1>6 DEF Next, Admission

(* The row a settlement writes is unmeasured. *)
LEMMA AbandonRow ==
  ASSUME Inductive, NEW k \in Key, NEW d \in Call, Abandon(k)[d] # result[d]
  PROVE  /\ result[d] = None /\ request[d] # None
         /\ Abandon(k)[d].measured = None
         /\ Abandon(k)[d].charged = input[d].expected
         /\ Abandon(k)[d].finishedAt = now
<1>1. lease[k] # None
  BY DEF Abandon
<1> DEFINE h == lease[k].holder
           row == [charged |-> input[h].expected, measured |-> None,
                   finishedAt |-> now]
<1>2. h \in Call /\ request[h] # None
  BY <1>1 DEF Inductive, TypeOK, RowsFitCalls, LeaseRows
<1>3. Abandon(k) = [result EXCEPT ![h] = IF @ = None THEN row ELSE @]
  BY <1>1 DEF Abandon, InsertResult
<1> QED
  BY <1>2, <1>3 DEF Inductive, TypeOK

(* What an admission transaction changes. *)
LEMMA DecideDetail ==
  ASSUME Inductive, NEW c \in Call, Decide(c)
  PROVE  /\ UNCHANGED <<now, input, fetched, billed, reply>>
         /\ request[c] = None /\ result[c] = None /\ result'[c] = None
         /\ reply[c] = None /\ input[c] \in Request
         /\ \A d \in Call \ {c} : request'[d] = request[d]
         /\ \A d \in Call : result'[d] # result[d] =>
              /\ result[d] = None /\ request[d] # None
              /\ result'[d] # None
              /\ result'[d].measured = None
              /\ result'[d].charged = input[d].expected
              /\ result'[d].finishedAt = now
         /\ budget' = [budget EXCEPT ![Month(now)] = BudgetRow(Month(now))]
         /\ \/ request' = request
            \/ /\ request'[c] = [month |-> Month(now), at |-> now]
               /\ request'[c] # None
               /\ Affordable(c, Abandon(input[c].key), BudgetRow(Month(now)))
<1> DEFINE k == input[c].key
<1>1. /\ request[c] = None /\ fetched[c] = None /\ input[c] \in Request
      /\ k \in Key /\ result' = Abandon(k) /\ result[c] = None /\ reply[c] = None
  BY InputAssumption DEF Decide, Inductive, TypeOK, RowsFitCalls, Request
<1>2. UNCHANGED <<now, input, fetched, billed, reply>>
  BY <1>1 DEF Decide, End, provider, Inductive, TypeOK
<1>3. \A d \in Call : result'[d] # result[d] =>
        /\ result[d] = None /\ request[d] # None
        /\ result'[d] # None
        /\ result'[d].measured = None
        /\ result'[d].charged = input[d].expected
        /\ result'[d].finishedAt = now
  BY <1>1, AbandonRow
<1>4. \/ request' = request
      \/ /\ request' = [request EXCEPT ![c] = [month |-> Month(now), at |-> now]]
         /\ Affordable(c, Abandon(k), BudgetRow(Month(now)))
  BY DEF Decide
<1>5. [month |-> Month(now), at |-> now] \in RequestRows
  BY MonthType DEF RequestRows, Inductive, TypeOK
<1>6. budget' = [budget EXCEPT ![Month(now)] = BudgetRow(Month(now))]
  BY DEF Decide
<1> QED
  BY <1>1, <1>2, <1>3, <1>4, <1>5, <1>6, NoneAssumption DEF Inductive, TypeOK

(* What a completion transaction changes. *)
LEMMA CompleteDetail ==
  ASSUME Inductive, NEW c \in Call, Complete(c)
  PROVE  /\ UNCHANGED <<now, input, request, billed, reply>>
         /\ request[c] \in RequestRows /\ request[c] # None
         /\ fetched[c] \in Fetched /\ fetched[c] # None
         /\ fetched'[c] = None
         /\ \A d \in Call \ {c} : fetched'[d] = fetched[d] /\ result'[d] = result[d]
         /\ result'[c] # None
         /\ result'[c] = IF result[c] = None THEN ResultRow(c) ELSE result[c]
         /\ budget' = IF /\ request[c].month = Month(now)
                         /\ Stricter(c, budget[request[c].month])
                      THEN [budget EXCEPT ![request[c].month] =
                              HeaderUpdate(c, result', @)]
                      ELSE budget
<1>1. /\ pc[c] = "fetched" /\ request[c] \in RequestRows /\ request[c] # None
      /\ fetched[c] \in Fetched /\ fetched[c] # None
  BY DEF Complete, Inductive, TypeOK, RowsFitCalls
<1>2. /\ UNCHANGED <<now, input, request, billed, reply>>
      /\ fetched' = [fetched EXCEPT ![c] = None]
  BY DEF Complete, End, provider
<1>3. result' = [result EXCEPT ![c] = IF @ = None THEN ResultRow(c) ELSE @]
  BY DEF Complete, InsertResult
<1>4. /\ result'[c] = (IF result[c] = None THEN ResultRow(c) ELSE result[c])
      /\ \A d \in Call \ {c} : result'[d] = result[d]
  BY <1>3 DEF Inductive, TypeOK
<1>5. result'[c] # None
  BY <1>1, <1>4, ResultRowType
<1>6. budget' = IF /\ request[c].month = Month(now)
                   /\ Stricter(c, budget[request[c].month])
                THEN [budget EXCEPT ![request[c].month] =
                        HeaderUpdate(c, result', @)]
                ELSE budget
  BY DEF Complete
<1> QED
  BY <1>1, <1>2, <1>4, <1>5, <1>6 DEF Inductive, TypeOK

(* What the service of a request changes. *)
LEMMA ServeDetail ==
  ASSUME Inductive, NEW c \in Call, ProviderServes(c)
  PROVE  /\ UNCHANGED <<now, store, input, fetched>>
         /\ c \in MayBeBilled /\ request[c] # None /\ reply[c] = None
         /\ reply'[c] # None
         /\ reply'[c].used = billed' /\ reply'[c].cost \in Nat
         /\ reply'[c].cost <= input[c].expected
         /\ billed' = billed + reply'[c].cost
         /\ \A d \in Call \ {c} : reply'[d] = reply[d]
<1>1. PICK cost \in 0..input[c].expected :
        /\ billed' = billed + cost
        /\ reply' = [reply EXCEPT ![c] = [used |-> billed', cost |-> cost]]
  BY DEF ProviderServes
<1>2. /\ UNCHANGED <<now, store, input, fetched>> /\ c \in MayBeBilled
      /\ request[c] # None /\ reply[c] = None
  BY DEF ProviderServes, local, MayBeBilled, Admitted
<1>3. input[c].expected \in Nat /\ input[c].expected <= MaxCredits
  BY <1>2, InputAssumption, NumberAssumption
  DEF Inductive, TypeOK, RowsFitCalls, Request
<1>4. /\ reply'[c] = [used |-> billed', cost |-> cost]
      /\ \A d \in Call \ {c} : reply'[d] = reply[d]
  BY <1>1 DEF Inductive, TypeOK
<1>5. [used |-> billed', cost |-> cost] \in Reply
  BY <1>1, <1>3, NumberAssumption DEF Reply, Inductive, TypeOK
<1>6. reply'[c] # None
  BY <1>4, <1>5, NoneAssumption
<1> QED
  BY <1>1, <1>2, <1>3, <1>4, <1>6

----------------------------------------------------------------------------
(* Headers and measured results repeat the answers of the provider. *)

AnswersTrue ==
  \A c \in Call :
    /\ fetched[c] # None => Repeats(fetched[c], reply[c])
    /\ result[c] # None =>
         /\ result[c].measured = None => result[c].charged = input[c].expected
         /\ result[c].measured # None =>
              reply[c] # None /\ result[c].charged = reply[c].cost

LEMMA AnswersInit == Init => AnswersTrue
BY DEF Init, AnswersTrue

LEMMA AnswersStep ==
  ASSUME Inductive, AnswersTrue, [Next]_vars
  PROVE  AnswersTrue'
<1>1. CASE Quiet
  BY <1>1 DEF Quiet, store, provider, AnswersTrue, Repeats, Inductive, RowsFitCalls
<1>2. CASE Tick \/ ProviderResets
  BY <1>2 DEF Tick, ProviderResets, store, local, provider, AnswersTrue, Repeats
<1>3. ASSUME NEW c \in Call, FetchEnds(c) PROVE AnswersTrue'
  BY <1>3 DEF FetchEnds, store, provider, AnswersTrue, Repeats
<1>4. ASSUME NEW c \in Call, Decide(c) PROVE AnswersTrue'
  <2>1. /\ UNCHANGED <<input, fetched, reply>>
        /\ \A d \in Call : result'[d] # result[d] =>
             result'[d].measured = None /\ result'[d].charged = input[d].expected
    BY <1>4, DecideDetail
  <2> QED
    BY <2>1 DEF AnswersTrue, Repeats
<1>5. ASSUME NEW c \in Call, Complete(c) PROVE AnswersTrue'
  <2>1. /\ UNCHANGED <<input, reply>> /\ fetched[c] # None /\ fetched'[c] = None
        /\ \A d \in Call \ {c} : fetched'[d] = fetched[d] /\ result'[d] = result[d]
        /\ result'[c] = IF result[c] = None THEN ResultRow(c) ELSE result[c]
    BY <1>5, CompleteDetail
  <2> QED
    BY <2>1 DEF AnswersTrue, Repeats, ResultRow
<1>6. ASSUME NEW c \in Call, ProviderServes(c) PROVE AnswersTrue'
  <2>1. /\ UNCHANGED <<result, input, fetched>> /\ reply[c] = None
        /\ \A d \in Call \ {c} : reply'[d] = reply[d]
    BY <1>6, ServeDetail DEF store
  <2> QED
    BY <2>1 DEF AnswersTrue, Repeats
<1> QED
  BY <1>1, <1>2, <1>3, <1>4, <1>5, <1>6, StepKinds

(* No request counts for less than the provider billed, or may bill, for it. *)
LEMMA CostWithinAmount ==
  ASSUME Inductive, AnswersTrue, NEW c \in Call
  PROVE  /\ Costs[c] <= Amounts[c]
         /\ request[c] # None /\ reply[c] = None =>
              Amounts[c] = input[c].expected
<1>1. CASE request[c] = None
  BY <1>1 DEF Costs, Amounts, Inductive, RowsFitCalls
<1>2. CASE request[c] # None
  <2>1. input[c].expected \in Nat
    BY <1>2, AmountsType
  <2>2. reply[c] # None => reply[c].cost \in Nat /\ reply[c].cost <= input[c].expected
    BY NumberAssumption DEF Inductive, TypeOK, RowsFitCalls, Reply
  <2> QED
    BY <1>2, <2>1, <2>2 DEF Costs, Amounts, Amount, AnswersTrue
<1> QED
  BY <1>1, <1>2

----------------------------------------------------------------------------
(* The budget rows: none is of a month to come; one that waits for the     *)
(* provider's reset has spent nothing; one that is confirmed and shows no  *)
(* header is the first; an anchor comes with a header.                     *)

HasHeader(row) == row.used # None \/ row.remaining # None

RowsMinted ==
  \A m \in Months : budget[m] # None =>
    /\ m <= Month(now)
    /\ ~budget[m].confirmed \/ ~HasHeader(budget[m]) => budget[m].anchor = 0
    /\ ~budget[m].confirmed => \A c \in InMonth(m) : input[c].expected = 0
    /\ budget[m].confirmed /\ ~HasHeader(budget[m]) =>
         \A p \in Months : p < m => budget[p] = None

LEMMA RowsInit == Init => RowsMinted
BY DEF Init, RowsMinted

(* A new row carries a header only while it waits for the reset. *)
LEMMA BudgetRowMints ==
  ASSUME Inductive, RowsMinted, budget[Month(now)] = None
  PROVE  LET row == BudgetRow(Month(now))
         IN  /\ row.anchor = 0
             /\ InMonth(Month(now)) = {}
             /\ row.confirmed =>
                  /\ ~HasHeader(row)
                  /\ \A p \in Months : p < Month(now) => budget[p] = None
<1> DEFINE m == Month(now)
           earlier == {p \in Months : p < m /\ budget[p] # None}
<1>1. InMonth(m) = {}
  BY DEF InMonth, Admitted, Inductive, RowsFitCalls
<1>2. CASE earlier = {}
  <2>1. BudgetRow(m) = [used |-> None, remaining |-> None,
                        anchor |-> 0, confirmed |-> TRUE]
    BY <1>2 DEF BudgetRow
  <2> QED
    BY <1>1, <1>2, <2>1 DEF HasHeader
<1>3. CASE earlier # {}
  <2>1. BudgetRow(m).anchor = 0 /\ BudgetRow(m).confirmed = FALSE
    BY <1>3 DEF BudgetRow
  <2> QED
    BY <1>1, <2>1
<1> QED
  BY <1>2, <1>3

LEMMA RowsDecide ==
  ASSUME Inductive, RowsMinted, NEW c \in Call, Decide(c)
  PROVE  RowsMinted'
<1> DEFINE now_ == Month(now)
<1>1. /\ now' = now /\ input' = input /\ now_ \in Months /\ now_ \in Nat
      /\ budget' = [budget EXCEPT ![now_] = BudgetRow(now_)]
      /\ \A d \in Call \ {c} : request'[d] = request[d]
      /\ \/ request' = request
         \/ /\ request'[c].month = now_
            /\ input[c].expected > 0 => BudgetRow(now_).confirmed
  BY DecideDetail, MonthType, MonthBounds, NumberAssumption
  DEF Inductive, TypeOK, Affordable, Time
<1>2. input[c] \in Request /\ input[c].expected \in Nat
  BY DecideDetail, NumberAssumption DEF Request
<1>3. /\ \A m \in Months \ {now_} : budget'[m] = budget[m]
      /\ budget'[now_] = BudgetRow(now_)
  BY <1>1 DEF Inductive, TypeOK
<1>4. \A m \in Months : budget[m] # None /\ m # now_ => m < now_
  BY <1>1, MonthBounds, NumberAssumption DEF RowsMinted, Months, Inductive, TypeOK, Time
<1> SUFFICES ASSUME NEW m \in Months, budget'[m] # None
             PROVE  /\ m <= now_
                    /\ ~budget'[m].confirmed \/ ~HasHeader(budget'[m]) =>
                         budget'[m].anchor = 0
                    /\ ~budget'[m].confirmed =>
                         \A d \in InMonth(m)' : input[d].expected = 0
                    /\ budget'[m].confirmed /\ ~HasHeader(budget'[m]) =>
                         \A p \in Months : p < m => budget'[p] = None
  BY <1>1 DEF RowsMinted, HasHeader
<1>5. CASE m # now_
  <2>1. InMonth(m)' \subseteq InMonth(m)
    BY <1>1, <1>5 DEF InMonth, Admitted
  <2>2. \A p \in Months : p < m => p # now_
    BY <1>1, <1>3, <1>4, <1>5, MonthBounds, NumberAssumption DEF Months
  <2> QED
    BY <1>3, <1>5, <2>1, <2>2 DEF RowsMinted
<1>6. CASE m = now_
  <2> DEFINE row == BudgetRow(now_)
  <2>1. m <= now_
    BY <1>1, <1>6
  <2>2. \A d \in InMonth(m)' : d \in InMonth(m) \/ d = c
    BY <1>1 DEF InMonth, Admitted
  <2>3. ~row.confirmed => \A d \in InMonth(m)' : d = c /\ d \notin InMonth(m)
                                                 => input[d].expected = 0
    BY <1>1, <1>2 DEF InMonth, Admitted
  <2>4. CASE budget[now_] # None
    <3>1. row = budget[now_]
      BY <2>4 DEF BudgetRow
    <3> QED
      BY <1>1, <1>3, <1>6, <2>1, <2>2, <2>3, <2>4, <3>1 DEF RowsMinted
  <2>5. CASE budget[now_] = None
    <3>1. /\ row.anchor = 0 /\ InMonth(now_) = {}
          /\ row.confirmed => \A p \in Months : p < now_ => budget[p] = None
      BY <2>5, BudgetRowMints
    <3>2. \A p \in Months : p < now_ => p # now_
      BY <1>1
    <3> QED
      BY <1>3, <1>6, <2>1, <2>2, <2>3, <3>1, <3>2
  <2> QED
    BY <2>4, <2>5
<1> QED
  BY <1>5, <1>6

(* What recording a header does to the row of the month. *)
LEMMA HeaderUpdateEffect ==
  ASSUME Inductive, NEW c \in Call, pc[c] = "fetched", NEW res,
         NEW row \in BudgetRows, Stricter(c, row)
  PROVE  LET new == HeaderUpdate(c, res, row)
         IN  /\ HasHeader(new)
             /\ new.anchor = HeaderAnchor(c, res, row)
             /\ new.confirmed <=> (row.confirmed \/ ConfirmsReset(c, row))
             /\ fetched[c].used # None =>
                  /\ new.used # None
                  /\ new.used >= fetched[c].used
             /\ fetched[c].remaining # None =>
                  /\ new.remaining # None
                  /\ new.remaining <= fetched[c].remaining
             /\ ~ConfirmsReset(c, row) =>
                  /\ row.used # None => new.used # None /\ new.used >= row.used
                  /\ row.remaining # None =>
                       new.remaining # None /\ new.remaining <= row.remaining
             /\ fetched[c].used # None \/ fetched[c].remaining # None
<1>1. /\ fetched[c] \in Fetched
      /\ fetched[c].used \in Nat \union {None}
      /\ fetched[c].remaining \in Nat \union {None}
      /\ row.used \in Nat \union {None} /\ row.remaining \in Nat \union {None}
  BY DEF Inductive, TypeOK, RowsFitCalls, Fetched, BudgetRows
<1>2. fetched[c].used # None \/ fetched[c].remaining # None
  BY DEF Stricter, ConfirmsReset
<1> DEFINE new == HeaderUpdate(c, res, row)
<1>3. CASE ConfirmsReset(c, row)
  <2>1. /\ new.used = fetched[c].used /\ new.remaining = fetched[c].remaining
        /\ new.anchor = HeaderAnchor(c, res, row) /\ new.confirmed <=> TRUE
    BY <1>3 DEF HeaderUpdate
  <2> QED
    BY <1>1, <1>2, <1>3, <2>1 DEF HasHeader
<1>4. CASE ~ConfirmsReset(c, row)
  <2>1. /\ new.used = IF fetched[c].used = None THEN row.used
                      ELSE IF row.used = None THEN fetched[c].used
                      ELSE Larger(row.used, fetched[c].used)
        /\ new.remaining = IF fetched[c].remaining = None THEN row.remaining
                           ELSE IF row.remaining = None THEN fetched[c].remaining
                           ELSE Smaller(row.remaining, fetched[c].remaining)
        /\ new.anchor = HeaderAnchor(c, res, row)
        /\ new.confirmed <=> row.confirmed
    BY <1>4 DEF HeaderUpdate, BudgetRows
  <2>2. /\ fetched[c].used # None =>
             new.used # None /\ new.used >= fetched[c].used
        /\ row.used # None => new.used # None /\ new.used >= row.used
    BY <1>1, <2>1, NoneAssumption DEF Larger
  <2>3. /\ fetched[c].remaining # None =>
             new.remaining # None /\ new.remaining <= fetched[c].remaining
        /\ row.remaining # None =>
             new.remaining # None /\ new.remaining <= row.remaining
    BY <1>1, <2>1, NoneAssumption DEF Smaller
  <2> QED
    BY <1>2, <1>4, <2>1, <2>2, <2>3 DEF HasHeader
<1> QED
  BY <1>3, <1>4

LEMMA RowsComplete ==
  ASSUME Inductive, Inductive', RowsMinted, NEW c \in Call, Complete(c)
  PROVE  RowsMinted'
<1> DEFINE m == request[c].month
           row == budget[m]
<1>0. /\ UNCHANGED <<now, input, request>> /\ pc[c] = "fetched"
      /\ request[c] \in RequestRows /\ request[c] # None
      /\ budget' = IF m = Month(now) /\ Stricter(c, row)
                   THEN [budget EXCEPT ![m] = HeaderUpdate(c, result', @)]
                   ELSE budget
  BY CompleteDetail DEF Complete
<1>1. m \in Months /\ row \in BudgetRows
  BY <1>0 DEF RequestRows, Inductive, TypeOK, RowsFitCalls
<1>2. \A p \in Months : InMonth(p)' = InMonth(p)
  BY <1>0, <1>1 DEF InMonth, Admitted
<1>3. CASE budget' = budget
  BY <1>0, <1>1, <1>2, <1>3 DEF RowsMinted
<1>4. CASE /\ m = Month(now) /\ Stricter(c, row)
           /\ budget' = [budget EXCEPT ![m] = HeaderUpdate(c, result', row)]
  <2> DEFINE new == HeaderUpdate(c, result', row)
  <2>1. /\ HasHeader(new) /\ new.anchor = HeaderAnchor(c, result', row)
        /\ ~new.confirmed => ~row.confirmed
    BY <1>0, <1>1, <1>4, HeaderUpdateEffect
  <2>2. /\ budget'[m] = new /\ row # None
        /\ \A p \in Months \ {m} : budget'[p] = budget[p]
    BY <1>0, <1>1, <1>4, NoneAssumption DEF Inductive, TypeOK
  <2>3. ASSUME ~row.confirmed PROVE new.anchor = 0
    <3>1. /\ row.anchor = 0
          /\ \A d \in InMonth(m) : input[d].expected = 0
      BY <1>0, <1>1, <2>2, <2>3 DEF RowsMinted
    <3>2. ASSUME NEW d \in Finished(result', m), NEW n \in 1..MaxCredits
          PROVE  ~(n <= Amount(result', d))
      <4>1. /\ d \in Call /\ result'[d] # None /\ input[d].expected = 0
            /\ result'[d].charged \in Nat
            /\ result'[d].charged <= input[d].expected
        BY <1>0, <1>1, <3>1, <3>2, NumberAssumption
        DEF Finished, InMonth, Admitted, Inductive, TypeOK, RowsFitCalls, ResultRows
      <4> QED
        BY <4>1 DEF Amount
    <3>3. Credits(result', Finished(result', m)) = {}
      BY <3>2 DEF Credits
    <3>4. Charged(result', m) = 0
      BY <3>3, FS_EmptySet DEF Charged, Sum
    <3>5. UnknownCharged(result', m) = 0
      BY <3>4, AmountsAreSums
    <3>6. Sum(result', Included(result', c)) \in Nat
      <4>1. Included(result', c) \in SUBSET Call
        BY DEF Included, Finished, InMonth, Admitted
      <4> QED
        BY <4>1, SumType
    <3> QED
      BY <2>1, <3>1, <3>4, <3>5, <3>6 DEF HeaderAnchor, Smaller, Larger
  <2> SUFFICES ASSUME NEW p \in Months, budget'[p] # None
               PROVE  /\ p <= Month(now)
                      /\ ~budget'[p].confirmed \/ ~HasHeader(budget'[p]) =>
                           budget'[p].anchor = 0
                      /\ ~budget'[p].confirmed =>
                           \A d \in InMonth(p) : input[d].expected = 0
                      /\ budget'[p].confirmed /\ ~HasHeader(budget'[p]) =>
                           \A q \in Months : q < p => budget'[q] = None
    BY <1>0, <1>1, <1>2 DEF RowsMinted, HasHeader
  <2>4. CASE p = m
    BY <2>1, <2>2, <2>3, <2>4 DEF RowsMinted
  <2>5. CASE p # m
    <3>1. ASSUME budget[p].confirmed, ~HasHeader(budget[p])
          PROVE  \A q \in Months : q < p => budget'[q] = None
      BY <2>2, <2>5, <3>1 DEF RowsMinted
    <3> QED
      BY <2>2, <2>5, <3>1 DEF RowsMinted
  <2> QED
    BY <2>4, <2>5
<1> QED
  BY <1>0, <1>3, <1>4

LEMMA RowsStep ==
  ASSUME Inductive, Inductive', RowsMinted, [Next]_vars
  PROVE  RowsMinted'
<1>1. CASE Quiet
  <2>1. \A m \in Months : InMonth(m)' = InMonth(m)
    BY <1>1 DEF Quiet, store, InMonth, Admitted
  <2>2. \A m \in Months : \A c \in InMonth(m) : input'[c] = input[c]
    BY <1>1 DEF Quiet, InMonth, Admitted
  <2> QED
    BY <1>1, <2>1, <2>2 DEF Quiet, store, RowsMinted, HasHeader
<1>2. CASE Tick
  <2>1. /\ now \in Nat /\ now' = now + 1 /\ UNCHANGED <<budget, request, input>>
    BY <1>2, NumberAssumption DEF Tick, store, local, Inductive, TypeOK, Time
  <2>2. Month(now) <= Month(now') /\ Month(now) \in Nat /\ Month(now') \in Nat
    BY <2>1, MonthBounds, MonthMonotone
  <2>3. \A m \in Months : m <= Month(now) => m <= Month(now')
    BY <2>2, MonthBounds, NumberAssumption DEF Months
  <2> QED
    BY <2>1, <2>3 DEF RowsMinted, HasHeader, InMonth, Admitted
<1>3. ASSUME NEW c \in Call, FetchEnds(c) \/ ProviderServes(c)
      PROVE  RowsMinted'
  BY <1>3, ServeDetail
  DEF FetchEnds, store, RowsMinted, HasHeader, InMonth, Admitted
<1>4. CASE ProviderResets
  BY <1>4 DEF ProviderResets, store, local, RowsMinted, HasHeader, InMonth, Admitted
<1> QED
  BY <1>1, <1>2, <1>3, <1>4, RowsDecide, RowsComplete, StepKinds

----------------------------------------------------------------------------
(* The order of service. *)

Positions == [Call -> Nat]
Served == {c \in Call : reply[c] # None}
After(pos, p) == {c \in Served : pos[c] > p}

(* Measured at an instant before t: the provider has answered by then. *)
MeasuredBefore(d, t) ==
  \/ result[d] # None /\ result[d].measured # None /\ result[d].finishedAt < t
  \/ fetched[d] # None /\ fetched[d].cost # None /\ fetched[d].at < t

ServiceOrder(pos, n) ==
  \A c \in Served :
    /\ pos[c] <= n
    /\ billed <= reply[c].used + Total(Costs, After(pos, pos[c]))
    /\ \A d \in Call : MeasuredBefore(d, request[c].at) => pos[d] < pos[c]
    /\ request[c].month = Month(now) =>
         \A d \in After(pos, pos[c]) : ~FetchEndedEarlier(d)

(* Rows only come; an answer is measured when its fetch has ended. *)
LEMMA BookSteps ==
  ASSUME Inductive, [Next]_vars
  PROVE  /\ \A c \in Call : request[c] # None =>
              request'[c] = request[c] /\ input'[c] = input[c]
         /\ \A c \in Call : result'[c] # result[c] =>
              /\ result[c] = None /\ result'[c] # None
              /\ \/ result'[c].measured = None /\ result'[c].finishedAt = now
                 \/ /\ fetched[c] # None
                    /\ result'[c].measured = fetched[c].cost
                    /\ result'[c].finishedAt = fetched[c].at
         /\ \A c \in Call : fetched'[c] # fetched[c] =>
              fetched'[c] = None \/ fetched'[c].at = now
         /\ now' = now \/ Tick
         /\ \/ \E c \in Call : ProviderServes(c)
            \/ reply' = reply /\ billed' \in {billed, 0}
<1>1. CASE Quiet
  BY <1>1 DEF Quiet, store, provider
<1>2. CASE Tick
  BY <1>2 DEF Tick, store, local, provider
<1>3. CASE ProviderResets
  BY <1>3 DEF ProviderResets, store, local
<1>4. ASSUME NEW c \in Call, FetchEnds(c)
      PROVE  /\ UNCHANGED <<now, request, input, result, reply, billed>>
             /\ \A d \in Call \ {c} : fetched'[d] = fetched[d]
             /\ fetched'[c].at = now
  BY <1>4 DEF FetchEnds, store, provider
<1>5. ASSUME NEW c \in Call, ProviderServes(c)
      PROVE  UNCHANGED <<now, request, input, result, fetched>>
  BY <1>5, ServeDetail DEF store
<1>6. ASSUME NEW c \in Call, Complete(c)
      PROVE  /\ UNCHANGED <<now, request, input, reply, billed>>
             /\ \A d \in Call \ {c} : fetched'[d] = fetched[d] /\ result'[d] = result[d]
             /\ fetched'[c] = None /\ fetched[c] # None
             /\ result'[c] # result[c] =>
                  /\ result[c] = None /\ result'[c] # None
                  /\ result'[c].measured = fetched[c].cost
                  /\ result'[c].finishedAt = fetched[c].at
  <2>1. /\ UNCHANGED <<now, request, input, reply, billed>>
        /\ \A d \in Call \ {c} : fetched'[d] = fetched[d] /\ result'[d] = result[d]
        /\ fetched'[c] = None /\ fetched[c] # None /\ result'[c] # None
        /\ result'[c] = IF result[c] = None THEN ResultRow(c) ELSE result[c]
    BY <1>6, CompleteDetail
  <2>2. /\ ResultRow(c).measured = fetched[c].cost
        /\ ResultRow(c).finishedAt = fetched[c].at
    BY DEF ResultRow
  <2> QED
    BY <2>1, <2>2
<1>7. ASSUME NEW c \in Call, Decide(c)
      PROVE  /\ UNCHANGED <<now, input, reply, billed, fetched>>
             /\ \A d \in Call : request[d] # None => request'[d] = request[d]
             /\ \A d \in Call : result'[d] # result[d] =>
                  /\ result[d] = None /\ result'[d] # None
                  /\ result'[d].measured = None /\ result'[d].finishedAt = now
  BY <1>7, DecideDetail
<1>8. CASE \E c \in Call : FetchEnds(c)
  BY <1>4, <1>8
<1>9. CASE \E c \in Call : ProviderServes(c)
  BY <1>5, <1>9
<1>10. CASE \E c \in Call : Complete(c)
  BY <1>6, <1>10
<1>11. CASE \E c \in Call : Decide(c)
  BY <1>7, <1>11
<1> QED
  BY <1>1, <1>2, <1>3, <1>8, <1>9, <1>10, <1>11, StepKinds

(* Within a month, a fetch that had not ended before it, never will have.  *)
LEMMA LateStaysLate ==
  ASSUME Inductive, [Next]_vars, Month(now') = Month(now), NEW d \in Call,
         ~FetchEndedEarlier(d)
  PROVE  ~FetchEndedEarlier(d)'
<1>1. Month(now) \in Nat
  BY MonthBounds, NumberAssumption DEF Inductive, TypeOK, Time
<1>2. ASSUME fetched'[d] # None PROVE ~(Month(fetched'[d].at) < Month(now'))
  BY <1>1, <1>2, BookSteps DEF FetchEndedEarlier
<1>3. ASSUME result'[d] # None PROVE ~(Month(result'[d].finishedAt) < Month(now'))
  BY <1>1, <1>3, BookSteps DEF FetchEndedEarlier
<1> QED
  BY <1>2, <1>3 DEF FetchEndedEarlier

LEMMA MeasuredStays ==
  ASSUME Inductive, [Next]_vars, NEW d \in Call, NEW t \in Nat, t <= now,
         MeasuredBefore(d, t)'
  PROVE  MeasuredBefore(d, t)
<1>1. now \in Nat
  BY NumberAssumption DEF Inductive, TypeOK, Time
<1>2. CASE /\ result'[d] # None /\ result'[d].measured # None
           /\ result'[d].finishedAt < t
  BY <1>1, <1>2, BookSteps DEF MeasuredBefore
<1>3. CASE fetched'[d] # None /\ fetched'[d].cost # None /\ fetched'[d].at < t
  BY <1>1, <1>3, BookSteps DEF MeasuredBefore
<1> QED
  BY <1>2, <1>3 DEF MeasuredBefore

(* The month of a request is over when the clock has left it. *)
LEMMA RequestMonth ==
  ASSUME Inductive, NEW c \in Call, request[c] # None
  PROVE  /\ request[c] \in RequestRows /\ request[c].at \in Nat
         /\ request[c].at <= now /\ request[c].month \in Nat
         /\ request[c].month <= Month(now)
         /\ now \in Nat /\ Month(now) \in Nat
<1>1. /\ request[c] \in RequestRows /\ request[c].at \in Nat /\ request[c].at <= now
      /\ request[c].month = Month(request[c].at) /\ now \in Nat
  BY NumberAssumption DEF Inductive, TypeOK, RowsFitCalls, RequestRows, Time
<1> QED
  BY <1>1, MonthBounds, MonthMonotone

(* The clock never goes back. *)
LEMMA MonthsPass ==
  ASSUME Inductive, [Next]_vars
  PROVE  /\ now \in Nat /\ now' \in Nat /\ now <= now'
         /\ Month(now) \in Nat /\ Month(now') \in Nat
         /\ Month(now) <= Month(now')
<1>1. now \in Nat /\ (now' = now \/ now' = now + 1)
  BY BookSteps, NumberAssumption DEF Inductive, TypeOK, Time, Tick
<1>2. now' \in Nat /\ now <= now'
  BY <1>1
<1> QED
  BY <1>1, <1>2, MonthBounds, MonthMonotone

LEMMA OrderKept ==
  ASSUME Inductive, [Next]_vars, ~(\E c \in Call : ProviderServes(c)),
         NEW pos \in Positions, NEW n \in Nat, ServiceOrder(pos, n)
  PROVE  ServiceOrder(pos, n)'
<1>1. reply' = reply /\ billed' \in {billed, 0} /\ Served' = Served
  BY BookSteps DEF Served
<1>2. /\ Costs' = Costs
      /\ \A p \in Nat : After(pos, p)' = After(pos, p)
  BY <1>1 DEF Costs, After
<1>3. \A c \in Served : /\ c \in Call /\ request[c] # None
                         /\ request'[c] = request[c] /\ pos[c] \in Nat
  BY BookSteps DEF Served, Inductive, RowsFitCalls, Positions
<1> SUFFICES ASSUME NEW c \in Served
             PROVE  /\ pos[c] <= n
                    /\ billed' <= reply[c].used + Total(Costs, After(pos, pos[c]))
                    /\ \A d \in Call :
                         MeasuredBefore(d, request[c].at)' => pos[d] < pos[c]
                    /\ request[c].month = Month(now') =>
                         \A d \in After(pos, pos[c]) : ~FetchEndedEarlier(d)'
  BY <1>1, <1>2, <1>3 DEF ServiceOrder
<1>4. billed' <= reply[c].used + Total(Costs, After(pos, pos[c]))
  <2>1. After(pos, pos[c]) \in SUBSET Call
    BY DEF After, Served
  <2>2. Total(Costs, After(pos, pos[c])) \in Nat /\ reply[c].used \in Nat
    BY <2>1, TotalType DEF Served, Inductive, TypeOK, Reply
  <2>3. billed <= reply[c].used + Total(Costs, After(pos, pos[c]))
    BY DEF ServiceOrder
  <2> QED
    BY <1>1, <2>2, <2>3
<1>5. ASSUME NEW d \in Call, MeasuredBefore(d, request[c].at)'
      PROVE  pos[d] < pos[c]
  <2>1. PICK t \in Nat : t = request[c].at /\ t <= now
    BY <1>3, RequestMonth
  <2>2. request'[c].at = t
    BY <1>3, <2>1
  <2>3. MeasuredBefore(d, t)'
    BY <1>5, <2>2 DEF MeasuredBefore
  <2>4. MeasuredBefore(d, t)
    BY <2>1, <2>3, MeasuredStays
  <2>5. MeasuredBefore(d, request[c].at)
    BY <2>1, <2>4
  <2> QED
    BY <2>5 DEF ServiceOrder
<1>6. ASSUME request[c].month = Month(now'), NEW d \in After(pos, pos[c])
      PROVE  ~FetchEndedEarlier(d)'
  <2>1. Month(now') = Month(now) /\ request[c].month = Month(now)
    BY <1>3, <1>6, RequestMonth, MonthsPass
  <2>2. d \in Call /\ ~FetchEndedEarlier(d)
    BY <1>6, <2>1 DEF ServiceOrder, After, Served
  <2> QED
    BY <2>1, <2>2, LateStaysLate
<1> QED
  BY <1>4, <1>5, <1>6 DEF ServiceOrder

LEMMA FeesNext == Inductive' => (Amounts \in Fees /\ Costs \in Fees)'
<1>1. Inductive => (Amounts \in Fees /\ Costs \in Fees)
  BY AmountsType
<1> QED
  BY <1>1, PTL

(* One more served request. *)
LEMMA ServeCosts ==
  ASSUME Inductive, Inductive', NEW c \in Call, ProviderServes(c),
         NEW S \in SUBSET Served
  PROVE  /\ S \union {c} \in SUBSET Call
         /\ Total(Costs, S) \in Nat /\ Total(Costs', S \union {c}) \in Nat
         /\ Total(Costs, S) + reply'[c].cost <= Total(Costs', S \union {c})
<1>1. /\ reply[c] = None /\ reply'[c] # None /\ reply'[c].cost \in Nat
      /\ \A d \in Call \ {c} : reply'[d] = reply[d]
  BY ServeDetail
<1>2. /\ Costs \in Fees /\ Costs' \in Fees
  BY AmountsType, FeesNext DEF Fees
<1>3. /\ S \in SUBSET Call /\ c \notin S
      /\ Costs'[c] = reply'[c].cost
      /\ \A d \in S : Costs'[d] = Costs[d] /\ Costs[d] \in Nat
  BY <1>1, <1>2, NumberAssumption DEF Served, Costs, Fees
<1>4. Total(Costs, S) <= Total(Costs', S)
  BY <1>2, <1>3, TotalMonotone
<1>5. Total(Costs', {c}) = reply'[c].cost
  BY <1>2, <1>3, TotalOne
<1>6. Total(Costs', S \union {c}) = Total(Costs', S) + Total(Costs', {c})
  BY <1>3, TotalUnion
<1>7. /\ S \union {c} \in SUBSET Call
      /\ Total(Costs, S) \in Nat /\ Total(Costs', S) \in Nat
      /\ Total(Costs', S \union {c}) \in Nat
  BY <1>3, TotalType
<1> QED
  BY <1>1, <1>4, <1>5, <1>6, <1>7

Advance(pos, c, n) == [pos EXCEPT ![c] = n + 1]

(* Who was served after position p, once one more request is. *)
LEMMA AfterServed ==
  ASSUME Inductive, NEW c \in Call, ProviderServes(c),
         NEW pos \in Positions, NEW n \in Nat, NEW p \in Nat, p <= n
  PROVE  /\ Advance(pos, c, n) \in Positions
         /\ Advance(pos, c, n)[c] = n + 1
         /\ \A d \in Call \ {c} : Advance(pos, c, n)[d] = pos[d]
         /\ Served' = Served \union {c}
         /\ c \notin Served /\ After(pos, p) \in SUBSET Served
         /\ After(Advance(pos, c, n), p)' = After(pos, p) \union {c}
<1>1. /\ reply[c] = None /\ reply'[c] # None
      /\ \A d \in Call \ {c} : reply'[d] = reply[d]
  BY ServeDetail
<1>2. /\ Advance(pos, c, n) \in Positions
      /\ Advance(pos, c, n)[c] = n + 1
      /\ \A d \in Call \ {c} : Advance(pos, c, n)[d] = pos[d]
  BY DEF Advance, Positions
<1>3. Served' = Served \union {c} /\ c \notin Served
  BY <1>1 DEF Served
<1>4. After(Advance(pos, c, n), p)'
        = {d \in Served \union {c} : Advance(pos, c, n)[d] > p}
  BY <1>3 DEF After
<1>5. \A d \in Served : Advance(pos, c, n)[d] = pos[d]
  BY <1>2, <1>3 DEF Served
<1>6. n + 1 > p
  OBVIOUS
<1>7. \A d : d \in After(Advance(pos, c, n), p)' <=> d \in After(pos, p) \union {c}
  BY <1>2, <1>4, <1>5, <1>6 DEF After
<1>8. After(pos, p) \in SUBSET Served
  BY DEF After
<1> HIDE DEF After, Advance
<1> QED
  BY <1>2, <1>3, <1>7, <1>8

LEMMA OrderServed ==
  ASSUME Inductive, Inductive', AnswersTrue, [Next]_vars,
         NEW c \in Call, ProviderServes(c), ~LateBilling,
         NEW pos \in Positions, NEW n \in Nat, ServiceOrder(pos, n)
  PROVE  ServiceOrder(Advance(pos, c, n), n + 1)'
<1> DEFINE q == Advance(pos, c, n)
<1>1. /\ UNCHANGED <<now, request, result, fetched>>
      /\ request[c] # None /\ reply[c] = None /\ ~FetchEndedEarlier(c)
      /\ reply'[c] # None /\ reply'[c].used = billed'
      /\ reply'[c].cost \in Nat /\ billed' = billed + reply'[c].cost
      /\ \A d \in Call \ {c} : reply'[d] = reply[d]
  BY ServeDetail DEF store, MayBeBilled
<1>2. /\ q[c] = n + 1 /\ \A d \in Call \ {c} : q[d] = pos[d]
      /\ c \notin Served /\ Served' = Served \union {c}
      /\ \A p \in 0..n : /\ After(pos, p) \in SUBSET Served
                         /\ After(q, p)' = After(pos, p) \union {c}
  BY AfterServed
<1> HIDE DEF q
<1>3. ASSUME NEW d \in Call, NEW e \in Served',
             MeasuredBefore(d, request[e].at)'
      PROVE  q[d] < q[e]
  <2>1. MeasuredBefore(d, request[e].at) /\ d \in Served
    BY <1>1, <1>3 DEF MeasuredBefore, AnswersTrue, Repeats, Served
  <2>2. d # c /\ pos[d] <= n /\ pos[d] \in Nat
    BY <1>2, <2>1 DEF ServiceOrder, Positions, Served
  <2>3. CASE e = c
    BY <1>2, <2>1, <2>2, <2>3
  <2>4. CASE e # c
    BY <1>2, <1>3, <2>1, <2>2, <2>4 DEF ServiceOrder, Served
  <2> QED
    BY <2>3, <2>4
<1>4. \A d \in Call : FetchEndedEarlier(d)' <=> FetchEndedEarlier(d)
  BY <1>1 DEF FetchEndedEarlier
<1>5. ASSUME NEW e \in Served
      PROVE  /\ q[e] <= n + 1
             /\ billed' <= reply'[e].used + Total(Costs', After(q, q[e])')
             /\ request'[e].month = Month(now') =>
                  \A d \in After(q, q[e])' : ~FetchEndedEarlier(d)'
  <2>1. /\ e \in Call /\ e # c /\ q[e] = pos[e] /\ pos[e] \in 0..n
        /\ reply'[e] = reply[e] /\ reply[e].used \in Nat
    BY <1>1, <1>2, <1>5
    DEF Served, ServiceOrder, Positions, Inductive, TypeOK, Reply
  <2>2. /\ After(pos, pos[e]) \in SUBSET Served
        /\ After(q, q[e])' = After(pos, pos[e]) \union {c}
    BY <1>2, <2>1
  <2>3. /\ Total(Costs, After(pos, pos[e])) \in Nat
        /\ Total(Costs', After(pos, pos[e]) \union {c}) \in Nat
        /\ Total(Costs, After(pos, pos[e])) + reply'[c].cost
             <= Total(Costs', After(pos, pos[e]) \union {c})
    BY <2>2, ServeCosts
  <2>4. billed <= reply[e].used + Total(Costs, After(pos, pos[e]))
    BY <1>5 DEF ServiceOrder
  <2>5. billed \in Nat
    BY DEF Inductive, TypeOK
  <2>6. billed' <= reply'[e].used + Total(Costs', After(q, q[e])')
    BY <1>1, <2>1, <2>2, <2>3, <2>4, <2>5
  <2>7. ASSUME request'[e].month = Month(now'), NEW d \in After(q, q[e])'
        PROVE  ~FetchEndedEarlier(d)'
    BY <1>1, <1>4, <1>5, <2>2, <2>7 DEF ServiceOrder, Served, After
  <2> QED
    BY <2>1, <2>6, <2>7
<1>6. /\ After(q, q[c])' = {}
      /\ billed' <= reply'[c].used + Total(Costs', After(q, q[c])')
  <2>1. After(q, q[c])' = {}
    <3>1. \A d \in Served : pos[d] <= n /\ pos[d] \in Nat /\ d # c /\ d \in Call
      BY <1>2 DEF ServiceOrder, Positions, Served
    <3>2. \A d \in Served' : ~(q[d] > n + 1)
      BY <1>2, <3>1
    <3> QED
      BY <1>2, <3>2 DEF After
  <2>2. Total(Costs', {}) \in Nat
    BY TotalType
  <2>3. billed' \in Nat
    BY DEF Inductive, TypeOK
  <2> QED
    BY <1>1, <2>1, <2>2, <2>3
<1> SUFFICES ASSUME NEW e \in Served'
             PROVE  /\ q[e] <= n + 1
                    /\ billed' <= reply'[e].used + Total(Costs', After(q, q[e])')
                    /\ \A d \in Call :
                         MeasuredBefore(d, request[e].at)' => q[d] < q[e]
                    /\ request'[e].month = Month(now') =>
                         \A d \in After(q, q[e])' : ~FetchEndedEarlier(d)'
  BY DEF ServiceOrder, q
<1>7. CASE e = c
  BY <1>2, <1>3, <1>6, <1>7
<1>8. CASE e # c
  BY <1>2, <1>3, <1>5, <1>8
<1> QED
  BY <1>7, <1>8

----------------------------------------------------------------------------
(* The header of the month. *)

(* The row is at least as strict as a header that reports v credits used. *)
Shows(row, v) ==
  \/ row.used # None /\ row.used >= v
  \/ row.remaining # None /\ row.remaining <= Larger(0, MonthlyLimit - v)

MeasuredUpTo(pos, p) ==
  {d \in InMonth(Month(now)) :
     result[d] # None /\ result[d].measured # None /\ pos[d] <= p}

(* What v and the services after position p say of the use of today. *)
Reaches(pos, p, v) ==
  /\ billed <= v + Total(Costs, After(pos, p))
  /\ \A d \in After(pos, p) : ~FetchEndedEarlier(d)

HeaderAt(pos, p, v) ==
  /\ Shows(budget[Month(now)], v)
  /\ Reaches(pos, p, v)
  /\ budget[Month(now)].anchor <= Total(Amounts, MeasuredUpTo(pos, p))

HeaderRecorded ==
  LET row == budget[Month(now)]
  IN  row # None /\ row.confirmed /\ HasHeader(row)

HeaderExplained(pos, n) ==
  HeaderRecorded => \E p \in 0..n, v \in Nat : HeaderAt(pos, p, v)

LEMMA ReachesKept ==
  ASSUME Inductive, [Next]_vars, ~(\E c \in Call : ProviderServes(c)),
         Month(now') = Month(now),
         NEW pos \in Positions, NEW p \in Nat, NEW v \in Nat, Reaches(pos, p, v)
  PROVE  Reaches(pos, p, v)'
<1>1. reply' = reply /\ billed' \in {billed, 0}
  BY BookSteps
<1>2. Costs' = Costs /\ After(pos, p)' = After(pos, p)
  BY <1>1 DEF Costs, After, Served
<1>3. After(pos, p) \in SUBSET Call
  BY DEF After, Served
<1>4. Total(Costs, After(pos, p)) \in Nat /\ billed \in Nat
  BY <1>3, TotalType DEF Inductive, TypeOK
<1>5. billed' <= v + Total(Costs, After(pos, p))
  BY <1>1, <1>4 DEF Reaches
<1>6. \A d \in After(pos, p) : ~FetchEndedEarlier(d)'
  BY <1>3, LateStaysLate DEF Reaches
<1> QED
  BY <1>2, <1>5, <1>6 DEF Reaches

LEMMA ReachesServed ==
  ASSUME Inductive, Inductive', NEW c \in Call, ProviderServes(c), ~LateBilling,
         NEW pos \in Positions, NEW n \in Nat, NEW p \in 0..n, NEW v \in Nat,
         Reaches(pos, p, v)
  PROVE  Reaches(Advance(pos, c, n), p, v)'
<1> DEFINE q == Advance(pos, c, n)
<1>1. /\ UNCHANGED <<now, result, fetched>> /\ ~FetchEndedEarlier(c)
      /\ reply'[c].cost \in Nat /\ billed' = billed + reply'[c].cost
  BY ServeDetail DEF store, MayBeBilled
<1>2. /\ After(pos, p) \in SUBSET Served
      /\ After(q, p)' = After(pos, p) \union {c}
  BY AfterServed
<1>3. /\ Total(Costs, After(pos, p)) \in Nat
      /\ Total(Costs', After(pos, p) \union {c}) \in Nat
      /\ Total(Costs, After(pos, p)) + reply'[c].cost
           <= Total(Costs', After(pos, p) \union {c})
  BY <1>2, ServeCosts
<1>4. billed \in Nat /\ billed <= v + Total(Costs, After(pos, p))
  BY DEF Inductive, TypeOK, Reaches
<1>5. billed' <= v + Total(Costs', After(pos, p) \union {c})
  BY <1>1, <1>3, <1>4
<1>6. \A d \in After(pos, p) \union {c} : ~FetchEndedEarlier(d)'
  BY <1>1 DEF Reaches, FetchEndedEarlier
<1> HIDE DEF q
<1>7. Reaches(q, p, v)'
  BY <1>2, <1>5, <1>6 DEF Reaches
<1> QED
  BY <1>7 DEF q

(* Within a month, measured requests stay and keep their charge. *)
LEMMA MeasuredGrows ==
  ASSUME Inductive, Inductive', AnswersTrue, [Next]_vars, Month(now') = Month(now),
         NEW pos \in Positions, NEW q \in Positions, NEW p \in Nat,
         \A d \in Served : q[d] = pos[d]
  PROVE  /\ Total(Amounts, MeasuredUpTo(pos, p)) \in Nat
         /\ Total(Amounts', MeasuredUpTo(q, p)') \in Nat
         /\ Total(Amounts, MeasuredUpTo(pos, p))
              <= Total(Amounts', MeasuredUpTo(q, p)')
<1> DEFINE S == MeasuredUpTo(pos, p)
           T == MeasuredUpTo(q, p)'
<1>1. S \in SUBSET Call /\ T \in SUBSET Call
  BY DEF MeasuredUpTo, InMonth, Admitted
<1>2. ASSUME NEW d \in S
      PROVE  d \in T /\ Amounts'[d] = Amounts[d]
  <2>1. /\ d \in Call /\ request[d] # None /\ request[d].month = Month(now)
        /\ result[d] # None /\ result[d].measured # None /\ pos[d] <= p
    BY <1>2 DEF MeasuredUpTo, InMonth, Admitted
  <2>2. request'[d] = request[d] /\ result'[d] = result[d] /\ q[d] = pos[d]
    BY <2>1, BookSteps DEF AnswersTrue, Served
  <2> QED
    BY <2>1, <2>2 DEF MeasuredUpTo, InMonth, Admitted, Amounts, Amount
<1>3. /\ Amounts \in Fees /\ Amounts' \in Fees
      /\ \A d \in Call : Amounts[d] \in Nat
  BY AmountsType, FeesNext, NumberAssumption DEF Fees
<1> HIDE DEF S, T
<1>4. S \in SUBSET T /\ \A d \in S : Amounts[d] <= Amounts'[d]
  BY <1>1, <1>2, <1>3
<1>5. Total(Amounts, S) <= Total(Amounts', T)
  BY <1>1, <1>3, <1>4, TotalMonotone
<1>6. Total(Amounts, S) \in Nat /\ Total(Amounts', T) \in Nat
  BY <1>1, TotalType
<1> QED
  BY <1>5, <1>6 DEF S, T

(* The header stays explained while its row stays. *)
LEMMA HeaderStays ==
  ASSUME Inductive, Inductive', AnswersTrue, [Next]_vars, Month(now') = Month(now),
         budget'[Month(now)] = budget[Month(now)], budget[Month(now)] # None,
         NEW pos \in Positions, NEW q \in Positions, NEW p \in Nat, NEW v \in Nat,
         \A d \in Served : q[d] = pos[d],
         HeaderAt(pos, p, v), Reaches(q, p, v)'
  PROVE  HeaderAt(q, p, v)'
<1>1. Shows(budget[Month(now)], v)'
  BY DEF HeaderAt, Shows
<1>2. budget[Month(now)].anchor \in Nat
  <2>1. Month(now) \in Months
    BY MonthType DEF Inductive, TypeOK
  <2> QED
    BY <2>1 DEF Inductive, TypeOK, BudgetRows
<1>3. budget[Month(now)].anchor <= Total(Amounts', MeasuredUpTo(q, p)')
  BY <1>2, MeasuredGrows DEF HeaderAt
<1> QED
  BY <1>1, <1>3 DEF HeaderAt

LEMMA TotalIsSumNext ==
  ASSUME UNCHANGED <<input, request>>, NEW S \in SUBSET Admitted
  PROVE  Sum(result', S) = Total(Amounts', S)
<1>1. Credits(result', S) = Fee(Amounts', S)
  BY DEF Credits, Fee, Amounts, Amount, Admitted
<1> QED
  BY <1>1 DEF Sum, Total

(* A completion that records its header: what it includes was served no    *)
(* later than the call itself.                                             *)
LEMMA IncludedInOrder ==
  ASSUME Inductive, Inductive', AnswersTrue, NEW c \in Call, Complete(c),
         request[c].month = Month(now), reply[c] # None,
         NEW pos \in Positions, NEW n \in Nat, ServiceOrder(pos, n),
         NEW p \in Nat, pos[c] <= p
  PROVE  /\ Sum(result', Included(result', c)) \in Nat
         /\ Total(Amounts', MeasuredUpTo(pos, p)') \in Nat
         /\ Sum(result', Included(result', c))
              <= Total(Amounts', MeasuredUpTo(pos, p)')
<1> DEFINE S == Included(result', c)
           T == MeasuredUpTo(pos, p)'
<1>1. /\ UNCHANGED <<now, input, request>>
      /\ \A d \in Call \ {c} : result'[d] = result[d]
  BY CompleteDetail
<1>2. S \in SUBSET Call /\ S \in SUBSET Admitted /\ T \in SUBSET Call
  BY DEF Included, Finished, InMonth, Admitted, MeasuredUpTo
<1>3. ASSUME NEW d \in S PROVE d \in T
  <2>1. /\ d \in Call /\ request[d] # None /\ request[d].month = Month(now)
        /\ result'[d] # None /\ result'[d].measured # None
        /\ result'[d].finishedAt < request[c].at \/ d = c
    BY <1>3 DEF Included, Finished, InMonth, Admitted
  <2>2. pos[d] <= pos[c]
    <3>1. CASE d = c
      BY <3>1 DEF Positions
    <3>2. CASE d # c
      <4>1. MeasuredBefore(d, request[c].at)
        BY <1>1, <2>1, <3>2 DEF MeasuredBefore
      <4>2. pos[d] < pos[c]
        BY <2>1, <4>1 DEF ServiceOrder, Served
      <4> QED
        BY <2>1, <4>2 DEF Positions
    <3> QED
      BY <3>1, <3>2
  <2>3. pos[d] <= p
    BY <2>1, <2>2 DEF Positions
  <2> QED
    BY <1>1, <2>1, <2>3 DEF MeasuredUpTo, InMonth, Admitted
<1>4. Amounts' \in Fees /\ \A d \in Call : Amounts'[d] \in Nat
  BY FeesNext, NumberAssumption DEF Fees
<1> HIDE DEF S, T
<1>5. Sum(result', S) = Total(Amounts', S)
  BY <1>1, <1>2, TotalIsSumNext
<1>6. S \in SUBSET T /\ \A d \in S : Amounts'[d] <= Amounts'[d]
  BY <1>2, <1>3, <1>4
<1>7. Total(Amounts', S) <= Total(Amounts', T)
  BY <1>2, <1>4, <1>6, TotalMonotone
<1>8. Total(Amounts', S) \in Nat /\ Total(Amounts', T) \in Nat
  BY <1>2, TotalType
<1> QED
  BY <1>5, <1>7, <1>8 DEF S, T

LEMMA HeaderCompleted ==
  ASSUME Inductive, Inductive', AnswersTrue, RowsMinted, [Next]_vars,
         NEW c \in Call, Complete(c),
         request[c].month = Month(now), Stricter(c, budget[Month(now)]),
         NEW pos \in Positions, NEW n \in Nat, ServiceOrder(pos, n),
         HeaderExplained(pos, n)
  PROVE  \E p \in 0..n, v \in Nat : HeaderAt(pos, p, v)'
<1> DEFINE m == Month(now)
           row == budget[m]
           new == HeaderUpdate(c, result', row)
           v == reply[c].used
           Anchored(p) == new.anchor <= Total(Amounts', MeasuredUpTo(pos, p)')
<1>1. /\ UNCHANGED <<now, input, request, billed, reply>> /\ pc[c] = "fetched"
      /\ request[c] \in RequestRows /\ request[c] # None /\ fetched[c] # None
      /\ budget' = [budget EXCEPT ![m] = new]
  BY CompleteDetail DEF Complete
<1>2. m \in Months /\ row \in BudgetRows /\ row # None
  BY <1>1 DEF RequestRows, Inductive, TypeOK, RowsFitCalls
<1>3. /\ budget'[m] = new
      /\ new.anchor = HeaderAnchor(c, result', row)
      /\ fetched[c].used # None =>
           new.used # None /\ new.used >= fetched[c].used
      /\ fetched[c].remaining # None =>
           new.remaining # None /\ new.remaining <= fetched[c].remaining
      /\ ~ConfirmsReset(c, row) =>
           /\ row.used # None => new.used # None /\ new.used >= row.used
           /\ row.remaining # None =>
                new.remaining # None /\ new.remaining <= row.remaining
      /\ fetched[c].used # None \/ fetched[c].remaining # None
  BY <1>1, <1>2, HeaderUpdateEffect DEF Inductive, TypeOK
<1>4. /\ new.used \in Nat \union {None} /\ new.remaining \in Nat \union {None}
      /\ row.used \in Nat \union {None} /\ row.remaining \in Nat \union {None}
      /\ row.anchor \in Nat /\ new.anchor \in Nat
  <2>1. new \in BudgetRows
    BY <1>1, <1>2, HeaderUpdateType
  <2> QED
    BY <1>2, <2>1 DEF BudgetRows
<1>5. reply[c] # None /\ v \in Nat /\ c \in Served /\ pos[c] \in 0..n
  <2>1. reply[c] # None
    BY <1>1, <1>3 DEF AnswersTrue, Repeats
  <2> QED
    BY <2>1 DEF Inductive, TypeOK, Reply, Served, Positions, ServiceOrder
<1>6. Shows(new, v)
  BY <1>1, <1>3 DEF Shows, AnswersTrue, Repeats
<1>7. Reaches(pos, pos[c], v)
  BY <1>5 DEF Reaches, ServiceOrder
<1>8. ~(\E d \in Call : ProviderServes(d))
  <2>1. ASSUME NEW d \in Call, ProviderServes(d) PROVE FALSE
    BY <1>1, <2>1, ServeDetail
  <2> QED
    BY <2>1
<1>9. \A p \in 0..n, w \in Nat : Reaches(pos, p, w) => Reaches(pos, p, w)'
  BY <1>1, <1>8, ReachesKept
<1>10. ASSUME NEW p \in 0..n, pos[c] <= p,
              row.anchor <= Total(Amounts', MeasuredUpTo(pos, p)')
       PROVE  Anchored(p)
  <2> DEFINE x == Sum(result', Included(result', c))
             y == Total(Amounts', MeasuredUpTo(pos, p)')
             z == Charged(result', m) - UnknownCharged(result', m)
  <2>1. x \in Nat /\ y \in Nat /\ x <= y
    BY <1>5, <1>10, IncludedInOrder
  <2>2. z \in Int
    BY AmountsAreSums
  <2>3. new.anchor = Smaller(z, Larger(row.anchor, x))
    BY <1>3 DEF HeaderAnchor
  <2> HIDE DEF x, y, z
  <2>4. new.anchor <= y
    BY <1>4, <1>10, <2>1, <2>2, <2>3 DEF Smaller, Larger, y
  <2> QED
    BY <2>4 DEF y
<1>11. ASSUME NEW p \in 0..n, NEW w \in Nat,
              Shows(new, w), Reaches(pos, p, w), Anchored(p)
       PROVE  HeaderAt(pos, p, w)'
  BY <1>1, <1>3, <1>9, <1>11 DEF HeaderAt
<1> HIDE DEF new
<1>12. CASE ~HeaderRecorded
  <2>1. row.anchor = 0
    BY <1>2, <1>12 DEF HeaderRecorded, RowsMinted
  <2>2. Total(Amounts', MeasuredUpTo(pos, pos[c])') \in Nat
    BY <1>5, IncludedInOrder
  <2>3. Anchored(pos[c])
    BY <1>5, <1>10, <2>1, <2>2
  <2> QED
    BY <1>5, <1>6, <1>7, <1>11, <2>3
<1>13. CASE HeaderRecorded
  <2>1. PICK p \in 0..n, w \in Nat : HeaderAt(pos, p, w)
    BY <1>13 DEF HeaderExplained
  <2>2. ~ConfirmsReset(c, row)
    BY <1>13 DEF HeaderRecorded, ConfirmsReset
  <2>3. /\ row.anchor <= Total(Amounts', MeasuredUpTo(pos, p)')
        /\ Total(Amounts', MeasuredUpTo(pos, p)') \in Nat
    BY <1>1, <1>4, <2>1, MeasuredGrows DEF HeaderAt
  <2>4. CASE pos[c] <= p
    <3>1. Anchored(p)
      BY <1>10, <2>3, <2>4
    <3>2. Shows(row, w)
      BY <2>1 DEF HeaderAt
    <3>3. Larger(0, MonthlyLimit - w) \in Nat
      BY NumberAssumption DEF Larger
    <3>4. Shows(new, w)
      BY <1>3, <1>4, <2>2, <3>2, <3>3, NoneAssumption DEF Shows
    <3> QED
      BY <1>11, <2>1, <3>1, <3>4 DEF HeaderAt
  <2>5. CASE p < pos[c]
    <3> DEFINE T == MeasuredUpTo(pos, pos[c])'
    <3>1. /\ MeasuredUpTo(pos, p)' \in SUBSET T /\ T \in SUBSET Call
      BY <1>5, <2>5 DEF MeasuredUpTo, InMonth, Admitted, Positions
    <3>2. Amounts' \in Fees /\ \A d \in Call : Amounts'[d] <= Amounts'[d]
      BY FeesNext, NumberAssumption DEF Fees
    <3>3. Total(Amounts', MeasuredUpTo(pos, p)') <= Total(Amounts', T)
          /\ Total(Amounts', T) \in Nat
      BY <3>1, <3>2, TotalMonotone, TotalType
    <3>4. Anchored(pos[c])
      BY <1>4, <1>5, <1>10, <2>3, <3>3
    <3> QED
      BY <1>5, <1>6, <1>7, <1>11, <3>4
  <2> QED
    BY <1>5, <2>4, <2>5
<1> QED
  BY <1>12, <1>13

BooksExplained ==
  \E n \in Nat, pos \in Positions : ServiceOrder(pos, n) /\ HeaderExplained(pos, n)

LEMMA HeaderKept ==
  ASSUME Inductive, Inductive', AnswersTrue, RowsMinted, [Next]_vars,
         ~(\E c \in Call : ProviderServes(c)),
         NEW pos \in Positions, NEW n \in Nat, ServiceOrder(pos, n),
         HeaderExplained(pos, n)
  PROVE  HeaderExplained(pos, n)'
<1> DEFINE m == Month(now)
<1>1. m \in Months /\ m \in Nat /\ Month(now') \in Nat
  BY MonthType, MonthsPass DEF Inductive, TypeOK
<1>2. ASSUME Month(now') = m, budget'[m] = budget[m]
      PROVE  HeaderExplained(pos, n)'
  <2>1. CASE HeaderRecorded
    <3>1. PICK p \in 0..n, v \in Nat : HeaderAt(pos, p, v)
      BY <2>1 DEF HeaderExplained
    <3>2. Reaches(pos, p, v)'
      BY <1>2, <3>1, ReachesKept DEF HeaderAt
    <3>3. HeaderAt(pos, p, v)'
      BY <1>2, <2>1, <3>1, <3>2, HeaderStays DEF HeaderRecorded
    <3> QED
      BY <3>3 DEF HeaderExplained
  <2>2. CASE ~HeaderRecorded
    BY <1>2, <2>2 DEF HeaderExplained, HeaderRecorded, HasHeader
  <2> QED
    BY <2>1, <2>2
<1>3. CASE Quiet
  BY <1>2, <1>3 DEF Quiet, store
<1>4. CASE Tick
  <2>1. budget' = budget
    BY <1>4 DEF Tick, store
  <2>2. CASE Month(now') = m
    BY <1>2, <2>1, <2>2
  <2>3. CASE Month(now') # m
    <3>1. Month(now') \in Months /\ Month(now') > m
      BY <1>1, <2>3, MonthsPass, MonthType DEF Inductive, TypeOK
    <3>2. budget[Month(now')] = None
      BY <1>1, <3>1 DEF RowsMinted
    <3> QED
      BY <2>1, <3>2 DEF HeaderExplained, HeaderRecorded
  <2> QED
    BY <2>2, <2>3
<1>5. ASSUME NEW c \in Call, FetchEnds(c) PROVE HeaderExplained(pos, n)'
  BY <1>2, <1>5 DEF FetchEnds, store
<1>6. CASE ProviderResets
  BY <1>2, <1>6 DEF ProviderResets, store
<1>7. ASSUME NEW c \in Call, Decide(c) PROVE HeaderExplained(pos, n)'
  <2>1. now' = now /\ budget'[m] = BudgetRow(m)
    BY <1>1, <1>7, DecideDetail DEF Inductive, TypeOK
  <2>2. CASE budget[m] # None
    BY <1>2, <2>1, <2>2 DEF BudgetRow
  <2>3. CASE budget[m] = None
    <3>1. ~(BudgetRow(m).confirmed /\ HasHeader(BudgetRow(m)))
      BY <2>3, BudgetRowMints
    <3> QED
      BY <2>1, <3>1 DEF HeaderExplained, HeaderRecorded, HasHeader
  <2> QED
    BY <2>2, <2>3
<1>8. ASSUME NEW c \in Call, Complete(c) PROVE HeaderExplained(pos, n)'
  <2>1. /\ now' = now
        /\ budget' = IF /\ request[c].month = m
                        /\ Stricter(c, budget[request[c].month])
                     THEN [budget EXCEPT ![request[c].month] =
                             HeaderUpdate(c, result', @)]
                     ELSE budget
    BY <1>8, CompleteDetail
  <2>2. CASE request[c].month = m /\ Stricter(c, budget[m])
    BY <1>8, <2>2, HeaderCompleted DEF HeaderExplained
  <2>3. CASE ~(request[c].month = m /\ Stricter(c, budget[m]))
    BY <1>2, <2>1, <2>3
  <2> QED
    BY <2>2, <2>3
<1> QED
  BY <1>3, <1>4, <1>5, <1>6, <1>7, <1>8, StepKinds

LEMMA BooksInit == Init => AnswersTrue /\ RowsMinted /\ BooksExplained
<1> SUFFICES ASSUME Init PROVE BooksExplained
  BY AnswersInit, RowsInit
<1> DEFINE pos == [c \in Call |-> 0]
<1>1. pos \in Positions
  BY DEF Positions
<1>2. ServiceOrder(pos, 0)
  BY DEF Init, ServiceOrder, Served
<1>3. ~HeaderRecorded
  <2>1. Month(now) \in Months
    BY InitInductive, MonthType DEF Inductive, TypeOK
  <2> QED
    BY <2>1 DEF Init, HeaderRecorded
<1> HIDE DEF pos
<1> QED
  BY <1>1, <1>2, <1>3 DEF BooksExplained, HeaderExplained

(* Provided the provider bills no request in a later month than the one in *)
(* which its fetch ended, some order of service explains every header.     *)
LEMMA BooksStep ==
  ASSUME Inductive, Inductive', AnswersTrue, RowsMinted, BooksExplained,
         [Next]_vars, ~LateBilling
  PROVE  BooksExplained'
<1>1. PICK n \in Nat, pos \in Positions :
        ServiceOrder(pos, n) /\ HeaderExplained(pos, n)
  BY DEF BooksExplained
<1>2. CASE ~(\E c \in Call : ProviderServes(c))
  <2>1. ServiceOrder(pos, n)' /\ HeaderExplained(pos, n)'
    BY <1>1, <1>2, OrderKept, HeaderKept
  <2> QED
    BY <2>1 DEF BooksExplained
<1>3. ASSUME NEW c \in Call, ProviderServes(c) PROVE BooksExplained'
  <2> DEFINE q == Advance(pos, c, n)
  <2>1. q \in Positions /\ \A d \in Served : q[d] = pos[d]
    <3>1. 0 \in Nat /\ 0 <= n
      OBVIOUS
    <3>2. /\ q \in Positions /\ c \notin Served
          /\ \A d \in Call \ {c} : q[d] = pos[d]
      BY <1>3, <3>1, AfterServed
    <3> QED
      BY <3>2 DEF Served
  <2>2. ServiceOrder(q, n + 1)'
    BY <1>1, <1>3, OrderServed
  <2>3. now' = now /\ budget' = budget
    BY <1>3, ServeDetail DEF store
  <2>4. ASSUME HeaderRecorded
        PROVE  \E p \in 0..n+1, v \in Nat : HeaderAt(q, p, v)'
    <3>1. PICK p \in 0..n, v \in Nat : HeaderAt(pos, p, v)
      BY <1>1, <2>4 DEF HeaderExplained
    <3>2. Reaches(q, p, v)'
      BY <1>3, <3>1, ReachesServed DEF HeaderAt
    <3> HIDE DEF q
    <3>3. HeaderAt(q, p, v)'
      BY <2>1, <2>3, <2>4, <3>1, <3>2, HeaderStays DEF HeaderRecorded
    <3> QED
      BY <3>3
  <2> HIDE DEF q
  <2>5. HeaderExplained(q, n + 1)'
    BY <2>3, <2>4 DEF HeaderExplained, HeaderRecorded, HasHeader
  <2> QED
    BY <2>1, <2>2, <2>5 DEF BooksExplained
<1> QED
  BY <1>2, <1>3

----------------------------------------------------------------------------
(* What the store believes, and what the provider may still bill. *)

(* The requests without an answer that the books still charge to the month. *)
MayCost ==
  {c \in Admitted :
     /\ reply[c] = None
     /\ result[c] # None => Month(result[c].finishedAt) >= Month(now)}

(* A request that is not over before the month is one the month is liable  *)
(* for.                                                                    *)
LEMMA NotOverIsLiable ==
  ASSUME Inductive, NEW c \in Call, request[c] # None,
         result[c] # None => Month(result[c].finishedAt) >= Month(now)
  PROVE  c \in Liable(Month(now))
<1> DEFINE m == Month(now)
<1>1. request[c].month \in Nat /\ m \in Nat /\ request[c].month <= m
  BY RequestMonth
<1>2. CASE request[c].month = m
  BY <1>2 DEF Liable, InMonth, Admitted
<1>3. CASE request[c].month < m /\ result[c] = None
  BY <1>3 DEF Liable, CarriedOver, Admitted
<1>4. CASE request[c].month < m /\ result[c] # None
  <2>1. result[c].finishedAt \in Nat
    BY <1>4, NumberAssumption DEF Inductive, TypeOK, ResultRows, Time
  <2> DEFINE f == Month(result[c].finishedAt)
  <2>2. /\ f \in Nat /\ f >= m /\ f * MonthMs <= result[c].finishedAt
        /\ MonthMs \in Nat
    BY <1>4, <2>1, MonthBounds, NumberAssumption
  <2> HIDE DEF f
  <2>3. f * MonthMs >= m * MonthMs /\ f * MonthMs \in Nat /\ m * MonthMs \in Nat
    BY <1>1, <2>2
  <2>4. result[c].finishedAt >= m * MonthMs
    BY <2>1, <2>2, <2>3
  <2> QED
    BY <1>4, <2>4 DEF Liable, CarriedOver, Admitted
<1> QED
  BY <1>1, <1>2, <1>3, <1>4

LEMMA MayCostIsLiable ==
  ASSUME Inductive
  PROVE  /\ MayCost \in SUBSET Liable(Month(now))
         /\ Liable(Month(now)) \in SUBSET Admitted
         /\ Liable(Month(now)) \in SUBSET Call
         /\ ~LateBilling => MayBeBilled \in SUBSET MayCost
<1>1. MayCost \in SUBSET Liable(Month(now))
  BY NotOverIsLiable DEF MayCost, Admitted
<1>2. ASSUME ~LateBilling, NEW c \in MayBeBilled PROVE c \in MayCost
  <2>1. result[c] # None => Month(result[c].finishedAt) \in Nat /\ Month(now) \in Nat
    BY <1>2, MonthBounds, NumberAssumption
    DEF MayBeBilled, Admitted, Inductive, TypeOK, ResultRows, Time
  <2> QED
    BY <1>2, <2>1 DEF MayBeBilled, FetchEndedEarlier, MayCost
<1> QED
  BY <1>1, <1>2 DEF Liable, InMonth, CarriedOver, Admitted

(* The header, and what the month is liable for beyond its anchor, cover   *)
(* what is billed and may still be.                                        *)
LEMMA HeaderCovers ==
  ASSUME Inductive, AnswersTrue, BooksExplained, HeaderRecorded
  PROVE  \E v \in Nat :
           /\ Shows(budget[Month(now)], v)
           /\ billed + Total(Amounts, MayCost) + budget[Month(now)].anchor
                <= v + Total(Amounts, Liable(Month(now)))
<1>1. PICK n \in Nat, pos \in Positions :
        ServiceOrder(pos, n) /\ HeaderExplained(pos, n)
  BY DEF BooksExplained
<1>2. PICK p \in 0..n, v \in Nat : HeaderAt(pos, p, v)
  BY <1>1 DEF HeaderExplained
<1> DEFINE L == Liable(Month(now))
           A == After(pos, p)
           B == MeasuredUpTo(pos, p)
           C == MayCost
           anchor == budget[Month(now)].anchor
<1>3. /\ L \in SUBSET Call /\ A \in SUBSET L /\ B \in SUBSET L /\ C \in SUBSET L
  <2>1. ASSUME NEW d \in A PROVE d \in L
    <3>1. d \in Call /\ request[d] # None /\ ~FetchEndedEarlier(d)
      BY <1>2, <2>1
      DEF HeaderAt, Reaches, After, Served, Inductive, RowsFitCalls
    <3>2. result[d] # None => Month(result[d].finishedAt) \in Nat /\ Month(now) \in Nat
      BY <3>1, MonthBounds, NumberAssumption
      DEF Inductive, TypeOK, ResultRows, Time
    <3> QED
      BY <3>1, <3>2, NotOverIsLiable DEF FetchEndedEarlier
  <2>2. B \in SUBSET L
    BY DEF MeasuredUpTo, Liable
  <2> QED
    BY <2>1, <2>2, MayCostIsLiable
<1>4. /\ A \cap (B \union C) = {} /\ B \cap C = {}
  <2>1. \A d \in A : reply[d] # None /\ pos[d] > p
    BY DEF After, Served
  <2>2. \A d \in B : reply[d] # None /\ pos[d] <= p /\ pos[d] \in Nat
    BY DEF MeasuredUpTo, InMonth, Admitted, AnswersTrue, Positions
  <2>3. \A d \in C : reply[d] = None
    BY DEF MayCost
  <2> QED
    BY <2>1, <2>2, <2>3
<1>5. /\ Amounts \in Fees /\ Costs \in Fees
      /\ \A d \in Call : Costs[d] <= Amounts[d] /\ Amounts[d] <= Amounts[d]
  BY AmountsType, CostWithinAmount, NumberAssumption DEF Fees
<1>6. /\ billed <= v + Total(Costs, A) /\ anchor <= Total(Amounts, B)
      /\ Shows(budget[Month(now)], v) /\ anchor \in Nat /\ billed \in Nat
  <2>1. Month(now) \in Months
    BY MonthType DEF Inductive, TypeOK
  <2> QED
    BY <1>2, <2>1
    DEF HeaderAt, Reaches, HeaderRecorded, Inductive, TypeOK, BudgetRows
<1> HIDE DEF L, A, B, C, anchor
<1>7. /\ A \in SUBSET Call /\ B \in SUBSET Call /\ C \in SUBSET Call
      /\ B \union C \in SUBSET Call /\ A \union (B \union C) \in SUBSET L
  BY <1>3
<1>8. /\ Total(Amounts, B \union C) = Total(Amounts, B) + Total(Amounts, C)
      /\ Total(Amounts, A \union (B \union C))
           = Total(Amounts, A) + Total(Amounts, B \union C)
  BY <1>4, <1>7, TotalUnion
<1>9. Total(Costs, A) <= Total(Amounts, A)
  BY <1>5, <1>7, TotalMonotone
<1>10. Total(Amounts, A \union (B \union C)) <= Total(Amounts, L)
  BY <1>3, <1>5, <1>7, TotalMonotone
<1>11. /\ Total(Amounts, A) \in Nat /\ Total(Costs, A) \in Nat
       /\ Total(Amounts, B) \in Nat /\ Total(Amounts, C) \in Nat
       /\ Total(Amounts, L) \in Nat
  BY <1>3, <1>7, TotalType
<1>12. billed + Total(Amounts, C) + anchor <= v + Total(Amounts, L)
  BY <1>6, <1>8, <1>9, <1>10, <1>11
<1> QED
  BY <1>6, <1>12 DEF L, C, anchor

(* What is available stays within what a header leaves of the limit, less  *)
(* what the month is liable for beyond the anchor.                         *)
LEMMA AvailableWithinHeader ==
  ASSUME Inductive, NEW res, NEW row \in BudgetRows, NEW m \in Nat, NEW v \in Nat,
         Shows(row, v), Available(res, row, m) > 0
  PROVE  Available(res, row, m)
           <= MonthlyLimit - v + row.anchor
                - Sum(res, InMonth(m) \union CarriedOver(res, m))
<1> DEFINE charged == Charged(res, m)
           unknown == UnknownCharged(res, m)
           due == Reserved(res, m) + Carryover(res, m)
           since == SinceHeader(res, row, m) + due
           S == Sum(res, InMonth(m) \union CarriedOver(res, m))
           a == Available(res, row, m)
<1>1. /\ charged \in Nat /\ unknown \in Nat /\ due \in Nat /\ row.anchor \in Nat
      /\ charged + due = S
  BY AmountsAreSums, PlanIsLiability DEF BudgetRows
<1>2. since = unknown + Larger(0, charged - unknown - row.anchor) + due
  BY <1>1 DEF SinceHeader, Larger
<1>3. /\ a \in Nat /\ a > 0 /\ \A b \in Bounds(res, row, m) : a <= b
  BY AvailableLeast
<1>4. /\ row.used # None => MonthlyLimit - row.used - since \in Bounds(res, row, m)
      /\ row.remaining # None => row.remaining - since \in Bounds(res, row, m)
  BY DEF Bounds
<1> HIDE DEF charged, unknown, due, since, S, a
<1>5. since \in Nat /\ since >= S - row.anchor /\ S \in Nat
  BY <1>1, <1>2 DEF Larger
<1>6. a <= MonthlyLimit - v + row.anchor - S
  <2>1. CASE row.used # None /\ row.used >= v
    <3>1. row.used \in Nat /\ a <= MonthlyLimit - row.used - since
      BY <1>3, <1>4, <2>1 DEF BudgetRows
    <3> QED
      BY <1>1, <1>3, <1>5, <2>1, <3>1, NumberAssumption
  <2>2. CASE row.remaining # None /\ row.remaining <= Larger(0, MonthlyLimit - v)
    <3>1. row.remaining \in Nat /\ a <= row.remaining - since
      BY <1>3, <1>4, <2>2 DEF BudgetRows
    <3>2. CASE MonthlyLimit - v > 0
      BY <1>1, <1>3, <1>5, <2>2, <3>1, <3>2, NumberAssumption DEF Larger
    <3>3. CASE ~(MonthlyLimit - v > 0)
      BY <1>3, <1>5, <2>2, <3>1, <3>3, NumberAssumption DEF Larger
    <3> QED
      BY <3>2, <3>3
  <2> QED
    BY <2>1, <2>2 DEF Shows
<1> QED
  BY <1>6 DEF a, S

LEMMA BooksAreConservative ==
  Inductive /\ AnswersTrue /\ BooksExplained /\ ~LateBilling
    => AvailableIsConservative
<1> SUFFICES ASSUME Inductive, AnswersTrue, BooksExplained, ~LateBilling,
                    HeaderRecorded
             PROVE  Available(result, budget[Month(now)], Month(now))
                      <= Larger(0, MonthlyLimit - billed - Sum(result, MayBeBilled))
  BY DEF AvailableIsConservative, HeaderRecorded, HasHeader
<1> DEFINE m == Month(now)
           row == budget[m]
           a == Available(result, row, m)
           may == Total(Amounts, MayCost)
           left == Sum(result, MayBeBilled)
           all == Total(Amounts, Liable(m))
<1>1. m \in Nat /\ row \in BudgetRows
  <2>1. m \in Months /\ m \in Nat
    BY MonthType, MonthBounds, NumberAssumption DEF Inductive, TypeOK, Time
  <2> QED
    BY <2>1 DEF HeaderRecorded, Inductive, TypeOK
<1>2. PICK v \in Nat : Shows(row, v) /\ billed + may + row.anchor <= v + all
  BY HeaderCovers
<1>3. Sum(result, Liable(m)) = all
  BY MayCostIsLiable, TotalIsSum
<1>4. a > 0 => a <= MonthlyLimit - v + row.anchor - all
  BY <1>1, <1>2, <1>3, AvailableWithinHeader DEF Liable
<1>5. left <= may /\ left \in Nat /\ may \in Nat
  <2>1. /\ MayBeBilled \in SUBSET MayCost /\ MayCost \in SUBSET Admitted
        /\ MayCost \in SUBSET Call /\ MayBeBilled \in SUBSET Call
    BY MayCostIsLiable
  <2> QED
    BY <2>1, TotalIsSum, SumMonotone, SumType
<1>6. a \in Nat /\ all \in Nat /\ billed \in Nat /\ row.anchor \in Nat
  BY <1>1, AvailableLeast, MayCostIsLiable, TotalType
  DEF Inductive, TypeOK, BudgetRows
<1> HIDE DEF a, may, left, all, row
<1>7. a <= Larger(0, MonthlyLimit - billed - left)
  BY <1>2, <1>4, <1>5, <1>6, NumberAssumption DEF Larger
<1> QED
  BY <1>7 DEF a, left, row

(* Once a header is recorded in a confirmed row, the store never believes  *)
(* in credits that the provider may already have billed, whatever answers  *)
(* come late, crash or cross the month: provided a request is billed no    *)
(* later than the month in which its fetch ended.                          *)
THEOREM ConservativeHolds ==
  ASSUME ~LateBilling
  PROVE  Spec => []AvailableIsConservative
<1> DEFINE Books == Inductive /\ AnswersTrue /\ RowsMinted /\ BooksExplained
<1>1. Init => Books
  BY InitInductive, BooksInit
<1>2. Books /\ [Next]_vars => Books'
  BY StepInductive, AnswersStep, RowsStep, BooksStep
<1>3. Books => AvailableIsConservative
  BY BooksAreConservative
<1> QED
  BY <1>1, <1>2, <1>3, PTL DEF Spec

----------------------------------------------------------------------------
(* The provider never bills more than the limit. *)

BilledAtCost == billed <= InitialUse + Total(Costs, Served)
BillsFit == billed + Total(Amounts, MayCost) <= MonthlyLimit

LEMMA BilledAtCostStep ==
  ASSUME Inductive, Inductive', BilledAtCost, [Next]_vars
  PROVE  BilledAtCost'
<1>1. /\ Served \in SUBSET Call /\ Total(Costs, Served) \in Nat /\ billed \in Nat
  <2>1. Served \in SUBSET Call
    BY DEF Served
  <2> QED
    BY <2>1, TotalType DEF Inductive, TypeOK
<1>2. CASE ~(\E c \in Call : ProviderServes(c))
  <2>1. Costs' = Costs /\ Served' = Served /\ billed' \in {billed, 0}
    BY <1>2, BookSteps DEF Costs, Served
  <2> QED
    BY <1>1, <2>1, NumberAssumption DEF BilledAtCost
<1>3. ASSUME NEW c \in Call, ProviderServes(c) PROVE BilledAtCost'
  <2>1. /\ billed' = billed + reply'[c].cost /\ reply'[c].cost \in Nat
        /\ Served' = Served \union {c}
    BY <1>3, ServeDetail DEF Served
  <2>2. /\ Total(Costs', Served \union {c}) \in Nat
        /\ Total(Costs, Served) + reply'[c].cost <= Total(Costs', Served \union {c})
    BY <1>3, ServeCosts
  <2> QED
    BY <1>1, <2>1, <2>2, NumberAssumption DEF BilledAtCost
<1> QED
  BY <1>2, <1>3

(* Without a header the month is the first, and liable for everything.     *)
LEMMA FirstMonthCovers ==
  ASSUME Inductive, AnswersTrue, RowsMinted, BilledAtCost, InitialUse = 0,
         \A p \in Months : p < Month(now) => budget[p] = None
  PROVE  billed + Total(Amounts, MayCost) <= Total(Amounts, Liable(Month(now)))
<1> DEFINE L == Liable(Month(now))
           A == Served
           C == MayCost
<1>1. ASSUME NEW d \in Call, request[d] # None PROVE d \in L
  <2>1. /\ request[d].month \in Months /\ request[d].month \in Nat
        /\ Month(now) \in Nat /\ request[d].month <= Month(now)
        /\ budget[request[d].month] # None
    BY <1>1, RequestMonth DEF RequestRows, Inductive, RowsFitCalls
  <2>2. request[d].month = Month(now)
    BY <2>1
  <2> QED
    BY <1>1, <2>2 DEF Liable, InMonth, Admitted
<1>2. /\ L \in SUBSET Call /\ C \in SUBSET L /\ A \in SUBSET L /\ A \cap C = {}
  BY <1>1, MayCostIsLiable DEF Served, MayCost, Inductive, RowsFitCalls
<1>3. /\ Amounts \in Fees /\ Costs \in Fees
      /\ \A d \in Call : Costs[d] <= Amounts[d] /\ Amounts[d] <= Amounts[d]
  BY AmountsType, CostWithinAmount, NumberAssumption DEF Fees
<1>4. billed \in Nat /\ billed <= Total(Costs, A)
  <2>1. A \in SUBSET Call /\ Total(Costs, A) \in Nat
    BY <1>2, TotalType
  <2> QED
    BY <2>1 DEF BilledAtCost, Inductive, TypeOK
<1> HIDE DEF L, A, C
<1>5. A \in SUBSET Call /\ C \in SUBSET Call /\ A \union C \in SUBSET L
  BY <1>2
<1>6. /\ Total(Costs, A) <= Total(Amounts, A)
      /\ Total(Amounts, A \union C) <= Total(Amounts, L)
  BY <1>2, <1>3, <1>5, TotalMonotone
<1>7. Total(Amounts, A \union C) = Total(Amounts, A) + Total(Amounts, C)
  BY <1>2, <1>5, TotalUnion
<1>8. /\ Total(Costs, A) \in Nat /\ Total(Amounts, A) \in Nat
      /\ Total(Amounts, C) \in Nat /\ Total(Amounts, L) \in Nat
  BY <1>2, <1>5, TotalType
<1>9. billed + Total(Amounts, C) <= Total(Amounts, L)
  BY <1>4, <1>6, <1>7, <1>8
<1> QED
  BY <1>9 DEF C, L

(* What is admitted fits beside what is billed and may still be.           *)
LEMMA AdmissionCovered ==
  ASSUME Inductive, AnswersTrue, RowsMinted, BooksExplained, BilledAtCost,
         InitialUse = 0, NEW c \in Call, pc[c] = "trying", input[c].expected > 0,
         Affordable(c, Abandon(input[c].key), BudgetRow(Month(now)))
  PROVE  billed + Total(Amounts, MayCost) + input[c].expected <= MonthlyLimit
<1> DEFINE k == input[c].key
           m == Month(now)
           res == Abandon(k)
           row == BudgetRow(m)
           e == input[c].expected
           a == Available(res, row, m)
           may == Total(Amounts, MayCost)
           all == Total(Amounts, Liable(m))
<1>1. k \in Key /\ m \in Months /\ m \in Nat /\ e \in Nat
  BY MonthType, MonthBounds, InputAssumption, NumberAssumption
  DEF Inductive, TypeOK, RowsFitCalls, Request, Time
<1>2. row \in BudgetRows
  BY <1>1, BudgetRowType
<1>3. row.confirmed /\ a \in Nat /\ a >= e /\ a > 0
  <2>1. a \in Nat
    BY <1>2, AvailableLeast
  <2> QED
    BY <1>1, <2>1, NumberAssumption DEF Affordable
<1>4. Sum(res, InMonth(m) \union CarriedOver(res, m)) = all
  <2>1. Liable(m) \in SUBSET Admitted
    BY MayCostIsLiable
  <2>2. Sum(res, InMonth(m) \union CarriedOver(res, m)) = Sum(result, Liable(m))
    BY <1>1, <2>1, SettlementKeepsCredits DEF Sum, Liable
  <2> QED
    BY <2>1, <2>2, TotalIsSum
<1>5. all \in Nat /\ may \in Nat /\ billed \in Nat /\ row.anchor \in Nat
  <2>1. MayCost \in SUBSET Call /\ Liable(m) \in SUBSET Call
    BY MayCostIsLiable
  <2> QED
    BY <1>2, <2>1, TotalType DEF Inductive, TypeOK, BudgetRows
<1>6. CASE HasHeader(row)
  <2>1. budget[m] # None
    BY <1>3, <1>6, BudgetRowMints
  <2>2. row = budget[m] /\ HeaderRecorded
    BY <1>3, <1>6, <2>1 DEF BudgetRow, HeaderRecorded
  <2>3. PICK v \in Nat : Shows(row, v) /\ billed + may + row.anchor <= v + all
    BY <2>2, HeaderCovers
  <2>4. a <= MonthlyLimit - v + row.anchor - all
    BY <1>1, <1>2, <1>3, <1>4, <2>3, AvailableWithinHeader
  <2> HIDE DEF a, may, all, row, e
  <2>5. billed + may + e <= MonthlyLimit
    BY <1>1, <1>3, <1>5, <2>3, <2>4, NumberAssumption
  <2> QED
    BY <2>5 DEF may, e
<1>7. CASE ~HasHeader(row)
  <2>1. \A p \in Months : p < m => budget[p] = None
    <3>1. CASE budget[m] = None
      BY <1>3, <3>1, BudgetRowMints
    <3>2. CASE budget[m] # None
      <4>1. row = budget[m]
        BY <3>2 DEF BudgetRow
      <4> QED
        BY <1>1, <1>3, <1>7, <3>2, <4>1 DEF RowsMinted
    <3> QED
      BY <3>1, <3>2
  <2>2. billed + may <= all
    BY <2>1, FirstMonthCovers
  <2>3. a <= MonthlyLimit - Charged(res, m) - Reserved(res, m) - Carryover(res, m)
    BY <1>2, <1>3, AvailableType
  <2>4. Charged(res, m) + Reserved(res, m) + Carryover(res, m) = all
    BY <1>1, <1>4, PlanIsLiability
  <2>5. /\ Charged(res, m) \in Nat /\ Reserved(res, m) \in Nat
        /\ Carryover(res, m) \in Nat
    BY AmountsAreSums
  <2> HIDE DEF a, may, all, res, e
  <2>6. billed + may + e <= MonthlyLimit
    BY <1>1, <1>3, <1>5, <2>2, <2>3, <2>4, <2>5, NumberAssumption
  <2> QED
    BY <2>6 DEF may, e
<1> QED
  BY <1>6, <1>7

(* No request comes to cost more than it did, but a new one.               *)
LEMMA MayCostShrinks ==
  ASSUME Inductive, Inductive', AnswersTrue, AnswersTrue', [Next]_vars,
         ~(\E c \in Call : ProviderServes(c)), NEW S \in SUBSET MayCost',
         \A d \in S : request[d] # None
  PROVE  /\ S \in SUBSET Call /\ Total(Amounts', S) \in Nat
         /\ Total(Amounts, MayCost) \in Nat
         /\ Total(Amounts', S) <= Total(Amounts, MayCost)
<1>1. S \in SUBSET Call /\ MayCost \in SUBSET Call
  BY DEF MayCost, Admitted
<1>2. ASSUME NEW d \in S
      PROVE  d \in MayCost /\ Amounts'[d] <= Amounts[d]
  <2>1. /\ d \in Call /\ request[d] # None /\ reply'[d] = None
        /\ result'[d] # None => Month(result'[d].finishedAt) >= Month(now')
    BY <1>2 DEF MayCost, Admitted
  <2>2. /\ reply' = reply /\ request'[d] = request[d] /\ input'[d] = input[d]
        /\ result[d] # None => result'[d] = result[d]
    BY <2>1, BookSteps
  <2>3. result[d] # None =>
          /\ Month(result[d].finishedAt) \in Nat
          /\ Month(result[d].finishedAt) >= Month(now)
    <3> SUFFICES ASSUME result[d] # None
                 PROVE  /\ Month(result[d].finishedAt) \in Nat
                        /\ Month(result[d].finishedAt) >= Month(now)
      OBVIOUS
    <3>1. result[d].finishedAt \in Nat
      BY <2>1, NumberAssumption DEF Inductive, TypeOK, ResultRows, Time
    <3>2. Month(result[d].finishedAt) \in Nat
      BY <3>1, MonthBounds
    <3> QED
      BY <2>1, <2>2, <3>2, MonthsPass
  <2>4. d \in MayCost
    BY <2>1, <2>2, <2>3 DEF MayCost, Admitted
  <2>5. input[d].expected \in Nat /\ Amounts[d] = input[d].expected
    BY <2>1, <2>2, CostWithinAmount, AmountsType
  <2>6. Amounts'[d] = input'[d].expected
    BY <2>1, <2>2 DEF Amounts, Amount, AnswersTrue
  <2> QED
    BY <2>2, <2>4, <2>5, <2>6
<1>3. Amounts \in Fees /\ Amounts' \in Fees
  BY AmountsType, FeesNext DEF Fees
<1>4. S \in SUBSET MayCost /\ \A d \in S : Amounts'[d] <= Amounts[d]
  BY <1>2
<1> QED
  BY <1>1, <1>3, <1>4, TotalMonotone, TotalType

LEMMA BillsFitStep ==
  ASSUME Inductive, Inductive', AnswersTrue, AnswersTrue', RowsMinted,
         BooksExplained, BilledAtCost, InitialUse = 0, ~LateBilling,
         BillsFit, [Next]_vars
  PROVE  BillsFit'
<1> DEFINE may == Total(Amounts, MayCost)
<1>1. billed \in Nat /\ MayCost \in SUBSET Call /\ MayCost' \in SUBSET Call
      /\ may \in Nat /\ Total(Amounts', MayCost') \in Nat
  <2>1. MayCost \in SUBSET Call /\ MayCost' \in SUBSET Call
    BY DEF MayCost, Admitted
  <2> QED
    BY <2>1, TotalType DEF Inductive, TypeOK
<1>2. ASSUME NEW c \in Call, ProviderServes(c) PROVE BillsFit'
  <2>1. /\ UNCHANGED <<now, store, input>> /\ request[c] # None /\ reply[c] = None
        /\ c \in MayBeBilled /\ reply'[c] # None
        /\ reply'[c].cost \in Nat /\ reply'[c].cost <= input[c].expected
        /\ billed' = billed + reply'[c].cost
        /\ \A d \in Call \ {c} : reply'[d] = reply[d]
    BY <1>2, ServeDetail
  <2>2. Amounts' = Amounts
    BY <2>1 DEF store, Amounts, Amount
  <2>3. c \in MayCost
    BY <2>1, MayCostIsLiable
  <2>4. MayCost' = MayCost \ {c}
    BY <2>1 DEF store, MayCost, Admitted
  <2>5. Amounts[c] = input[c].expected /\ Amounts \in Fees
    BY <2>1, CostWithinAmount, AmountsType
  <2> DEFINE S == MayCost \ {c}
  <2>6. S \in SUBSET Call /\ S \cap {c} = {} /\ S \union {c} = MayCost
        /\ {c} \in SUBSET Call
    BY <1>1, <2>3
  <2>7. may = Total(Amounts, S) + Total(Amounts, {c})
    BY <2>6, TotalUnion
  <2>8. Total(Amounts, {c}) = input[c].expected /\ input[c].expected \in Nat
    BY <2>5, TotalOne
  <2>9. Total(Amounts, S) \in Nat
    BY <2>6, TotalType
  <2>10. billed' + Total(Amounts, S) <= MonthlyLimit
    BY <1>1, <2>1, <2>7, <2>8, <2>9, NumberAssumption DEF BillsFit
  <2> QED
    BY <2>2, <2>4, <2>10 DEF BillsFit
<1>3. ASSUME NEW c \in Call, Decide(c) PROVE BillsFit'
  <2>1. /\ UNCHANGED <<input, billed, reply>> /\ request[c] = None
        /\ result'[c] = None /\ input[c] \in Request /\ pc[c] = "trying"
        /\ \A d \in Call \ {c} : request'[d] = request[d]
        /\ request' # request =>
             Affordable(c, Abandon(input[c].key), BudgetRow(Month(now)))
    BY <1>3, DecideDetail DEF Decide
  <2>2. ~(\E d \in Call : ProviderServes(d))
    <3>1. ASSUME NEW d \in Call, ProviderServes(d) PROVE FALSE
      BY <2>1, <3>1, ServeDetail
    <3> QED
      BY <3>1
  <2> DEFINE S == MayCost' \ {c}
  <2>3. /\ S \in SUBSET MayCost' /\ \A d \in S : request[d] # None
    BY <2>1 DEF MayCost, Admitted
  <2>4. /\ S \in SUBSET Call /\ Total(Amounts', S) \in Nat
        /\ Total(Amounts', S) <= may
    BY <2>2, <2>3, MayCostShrinks
  <2>5. CASE c \notin MayCost'
    <3>1. S = MayCost'
      BY <2>5
    <3> HIDE DEF S
    <3>2. Total(Amounts', MayCost') <= may
      BY <2>4, <3>1
    <3> QED
      BY <1>1, <2>1, <3>2, NumberAssumption DEF BillsFit
  <2>6. CASE c \in MayCost'
    <3>1. request'[c] # None /\ request' # request
      BY <2>1, <2>6 DEF MayCost, Admitted
    <3>2. Amounts'[c] = input[c].expected /\ Amounts' \in Fees
      BY <2>1, <3>1, FeesNext DEF Amounts, Amount, Fees
    <3>3. S \cap {c} = {} /\ S \union {c} = MayCost' /\ {c} \in SUBSET Call
      BY <2>6
    <3>4. Total(Amounts', MayCost') = Total(Amounts', S) + Total(Amounts', {c})
      BY <2>4, <3>3, TotalUnion
    <3>5. Total(Amounts', {c}) = input[c].expected /\ input[c].expected \in Nat
      BY <3>2, TotalOne
    <3>6. billed + may + input[c].expected <= MonthlyLimit
      <4>1. CASE input[c].expected > 0
        BY <2>1, <3>1, <4>1, AdmissionCovered
      <4>2. CASE input[c].expected = 0
        BY <1>1, <4>2, NumberAssumption DEF BillsFit
      <4> QED
        BY <3>5, <4>1, <4>2
    <3> QED
      BY <1>1, <2>1, <2>4, <3>4, <3>5, <3>6, NumberAssumption DEF BillsFit
  <2> QED
    BY <2>5, <2>6
<1>4. CASE ~(\E c \in Call : Decide(c) \/ ProviderServes(c))
  <2>1. \A d \in Call : request'[d] # None => request[d] # None
    <3>1. CASE \E c \in Call : Complete(c)
      BY <3>1, CompleteDetail
    <3>2. CASE ~(\E c \in Call : Complete(c))
      BY <1>4, <3>2, StoreKept
    <3> QED
      BY <3>1, <3>2
  <2>2. MayCost' \in SUBSET MayCost' /\ \A d \in MayCost' : request[d] # None
    BY <2>1 DEF MayCost, Admitted
  <2>3. Total(Amounts', MayCost') <= may
    BY <1>4, <2>2, MayCostShrinks
  <2>4. billed' \in {billed, 0}
    BY <1>4, BookSteps
  <2> QED
    BY <1>1, <2>3, <2>4, NumberAssumption DEF BillsFit
<1> QED
  BY <1>2, <1>3, <1>4

(* On an account the store has for itself the provider never bills more    *)
(* than the monthly limit between two resets, at any instant they come.    *)
THEOREM BillsHold ==
  ASSUME ~LateBilling, InitialUse = 0
  PROVE  Spec => []BilledWithinLimit
<1> DEFINE Books == Inductive /\ AnswersTrue /\ RowsMinted /\ BooksExplained
           Bills == BilledAtCost /\ BillsFit
<1>1. Init => Books /\ Bills
  <2> SUFFICES ASSUME Init PROVE Bills
    BY InitInductive, BooksInit
  <2>1. Served = {} /\ MayCost = {} /\ billed = 0
    BY DEF Init, Served, MayCost, Admitted
  <2>2. Total(Costs, {}) \in Nat /\ Total(Amounts, {}) = 0
    <3>1. Fee(Amounts, {}) = {}
      BY DEF Fee
    <3> QED
      BY <3>1, TotalType, FS_EmptySet DEF Total
  <2> QED
    BY <2>1, <2>2, NumberAssumption DEF BilledAtCost, BillsFit
<1>2. Books /\ Bills /\ [Next]_vars => (Books /\ Bills)'
  <2> SUFFICES ASSUME Books, Bills, [Next]_vars PROVE (Books /\ Bills)'
    OBVIOUS
  <2>1. Books'
    BY StepInductive, AnswersStep, RowsStep, BooksStep
  <2> QED
    BY <2>1, BilledAtCostStep, BillsFitStep
<1>3. Books /\ Bills => BilledWithinLimit
  <2> SUFFICES ASSUME Books, Bills PROVE BilledWithinLimit
    OBVIOUS
  <2>1. billed \in Nat /\ MayCost \in SUBSET Call
    BY DEF Inductive, TypeOK, MayCost, Admitted
  <2> QED
    BY <2>1, TotalType, NumberAssumption DEF BillsFit, BilledWithinLimit
<1> QED
  BY <1>1, <1>2, <1>3, PTL DEF Spec
==============================================================================
