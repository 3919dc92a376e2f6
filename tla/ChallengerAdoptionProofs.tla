------------------------ MODULE ChallengerAdoptionProofs ------------------------
(* The registry for any versions, matches, test sizes and runs: the deployments *)
(* have one history, a rollback is earned by failures of the deployment it      *)
(* removes, and no outcome chooses a forecast for the test.                     *)
EXTENDS ChallengerAdoption, FiniteSetTheorems, TLAPS

Steps == {"idle", "listing", "assessing", "reading", "working", "checking", "recording"}
DossierRow == [candidate : Version, reference : Version, at : 0..MaxTime]
Event == [action : {"ADOPT", "ROLLBACK"}, dossier : Nat, at : 0..MaxTime, from : Version, to : Version]
CheckRow == [version : Version, match : Match, at : 0..MaxTime, passed : BOOLEAN]
Memory == [list : Nat \cup {None}, version : Version \cup {None}, done : SUBSET Match,
           match : Match \cup {None}, at : Nat, kickoff : Nat]

Types ==
    /\ TypeOK
    /\ dossiers \in Seq(DossierRow) /\ events \in Seq(Event) /\ checks \in Seq(CheckRow)
    /\ reviews \in Seq({"none", "ADOPT", "REJECT"}) /\ Len(reviews) = Len(dossiers)
    /\ pc \in [Runs -> Steps] /\ mem \in [Runs -> Memory]

\* What a run remembers at the steps that use it.
Local(r) ==
    /\ pc[r] = "assessing" => mem[r].list # None
    /\ pc[r] \in {"working", "checking", "recording"} => mem[r].version \in Version
    /\ pc[r] \in {"checking", "recording"} => mem[r].match \in Match /\ mem[r].at <= now

\* The adoptions carry a verdict, and only one for each dossier.
History ==
    /\ \A i \in DOMAIN events : ReplacesItsReference(i)
    /\ \A i, j \in DOMAIN events : events[i].action = "ADOPT" =>
          /\ reviews[events[i].dossier] = "ADOPT"
          /\ events[j].action = "ADOPT" /\ events[j].dossier = events[i].dossier => i = j

\* A dossier has one forecast of a match, made before the kickoff, and a label is
\* written when that kickoff is long past.
Evidence ==
    /\ \A f \in forecasts : f.at < f.kickoff
    /\ \A f, g \in forecasts : f.dossier = g.dossier /\ f.match = g.match => f = g
    /\ \A o \in results : \E f \in forecasts :
          f.dossier = o.dossier /\ f.match = o.match /\ o.at >= f.kickoff + ResultDelay

Inductive == Types /\ (\A r \in Runs : Local(r)) /\ History /\ RollbackEarned /\ Evidence

-----------------------------------------------------------------------------
(* Sequences that grow, and the parts of the invariant that a step leaves.   *)

LEMMA Numbers ==
    /\ {TestSize, Failures} \subseteq Nat \ {0} /\ Match \subseteq Nat /\ None \notin Nat
    /\ {ResultDelay, Fresh, HealthFor, Night, MaxTime} \subseteq Nat /\ Fresh <= ResultDelay
BY AdoptionAssumption

LEMMA Appended ==
    ASSUME NEW T, NEW s \in Seq(T), NEW e \in T, NEW t, t = Append(s, e)
    PROVE  /\ t \in Seq(T) /\ Len(t) = Len(s) + 1 /\ Len(s) \in Nat
           /\ DOMAIN s = 1..Len(s) /\ DOMAIN t = 1..(Len(s) + 1)
           /\ t[Len(s) + 1] = e /\ \A i \in 1..Len(s) : t[i] = s[i]
           /\ s # <<>> => Len(s) \in DOMAIN s
OBVIOUS

LEMMA IsSequence ==
    ASSUME NEW T, NEW n \in Nat, NEW s \in [1..n -> T]
    PROVE  s \in Seq(T) /\ Len(s) = n
OBVIOUS

LEMMA SmallestNat ==
    ASSUME NEW S \in SUBSET Nat, S # {}
    PROVE  \E d \in S : \A e \in S : d <= e
<1>1. PICK d \in S : \A e \in S : <<e, d>> \notin OpToRel(<, Nat)
  BY NatLessThanWellFounded, WFMin
<1>2. \A e \in S : ~(e < d)
  BY <1>1 DEF OpToRel
<1> QED  BY <1>2

LEMMA HistorySame ==
    ASSUME History, UNCHANGED <<events, dossiers, reviews>>
    PROVE  History'
BY DEF History, ReplacesItsReference, InForceBefore

LEMMA EvidenceSame ==
    ASSUME Evidence, UNCHANGED <<forecasts, results>>
    PROVE  Evidence'
BY DEF Evidence

LEMMA EarnedSame ==
    ASSUME RollbackEarned, UNCHANGED <<events, checks>>
    PROVE  RollbackEarned'
BY DEF RollbackEarned

\* The other runs are not touched.
LEMMA OthersKeep ==
    ASSUME Inductive, now' \in Nat, now <= now', NEW s \in Runs, pc'[s] = pc[s], mem'[s] = mem[s]
    PROVE  Local(s)'
<1>1. Local(s) /\ now \in Nat /\ mem[s].at \in Nat
  BY Numbers DEF Inductive, Types, TypeOK, Memory
<1> QED  BY <1>1 DEF Local

\* The types of a state whose registry only grows.
LEMMA TypesKeep ==
    ASSUME Types, now' \in 0..MaxTime, now <= now',
           kickoff' \in [Match -> Nat], score' \in [Match -> {None, 0, 1}],
           UNCHANGED <<registryVars, checks>>, pc' \in [Runs -> Steps], mem' \in [Runs -> Memory],
           \A r \in Runs : mem'[r].list \in Dossier \cup {0, None}
    PROVE  Types'
<1>1. now \in Nat /\ now' \in Nat /\ 0..now \subseteq 0..now'
  BY Numbers DEF Types, TypeOK
<1>2. \A r \in Runs : mem'[r].version \in Version \cup {None}
  BY DEF Memory
<1>3. forecasts \subseteq [dossier : Dossier, match : Match, at : 0..now', kickoff : Nat, frozen : 0..now']
  BY <1>1 DEF Types, TypeOK
<1>4. results \subseteq [dossier : Dossier, match : Match, score : {0, 1}, at : 0..now']
  BY <1>1 DEF Types, TypeOK
<1>5. /\ \A d \in Dossier : /\ dossiers[d] \in [candidate : Version, reference : Version, at : 0..now']
                            /\ dossiers[d].candidate # dossiers[d].reference
      /\ \A i \in DOMAIN events :
            events[i] \in [action : {"ADOPT", "ROLLBACK"}, dossier : Dossier, at : 0..now',
                           from : Version, to : Version]
      /\ \A i \in DOMAIN checks :
            checks[i] \in [version : Version, match : Match, at : 0..now', passed : BOOLEAN]
  BY <1>1 DEF Types, TypeOK
<1>6. UNCHANGED <<dossiers, forecasts, results, reviews, events>>
  BY DEF registryVars
<1> QED  BY <1>2, <1>3, <1>4, <1>5, <1>6 DEF Types, TypeOK, Dossier

LEMMA RegistrySame ==
    ASSUME Inductive, now' \in 0..MaxTime, now <= now',
           kickoff' \in [Match -> Nat], score' \in [Match -> {None, 0, 1}],
           UNCHANGED <<registryVars, checks>>, pc' \in [Runs -> Steps], mem' \in [Runs -> Memory],
           \A r \in Runs : mem'[r].list \in Dossier \cup {0, None},
           \A r \in Runs : Local(r)'
    PROVE  Inductive'
<1>1. Types'
  BY TypesKeep DEF Inductive
<1>2. History' /\ RollbackEarned' /\ Evidence'
  BY HistorySame, EarnedSame, EvidenceSame DEF Inductive, registryVars
<1> QED  BY <1>1, <1>2 DEF Inductive

\* A run goes to a step and remembers something else.
LEMMA RunFacts ==
    ASSUME Inductive, NEW r \in Runs, NEW step \in Steps, NEW rest \in Memory, Goto(r, step),
           mem' = [mem EXCEPT ![r] = rest], rest.list \in Dossier \cup {0, None}
    PROVE  /\ pc' \in [Runs -> Steps] /\ mem' \in [Runs -> Memory]
           /\ pc'[r] = step /\ mem'[r] = rest
           /\ \A s \in Runs \ {r} : pc'[s] = pc[s] /\ mem'[s] = mem[s]
           /\ \A s \in Runs : mem'[s].list \in Dossier \cup {0, None}
BY DEF Inductive, Types, TypeOK, Goto

\* A step of a run that leaves the registry, the log of checks and the fixtures alone.
LEMMA RunKeeps ==
    ASSUME Inductive, NEW r \in Runs, NEW step \in Steps, NEW rest \in Memory, Goto(r, step),
           mem' = [mem EXCEPT ![r] = rest], rest.list \in Dossier \cup {0, None},
           step = "assessing" => rest.list # None,
           step \in {"working", "checking", "recording"} => rest.version \in Version,
           step \in {"checking", "recording"} => rest.match \in Match /\ rest.at <= now,
           Untouched, UNCHANGED <<registryVars, checks>>
    PROVE  Inductive'
<1>1. /\ pc' \in [Runs -> Steps] /\ mem' \in [Runs -> Memory]
      /\ pc'[r] = step /\ mem'[r] = rest
      /\ \A s \in Runs \ {r} : pc'[s] = pc[s] /\ mem'[s] = mem[s]
      /\ \A s \in Runs : mem'[s].list \in Dossier \cup {0, None}
  BY RunFacts
<1>2. now \in 0..MaxTime /\ now \in Nat /\ UNCHANGED <<now, kickoff, score>>
  BY Numbers DEF Untouched, fixtureVars, Inductive, Types, TypeOK
<1>3. Local(r)'
  BY <1>1, <1>2 DEF Local
<1>4. \A s \in Runs : Local(s)'
  BY <1>1, <1>2, <1>3, OthersKeep
<1>5. now <= now' /\ kickoff' \in [Match -> Nat] /\ score' \in [Match -> {None, 0, 1}]
  BY <1>2 DEF Inductive, Types, TypeOK
<1> QED  BY <1>1, <1>2, <1>4, <1>5, RegistrySame

-----------------------------------------------------------------------------
(* Every step keeps the invariant.                                           *)

LEMMA InitInductive == Init => Inductive
<1> SUFFICES ASSUME Init PROVE Inductive
  OBVIOUS
<1>1. Blank \in Memory /\ Blank.list = None /\ Blank.version = None
  BY DEF Blank, Memory
<1>2. Dossier = {} /\ Len(<<>>) = 0 /\ DOMAIN events = {} /\ DOMAIN checks = {}
  BY DEF Init, Dossier
<1>3. TypeOK
  BY <1>1, <1>2, Numbers, AdoptionAssumption DEF Init, TypeOK
<1>4. Types
  BY <1>1, <1>3 DEF Init, Types, Steps
<1>5. (\A r \in Runs : Local(r)) /\ History /\ RollbackEarned /\ Evidence
  BY <1>2 DEF Init, Local, History, RollbackEarned, Evidence
<1> QED  BY <1>4, <1>5 DEF Inductive

LEMMA OldestFacts == Types => Oldest \in Dossier \cup {0} /\ Oldest \in Nat
<1> SUFFICES ASSUME Types PROVE Oldest \in Dossier \cup {0} /\ Oldest \in Nat
  OBVIOUS
<1>1. Dossier \subseteq Nat
  BY DEF Types, Dossier
<1>2. Oldest \in Dossier \cup {0}
  <2>1. CASE ~\E d \in Dossier : Collecting(d)
    BY <2>1 DEF Oldest
  <2>2. CASE \E d \in Dossier : Collecting(d)
    <3>1. \E d \in Dossier : Collecting(d) /\ \A e \in Dossier : Collecting(e) => d <= e
      <4> DEFINE C == {d \in Dossier : Collecting(d)}
      <4>1. \E d \in C : \A e \in C : d <= e
        BY <1>1, <2>2, SmallestNat
      <4> QED  BY <4>1
    <3> QED  BY <2>2, <3>1 DEF Oldest
  <2> QED  BY <2>1, <2>2
<1> QED  BY <1>1, <1>2

LEMMA InForceType == Types => InForce \in Version
<1> SUFFICES ASSUME Types PROVE InForce \in Version
  OBVIOUS
<1>1. CASE events = <<>>
  BY <1>1, AdoptionAssumption DEF InForce
<1>2. CASE events # <<>>
  <2>1. events \in Seq(Event) /\ Len(events) \in DOMAIN events
    BY <1>2 DEF Types
  <2>2. Last(events) = events[Len(events)] /\ events[Len(events)] \in Event
    BY <2>1 DEF Last
  <2> QED  BY <1>2, <2>2 DEF InForce, Event
<1> QED  BY <1>1, <1>2

LEMMA ListKeeps == ASSUME Inductive, NEW r \in Runs, List(r) PROVE Inductive'
<1> DEFINE rest == [mem[r] EXCEPT !.list = Oldest]
<1>1. Oldest \in Dossier \cup {0} /\ Oldest \in Nat /\ mem[r] \in Memory
  BY OldestFacts DEF Inductive, Types
<1>2. rest \in Memory /\ rest.list = Oldest /\ Oldest # None /\ mem' = [mem EXCEPT ![r] = rest]
  BY <1>1, Numbers DEF Memory, List
<1>3. "assessing" \in Steps /\ Goto(r, "assessing")
  BY DEF Steps, List
<1> HIDE DEF rest
<1> QED  BY <1>1, <1>2, <1>3, RunKeeps DEF List

LEMMA ReadStateKeeps == ASSUME Inductive, NEW r \in Runs, ReadState(r) PROVE Inductive'
<1> DEFINE rest == [mem[r] EXCEPT !.version = InForce]
<1>1. InForce \in Version /\ mem[r] \in Memory /\ mem[r].list \in Dossier \cup {0, None}
  BY InForceType DEF Inductive, Types, TypeOK
<1>2. rest \in Memory /\ rest.list = mem[r].list /\ rest.version = InForce
  BY <1>1 DEF Memory
<1>3. mem' = [mem EXCEPT ![r] = rest] /\ "working" \in Steps /\ Goto(r, "working")
  BY DEF Steps, ReadState
<1> HIDE DEF rest
<1> QED  BY <1>1, <1>2, <1>3, RunKeeps DEF ReadState

LEMMA ObserveKeeps == ASSUME Inductive, NEW r \in Runs, NEW m \in Match, Observe(r, m) PROVE Inductive'
<1> DEFINE rest == [mem[r] EXCEPT !.done = @ \cup {m}, !.match = m, !.at = now, !.kickoff = kickoff[m]]
<1>1. /\ mem[r] \in Memory /\ mem[r].list \in Dossier \cup {0, None} /\ mem[r].version \in Version
      /\ now \in Nat /\ kickoff[m] \in Nat
  BY Numbers DEF Inductive, Types, TypeOK, Local, Observe
<1>2. rest \in Memory /\ rest.list = mem[r].list /\ rest.version = mem[r].version /\ rest.match = m /\ rest.at = now
  BY <1>1 DEF Memory
<1>3. mem' = [mem EXCEPT ![r] = rest] /\ "checking" \in Steps /\ Goto(r, "checking")
  BY DEF Steps, Observe
<1>4. rest.list \in Dossier \cup {0, None} /\ rest.version \in Version /\ rest.match \in Match /\ rest.at <= now
  BY <1>1, <1>2
<1>5. Untouched /\ UNCHANGED <<registryVars, checks>>
  BY DEF Observe
<1> HIDE DEF rest
<1> QED  BY <1>2, <1>3, <1>4, <1>5, RunKeeps

LEMMA EndKeeps == ASSUME Inductive, NEW r \in Runs, End(r) PROVE Inductive'
<1>1. Blank \in Memory /\ Blank.list = None /\ "idle" \in Steps
  BY DEF Blank, Memory, Steps
<1> QED  BY <1>1, RunKeeps DEF End

\* The fixtures and the clock.
LEMMA WorldKeeps ==
    ASSUME Inductive, now' \in 0..MaxTime, now <= now',
           kickoff' \in [Match -> Nat], score' \in [Match -> {None, 0, 1}],
           UNCHANGED <<registryVars, checks, pc, mem>>
    PROVE  Inductive'
<1>1. /\ pc' \in [Runs -> Steps] /\ mem' \in [Runs -> Memory] /\ now' \in Nat
      /\ \A r \in Runs : mem'[r].list \in Dossier \cup {0, None}
  BY Numbers DEF Inductive, Types, TypeOK
<1>2. \A r \in Runs : Local(r)'
  BY <1>1, OthersKeep
<1> QED  BY <1>1, <1>2, RegistrySame

LEMMA FixturesKeep ==
    ASSUME Inductive, Tick \/ UNCHANGED vars \/ \E m \in Match : Move(m) \/ Correct(m) \/ Play(m)
    PROVE  Inductive'
<1>1. now \in 0..MaxTime /\ now \in Nat /\ kickoff \in [Match -> Nat] /\ score \in [Match -> {None, 0, 1}]
  BY Numbers DEF Inductive, Types, TypeOK
<1>2. CASE Tick
  BY <1>1, <1>2, WorldKeeps, Numbers DEF Tick, fixtureVars
<1>3. CASE UNCHANGED vars
  BY <1>1, <1>3, WorldKeeps DEF vars, fixtureVars
<1>4. ASSUME NEW m \in Match, Move(m) PROVE Inductive'
  <2>1. kickoff' \in [Match -> Nat]
    BY <1>1, <1>4, Numbers DEF Move
  <2> QED  BY <1>1, <1>4, <2>1, WorldKeeps DEF Move
<1>5. ASSUME NEW m \in Match, Play(m) PROVE Inductive'
  BY <1>1, <1>5, WorldKeeps DEF Play
<1>6. ASSUME NEW m \in Match, Correct(m) PROVE Inductive'
  <2>1. score[m] \in {0, 1}
    BY <1>1, <1>6 DEF Correct
  <2>2. score' \in [Match -> {None, 0, 1}]
    BY <1>1, <1>6, <2>1 DEF Correct
  <2> QED  BY <1>1, <1>6, <2>2, WorldKeeps DEF Correct
<1> QED  BY <1>2, <1>3, <1>4, <1>5, <1>6

LEMMA RegisterKeeps == ASSUME Inductive, NEW v \in Version, Register(v) PROVE Inductive'
<1> DEFINE new == [candidate |-> v, reference |-> InForce, at |-> now]
<1>a. Types /\ InForce \in Version
  BY InForceType DEF Inductive
<1>0. now \in Nat /\ now \in 0..MaxTime
  BY <1>a, Numbers DEF Types, TypeOK
<1>1. /\ Types /\ InForce \in Version /\ now \in Nat /\ now \in 0..MaxTime /\ now' = now /\ v # InForce
      /\ dossiers' = Append(dossiers, new) /\ reviews' = Append(reviews, "none")
      /\ UNCHANGED <<kickoff, score, forecasts, results, events, checks, pc, mem>>
  BY <1>a, <1>0 DEF Register, Registrable, fixtureVars
<1>2. new \in [candidate : Version, reference : Version, at : 0..now] /\ new \in DossierRow /\ new.candidate # new.reference
  BY <1>1 DEF DossierRow
<1> HIDE DEF new
<1>3. /\ dossiers' \in Seq(DossierRow) /\ Len(dossiers') = Len(dossiers) + 1 /\ Len(dossiers) \in Nat
      /\ Dossier = 1..Len(dossiers) /\ Dossier' = 1..(Len(dossiers) + 1)
      /\ dossiers'[Len(dossiers) + 1] = new /\ \A d \in Dossier : dossiers'[d] = dossiers[d]
  BY <1>1, <1>2, Appended DEF Types, Dossier
<1>4. /\ reviews' \in Seq({"none", "ADOPT", "REJECT"}) /\ Len(reviews') = Len(dossiers')
      /\ DOMAIN reviews' = Dossier' /\ \A d \in Dossier : reviews'[d] = reviews[d]
  <2>1. "none" \in {"none", "ADOPT", "REJECT"} /\ reviews \in Seq({"none", "ADOPT", "REJECT"})
    BY <1>1 DEF Types
  <2> QED  BY <1>1, <1>3, <2>1, Appended DEF Types
<1>5. Dossier \subseteq Dossier' /\ Dossier' = Dossier \cup {Len(dossiers) + 1}
  BY <1>3
<1>6. Types'
  <2>1. \A d \in Dossier' : /\ dossiers'[d] \in [candidate : Version, reference : Version, at : 0..now]
                            /\ dossiers'[d].candidate # dossiers'[d].reference
    BY <1>1, <1>2, <1>3, <1>5 DEF Types, TypeOK
  <2>2. /\ forecasts' \subseteq [dossier : Dossier', match : Match, at : 0..now, kickoff : Nat, frozen : 0..now]
        /\ results' \subseteq [dossier : Dossier', match : Match, score : {0, 1}, at : 0..now]
    BY <1>1, <1>5 DEF Types, TypeOK
  <2>3. \A i \in DOMAIN events : events[i] \in [action : {"ADOPT", "ROLLBACK"}, dossier : Dossier', at : 0..now,
                                                 from : Version, to : Version]
    BY <1>1, <1>5 DEF Types, TypeOK
  <2>4. reviews' \in [Dossier' -> {"none", "ADOPT", "REJECT"}]
    BY <1>4
  <2>5. \A r \in Runs : mem[r].list \in Dossier' \cup {0, None} /\ mem[r].version \in Version \cup {None}
    BY <1>1, <1>5 DEF Types, TypeOK
  <2>6. TypeOK'
    BY <1>1, <2>1, <2>2, <2>3, <2>4, <2>5 DEF Types, TypeOK
  <2> QED  BY <1>1, <1>3, <1>4, <2>6 DEF Types
<1>7. \A r \in Runs : Local(r)'
  BY <1>1, OthersKeep
<1>8. History'
  <2>1. \A i \in DOMAIN events : events[i].dossier \in Dossier
    BY <1>1 DEF Types, TypeOK
  <2> QED  BY <1>1, <1>3, <1>4, <2>1 DEF Inductive, History, ReplacesItsReference, InForceBefore
<1>9. RollbackEarned' /\ Evidence'
  BY <1>1, EarnedSame, EvidenceSame DEF Inductive
<1> QED  BY <1>6, <1>7, <1>8, <1>9 DEF Inductive

-----------------------------------------------------------------------------
(* The events, and the failures that earn a rollback.                        *)

\* The matches whose failed checks of a deployment lie between two instants.
FailedMatches(version, first, last) ==
    {m \in Match : \E j \in DOMAIN checks :
        /\ checks[j].match = m /\ ~checks[j].passed /\ checks[j].version = version
        /\ first <= checks[j].at /\ checks[j].at <= last}

LEMMA ImageIsFinite ==
    ASSUME NEW J, IsFiniteSet(J), NEW B, NEW g, \A b \in B : \E j \in J : b = g[j]
    PROVE  IsFiniteSet(B)
<1> DEFINE all == {g[j] : j \in J}
           h == [j \in J |-> g[j]]
<1>1. h \in Surjection(J, all)
  BY DEF Surjection
<1>2. IsFiniteSet(all)
  BY <1>1, FS_Surjection
<1>3. B \in SUBSET all
  OBVIOUS
<1> QED  BY <1>2, <1>3, FS_Subset

LEMMA ChecksAreFinite == Types => IsFiniteSet(DOMAIN checks) /\ DOMAIN checks \subseteq Nat
<1> SUFFICES ASSUME Types PROVE IsFiniteSet(DOMAIN checks) /\ DOMAIN checks \subseteq Nat
  OBVIOUS
<1>1. checks \in Seq(CheckRow)
  BY DEF Types
<1>2. DOMAIN checks = 1..Len(checks) /\ Len(checks) \in Nat
  BY <1>1
<1> QED  BY <1>2, FS_Interval

LEMMA FailedMatchesFinite ==
    ASSUME Types, NEW version, NEW first, NEW last
    PROVE  IsFiniteSet(FailedMatches(version, first, last))
<1> DEFINE g == [j \in DOMAIN checks |-> checks[j].match]
           B == FailedMatches(version, first, last)
<1>1. \A b \in B : \E j \in DOMAIN checks : b = g[j]
  BY DEF FailedMatches
<1> HIDE DEF g, B
<1>2. IsFiniteSet(B)
  BY <1>1, ChecksAreFinite, ImageIsFinite
<1> QED  BY <1>2 DEF B

LEMMA LastEvent ==
    ASSUME Types, events # <<>>
    PROVE  /\ Len(events) \in DOMAIN events /\ Last(events) = events[Len(events)]
           /\ Last(events) \in Event /\ Last(events).dossier \in Dossier
           /\ InForce = Last(events).to
<1>1. events \in Seq(Event) /\ Len(events) \in DOMAIN events
  BY DEF Types
<1>2. Last(events) = events[Len(events)]
  BY DEF Last
<1>3. Last(events).dossier \in Dossier
  BY <1>1, <1>2 DEF Types, TypeOK
<1> QED  BY <1>1, <1>2, <1>3 DEF InForce

LEMMA InForceIsBefore == Types => InForce = InForceBefore(Len(events) + 1)
<1> SUFFICES ASSUME Types PROVE InForce = InForceBefore(Len(events) + 1)
  OBVIOUS
<1>1. events \in Seq(Event) /\ Len(events) \in Nat /\ (events = <<>> <=> Len(events) = 0)
  BY DEF Types
<1>2. CASE events = <<>>
  BY <1>1, <1>2 DEF InForce, InForceBefore
<1>3. CASE events # <<>>
  <2>1. Len(events) + 1 # 1 /\ Len(events) + 1 - 1 = Len(events)
    BY <1>1, <1>3
  <2> QED  BY <1>1, <1>3, <2>1, LastEvent DEF InForceBefore
<1> QED  BY <1>2, <1>3

\* The checks that remove a deployment are of different matches.
LEMMA UnhealthyIsEarned ==
    ASSUME Types, Adopted, Unhealthy
    PROVE  Cardinality(FailedMatches(InForce, Last(events).at, now)) >= Failures
<1> DEFINE B == FailedMatches(InForce, Last(events).at, now)
           h == [i \in MostRecent |-> checks[i].match]
<1>1. IsFiniteSet(DOMAIN checks) /\ DOMAIN checks \subseteq Nat
  BY ChecksAreFinite
<1>2. MostRecent \subseteq LastOfMatch /\ LastOfMatch \subseteq DOMAIN checks
  BY DEF MostRecent, LastOfMatch
<1>3. ASSUME NEW i \in MostRecent PROVE checks[i].match \in B
  <2>1. /\ i \in DOMAIN checks /\ Counts(i) /\ ~checks[i].passed
        /\ checks[i].match \in Match /\ checks[i].at <= now
    BY <1>2, Numbers DEF Unhealthy, LastOfMatch, Types, TypeOK
  <2> QED  BY <2>1 DEF Counts, Since, FailedMatches
<1>4. ASSUME NEW i \in MostRecent, NEW j \in MostRecent, checks[i].match = checks[j].match PROVE i = j
  <2>1. i \in LastOfMatch /\ j \in LastOfMatch /\ i \in DOMAIN checks /\ j \in DOMAIN checks
    BY <1>2
  <2>2. ~After(i, j) /\ ~After(j, i)
    BY <1>4, <2>1 DEF LastOfMatch
  <2>3. i \in Nat /\ j \in Nat
    BY <1>1, <2>1
  <2>4. checks[i].at \in Nat /\ checks[j].at \in Nat
    BY <2>1, Numbers DEF Types, TypeOK
  <2> QED  BY <2>2, <2>3, <2>4 DEF After
<1>5. h \in Injection(MostRecent, B)
  <2>1. h \in [MostRecent -> B] /\ \A i, j \in MostRecent : h[i] = h[j] => i = j
    <3> HIDE DEF B
    <3> QED  BY <1>3, <1>4
  <2> QED  BY <2>1 DEF Injection, IsInjective
<1>6. IsFiniteSet(B)
  BY FailedMatchesFinite
<1>7. IsFiniteSet(MostRecent) /\ Cardinality(MostRecent) = Failures
  BY <1>1, <1>2, FS_Subset DEF Unhealthy
<1> HIDE DEF B, h
<1>8. Cardinality(MostRecent) <= Cardinality(B) /\ Cardinality(B) \in Nat
  BY <1>5, <1>6, FS_Injection, FS_CardinalityType
<1> QED  BY <1>7, <1>8, Numbers DEF B

LEMMA EarnedMeans ==
    RollbackEarned <=>
        \A i \in DOMAIN events : events[i].action = "ROLLBACK" =>
            Cardinality(FailedMatches(events[i].from, events[i - 1].at, events[i].at)) >= Failures
BY DEF RollbackEarned, FailedMatches

\* One more event, with what it must be.
LEMMA EventTypes ==
    ASSUME Inductive, NEW e \in Event, e.dossier \in Dossier, e.at = now, events' = Append(events, e)
    PROVE  /\ events' \in Seq(Event) /\ DOMAIN events' = DOMAIN events \cup {Len(events) + 1}
           /\ Len(events) \in Nat /\ DOMAIN events = 1..Len(events)
           /\ events'[Len(events) + 1] = e /\ \A i \in DOMAIN events : events'[i] = events[i]
           /\ \A i \in DOMAIN events' :
                 events'[i] \in [action : {"ADOPT", "ROLLBACK"}, dossier : Dossier, at : 0..now,
                                 from : Version, to : Version]
<1>1. events \in Seq(Event) /\ now \in Nat
  BY Numbers DEF Inductive, Types, TypeOK
<1>2. /\ events' \in Seq(Event) /\ DOMAIN events = 1..Len(events) /\ Len(events) \in Nat
      /\ DOMAIN events' = 1..(Len(events) + 1)
      /\ events'[Len(events) + 1] = e /\ \A i \in DOMAIN events : events'[i] = events[i]
  BY <1>1, Appended
<1>3. DOMAIN events' = DOMAIN events \cup {Len(events) + 1}
  BY <1>2
<1>4. e \in [action : {"ADOPT", "ROLLBACK"}, dossier : Dossier, at : 0..now, from : Version, to : Version]
  BY <1>1 DEF Event
<1>5. \A i \in DOMAIN events :
         events[i] \in [action : {"ADOPT", "ROLLBACK"}, dossier : Dossier, at : 0..now,
                        from : Version, to : Version]
  BY DEF Inductive, Types, TypeOK
<1> QED  BY <1>1, <1>2, <1>3, <1>4, <1>5

LEMMA RollbackHistory ==
    ASSUME Inductive, NEW e \in Event, e.dossier \in Dossier, e.at = now, events' = Append(events, e),
           UNCHANGED <<dossiers, reviews>>, Adopted, e.action = "ROLLBACK", e.from = InForce,
           e.to = Last(events).from, e.dossier = Last(events).dossier
    PROVE  History'
<1>0. PICK n : n = Len(events) + 1
  OBVIOUS
<1>1. /\ DOMAIN events' = DOMAIN events \cup {n} /\ n - 1 \in DOMAIN events /\ n \notin DOMAIN events
      /\ events'[n] = e /\ \A i \in DOMAIN events : events'[i] = events[i]
      /\ Last(events) = events[n - 1] /\ n > 1 /\ DOMAIN events = 1..(n - 1) /\ n \in Nat
  BY <1>0, EventTypes, LastEvent DEF Adopted, Inductive
<1>2. ReplacesItsReference(n)'
  <2>1. events'[n].from = events'[n - 1].to
    BY <1>1, LastEvent DEF Adopted, Inductive
  <2> QED  BY <1>1, <2>1 DEF ReplacesItsReference, InForceBefore, Adopted
<1>3. \A i \in DOMAIN events : ReplacesItsReference(i)'
  <2>1. \A i \in DOMAIN events : i = 1 \/ i - 1 \in DOMAIN events
    BY <1>1
  <2>2. \A i \in DOMAIN events : ReplacesItsReference(i)
    BY DEF Inductive, History
  <2> QED  BY <1>1, <2>1, <2>2 DEF ReplacesItsReference, InForceBefore
<1> QED  BY <1>1, <1>2, <1>3 DEF Inductive, History

LEMMA AdoptionHistory ==
    ASSUME Inductive, NEW e \in Event, e.dossier \in Dossier, e.at = now, events' = Append(events, e),
           UNCHANGED dossiers, e.action = "ADOPT", reviews[e.dossier] # "ADOPT",
           reviews' = [reviews EXCEPT ![e.dossier] = "ADOPT"], e.from = InForce,
           e.from = dossiers[e.dossier].reference, e.to = dossiers[e.dossier].candidate
    PROVE  History'
<1>0. PICK n : n = Len(events) + 1
  OBVIOUS
<1>1. /\ DOMAIN events' = DOMAIN events \cup {n} /\ n \notin DOMAIN events
      /\ events'[n] = e /\ \A i \in DOMAIN events : events'[i] = events[i]
      /\ DOMAIN events = 1..(n - 1) /\ n \in Nat /\ Len(events) = n - 1
  BY <1>0, EventTypes
<1>2. DOMAIN reviews = Dossier /\ \A i \in DOMAIN events : events[i].dossier \in Dossier
  BY DEF Inductive, Types, TypeOK
<1>3. InForce = InForceBefore(n)
  BY <1>0, InForceIsBefore DEF Inductive
<1>4. ReplacesItsReference(n)'
  <2>1. n = 1 \/ n - 1 \in DOMAIN events
    BY <1>1
  <2>2. InForceBefore(n)' = InForceBefore(n)
    BY <1>1, <2>1 DEF InForceBefore
  <2> QED  BY <1>1, <1>3, <2>2 DEF ReplacesItsReference
<1>5. \A i \in DOMAIN events : ReplacesItsReference(i)'
  <2>1. \A i \in DOMAIN events : i = 1 \/ i - 1 \in DOMAIN events
    BY <1>1
  <2>2. \A i \in DOMAIN events : ReplacesItsReference(i)
    BY DEF Inductive, History
  <2> QED  BY <1>1, <2>1, <2>2 DEF ReplacesItsReference, InForceBefore
<1>6. \A i \in DOMAIN events : events[i].action = "ADOPT" =>
         events[i].dossier # e.dossier /\ reviews'[events[i].dossier] = "ADOPT"
  BY <1>2 DEF Inductive, History
<1>7. reviews'[e.dossier] = "ADOPT"
  BY <1>2
<1> QED  BY <1>1, <1>4, <1>5, <1>6, <1>7 DEF Inductive, History

LEMMA EventEarned ==
    ASSUME Inductive, NEW e \in Event, e.dossier \in Dossier, e.at = now, events' = Append(events, e),
           UNCHANGED <<checks>>, e.action = "ROLLBACK" => Adopted /\ Unhealthy /\ e.from = InForce
    PROVE  RollbackEarned'
<1>0. PICK n : n = Len(events) + 1
  OBVIOUS
<1>1. /\ DOMAIN events' = DOMAIN events \cup {n}
      /\ events'[n] = e /\ \A i \in DOMAIN events : events'[i] = events[i]
      /\ DOMAIN events = 1..(n - 1) /\ n \in Nat /\ Len(events) = n - 1
  BY <1>0, EventTypes
<1>2. ASSUME NEW i \in DOMAIN events, events[i].action = "ROLLBACK"
      PROVE  Cardinality(FailedMatches(events'[i].from, events'[i - 1].at, events'[i].at)) >= Failures
  <2>1. i - 1 \in DOMAIN events
    BY <1>1, <1>2 DEF Inductive, History, ReplacesItsReference
  <2> QED  BY <1>1, <1>2, <2>1, EarnedMeans DEF Inductive
<1>3. CASE e.action = "ROLLBACK"
  <2>1. Cardinality(FailedMatches(InForce, Last(events).at, now)) >= Failures /\ Last(events) = events[n - 1]
        /\ n - 1 \in DOMAIN events
    BY <1>1, <1>3, UnhealthyIsEarned, LastEvent DEF Inductive, Adopted
  <2>2. Cardinality(FailedMatches(events'[n].from, events'[n - 1].at, events'[n].at)) >= Failures
    BY <1>1, <1>3, <2>1
  <2> QED  BY <1>1, <1>2, <2>2 DEF RollbackEarned, FailedMatches
<1>4. CASE e.action # "ROLLBACK"
  BY <1>1, <1>2, <1>4 DEF RollbackEarned, FailedMatches
<1> QED  BY <1>3, <1>4

\* The types when a run has written labels, verdicts and events.
LEMMA VerdictTypes ==
    ASSUME Inductive, Untouched, UNCHANGED <<dossiers, forecasts, checks>>,
           results' \subseteq [dossier : Dossier, match : Match, score : {0, 1}, at : 0..now],
           reviews' \in [Dossier -> {"none", "ADOPT", "REJECT"}], events' \in Seq(Event),
           \A i \in DOMAIN events' :
              events'[i] \in [action : {"ADOPT", "ROLLBACK"}, dossier : Dossier, at : 0..now,
                              from : Version, to : Version],
           pc' \in [Runs -> Steps], mem' \in [Runs -> Memory],
           \A r \in Runs : mem'[r].list \in Dossier \cup {0, None}
    PROVE  Types'
<1>1. UNCHANGED <<now, kickoff, score, Dossier>>
  BY DEF Untouched, fixtureVars, Dossier
<1>2. \A r \in Runs : mem'[r].version \in Version \cup {None}
  BY DEF Memory
<1>3. TypeOK'
  BY <1>1, <1>2 DEF Inductive, Types, TypeOK
<1>4. Dossier = 1..Len(dossiers) /\ Len(dossiers) \in Nat
  BY DEF Inductive, Types, Dossier
<1>5. reviews' \in Seq({"none", "ADOPT", "REJECT"}) /\ Len(reviews') = Len(dossiers)
  <2> DEFINE verdicts == {"none", "ADOPT", "REJECT"}
  <2>1. reviews' \in [1..Len(dossiers) -> verdicts] /\ Len(dossiers) \in Nat
    BY <1>4
  <2> HIDE DEF verdicts
  <2>2. reviews' \in Seq(verdicts) /\ Len(reviews') = Len(dossiers)
    BY <2>1, IsSequence
  <2> QED  BY <2>2 DEF verdicts
<1> QED  BY <1>3, <1>5 DEF Inductive, Types

LEMMA StartKeeps == ASSUME Inductive, NEW r \in Runs, Start(r) PROVE Inductive'
<1> DEFINE e == [action |-> "ROLLBACK", dossier |-> Last(events).dossier, at |-> now,
                 from |-> InForce, to |-> Last(events).from]
<1>1. /\ pc' \in [Runs -> Steps] /\ mem' \in [Runs -> Memory] /\ mem' = mem /\ pc'[r] = "listing"
      /\ \A s \in Runs \ {r} : pc'[s] = pc[s] /\ mem'[s] = mem[s]
      /\ \A s \in Runs : mem'[s].list \in Dossier \cup {0, None}
      /\ UNCHANGED <<now, kickoff, score, dossiers, forecasts, results, reviews, checks>>
  BY DEF Inductive, Types, TypeOK, Steps, Goto, Start, Untouched, fixtureVars
<1>2. now \in Nat /\ now \in 0..MaxTime
  BY Numbers DEF Inductive, Types, TypeOK
<1>3. \A s \in Runs : Local(s)'
  <2>1. Local(r)'
    BY <1>1 DEF Local
  <2> QED  BY <1>1, <1>2, <2>1, OthersKeep
<1>4. CASE UNCHANGED events
  <2>1. UNCHANGED <<registryVars, checks>> /\ kickoff' \in [Match -> Nat] /\ score' \in [Match -> {None, 0, 1}]
    BY <1>1, <1>4 DEF registryVars, Inductive, Types, TypeOK
  <2> QED  BY <1>1, <1>2, <1>3, <2>1, RegistrySame
<1>5. CASE Adopted /\ Unhealthy /\ events' = Append(events, e)
  <2>1. /\ e \in Event /\ e.dossier \in Dossier /\ e.at = now /\ e.action = "ROLLBACK"
        /\ e.from = InForce /\ e.to = Last(events).from /\ e.dossier = Last(events).dossier
    <3>1. Last(events) \in Event /\ Last(events).dossier \in Dossier /\ InForce = Last(events).to
      BY <1>5, LastEvent DEF Adopted, Inductive
    <3> QED  BY <1>2, <3>1 DEF Event
  <2> HIDE DEF e
  <2>2. History' /\ RollbackEarned' /\ Evidence'
    BY <1>1, <1>5, <2>1, RollbackHistory, EventEarned, EvidenceSame DEF Inductive
  <2>3. /\ results' \subseteq [dossier : Dossier, match : Match, score : {0, 1}, at : 0..now]
        /\ reviews' \in [Dossier -> {"none", "ADOPT", "REJECT"}]
    BY <1>1 DEF Inductive, Types, TypeOK
  <2>4. Untouched
    BY DEF Start
  <2>5. Types'
    BY <1>1, <1>5, <2>1, <2>3, <2>4, EventTypes, VerdictTypes
  <2> QED  BY <1>3, <2>2, <2>5 DEF Inductive
<1> QED  BY <1>4, <1>5 DEF Start, Rollback

\* Labels are written for forecasts whose kickoff is long past.
LEMMA SettleFacts ==
    ASSUME Inductive, NEW d \in Dossier
    PROVE  /\ Settle(d) \subseteq [dossier : Dossier, match : Match, score : {0, 1}, at : 0..now]
           /\ \A o \in Settle(d) : \E f \in forecasts :
                 f.dossier = o.dossier /\ f.match = o.match /\ o.at >= f.kickoff + ResultDelay
<1> DEFINE row(f) == [dossier |-> d, match |-> f.match, score |-> score[f.match], at |-> now]
<1>1. now \in Nat /\ results \subseteq [dossier : Dossier, match : Match, score : {0, 1}, at : 0..now]
  BY Numbers DEF Inductive, Types, TypeOK
<1>2. ASSUME NEW f \in OfDossier(d), Due(f)
      PROVE  /\ row(f) \in [dossier : Dossier, match : Match, score : {0, 1}, at : 0..now]
             /\ f \in forecasts /\ f.dossier = row(f).dossier /\ f.match = row(f).match
             /\ row(f).at >= f.kickoff + ResultDelay
  <2>1. f \in forecasts /\ f.dossier = d /\ f.match \in Match /\ f.kickoff \in Nat
    BY DEF OfDossier, Inductive, Types, TypeOK
  <2>2. score[f.match] \in {0, 1} /\ now >= f.kickoff + ResultDelay
    BY <1>2, <2>1 DEF Due, Inductive, Types, TypeOK
  <2> QED  BY <1>1, <2>1, <2>2
<1>3. ASSUME NEW o \in Settle(d)
      PROVE  o \in results \/ \E f \in OfDossier(d) : Due(f) /\ o = row(f)
  BY DEF Settle
<1>4. \A o \in results : \E f \in forecasts :
         f.dossier = o.dossier /\ f.match = o.match /\ o.at >= f.kickoff + ResultDelay
  BY DEF Inductive, Evidence
<1> HIDE DEF row
<1>5. \A o \in Settle(d) : /\ o \in [dossier : Dossier, match : Match, score : {0, 1}, at : 0..now]
                           /\ \E f \in forecasts : /\ f.dossier = o.dossier /\ f.match = o.match
                                                   /\ o.at >= f.kickoff + ResultDelay
  BY <1>1, <1>2, <1>3, <1>4
<1> QED  BY <1>5

\* A verdict that does not adopt.
LEMMA RejectionHistory ==
    ASSUME Inductive, NEW d \in Dossier, NEW verdict, UNCHANGED <<dossiers, events>>, reviews[d] = "none",
           reviews' = [reviews EXCEPT ![d] = verdict]
    PROVE  History'
<1>1. DOMAIN reviews = Dossier /\ \A i \in DOMAIN events : events[i].dossier \in Dossier
  BY DEF Inductive, Types, TypeOK
<1>2. \A i \in DOMAIN events : events[i].action = "ADOPT" => reviews'[events[i].dossier] = "ADOPT"
  BY <1>1 DEF Inductive, History
<1>3. \A i \in DOMAIN events : ReplacesItsReference(i)'
  BY DEF Inductive, History, ReplacesItsReference, InForceBefore
<1> QED  BY <1>2, <1>3 DEF Inductive, History

LEMMA ReviewKeeps == ASSUME Inductive, NEW r \in Runs, Review(r) PROVE Inductive'
<1> DEFINE rest == [mem[r] EXCEPT !.list = None]
           step == IF r \in Nightly THEN "reading" ELSE "idle"
           d == mem[r].list
<1>1. rest \in Memory /\ rest.list = None /\ step \in {"reading", "idle"} /\ step \in Steps
  BY DEF Inductive, Types, Memory, Steps
<1>2. mem' = [mem EXCEPT ![r] = rest] /\ Goto(r, step) /\ Untouched /\ UNCHANGED checks /\ Assess(d)
  BY DEF Review
<1>3. d \in Dossier \cup {0}
  BY DEF Inductive, Types, TypeOK, Local, Review
<1>4. CASE UNCHANGED registryVars
  <2> HIDE DEF rest, step, d
  <2>1. rest.list \in Dossier \cup {0, None} /\ step # "assessing" /\ step \notin {"working", "checking", "recording"}
    BY <1>1
  <2> QED  BY <1>1, <1>2, <1>4, <2>1, RunKeeps
<1>5. ASSUME d \in Dossier, reviews[d] = "none", dossiers[d].reference = InForce,
             results' = Settle(d), UNCHANGED <<dossiers, forecasts>>,
             \/ UNCHANGED <<reviews, events>>
             \/ UNCHANGED events /\ reviews' = [reviews EXCEPT ![d] = "REJECT"]
             \/ /\ reviews' = [reviews EXCEPT ![d] = "ADOPT"]
                /\ events' = Append(events, [action |-> "ADOPT", dossier |-> d, at |-> now,
                                 from |-> dossiers[d].reference, to |-> dossiers[d].candidate])
      PROVE  Inductive'
  <2> HIDE DEF rest, step
  <2>1. /\ pc' \in [Runs -> Steps] /\ mem' \in [Runs -> Memory] /\ pc'[r] = step
        /\ \A s \in Runs \ {r} : pc'[s] = pc[s] /\ mem'[s] = mem[s]
        /\ \A s \in Runs : mem'[s].list \in Dossier \cup {0, None}
    BY <1>1, <1>2, RunFacts
  <2>2. now \in Nat /\ now' = now /\ now \in 0..MaxTime
    BY <1>2, Numbers DEF Untouched, Inductive, Types, TypeOK
  <2>3. \A s \in Runs : Local(s)'
    <3>1. Local(r)'
      BY <1>1, <2>1 DEF Local
    <3> QED  BY <2>1, <2>2, <3>1, OthersKeep
  <2> HIDE DEF d
  <2>4. /\ results' \subseteq [dossier : Dossier, match : Match, score : {0, 1}, at : 0..now]
        /\ \A o \in results' : \E f \in forecasts :
              f.dossier = o.dossier /\ f.match = o.match /\ o.at >= f.kickoff + ResultDelay
    BY <1>5, SettleFacts
  <2>5. Evidence'
    BY <1>5, <2>4 DEF Inductive, Evidence
  <2>6. reviews' \in [Dossier -> {"none", "ADOPT", "REJECT"}]
    BY <1>5 DEF Inductive, Types, TypeOK
  <2>7. /\ events \in Seq(Event)
        /\ \A i \in DOMAIN events :
              events[i] \in [action : {"ADOPT", "ROLLBACK"}, dossier : Dossier, at : 0..now,
                             from : Version, to : Version]
    BY DEF Inductive, Types, TypeOK
  <2>8. CASE UNCHANGED <<reviews, events>>
    <3>1. Types'
      BY <1>2, <1>5, <2>1, <2>4, <2>6, <2>7, <2>8, VerdictTypes
    <3>2. History' /\ RollbackEarned'
      BY <1>2, <1>5, <2>8, HistorySame, EarnedSame DEF Inductive
    <3> QED  BY <2>3, <2>5, <3>1, <3>2 DEF Inductive
  <2>9. CASE UNCHANGED events /\ reviews' = [reviews EXCEPT ![d] = "REJECT"]
    <3>1. Types'
      BY <1>2, <1>5, <2>1, <2>4, <2>6, <2>7, <2>9, VerdictTypes
    <3>2. History' /\ RollbackEarned'
      BY <1>2, <1>5, <2>9, RejectionHistory, EarnedSame DEF Inductive
    <3> QED  BY <2>3, <2>5, <3>1, <3>2 DEF Inductive
  <2>10. CASE /\ reviews' = [reviews EXCEPT ![d] = "ADOPT"]
              /\ events' = Append(events, [action |-> "ADOPT", dossier |-> d, at |-> now,
                                 from |-> dossiers[d].reference, to |-> dossiers[d].candidate])
    <3> DEFINE e == [action |-> "ADOPT", dossier |-> d, at |-> now,
                     from |-> dossiers[d].reference, to |-> dossiers[d].candidate]
    <3>1. /\ e \in Event /\ e.dossier = d /\ e.at = now /\ e.action = "ADOPT" /\ e.from = InForce
          /\ e.from = dossiers[d].reference /\ e.to = dossiers[d].candidate
      <4>1. dossiers[d].reference \in Version /\ dossiers[d].candidate \in Version /\ d \in Nat
        BY <1>5 DEF Inductive, Types, TypeOK, Dossier
      <4> QED  BY <1>5, <2>2, <4>1 DEF Event
    <3>2. events' = Append(events, e)
      BY <2>10
    <3> HIDE DEF e
    <3>3. Types'
      BY <1>2, <1>5, <2>1, <2>4, <2>6, <3>1, <3>2, EventTypes, VerdictTypes
    <3>4. History' /\ RollbackEarned'
      BY <1>2, <1>5, <2>10, <3>1, <3>2, AdoptionHistory, EventEarned
    <3> QED  BY <2>3, <2>5, <3>3, <3>4 DEF Inductive
  <2> QED  BY <1>5, <2>8, <2>9, <2>10
<1>6. CASE ~UNCHANGED registryVars
  <2> HIDE DEF rest, step, d
  <2>1. /\ d # 0 /\ Judgeable(d) /\ results' = Settle(d) /\ UNCHANGED <<dossiers, forecasts>>
        /\ \/ UNCHANGED <<reviews, events>>
           \/ \E passed \in BOOLEAN :
                 /\ reviews' = [reviews EXCEPT ![d] = IF passed THEN "ADOPT" ELSE "REJECT"]
                 /\ events' = IF ~passed THEN events
                       ELSE Append(events, [action |-> "ADOPT", dossier |-> d, at |-> now,
                              from |-> dossiers[d].reference, to |-> dossiers[d].candidate])
    BY <1>2, <1>6 DEF Assess
  <2>2. d \in Dossier /\ reviews[d] = "none" /\ dossiers[d].reference = InForce
    BY <1>3, <2>1 DEF Judgeable
  <2> QED  BY <1>5, <2>1, <2>2
<1> QED  BY <1>4, <1>6

LEMMA CheckKeeps == ASSUME Inductive, NEW r \in Runs, Check(r) PROVE Inductive'
<1>1. PICK passed \in BOOLEAN :
         checks' = Append(checks, [version |-> mem[r].version, match |-> mem[r].match,
                                   at |-> mem[r].at, passed |-> passed])
  BY DEF Check
<1> DEFINE row == [version |-> mem[r].version, match |-> mem[r].match, at |-> mem[r].at, passed |-> passed]
<1>2. /\ pc' \in [Runs -> Steps] /\ mem' = mem /\ pc'[r] = "recording"
      /\ \A s \in Runs \ {r} : pc'[s] = pc[s]
      /\ UNCHANGED <<now, kickoff, score, dossiers, forecasts, results, reviews, events>>
  BY DEF Inductive, Types, Steps, Goto, Check, Untouched, fixtureVars, registryVars
<1>3. mem[r].version \in Version /\ mem[r].match \in Match /\ mem[r].at \in Nat /\ mem[r].at <= now
  BY DEF Inductive, Types, Memory, Local, Check
<1>4. now \in Nat /\ now \in 0..MaxTime /\ MaxTime \in Nat /\ checks \in Seq(CheckRow)
  BY Numbers DEF Inductive, Types, TypeOK
<1>5. row \in [version : Version, match : Match, at : 0..now, passed : BOOLEAN] /\ row \in CheckRow
  BY <1>3, <1>4 DEF CheckRow
<1>6. /\ checks' \in Seq(CheckRow) /\ DOMAIN checks \subseteq DOMAIN checks'
      /\ DOMAIN checks' = 1..(Len(checks) + 1) /\ Len(checks) \in Nat
      /\ \A i \in DOMAIN checks' : IF i \in DOMAIN checks THEN checks'[i] = checks[i] ELSE checks'[i] = row
  <2> HIDE DEF row
  <2>1. checks' = Append(checks, row)
    BY <1>1 DEF row
  <2>2. /\ checks' \in Seq(CheckRow) /\ DOMAIN checks = 1..Len(checks) /\ DOMAIN checks' = 1..(Len(checks) + 1)
        /\ Len(checks) \in Nat /\ checks'[Len(checks) + 1] = row /\ \A i \in 1..Len(checks) : checks'[i] = checks[i]
    BY <1>4, <1>5, <2>1, Appended
  <2> QED  BY <2>2
<1> HIDE DEF row
<1>7. Types'
  <2>1. \A i \in DOMAIN checks' : checks'[i] \in [version : Version, match : Match, at : 0..now, passed : BOOLEAN]
    BY <1>5, <1>6 DEF Inductive, Types, TypeOK
  <2>2. TypeOK'
    BY <1>2, <2>1 DEF Inductive, Types, TypeOK, Dossier
  <2> QED  BY <1>2, <1>6, <2>2 DEF Inductive, Types
<1>8. \A s \in Runs : Local(s)'
  <2>1. Local(r)'
    BY <1>2, <1>3 DEF Local
  <2> QED  BY <1>2, <1>4, <2>1, OthersKeep
<1>9. RollbackEarned'
  <2>1. SUFFICES ASSUME NEW i \in DOMAIN events, events[i].action = "ROLLBACK"
                 PROVE  Cardinality(FailedMatches(events[i].from, events[i - 1].at, events[i].at)') >= Failures
    BY <1>2 DEF RollbackEarned, FailedMatches
  <2> DEFINE old == FailedMatches(events[i].from, events[i - 1].at, events[i].at)
             all == FailedMatches(events[i].from, events[i - 1].at, events[i].at)'
             g == [j \in DOMAIN checks' |-> checks'[j].match]
  <2>2. Cardinality(old) >= Failures
    BY <2>1, EarnedMeans DEF Inductive
  <2>3. old \subseteq all
    BY <1>2, <1>6 DEF FailedMatches
  <2>4. IsFiniteSet(all)
    <3>1. \A b \in all : \E j \in DOMAIN checks' : b = g[j]
      BY DEF FailedMatches
    <3>2. IsFiniteSet(DOMAIN checks')
      BY <1>6, FS_Interval
    <3> HIDE DEF g, all
    <3> QED  BY <3>1, <3>2, ImageIsFinite
  <2> HIDE DEF old, all
  <2>5. Cardinality(old) <= Cardinality(all) /\ Cardinality(old) \in Nat /\ Cardinality(all) \in Nat
    BY <2>3, <2>4, FS_Subset, FS_CardinalityType
  <2> QED  BY <2>2, <2>5, Numbers DEF all
<1>10. History' /\ Evidence'
  BY <1>2, HistorySame, EvidenceSame DEF Inductive
<1> QED  BY <1>7, <1>8, <1>9, <1>10 DEF Inductive

LEMMA RecordKeeps == ASSUME Inductive, NEW r \in Runs, Record(r) PROVE Inductive'
<1> DEFINE list == IF mem[r].list = None THEN Oldest ELSE mem[r].list
           new == [dossier |-> list, match |-> mem[r].match, at |-> mem[r].at,
                   kickoff |-> mem[r].kickoff, frozen |-> now]
           rest == [mem[r] EXCEPT !.list = list, !.match = None, !.at = 0, !.kickoff = 0]
<1>1. /\ mem' = [mem EXCEPT ![r] = rest] /\ Goto(r, "working") /\ "working" \in Steps /\ Untouched
      /\ UNCHANGED <<dossiers, results, reviews, events, checks>>
      /\ forecasts' = IF list # 0 /\ Admissible(list, new.match, new.at, new.kickoff)
                      THEN forecasts \cup {new} ELSE forecasts
  BY DEF Record, Steps
<1>2. list \in Dossier \cup {0} /\ list \in Nat
  <2>1. Oldest \in Dossier \cup {0}
    BY OldestFacts DEF Inductive
  <2>2. mem[r].list \in Dossier \cup {0, None} /\ Dossier \subseteq Nat
    BY DEF Inductive, Types, TypeOK, Dossier
  <2>3. list \in Dossier \cup {0}
    BY <2>1, <2>2
  <2>4. \A d \in Dossier \cup {0} : d \in Nat
    BY <2>2
  <2> QED  BY <2>3, <2>4
<1>3. /\ mem[r].version \in Version /\ mem[r].match \in Match /\ mem[r].at \in Nat /\ mem[r].at <= now
      /\ mem[r].kickoff \in Nat /\ mem[r] \in Memory
  BY DEF Inductive, Types, Memory, Local, Record
<1>4. rest \in Memory /\ rest.list = list /\ rest.version \in Version
  BY <1>2, <1>3 DEF Memory
<1>5. now \in Nat /\ now' = now /\ now \in 0..MaxTime
  BY <1>1, Numbers DEF Untouched, Inductive, Types, TypeOK
<1> HIDE DEF rest, list
<1>6. /\ pc' \in [Runs -> Steps] /\ mem' \in [Runs -> Memory] /\ pc'[r] = "working" /\ mem'[r] = rest
      /\ \A s \in Runs \ {r} : pc'[s] = pc[s] /\ mem'[s] = mem[s]
      /\ \A s \in Runs : mem'[s].list \in Dossier \cup {0, None}
  BY <1>1, <1>2, <1>4, RunFacts
<1>7. \A s \in Runs : Local(s)'
  <2>1. Local(r)'
    BY <1>4, <1>6 DEF Local
  <2> QED  BY <1>5, <1>6, <2>1, OthersKeep
<1>8. CASE forecasts' = forecasts
  <2>1. UNCHANGED <<registryVars, checks>> /\ kickoff' \in [Match -> Nat] /\ score' \in [Match -> {None, 0, 1}]
    BY <1>1, <1>8 DEF registryVars, Untouched, fixtureVars, Inductive, Types, TypeOK
  <2> QED  BY <1>5, <1>6, <1>7, <2>1, RegistrySame
<1>9. CASE list # 0 /\ Admissible(list, new.match, new.at, new.kickoff) /\ forecasts' = forecasts \cup {new}
  <2>1. /\ new \in [dossier : Dossier, match : Match, at : 0..now, kickoff : Nat, frozen : 0..now]
        /\ new.at < new.kickoff /\ \A f \in forecasts : ~(f.dossier = new.dossier /\ f.match = new.match)
    BY <1>2, <1>3, <1>5, <1>9 DEF Admissible, OfDossier
  <2> HIDE DEF new
  <2>2. forecasts' \subseteq [dossier : Dossier, match : Match, at : 0..now, kickoff : Nat, frozen : 0..now]
    BY <1>9, <2>1 DEF Inductive, Types, TypeOK
  <2>3. TypeOK'
    <3>1. \A s \in Runs : mem'[s].version \in Version \cup {None}
      BY <1>6 DEF Memory
    <3> QED  BY <1>1, <1>6, <2>2, <3>1 DEF Inductive, Types, TypeOK, Untouched, fixtureVars, Dossier
  <2>4. Types'
    BY <1>1, <1>6, <2>3 DEF Inductive, Types
  <2>5. Evidence'
    BY <1>1, <1>9, <2>1 DEF Inductive, Evidence
  <2>6. History' /\ RollbackEarned'
    BY <1>1, HistorySame, EarnedSame DEF Inductive
  <2> QED  BY <1>7, <2>4, <2>5, <2>6 DEF Inductive
<1> QED  BY <1>1, <1>8, <1>9

LEMMA NextKeeps == Inductive /\ [Next]_vars => Inductive'
<1> SUFFICES ASSUME Inductive, [Next]_vars PROVE Inductive'
  OBVIOUS
<1>1. ASSUME NEW r \in Runs, Step(r) \/ \E m \in Match : Observe(r, m) PROVE Inductive'
  BY <1>1, StartKeeps, ListKeeps, ReviewKeeps, ReadStateKeeps, ObserveKeeps, CheckKeeps, RecordKeeps, EndKeeps
     DEF Step
<1>2. ASSUME NEW v \in Version, Register(v) PROVE Inductive'
  BY <1>2, RegisterKeeps
<1>3. CASE \/ \E m \in Changing : Move(m) \/ Correct(m)
           \/ \E m \in Match : Play(m)
           \/ Tick \/ UNCHANGED vars
  BY <1>3, FixturesKeep, AdoptionAssumption
<1> QED  BY <1>1, <1>2, <1>3 DEF Next

LEMMA InductiveHolds == Spec => []Inductive
BY InitInductive, NextKeeps, PTL DEF Spec

\* The events of the registry are the history of one deployment, and no dossier is
\* adopted twice or without its verdict.
THEOREM AlwaysOneHistory == Spec => []OneHistory
<1>1. Inductive => OneHistory
  BY DEF Inductive, Types, History, OneHistory
<1> QED  BY <1>1, InductiveHolds, PTL

\* A rollback rests on the failed checks of enough different matches.
THEOREM RollbackIsEarned == Spec => []RollbackEarned
<1>1. Inductive => RollbackEarned
  BY DEF Inductive
<1> QED  BY <1>1, InductiveHolds, PTL

-----------------------------------------------------------------------------
(* The outcomes do not choose the test.                                      *)

\* A forecast that joins the registry has no outcome yet, and comes after every
\* forecast of its dossier that has one.
LEMMA NewForecast ==
    ASSUME Inductive, NEW d \in Dossier, NEW new, new.at \in Nat, forecasts' = forecasts \cup {new},
           new.dossier = d, Admissible(d, new.match, new.at, new.kickoff), UNCHANGED <<now, kickoff, score, results>>
    PROVE  /\ ~Due(new) /\ ResultOf(new) = {}
           /\ \A f \in OfDossier(d) : Due(f) \/ ResultOf(f) # {} => ~Earlier(new, f)
<1>1. now \in Nat /\ ResultDelay \in Nat /\ Fresh \in Nat /\ Fresh <= ResultDelay
  BY Numbers DEF Inductive, Types, TypeOK
<1>2. score[new.match] = None /\ \A f \in OfDossier(d) : f.match # new.match
  BY DEF Admissible
<1>3. ~Due(new)
  BY <1>2 DEF Due
<1>4. ResultOf(new) = {}
  BY <1>2 DEF ResultOf, Inductive, Evidence, OfDossier
<1>5. ASSUME NEW f \in OfDossier(d), Due(f) \/ ResultOf(f) # {} PROVE ~Earlier(new, f)
  <2>1. /\ f \in forecasts /\ f.dossier = d /\ f.at \in Nat /\ f.kickoff \in Nat /\ f.at < f.kickoff
    BY <1>1 DEF OfDossier, Inductive, Types, TypeOK, Evidence
  <2>2. now >= f.kickoff + ResultDelay
    <3>1. CASE Due(f)
      BY <3>1 DEF Due
    <3>2. CASE ResultOf(f) # {}
      <4>1. PICK o \in results : o.dossier = f.dossier /\ o.match = f.match
        BY <3>2 DEF ResultOf
      <4>2. PICK g \in forecasts : g.dossier = o.dossier /\ g.match = o.match /\ o.at >= g.kickoff + ResultDelay
        BY DEF Inductive, Evidence
      <4>3. g = f
        BY <2>1, <4>1, <4>2 DEF Inductive, Evidence
      <4>4. o.at \in Nat /\ o.at <= now
        BY <1>1 DEF Inductive, Types, TypeOK
      <4> QED  BY <1>1, <2>1, <4>2, <4>3, <4>4
    <3> QED  BY <1>5, <3>1, <3>2
  <2>3. now - new.at <= Fresh
    BY DEF Admissible
  <2> QED  BY <1>1, <2>1, <2>2, <2>3 DEF Earlier
<1> QED  BY <1>3, <1>4, <1>5

\* Only the recording of a forecast changes the forecasts.
LEMMA ForecastsGrow ==
    ASSUME Inductive, Next
    PROVE  \/ UNCHANGED forecasts
           \/ /\ UNCHANGED <<now, kickoff, score, dossiers, results>>
              /\ \E new : /\ forecasts' = forecasts \cup {new} /\ new.at \in Nat /\ new.dossier \in Dossier
                          /\ Admissible(new.dossier, new.match, new.at, new.kickoff)
<1>1. ASSUME NEW r \in Runs, Record(r), ~UNCHANGED forecasts
      PROVE  /\ UNCHANGED <<now, kickoff, score, dossiers, results>>
             /\ \E new : /\ forecasts' = forecasts \cup {new} /\ new.at \in Nat /\ new.dossier \in Dossier
                         /\ Admissible(new.dossier, new.match, new.at, new.kickoff)
  <2> DEFINE list == IF mem[r].list = None THEN Oldest ELSE mem[r].list
             new == [dossier |-> list, match |-> mem[r].match, at |-> mem[r].at,
                     kickoff |-> mem[r].kickoff, frozen |-> now]
  <2>1. /\ UNCHANGED <<now, kickoff, score, dossiers, results>>
        /\ list # 0 /\ forecasts' = forecasts \cup {new}
        /\ Admissible(list, new.match, new.at, new.kickoff)
    BY <1>1 DEF Record, Untouched, fixtureVars
  <2>2. list \in Dossier
    <3>1. Oldest \in Dossier \cup {0}
      BY OldestFacts DEF Inductive
    <3>2. mem[r].list \in Dossier \cup {0, None}
      BY DEF Inductive, Types, TypeOK
    <3> QED  BY <2>1, <3>1, <3>2
  <2>3. new.at \in Nat /\ new.dossier = list
    BY DEF Inductive, Types, Memory
  <2> HIDE DEF list, new
  <2> QED  BY <2>1, <2>2, <2>3
<1>2. ASSUME NEW r \in Runs, Step(r) \/ \E m \in Match : Observe(r, m), ~Record(r)
      PROVE  UNCHANGED forecasts
  BY <1>2 DEF Step, Start, List, Review, Assess, ReadState, Check, End, Observe, registryVars
<1>3. CASE \/ \E v \in Version : Register(v)
           \/ \E m \in Changing : Move(m) \/ Correct(m)
           \/ \E m \in Match : Play(m)
           \/ Tick
  BY <1>3 DEF Register, Move, Correct, Play, Tick, registryVars
<1> QED  BY <1>1, <1>2, <1>3 DEF Next

\* Once the outcome of a forecast may be read, the forecast neither enters nor leaves
\* the test of its dossier.
THEOREM TestIsNotChosen == Spec => OutcomesDoNotChoose
<1> DEFINE Same == \A d \in Dossier : \A f \in FixedTest(d) \cup FixedTest(d)' :
                      Due(f) \/ ResultOf(f) # {} => (f \in FixedTest(d) <=> f \in FixedTest(d)')
<1>1. Inductive /\ Next => Same
  <2> SUFFICES ASSUME Inductive, Next, NEW d \in Dossier, NEW f \in FixedTest(d) \cup FixedTest(d)',
                      Due(f) \/ ResultOf(f) # {}
               PROVE  f \in FixedTest(d) <=> f \in FixedTest(d)'
    OBVIOUS
  <2>1. CASE UNCHANGED forecasts
    BY <2>1 DEF FixedTest, InTest, OfDossier
  <2>2. ASSUME UNCHANGED <<now, kickoff, score, dossiers, results>>,
               NEW new, forecasts' = forecasts \cup {new}, new.at \in Nat, new.dossier \in Dossier,
               Admissible(new.dossier, new.match, new.at, new.kickoff)
        PROVE  f \in FixedTest(d) <=> f \in FixedTest(d)'
    <3>1. CASE new.dossier # d
      <4>1. OfDossier(d)' = OfDossier(d)
        BY <2>2, <3>1 DEF OfDossier
      <4> QED  BY <4>1 DEF FixedTest, InTest
    <3>2. CASE new.dossier = d
      <4>1. /\ ~Due(new) /\ ResultOf(new) = {}
            /\ \A g \in OfDossier(d) : Due(g) \/ ResultOf(g) # {} => ~Earlier(new, g)
        BY <2>2, <3>2, NewForecast
      <4>2. f # new
        BY <4>1
      <4>3. f \in OfDossier(d)
        BY <2>2, <4>2 DEF FixedTest, InTest, OfDossier
      <4>4. ~Earlier(new, f)
        BY <4>1, <4>3
      <4>5. {g \in InTest(d)' : Earlier(g, f)} = {g \in InTest(d) : Earlier(g, f)}
        BY <2>2, <4>4 DEF InTest, OfDossier
      <4>6. f \in InTest(d) <=> f \in InTest(d)'
        BY <2>2, <4>2 DEF InTest, OfDossier
      <4> QED  BY <4>5, <4>6 DEF FixedTest
    <3> QED  BY <3>1, <3>2
  <2> QED  BY <2>1, <2>2, ForecastsGrow
<1>2. Inductive /\ [Next]_vars => [Same]_vars
  BY <1>1
<1> QED  BY <1>2, InductiveHolds, PTL DEF OutcomesDoNotChoose, Spec
=================================================================================
