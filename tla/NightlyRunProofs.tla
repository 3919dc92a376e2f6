--------------------------- MODULE NightlyRunProofs ---------------------------
(***************************************************************************)
(* For any attempts, runs, fixtures, windows and lease lengths: the rows   *)
(* of the nightly run are well formed, and its leases exclude each other.  *)
(***************************************************************************)
EXTENDS NightlyRun, FiniteSetTheorems, TLAPS

JobsOf(a) == mem[a].todo \union mem[a].ready \union mem[a].chosen

(* Tokens, jobs and runs refer to rows that exist and to each other. *)
RowsKnown ==
  /\ \A r \in Run : runs[r] # None => RunOf[runs[r].holder] = r
  /\ \A m \in Match : jobs[m] # None =>
       RunOf[jobs[m].holder] = jobs[m].run /\ runs[jobs[m].run] # None
  /\ \A a \in Attempt :
       phase[a] \in {"working", "committing", "reporting", "finishing"} => runs[RunOf[a]] # None
  /\ \A a \in Attempt : phase[a] \in {"waiting", "listed"} => JobsOf(a) = {}
  /\ \A a \in Attempt : phase[a] \in {"working", "committing"} =>
       \A m \in JobsOf(a) : m \in DOMAIN mem[a].listed /\ jobs[m] # None
  /\ IsFiniteSet(inputs)

RowsFit == TypeOK /\ RowsKnown

-----------------------------------------------------------------------------
(* What an attempt keeps in memory, field by field. *)

LEMMA MemoryFields ==
  ASSUME NEW x \in Memory
  PROVE  /\ \A S \in SUBSET Match : /\ [x EXCEPT !.todo = S] \in Memory
                                    /\ [x EXCEPT !.ready = S] \in Memory
                                    /\ [x EXCEPT !.chosen = S] \in Memory
         /\ \A n \in Nat : [x EXCEPT !.count = n] \in Memory /\ [x EXCEPT !.ends = n] \in Memory
         /\ [x EXCEPT !.failed = TRUE] \in Memory
         /\ [x EXCEPT !.lost = TRUE] \in Memory
         /\ x.todo \subseteq Match /\ x.ready \subseteq Match /\ x.chosen \subseteq Match
         /\ x.ends \in Nat /\ x.count \in Nat /\ x.failed \in BOOLEAN /\ x.lost \in BOOLEAN
  BY DEF Memory

LEMMA MemoryListed ==
  ASSUME NEW x \in Memory
  PROVE  /\ DOMAIN x.listed \subseteq Match
         /\ \A m \in DOMAIN x.listed : x.listed[m] \in Kickoffs
<1>1. x.listed \in UNION {[M -> Kickoffs] : M \in SUBSET Match}
  BY DEF Memory
<1>2. PICK M \in SUBSET Match : x.listed \in [M -> Kickoffs]
  BY <1>1
<1> QED  BY <1>2

LEMMA BlankType == Blank \in Memory /\ [Blank EXCEPT !.failed = TRUE] \in Memory
<1>1. [m \in {} |-> 0] \in [{} -> Kickoffs] /\ {} \in SUBSET Match
  OBVIOUS
<1>2. [m \in {} |-> 0] \in UNION {[M -> Kickoffs] : M \in SUBSET Match}
  BY <1>1
<1>3. Blank \in Memory
  BY <1>2 DEF Blank, Memory
<1> QED  BY <1>3, MemoryFields

LEMMA LeaseEndBound ==
  ASSUME TypeOK, NightlyAssumption, NEW end \in Nat
  PROVE  /\ LeaseEnd(end) \in Nat /\ LeaseEnd(end) <= end
         /\ now < end => now < LeaseEnd(end)
  BY DEF TypeOK, NightlyAssumption, LeaseEnd, Earlier

-----------------------------------------------------------------------------
(* One lemma per action, or per group of actions that change the same rows. *)

LEMMA ListFits ==
  ASSUME NightlyAssumption, RowsFit, NEW a \in Attempt, List(a)
  PROVE  RowsFit'
<1> DEFINE r == RunOf[a]
           end == IF runs[r] = None THEN now + Window ELSE runs[r].ends
           M == {m \in Match : now <= kickoff[m] /\ kickoff[m] <= end /\ m \notin played}
           x == [mem[a] EXCEPT !.ends = end, !.listed = [m \in M |-> kickoff[m]]]
<1> USE DEF RowsFit
<1>1. end \in Nat
  BY DEF TypeOK, NightlyAssumption, RunRow
<1>2. mem[a] \in Memory
  BY DEF TypeOK
<1>3. x \in Memory
  <2>1. [m \in M |-> kickoff[m]] \in [M -> Kickoffs] /\ M \in SUBSET Match
    BY DEF TypeOK
  <2>2. [m \in M |-> kickoff[m]] \in UNION {[N -> Kickoffs] : N \in SUBSET Match}
    BY <2>1
  <2> HIDE DEF end, M
  <2> QED  BY <1>1, <1>2, <2>2 DEF Memory
<1>4. /\ mem' = [mem EXCEPT ![a] = x]
      /\ phase' = [phase EXCEPT ![a] = "listed"] /\ phase[a] = "waiting"
      /\ UNCHANGED <<fixtures, tables>>
  BY DEF List
<1>5. x.todo = mem[a].todo /\ x.ready = mem[a].ready /\ x.chosen = mem[a].chosen
  BY <1>2 DEF Memory
<1> HIDE DEF x
<1>6. TypeOK'
  BY <1>3, <1>4 DEF TypeOK, fixtures, tables, Phases
<1>7. \A b \in Attempt : JobsOf(b)' = JobsOf(b)
  BY <1>4, <1>5 DEF TypeOK, JobsOf
<1>8. \A b \in Attempt : b # a => phase'[b] = phase[b] /\ mem'[b] = mem[b]
  BY <1>4 DEF TypeOK
<1>9. phase'[a] = "listed"
  BY <1>4 DEF TypeOK
<1>10. RowsKnown'
  BY <1>4, <1>7, <1>8, <1>9 DEF RowsKnown, fixtures, tables
<1> QED  BY <1>6, <1>10

LEMMA ClaimFits ==
  ASSUME NightlyAssumption, RowsFit, NEW a \in Attempt, Claim(a)
  PROVE  RowsFit'
<1> USE DEF RowsFit
<1>1. CASE Refused(a)
  <2>1. TypeOK'
    BY <1>1, BlankType DEF TypeOK, Claim, fixtures, Phases
  <2>2. RowsKnown'
    BY <1>1 DEF RowsKnown, Claim, fixtures, JobsOf, TypeOK
  <2> QED  BY <2>1, <2>2
<1>2. CASE ~Refused(a)
  <2> DEFINE M == {m \in Match : Claimable(a, m)}
             r == RunOf[a]
             row == [status |-> "RUNNING", holder |-> a, ends |-> mem[a].ends,
                     expires |-> LeaseEnd(mem[a].ends),
                     registered |-> IF runs[r] = None THEN 0 ELSE runs[r].registered]
  <2>1. /\ runs' = [runs EXCEPT ![r] = row]
        /\ jobs' = [m \in Match |-> IF m \in M THEN ClaimedJob(a, m) ELSE jobs[m]]
        /\ mem' = [mem EXCEPT ![a].todo = M]
        /\ phase' = [phase EXCEPT ![a] = "working"]
        /\ UNCHANGED <<fixtures, staked, inputs>>
    BY <1>2 DEF Claim
  <2>2. mem[a] \in Memory /\ mem[a].ends \in Nat /\ r \in Run
    BY MemoryFields DEF TypeOK, NightlyAssumption
  <2>3. /\ LeaseEnd(mem[a].ends) \in Nat /\ LeaseEnd(mem[a].ends) <= mem[a].ends
    BY <2>2, LeaseEndBound
  <2>4. row \in RunRow
    BY <2>2, <2>3 DEF RunRow, TypeOK
  <2>5. ASSUME NEW m \in M
        PROVE  /\ ClaimedJob(a, m) \in JobRow
               /\ ClaimedJob(a, m).expires <= ClaimedJob(a, m).kickoff
               /\ ClaimedJob(a, m).run = r /\ ClaimedJob(a, m).holder = a
               /\ m \in DOMAIN mem[a].listed
    <3>1. m \in DOMAIN mem[a].listed /\ mem[a].listed[m] \in Nat
      BY <2>2, MemoryListed DEF Claimable, NightlyAssumption
    <3> QED  BY <3>1, <2>2, <2>3 DEF ClaimedJob, JobRow, Earlier
  <2>6. TypeOK'
    <3>1. jobs' \in [Match -> JobRow \union {None}]
      BY <2>1, <2>5 DEF TypeOK
    <3>2. runs' \in [Run -> RunRow \union {None}]
      BY <2>1, <2>4 DEF TypeOK
    <3>3. mem' \in [Attempt -> Memory]
      BY <2>1, <2>2, MemoryFields DEF TypeOK
    <3>4. \A q \in Run : runs'[q] # None /\ runs'[q].status = "RUNNING"
                          => runs'[q].expires <= runs'[q].ends
      BY <2>1, <2>2, <2>3 DEF TypeOK
    <3>5. \A m \in Match : jobs'[m] # None /\ jobs'[m].status = "CLAIMED"
                            => jobs'[m].expires <= jobs'[m].kickoff
      BY <2>1, <2>5 DEF TypeOK
    <3> QED  BY <2>1, <3>1, <3>2, <3>3, <3>4, <3>5 DEF TypeOK, fixtures, Phases
  <2>7. row # None
    BY <2>4 DEF NightlyAssumption
  <2>8. \A m \in M : ClaimedJob(a, m) # None
    BY <2>5 DEF NightlyAssumption
  <2>9. /\ JobsOf(a)' = M
        /\ \A b \in Attempt : b # a => JobsOf(b)' = JobsOf(b)
    <3>1. mem'[a] = [mem[a] EXCEPT !.todo = M] /\ \A b \in Attempt : b # a => mem'[b] = mem[b]
      BY <2>1 DEF TypeOK
    <3>2. mem[a].ready = {} /\ mem[a].chosen = {}
      BY DEF Claim, RowsKnown, JobsOf
    <3> QED  BY <3>1, <3>2, <2>2 DEF JobsOf, Memory
  <2>10. RowsKnown'
    <3>1. \A q \in Run : runs'[q] # None => RunOf[runs'[q].holder] = q
      BY <2>1, <2>2 DEF RowsKnown, TypeOK
    <3>2. \A m \in Match : jobs'[m] # None =>
            RunOf[jobs'[m].holder] = jobs'[m].run /\ runs'[jobs'[m].run] # None
      BY <2>1, <2>2, <2>5, <2>7 DEF RowsKnown, TypeOK
    <3>3. \A b \in Attempt :
            phase'[b] \in {"working", "committing", "reporting", "finishing"} => runs'[RunOf[b]] # None
      BY <2>1, <2>2, <2>7 DEF RowsKnown, TypeOK, NightlyAssumption
    <3>4. \A b \in Attempt : phase'[b] \in {"waiting", "listed"} => JobsOf(b)' = {}
      BY <2>1, <2>9 DEF RowsKnown, TypeOK
    <3>5. \A b \in Attempt : phase'[b] \in {"working", "committing"} =>
            \A m \in JobsOf(b)' : m \in DOMAIN mem'[b].listed /\ jobs'[m] # None
      <4>1. mem'[a].listed = mem[a].listed
        BY <2>1, <2>2 DEF TypeOK, Memory
      <4>2. \A b \in Attempt : b # a => mem'[b] = mem[b] /\ phase'[b] = phase[b]
        BY <2>1 DEF TypeOK
      <4>3. \A m \in Match : jobs[m] # None => jobs'[m] # None
        BY <2>1, <2>8
      <4>4. \A b \in Attempt : JobsOf(b) \subseteq Match
        BY MemoryFields DEF JobsOf, TypeOK
      <4>5. \A m \in M : jobs'[m] # None
        BY <2>1, <2>8
      <4> QED  BY <4>1, <4>2, <4>3, <4>4, <4>5, <2>5, <2>9 DEF RowsKnown
    <3> QED  BY <3>1, <3>2, <3>3, <3>4, <3>5, <2>1 DEF RowsKnown
  <2> QED  BY <2>6, <2>10
<1> QED  BY <1>1, <1>2

(* Rows stay, with their holders and runs, while attempt a goes on to phase *)
(* ph with memory x and no jobs that it did not have.                       *)
RowsStay ==
  /\ \A r \in Run : IF runs[r] = None THEN runs'[r] = None
                   ELSE runs'[r] # None /\ runs'[r].holder = runs[r].holder
  /\ \A m \in Match : IF jobs[m] = None THEN jobs'[m] = None
                     ELSE /\ jobs'[m] # None /\ jobs'[m].holder = jobs[m].holder
                          /\ jobs'[m].run = jobs[m].run

GoesOn(a, ph, x) ==
  /\ phase' = [phase EXCEPT ![a] = ph] /\ ph \in Phases \ {"waiting", "listed"}
  /\ mem' = [mem EXCEPT ![a] = x] /\ x \in Memory
  /\ ph \in {"working", "committing"} =>
       /\ phase[a] \in {"working", "committing"}
       /\ x.listed = mem[a].listed
       /\ x.todo \union x.ready \union x.chosen \subseteq JobsOf(a)
  /\ ph # "ended" => phase[a] \in {"working", "committing", "reporting", "finishing"}

LEMMA KnownKept ==
  ASSUME NightlyAssumption, RowsFit, RowsStay, IsFiniteSet(inputs'),
         NEW a \in Attempt, NEW ph, NEW x, GoesOn(a, ph, x)
  PROVE  RowsKnown' /\ phase' \in [Attempt -> Phases] /\ mem' \in [Attempt -> Memory]
<1> USE DEF RowsFit
<1>1. phase' \in [Attempt -> Phases] /\ mem' \in [Attempt -> Memory]
  BY DEF GoesOn, TypeOK
<1>2. /\ phase'[a] = ph /\ mem'[a] = x
      /\ \A b \in Attempt : b # a => phase'[b] = phase[b] /\ mem'[b] = mem[b]
  BY DEF GoesOn, TypeOK
<1>3. \A q \in Run : runs'[q] # None => RunOf[runs'[q].holder] = q
  BY DEF RowsStay, RowsKnown
<1>4. \A m \in Match : jobs'[m] # None =>
        RunOf[jobs'[m].holder] = jobs'[m].run /\ runs'[jobs'[m].run] # None
  <2> SUFFICES ASSUME NEW m \in Match, jobs'[m] # None
               PROVE  RunOf[jobs'[m].holder] = jobs'[m].run /\ runs'[jobs'[m].run] # None
    OBVIOUS
  <2>1. /\ jobs[m] # None /\ jobs'[m].holder = jobs[m].holder /\ jobs'[m].run = jobs[m].run
    BY DEF RowsStay
  <2>2. jobs[m].run \in Run
    BY <2>1 DEF TypeOK, JobRow
  <2> QED  BY <2>1, <2>2 DEF RowsStay, RowsKnown
<1>5. \A b \in Attempt :
        phase'[b] \in {"working", "committing", "reporting", "finishing"} => runs'[RunOf[b]] # None
  <2> SUFFICES ASSUME NEW b \in Attempt,
                      phase'[b] \in {"working", "committing", "reporting", "finishing"}
               PROVE  runs'[RunOf[b]] # None
    OBVIOUS
  <2>1. phase[b] \in {"working", "committing", "reporting", "finishing"}
    BY <1>2 DEF GoesOn
  <2> QED  BY <2>1 DEF RowsStay, RowsKnown, NightlyAssumption
<1>6. \A b \in Attempt : b # a => JobsOf(b)' = JobsOf(b)
  BY <1>2 DEF JobsOf
<1>7. JobsOf(a)' = x.todo \union x.ready \union x.chosen
  BY <1>2 DEF JobsOf
<1>8. \A b \in Attempt : phase'[b] \in {"waiting", "listed"} => JobsOf(b)' = {}
  BY <1>2, <1>6 DEF GoesOn, RowsKnown
<1>9. \A b \in Attempt : phase'[b] \in {"working", "committing"} =>
        \A m \in JobsOf(b)' : m \in DOMAIN mem'[b].listed /\ jobs'[m] # None
  <2>1. \A b \in Attempt : JobsOf(b) \subseteq Match
    BY MemoryFields DEF JobsOf, TypeOK
  <2>2. \A m \in Match : jobs[m] # None => jobs'[m] # None
    BY DEF RowsStay
  <2>3. CASE ph \in {"working", "committing"}
    <3>1. \A m \in JobsOf(a)' : m \in DOMAIN mem'[a].listed /\ jobs'[m] # None
      BY <1>2, <1>7, <2>1, <2>2, <2>3 DEF GoesOn, RowsKnown
    <3> QED  BY <1>2, <1>6, <2>1, <2>2, <3>1 DEF RowsKnown
  <2>4. CASE ph \notin {"working", "committing"}
    BY <1>2, <1>6, <2>1, <2>2, <2>4 DEF RowsKnown
  <2> QED  BY <2>3, <2>4
<1> QED  BY <1>1, <1>3, <1>4, <1>5, <1>8, <1>9 DEF RowsKnown

(* A step of an attempt that writes no table. *)
LEMMA MemoryStepFits ==
  ASSUME NightlyAssumption, RowsFit, UNCHANGED <<fixtures, tables>>,
         NEW a \in Attempt, NEW ph, NEW x, GoesOn(a, ph, x)
  PROVE  RowsFit'
<1>1. RowsStay /\ IsFiniteSet(inputs')
  BY DEF RowsStay, tables, RowsFit, RowsKnown
<1>2. RowsKnown' /\ phase' \in [Attempt -> Phases] /\ mem' \in [Attempt -> Memory]
  BY <1>1, KnownKept
<1>3. TypeOK'
  BY <1>2 DEF RowsFit, TypeOK, fixtures, tables
<1> QED  BY <1>2, <1>3 DEF RowsFit

LEMMA ThrowGoesOn ==
  ASSUME TypeOK, NEW a \in Attempt, Throw(a),
         phase[a] \in {"working", "committing", "reporting", "finishing"}
  PROVE  GoesOn(a, "finishing", [Blank EXCEPT !.failed = TRUE])
  BY BlankType DEF Throw, GoesOn, Phases

LEMMA QuietStepsFit ==
  ASSUME NightlyAssumption, RowsFit, NEW a \in Attempt,
         \/ \E m \in Match : StartJob(a, m) \/ PrepareJob(a, m) \/ AdmitJob(a, m)
         \/ RenewalFails(a) \/ Fail(a) \/ Rollback(a)
         \/ SkipCommit(a) \/ BeginCommit(a) \/ Report(a) \/ Crash(a)
  PROVE  RowsFit'
<1>0. mem[a] \in Memory /\ TypeOK /\ phase = [phase EXCEPT ![a] = phase[a]]
      /\ mem = [mem EXCEPT ![a] = mem[a]]
  BY DEF RowsFit, TypeOK
<1>1. CASE RenewalFails(a)
  <2>1. GoesOn(a, phase[a], [mem[a] EXCEPT !.lost = TRUE])
    BY <1>0, <1>1, MemoryFields DEF RenewalFails, GoesOn, Renewing, JobsOf, Memory, Phases
  <2> QED  BY <1>1, <2>1, MemoryStepFits DEF RenewalFails
<1>2. ASSUME NEW m \in Match, PrepareJob(a, m) PROVE RowsFit'
  <2> DEFINE x == [Tried(a, m) EXCEPT !.ready = @ \union {m}]
  <2>1. x \in Memory /\ x.listed = mem[a].listed
        /\ x.todo \union x.ready \union x.chosen \subseteq JobsOf(a)
    BY <1>0, <1>2 DEF PrepareJob, Preparing, Tried, Memory, JobsOf
  <2>2. GoesOn(a, phase[a], x)
    BY <1>0, <1>2, <2>1 DEF PrepareJob, Preparing, GoesOn, Phases
  <2> QED  BY <1>2, <2>2, MemoryStepFits DEF PrepareJob
<1>10. ASSUME NEW m \in Match, StartJob(a, m) PROVE RowsFit'
  <2> DEFINE x == [mem[a] EXCEPT !.doing = {m}]
  <2>1. x \in Memory /\ x.listed = mem[a].listed
        /\ x.todo \union x.ready \union x.chosen \subseteq JobsOf(a)
    BY <1>0 DEF Memory, JobsOf
  <2>2. GoesOn(a, phase[a], x)
    BY <1>0, <1>10, <2>1 DEF StartJob, Choosing, GoesOn, Phases
  <2> QED  BY <1>10, <2>2, MemoryStepFits DEF StartJob
<1>3. ASSUME NEW m \in Match, AdmitJob(a, m) PROVE RowsFit'
  <2> DEFINE x == [Settled(a, m) EXCEPT !.chosen = @ \union {m}]
  <2>1. x \in Memory /\ x.listed = mem[a].listed
        /\ x.todo \union x.ready \union x.chosen \subseteq JobsOf(a)
    BY <1>0, <1>3 DEF AdmitJob, Admitting, Settled, Memory, JobsOf
  <2>2. GoesOn(a, phase[a], x)
    BY <1>0, <1>3, <2>1 DEF AdmitJob, Admitting, GoesOn, Phases
  <2> QED  BY <1>3, <2>2, MemoryStepFits DEF AdmitJob
<1>4. CASE Fail(a)
  BY <1>0, <1>4, ThrowGoesOn, MemoryStepFits DEF Fail
<1>5. CASE Rollback(a)
  BY <1>0, <1>5, ThrowGoesOn, MemoryStepFits DEF Rollback
<1>6. CASE SkipCommit(a)
  <2>1. GoesOn(a, "reporting", mem[a])
    BY <1>0, <1>6 DEF SkipCommit, Prepared, GoesOn, Phases
  <2> QED  BY <1>6, <2>1, MemoryStepFits DEF SkipCommit
<1>7. CASE BeginCommit(a)
  <2>1. phase[a] = "working" /\ UNCHANGED <<fixtures, tables>>
    BY <1>7 DEF BeginCommit, Prepared
  <2>2. CASE MayCommit(a)
    <3>1. GoesOn(a, "committing", mem[a])
      BY <1>0, <1>7, <2>1, <2>2 DEF BeginCommit, GoesOn, Phases, JobsOf
    <3> QED  BY <2>1, <3>1, MemoryStepFits
  <2>3. CASE ~MayCommit(a)
    <3>1. Throw(a)
      BY <1>7, <2>3 DEF BeginCommit
    <3> QED  BY <1>0, <2>1, <3>1, ThrowGoesOn, MemoryStepFits
  <2> QED  BY <2>2, <2>3
<1>8. CASE Report(a)
  <2>1. Cardinality(Registered(RunOf[a])) \in Nat
    <3>1. IsFiniteSet(Registered(RunOf[a]))
      BY FS_Subset DEF Registered, RowsFit, RowsKnown
    <3> QED  BY <3>1, FS_CardinalityType
  <2>2. GoesOn(a, "finishing", [mem[a] EXCEPT !.count = Cardinality(Registered(RunOf[a]))])
    BY <1>0, <1>8, <2>1, MemoryFields DEF Report, GoesOn, Phases
  <2> QED  BY <1>8, <2>2, MemoryStepFits DEF Report
<1>9. CASE Crash(a)
  <2>1. GoesOn(a, "ended", Blank)
    BY <1>9, BlankType DEF Crash, GoesOn, Phases
  <2> QED  BY <1>9, <2>1, MemoryStepFits DEF Crash
<1> QED  BY <1>1, <1>2, <1>3, <1>4, <1>5, <1>6, <1>7, <1>8, <1>9, <1>10

-----------------------------------------------------------------------------
(* The steps that write. *)

LEMMA RenewFits ==
  ASSUME NightlyAssumption, RowsFit, NEW a \in Attempt, Renew(a)
  PROVE  RowsFit'
<1>0. /\ mem[a] \in Memory /\ TypeOK /\ RowsKnown
      /\ RunOf[a] \in Run
      /\ phase[a] \in {"working", "committing", "reporting", "finishing"}
      /\ UNCHANGED <<fixtures, staked, inputs, phase>>
  BY DEF RowsFit, TypeOK, Renew, Renewing, NightlyAssumption
<1>1. CASE Renewable(a)
  <2> DEFINE r == RunOf[a]
             end == LeaseEnd(runs[r].ends)
  <2>1. /\ runs' = [runs EXCEPT ![r].expires = end]
        /\ jobs' = [m \in Match |-> IF m \in HeldJobs(a)
                                    THEN [jobs[m] EXCEPT !.expires = Earlier(jobs[m].kickoff, end)]
                                    ELSE jobs[m]]
        /\ UNCHANGED mem
    BY <1>1 DEF Renew
  <2>2. runs[r] \in RunRow /\ runs[r] # None
    BY <1>0, <1>1 DEF Renewable, HoldsRun, TypeOK
  <2>3. end \in Nat /\ end <= runs[r].ends
    BY <1>0, <2>2, LeaseEndBound DEF RunRow
  <2> HIDE DEF end
  <2>4. runs'[r] \in RunRow /\ runs'[r].holder = runs[r].holder
        /\ runs'[r].expires <= runs'[r].ends /\ \A q \in Run : q # r => runs'[q] = runs[q]
    BY <1>0, <2>1, <2>2, <2>3 DEF RunRow, TypeOK
  <2>5. ASSUME NEW m \in HeldJobs(a)
        PROVE  /\ jobs'[m] \in JobRow /\ jobs'[m].holder = jobs[m].holder
               /\ jobs'[m].run = jobs[m].run /\ jobs'[m].expires <= jobs'[m].kickoff
    <3>1. jobs[m] \in JobRow /\ m \in Match
      BY <1>0 DEF HeldJobs, TypeOK
    <3> QED  BY <2>1, <2>3, <3>1 DEF JobRow, Earlier
  <2>6. \A m \in Match : m \notin HeldJobs(a) => jobs'[m] = jobs[m]
    BY <2>1
  <2>7. runs' \in [Run -> RunRow \union {None}] /\ jobs' \in [Match -> JobRow \union {None}]
    BY <1>0, <2>1, <2>4, <2>5, <2>6 DEF TypeOK
  <2>8. TypeOK'
    BY <1>0, <2>1, <2>4, <2>5, <2>6, <2>7 DEF TypeOK, fixtures
  <2>9. RowsStay
    <3>1. \A m \in HeldJobs(a) : jobs[m] # None /\ jobs'[m] # None
      BY <2>5 DEF HeldJobs, NightlyAssumption
    <3>2. runs'[r] # None
      BY <2>4 DEF NightlyAssumption
    <3> QED  BY <2>2, <2>4, <2>5, <2>6, <3>1, <3>2 DEF RowsStay
  <2>10. GoesOn(a, phase[a], mem[a])
    BY <1>0, <2>1 DEF GoesOn, TypeOK, Phases, JobsOf
  <2> QED  BY <1>0, <2>8, <2>9, <2>10, KnownKept DEF RowsFit, RowsKnown
<1>2. CASE ~Renewable(a)
  <2> DEFINE x == [mem[a] EXCEPT !.lost = TRUE]
  <2>1. mem' = [mem EXCEPT ![a] = x] /\ x \in Memory /\ phase' = [phase EXCEPT ![a] = phase[a]]
    BY <1>0, <1>2, MemoryFields DEF Renew, TypeOK
  <2>2. x.listed = mem[a].listed /\ x.todo \union x.ready \union x.chosen \subseteq JobsOf(a)
    BY <1>0 DEF JobsOf, Memory
  <2> HIDE DEF x
  <2>3. GoesOn(a, phase[a], x)
    BY <1>0, <2>1, <2>2 DEF GoesOn, Phases
  <2> QED  BY <1>0, <1>2, <2>3, MemoryStepFits DEF Renew, tables
<1> QED  BY <1>1, <1>2

(* finishJob writes a status that is not a claim and keeps the token. *)
LEMMA FinishJobFits ==
  ASSUME NightlyAssumption, RowsFit, NEW a \in Attempt, NEW m \in JobsOf(a),
         phase[a] = "working",
         NEW status \in {"PENDING", "COMPLETED", "MISSED", "SKIPPED"},
         NEW rest \in Memory, rest.listed = mem[a].listed,
         rest.todo \union rest.ready \union rest.chosen \subseteq JobsOf(a),
         FinishJob(a, m, status, rest)
  PROVE  RowsFit'
<1>0. TypeOK /\ RowsKnown /\ m \in Match /\ jobs[m] \in JobRow
      /\ mem = [mem EXCEPT ![a] = mem[a]] /\ phase = [phase EXCEPT ![a] = phase[a]]
      /\ UNCHANGED <<fixtures, staked, runs, inputs>>
  BY MemoryFields DEF RowsFit, TypeOK, RowsKnown, JobsOf, FinishJob
<1>1. CASE jobs[m].holder = a
  <2> DEFINE s == IF jobs[m].status \in {"COMPLETED", "MISSED"} THEN jobs[m].status ELSE status
  <2>1. /\ jobs' = [jobs EXCEPT ![m] = [jobs[m] EXCEPT !.status = s]]
        /\ mem' = [mem EXCEPT ![a] = rest] /\ UNCHANGED phase
    BY <1>0, <1>1 DEF FinishJob
  <2>2. s \in {"PENDING", "COMPLETED", "MISSED", "SKIPPED"}
    OBVIOUS
  <2> HIDE DEF s
  <2>3. /\ jobs'[m] \in JobRow /\ jobs'[m].status # "CLAIMED"
        /\ jobs'[m].holder = jobs[m].holder /\ jobs'[m].run = jobs[m].run
        /\ \A n \in Match : n # m => jobs'[n] = jobs[n]
    BY <1>0, <2>1, <2>2 DEF TypeOK, JobRow
  <2>4. jobs' \in [Match -> JobRow \union {None}]
    BY <1>0, <2>1, <2>3 DEF TypeOK
  <2>5. RowsStay
    BY <1>0, <2>3 DEF RowsStay, NightlyAssumption
  <2>6. GoesOn(a, "working", rest)
    BY <1>0, <2>1 DEF GoesOn, Phases
  <2>7. RowsKnown' /\ phase' \in [Attempt -> Phases] /\ mem' \in [Attempt -> Memory]
    BY <1>0, <2>5, <2>6, KnownKept DEF RowsKnown
  <2>8. TypeOK'
    BY <1>0, <2>3, <2>4, <2>7 DEF TypeOK, fixtures
  <2> QED  BY <2>7, <2>8 DEF RowsFit
<1>2. CASE jobs[m].holder # a
  <2>1. Throw(a) /\ UNCHANGED jobs
    BY <1>2 DEF FinishJob
  <2> QED  BY <1>0, <2>1, ThrowGoesOn, MemoryStepFits DEF tables
<1> QED  BY <1>1, <1>2

LEMMA JobStepFits ==
  ASSUME NightlyAssumption, RowsFit, NEW a \in Attempt, NEW m \in Match, JobStep(a, m)
  PROVE  RowsFit'
<1>0. mem[a] \in Memory
  BY DEF RowsFit, TypeOK
<1>1. ASSUME Preparing(a, m) \/ Choosing(a, m)
      PROVE  /\ phase[a] = "working" /\ m \in JobsOf(a)
             /\ Tried(a, m) \in Memory /\ [Tried(a, m) EXCEPT !.failed = TRUE] \in Memory
             /\ Tried(a, m).listed = mem[a].listed
             /\ [Tried(a, m) EXCEPT !.failed = TRUE].listed = mem[a].listed
             /\ Tried(a, m).todo \union Tried(a, m).ready \union Tried(a, m).chosen
                  \subseteq JobsOf(a)
             /\ LET x == [Tried(a, m) EXCEPT !.failed = TRUE]
                IN  x.todo \union x.ready \union x.chosen \subseteq JobsOf(a)
  BY <1>0, <1>1 DEF Preparing, Choosing, Tried, Memory, JobsOf
<1>2. ASSUME Admitting(a, m)
      PROVE  /\ phase[a] = "working" /\ m \in JobsOf(a)
             /\ Settled(a, m) \in Memory /\ Settled(a, m).listed = mem[a].listed
             /\ Settled(a, m).todo \union Settled(a, m).ready \union Settled(a, m).chosen
                  \subseteq JobsOf(a)
  BY <1>0, <1>2 DEF Admitting, Settled, Memory, JobsOf
<1>3. CASE MissJob(a, m)
  BY <1>1, <1>3, FinishJobFits DEF MissJob
<1>4. CASE SkipJob(a, m)
  BY <1>1, <1>4, FinishJobFits DEF SkipJob
<1>5. CASE RetryJob(a, m)
  <2> DEFINE open == now < runs[jobs[m].run].ends /\ now < jobs[m].kickoff
             s == IF open THEN "PENDING" ELSE "MISSED"
  <2>1. Preparing(a, m) /\ FinishJob(a, m, s, [Tried(a, m) EXCEPT !.failed = TRUE])
    BY <1>5 DEF RetryJob
  <2>2. s \in {"PENDING", "COMPLETED", "MISSED", "SKIPPED"}
    OBVIOUS
  <2> HIDE DEF s
  <2> QED  BY <1>1, <2>1, <2>2, FinishJobFits
<1>6. CASE DropJob(a, m)
  BY <1>2, <1>6, FinishJobFits DEF DropJob
<1>7. CASE StartJob(a, m) \/ PrepareJob(a, m) \/ AdmitJob(a, m)
  BY <1>7, QuietStepsFit
<1> QED  BY <1>3, <1>4, <1>5, <1>6, <1>7 DEF JobStep

LEMMA CommitFits ==
  ASSUME NightlyAssumption, RowsFit, NEW a \in Attempt, Commit(a)
  PROVE  RowsFit'
<1> DEFINE C == mem[a].chosen
<1>0. /\ mem[a] \in Memory /\ TypeOK /\ RowsKnown /\ C \subseteq Match
      /\ phase[a] = "committing" /\ UNCHANGED <<fixtures, staked, runs>>
      /\ mem = [mem EXCEPT ![a] = mem[a]]
  BY MemoryFields DEF RowsFit, TypeOK, Commit
<1>1. jobs' = [m \in Match |-> IF m \in C THEN [jobs[m] EXCEPT !.status = "COMPLETED"] ELSE jobs[m]]
  BY DEF Commit
<1>2. ASSUME NEW m \in C
      PROVE  /\ jobs[m] \in JobRow /\ jobs'[m] \in JobRow /\ jobs'[m].status # "CLAIMED"
             /\ jobs'[m].holder = jobs[m].holder /\ jobs'[m].run = jobs[m].run
  <2>1. jobs[m] # None
    BY <1>0 DEF RowsKnown, JobsOf
  <2>2. jobs[m] \in JobRow
    BY <1>0, <2>1 DEF TypeOK
  <2> QED  BY <1>0, <1>1, <2>2 DEF JobRow
<1>3. \A m \in Match : m \notin C => jobs'[m] = jobs[m]
  BY <1>1
<1>4. jobs' \in [Match -> JobRow \union {None}]
  BY <1>0, <1>1, <1>2 DEF TypeOK
<1>5. RowsStay
  BY <1>0, <1>2, <1>3 DEF RowsStay, NightlyAssumption
<1>6. PICK B \in SUBSET (C \ staked) :
        inputs' = inputs \union {[match |-> m, holder |-> a, bet |-> m \in B] : m \in C}
  BY DEF Commit
<1>7. inputs' \subseteq Input /\ IsFiniteSet(inputs')
  <2> DEFINE I == {[match |-> m, holder |-> a, bet |-> m \in B] : m \in C}
  <2>1. IsFiniteSet(C)
    BY <1>0, FS_Subset DEF NightlyAssumption
  <2>2. IsFiniteSet(I)
    <3> DEFINE f == [m \in C |-> [match |-> m, holder |-> a, bet |-> m \in B]]
    <3>1. f \in Surjection(C, I)
      BY DEF Surjection
    <3> QED  BY <2>1, <3>1, FS_Surjection
  <2>3. ASSUME NEW m \in C PROVE [match |-> m, holder |-> a, bet |-> m \in B] \in Input
    <3>1. (m \in B) \in BOOLEAN
      OBVIOUS
    <3> DEFINE b == m \in B
    <3> HIDE DEF b
    <3>2. b \in BOOLEAN
      BY <3>1 DEF b
    <3>3. [match |-> m, holder |-> a, bet |-> b] \in Input
      BY <1>0, <3>2 DEF Input
    <3> QED  BY <3>3 DEF b
  <2>4. I \subseteq Input
    BY <2>3
  <2> QED  BY <1>0, <1>6, <2>2, <2>4, FS_Union DEF RowsKnown, TypeOK
<1>8. \/ GoesOn(a, "reporting", mem[a])
      \/ GoesOn(a, "finishing", [Blank EXCEPT !.failed = TRUE])
  <2>1. CASE phase' = [phase EXCEPT ![a] = "reporting"] /\ UNCHANGED mem
    BY <1>0, <2>1 DEF GoesOn, Phases
  <2>2. CASE Throw(a)
    BY <1>0, <2>2, ThrowGoesOn
  <2> QED  BY <2>1, <2>2 DEF Commit
<1>9. RowsKnown' /\ phase' \in [Attempt -> Phases] /\ mem' \in [Attempt -> Memory]
  BY <1>5, <1>7, <1>8, KnownKept
<1>10. TypeOK'
  BY <1>0, <1>2, <1>3, <1>4, <1>7, <1>9 DEF TypeOK, fixtures
<1> QED  BY <1>9, <1>10 DEF RowsFit

LEMMA FinishFits ==
  ASSUME NightlyAssumption, RowsFit, NEW a \in Attempt, Finish(a)
  PROVE  RowsFit'
<1> DEFINE r == RunOf[a]
           status == IF mem[a].failed \/ mem[a].lost THEN "ERROR" ELSE "COMPLETED"
           H == {m \in HeldJobs(a) : status = "ERROR"}
<1>0. /\ mem[a] \in Memory /\ mem[a].count \in Nat /\ TypeOK /\ RowsKnown
      /\ r \in Run /\ runs[r] \in RunRow /\ phase[a] = "finishing"
      /\ now \in Nat /\ UNCHANGED <<fixtures, staked, inputs>>
  <2> HIDE DEF status, H
  <2>1. TypeOK /\ RowsKnown /\ now \in Nat /\ r \in Run
    BY DEF RowsFit, TypeOK, NightlyAssumption
  <2>2. mem[a] \in Memory
    BY <2>1 DEF TypeOK
  <2>3. mem[a].count \in Nat
    BY <2>2, MemoryFields
  <2>4. phase[a] = "finishing" /\ UNCHANGED <<fixtures, staked, inputs>>
    BY DEF Finish
  <2>5. runs[r] # None
    BY <2>1, <2>4 DEF RowsKnown
  <2>6. runs[r] \in RunRow
    BY <2>1, <2>5 DEF TypeOK
  <2> QED  BY <2>1, <2>2, <2>3, <2>4, <2>6
<1>1. GoesOn(a, "ended", Blank)
  BY <1>0, BlankType DEF Finish, GoesOn, Phases
<1>2. CASE runs[r].holder # a \/ runs[r].status = "COMPLETED"
  <2>1. UNCHANGED <<runs, jobs>>
    BY <1>2 DEF Finish
  <2> QED  BY <1>0, <1>1, <2>1, MemoryStepFits DEF tables
<1>3. CASE ~(runs[r].holder # a \/ runs[r].status = "COMPLETED")
  <2>1. /\ runs' = [runs EXCEPT ![r].status = status, ![r].expires = now,
                                ![r].registered = mem[a].count]
        /\ jobs' = [m \in Match |-> IF status = "ERROR" /\ m \in HeldJobs(a)
                                    THEN [jobs[m] EXCEPT !.status = "PENDING", !.expires = now]
                                    ELSE jobs[m]]
    BY <1>3 DEF Finish
  <2>2. status \in {"ERROR", "COMPLETED"}
    OBVIOUS
  <2>3. /\ runs'[r] \in RunRow /\ runs'[r].holder = runs[r].holder
        /\ runs'[r].status # "RUNNING"
        /\ \A q \in Run : q # r => runs'[q] = runs[q]
        /\ runs' \in [Run -> RunRow \union {None}]
    <3> HIDE DEF status, H
    <3> QED  BY <1>0, <2>1, <2>2 DEF RunRow, TypeOK
  <2>4. ASSUME NEW m \in H
        PROVE  /\ jobs[m] \in JobRow /\ jobs'[m] \in JobRow /\ jobs'[m].status # "CLAIMED"
               /\ jobs'[m].holder = jobs[m].holder /\ jobs'[m].run = jobs[m].run
    <3>1. jobs[m] \in JobRow /\ m \in Match
      BY <1>0 DEF HeldJobs, TypeOK
    <3> QED  BY <1>0, <2>1, <3>1 DEF JobRow
  <2>5. \A m \in Match : m \notin H => jobs'[m] = jobs[m]
    BY <2>1
  <2>6. jobs' \in [Match -> JobRow \union {None}]
    BY <1>0, <2>1, <2>4, <2>5 DEF TypeOK
  <2>7. RowsStay
    BY <1>0, <2>3, <2>4, <2>5 DEF RowsStay, NightlyAssumption
  <2>8. RowsKnown' /\ phase' \in [Attempt -> Phases] /\ mem' \in [Attempt -> Memory]
    BY <1>0, <1>1, <2>7, KnownKept DEF RowsKnown
  <2>9. TypeOK'
    BY <1>0, <2>3, <2>4, <2>5, <2>6, <2>8 DEF TypeOK, fixtures
  <2> QED  BY <2>8, <2>9 DEF RowsFit
<1> QED  BY <1>2, <1>3

LEMMA SurroundingsFit ==
  ASSUME NightlyAssumption, RowsFit,
         \/ Tick \/ \E m \in Match : Play(m) \/ StakeElsewhere(m)
         \/ \E m \in Match, k \in Kickoffs : Reschedule(m, k)
  PROVE  RowsFit'
<1>1. UNCHANGED <<runs, jobs, inputs, phase, mem>>
  BY DEF Tick, Play, StakeElsewhere, Reschedule, tables
<1>2. RowsKnown'
  BY <1>1 DEF RowsFit, RowsKnown, JobsOf
<1>3. now' \in 0..MaxTime
  BY DEF RowsFit, TypeOK, Tick, Play, StakeElsewhere, Reschedule, NightlyAssumption, fixtures
<1>4. kickoff' \in [Match -> Kickoffs] /\ changes' \in 0..MaxChanges
  BY DEF RowsFit, TypeOK, Tick, Play, StakeElsewhere, Reschedule, NightlyAssumption, fixtures
<1>5. played' \subseteq Match /\ staked' \subseteq Match
  BY DEF RowsFit, TypeOK, Tick, Play, StakeElsewhere, Reschedule, tables, fixtures
<1> QED  BY <1>1, <1>2, <1>3, <1>4, <1>5 DEF RowsFit, TypeOK

-----------------------------------------------------------------------------
(* The rows of the nightly run keep their types and references (TypeOK:    *)
(* the tables of migrations 015 and 020 and the memory of an attempt).     *)
THEOREM RowsAlwaysKnown == Spec => []RowsFit
<1>1. Init => RowsFit
  <2> SUFFICES ASSUME Init PROVE RowsFit
    OBVIOUS
  <2>1. TypeOK
    BY BlankType, NightlyAssumption DEF Init, Fresh, TypeOK, NightlyAssumption, Phases
  <2>2. RowsKnown
    BY FS_EmptySet DEF Init, Fresh, RowsKnown, JobsOf, Blank
  <2> QED  BY <2>1, <2>2 DEF RowsFit
<1>2. RowsFit /\ [Next]_vars => RowsFit'
  <2> SUFFICES ASSUME RowsFit, [Next]_vars PROVE RowsFit'
    OBVIOUS
  <2> USE NightlyAssumption
  <2>1. ASSUME NEW a \in Attempt, Advance(a) \/ Renew(a) \/ RenewalFails(a) \/ Crash(a)
        PROVE  RowsFit'
    <3>1. CASE List(a)  BY <3>1, ListFits
    <3>2. CASE Claim(a)  BY <3>2, ClaimFits
    <3>3. ASSUME NEW m \in Match, JobStep(a, m) PROVE RowsFit'
      BY <3>3, JobStepFits
    <3>4. CASE Renew(a)  BY <3>4, RenewFits
    <3>5. CASE Commit(a)  BY <3>5, CommitFits
    <3>6. CASE Finish(a)  BY <3>6, FinishFits
    <3>7. CASE \/ RenewalFails(a) \/ Fail(a) \/ Rollback(a) \/ SkipCommit(a)
               \/ BeginCommit(a) \/ Report(a) \/ Crash(a)
      BY <3>7, QuietStepsFit
    <3> QED  BY <2>1, <3>1, <3>2, <3>3, <3>4, <3>5, <3>6, <3>7 DEF Advance
  <2>2. CASE Tick \/ (\E m \in Match : Play(m) \/ StakeElsewhere(m))
             \/ (\E m \in Match, k \in Kickoffs : Reschedule(m, k))
    BY <2>2, SurroundingsFit
  <2>3. CASE UNCHANGED vars
    BY <2>3 DEF RowsFit, TypeOK, RowsKnown, JobsOf, vars, fixtures, tables
  <2> QED  BY <2>1, <2>2, <2>3 DEF Next
<1> QED  BY <1>1, <1>2, PTL DEF Spec

THEOREM TypeCorrect == Spec => []TypeOK
<1>1. RowsFit => TypeOK
  BY DEF RowsFit
<1> QED  BY <1>1, RowsAlwaysKnown, PTL

-----------------------------------------------------------------------------
(***************************************************************************)
(* Safety of the nightly run for every value of its constants: the leases  *)
(* on fixtures lie within the lease of their run, and a fixture is decided *)
(* once.  Each invariant is kept together with RowsFit, the rows' types and*)
(* references.                                                             *)
(***************************************************************************)

Claimed(m) == jobs[m] # None /\ jobs[m].status = "CLAIMED"

(* Why an attempt may have its token on a claimed job: it works on it, or  *)
(* it is about to give it back, or it died.                                *)
AtWork(a, m) == \/ phase[a] = "working" /\ m \in JobsOf(a)
                \/ phase[a] = "committing" /\ m \in mem[a].chosen
                \/ phase[a] = "finishing" /\ mem[a].failed
                \/ phase[a] = "ended"
HeldIsWork == \A m \in Match : Claimed(m) => AtWork(jobs[m].holder, m)

OnlyMoves(a) ==
  \A b \in Attempt \ {a} : phase'[b] = phase[b] /\ mem'[b] = mem[b]

(* What a renewal leaves of an attempt's memory. *)
LostOnly(a) == /\ JobsOf(a)' = JobsOf(a) /\ mem'[a].chosen = mem[a].chosen
               /\ mem'[a].failed = mem[a].failed

(* No job becomes claimed, and a claim that stays keeps its holder and run.*)
ClaimsFall ==
  \A m \in Match : Claimed(m)' => /\ Claimed(m) /\ jobs'[m].holder = jobs[m].holder
                                  /\ jobs'[m].run = jobs[m].run

-----------------------------------------------------------------------------
(* What the steps do to jobs. *)

LEMMA JobFields ==
  ASSUME NEW j \in JobRow, NEW s, NEW e
  PROVE  /\ [j EXCEPT !.status = s].status = s /\ [j EXCEPT !.status = s].holder = j.holder
         /\ [j EXCEPT !.status = s, !.expires = e].status = s
         /\ \A x \in {[j EXCEPT !.expires = e]} :
              /\ x.status = j.status /\ x.holder = j.holder /\ x.run = j.run
              /\ x.kickoff = j.kickoff /\ x.expires = e
  BY DEF JobRow

LEMMA MarkedLost ==
  ASSUME TypeOK, NEW a \in Attempt, Renew(a) \/ RenewalFails(a)
  PROVE  /\ UNCHANGED phase /\ LostOnly(a)
         /\ \A b \in Attempt \ {a} : phase'[b] = phase[b] /\ mem'[b] = mem[b]
<1>1. CASE UNCHANGED mem
  BY <1>1 DEF Renew, RenewalFails, LostOnly, JobsOf
<1>2. CASE mem' = [mem EXCEPT ![a].lost = TRUE]
  <2>1. mem[a] \in Memory /\ mem'[a] = [mem[a] EXCEPT !.lost = TRUE]
    BY <1>2 DEF TypeOK
  <2>2. /\ mem'[a].todo = mem[a].todo /\ mem'[a].ready = mem[a].ready
        /\ mem'[a].chosen = mem[a].chosen /\ mem'[a].failed = mem[a].failed
    BY <2>1 DEF Memory
  <2> QED  BY <1>2, <2>2 DEF Renew, RenewalFails, LostOnly, JobsOf, TypeOK
<1> QED  BY <1>1, <1>2 DEF Renew, RenewalFails

LEMMA FinishJobEffect ==
  ASSUME RowsFit, NEW a \in Attempt, NEW m \in JobsOf(a), phase[a] = "working",
         NEW status \in {"PENDING", "COMPLETED", "MISSED", "SKIPPED"}, NEW rest,
         FinishJob(a, m, status, rest)
  PROVE  /\ UNCHANGED <<fixtures, staked, runs, inputs>> /\ OnlyMoves(a)
         /\ \A n \in Match \ {m} : jobs'[n] = jobs[n]
         /\ \/ phase'[a] = "finishing" /\ mem'[a].failed /\ UNCHANGED jobs
            \/ /\ phase'[a] = "working" /\ mem'[a] = rest
               /\ jobs'[m] = [jobs[m] EXCEPT !.status = jobs'[m].status]
               /\ jobs'[m].status # "CLAIMED"
               /\ jobs[m].status = "COMPLETED" => jobs'[m].status = "COMPLETED"
<1>0. /\ TypeOK /\ m \in Match /\ jobs[m] \in JobRow
      /\ UNCHANGED <<fixtures, staked, runs, inputs>>
  BY MemoryFields DEF RowsFit, TypeOK, RowsKnown, JobsOf, FinishJob
<1>1. CASE jobs[m].holder = a
  BY <1>0, <1>1 DEF FinishJob, TypeOK, JobRow, OnlyMoves
<1>2. CASE jobs[m].holder # a
  BY <1>0, <1>2 DEF FinishJob, Throw, TypeOK, OnlyMoves, Blank
<1> QED  BY <1>1, <1>2

LEMMA JobStepEffect ==
  ASSUME RowsFit, NEW a \in Attempt, NEW m \in Match, JobStep(a, m)
  PROVE  /\ UNCHANGED <<fixtures, staked, runs, inputs>> /\ OnlyMoves(a)
         /\ phase[a] = "working" /\ jobs[m] \in JobRow
         /\ \A n \in Match \ {m} : jobs'[n] = jobs[n]
         /\ \/ jobs'[m] = jobs[m]
            \/ /\ jobs'[m] = [jobs[m] EXCEPT !.status = jobs'[m].status]
               /\ jobs'[m].status # "CLAIMED"
               /\ jobs[m].status = "COMPLETED" => jobs'[m].status = "COMPLETED"
         /\ \/ phase'[a] = "finishing" /\ mem'[a].failed
            \/ /\ phase'[a] = "working"
               /\ \A n \in JobsOf(a) : n \in JobsOf(a)' \/ (n = m /\ jobs'[m].status # "CLAIMED")
<1>0. TypeOK /\ mem[a] \in Memory
  BY DEF RowsFit, TypeOK
<1>1. /\ phase[a] = "working" /\ m \in JobsOf(a)
      /\ Choosing(a, m) \/ Preparing(a, m) \/ Admitting(a, m)
  BY DEF JobStep, MissJob, StartJob, SkipJob, RetryJob, PrepareJob, AdmitJob, DropJob,
         Choosing, Preparing, Admitting, JobsOf
<1>2. jobs[m] \in JobRow
  BY <1>0, <1>1 DEF RowsFit, RowsKnown, TypeOK
<1>3. CASE PrepareJob(a, m)
  <2> DEFINE x == [Tried(a, m) EXCEPT !.ready = @ \union {m}]
  <2>1. mem' = [mem EXCEPT ![a] = x] /\ UNCHANGED <<fixtures, tables, phase>>
    BY <1>3 DEF PrepareJob
  <2>2. x.todo \union x.ready \union x.chosen = JobsOf(a)
    BY <1>0, <1>3 DEF PrepareJob, Preparing, Tried, JobsOf, Memory
  <2> HIDE DEF x
  <2>3. JobsOf(a)' = JobsOf(a) /\ OnlyMoves(a)
    BY <1>0, <2>1, <2>2 DEF JobsOf, OnlyMoves, TypeOK
  <2> QED  BY <1>1, <1>2, <2>1, <2>3 DEF tables
<1>9. CASE StartJob(a, m)
  <2> DEFINE x == [mem[a] EXCEPT !.doing = {m}]
  <2>1. mem' = [mem EXCEPT ![a] = x] /\ UNCHANGED <<fixtures, tables, phase>>
    BY <1>9 DEF StartJob
  <2>2. x.todo \union x.ready \union x.chosen = JobsOf(a)
    BY <1>0 DEF JobsOf, Memory
  <2> HIDE DEF x
  <2>3. JobsOf(a)' = JobsOf(a) /\ OnlyMoves(a)
    BY <1>0, <2>1, <2>2 DEF JobsOf, OnlyMoves, TypeOK
  <2> QED  BY <1>1, <1>2, <2>1, <2>3 DEF tables
<1>4. CASE AdmitJob(a, m)
  <2> DEFINE x == [Settled(a, m) EXCEPT !.chosen = @ \union {m}]
  <2>1. mem' = [mem EXCEPT ![a] = x] /\ UNCHANGED <<fixtures, tables, phase>>
    BY <1>4 DEF AdmitJob
  <2>2. x.todo \union x.ready \union x.chosen = JobsOf(a)
    BY <1>0, <1>4 DEF AdmitJob, Admitting, Settled, JobsOf, Memory
  <2> HIDE DEF x
  <2>3. JobsOf(a)' = JobsOf(a) /\ OnlyMoves(a)
    BY <1>0, <2>1, <2>2 DEF JobsOf, OnlyMoves, TypeOK
  <2> QED  BY <1>1, <1>2, <2>1, <2>3 DEF tables
<1>5. ASSUME NEW status \in {"PENDING", "COMPLETED", "MISSED", "SKIPPED"}, NEW rest,
             JobsOf(a) \subseteq rest.todo \union rest.ready \union rest.chosen \union {m},
             FinishJob(a, m, status, rest)
      PROVE  /\ UNCHANGED <<fixtures, staked, runs, inputs>> /\ OnlyMoves(a)
             /\ \A n \in Match \ {m} : jobs'[n] = jobs[n]
             /\ \/ jobs'[m] = jobs[m]
                \/ /\ jobs'[m] = [jobs[m] EXCEPT !.status = jobs'[m].status]
                   /\ jobs'[m].status # "CLAIMED"
                   /\ jobs[m].status = "COMPLETED" => jobs'[m].status = "COMPLETED"
             /\ \/ phase'[a] = "finishing" /\ mem'[a].failed
                \/ /\ phase'[a] = "working"
                   /\ \A n \in JobsOf(a) : n \in JobsOf(a)' \/ (n = m /\ jobs'[m].status # "CLAIMED")
  <2>1. /\ UNCHANGED <<fixtures, staked, runs, inputs>> /\ OnlyMoves(a)
        /\ \A n \in Match \ {m} : jobs'[n] = jobs[n]
        /\ \/ phase'[a] = "finishing" /\ mem'[a].failed /\ UNCHANGED jobs
           \/ /\ phase'[a] = "working" /\ mem'[a] = rest
              /\ jobs'[m] = [jobs[m] EXCEPT !.status = jobs'[m].status]
              /\ jobs'[m].status # "CLAIMED"
              /\ jobs[m].status = "COMPLETED" => jobs'[m].status = "COMPLETED"
    BY <1>1, <1>5, FinishJobEffect
  <2>2. mem'[a] = rest => JobsOf(a)' = rest.todo \union rest.ready \union rest.chosen
    BY DEF JobsOf
  <2> QED  BY <1>5, <2>1, <2>2
<1>6. \A x \in {Tried(a, m), [Tried(a, m) EXCEPT !.failed = TRUE], Settled(a, m)} :
        JobsOf(a) \subseteq x.todo \union x.ready \union x.chosen \union {m}
  <2>1. /\ Tried(a, m).todo = mem[a].todo \ {m} /\ Tried(a, m).ready = mem[a].ready
        /\ Tried(a, m).chosen = mem[a].chosen
    BY <1>0 DEF Tried, Memory
  <2>2. \A x \in {[Tried(a, m) EXCEPT !.failed = TRUE]} :
          x.todo = mem[a].todo \ {m} /\ x.ready = mem[a].ready /\ x.chosen = mem[a].chosen
    BY <1>0 DEF Tried, Memory
  <2>3. /\ Settled(a, m).todo = mem[a].todo /\ Settled(a, m).ready = mem[a].ready \ {m}
        /\ Settled(a, m).chosen = mem[a].chosen
    BY <1>0 DEF Settled, Memory
  <2> QED  BY <2>1, <2>2, <2>3 DEF JobsOf
<1>7. CASE MissJob(a, m) \/ SkipJob(a, m) \/ DropJob(a, m)
  BY <1>1, <1>2, <1>5, <1>6, <1>7 DEF MissJob, SkipJob, DropJob
<1>8. CASE RetryJob(a, m)
  <2> DEFINE open == now < runs[jobs[m].run].ends /\ now < jobs[m].kickoff
             s == IF open THEN "PENDING" ELSE "MISSED"
  <2>1. FinishJob(a, m, s, [Tried(a, m) EXCEPT !.failed = TRUE])
    BY <1>8 DEF RetryJob
  <2>2. s \in {"PENDING", "COMPLETED", "MISSED", "SKIPPED"}
    OBVIOUS
  <2> HIDE DEF s
  <2> QED  BY <1>1, <1>2, <1>5, <1>6, <2>1, <2>2
<1> QED  BY <1>3, <1>4, <1>7, <1>8, <1>9 DEF JobStep

LEMMA CommitEffect ==
  ASSUME NightlyAssumption, RowsFit, NEW a \in Attempt, Commit(a)
  PROVE  /\ phase[a] = "committing" /\ OnlyMoves(a) /\ UNCHANGED <<fixtures, staked, runs>>
         /\ \/ phase'[a] = "reporting"
            \/ phase'[a] = "finishing" /\ mem'[a].failed
         /\ mem[a].chosen \subseteq Match
         /\ \A m \in mem[a].chosen : /\ jobs[m] \in JobRow /\ HoldsJob(a, m)
                                     /\ jobs'[m] = [jobs[m] EXCEPT !.status = "COMPLETED"]
                                     /\ jobs'[m] \in JobRow
         /\ \A m \in Match \ mem[a].chosen : jobs'[m] = jobs[m]
<1>0. /\ mem[a] \in Memory /\ TypeOK /\ RowsKnown /\ mem[a].chosen \subseteq Match
      /\ phase[a] = "committing" /\ UNCHANGED <<fixtures, staked, runs>>
  BY MemoryFields DEF RowsFit, TypeOK, Commit
<1>1. \A m \in mem[a].chosen : jobs[m] \in JobRow
  BY <1>0 DEF RowsKnown, JobsOf, TypeOK
<1>2. /\ OnlyMoves(a)
      /\ \/ phase'[a] = "reporting"
         \/ phase'[a] = "finishing" /\ mem'[a].failed
  <2>1. CASE phase' = [phase EXCEPT ![a] = "reporting"] /\ UNCHANGED mem
    BY <1>0, <2>1 DEF OnlyMoves, TypeOK
  <2>2. CASE Throw(a)
    BY <1>0, <2>2 DEF Throw, OnlyMoves, TypeOK, Blank
  <2> QED  BY <2>1, <2>2 DEF Commit
<1>3. \A m \in Match : jobs'[m] = IF m \in mem[a].chosen
                                  THEN [jobs[m] EXCEPT !.status = "COMPLETED"] ELSE jobs[m]
  BY DEF Commit
<1>4. \A m \in mem[a].chosen : HoldsJob(a, m)
  BY DEF Commit
<1>5. \A m \in mem[a].chosen : [jobs[m] EXCEPT !.status = "COMPLETED"] \in JobRow
  BY <1>1 DEF JobRow
<1> QED  BY <1>0, <1>1, <1>2, <1>3, <1>4, <1>5

-----------------------------------------------------------------------------
(* A token on a claimed job belongs to an attempt at work on it. *)

LEMMA HeldKept ==
  ASSUME RowsFit, HeldIsWork, NEW a \in Attempt, OnlyMoves(a), ClaimsFall,
         \A m \in Match :
           Claimed(m) /\ Claimed(m)' /\ jobs[m].holder = a /\ AtWork(a, m) => AtWork(a, m)'
  PROVE  HeldIsWork'
<1> SUFFICES ASSUME NEW m \in Match, Claimed(m)'
             PROVE  AtWork(jobs[m].holder, m)'
  BY DEF HeldIsWork
<1>1. Claimed(m) /\ jobs'[m].holder = jobs[m].holder /\ AtWork(jobs[m].holder, m)
  BY DEF ClaimsFall, HeldIsWork
<1>2. jobs[m].holder \in Attempt
  BY <1>1 DEF RowsFit, TypeOK, JobRow, Claimed
<1>3. CASE jobs[m].holder = a
  BY <1>1, <1>3 DEF AtWork
<1>4. CASE jobs[m].holder # a
  BY <1>1, <1>2, <1>4 DEF OnlyMoves, AtWork, JobsOf
<1> QED  BY <1>3, <1>4

LEMMA HeldIsWorkKept ==
  ASSUME NightlyAssumption, RowsFit, HeldIsWork, [Next]_vars
  PROVE  HeldIsWork'
<1>0. TypeOK /\ \A a \in Attempt : mem[a] \in Memory
  BY DEF RowsFit, TypeOK
<1>1. UNCHANGED jobs => ClaimsFall
  BY DEF ClaimsFall, Claimed
<1>2. ASSUME NEW a \in Attempt, List(a) PROVE HeldIsWork'
  <2>1. OnlyMoves(a) /\ UNCHANGED jobs /\ phase[a] = "waiting"
    BY <1>0, <1>2 DEF List, OnlyMoves, TypeOK, tables
  <2> QED  BY <1>1, <2>1, HeldKept DEF AtWork
<1>3. ASSUME NEW a \in Attempt, Claim(a) PROVE HeldIsWork'
  <2>1. CASE Refused(a)
    <3>1. OnlyMoves(a) /\ UNCHANGED jobs /\ phase[a] = "listed"
      BY <1>0, <1>3, <2>1 DEF Claim, OnlyMoves, TypeOK
    <3> QED  BY <1>1, <3>1, HeldKept DEF AtWork
  <2>2. CASE ~Refused(a)
    <3> DEFINE M == {m \in Match : Claimable(a, m)}
    <3>1. /\ jobs' = [m \in Match |-> IF m \in M THEN ClaimedJob(a, m) ELSE jobs[m]]
          /\ mem' = [mem EXCEPT ![a].todo = M] /\ phase' = [phase EXCEPT ![a] = "working"]
          /\ phase[a] = "listed"
      BY <1>3, <2>2 DEF Claim
    <3>2. OnlyMoves(a) /\ phase'[a] = "working" /\ M \subseteq JobsOf(a)'
      BY <1>0, <3>1 DEF OnlyMoves, TypeOK, JobsOf, Memory
    <3> SUFFICES ASSUME NEW m \in Match, Claimed(m)' PROVE AtWork(jobs[m].holder, m)'
      BY DEF HeldIsWork
    <3>3. CASE m \in M
      BY <3>1, <3>2, <3>3 DEF ClaimedJob, AtWork
    <3>4. CASE m \notin M
      <4>1. jobs'[m] = jobs[m] /\ Claimed(m) /\ AtWork(jobs[m].holder, m)
        BY <3>1, <3>4 DEF Claimed, HeldIsWork
      <4>2. jobs[m].holder \in Attempt \ {a}
        BY <1>0, <3>1, <4>1 DEF AtWork, TypeOK, JobRow, Claimed
      <4> QED  BY <3>2, <4>1, <4>2 DEF OnlyMoves, AtWork, JobsOf
    <3> QED  BY <3>3, <3>4
  <2> QED  BY <2>1, <2>2
<1>4. ASSUME NEW a \in Attempt, NEW m \in Match, JobStep(a, m) PROVE HeldIsWork'
  <2>1. /\ OnlyMoves(a) /\ phase[a] = "working" /\ jobs[m] \in JobRow
        /\ \A n \in Match \ {m} : jobs'[n] = jobs[n]
        /\ \/ jobs'[m] = jobs[m] \/ jobs'[m].status # "CLAIMED"
        /\ \/ phase'[a] = "finishing" /\ mem'[a].failed
           \/ /\ phase'[a] = "working"
              /\ \A n \in JobsOf(a) : n \in JobsOf(a)' \/ (n = m /\ jobs'[m].status # "CLAIMED")
    BY <1>4, JobStepEffect
  <2>2. ClaimsFall
    BY <2>1 DEF ClaimsFall, Claimed
  <2> QED  BY <2>1, <2>2, HeldKept DEF AtWork, Claimed
<1>5. ASSUME NEW a \in Attempt, Renew(a) PROVE HeldIsWork'
  <2>1. UNCHANGED phase /\ OnlyMoves(a) /\ LostOnly(a)
    BY <1>0, <1>5, MarkedLost DEF Renew, OnlyMoves, LostOnly
  <2>2. ClaimsFall
    <3>1. CASE ~Renewable(a)
      BY <1>1, <1>5, <3>1 DEF Renew
    <3>2. CASE Renewable(a)
      <4>1. \A m \in Match : jobs'[m] =
              IF m \in HeldJobs(a)
              THEN [jobs[m] EXCEPT !.expires = Earlier(jobs[m].kickoff, LeaseEnd(runs[RunOf[a]].ends))]
              ELSE jobs[m]
        BY <1>5, <3>2 DEF Renew
      <4>2. \A m \in HeldJobs(a) : jobs[m] \in JobRow /\ Claimed(m)
        BY <1>0 DEF HeldJobs, TypeOK, Claimed
      <4> QED  BY <4>1, <4>2 DEF ClaimsFall, Claimed, JobRow
    <3> QED  BY <3>1, <3>2
  <2> QED  BY <2>1, <2>2, HeldKept DEF AtWork, LostOnly
<1>6. ASSUME NEW a \in Attempt, Commit(a) PROVE HeldIsWork'
  <2>1. /\ OnlyMoves(a) /\ phase[a] = "committing"
        /\ \A m \in mem[a].chosen : jobs'[m].status = "COMPLETED"
        /\ \A m \in Match \ mem[a].chosen : jobs'[m] = jobs[m]
    <3>1. \A m \in mem[a].chosen :
            jobs[m] \in JobRow /\ jobs'[m] = [jobs[m] EXCEPT !.status = "COMPLETED"]
      BY <1>6, CommitEffect
    <3>2. ASSUME NEW m \in mem[a].chosen PROVE jobs'[m].status = "COMPLETED"
      <4>1. jobs[m] \in JobRow /\ jobs'[m] = [jobs[m] EXCEPT !.status = "COMPLETED"]
        BY <3>1
      <4>2. [jobs[m] EXCEPT !.status = "COMPLETED"].status = "COMPLETED"
        BY <4>1, JobFields
      <4> QED  BY <4>1, <4>2
    <3> QED  BY <1>6, <3>2, CommitEffect
  <2>2. ClaimsFall
    BY <2>1 DEF ClaimsFall, Claimed
  <2> QED  BY <2>1, <2>2, HeldKept DEF AtWork, Claimed
<1>7. ASSUME NEW a \in Attempt, Finish(a) PROVE HeldIsWork'
  <2>1. OnlyMoves(a) /\ phase'[a] = "ended"
    BY <1>0, <1>7 DEF Finish, OnlyMoves, TypeOK
  <2>2. ClaimsFall
    <3>1. ASSUME NEW m \in Match
          PROVE  \/ jobs'[m] = jobs[m]
                 \/ m \in HeldJobs(a) /\ jobs'[m] = [jobs[m] EXCEPT !.status = "PENDING", !.expires = now]
      BY <1>7 DEF Finish
    <3>2. ASSUME NEW m \in Match
          PROVE  jobs'[m] = jobs[m] \/ jobs'[m].status = "PENDING"
      <4>1. CASE m \in HeldJobs(a)
        <5>1. jobs[m] \in JobRow
          BY <1>0, <4>1 DEF HeldJobs, TypeOK
        <5>2. [jobs[m] EXCEPT !.status = "PENDING", !.expires = now].status = "PENDING"
          BY <5>1, JobFields
        <5> QED  BY <3>1, <5>2
      <4>2. CASE m \notin HeldJobs(a)
        BY <3>1, <4>2
      <4> QED  BY <4>1, <4>2
    <3> QED  BY <3>2 DEF ClaimsFall, Claimed
  <2> QED  BY <2>1, <2>2, HeldKept DEF AtWork
<1>8. ASSUME NEW a \in Attempt, RenewalFails(a) PROVE HeldIsWork'
  <2>1. OnlyMoves(a) /\ UNCHANGED <<jobs, phase>> /\ LostOnly(a)
    BY <1>0, <1>8, MarkedLost DEF RenewalFails, OnlyMoves, LostOnly, tables
  <2> QED  BY <1>1, <2>1, HeldKept DEF AtWork, LostOnly
<1>9. ASSUME NEW a \in Attempt, Throw(a), UNCHANGED jobs PROVE HeldIsWork'
  <2>1. OnlyMoves(a) /\ phase'[a] = "finishing" /\ mem'[a].failed
    BY <1>0, <1>9 DEF Throw, OnlyMoves, TypeOK, Blank
  <2> QED  BY <1>1, <1>9, <2>1, HeldKept DEF AtWork
<1>10. ASSUME NEW a \in Attempt, SkipCommit(a) \/ Report(a) PROVE HeldIsWork'
  <2>1. OnlyMoves(a) /\ UNCHANGED jobs /\ \A m \in Match : ~AtWork(a, m)
    BY <1>0, <1>10 DEF SkipCommit, Report, Prepared, OnlyMoves, TypeOK, JobsOf, AtWork, tables
  <2> QED  BY <1>1, <2>1, HeldKept
<1>11. ASSUME NEW a \in Attempt, BeginCommit(a), MayCommit(a) PROVE HeldIsWork'
  <2>1. OnlyMoves(a) /\ UNCHANGED <<jobs, mem>> /\ phase'[a] = "committing"
        /\ phase[a] = "working" /\ JobsOf(a) = mem[a].chosen
    BY <1>0, <1>11 DEF BeginCommit, Prepared, OnlyMoves, TypeOK, JobsOf, tables
  <2> QED  BY <1>1, <2>1, HeldKept DEF AtWork
<1>12. ASSUME NEW a \in Attempt, Crash(a) PROVE HeldIsWork'
  <2>1. OnlyMoves(a) /\ UNCHANGED jobs /\ phase'[a] = "ended"
    BY <1>0, <1>12 DEF Crash, OnlyMoves, TypeOK, tables
  <2> QED  BY <1>1, <2>1, HeldKept DEF AtWork
<1>13. ASSUME UNCHANGED <<jobs, phase, mem>> PROVE HeldIsWork'
  BY <1>13 DEF HeldIsWork, Claimed, AtWork, JobsOf
<1>14. \A a \in Attempt :
         /\ Fail(a) \/ Rollback(a) \/ (BeginCommit(a) /\ ~MayCommit(a)) => Throw(a) /\ UNCHANGED jobs
  BY DEF Fail, Rollback, BeginCommit, tables
<1>15. ASSUME NEW a \in Attempt, Advance(a) \/ Renew(a) \/ RenewalFails(a) \/ Crash(a)
       PROVE  HeldIsWork'
  <2>1. CASE Fail(a) \/ Rollback(a) \/ (BeginCommit(a) /\ ~MayCommit(a))
    BY <1>9, <1>14, <2>1
  <2> QED  BY <1>2, <1>3, <1>4, <1>5, <1>6, <1>7, <1>8, <1>10, <1>11, <1>12, <1>15, <2>1
           DEF Advance
<1>16. CASE \/ Tick \/ UNCHANGED vars \/ \E m \in Match : Play(m) \/ StakeElsewhere(m)
            \/ \E m \in Match, k \in Kickoffs : Reschedule(m, k)
  BY <1>13, <1>16 DEF Tick, vars, Play, StakeElsewhere, Reschedule, tables
<1> QED  BY <1>15, <1>16 DEF Next

-----------------------------------------------------------------------------
(* A live claim lies within the live lease of its run. *)

Live(m) == Claimed(m) /\ now < jobs[m].expires
Nested(m) ==
  /\ Active(jobs[m].run) /\ runs[jobs[m].run].holder = jobs[m].holder
  /\ jobs[m].expires <= runs[jobs[m].run].expires

LEMMA NestIsForLive ==
  LeasesNest <=> \A m \in Match : Live(m) => Nested(m)
BY DEF LeasesNest, Live, Nested, Claimed

(* Claims that neither appear nor change, under rows that stay, go on being *)
(* nested while the clock moves forward.                                    *)
LEMMA NestKept ==
  ASSUME NightlyAssumption, RowsFit, LeasesNest, UNCHANGED runs, now' \in Nat, now <= now',
         \A m \in Match : jobs'[m] = jobs[m] \/ ~Claimed(m)'
  PROVE  LeasesNest'
<1> SUFFICES ASSUME NEW m \in Match, Live(m)' PROVE Nested(m)'
  BY NestIsForLive DEF LeasesNest, Live, Nested, Claimed
<1>1. jobs'[m] = jobs[m] /\ Claimed(m) /\ now' < jobs[m].expires
  BY DEF Live, Claimed
<1>2. jobs[m] \in JobRow /\ jobs[m].expires \in Nat /\ jobs[m].run \in Run /\ now \in Nat
  BY <1>1 DEF RowsFit, TypeOK, Claimed, JobRow, NightlyAssumption
<1>3. Nested(m)
  BY <1>1, <1>2, NestIsForLive DEF Live
<1>4. runs[jobs[m].run] \in RunRow
  BY <1>2, <1>3 DEF RowsFit, TypeOK, Nested, Active
<1>5. runs[jobs[m].run].expires \in Nat
  BY <1>4 DEF RunRow
<1> QED  BY <1>1, <1>2, <1>3, <1>5 DEF Nested, Active

LEMMA ClaimNests ==
  ASSUME NightlyAssumption, RowsFit, LeasesNest, NEW a \in Attempt, Claim(a)
  PROVE  LeasesNest'
<1>0. TypeOK /\ UNCHANGED now /\ now \in Nat
  BY DEF RowsFit, TypeOK, Claim, fixtures, NightlyAssumption
<1>1. CASE Refused(a)
  BY <1>0, <1>1, NestKept DEF Claim
<1>2. CASE ~Refused(a)
  <2> DEFINE M == {m \in Match : Claimable(a, m)}
             r == RunOf[a]
             row == [status |-> "RUNNING", holder |-> a, ends |-> mem[a].ends,
                     expires |-> LeaseEnd(mem[a].ends),
                     registered |-> IF runs[r] = None THEN 0 ELSE runs[r].registered]
  <2>1. /\ runs' = [runs EXCEPT ![r] = row]
        /\ jobs' = [m \in Match |-> IF m \in M THEN ClaimedJob(a, m) ELSE jobs[m]]
    BY <1>2 DEF Claim
  <2>2. mem[a] \in Memory /\ mem[a].ends \in Nat /\ r \in Run
    BY <1>0, MemoryFields DEF TypeOK, NightlyAssumption
  <2>3. now < mem[a].ends /\ \A q \in Run : ~Active(q)
    BY <1>0, <1>2, <2>2 DEF Refused
  <2>4. LeaseEnd(mem[a].ends) \in Nat /\ now < LeaseEnd(mem[a].ends)
    BY <1>0, <2>2, <2>3, LeaseEndBound
  <2> SUFFICES ASSUME NEW m \in Match, Live(m)' PROVE Nested(m)'
    BY NestIsForLive DEF LeasesNest, Live, Nested, Claimed
  <2>5. CASE m \in M
    <3>1. m \in DOMAIN mem[a].listed /\ mem[a].listed[m] \in Nat
      BY <2>2, <2>5, MemoryListed DEF Claimable, NightlyAssumption
    <3>2. /\ jobs'[m].run = r /\ jobs'[m].holder = a
          /\ jobs'[m].expires <= LeaseEnd(mem[a].ends)
      BY <2>1, <2>4, <2>5, <3>1 DEF ClaimedJob, Earlier
    <3>3. runs'[r] = row
      BY <1>0, <2>1, <2>2 DEF TypeOK
    <3>4. row # None
      <4>1. row \in RunRow
        BY <1>0, <2>2, <2>4 DEF RunRow, TypeOK
      <4> QED  BY <4>1 DEF NightlyAssumption
    <3> QED  BY <1>0, <2>4, <3>2, <3>3, <3>4 DEF Nested, Active
  <2>6. CASE m \notin M
    <3>1. Live(m)
      BY <1>0, <2>1, <2>6 DEF Live, Claimed
    <3>2. jobs[m].run \in Run
      BY <1>0, <3>1 DEF Live, Claimed, TypeOK, JobRow
    <3> QED  BY <2>3, <3>1, <3>2, NestIsForLive DEF Nested
  <2> QED  BY <2>5, <2>6
<1> QED  BY <1>1, <1>2

LEMMA RenewNests ==
  ASSUME NightlyAssumption, RowsFit, LeasesNest, NEW a \in Attempt, Renew(a)
  PROVE  LeasesNest'
<1>0. TypeOK /\ UNCHANGED now /\ now \in Nat /\ RunOf[a] \in Run
  BY DEF RowsFit, TypeOK, Renew, fixtures, NightlyAssumption
<1>1. CASE ~Renewable(a)
  BY <1>0, <1>1, NestKept DEF Renew
<1>2. CASE Renewable(a)
  <2> DEFINE r == RunOf[a]
             end == LeaseEnd(runs[r].ends)
  <2>1. /\ runs' = [runs EXCEPT ![r].expires = end]
        /\ jobs' = [m \in Match |-> IF m \in HeldJobs(a)
                                    THEN [jobs[m] EXCEPT !.expires = Earlier(jobs[m].kickoff, end)]
                                    ELSE jobs[m]]
    BY <1>2 DEF Renew
  <2>2. /\ runs[r] \in RunRow /\ runs[r] # None /\ runs[r].status = "RUNNING"
        /\ runs[r].holder = a /\ now < runs[r].ends
    BY <1>0, <1>2 DEF Renewable, HoldsRun, TypeOK
  <2>3. end \in Nat /\ now < end
    BY <1>0, <2>2, LeaseEndBound DEF RunRow
  <2> HIDE DEF end
  <2>4. /\ runs'[r].status = "RUNNING" /\ runs'[r].holder = a /\ runs'[r].expires = end
        /\ runs'[r] \in RunRow
        /\ \A q \in Run : q # r => runs'[q] = runs[q]
    BY <1>0, <2>1, <2>2, <2>3 DEF TypeOK, RunRow
  <2>5. runs'[r] # None
    BY <2>4 DEF NightlyAssumption
  <2> SUFFICES ASSUME NEW m \in Match, Live(m)' PROVE Nested(m)'
    BY NestIsForLive DEF LeasesNest, Live, Nested, Claimed
  <2>6. CASE m \in HeldJobs(a)
    <3>1. jobs[m] \in JobRow /\ jobs[m].holder = a /\ jobs[m].run = r
      BY <1>0, <2>6 DEF HeldJobs, TypeOK
    <3>2. jobs'[m] = [jobs[m] EXCEPT !.expires = Earlier(jobs[m].kickoff, end)]
      BY <2>1, <2>6
    <3>3. /\ jobs'[m].holder = a /\ jobs'[m].run = r
          /\ jobs'[m].expires = Earlier(jobs[m].kickoff, end)
      BY <3>1, <3>2, JobFields
    <3>4. Earlier(jobs[m].kickoff, end) <= end
      BY <2>3, <3>1 DEF JobRow, Earlier
    <3> QED  BY <1>0, <2>3, <2>4, <2>5, <3>3, <3>4 DEF Nested, Active
  <2>7. CASE m \notin HeldJobs(a)
    <3>1. jobs'[m] = jobs[m] /\ Live(m) /\ jobs[m] \in JobRow
      BY <1>0, <2>1, <2>7 DEF Live, Claimed, TypeOK
    <3>2. Nested(m)
      BY <3>1, NestIsForLive
    <3>3. jobs[m].run \in Run /\ jobs[m].run # r
      BY <2>2, <2>7, <3>1, <3>2 DEF HeldJobs, Nested, Live, Claimed, JobRow
    <3> QED  BY <1>0, <2>4, <3>1, <3>2, <3>3 DEF Nested, Active
  <2> QED  BY <2>6, <2>7
<1> QED  BY <1>1, <1>2

(* An attempt that ends its run as completed holds no claim any more, and  *)
(* one that ends it as failed gives its claims back: HeldIsWork.           *)
LEMMA FinishNests ==
  ASSUME NightlyAssumption, RowsFit, HeldIsWork, LeasesNest, NEW a \in Attempt, Finish(a)
  PROVE  LeasesNest'
<1> DEFINE r == RunOf[a]
           status == IF mem[a].failed \/ mem[a].lost THEN "ERROR" ELSE "COMPLETED"
<1>0. TypeOK /\ UNCHANGED now /\ now \in Nat /\ r \in Run /\ phase[a] = "finishing"
  <2>1. TypeOK /\ now \in Nat /\ r \in Run
    BY DEF RowsFit, TypeOK, NightlyAssumption
  <2>2. phase[a] = "finishing" /\ UNCHANGED fixtures
    BY DEF Finish
  <2> QED  BY <2>1, <2>2 DEF fixtures
<1>1. CASE runs[r].holder # a \/ runs[r].status = "COMPLETED"
  <2>1. UNCHANGED <<runs, jobs>>
    BY <1>1 DEF Finish
  <2> QED  BY <1>0, <2>1, NestKept
<1>2. CASE ~(runs[r].holder # a \/ runs[r].status = "COMPLETED")
  <2>1. /\ runs' = [runs EXCEPT ![r].status = status, ![r].expires = now,
                                ![r].registered = mem[a].count]
        /\ jobs' = [m \in Match |-> IF status = "ERROR" /\ m \in HeldJobs(a)
                                    THEN [jobs[m] EXCEPT !.status = "PENDING", !.expires = now]
                                    ELSE jobs[m]]
    BY <1>2 DEF Finish
  <2>2. \A q \in Run : q # r => runs'[q] = runs[q]
    BY <1>0, <2>1 DEF TypeOK
  <2> SUFFICES ASSUME NEW m \in Match, Live(m)' PROVE Nested(m)'
    BY NestIsForLive DEF LeasesNest, Live, Nested, Claimed
  <2>3. ~(status = "ERROR" /\ m \in HeldJobs(a))
    <3> SUFFICES ASSUME status = "ERROR", m \in HeldJobs(a) PROVE FALSE
      OBVIOUS
    <3>1. jobs[m] \in JobRow
      BY <1>0 DEF HeldJobs, TypeOK
    <3>2. jobs'[m] = [jobs[m] EXCEPT !.status = "PENDING", !.expires = now]
      BY <2>1
    <3>3. jobs'[m].status = "PENDING"
      BY <3>1, <3>2, JobFields
    <3> QED  BY <3>3 DEF Live, Claimed
  <2>4. jobs'[m] = jobs[m] /\ Live(m) /\ jobs[m] \in JobRow
    BY <1>0, <2>1, <2>3 DEF Live, Claimed, TypeOK
  <2>5. Nested(m)
    BY <2>4, NestIsForLive
  <2>6. jobs[m].run # r
    <3> SUFFICES ASSUME jobs[m].run = r PROVE FALSE
      OBVIOUS
    <3>1. jobs[m].holder = a /\ m \in HeldJobs(a)
      BY <1>2, <2>4, <2>5 DEF Nested, HeldJobs, Live, Claimed
    <3>2. mem[a].failed
      BY <1>0, <2>4, <3>1 DEF HeldIsWork, AtWork, Live
    <3> QED  BY <2>3, <3>1, <3>2
  <2>7. jobs[m].run \in Run
    BY <2>4 DEF JobRow
  <2> QED  BY <1>0, <2>2, <2>4, <2>5, <2>6, <2>7 DEF Nested, Active
<1> QED  BY <1>1, <1>2

LEMMA NestStep ==
  ASSUME NightlyAssumption, RowsFit, HeldIsWork, LeasesNest, [Next]_vars
  PROVE  LeasesNest'
<1>0. TypeOK /\ now \in Nat /\ MaxTime \in Nat
  BY DEF RowsFit, TypeOK, NightlyAssumption
<1>1. ASSUME UNCHANGED <<now, runs, jobs>> PROVE LeasesNest'
  BY <1>0, <1>1, NestKept
<1>2. ASSUME NEW a \in Attempt, NEW m \in Match, JobStep(a, m) PROVE LeasesNest'
  <2>1. UNCHANGED <<now, runs>> /\ \A n \in Match : jobs'[n] = jobs[n] \/ ~Claimed(n)'
    BY <1>2, JobStepEffect DEF fixtures, Claimed
  <2> QED  BY <1>0, <2>1, NestKept
<1>3. ASSUME NEW a \in Attempt, Commit(a) PROVE LeasesNest'
  <2>1. UNCHANGED <<now, runs>>
    BY <1>3, CommitEffect DEF fixtures
  <2>2. ASSUME NEW n \in Match PROVE jobs'[n] = jobs[n] \/ ~Claimed(n)'
    <3>1. CASE n \in mem[a].chosen
      <4>1. jobs[n] \in JobRow /\ jobs'[n] = [jobs[n] EXCEPT !.status = "COMPLETED"]
        BY <1>3, <3>1, CommitEffect
      <4>2. [jobs[n] EXCEPT !.status = "COMPLETED"].status = "COMPLETED"
        BY <4>1, JobFields
      <4> QED  BY <4>1, <4>2 DEF Claimed
    <3>2. CASE n \notin mem[a].chosen
      BY <1>3, <3>2, CommitEffect
    <3> QED  BY <3>1, <3>2
  <2> QED  BY <1>0, <2>1, <2>2, NestKept
<1>4. ASSUME NEW a \in Attempt, Advance(a) \/ Renew(a) \/ RenewalFails(a) \/ Crash(a)
      PROVE  LeasesNest'
  <2>1. CASE \/ List(a) \/ Fail(a) \/ SkipCommit(a) \/ BeginCommit(a) \/ Rollback(a)
             \/ Report(a) \/ RenewalFails(a) \/ Crash(a)
    BY <1>1, <2>1 DEF List, Fail, SkipCommit, BeginCommit, Rollback, Report, RenewalFails, Crash,
                      fixtures, tables
  <2> QED  BY <1>2, <1>3, <1>4, <2>1, ClaimNests, RenewNests, FinishNests DEF Advance
<1>5. CASE Tick
  <2>1. now' \in Nat /\ now <= now' /\ UNCHANGED <<runs, jobs>>
    BY <1>0, <1>5 DEF Tick, tables
  <2> QED  BY <2>1, NestKept
<1>6. CASE \/ UNCHANGED vars \/ \E m \in Match : Play(m) \/ StakeElsewhere(m)
           \/ \E m \in Match, k \in Kickoffs : Reschedule(m, k)
  BY <1>1, <1>6 DEF vars, Play, StakeElsewhere, Reschedule, fixtures, tables
<1> QED  BY <1>4, <1>5, <1>6 DEF Next

-----------------------------------------------------------------------------
(* A recorded decision keeps its job from being claimed again. *)

RecordedIsCompleted ==
  \A m \in Match : Recorded(m) => jobs[m] # None /\ jobs[m].status = "COMPLETED"

(* Completed jobs stay so while the decisions stay as they are. *)
LEMMA RecordedKept ==
  ASSUME RecordedIsCompleted, DecidedOnce, UNCHANGED inputs,
         \A m \in Match : Recorded(m) => jobs'[m] # None /\ jobs'[m].status = "COMPLETED"
  PROVE  RecordedIsCompleted' /\ DecidedOnce'
BY DEF RecordedIsCompleted, DecidedOnce, Recorded

LEMMA CommitRecords ==
  ASSUME NightlyAssumption, RowsFit, RecordedIsCompleted, DecidedOnce,
         NEW a \in Attempt, Commit(a)
  PROVE  RecordedIsCompleted' /\ DecidedOnce'
<1> DEFINE C == mem[a].chosen
<1>1. PICK B \in SUBSET (C \ staked) :
        inputs' = inputs \union {[match |-> m, holder |-> a, bet |-> m \in B] : m \in C}
  BY DEF Commit
<1>2. \A i \in inputs' \ inputs :
        i.match \in C /\ i = [match |-> i.match, holder |-> a, bet |-> i.match \in B]
  BY <1>1
<1>3. ASSUME NEW m \in C PROVE ~Recorded(m)
  <2>1. m \in Match /\ HoldsJob(a, m)
    BY CommitEffect
  <2> QED  BY <2>1 DEF HoldsJob, RecordedIsCompleted
<1>4. ASSUME NEW m \in C PROVE jobs'[m] # None /\ jobs'[m].status = "COMPLETED"
  <2>1. /\ jobs[m] \in JobRow /\ jobs'[m] = [jobs[m] EXCEPT !.status = "COMPLETED"]
        /\ jobs'[m] \in JobRow
    BY CommitEffect
  <2>2. [jobs[m] EXCEPT !.status = "COMPLETED"].status = "COMPLETED"
    BY <2>1, JobFields
  <2> QED  BY <2>1, <2>2 DEF NightlyAssumption
<1>5. RecordedIsCompleted'
  <2> SUFFICES ASSUME NEW m \in Match, NEW i \in inputs', i.match = m
               PROVE  jobs'[m] # None /\ jobs'[m].status = "COMPLETED"
    BY DEF RecordedIsCompleted, Recorded
  <2>1. CASE m \in C
    BY <1>4, <2>1
  <2>2. CASE m \notin C
    <3>1. i \in inputs
      BY <1>2, <2>2
    <3>2. jobs[m] # None /\ jobs[m].status = "COMPLETED"
      BY <3>1 DEF RecordedIsCompleted, Recorded
    <3> QED  BY <2>2, <3>2, CommitEffect
  <2> QED  BY <2>1, <2>2
<1>6. DecidedOnce'
  <2> SUFFICES ASSUME NEW i \in inputs', NEW j \in inputs', i.match = j.match
               PROVE  i = j
    BY DEF DecidedOnce
  <2>1. CASE i \in inputs /\ j \in inputs
    BY <2>1 DEF DecidedOnce
  <2>2. CASE i \notin inputs /\ j \notin inputs
    BY <1>2, <2>2
  <2>3. CASE i \in inputs /\ j \notin inputs
    BY <1>2, <1>3, <2>3 DEF Recorded
  <2>4. CASE i \notin inputs /\ j \in inputs
    BY <1>2, <1>3, <2>4 DEF Recorded
  <2> QED  BY <2>1, <2>2, <2>3, <2>4
<1> QED  BY <1>5, <1>6

LEMMA RecordedStep ==
  ASSUME NightlyAssumption, RowsFit, RecordedIsCompleted, DecidedOnce, [Next]_vars
  PROVE  RecordedIsCompleted' /\ DecidedOnce'
<1>0. TypeOK
  BY DEF RowsFit
<1>1. ASSUME UNCHANGED <<inputs, jobs>> PROVE RecordedIsCompleted' /\ DecidedOnce'
  BY <1>1, RecordedKept DEF RecordedIsCompleted
<1>2. ASSUME NEW a \in Attempt, NEW m \in Match, JobStep(a, m)
      PROVE  RecordedIsCompleted' /\ DecidedOnce'
  <2>1. /\ UNCHANGED inputs /\ jobs[m] \in JobRow
        /\ \A n \in Match \ {m} : jobs'[n] = jobs[n]
        /\ \/ jobs'[m] = jobs[m]
           \/ /\ jobs'[m] = [jobs[m] EXCEPT !.status = jobs'[m].status]
              /\ jobs[m].status = "COMPLETED" => jobs'[m].status = "COMPLETED"
    BY <1>2, JobStepEffect
  <2>2. jobs[m].status = "COMPLETED" => jobs'[m] # None /\ jobs'[m].status = "COMPLETED"
    <3> SUFFICES ASSUME jobs[m].status = "COMPLETED"
                 PROVE  jobs'[m] # None /\ jobs'[m].status = "COMPLETED"
      OBVIOUS
    <3>1. jobs'[m].status = "COMPLETED"
      BY <2>1
    <3>2. [jobs[m] EXCEPT !.status = "COMPLETED"] \in JobRow
      BY <2>1 DEF JobRow
    <3>3. jobs'[m] \in JobRow
      BY <2>1, <3>1, <3>2
    <3> QED  BY <3>1, <3>3 DEF NightlyAssumption
  <2> QED  BY <2>1, <2>2, RecordedKept DEF RecordedIsCompleted
<1>3. ASSUME NEW a \in Attempt, Claim(a) PROVE RecordedIsCompleted' /\ DecidedOnce'
  <2>1. UNCHANGED inputs /\ \A m \in Match : jobs'[m] = jobs[m] \/ ~Recorded(m)
    BY <1>3 DEF Claim, Claimable
  <2> QED  BY <2>1, RecordedKept DEF RecordedIsCompleted
<1>4. ASSUME NEW a \in Attempt, Renew(a) \/ Finish(a) PROVE RecordedIsCompleted' /\ DecidedOnce'
  <2>1. UNCHANGED inputs /\ \A m \in Match : jobs'[m] = jobs[m] \/ m \in HeldJobs(a)
    BY <1>4 DEF Renew, Finish
  <2>2. \A m \in HeldJobs(a) : ~Recorded(m)
    BY DEF HeldJobs, RecordedIsCompleted
  <2> QED  BY <2>1, <2>2, RecordedKept DEF RecordedIsCompleted
<1>5. ASSUME NEW a \in Attempt, Advance(a) \/ Renew(a) \/ RenewalFails(a) \/ Crash(a)
      PROVE  RecordedIsCompleted' /\ DecidedOnce'
  <2>1. CASE \/ List(a) \/ Fail(a) \/ SkipCommit(a) \/ BeginCommit(a) \/ Rollback(a)
             \/ Report(a) \/ RenewalFails(a) \/ Crash(a)
    BY <1>1, <2>1 DEF List, Fail, SkipCommit, BeginCommit, Rollback, Report, RenewalFails, Crash,
                      tables
  <2> QED  BY <1>2, <1>3, <1>4, <1>5, <2>1, CommitRecords DEF Advance
<1>6. CASE \/ Tick \/ UNCHANGED vars \/ \E m \in Match : Play(m) \/ StakeElsewhere(m)
           \/ \E m \in Match, k \in Kickoffs : Reschedule(m, k)
  BY <1>1, <1>6 DEF Tick, vars, Play, StakeElsewhere, Reschedule, tables
<1> QED  BY <1>5, <1>6 DEF Next

-----------------------------------------------------------------------------
(* Leases on fixtures never outlive the lease of their run, whoever takes   *)
(* over, retries or dies (LeasesNest: assertCommitWindow may rely on the    *)
(* job's lease alone).                                                      *)
THEOREM LeasesAlwaysNest == Spec => []LeasesNest
<1>1. Init => HeldIsWork /\ LeasesNest
  BY DEF Init, Fresh, HeldIsWork, LeasesNest, Claimed
<1>2. RowsFit /\ HeldIsWork /\ LeasesNest /\ [Next]_vars => HeldIsWork' /\ LeasesNest'
  BY HeldIsWorkKept, NestStep, NightlyAssumption
<1> QED  BY <1>1, <1>2, RowsAlwaysKnown, PTL DEF Spec

(* A fixture is decided once, however attempts overlap, die, retry or lose  *)
(* the response of their commit (DecidedOnce: the claim of claimNightlyBatch*)
(* and the leases checked by commitBatch).                                  *)
THEOREM DecidesOnce == Spec => []DecidedOnce
<1>1. Init => RecordedIsCompleted /\ DecidedOnce
  BY DEF Init, Fresh, RecordedIsCompleted, DecidedOnce, Recorded
<1>2. RowsFit /\ RecordedIsCompleted /\ DecidedOnce /\ [Next]_vars
        => RecordedIsCompleted' /\ DecidedOnce'
  BY RecordedStep, NightlyAssumption
<1> QED  BY <1>1, <1>2, RowsAlwaysKnown, PTL DEF Spec

-----------------------------------------------------------------------------
(* The protocol implements exclusive ownership of the decisions. *)

OneActive == \A q, r \in Run : Active(q) /\ Active(r) => q = r
CommitsSomething == \A a \in Attempt : phase[a] = "committing" => mem[a].chosen # {}
HolderFits == /\ \A r \in Run : Active(r) => Holder = runs[r].holder
              /\ (\A r \in Run : ~Active(r)) => Holder = None

LEMMA HolderFact == OneActive => HolderFits
<1> SUFFICES ASSUME OneActive PROVE HolderFits
  OBVIOUS
<1>1. ASSUME NEW r \in Run, Active(r) PROVE Holder = runs[r].holder
  <2>1. (CHOOSE q \in Run : Active(q)) \in Run /\ Active(CHOOSE q \in Run : Active(q))
    BY <1>1
  <2>2. (CHOOSE q \in Run : Active(q)) = r
    BY <1>1, <2>1 DEF OneActive
  <2> QED  BY <1>1, <2>2 DEF Holder
<1>2. ASSUME \A r \in Run : ~Active(r) PROVE Holder = None
  BY <1>2 DEF Holder
<1> QED  BY <1>1, <1>2 DEF HolderFits

LEMMA HolderFactNext == OneActive' => HolderFits'
BY HolderFact, PTL

(* No run becomes active, and an active run keeps its holder. *)
ActivityFalls ==
  \A q \in Run : Active(q)' => Active(q) /\ runs'[q].holder = runs[q].holder

LEMMA ActivityKept ==
  ASSUME OneActive, ActivityFalls, UNCHANGED inputs
  PROVE  OneActive' /\ [D!Next]_(D!vars)
<1>1. OneActive'
  BY DEF OneActive, ActivityFalls
<1>2. HolderFits /\ HolderFits'
  BY <1>1, HolderFact, HolderFactNext
<1>3. CASE \E r \in Run : Active(r)'
  <2>1. PICK r \in Run : Active(r)'
    BY <1>3
  <2>2. Holder' = runs'[r].holder
    BY <1>2, <2>1 DEF HolderFits
  <2>3. Holder = runs[r].holder /\ runs'[r].holder = runs[r].holder
    BY <1>2, <2>1 DEF HolderFits, ActivityFalls
  <2>4. UNCHANGED <<Holder, inputs>>
    BY <2>2, <2>3
  <2> QED  BY <1>1, <2>4 DEF D!vars
<1>4. CASE ~ \E r \in Run : Active(r)'
  <2>1. Holder' = None
    BY <1>2, <1>4 DEF HolderFits
  <2>2. D!Release
    BY <2>1 DEF D!Release
  <2> QED  BY <1>1, <2>2 DEF D!Next
<1> QED  BY <1>3, <1>4

LEMMA ClaimAcquires ==
  ASSUME NightlyAssumption, RowsFit, OneActive, NEW a \in Attempt, Claim(a)
  PROVE  OneActive' /\ [D!Next]_(D!vars)
<1>0. TypeOK /\ UNCHANGED <<now, inputs>> /\ now \in Nat
  BY DEF RowsFit, TypeOK, Claim, fixtures, NightlyAssumption
<1>1. CASE Refused(a)
  <2>1. ActivityFalls
    BY <1>0, <1>1 DEF Claim, ActivityFalls, Active
  <2> QED  BY <1>0, <2>1, ActivityKept
<1>2. CASE ~Refused(a)
  <2> DEFINE r == RunOf[a]
             row == [status |-> "RUNNING", holder |-> a, ends |-> mem[a].ends,
                     expires |-> LeaseEnd(mem[a].ends),
                     registered |-> IF runs[r] = None THEN 0 ELSE runs[r].registered]
  <2>1. runs' = [runs EXCEPT ![r] = row]
    BY <1>2 DEF Claim
  <2>2. mem[a].ends \in Nat /\ r \in Run
    BY <1>0, MemoryFields DEF TypeOK, NightlyAssumption
  <2>3. now < mem[a].ends /\ \A q \in Run : ~Active(q)
    BY <1>0, <1>2, <2>2 DEF Refused
  <2>4. LeaseEnd(mem[a].ends) \in Nat /\ now < LeaseEnd(mem[a].ends)
    BY <1>0, <2>2, <2>3, LeaseEndBound
  <2>5. row \in RunRow
    BY <1>0, <2>2, <2>4 DEF RunRow, TypeOK
  <2>6. runs'[r] = row /\ \A q \in Run : q # r => runs'[q] = runs[q]
    BY <1>0, <2>1, <2>2 DEF TypeOK
  <2>7. row # None
    BY <2>5 DEF NightlyAssumption
  <2>8. Active(r)' /\ \A q \in Run : q # r => ~Active(q)'
    BY <1>0, <2>3, <2>4, <2>6, <2>7 DEF Active
  <2>9. OneActive'
    BY <2>8 DEF OneActive
  <2>10. Holder = None
    BY <2>3, HolderFact DEF HolderFits
  <2>11. Holder' = runs'[r].holder
    BY <2>2, <2>8, <2>9, HolderFactNext DEF HolderFits
  <2>12. Holder' = a
    BY <2>6, <2>11
  <2>13. D!Acquire(a)
    BY <1>0, <2>10, <2>12 DEF D!Acquire
  <2> QED  BY <2>9, <2>13 DEF D!Next
<1> QED  BY <1>1, <1>2

LEMMA CommitRecordsAsOwner ==
  ASSUME NightlyAssumption, RowsFit, OneActive, LeasesNest, RecordedIsCompleted,
         CommitsSomething, NEW a \in Attempt, Commit(a)
  PROVE  OneActive' /\ [D!Next]_(D!vars)
<1> DEFINE C == mem[a].chosen
<1>0. /\ TypeOK /\ UNCHANGED <<now, runs>> /\ C \subseteq Match /\ C # {}
      /\ \A m \in C : jobs[m] \in JobRow /\ HoldsJob(a, m)
  BY CommitEffect DEF RowsFit, CommitsSomething, fixtures
<1>1. OneActive'
  BY <1>0 DEF OneActive, Active
<1>2. ASSUME NEW m \in C PROVE ~Recorded(m) /\ Live(m) /\ jobs[m].holder = a
  <2>1. jobs[m] # None
    BY <1>0 DEF NightlyAssumption
  <2> QED  BY <1>0, <2>1 DEF HoldsJob, Live, Claimed, RecordedIsCompleted
<1>3. PICK m \in C : Live(m) /\ jobs[m].holder = a /\ m \in Match
  BY <1>0, <1>2
<1>4. PICK r \in Run : Active(r) /\ runs[r].holder = a
  <2>1. jobs[m].run \in Run /\ Active(jobs[m].run) /\ runs[jobs[m].run].holder = a
    BY <1>0, <1>3, NestIsForLive DEF Nested, JobRow
  <2> QED  BY <2>1
<1>5. Active(r)'
  BY <1>0, <1>4 DEF Active
<1>6. Holder = a /\ Holder' = a
  BY <1>0, <1>1, <1>4, <1>5, HolderFact, HolderFactNext DEF HolderFits
<1> DEFINE decided == {<<i.match, i.holder>> : i \in inputs}
<1>7. decided' = decided \union {<<n, a>> : n \in C}
  <2>1. PICK B \in SUBSET (C \ staked) :
          inputs' = inputs \union {[match |-> n, holder |-> a, bet |-> n \in B] : n \in C}
    BY DEF Commit
  <2> DEFINE I == {[match |-> n, holder |-> a, bet |-> n \in B] : n \in C}
  <2>2. {<<i.match, i.holder>> : i \in I} = {<<n, a>> : n \in C}
    <3>1. ASSUME NEW n \in C PROVE \E i \in I : i.match = n /\ i.holder = a
      <4>1. [match |-> n, holder |-> a, bet |-> n \in B] \in I
        OBVIOUS
      <4> QED  BY <4>1
    <3>2. ASSUME NEW i \in I PROVE i.match \in C /\ i.holder = a
      OBVIOUS
    <3> HIDE DEF I
    <3> QED  BY <3>1, <3>2
  <2>3. decided' = decided \union {<<i.match, i.holder>> : i \in I}
    <3> HIDE DEF I
    <3> QED  BY <2>1 DEF I
  <2> QED  BY <2>2, <2>3
<1>8. \A n \in C, b \in Attempt : <<n, b>> \notin decided
  BY <1>2 DEF Recorded
<1>9. a # None
  BY DEF NightlyAssumption
<1>10. D!Record(C)
  BY <1>0, <1>6, <1>7, <1>8, <1>9 DEF D!Record
<1> HIDE DEF decided, C
<1>11. D!Next
  BY <1>0, <1>10 DEF D!Next, D!Record
<1> QED  BY <1>1, <1>11

LEMMA OwnershipStep ==
  ASSUME NightlyAssumption, RowsFit, OneActive, LeasesNest, RecordedIsCompleted,
         CommitsSomething, [Next]_vars
  PROVE  OneActive' /\ CommitsSomething' /\ [D!Next]_(D!vars)
<1>0. TypeOK /\ now \in Nat /\ RowsKnown
  BY DEF RowsFit, TypeOK, NightlyAssumption
<1>1. ASSUME UNCHANGED <<now, runs, inputs>> PROVE OneActive' /\ [D!Next]_(D!vars)
  <2>1. ActivityFalls
    BY <1>1 DEF ActivityFalls, Active
  <2> QED  BY <1>1, <2>1, ActivityKept
<1>2. ASSUME NEW a \in Attempt, Renew(a) PROVE OneActive' /\ [D!Next]_(D!vars)
  <2>1. CASE ~Renewable(a)
    BY <1>1, <1>2, <2>1 DEF Renew, fixtures
  <2>2. CASE Renewable(a)
    <3> DEFINE r == RunOf[a]
               end == LeaseEnd(runs[r].ends)
    <3>1. runs' = [runs EXCEPT ![r].expires = end] /\ UNCHANGED <<now, inputs>>
      BY <1>2, <2>2 DEF Renew, fixtures
    <3>2. Active(r) /\ r \in Run /\ runs[r] \in RunRow
      BY <1>0, <2>2 DEF Renewable, HoldsRun, Active, TypeOK, NightlyAssumption
    <3> HIDE DEF end
    <3>3. runs'[r].holder = runs[r].holder /\ \A q \in Run : q # r => runs'[q] = runs[q]
      BY <1>0, <3>1, <3>2 DEF TypeOK, RunRow
    <3>4. ActivityFalls
      BY <3>1, <3>2, <3>3 DEF ActivityFalls, Active
    <3> QED  BY <3>1, <3>4, ActivityKept
  <2> QED  BY <2>1, <2>2
<1>3. ASSUME NEW a \in Attempt, Finish(a) PROVE OneActive' /\ [D!Next]_(D!vars)
  <2> DEFINE r == RunOf[a]
             status == IF mem[a].failed \/ mem[a].lost THEN "ERROR" ELSE "COMPLETED"
  <2>1. UNCHANGED <<now, inputs>>
    BY <1>3 DEF Finish, fixtures
  <2>2. CASE runs[r].holder # a \/ runs[r].status = "COMPLETED"
    <3>1. UNCHANGED runs
      BY <1>3, <2>2 DEF Finish
    <3> QED  BY <1>1, <2>1, <3>1
  <2>3. CASE ~(runs[r].holder # a \/ runs[r].status = "COMPLETED")
    <3>1. runs' = [runs EXCEPT ![r].status = status, ![r].expires = now,
                              ![r].registered = mem[a].count]
      BY <1>3, <2>3 DEF Finish
    <3>2. r \in Run /\ runs[r] # None
      BY <1>0, <1>3 DEF Finish, RowsKnown, NightlyAssumption
    <3>3. runs[r] \in RunRow
      BY <1>0, <3>2 DEF TypeOK
    <3>4. status # "RUNNING"
      OBVIOUS
    <3> HIDE DEF status
    <3>5. runs'[r].status = status /\ \A q \in Run : q # r => runs'[q] = runs[q]
      BY <1>0, <3>1, <3>2, <3>3 DEF TypeOK, RunRow
    <3>6. ActivityFalls
      BY <2>1, <3>4, <3>5 DEF ActivityFalls, Active
    <3> QED  BY <2>1, <3>6, ActivityKept
  <2> QED  BY <2>2, <2>3
<1>4. ASSUME Tick PROVE OneActive' /\ [D!Next]_(D!vars)
  <2>1. UNCHANGED <<runs, inputs>> /\ now' = now + 1
    BY <1>4 DEF Tick, tables
  <2>2. ASSUME NEW q \in Run, Active(q)' PROVE Active(q)
    <3>1. runs[q] \in RunRow
      BY <1>0, <2>1, <2>2 DEF TypeOK, Active
    <3> QED  BY <1>0, <2>1, <2>2, <3>1 DEF Active, RunRow
  <2>3. ActivityFalls
    BY <2>1, <2>2 DEF ActivityFalls
  <2> QED  BY <2>1, <2>3, ActivityKept
<1>5. OneActive' /\ [D!Next]_(D!vars)
  <2>1. ASSUME NEW a \in Attempt, Advance(a) \/ Renew(a) \/ RenewalFails(a) \/ Crash(a)
        PROVE  OneActive' /\ [D!Next]_(D!vars)
    <3>1. CASE \/ List(a) \/ Fail(a) \/ SkipCommit(a) \/ BeginCommit(a) \/ Rollback(a)
               \/ Report(a) \/ RenewalFails(a) \/ Crash(a)
      BY <1>1, <3>1 DEF List, Fail, SkipCommit, BeginCommit, Rollback, Report, RenewalFails,
                        Crash, fixtures, tables
    <3>2. ASSUME NEW m \in Match, JobStep(a, m) PROVE OneActive' /\ [D!Next]_(D!vars)
      BY <1>1, <3>2, JobStepEffect DEF fixtures
    <3> QED  BY <1>2, <1>3, <2>1, <3>1, <3>2, ClaimAcquires, CommitRecordsAsOwner DEF Advance
  <2>2. CASE \/ UNCHANGED vars \/ \E m \in Match : Play(m) \/ StakeElsewhere(m)
             \/ \E m \in Match, k \in Kickoffs : Reschedule(m, k)
    BY <1>1, <2>2 DEF vars, Play, StakeElsewhere, Reschedule, fixtures, tables
  <2> QED  BY <1>4, <2>1, <2>2 DEF Next
<1>6. CommitsSomething'
  <2>1. ASSUME UNCHANGED <<phase, mem>> PROVE CommitsSomething'
    BY <2>1 DEF CommitsSomething
  <2>2. ASSUME NEW a \in Attempt, OnlyMoves(a), phase'[a] = "committing" => mem'[a].chosen # {}
        PROVE  CommitsSomething'
    BY <2>2 DEF CommitsSomething, OnlyMoves
  <2>3. ASSUME NEW a \in Attempt, Throw(a) PROVE CommitsSomething'
    BY <1>0, <2>2, <2>3 DEF Throw, OnlyMoves, TypeOK
  <2>4. ASSUME NEW a \in Attempt, BeginCommit(a) PROVE CommitsSomething'
    <3>1. CASE MayCommit(a)
      <4>1. OnlyMoves(a) /\ UNCHANGED mem /\ mem[a].chosen # {}
        BY <1>0, <2>4, <3>1 DEF BeginCommit, OnlyMoves, TypeOK
      <4> QED  BY <2>2, <4>1
    <3>2. CASE ~MayCommit(a)
      BY <2>3, <2>4, <3>2 DEF BeginCommit
    <3> QED  BY <3>1, <3>2
  <2>5. ASSUME NEW a \in Attempt,
               \/ List(a) \/ Claim(a) \/ SkipCommit(a) \/ Report(a) \/ Finish(a) \/ Crash(a)
        PROVE  CommitsSomething'
    <3>1. OnlyMoves(a) /\ phase'[a] # "committing"
      BY <1>0, <2>5 DEF List, Claim, SkipCommit, Report, Finish, Crash, OnlyMoves, TypeOK
    <3> QED  BY <2>2, <3>1
  <2>6. ASSUME NEW a \in Attempt, Renew(a) \/ RenewalFails(a) PROVE CommitsSomething'
    <3>1. OnlyMoves(a) /\ UNCHANGED phase /\ LostOnly(a)
      BY <1>0, <2>6, MarkedLost DEF Renew, RenewalFails, OnlyMoves, LostOnly
    <3> QED  BY <2>2, <3>1 DEF CommitsSomething, LostOnly
  <2>7. ASSUME NEW a \in Attempt, NEW m \in Match, JobStep(a, m) PROVE CommitsSomething'
    <3>1. OnlyMoves(a) /\ phase'[a] # "committing"
      BY <2>7, JobStepEffect
    <3> QED  BY <2>2, <3>1
  <2>8. ASSUME NEW a \in Attempt, Commit(a) PROVE CommitsSomething'
    <3>1. OnlyMoves(a) /\ phase'[a] # "committing"
      BY <2>8, CommitEffect
    <3> QED  BY <2>2, <3>1
  <2>9. ASSUME NEW a \in Attempt, Fail(a) \/ Rollback(a) PROVE CommitsSomething'
    BY <2>3, <2>9 DEF Fail, Rollback
  <2>10. CASE \/ Tick \/ UNCHANGED vars \/ \E m \in Match : Play(m) \/ StakeElsewhere(m)
              \/ \E m \in Match, k \in Kickoffs : Reschedule(m, k)
    BY <2>1, <2>10 DEF Tick, vars, Play, StakeElsewhere, Reschedule
  <2> QED  BY <2>4, <2>5, <2>6, <2>7, <2>8, <2>9, <2>10 DEF Next, Advance
<1> QED  BY <1>5, <1>6

(* Every behaviour of the nightly run is one of exclusive ownership: at any *)
(* time at most one attempt owns the decisions, only the owner records any, *)
(* and only on fixtures nobody decided (IsExclusive: claimNightlyBatch,     *)
(* renewNightlyLease, finishNightlyRun and commitBatch together).           *)
THEOREM Exclusive == Spec => IsExclusive
<1>1. Init => D!Init /\ HeldIsWork /\ LeasesNest /\ RecordedIsCompleted /\ DecidedOnce
              /\ OneActive /\ CommitsSomething
  <2> SUFFICES ASSUME Init PROVE /\ D!Init /\ HeldIsWork /\ LeasesNest /\ RecordedIsCompleted
                                 /\ DecidedOnce /\ OneActive /\ CommitsSomething
    OBVIOUS
  <2>1. \A r \in Run : ~Active(r)
    BY DEF Init, Fresh, Active
  <2>2. Holder = None
    BY <2>1 DEF Holder
  <2>3. D!Init
    BY <2>2 DEF D!Init, Init, Fresh
  <2>4. OneActive /\ CommitsSomething
    BY <2>1 DEF Init, Fresh, OneActive, CommitsSomething
  <2> QED  BY <2>3, <2>4 DEF Init, Fresh, HeldIsWork, LeasesNest, Claimed, RecordedIsCompleted,
                            DecidedOnce, Recorded
<1>2. /\ RowsFit /\ HeldIsWork /\ LeasesNest /\ RecordedIsCompleted /\ DecidedOnce
      /\ OneActive /\ CommitsSomething /\ [Next]_vars
      => /\ HeldIsWork' /\ LeasesNest' /\ RecordedIsCompleted' /\ DecidedOnce'
         /\ OneActive' /\ CommitsSomething' /\ [D!Next]_(D!vars)
  BY HeldIsWorkKept, NestStep, RecordedStep, OwnershipStep, NightlyAssumption
<1> QED  BY <1>1, <1>2, RowsAlwaysKnown, PTL DEF Spec, IsExclusive, D!Spec

-----------------------------------------------------------------------------
(* A lease that is held ends within one lease time from now. *)

ShortLeases ==
  /\ \A r \in Run : runs[r] # None /\ runs[r].status = "RUNNING"
                    => runs[r].expires <= now + Lease
  /\ \A m \in Match : Claimed(m) => jobs[m].expires <= now + Lease

LEMMA LeaseEndNear ==
  ASSUME TypeOK, NightlyAssumption, NEW end \in Nat
  PROVE  LeaseEnd(end) <= now + Lease
  BY DEF TypeOK, NightlyAssumption, LeaseEnd, Earlier

LEMMA ShortKept ==
  ASSUME ShortLeases, RowsFit, NightlyAssumption, now' \in Nat, now <= now',
         \A r \in Run : runs'[r] = runs[r] \/ runs'[r].status # "RUNNING",
         \A m \in Match : jobs'[m] = jobs[m] \/ ~Claimed(m)'
  PROVE  ShortLeases'
<1>0. TypeOK /\ now \in Nat /\ Lease \in Nat
  BY DEF RowsFit, TypeOK, NightlyAssumption
<1>1. ASSUME NEW r \in Run, runs'[r] # None, runs'[r].status = "RUNNING"
      PROVE  runs'[r].expires <= now' + Lease
  <2>1. runs'[r] = runs[r] /\ runs[r] \in RunRow
    BY <1>0, <1>1 DEF TypeOK
  <2> QED  BY <1>0, <1>1, <2>1 DEF ShortLeases, RunRow
<1>2. ASSUME NEW m \in Match, Claimed(m)'
      PROVE  jobs'[m].expires <= now' + Lease
  <2>1. jobs'[m] = jobs[m] /\ Claimed(m) /\ jobs[m] \in JobRow
    BY <1>0, <1>2 DEF TypeOK, Claimed
  <2> QED  BY <1>0, <2>1 DEF ShortLeases, JobRow
<1> QED  BY <1>1, <1>2 DEF ShortLeases

LEMMA ClaimIsShort ==
  ASSUME NightlyAssumption, RowsFit, ShortLeases, NEW a \in Attempt, Claim(a)
  PROVE  ShortLeases'
<1>0. TypeOK /\ UNCHANGED now /\ now \in Nat
  BY DEF RowsFit, TypeOK, Claim, fixtures, NightlyAssumption
<1>1. CASE Refused(a)
  BY <1>0, <1>1, ShortKept DEF Claim
<1>2. CASE ~Refused(a)
  <2> DEFINE M == {m \in Match : Claimable(a, m)}
             r == RunOf[a]
             row == [status |-> "RUNNING", holder |-> a, ends |-> mem[a].ends,
                     expires |-> LeaseEnd(mem[a].ends),
                     registered |-> IF runs[r] = None THEN 0 ELSE runs[r].registered]
  <2>1. /\ runs' = [runs EXCEPT ![r] = row]
        /\ jobs' = [m \in Match |-> IF m \in M THEN ClaimedJob(a, m) ELSE jobs[m]]
    BY <1>2 DEF Claim
  <2>2. mem[a] \in Memory /\ mem[a].ends \in Nat /\ r \in Run
    BY <1>0, MemoryFields DEF TypeOK, NightlyAssumption
  <2>3. LeaseEnd(mem[a].ends) \in Nat /\ LeaseEnd(mem[a].ends) <= now + Lease
    BY <1>0, <2>2, LeaseEndBound, LeaseEndNear
  <2>4. runs'[r].expires <= now + Lease /\ \A q \in Run : q # r => runs'[q] = runs[q]
    BY <1>0, <2>1, <2>2, <2>3 DEF TypeOK
  <2>5. ASSUME NEW m \in Match, Claimed(m)' PROVE jobs'[m].expires <= now + Lease
    <3>1. CASE m \in M
      <4>1. mem[a].listed[m] \in Nat
        BY <2>2, <3>1, MemoryListed DEF Claimable, NightlyAssumption
      <4>2. jobs'[m].expires = Earlier(LeaseEnd(mem[a].ends), mem[a].listed[m])
        BY <2>1, <3>1 DEF ClaimedJob
      <4> QED  BY <1>0, <2>3, <4>1, <4>2 DEF Earlier, NightlyAssumption
    <3>2. CASE m \notin M
      BY <2>1, <2>5, <3>2 DEF ShortLeases, Claimed
    <3> QED  BY <3>1, <3>2
  <2> QED  BY <1>0, <2>4, <2>5 DEF ShortLeases
<1> QED  BY <1>1, <1>2

LEMMA RenewIsShort ==
  ASSUME NightlyAssumption, RowsFit, ShortLeases, NEW a \in Attempt, Renew(a)
  PROVE  ShortLeases'
<1>0. TypeOK /\ UNCHANGED now /\ now \in Nat /\ RunOf[a] \in Run
  BY DEF RowsFit, TypeOK, Renew, fixtures, NightlyAssumption
<1>1. CASE ~Renewable(a)
  BY <1>0, <1>1, ShortKept DEF Renew
<1>2. CASE Renewable(a)
  <2> DEFINE r == RunOf[a]
             end == LeaseEnd(runs[r].ends)
  <2>1. /\ runs' = [runs EXCEPT ![r].expires = end]
        /\ jobs' = [m \in Match |-> IF m \in HeldJobs(a)
                                    THEN [jobs[m] EXCEPT !.expires = Earlier(jobs[m].kickoff, end)]
                                    ELSE jobs[m]]
    BY <1>2 DEF Renew
  <2>2. runs[r] \in RunRow
    BY <1>0, <1>2 DEF Renewable, HoldsRun, TypeOK
  <2>3. end \in Nat /\ end <= now + Lease
    BY <1>0, <2>2, LeaseEndBound, LeaseEndNear DEF RunRow
  <2> HIDE DEF end
  <2>4. runs'[r].expires <= now + Lease /\ \A q \in Run : q # r => runs'[q] = runs[q]
    BY <1>0, <2>1, <2>2, <2>3 DEF TypeOK, RunRow
  <2>5. ASSUME NEW m \in Match, Claimed(m)' PROVE jobs'[m].expires <= now + Lease
    <3>1. CASE m \in HeldJobs(a)
      <4>1. jobs[m] \in JobRow
        BY <1>0, <3>1 DEF HeldJobs, TypeOK
      <4>2. jobs'[m].expires = Earlier(jobs[m].kickoff, end)
        BY <2>1, <3>1, <4>1, JobFields
      <4>3. jobs[m].kickoff \in Nat
        BY <4>1 DEF JobRow
      <4> QED  BY <1>0, <2>3, <4>2, <4>3 DEF Earlier, NightlyAssumption
    <3>2. CASE m \notin HeldJobs(a)
      BY <2>1, <2>5, <3>2 DEF ShortLeases, Claimed
    <3> QED  BY <3>1, <3>2
  <2> QED  BY <1>0, <2>4, <2>5 DEF ShortLeases
<1> QED  BY <1>1, <1>2

(* finishNightlyRun ends the run and gives claims back, or does nothing. *)
LEMMA FinishEffect ==
  ASSUME NightlyAssumption, RowsFit, NEW a \in Attempt, Finish(a)
  PROVE  /\ UNCHANGED <<fixtures, staked, inputs>>
         /\ \A q \in Run : runs'[q] = runs[q] \/ runs'[q].status # "RUNNING"
         /\ \A m \in Match : jobs'[m] = jobs[m] \/ ~Claimed(m)'
<1> DEFINE r == RunOf[a]
           status == IF mem[a].failed \/ mem[a].lost THEN "ERROR" ELSE "COMPLETED"
<1>0. TypeOK /\ r \in Run
  BY DEF RowsFit, TypeOK, NightlyAssumption
<1>1. phase[a] = "finishing" /\ UNCHANGED <<fixtures, staked, inputs>>
  BY DEF Finish
<1>2. CASE runs[r].holder # a \/ runs[r].status = "COMPLETED"
  <2>1. UNCHANGED <<runs, jobs>>
    BY <1>2 DEF Finish
  <2> QED  BY <1>1, <2>1
<1>3. CASE ~(runs[r].holder # a \/ runs[r].status = "COMPLETED")
  <2>1. /\ runs' = [runs EXCEPT ![r].status = status, ![r].expires = now,
                                ![r].registered = mem[a].count]
        /\ jobs' = [m \in Match |-> IF status = "ERROR" /\ m \in HeldJobs(a)
                                    THEN [jobs[m] EXCEPT !.status = "PENDING", !.expires = now]
                                    ELSE jobs[m]]
    BY <1>3 DEF Finish
  <2>2. status # "RUNNING"
    OBVIOUS
  <2>3. runs[r] \in RunRow
    <3>1. runs[r] # None
      BY <1>0, <1>1 DEF RowsFit, RowsKnown
    <3> QED  BY <1>0, <3>1 DEF TypeOK
  <2> HIDE DEF status
  <2>4. \A q \in Run : runs'[q] = runs[q] \/ runs'[q].status # "RUNNING"
    BY <1>0, <2>1, <2>2, <2>3 DEF TypeOK, RunRow
  <2>5. ASSUME NEW m \in Match PROVE jobs'[m] = jobs[m] \/ ~Claimed(m)'
    <3>1. CASE status = "ERROR" /\ m \in HeldJobs(a)
      <4>1. jobs[m] \in JobRow
        BY <1>0, <3>1 DEF HeldJobs, TypeOK
      <4>2. jobs'[m] = [jobs[m] EXCEPT !.status = "PENDING", !.expires = now]
        BY <2>1, <3>1
      <4>3. jobs'[m].status = "PENDING"
        BY <4>1, <4>2, JobFields
      <4> QED  BY <4>3 DEF Claimed
    <3>2. CASE ~(status = "ERROR" /\ m \in HeldJobs(a))
      BY <2>1, <3>2
    <3> QED  BY <3>1, <3>2
  <2> QED  BY <1>1, <2>4, <2>5
<1> QED  BY <1>2, <1>3

LEMMA FinishIsShort ==
  ASSUME NightlyAssumption, RowsFit, ShortLeases, NEW a \in Attempt, Finish(a)
  PROVE  ShortLeases'
<1>1. TypeOK /\ now \in Nat
  BY DEF RowsFit, TypeOK, NightlyAssumption
<1>2. UNCHANGED now
  BY FinishEffect DEF fixtures
<1> QED  BY <1>1, <1>2, FinishEffect, ShortKept

(* What a commit does to the jobs: they end, with the kickoff they had. *)
LEMMA CommitEndsJobs ==
  ASSUME NightlyAssumption, RowsFit, NEW a \in Attempt, Commit(a), NEW m \in Match
  PROVE  jobs'[m] = jobs[m] \/ (~Claimed(m)' /\ jobs'[m].kickoff = jobs[m].kickoff)
<1>1. CASE m \in mem[a].chosen
  <2>1. jobs[m] \in JobRow /\ jobs'[m] = [jobs[m] EXCEPT !.status = "COMPLETED"]
    BY <1>1, CommitEffect
  <2>2. jobs'[m].status = "COMPLETED" /\ jobs'[m].kickoff = jobs[m].kickoff
    BY <2>1 DEF JobRow
  <2> QED  BY <2>2 DEF Claimed
<1>2. CASE m \notin mem[a].chosen
  BY <1>2, CommitEffect
<1> QED  BY <1>1, <1>2

LEMMA ShortStep ==
  ASSUME NightlyAssumption, RowsFit, ShortLeases, [Next]_vars
  PROVE  ShortLeases'
<1>0. TypeOK /\ now \in Nat /\ MaxTime \in Nat
  BY DEF RowsFit, TypeOK, NightlyAssumption
<1>1. ASSUME UNCHANGED <<now, runs, jobs>> PROVE ShortLeases'
  BY <1>0, <1>1, ShortKept
<1>2. ASSUME NEW a \in Attempt, NEW m \in Match, JobStep(a, m) PROVE ShortLeases'
  <2>1. UNCHANGED <<now, runs>> /\ \A n \in Match : jobs'[n] = jobs[n] \/ ~Claimed(n)'
    BY <1>2, JobStepEffect DEF fixtures, Claimed
  <2> QED  BY <1>0, <2>1, ShortKept
<1>3. ASSUME NEW a \in Attempt, Commit(a) PROVE ShortLeases'
  <2>1. UNCHANGED <<now, runs>> /\ \A n \in Match : jobs'[n] = jobs[n] \/ ~Claimed(n)'
    BY <1>3, CommitEffect, CommitEndsJobs DEF fixtures
  <2> QED  BY <1>0, <2>1, ShortKept
<1>4. ASSUME NEW a \in Attempt, Advance(a) \/ Renew(a) \/ RenewalFails(a) \/ Crash(a)
      PROVE  ShortLeases'
  <2>1. CASE \/ List(a) \/ Fail(a) \/ SkipCommit(a) \/ BeginCommit(a) \/ Rollback(a)
             \/ Report(a) \/ RenewalFails(a) \/ Crash(a)
    BY <1>1, <2>1 DEF List, Fail, SkipCommit, BeginCommit, Rollback, Report, RenewalFails, Crash,
                      fixtures, tables
  <2> QED  BY <1>2, <1>3, <1>4, <2>1, ClaimIsShort, RenewIsShort, FinishIsShort DEF Advance
<1>5. CASE Tick
  <2>1. now' \in Nat /\ now <= now' /\ UNCHANGED <<runs, jobs>>
    BY <1>0, <1>5 DEF Tick, tables
  <2> QED  BY <2>1, ShortKept
<1>6. CASE \/ UNCHANGED vars \/ \E m \in Match : Play(m) \/ StakeElsewhere(m)
           \/ \E m \in Match, k \in Kickoffs : Reschedule(m, k)
  BY <1>1, <1>6 DEF vars, Play, StakeElsewhere, Reschedule, fixtures, tables
<1> QED  BY <1>4, <1>5, <1>6 DEF Next

(* A run or a fixture whose attempt died is free again after one lease time *)
(* at most (BusyForOneLease: nightlyLeaseExpiry in claimNightlyBatch and    *)
(* renewNightlyLease).                                                      *)
THEOREM FreeAfterOneLease == Spec => []BusyForOneLease
<1>1. Init => ShortLeases
  BY DEF Init, Fresh, ShortLeases, Claimed
<1>2. RowsFit /\ ShortLeases /\ [Next]_vars => ShortLeases'
  BY ShortStep, NightlyAssumption
<1>3. ShortLeases => BusyForOneLease
  BY DEF ShortLeases, BusyForOneLease, Active, Claimed
<1> QED  BY <1>1, <1>2, <1>3, RowsAlwaysKnown, PTL DEF Spec

-----------------------------------------------------------------------------
(* An open commit sees the fixtures as they were prepared. *)

CommitsAsPrepared ==
  \A a \in Attempt : phase[a] = "committing" =>
    \A m \in mem[a].chosen : FixtureAsPrepared(m)

(* Nobody else writes while a commit is open. *)
LEMMA OthersWait ==
  ASSUME NightlyAssumption, RowsFit, [Next]_vars, ~Unlocked
  PROVE  /\ UNCHANGED <<kickoff, played>>
         /\ \A m \in Match : jobs'[m] = jobs[m] \/ jobs'[m].kickoff = jobs[m].kickoff
<1>1. ASSUME NEW a \in Attempt, Advance(a) \/ Renew(a) \/ RenewalFails(a) \/ Crash(a)
      PROVE  /\ UNCHANGED <<kickoff, played>>
             /\ \A m \in Match : jobs'[m] = jobs[m] \/ jobs'[m].kickoff = jobs[m].kickoff
  <2>1. CASE Commit(a)
    BY <2>1, CommitEndsJobs DEF Commit, fixtures
  <2>2. ASSUME NEW m \in Match, JobStep(a, m) PROVE UNCHANGED <<kickoff, played, jobs>>
    BY <2>2 DEF JobStep, MissJob, StartJob, SkipJob, RetryJob, PrepareJob, AdmitJob, DropJob,
                FinishJob, fixtures, tables
  <2>3. CASE \/ List(a) \/ Fail(a) \/ SkipCommit(a) \/ BeginCommit(a) \/ Rollback(a)
             \/ Report(a) \/ RenewalFails(a) \/ Crash(a)
    BY <2>3 DEF List, Fail, SkipCommit, BeginCommit, Rollback, Report, RenewalFails, Crash,
                fixtures, tables
  <2>4. CASE Claim(a) \/ Renew(a) \/ Finish(a)
    <3>1. Claim(a) => Unlocked
      BY DEF Claim
    <3>2. Renew(a) \/ Finish(a) => Unlocked
      BY DEF Renew, Finish
    <3> QED  BY <2>4, <3>1, <3>2
  <2> QED  BY <1>1, <2>1, <2>2, <2>3, <2>4 DEF Advance
<1>2. CASE \/ Tick \/ UNCHANGED vars \/ \E m \in Match : Play(m) \/ StakeElsewhere(m)
           \/ \E m \in Match, k \in Kickoffs : Reschedule(m, k)
  BY <1>2 DEF Tick, vars, Play, StakeElsewhere, Reschedule, fixtures, tables
<1> QED  BY <1>1, <1>2 DEF Next

LEMMA AsPreparedStep ==
  ASSUME NightlyAssumption, RowsFit, CommitsAsPrepared, [Next]_vars
  PROVE  CommitsAsPrepared'
<1> SUFFICES ASSUME NEW b \in Attempt, phase'[b] = "committing", NEW m \in mem'[b].chosen
             PROVE  FixtureAsPrepared(m)'
  BY DEF CommitsAsPrepared
<1>0. TypeOK
  BY DEF RowsFit
<1>1. ASSUME phase[b] = "committing", mem'[b].chosen = mem[b].chosen
      PROVE  FixtureAsPrepared(m)'
  <2>1. m \in Match /\ FixtureAsPrepared(m)
    BY <1>0, <1>1, MemoryFields DEF CommitsAsPrepared, TypeOK
  <2>2. ~Unlocked
    BY <1>1 DEF Unlocked
  <2>3. UNCHANGED <<kickoff, played>> /\ (jobs'[m] = jobs[m] \/ jobs'[m].kickoff = jobs[m].kickoff)
    BY <2>1, <2>2, OthersWait
  <2> QED  BY <2>1, <2>3 DEF FixtureAsPrepared
<1>2. ASSUME NEW a \in Attempt, BeginCommit(a) PROVE FixtureAsPrepared(m)'
  <2>1. CASE a = b
    <3>1. MayCommit(a) /\ UNCHANGED mem /\ UNCHANGED <<fixtures, tables>>
      BY <1>0, <1>2, <2>1 DEF BeginCommit, Throw, TypeOK
    <3> QED  BY <2>1, <3>1 DEF MayCommit, FixtureAsPrepared, fixtures, tables
  <2>2. CASE a # b
    <3>1. phase'[b] = phase[b] /\ mem'[b] = mem[b]
      BY <1>0, <1>2, <2>2 DEF BeginCommit, Throw, TypeOK
    <3> QED  BY <1>1, <3>1
  <2> QED  BY <2>1, <2>2
<1>3. ASSUME NEW a \in Attempt, OnlyMoves(a), phase'[a] # "committing"
      PROVE  FixtureAsPrepared(m)'
  BY <1>1, <1>3 DEF OnlyMoves
<1>4. ASSUME UNCHANGED <<phase, mem>> PROVE FixtureAsPrepared(m)'
  BY <1>1, <1>4
<1>5. ASSUME NEW a \in Attempt,
             \/ List(a) \/ Claim(a) \/ SkipCommit(a) \/ Report(a) \/ Finish(a) \/ Crash(a)
      PROVE  FixtureAsPrepared(m)'
  <2>1. OnlyMoves(a) /\ phase'[a] # "committing"
    BY <1>0, <1>5 DEF List, Claim, SkipCommit, Report, Finish, Crash, OnlyMoves, TypeOK
  <2> QED  BY <1>3, <2>1
<1>6. ASSUME NEW a \in Attempt, Fail(a) \/ Rollback(a) PROVE FixtureAsPrepared(m)'
  <2>1. OnlyMoves(a) /\ phase'[a] # "committing"
    BY <1>0, <1>6 DEF Fail, Rollback, Throw, OnlyMoves, TypeOK
  <2> QED  BY <1>3, <2>1
<1>7. ASSUME NEW a \in Attempt, NEW n \in Match, JobStep(a, n) PROVE FixtureAsPrepared(m)'
  <2>1. OnlyMoves(a) /\ phase'[a] # "committing"
    BY <1>7, JobStepEffect
  <2> QED  BY <1>3, <2>1
<1>8. ASSUME NEW a \in Attempt, Commit(a) PROVE FixtureAsPrepared(m)'
  <2>1. OnlyMoves(a) /\ phase'[a] # "committing"
    BY <1>8, CommitEffect
  <2> QED  BY <1>3, <2>1
<1>9. ASSUME NEW a \in Attempt, Renew(a) \/ RenewalFails(a) PROVE FixtureAsPrepared(m)'
  <2>1. UNCHANGED phase /\ LostOnly(a) /\ \A c \in Attempt \ {a} : mem'[c] = mem[c]
    BY <1>0, <1>9, MarkedLost
  <2>2. mem'[b].chosen = mem[b].chosen
    BY <2>1 DEF LostOnly
  <2> QED  BY <1>1, <2>1, <2>2
<1>10. CASE \/ Tick \/ UNCHANGED vars \/ \E n \in Match : Play(n) \/ StakeElsewhere(n)
            \/ \E n \in Match, k \in Kickoffs : Reschedule(n, k)
  BY <1>4, <1>10 DEF Tick, vars, Play, StakeElsewhere, Reschedule
<1> QED  BY <1>2, <1>5, <1>6, <1>7, <1>8, <1>9, <1>10 DEF Next, Advance

LEMMA InputsGrowByCommit ==
  ASSUME RowsFit, [Next]_vars, inputs' # inputs
  PROVE  \E a \in Attempt : Commit(a)
<1>1. ASSUME NEW a \in Attempt, NEW m \in Match, JobStep(a, m) PROVE UNCHANGED inputs
  BY <1>1, JobStepEffect
<1>2. ASSUME NEW a \in Attempt, Advance(a) \/ Renew(a) \/ RenewalFails(a) \/ Crash(a)
      PROVE  Commit(a) \/ UNCHANGED inputs
  BY <1>1, <1>2 DEF Advance, List, Claim, Fail, SkipCommit, BeginCommit, Rollback, Report,
                    Finish, Renew, RenewalFails, Crash, tables
<1>3. CASE \/ Tick \/ UNCHANGED vars \/ \E m \in Match : Play(m) \/ StakeElsewhere(m)
           \/ \E m \in Match, k \in Kickoffs : Reschedule(m, k)
  BY <1>3 DEF Tick, vars, Play, StakeElsewhere, Reschedule, tables
<1> QED  BY <1>2, <1>3 DEF Next

(* Decisions are recorded before the official kickoff and never on a match *)
(* with a result, however long the transaction is open and however the     *)
(* fixture moved before it (DecidesInTime: commitBatch reads the fixture in *)
(* its transaction and the lease, which ends at the kickoff, before commit).*)
THEOREM DecidesBeforeKickoff == Spec => DecidesInTime
<1>1. Init => CommitsAsPrepared
  BY DEF Init, Fresh, CommitsAsPrepared
<1>2. RowsFit /\ CommitsAsPrepared /\ [Next]_vars => CommitsAsPrepared'
  BY AsPreparedStep, NightlyAssumption
<1>3. RowsFit /\ CommitsAsPrepared /\ [Next]_vars =>
        [\A i \in inputs' \ inputs : now < kickoff[i.match] /\ i.match \notin played]_vars
  <2> SUFFICES ASSUME RowsFit, CommitsAsPrepared, [Next]_vars, NEW i \in inputs' \ inputs
               PROVE  now < kickoff[i.match] /\ i.match \notin played
    OBVIOUS
  <2>1. PICK a \in Attempt : Commit(a)
    BY InputsGrowByCommit
  <2>2. /\ phase[a] = "committing" /\ \A m \in mem[a].chosen : HoldsJob(a, m)
    BY <2>1, CommitEffect, NightlyAssumption
  <2>3. i.match \in mem[a].chosen
    <3>1. PICK B \in SUBSET (mem[a].chosen \ staked) : inputs' = inputs \union
             {[match |-> m, holder |-> a, bet |-> m \in B] : m \in mem[a].chosen}
      BY <2>1 DEF Commit
    <3>2. \E m \in mem[a].chosen : i = [match |-> m, holder |-> a, bet |-> m \in B]
      BY <3>1
    <3> QED  BY <3>2
  <2> QED  BY <2>2, <2>3 DEF CommitsAsPrepared, FixtureAsPrepared, HoldsJob
<1> QED  BY <1>1, <1>2, <1>3, RowsAlwaysKnown, PTL DEF Spec, DecidesInTime

-----------------------------------------------------------------------------
(* What a run reported when it completed. *)

CompletedRun(r) == runs[r] # None /\ runs[r].status = "COMPLETED"

(* The count in an attempt that still holds its run is current, and the    *)
(* holder of a completed run has ended, with no claim left.                *)
CountsFit ==
  /\ \A a \in Attempt :
       phase[a] = "finishing" /\ ~mem[a].failed /\ runs[RunOf[a]].holder = a
         => mem[a].count = Cardinality(Registered(RunOf[a]))
  /\ \A r \in Run : CompletedRun(r) =>
       /\ phase[runs[r].holder] = "ended"
       /\ runs[r].registered = Cardinality(Registered(r))
       /\ \A m \in Match : Claimed(m) => jobs[m].holder # runs[r].holder

JobsKeepRuns == \A m \in Match : Recorded(m) => jobs'[m].run = jobs[m].run

LEMMA RegisteredKept ==
  ASSUME TypeOK, UNCHANGED inputs, JobsKeepRuns, NEW r \in Run
  PROVE  Registered(r)' = Registered(r)
<1>1. ASSUME NEW i \in inputs PROVE jobs'[i.match].run = jobs[i.match].run
  BY DEF TypeOK, Input, JobsKeepRuns, Recorded
<1> QED  BY <1>1 DEF Registered

(* A commit adds bets to the run of its attempt alone. *)
LEMMA CommitRegisters ==
  ASSUME NightlyAssumption, RowsFit, NEW a \in Attempt, Commit(a), NEW r \in Run, r # RunOf[a]
  PROVE  Registered(r)' = Registered(r)
<1>0. TypeOK /\ mem[a].chosen \subseteq Match
  BY CommitEffect DEF RowsFit
<1>1. \A m \in Match : jobs'[m].run = jobs[m].run
  <2>1. ASSUME NEW m \in mem[a].chosen PROVE jobs'[m].run = jobs[m].run
    <3>1. jobs[m] \in JobRow /\ jobs'[m] = [jobs[m] EXCEPT !.status = "COMPLETED"]
      BY <2>1, CommitEffect
    <3> QED  BY <3>1 DEF JobRow
  <2> QED  BY <2>1, CommitEffect
<1>2. \A m \in mem[a].chosen : jobs[m].run = RunOf[a]
  <2>1. ASSUME NEW m \in mem[a].chosen PROVE jobs[m].run = RunOf[a]
    <3>1. m \in Match /\ jobs[m] \in JobRow /\ HoldsJob(a, m)
      BY <2>1, CommitEffect
    <3>2. jobs[m] # None /\ jobs[m].holder = a
      BY <3>1 DEF HoldsJob, NightlyAssumption
    <3> QED  BY <3>1, <3>2 DEF RowsFit, RowsKnown
  <2> QED  BY <2>1
<1>3. PICK B \in SUBSET (mem[a].chosen \ staked) : inputs' = inputs \union
         {[match |-> m, holder |-> a, bet |-> m \in B] : m \in mem[a].chosen}
  BY DEF Commit
<1>4. \A i \in inputs' : i \in inputs \/ i.match \in mem[a].chosen
  BY <1>3
<1>5. \A i \in inputs : i \in inputs' /\ i.match \in Match
  BY <1>0, <1>3 DEF TypeOK, Input
<1>6. \A i \in inputs' : jobs'[i.match].run = r <=> i \in inputs /\ jobs[i.match].run = r
  BY <1>0, <1>1, <1>2, <1>4, <1>5
<1> QED  BY <1>5, <1>6 DEF Registered

LEMMA CountsKept ==
  ASSUME NightlyAssumption, RowsFit, CountsFit, NEW a \in Attempt, OnlyMoves(a),
         phase[a] # "ended",
         \A r \in Run : Registered(r)' = Registered(r),
         \A r \in Run : runs'[r] = runs[r] \/
                        (~CompletedRun(r)' /\ runs'[r].holder \in {runs[r].holder, a}),
         \A m \in Match : Claimed(m)' => jobs'[m].holder = a \/
                            (Claimed(m) /\ jobs'[m].holder = jobs[m].holder),
         phase'[a] = "finishing" /\ ~mem'[a].failed /\ runs'[RunOf[a]].holder = a
           => mem'[a].count = Cardinality(Registered(RunOf[a]))
  PROVE  CountsFit'
<1>0. TypeOK
  BY DEF RowsFit
<1>1. ASSUME NEW b \in Attempt, phase'[b] = "finishing", ~mem'[b].failed,
             runs'[RunOf[b]].holder = b
      PROVE  mem'[b].count = Cardinality(Registered(RunOf[b])')
  <2>1. RunOf[b] \in Run
    BY DEF NightlyAssumption
  <2>2. CASE b = a
    BY <1>1, <2>1, <2>2
  <2>3. CASE b # a
    <3>1. phase'[b] = phase[b] /\ mem'[b] = mem[b] /\ runs[RunOf[b]].holder = b
      BY <1>1, <2>1, <2>3 DEF OnlyMoves
    <3> QED  BY <1>1, <2>1, <3>1 DEF CountsFit
  <2> QED  BY <2>2, <2>3
<1>2. ASSUME NEW r \in Run, CompletedRun(r)'
      PROVE  /\ phase'[runs'[r].holder] = "ended"
             /\ runs'[r].registered = Cardinality(Registered(r)')
             /\ \A m \in Match : Claimed(m)' => jobs'[m].holder # runs'[r].holder
  <2>1. runs'[r] = runs[r] /\ CompletedRun(r)
    BY <1>2 DEF CompletedRun
  <2>2. /\ phase[runs[r].holder] = "ended" /\ runs[r].registered = Cardinality(Registered(r))
        /\ \A m \in Match : Claimed(m) => jobs[m].holder # runs[r].holder
    BY <2>1 DEF CountsFit
  <2>3. runs[r].holder \in Attempt \ {a}
    BY <1>0, <2>1, <2>2 DEF TypeOK, RunRow, CompletedRun
  <2> QED  BY <2>1, <2>2, <2>3 DEF OnlyMoves
<1> HIDE DEF CountsFit
<1> QED  BY <1>1, <1>2 DEF CountsFit

LEMMA FinishCounts ==
  ASSUME NightlyAssumption, RowsFit, HeldIsWork, CountsFit, NEW a \in Attempt, Finish(a)
  PROVE  CountsFit'
<1> DEFINE r == RunOf[a]
           status == IF mem[a].failed \/ mem[a].lost THEN "ERROR" ELSE "COMPLETED"
<1>0. /\ TypeOK /\ r \in Run /\ phase[a] = "finishing" /\ phase'[a] = "ended" /\ OnlyMoves(a)
      /\ UNCHANGED inputs
  <2>1. TypeOK /\ r \in Run
    BY DEF RowsFit, TypeOK, NightlyAssumption
  <2>2. /\ phase[a] = "finishing" /\ phase' = [phase EXCEPT ![a] = "ended"]
        /\ mem' = [mem EXCEPT ![a] = Blank] /\ UNCHANGED inputs
    BY DEF Finish
  <2> QED  BY <2>1, <2>2 DEF OnlyMoves, TypeOK
<1>1. CASE runs[r].holder # a \/ runs[r].status = "COMPLETED"
  <2>1. UNCHANGED <<runs, jobs>>
    BY <1>1 DEF Finish
  <2>2. \A q \in Run : Registered(q)' = Registered(q)
    BY <1>0, <2>1 DEF Registered
  <2> QED  BY <1>0, <2>1, <2>2, CountsKept DEF Claimed
<1>2. CASE ~(runs[r].holder # a \/ runs[r].status = "COMPLETED")
  <2>1. /\ runs' = [runs EXCEPT ![r].status = status, ![r].expires = now,
                                ![r].registered = mem[a].count]
        /\ jobs' = [m \in Match |-> IF status = "ERROR" /\ m \in HeldJobs(a)
                                    THEN [jobs[m] EXCEPT !.status = "PENDING", !.expires = now]
                                    ELSE jobs[m]]
    BY <1>2 DEF Finish
  <2>2. runs[r] \in RunRow
    <3>1. runs[r] # None
      BY <1>0 DEF RowsFit, RowsKnown
    <3> QED  BY <1>0, <3>1 DEF TypeOK
  <2>3. status \in {"ERROR", "COMPLETED"} /\ (status = "COMPLETED" => ~mem[a].failed)
    OBVIOUS
  <2> HIDE DEF status
  <2>4. /\ runs'[r].status = status /\ runs'[r].holder = a /\ runs'[r].registered = mem[a].count
        /\ \A q \in Run : q # r => runs'[q] = runs[q]
    BY <1>0, <1>2, <2>1, <2>2 DEF TypeOK, RunRow
  <2>5. ASSUME NEW m \in Match
        PROVE  /\ jobs'[m] = jobs[m] \/ ~Claimed(m)'
               /\ jobs[m] # None => jobs'[m].run = jobs[m].run
    <3>1. CASE status = "ERROR" /\ m \in HeldJobs(a)
      <4>1. jobs[m] \in JobRow
        BY <1>0, <3>1 DEF HeldJobs, TypeOK
      <4>2. jobs'[m] = [jobs[m] EXCEPT !.status = "PENDING", !.expires = now]
        BY <2>1, <3>1
      <4>3. jobs'[m].status = "PENDING"
        BY <4>1, <4>2, JobFields
      <4>4. jobs'[m].run = jobs[m].run
        BY <4>1, <4>2 DEF JobRow
      <4> QED  BY <4>3, <4>4 DEF Claimed
    <3>2. CASE ~(status = "ERROR" /\ m \in HeldJobs(a))
      BY <2>1, <3>2
    <3> QED  BY <3>1, <3>2
  <2>6. \A q \in Run : Registered(q)' = Registered(q)
    <3>1. ASSUME NEW i \in inputs PROVE jobs'[i.match].run = jobs[i.match].run
      <4>1. i.match \in Match
        BY <1>0 DEF TypeOK, Input
      <4>2. CASE jobs[i.match] = None
        BY <2>1, <4>1, <4>2 DEF HeldJobs
      <4> QED  BY <2>5, <4>1, <4>2
    <3> QED  BY <1>0, <3>1 DEF Registered
  <2>7. CASE status = "ERROR"
    <3>1. \A q \in Run : runs'[q] = runs[q] \/
                         (~CompletedRun(q)' /\ runs'[q].holder \in {runs[q].holder, a})
      BY <2>4, <2>7 DEF CompletedRun
    <3>2. \A m \in Match : Claimed(m)' => Claimed(m) /\ jobs'[m].holder = jobs[m].holder
      BY <2>5 DEF Claimed
    <3> QED  BY <1>0, <2>6, <3>1, <3>2, CountsKept
  <2>8. CASE status = "COMPLETED"
    <3>1. UNCHANGED jobs
      <4>1. jobs \in [Match -> JobRow \union {None}]
        BY <1>0 DEF TypeOK
      <4>2. \A m \in Match : jobs'[m] = jobs[m]
        BY <2>1, <2>8
      <4>3. jobs' = [m \in Match |-> jobs'[m]] /\ jobs = [m \in Match |-> jobs[m]]
        BY <2>1, <4>1
      <4> QED  BY <4>2, <4>3
    <3>2. mem[a].count = Cardinality(Registered(r))
      BY <1>0, <1>2, <2>3, <2>8 DEF CountsFit
    <3>3. \A m \in Match : Claimed(m) => jobs[m].holder # a
      BY <1>0, <2>3, <2>8 DEF HeldIsWork, AtWork
    <3>4. ASSUME NEW b \in Attempt, phase'[b] = "finishing", ~mem'[b].failed,
                 runs'[RunOf[b]].holder = b
          PROVE  mem'[b].count = Cardinality(Registered(RunOf[b])')
      <4>1. b # a /\ RunOf[b] \in Run
        BY <1>0, <3>4 DEF NightlyAssumption
      <4>2. phase'[b] = phase[b] /\ mem'[b] = mem[b]
        BY <1>0, <4>1 DEF OnlyMoves
      <4>3. runs[RunOf[b]].holder = b
        BY <2>4, <3>4, <4>1
      <4> QED  BY <2>6, <3>4, <4>1, <4>2, <4>3 DEF CountsFit
    <3>5. ASSUME NEW q \in Run, CompletedRun(q)'
          PROVE  /\ phase'[runs'[q].holder] = "ended"
                 /\ runs'[q].registered = Cardinality(Registered(q)')
                 /\ \A m \in Match : Claimed(m)' => jobs'[m].holder # runs'[q].holder
      <4>1. CASE q = r
        BY <1>0, <2>4, <2>6, <3>1, <3>2, <3>3, <4>1 DEF Claimed
      <4>2. CASE q # r
        <5>1. runs'[q] = runs[q] /\ CompletedRun(q)
          BY <2>4, <3>5, <4>2 DEF CompletedRun
        <5>2. /\ phase[runs[q].holder] = "ended" /\ runs[q].registered = Cardinality(Registered(q))
              /\ \A m \in Match : Claimed(m) => jobs[m].holder # runs[q].holder
          BY <5>1 DEF CountsFit
        <5>3. runs[q].holder \in Attempt \ {a}
          BY <1>0, <5>1, <5>2 DEF TypeOK, RunRow, CompletedRun
        <5> QED  BY <1>0, <2>6, <3>1, <5>1, <5>2, <5>3 DEF OnlyMoves, Claimed
      <4> QED  BY <4>1, <4>2
    <3> QED  BY <3>4, <3>5 DEF CountsFit
  <2> QED  BY <2>3, <2>7, <2>8
<1> QED  BY <1>1, <1>2

LEMMA ClaimCounts ==
  ASSUME NightlyAssumption, RowsFit, RecordedIsCompleted, CountsFit, NEW a \in Attempt, Claim(a)
  PROVE  CountsFit'
<1>0. TypeOK /\ phase[a] = "listed" /\ UNCHANGED inputs
  BY DEF RowsFit, Claim
<1>1. CASE Refused(a)
  <2>1. UNCHANGED <<runs, jobs>> /\ phase'[a] = "ended" /\ OnlyMoves(a)
    BY <1>0, <1>1 DEF Claim, OnlyMoves, TypeOK
  <2>2. \A q \in Run : Registered(q)' = Registered(q)
    BY <1>0, <2>1 DEF Registered
  <2> QED  BY <1>0, <2>1, <2>2, CountsKept DEF Claimed
<1>2. CASE ~Refused(a)
  <2> DEFINE M == {m \in Match : Claimable(a, m)}
             r == RunOf[a]
             row == [status |-> "RUNNING", holder |-> a, ends |-> mem[a].ends,
                     expires |-> LeaseEnd(mem[a].ends),
                     registered |-> IF runs[r] = None THEN 0 ELSE runs[r].registered]
  <2>1. /\ runs' = [runs EXCEPT ![r] = row]
        /\ jobs' = [m \in Match |-> IF m \in M THEN ClaimedJob(a, m) ELSE jobs[m]]
        /\ mem' = [mem EXCEPT ![a].todo = M]
        /\ phase' = [phase EXCEPT ![a] = "working"]
    BY <1>2 DEF Claim
  <2>2. r \in Run /\ phase'[a] = "working" /\ OnlyMoves(a)
    BY <1>0, <2>1 DEF NightlyAssumption, OnlyMoves, TypeOK
  <2>3. /\ runs'[r].status = "RUNNING" /\ runs'[r].holder = a
        /\ \A q \in Run : q # r => runs'[q] = runs[q]
    BY <1>0, <2>1, <2>2 DEF TypeOK
  <2>4. \A q \in Run : runs'[q] = runs[q] \/
                       (~CompletedRun(q)' /\ runs'[q].holder \in {runs[q].holder, a})
    BY <2>3 DEF CompletedRun
  <2>5. \A m \in Match : IF m \in M THEN jobs'[m].holder = a ELSE jobs'[m] = jobs[m]
    BY <2>1 DEF ClaimedJob
  <2>6. \A m \in Match : Claimed(m)' => jobs'[m].holder = a \/
                                        (Claimed(m) /\ jobs'[m].holder = jobs[m].holder)
    BY <2>5 DEF Claimed
  <2>7. JobsKeepRuns
    BY <2>5 DEF JobsKeepRuns, Claimable
  <2>8. \A q \in Run : Registered(q)' = Registered(q)
    BY <1>0, <2>7, RegisteredKept
  <2> QED  BY <1>0, <2>2, <2>4, <2>6, <2>8, CountsKept
<1> QED  BY <1>1, <1>2

LEMMA CommitCounts ==
  ASSUME NightlyAssumption, RowsFit, LeasesNest, CountsFit, CommitsSomething,
         NEW a \in Attempt, Commit(a)
  PROVE  CountsFit'
<1> DEFINE r == RunOf[a]
<1>0. /\ TypeOK /\ r \in Run /\ OnlyMoves(a) /\ UNCHANGED runs /\ phase[a] = "committing"
      /\ phase'[a] = "reporting" \/ (phase'[a] = "finishing" /\ mem'[a].failed)
  BY CommitEffect DEF RowsFit, NightlyAssumption
<1>1. Active(r) /\ runs[r].holder = a
  <2>1. PICK m \in mem[a].chosen : TRUE
    BY <1>0 DEF CommitsSomething
  <2>2. m \in Match /\ jobs[m] \in JobRow /\ HoldsJob(a, m)
    BY <2>1, CommitEffect
  <2>3. jobs[m] # None /\ jobs[m].holder = a /\ jobs[m].run = r
    BY <2>2 DEF HoldsJob, NightlyAssumption, RowsFit, RowsKnown
  <2> QED  BY <2>2, <2>3 DEF LeasesNest, HoldsJob
<1>2. \A m \in Match : Claimed(m)' => Claimed(m) /\ jobs'[m].holder = jobs[m].holder
  BY CommitEndsJobs DEF Claimed
<1>3. \A q \in Run : q # r => Registered(q)' = Registered(q)
  BY CommitRegisters
<1>4. ASSUME NEW b \in Attempt, phase'[b] = "finishing", ~mem'[b].failed,
             runs'[RunOf[b]].holder = b
      PROVE  mem'[b].count = Cardinality(Registered(RunOf[b])')
  <2>1. b # a /\ RunOf[b] \in Run /\ RunOf[b] # r
    BY <1>0, <1>1, <1>4 DEF NightlyAssumption
  <2>2. phase'[b] = phase[b] /\ mem'[b] = mem[b] /\ runs[RunOf[b]].holder = b
    BY <1>0, <1>4, <2>1 DEF OnlyMoves
  <2> QED  BY <1>3, <1>4, <2>1, <2>2 DEF CountsFit
<1>5. ASSUME NEW q \in Run, CompletedRun(q)'
      PROVE  /\ phase'[runs'[q].holder] = "ended"
             /\ runs'[q].registered = Cardinality(Registered(q)')
             /\ \A m \in Match : Claimed(m)' => jobs'[m].holder # runs'[q].holder
  <2>1. CompletedRun(q) /\ q # r
    BY <1>0, <1>1, <1>5 DEF CompletedRun, Active
  <2>2. /\ phase[runs[q].holder] = "ended" /\ runs[q].registered = Cardinality(Registered(q))
        /\ \A m \in Match : Claimed(m) => jobs[m].holder # runs[q].holder
    BY <2>1 DEF CountsFit
  <2>3. runs[q].holder \in Attempt \ {a}
    BY <1>0, <2>1, <2>2 DEF TypeOK, RunRow, CompletedRun
  <2> QED  BY <1>0, <1>2, <1>3, <2>1, <2>2, <2>3 DEF OnlyMoves
<1> QED  BY <1>4, <1>5 DEF CountsFit

LEMMA RenewCounts ==
  ASSUME NightlyAssumption, RowsFit, CountsFit, NEW a \in Attempt, Renew(a)
  PROVE  CountsFit'
<1>0. /\ TypeOK /\ UNCHANGED <<phase, inputs>> /\ OnlyMoves(a)
      /\ RunOf[a] \in Run /\ phase[a] # "ended"
  <2>1. TypeOK /\ UNCHANGED <<phase, inputs>> /\ phase[a] # "ended"
    BY DEF RowsFit, Renew, Renewing
  <2> QED  BY <2>1, MarkedLost DEF OnlyMoves, NightlyAssumption
<1>1. mem'[a].failed = mem[a].failed /\ mem'[a].count = mem[a].count
  <2>1. CASE UNCHANGED mem
    BY <2>1
  <2>2. CASE mem' = [mem EXCEPT ![a].lost = TRUE]
    BY <1>0, <2>2 DEF TypeOK, Memory
  <2> QED  BY <2>1, <2>2 DEF Renew
<1>2. CASE ~Renewable(a)
  <2>1. UNCHANGED <<runs, jobs>>
    BY <1>2 DEF Renew
  <2>2. \A q \in Run : Registered(q)' = Registered(q)
    BY <1>0, <2>1 DEF Registered
  <2> QED  BY <1>0, <1>1, <2>1, <2>2, CountsKept DEF Claimed, CountsFit
<1>3. CASE Renewable(a)
  <2> DEFINE end == LeaseEnd(runs[RunOf[a]].ends)
  <2>1. /\ runs' = [runs EXCEPT ![RunOf[a]].expires = end]
        /\ jobs' = [m \in Match |-> IF m \in HeldJobs(a)
                                    THEN [jobs[m] EXCEPT !.expires = Earlier(jobs[m].kickoff, end)]
                                    ELSE jobs[m]]
    BY <1>3 DEF Renew
  <2> HIDE DEF end
  <2>2. runs[RunOf[a]] \in RunRow /\ runs[RunOf[a]].status = "RUNNING"
    BY <1>0, <1>3 DEF Renewable, HoldsRun, TypeOK
  <2>3. /\ runs'[RunOf[a]].status = "RUNNING" /\ runs'[RunOf[a]].holder = runs[RunOf[a]].holder
        /\ \A q \in Run : q # RunOf[a] => runs'[q] = runs[q]
    BY <1>0, <2>1, <2>2 DEF TypeOK, RunRow
  <2>4. ASSUME NEW m \in Match
        PROVE  /\ Claimed(m)' => Claimed(m) /\ jobs'[m].holder = jobs[m].holder
               /\ jobs'[m].run = jobs[m].run
    <3>1. CASE m \in HeldJobs(a)
      <4>1. jobs[m] \in JobRow /\ jobs'[m] = [jobs[m] EXCEPT !.expires = Earlier(jobs[m].kickoff, end)]
        BY <1>0, <2>1, <3>1 DEF HeldJobs, TypeOK
      <4> QED  BY <3>1, <4>1, JobFields DEF Claimed, HeldJobs
    <3>2. CASE m \notin HeldJobs(a)
      BY <2>1, <3>2 DEF Claimed
    <3> QED  BY <3>1, <3>2
  <2>5. \A q \in Run : Registered(q)' = Registered(q)
    BY <1>0, <2>4, RegisteredKept DEF JobsKeepRuns
  <2>6. \A q \in Run : runs'[q] = runs[q] \/
                       (~CompletedRun(q)' /\ runs'[q].holder \in {runs[q].holder, a})
    BY <2>3 DEF CompletedRun
  <2>7. phase'[a] = "finishing" /\ ~mem'[a].failed /\ runs'[RunOf[a]].holder = a
          => mem'[a].count = Cardinality(Registered(RunOf[a]))
    BY <1>0, <1>1, <2>3 DEF CountsFit
  <2> QED  BY <1>0, <2>4, <2>5, <2>6, <2>7, CountsKept
<1> QED  BY <1>2, <1>3

LEMMA JobStepCounts ==
  ASSUME NightlyAssumption, RowsFit, CountsFit, NEW a \in Attempt, NEW m \in Match, JobStep(a, m)
  PROVE  CountsFit'
<1>0. /\ TypeOK /\ UNCHANGED <<runs, inputs>> /\ OnlyMoves(a) /\ phase[a] = "working"
      /\ jobs[m] \in JobRow /\ \A n \in Match \ {m} : jobs'[n] = jobs[n]
      /\ jobs'[m] = jobs[m] \/ (/\ jobs'[m] = [jobs[m] EXCEPT !.status = jobs'[m].status]
                                /\ jobs'[m].status # "CLAIMED")
      /\ phase'[a] = "working" \/ (phase'[a] = "finishing" /\ mem'[a].failed)
  BY JobStepEffect DEF RowsFit
<1>1. jobs'[m].run = jobs[m].run
  <2>1. CASE jobs'[m] = [jobs[m] EXCEPT !.status = jobs'[m].status]
    <3> DEFINE s == jobs'[m].status
    <3>1. jobs'[m] = [jobs[m] EXCEPT !.status = s]
      BY <2>1
    <3> HIDE DEF s
    <3> QED  BY <1>0, <3>1 DEF JobRow
  <2> QED  BY <1>0, <2>1
<1>2. \A q \in Run : Registered(q)' = Registered(q)
  BY <1>0, <1>1, RegisteredKept DEF JobsKeepRuns
<1>3. \A n \in Match : Claimed(n)' => Claimed(n) /\ jobs'[n].holder = jobs[n].holder
  BY <1>0 DEF Claimed
<1> QED  BY <1>0, <1>2, <1>3, CountsKept

LEMMA CountsStep ==
  ASSUME NightlyAssumption, RowsFit, HeldIsWork, LeasesNest, RecordedIsCompleted,
         CommitsSomething, CountsFit, [Next]_vars
  PROVE  CountsFit'
<1>0. TypeOK
  BY DEF RowsFit
<1>1. ASSUME NEW a \in Attempt, OnlyMoves(a), phase[a] # "ended", UNCHANGED <<runs, jobs, inputs>>,
             phase'[a] = "finishing" /\ ~mem'[a].failed
               => mem'[a].count = Cardinality(Registered(RunOf[a]))
      PROVE  CountsFit'
  <2>1. \A q \in Run : Registered(q)' = Registered(q)
    BY <1>1 DEF Registered
  <2> QED  BY <1>1, <2>1, CountsKept DEF Claimed
<1>2. ASSUME NEW a \in Attempt, List(a) \/ SkipCommit(a) \/ BeginCommit(a) \/ Fail(a) \/ Rollback(a)
      PROVE  CountsFit'
  <2>1. /\ OnlyMoves(a) /\ phase[a] # "ended" /\ UNCHANGED <<runs, jobs, inputs>>
        /\ phase'[a] = "finishing" => mem'[a].failed
    BY <1>0, <1>2 DEF List, SkipCommit, BeginCommit, Prepared, Fail, Rollback, Throw, OnlyMoves, TypeOK,
                      Blank, tables
  <2> QED  BY <1>1, <2>1
<1>3. ASSUME NEW a \in Attempt, Crash(a) PROVE CountsFit'
  <2>1. /\ OnlyMoves(a) /\ phase[a] # "ended" /\ UNCHANGED <<runs, jobs, inputs>>
        /\ phase'[a] = "ended"
    BY <1>0, <1>3 DEF Crash, OnlyMoves, TypeOK, tables
  <2> QED  BY <1>1, <2>1
<1>4. ASSUME NEW a \in Attempt, Report(a) PROVE CountsFit'
  <2>1. /\ OnlyMoves(a) /\ phase[a] # "ended" /\ UNCHANGED <<runs, jobs, inputs>>
        /\ mem' = [mem EXCEPT ![a].count = Cardinality(Registered(RunOf[a]))]
    BY <1>0, <1>4 DEF Report, OnlyMoves, TypeOK, tables
  <2>2. mem'[a].count = Cardinality(Registered(RunOf[a]))
    BY <1>0, <2>1 DEF TypeOK, Memory
  <2> QED  BY <1>1, <2>1, <2>2
<1>5. ASSUME UNCHANGED <<runs, jobs, inputs, phase>>,
             \A a \in Attempt : mem'[a].failed = mem[a].failed /\ mem'[a].count = mem[a].count
      PROVE  CountsFit'
  <2>1. \A q \in Run : Registered(q)' = Registered(q)
    BY <1>5 DEF Registered
  <2>2. \A a \in Attempt : RunOf[a] \in Run
    BY DEF NightlyAssumption
  <2> QED  BY <1>5, <2>1, <2>2 DEF CountsFit, CompletedRun, Claimed
<1>6. ASSUME NEW a \in Attempt, RenewalFails(a) PROVE CountsFit'
  <2>1. UNCHANGED <<runs, jobs, inputs, phase>> /\ mem' = [mem EXCEPT ![a].lost = TRUE]
    BY <1>6 DEF RenewalFails, tables
  <2>2. \A b \in Attempt : mem'[b].failed = mem[b].failed /\ mem'[b].count = mem[b].count
    BY <1>0, <2>1 DEF TypeOK, Memory
  <2> QED  BY <1>5, <2>1, <2>2
<1>7. CASE \/ Tick \/ UNCHANGED vars \/ \E m \in Match : Play(m) \/ StakeElsewhere(m)
           \/ \E m \in Match, k \in Kickoffs : Reschedule(m, k)
  BY <1>5, <1>7 DEF Tick, vars, Play, StakeElsewhere, Reschedule, tables
<1> QED  BY <1>2, <1>3, <1>4, <1>6, <1>7, ClaimCounts, CommitCounts, FinishCounts, RenewCounts,
            JobStepCounts DEF Next, Advance

(* What a run reported when it completed stays true: the bets it counted   *)
(* are those stored for its jobs, whoever committed them, and its holder   *)
(* left no claim (CompletedIsTrue: getNightlyRunMetrics, finishNightlyRun).*)
THEOREM ReportsStayTrue == Spec => []CompletedIsTrue
<1>1. Init => /\ HeldIsWork /\ LeasesNest /\ RecordedIsCompleted /\ DecidedOnce
              /\ OneActive /\ CommitsSomething /\ CountsFit
  BY DEF Init, Fresh, HeldIsWork, LeasesNest, Claimed, RecordedIsCompleted, DecidedOnce, Recorded,
         OneActive, Active, CommitsSomething, CountsFit, CompletedRun
<1>2. /\ RowsFit /\ HeldIsWork /\ LeasesNest /\ RecordedIsCompleted /\ DecidedOnce
      /\ OneActive /\ CommitsSomething /\ CountsFit /\ [Next]_vars
      => /\ HeldIsWork' /\ LeasesNest' /\ RecordedIsCompleted' /\ DecidedOnce'
         /\ OneActive' /\ CommitsSomething' /\ CountsFit'
  BY HeldIsWorkKept, NestStep, RecordedStep, OwnershipStep, CountsStep, NightlyAssumption
<1>3. CountsFit => CompletedIsTrue
  BY DEF CountsFit, CompletedIsTrue, CompletedRun, Claimed, Registered
<1> QED  BY <1>1, <1>2, <1>3, RowsAlwaysKnown, PTL DEF Spec
==============================================================================
