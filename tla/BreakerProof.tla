---------------------------- MODULE BreakerProof ----------------------------
(***************************************************************************)
(* Proofs about Breaker for every set of callers, threshold and cooldown.  *)
(***************************************************************************)
EXTENDS Breaker, TLAPS

LEMMA UpType ==
  ASSUME NEW top \in Nat, NEW n \in 0..top
  PROVE  Up(n, top) \in 0..top
BY DEF Up

\* The three operations and the passage of time yield an entry.
LEMMA EntryType ==
  ASSUME NEW e \in Entry
  PROVE  /\ AllowEntry(e) \in Entry
         /\ SuccessEntry(e) \in Entry
         /\ FailureEntry(e) \in Entry
         /\ Age(e) \in Entry
<1>1. Threshold \in Nat /\ {0, Cooldown} \subseteq 0..Cooldown /\ 0 \in 0..Threshold
  BY TuningAssumption
<1>2. /\ e.state \in {"closed", "open", "halfOpen"} /\ e.fails \in 0..Threshold
      /\ e.opened \in 0..Cooldown /\ e.trial \in 0..Cooldown
  BY DEF Entry
<1>3. /\ Up(e.fails, Threshold) \in 0..Threshold
      /\ Up(e.opened, Cooldown) \in 0..Cooldown /\ Up(e.trial, Cooldown) \in 0..Cooldown
  BY <1>1, <1>2, TuningAssumption, UpType
<1>4. AllowEntry(e) \in Entry /\ SuccessEntry(e) \in Entry
  BY <1>1, <1>2 DEF AllowEntry, SuccessEntry, Entry
<1>5. FailureEntry(e) \in Entry
  BY <1>1, <1>2, <1>3 DEF FailureEntry, Entry
<1>6. Age(e) \in Entry
  BY <1>2, <1>3 DEF Age, Entry
<1>. QED  BY <1>4, <1>5, <1>6

\* In the closed state the counter is the evidence; away from it, the clock
\* the next admission waits for is the time since the last event.
Clocks ==
  /\ entry.state = "closed" => entry.fails = evidence
  /\ entry.state # "closed" => entry.fails = Threshold
  /\ entry.state = "open" => entry.opened = quiet
  /\ entry.state = "halfOpen" => entry.trial = quiet

IInv == TypeOK /\ TrippedOnEvidence /\ Clocks

LEMMA InvStep ==
  ASSUME IInv, [Next]_vars
  PROVE  IInv'
<1>. USE DEF IInv
<1>1. Threshold \in Nat \ {0} /\ Cooldown \in Nat \ {0}
  BY TuningAssumption
<1>2. entry \in Entry /\ evidence \in 0..Threshold /\ quiet \in 0..Cooldown
  BY DEF TypeOK
<1>3. ASSUME NEW c \in Callers, Ask(c)  PROVE IInv'
  <2>1. entry' = AllowEntry(entry) /\ quiet' = 0 /\ UNCHANGED evidence
        /\ caller' = [caller EXCEPT ![c] = "calling"]
    BY <1>3 DEF Ask
  <2>2. TypeOK'
    BY <1>1, <1>2, <2>1, EntryType DEF TypeOK
  <2>3. TrippedOnEvidence' /\ Clocks'
    BY <1>1, <1>2, <2>1 DEF TrippedOnEvidence, Clocks, AllowEntry, Entry
  <2>. QED  BY <2>2, <2>3
<1>4. ASSUME NEW c \in Callers, ReportSuccess(c)  PROVE IInv'
  <2>1. entry' = SuccessEntry(entry) /\ evidence' = 0 /\ UNCHANGED quiet
        /\ caller' = [caller EXCEPT ![c] = "idle"]
    BY <1>4 DEF ReportSuccess, Return
  <2>2. TypeOK'
    BY <1>1, <1>2, <2>1, EntryType DEF TypeOK
  <2>3. TrippedOnEvidence' /\ Clocks'
    BY <1>1, <1>2, <2>1 DEF TrippedOnEvidence, Clocks, SuccessEntry, Entry
  <2>. QED  BY <2>2, <2>3
<1>5. ASSUME NEW c \in Callers, ReportFailure(c)  PROVE IInv'
  <2>1. entry' = FailureEntry(entry) /\ evidence' = Up(evidence, Threshold) /\ quiet' = 0
        /\ caller' = [caller EXCEPT ![c] = "idle"]
    BY <1>5 DEF ReportFailure, Return
  <2>2. Up(evidence, Threshold) \in 0..Threshold
    BY <1>1, <1>2, UpType
  <2>3. TypeOK'
    BY <1>1, <1>2, <2>1, <2>2, EntryType DEF TypeOK
  <2>4. TrippedOnEvidence' /\ Clocks'
    <3>1. CASE entry.state = "halfOpen"
      BY <1>1, <1>2, <2>1, <3>1 DEF TrippedOnEvidence, Clocks, FailureEntry, Up, Entry
    <3>2. CASE entry.state # "halfOpen" /\ Up(entry.fails, Threshold) = Threshold
      BY <1>1, <1>2, <2>1, <3>2 DEF TrippedOnEvidence, Clocks, FailureEntry, Up, Entry
    <3>3. CASE entry.state # "halfOpen" /\ Up(entry.fails, Threshold) # Threshold
      BY <1>1, <1>2, <2>1, <3>3 DEF TrippedOnEvidence, Clocks, FailureEntry, Up, Entry
    <3>. QED  BY <3>1, <3>2, <3>3
  <2>. QED  BY <2>3, <2>4
<1>6. ASSUME NEW c \in Callers, NoReport(c)  PROVE IInv'
  BY <1>6 DEF NoReport, Return, TypeOK, TrippedOnEvidence, Clocks
<1>7. CASE Tick
  <2>1. entry' = Age(entry) /\ quiet' = Up(quiet, Cooldown) /\ UNCHANGED <<caller, evidence>>
    BY <1>7 DEF Tick
  <2>2. Up(quiet, Cooldown) \in 0..Cooldown
    BY <1>1, <1>2, UpType
  <2>3. TypeOK'
    BY <1>1, <1>2, <2>1, <2>2, EntryType DEF TypeOK
  <2>4. /\ entry'.state = entry.state /\ entry'.fails = entry.fails
        /\ entry'.opened = Up(entry.opened, Cooldown)
        /\ entry'.trial = Up(entry.trial, Cooldown)
    BY <1>2, <2>1 DEF Age, Entry
  <2>5. TrippedOnEvidence' /\ Clocks'
    BY <2>1, <2>4 DEF TrippedOnEvidence, Clocks
  <2>. QED  BY <2>3, <2>5
<1>8. CASE UNCHANGED vars
  BY <1>8 DEF vars, TypeOK, TrippedOnEvidence, Clocks
<1>. QED  BY <1>3, <1>4, <1>5, <1>6, <1>7, <1>8 DEF Next

THEOREM Invariance == Spec => []IInv
<1>1. Init => IInv
  BY TuningAssumption
  DEF Init, IInv, TypeOK, TrippedOnEvidence, Clocks, Entry, NewEntry
<1>. QED  BY <1>1, InvStep, PTL DEF Spec

\* Every state is well typed.
THEOREM TypeCorrect == Spec => []TypeOK
<1>1. IInv => TypeOK
  BY DEF IInv
<1>. QED  BY <1>1, Invariance, PTL

\* The breaker leaves closed exactly on Threshold failures without a success,
\* for any number of overlapping callers.
THEOREM TripsExactlyOnEvidence == Spec => []TrippedOnEvidence
<1>1. IInv => TrippedOnEvidence
  BY DEF IInv
<1>. QED  BY <1>1, Invariance, PTL

\* Away from closed, admissions are a full cooldown apart.
THEOREM AdmissionsPaced == Spec => PacedRecovery
<1>1. ASSUME IInv, [Next]_vars, entry.state # "closed", Admission
      PROVE  quiet = Cooldown
  <2>1. PICK c \in Callers : caller[c] = "idle" /\ caller'[c] = "calling"
    BY <1>1 DEF Admission
  <2>2. \E d \in Callers : Ask(d)
    BY <1>1, <2>1 DEF Next, ReportSuccess, ReportFailure, NoReport, Return, Tick, vars, IInv, TypeOK
  <2>3. Admits(entry)
    BY <2>2 DEF Ask
  <2>. QED  BY <1>1, <2>3 DEF Admits, IInv, Clocks
<1>2. IInv /\ [Next]_vars => [entry.state # "closed" /\ Admission => quiet = Cooldown]_vars
  BY <1>1
<1>. QED  BY <1>2, Invariance, PTL DEF Spec, PacedRecovery
=============================================================================
