------------------------------ MODULE Breaker ------------------------------
(***************************************************************************)
(* The breaker of one provider under concurrent callers.  A caller asks,   *)
(* and if admitted reports a success, reports a failure, or reports        *)
(* nothing: the candidate was never tried, was filtered out after Allow,   *)
(* or failed in a way that does not count (FailureClass.                   *)
(* CountsAgainstBreaker).  Reports may arrive at any later time, in any    *)
(* state of the breaker.                                                   *)
(***************************************************************************)
EXTENDS BreakerEntry

CONSTANT Callers

VARIABLES entry,     \* the provider's entry
          caller,    \* caller -> "idle" or "calling"
          evidence,  \* failures reported since the last success (up to Threshold)
          quiet      \* ticks since the last admission or reported failure

vars == <<entry, caller, evidence, quiet>>

Ask(c) ==
  /\ caller[c] = "idle" /\ Admits(entry)
  /\ entry'  = AllowEntry(entry)
  /\ caller' = [caller EXCEPT ![c] = "calling"]
  /\ quiet'  = 0
  /\ UNCHANGED evidence

Return(c) == caller[c] = "calling" /\ caller' = [caller EXCEPT ![c] = "idle"]

ReportSuccess(c) ==
  /\ Return(c)
  /\ entry' = SuccessEntry(entry)
  /\ evidence' = 0
  /\ UNCHANGED quiet

ReportFailure(c) ==
  /\ Return(c)
  /\ entry' = FailureEntry(entry)
  /\ evidence' = Up(evidence, Threshold)
  /\ quiet' = 0

NoReport(c) == Return(c) /\ UNCHANGED <<entry, evidence, quiet>>

Tick ==
  /\ entry' = Age(entry) /\ quiet' = Up(quiet, Cooldown)
  /\ UNCHANGED <<caller, evidence>>

Init ==
  /\ entry = NewEntry
  /\ caller = [c \in Callers |-> "idle"]
  /\ evidence = 0
  /\ quiet = Cooldown

Next == \/ \E c \in Callers : \/ Ask(c) \/ ReportSuccess(c)
                              \/ ReportFailure(c) \/ NoReport(c)
        \/ Tick

\* Time passes; nothing is assumed of the callers.
Spec == Init /\ [][Next]_vars /\ WF_vars(Tick)

----------------------------------------------------------------------------
TypeOK ==
  /\ entry \in Entry
  /\ caller \in [Callers -> {"idle", "calling"}]
  /\ evidence \in 0..Threshold
  /\ quiet \in 0..Cooldown

\* The breaker is away from closed exactly when Threshold failures were
\* reported with no success among them, however the reports of overlapping
\* callers interleave with trials and their timeouts.
TrippedOnEvidence == entry.state # "closed" <=> evidence = Threshold

\* A provider not yet proven healthy is tried at most once per cooldown: an
\* admission comes a full cooldown after the previous admission and after the
\* last reported failure.  (Allow's "exactly once per cooldown window"; a
\* late failure of an older caller restarts the wait.)
Admission == \E c \in Callers : caller[c] = "idle" /\ caller'[c] = "calling"
PacedRecovery == [][entry.state # "closed" /\ Admission => quiet = Cooldown]_vars

\* No sequence of missing reports keeps a tripped provider out for good: it
\* becomes eligible again (the trial timeout, halfOpenTrialTimeout).
NoWedge == entry.state # "closed" ~> Admits(entry)
=============================================================================
