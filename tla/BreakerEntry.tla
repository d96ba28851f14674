---------------------------- MODULE BreakerEntry ----------------------------
(***************************************************************************)
(* One entry of the circuit breaker registry (internal/breaker) and its    *)
(* three operations, each one critical section of entry.mu.                *)
(*                                                                         *)
(* Time is kept as ages that saturate at Cooldown: the code only compares  *)
(* time.Since(x) with cooldown.  trial = Cooldown also stands for the zero *)
(* trialAt, which Allow treats alike.  fails saturates at Threshold, the   *)
(* only value it is compared with.                                         *)
(***************************************************************************)
EXTENDS Naturals

CONSTANTS Threshold,  \* failureThreshold
          Cooldown    \* cooldown, in ticks; also the trial timeout

ASSUME TuningAssumption == Threshold \in Nat \ {0} /\ Cooldown \in Nat \ {0}

Entry == [state : {"closed", "open", "halfOpen"},
          fails : 0..Threshold, opened : 0..Cooldown, trial : 0..Cooldown]

NewEntry == [state |-> "closed", fails |-> 0, opened |-> Cooldown, trial |-> Cooldown]

Up(n, top) == IF n < top THEN n + 1 ELSE top

\* Slips: everyone may probe a half-open provider; nobody may once the trial
\* was given away.
AdmitsCrowd(e) ==
  e.state = "open" => e.opened = Cooldown
AdmitsOneTrial(e) ==
  e.state = "closed" \/ (e.state = "open" /\ e.opened = Cooldown)

\* Allow: what it answers, and the entry it leaves when it answers yes.
Admits(e) ==
  \/ e.state = "closed"
  \/ e.state = "open" /\ e.opened = Cooldown
  \/ e.state = "halfOpen" /\ e.trial = Cooldown
AllowEntry(e) ==
  IF e.state = "closed" THEN e
  ELSE [state |-> "halfOpen", fails |-> e.fails, opened |-> e.opened, trial |-> 0]

\* Slip: a success does not clear the failures before it.
SuccessKeepsCount(e) ==
  [state |-> "closed", fails |-> e.fails, opened |-> e.opened, trial |-> Cooldown]

SuccessEntry(e) ==
  [state |-> "closed", fails |-> 0, opened |-> e.opened, trial |-> Cooldown]

\* A failed trial reopens at once; otherwise the threshold decides.
FailureEntry(e) ==
  LET n == Up(e.fails, Threshold) IN
  IF e.state = "halfOpen"
  THEN [state |-> "open", fails |-> e.fails, opened |-> 0, trial |-> Cooldown]
  ELSE IF n = Threshold
       THEN [state |-> "open", fails |-> n, opened |-> 0, trial |-> e.trial]
       ELSE [e EXCEPT !.fails = n]

Age(e) ==
  [state |-> e.state, fails |-> e.fails,
   opened |-> Up(e.opened, Cooldown), trial |-> Up(e.trial, Cooldown)]
=============================================================================
