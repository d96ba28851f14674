----------------------------- MODULE Approvals -----------------------------
(***************************************************************************)
(* Tool calls under the permission policy (tools.Registry.Execute) and the *)
(* waits for a human it leads to: approvals and ask_question, each with a  *)
(* pending table of one-slot channels that HTTP handlers answer into while *)
(* the wait may time out or be interrupted (agent.Service).                *)
(*                                                                         *)
(* A call is known by the id its wait would have.  The evaluator is built  *)
(* at start and never changes; an "always" answer is kept in the grant file*)
(* and is a rule of the next start.                                        *)
(***************************************************************************)
EXTENDS Permission, SequencesExt

CONSTANTS
  Calls,      \* tool calls of the runs of this daemon
  Clicks,     \* handlers of POSTs to /approve and /answer
  Globals,    \* what permissions.json in the home directory may hold
  Projects,   \* what the project's permissions.json may hold
  Asked,      \* Asked[c]: the tools and subjects call c may be of
  MaxStarts   \* starts of the daemon

Verdicts == {"once", "always", "deny"}   \* answers to an approval
Asking == "ask_question"
Kinds == {"approval", "question"}
Waits == Kinds \X Calls
AnswersTo(w) == IF w[1] = "approval" THEN Verdicts ELSE {"words"}

\* A policy file has a default and a list of rules, whatever they say.
ApprovalsAssumption ==
  /\ PermissionAssumption
  /\ MaxStarts \in Nat
  /\ \A f \in Globals \cup Projects : f.rules \in Seq({f.rules[i] : i \in DOMAIN f.rules})

VARIABLES
  rules, default,   \* the evaluator
  policy,           \* the rules without the grants (history)
  grants,           \* GrantStore.grants
  file, torn,       \* permission_grants.json, and whether a write broke it
  adding,           \* adding[c]: what c's GrantStore.Add read before appending
  disabled,         \* Registry.disabled
  phase,            \* phase[c]: how far the call got
  tool, subject,    \* of call c
  live,             \* live[c]: a client watches the run (no subagent)
  pending,          \* the two tables, as <<kind, call>>
  slot,             \* slot[w]: the channel of a wait, "" when empty
  click,            \* click[k]: the handler of one POST
  heard,            \* heard[w]: what a wait returned
  always,           \* [tool, subject] the user ever answered "always" (history)
  starts

evaluator == <<rules, default, policy>>
store == <<grants, file, torn, adding>>
calls == <<phase, tool, subject, live, heard>>
waits == <<pending, slot, click>>
vars == <<evaluator, store, disabled, calls, waits, always, starts>>

Idle == [at |-> "idle"]
What(c) == [tool |-> tool[c], subject |-> subject[c]]

(***************************************************************************)
(* Start: LoadGrants, LoadConfig and NewEvaluator.                         *)
(***************************************************************************)
GrantRules(gs) == SetToSeq({GrantRule(g) : g \in gs})

\* Without a readable file there is no GrantStore: "always" is forgotten.
Kept(f, broken) == IF broken THEN {} ELSE f

NewRegistry(g, p, kept) ==
  LET loaded == LoadConfig(g, p)
  IN  /\ policy' = loaded.rules
      /\ default' = DefaultOf(loaded)
      /\ rules' = loaded.rules \o GrantRules(kept)
      /\ grants' = kept

Init ==
  /\ rules = <<>> /\ policy = <<>> /\ default = "allow"
  /\ grants = {} /\ file = {} /\ torn = FALSE
  /\ adding = [c \in Calls |-> {}]
  /\ disabled = {}
  /\ phase = [c \in Calls |-> "idle"]
  /\ tool = [c \in Calls |-> Asking] /\ subject = [c \in Calls |-> ""]
  /\ live = [c \in Calls |-> FALSE]
  /\ heard = [w \in Waits |-> ""]
  /\ pending = {} /\ slot = [w \in Waits |-> ""]
  /\ click = [k \in Clicks |-> Idle]
  /\ always = {}
  /\ starts = 0

(***************************************************************************)
(* The daemon starts, at first or after a stop between any two steps: what *)
(* was running or waiting is gone, the grant file and the tool settings    *)
(* stay, and the policy files may have been edited.  A stop in the middle  *)
(* of a write leaves a torn file.                                          *)
(***************************************************************************)
Start ==
  /\ starts < MaxStarts
  /\ starts' = starts + 1
  /\ torn' = (torn \/ \E c \in Calls : phase[c] = "saving")
  /\ \E g \in Globals, p \in Projects : NewRegistry(g, p, Kept(file, torn'))
  /\ adding' = [c \in Calls |-> {}]
  /\ phase' = [c \in Calls |-> "idle"]
  /\ tool' = [c \in Calls |-> Asking] /\ subject' = [c \in Calls |-> ""]
  /\ live' = [c \in Calls |-> FALSE]
  /\ heard' = [w \in Waits |-> ""]
  /\ pending' = {} /\ slot' = [w \in Waits |-> ""]
  /\ click' = [k \in Clicks |-> Idle]
  /\ UNCHANGED <<file, disabled, always>>

(***************************************************************************)
(* Execute up to the tool itself: disabled, unknown, denied, or asking     *)
(* where nobody can answer ends the call with an error and no step here.   *)
(***************************************************************************)
DecisionOn(t, s) == Evaluate(rules, default, t, s)

Outcome(t, s, watched) ==
  LET asks == DecisionOn(t, s) = "ask"
  IN  IF \/ t \in disabled \/ t \notin Tools
         \/ DecisionOn(t, s) = "deny"
         \/ ~watched /\ (asks \/ t = Asking)
      THEN "refused"
      ELSE IF asks THEN "approval"
      ELSE IF t = Asking THEN "question"
      ELSE "ran"

Execute(c) ==
  /\ starts > 0
  /\ phase[c] = "idle"
  /\ \E t \in Tools, s \in Subjects, w \in BOOLEAN :
       /\ <<t, s>> \in Asked[c]
       /\ Outcome(t, s, w) # "refused"
       /\ tool' = [tool EXCEPT ![c] = t]
       /\ subject' = [subject EXCEPT ![c] = s]
       /\ live' = [live EXCEPT ![c] = w]
       /\ phase' = [phase EXCEPT ![c] = Outcome(t, s, w)]
       /\ pending' = IF Outcome(t, s, w) \in Kinds
                     THEN pending \cup {<<Outcome(t, s, w), c>>} ELSE pending
  /\ UNCHANGED <<evaluator, store, disabled, heard, slot, click, always, starts>>

(***************************************************************************)
(* The handlers of an answer: the table is read under its lock, the send   *)
(* is made after it is released and never blocks.  A wait that is not in   *)
(* the table, or a decision that is none, is refused with 404.             *)
(***************************************************************************)
Lookup(k, w, d) ==
  /\ click[k] = Idle
  /\ d \in AnswersTo(w)
  /\ w \in pending
  /\ click' = [click EXCEPT ![k] = [at |-> "found", wait |-> w, answer |-> d]]
  /\ UNCHANGED <<evaluator, store, disabled, calls, pending, slot, always, starts>>

Deliver(k) ==
  /\ click[k].at = "found"
  /\ LET w == click[k].wait
     IN  slot' = IF w \in pending /\ slot[w] = "" THEN [slot EXCEPT ![w] = click[k].answer]
                 ELSE slot
  /\ click' = [click EXCEPT ![k] = Idle]
  /\ UNCHANGED <<evaluator, store, disabled, calls, pending, always, starts>>

(***************************************************************************)
(* The wait: an answer, the end of the run's context or ten minutes,       *)
(* whichever the select takes; then the deferred delete of the entry.  In  *)
(* between a handler still finds the entry, but sends to nobody.           *)
(***************************************************************************)
\* Slip: a wait that ended without an answer lets the call run.
AfterSilence(w, answer) ==
  IF w[1] = "question" THEN "ran"
  ELSE IF answer = "deny" THEN "refused"
  ELSE IF answer = "always" /\ ~torn THEN "granting"
  ELSE "approved"

\* What an answer leads to; a question's is the result of the call.
AfterWait(w, answer) ==
  IF answer = "nothing" THEN "refused"
  ELSE IF w[1] = "question" THEN "ran"
  ELSE IF answer = "deny" THEN "refused"
  ELSE IF answer = "always" /\ ~torn THEN "granting"
  ELSE "approved"

EndWait(w, answer) ==
  /\ phase[w[2]] = w[1]
  /\ heard' = [heard EXCEPT ![w] = answer]
  /\ phase' = [phase EXCEPT ![w[2]] = AfterWait(w, answer)]
  /\ pending' = pending \ {w}
  /\ slot' = [slot EXCEPT ![w] = ""]
  /\ always' = IF answer = "always" THEN always \cup {What(w[2])} ELSE always
  /\ UNCHANGED <<evaluator, store, disabled, tool, subject, live, click, starts>>

Hear(w) == slot[w] # "" /\ EndWait(w, slot[w])

GiveUp(w) == EndWait(w, "nothing")

\* An approved call runs; ask_question is a wait of its own.
Run(c) ==
  /\ phase[c] = "approved"
  /\ phase' = [phase EXCEPT ![c] = IF tool[c] = Asking THEN "question" ELSE "ran"]
  /\ pending' = IF tool[c] = Asking THEN pending \cup {<<"question", c>>} ELSE pending
  /\ UNCHANGED <<evaluator, store, disabled, tool, subject, live, heard, slot, click, always, starts>>

(***************************************************************************)
(* GrantStore.Add, which no lock protects: the list is read, replaced by   *)
(* one with the grant, and written whole.  Two writes at once tear it.     *)
(***************************************************************************)
ReadGrants(c) ==
  /\ phase[c] = "granting"
  /\ adding' = [adding EXCEPT ![c] = grants]
  /\ phase' = [phase EXCEPT ![c] = "adding"]
  /\ UNCHANGED <<evaluator, grants, file, torn, disabled, tool, subject, live, heard, waits, always, starts>>

AppendGrant(c) ==
  /\ phase[c] = "adding"
  /\ grants' = adding[c] \cup {What(c)}
  /\ phase' = [phase EXCEPT ![c] = "saving"]
  /\ UNCHANGED <<evaluator, adding, file, torn, disabled, tool, subject, live, heard, waits, always, starts>>

SaveGrants(c) ==
  /\ phase[c] = "saving"
  /\ file' = grants
  /\ \/ torn' = torn
     \/ torn' = TRUE /\ \E o \in Calls \ {c} : phase[o] = "saving"
  /\ adding' = [adding EXCEPT ![c] = {}]
  /\ phase' = [phase EXCEPT ![c] = "approved"]
  /\ UNCHANGED <<evaluator, grants, disabled, tool, subject, live, heard, waits, always, starts>>

\* The call's result is in the history; the next call may take its place.
Return(c) ==
  /\ phase[c] \in {"ran", "refused"}
  /\ phase' = [phase EXCEPT ![c] = "idle"]
  /\ tool' = [tool EXCEPT ![c] = Asking]
  /\ subject' = [subject EXCEPT ![c] = ""]
  /\ live' = [live EXCEPT ![c] = FALSE]
  /\ heard' = [w \in Waits |-> IF w[2] = c THEN "" ELSE heard[w]]
  /\ click' = [k \in Clicks |-> IF click[k].at = "found" /\ click[k].wait[2] = c
                               THEN Idle ELSE click[k]]
  /\ UNCHANGED <<evaluator, store, disabled, pending, slot, always, starts>>

\* PUT /tools/settings, and the settings the next start reads.
ReplaceDisabled ==
  /\ starts > 0
  /\ \E s \in {{}, {"delete_file"}} :
       /\ disabled' = s
       /\ s # disabled
  /\ UNCHANGED <<evaluator, store, calls, waits, always, starts>>

Next ==
  \/ Start
  \/ \E c \in Calls : \/ Execute(c) \/ Run(c) \/ Return(c)
                     \/ ReadGrants(c) \/ AppendGrant(c) \/ SaveGrants(c)
  \/ \E w \in Waits : Hear(w) \/ GiveUp(w)
  \/ \E k \in Clicks, w \in Waits, d \in Verdicts \cup {"words"} : Lookup(k, w, d)
  \/ \E k \in Clicks : Deliver(k)
  \/ ReplaceDisabled

Spec == Init /\ [][Next]_vars

-----------------------------------------------------------------------------

\* A grant speaks for a call of its tool whose subject its pattern matches.
Covers(g, c) ==
  /\ g.tool = tool[c]
  /\ subject[c] \in Widens[g.subject] \/ g.subject \in Blank

\* A call that the policy does not allow unasked runs only if the user agreed
\* to it, or once answered "always" to a call whose subject covers it; a bash
\* command that chains another never runs on a rule alone; and what asks for
\* agreement where nobody watches never runs (Registry.Execute, Evaluate).
ConsentedCalls ==
  \A c \in Calls :
    phase[c] = "ran" =>
      \/ live[c] /\ heard[<<"approval", c>>] \in {"once", "always"}
      \/ /\ Evaluate(policy, default, tool[c], subject[c]) = "allow" \/ \E g \in always : Covers(g, c)
         /\ tool[c] = "bash" => ~HasCommandChaining(subject[c])
=============================================================================
