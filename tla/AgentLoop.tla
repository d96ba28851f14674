----------------------------- MODULE AgentLoop -----------------------------
(***************************************************************************)
(* The agent's tool-calling loop (Service.runLoop and what it calls in     *)
(* internal/daemon/agent) in one session: run after run, each a sequence   *)
(* of turns that shape the history into a request, call the model with     *)
(* bounded retries, and persist an answer or execute a batch of tools.     *)
(*                                                                         *)
(* Actors: the run's goroutine and the goroutines of its read-only tools,  *)
(* users who steer or edit AGENTS.md, and the daemon, which may crash      *)
(* between any two steps: the history survives, the rest does not.         *)
(*                                                                         *)
(* Abstraction: token estimates decide between keeping, compacting and     *)
(* pruning, so any of them may happen; what the model replies and whether  *)
(* a tool result equals the previous one are choices as well.              *)
(***************************************************************************)
EXTENDS History

CONSTANTS
  Budget,          \* MaxTurns * MaxSegmentsPerRun
  Rounds,          \* MaxGatewayRounds
  MaxCompactions,  \* MaxCompactionsPerRun
  StopAt,          \* identical results in a row that stop a run (4)
  Parallel,        \* maxParallelReadOnlyTools
  Batches,         \* the batches of tools a model may call, by kind
  Schemes,         \* how providers name calls: "fresh", "positional" or both
  Versions,        \* of AGENTS.md, positive
  MaxRuns, MaxSteers, MaxEdits  \* bounds: runs, steering messages, edits of AGENTS.md

Kinds == {"read", "poll", "edit", "note", "bash", "diagnose", "garbled"}
\* IsReadOnly, isVerificationCall and isFileMutationCall on source files
ReadOnly == {"read", "poll"}
Verifies == {"bash", "diagnose"}
Arms == {"edit"}

ASSUME BudgetAssumption == {Budget, Rounds, StopAt, Parallel} \subseteq Nat \ {0}
ASSUME BoundAssumption == {MaxCompactions, MaxRuns, MaxSteers, MaxEdits} \subseteq Nat
ASSUME BatchAssumption == Batches \subseteq Seq(Kinds) \ {<<>>}
ASSUME VersionAssumption == Versions \subseteq Nat \ {0} /\ Versions # {}
ASSUME SchemeAssumption == Schemes \subseteq {"fresh", "positional"}

VARIABLES
  hist,          \* the session's messages in the store
  queue,         \* steering messages waiting in Service.steering
  version,       \* of AGENTS.md when it was last read
  \* the run: runLoop's variables
  pc, turn, compactions,
  emptyRetry,    \* emptyRetryUsed
  pending,       \* verify.pending
  nudgeUsed, nudgePending,
  checkpointed,
  stagnation,    \* kind of the last result and how often it was identical
  \* the model call
  view,          \* the history as the request carries it
  inject,        \* the version its preamble carries, 0 for none
  round, salvaged,
  \* the tool batch
  batch,         \* the calls being executed
  started, finished,
  stored,        \* how many results are persisted
  \* bounds, and history for the properties
  runs, steers, edits,
  first,         \* where this run's messages begin in hist
  seen,          \* length of hist when it was last loaded
  nudged,        \* a request of this run carried the verification nudge
  dirty,         \* a mutating tool of this run has started
  undoes         \* what dirty was when the checkpoint was taken

envVars == <<queue, version, edits, steers>>
flagVars == <<compactions, emptyRetry, pending, nudgeUsed, nudgePending, checkpointed,
              stagnation>>
callVars == <<view, inject, round, salvaged>>
batchVars == <<batch, started, finished, stored>>
ghostVars == <<runs, first, seen, nudged, dirty, undoes>>
vars == <<hist, envVars, pc, turn, flagVars, callVars, batchVars, ghostVars>>

Resting == {"idle", "ok", "silent", "blocked", "failed"}
NearBudget == turn = Budget - 1

\* Between model calls and batches their variables hold nothing.
NoCallOpen == view' = <<>> /\ inject' = 0 /\ round' = 0 /\ salvaged' = FALSE
NoBatchOpen == batch' = <<>> /\ started' = {} /\ finished' = {} /\ stored' = 0

\* runLoop's variables as it is entered; a failed or crashed run leaves none.
Fresh ==
  /\ turn' = 0 /\ compactions' = 0
  /\ emptyRetry' = FALSE /\ pending' = FALSE
  /\ nudgeUsed' = FALSE /\ nudgePending' = FALSE /\ checkpointed' = FALSE
  /\ stagnation' = [kind |-> "none", count |-> 0]
  /\ nudged' = FALSE /\ dirty' = FALSE /\ undoes' = FALSE
Gone == Fresh /\ NoCallOpen /\ NoBatchOpen /\ first' = 0 /\ seen' = 0

NextTurn == turn' = turn + 1 /\ pc' = "head"

----------------------------------------------------------------------------
\* Run persists the user's message and enters runLoop.
Run ==
  /\ pc \in Resting /\ runs < MaxRuns
  /\ hist' = Append(hist, User)
  /\ pc' = "head"
  /\ Fresh
  /\ runs' = runs + 1 /\ first' = Len(hist) + 1 /\ seen' = Len(hist)
  /\ UNCHANGED <<envVars, callVars, batchVars>>

\* The loop head: steering becomes user messages, the history is loaded.
Drain ==
  /\ pc = "head" /\ turn < Budget
  /\ hist' = hist \o [i \in 1..queue |-> User]
  /\ queue' = 0
  /\ seen' = Len(hist')
  /\ pc' = "plan"
  /\ UNCHANGED <<version, edits, steers, turn, flagVars, callVars, batchVars, runs, first, nudged,
                 dirty, undoes>>

Exhausted ==
  /\ pc = "head" /\ turn = Budget
  /\ pc' = "failed" /\ Gone
  /\ UNCHANGED <<hist, envVars, runs>>

\* contextpolicy.Compact: a summary is persisted, and the turn is spent.
Compacts ==
  /\ pc = "plan" /\ compactions < MaxCompactions
  /\ hist' = Append(hist, Summary)
  /\ compactions' = compactions + 1
  /\ NextTurn
  /\ UNCHANGED <<envVars, emptyRetry, pending, nudgeUsed, nudgePending, checkpointed,
                 stagnation, callVars, batchVars, ghostVars>>

\* loadProjectContext reads the file anew, which may have been edited.
Load ==
  /\ version' \in IF edits < MaxEdits THEN Versions ELSE {version}
  /\ edits' = IF version' = version THEN edits ELSE edits + 1

\* The request is assembled: a breadcrumb of what its preamble injects is
\* persisted, by the effective history and not by the pruned one.
Ready(request) ==
  LET fresh == NeedsFreshInjection(EffectiveHistory(hist), version') IN
  /\ Load
  /\ view' = request
  /\ inject' = IF fresh THEN version' ELSE 0
  /\ hist' = IF fresh THEN Append(hist, Breadcrumb(version')) ELSE hist
  /\ nudged' = (nudged \/ nudgePending)
  /\ pc' = "call"
  /\ UNCHANGED <<queue, steers, turn, flagVars, round, salvaged, batchVars, runs, first, seen,
                 dirty, undoes>>

Keeps == pc = "plan" /\ Ready(EffectiveHistory(hist))

\* Slip: the pruned history replaces the stored one.
PrunesForGood ==
  LET effective == EffectiveHistory(hist) IN
  /\ pc = "plan" /\ compactions < MaxCompactions
  /\ \E cut \in Cuts(effective) : hist' = EmergencyPrune(effective, cut)
  /\ NextTurn
  /\ UNCHANGED <<envVars, flagVars, callVars, batchVars, ghostVars>>
\* The summarizer failed: the oldest user turns are left out of this call.
PrunesInEmergency ==
  LET effective == EffectiveHistory(hist) IN
  /\ pc = "plan" /\ compactions < MaxCompactions
  /\ \E cut \in Cuts(effective) :
       /\ cut > Lead(effective) + 1
       /\ Ready(EmergencyPrune(effective, cut))

\* Errors return at once: of the store, of the summarizer when nothing can be
\* pruned, ErrContextOverflow, and of the gateway.
Fails ==
  /\ \/ pc \in {"plan", "call", "stopping"}
     \/ pc = "running" /\ finished = DOMAIN batch
  /\ pc' = "failed" /\ Gone
  /\ UNCHANGED <<hist, envVars, runs>>

\* drainSteering loses what follows a message it cannot persist.
DrainFails ==
  /\ pc \in {"head", "answered", "silenced"} /\ turn < Budget
  /\ \E n \in 0..(queue - 1) : hist' = hist \o [i \in 1..n |-> User]
  /\ queue' = 0
  /\ pc' = "failed" /\ Gone
  /\ UNCHANGED <<version, edits, steers, runs>>

----------------------------------------------------------------------------
\* callModelWithRetry: a retryable round is repeated, and what it streamed is
\* salvaged as the beginning of the answer.
RoundFails ==
  /\ pc = "call" /\ round < Rounds - 1
  /\ round' = round + 1
  /\ salvaged' \in {salvaged, TRUE}
  /\ UNCHANGED <<hist, envVars, pc, turn, flagVars, view, inject, batchVars, ghostVars>>

\* Slip: an empty response neither spends the turn nor the one retry.
RepliesNothingForEver ==
  /\ pc = "call" /\ ~salvaged /\ ~emptyRetry
  /\ nudgePending' = FALSE
  /\ pc' = "head"
  /\ NoCallOpen
  /\ UNCHANGED <<hist, envVars, turn, compactions, emptyRetry, pending, nudgeUsed,
                 checkpointed, stagnation, batchVars, ghostVars>>
\* An empty response, or a stream that closed without its end: one retry.
RepliesNothing ==
  /\ pc = "call" /\ ~salvaged /\ ~emptyRetry
  /\ emptyRetry' = TRUE /\ nudgePending' = FALSE
  /\ NextTurn
  /\ NoCallOpen
  /\ UNCHANGED <<hist, envVars, compactions, pending, nudgeUsed, checkpointed, stagnation,
                 batchVars, ghostVars>>

\* The verification gate: the first answer over an unverified source change
\* is kept, and the model is asked once to verify.
Gated == pending /\ ~nudgeUsed /\ ~NearBudget
GateTrips ==
  /\ pc = "call" /\ Gated
  /\ hist' = Append(hist, Text)
  /\ nudgeUsed' = TRUE /\ nudgePending' = TRUE
  /\ NextTurn
  /\ NoCallOpen
  /\ UNCHANGED <<envVars, compactions, emptyRetry, pending, checkpointed, stagnation,
                 batchVars, ghostVars>>

\* A final answer, or the text that says there was none.  Tool markup printed
\* on the last turn becomes such a text as well.
Persists(stage) ==
  /\ hist' = Append(hist, Text)
  /\ pc' = stage
  /\ nudgePending' = FALSE
  /\ NoCallOpen
  /\ UNCHANGED <<envVars, turn, compactions, emptyRetry, pending, nudgeUsed, checkpointed,
                 stagnation, batchVars, ghostVars>>
Answers == pc = "call" /\ ~Gated /\ Persists("answered")
StaysSilent == pc = "call" /\ ~salvaged /\ emptyRetry /\ Persists("silenced")

\* Slip: steering that arrives with the answer is persisted, not answered.
SteeredTooLate ==
  /\ pc \in {"answered", "silenced"} /\ queue > 0
  /\ hist' = hist \o [i \in 1..queue |-> User]
  /\ queue' = 0
  /\ pc' = "ok"
  /\ UNCHANGED <<version, edits, steers, turn, flagVars, callVars, batchVars, ghostVars>>
\* A user redirected mid-answer: the answer stands, the run goes on.
Steered ==
  /\ pc \in {"answered", "silenced"} /\ queue > 0
  /\ hist' = hist \o [i \in 1..queue |-> User]
  /\ queue' = 0
  /\ NextTurn
  /\ UNCHANGED <<version, edits, steers, flagVars, callVars, batchVars, ghostVars>>
Returns ==
  /\ pc \in {"answered", "silenced"} /\ queue = 0
  /\ pc' = IF pc = "answered" THEN "ok" ELSE "silent"
  /\ UNCHANGED <<hist, envVars, turn, flagVars, callVars, batchVars, ghostVars>>

----------------------------------------------------------------------------
\* The model calls tools, in structured form or as markup that is recovered
\* (under fresh ids).  graceUsed is never set before the last turn, so the
\* last turn's calls are executed like any other's.
CallsTools(kinds, scheme) ==
  LET Id(i) == IF scheme = "fresh" THEN <<Len(hist) + 1, i>> ELSE <<0, i>>
      calls == [i \in DOMAIN kinds |-> [id |-> Id(i), kind |-> kinds[i]]]
  IN  /\ pc = "call"
      /\ emptyRetry' = FALSE /\ nudgePending' = FALSE
      /\ hist' = Append(hist, Calling(calls))
      /\ batch' = calls
      /\ pc' = "batch"
      /\ NoCallOpen
      /\ UNCHANGED <<envVars, turn, compactions, pending, nudgeUsed, checkpointed, stagnation,
                     started, finished, stored, ghostVars>>

Mutates(calls) == \E i \in DOMAIN calls : calls[i].kind \notin ReadOnly

\* Slip: any verification in the batch counts, also one before the change.
ObserveUnordered(calls) ==
  /\ ~\E i \in DOMAIN calls : calls[i].kind \in Verifies
  /\ pending \/ \E i \in DOMAIN calls : calls[i].kind \in Arms
\* verifyTracker.observe walks the batch in order.
Observe(calls) ==
  LET last == SelectLastInSeq(calls, LAMBDA c : c.kind \in Verifies \cup Arms)
  IN  IF last = 0 THEN pending ELSE calls[last].kind \in Arms

\* Slip: every changing batch takes the checkpoint anew.
BeginAnew ==
  /\ pc = "batch"
  /\ checkpointed' = (checkpointed \/ Mutates(batch))
  /\ undoes' = IF Mutates(batch) THEN dirty ELSE undoes
  /\ pending' = Observe(batch)
  /\ pc' = "running"
  /\ UNCHANGED <<hist, envVars, turn, compactions, emptyRetry, nudgeUsed, nudgePending,
                 stagnation, callVars, batchVars, runs, first, seen, nudged, dirty>>
\* The checkpoint before the first batch that changes anything (attempted:
\* its failure is ignored), and the verification tracker.
Begin ==
  LET snapshot == ~checkpointed /\ Mutates(batch) IN
  /\ pc = "batch"
  /\ checkpointed' = (checkpointed \/ snapshot)
  /\ undoes' = IF snapshot THEN dirty ELSE undoes
  /\ pending' = Observe(batch)
  /\ pc' = "running"
  /\ UNCHANGED <<hist, envVars, turn, compactions, emptyRetry, nudgeUsed, nudgePending,
                 stagnation, callVars, batchVars, runs, first, seen, nudged, dirty>>

\* Slip: a stretch is as long as the batch once it begins read-only.
TogetherByFirst(i, j) == batch[i].kind \in ReadOnly
\* runToolBatch: a contiguous stretch of read-only calls runs concurrently,
\* any other call when all before it have finished.
Together(i, j) == \A k \in i..j : batch[k].kind \in ReadOnly
\* Slip: a finished call keeps its slot of the stretch.
MayStartUnreleased(j) ==
  /\ \A i \in 1..(j - 1) : i \in finished \/ (i \in started /\ Together(i, j))
  /\ Cardinality(started) < Parallel
MayStart(j) ==
  /\ \A i \in 1..(j - 1) : i \in finished \/ (i \in started /\ Together(i, j))
  /\ Cardinality(started \ finished) < Parallel
StartCall ==
  /\ pc = "running"
  /\ \E j \in DOMAIN batch \ started :
       /\ MayStart(j)
       /\ started' = started \cup {j}
       /\ dirty' = (dirty \/ batch[j].kind \notin ReadOnly)
  /\ UNCHANGED <<hist, envVars, pc, turn, flagVars, callVars, batch, finished, stored, runs,
                 first, seen, nudged, undoes>>
FinishCall ==
  /\ pc = "running"
  /\ \E j \in started \ finished : finished' = finished \cup {j}
  /\ UNCHANGED <<hist, envVars, pc, turn, flagVars, callVars, batch, started, stored,
                 ghostVars>>

\* toolStagnation.observe: an identical result counts, another one starts over,
\* and so does a poll of a process that still runs.
Observations(kind) ==
  {[kind |-> kind, count |-> 1]}
  \cup (IF stagnation.kind = kind
        THEN {[kind |-> kind, count |-> stagnation.count + 1]} ELSE {})
  \cup (IF kind = "poll" THEN {[kind |-> "none", count |-> 0]} ELSE {})

\* Results are persisted in the order of the calls.  A stagnating run stops,
\* and leaves the calls behind without results.
StoreResult ==
  LET next == stored + 1
      over == next = Len(batch)
  IN  /\ pc = "running" /\ finished = DOMAIN batch
      /\ hist' = Append(hist, Result(batch[next].id))
      /\ stagnation' \in Observations(batch[next].kind)
      /\ IF stagnation'.count >= StopAt
         THEN pc' = "stopping" /\ stored' = next /\ UNCHANGED <<turn, batch, started, finished>>
         ELSE IF over THEN NextTurn /\ NoBatchOpen
         ELSE stored' = next /\ UNCHANGED <<pc, turn, batch, started, finished>>
      /\ UNCHANGED <<envVars, compactions, emptyRetry, pending, nudgeUsed, nudgePending,
                     checkpointed, callVars, ghostVars>>

StagnationStop ==
  /\ pc = "stopping"
  /\ hist' = Append(hist, Text)
  /\ pc' = "blocked"
  /\ NoBatchOpen
  /\ UNCHANGED <<envVars, turn, flagVars, callVars, ghostVars>>

----------------------------------------------------------------------------
\* Service.QueueSteering, whenever the user likes.
QueueSteering ==
  /\ steers < MaxSteers
  /\ queue' = queue + 1 /\ steers' = steers + 1
  /\ UNCHANGED <<hist, version, edits, pc, turn, flagVars, callVars, batchVars, ghostVars>>

\* The daemon dies and is started again.
Crash ==
  /\ pc \notin Resting
  /\ pc' = "failed"
  /\ queue' = 0
  /\ Gone
  /\ UNCHANGED <<hist, version, edits, steers, runs>>

Init ==
  /\ hist = <<>> /\ queue = 0 /\ version = Min(Versions) /\ steers = 0 /\ edits = 0
  /\ pc = "idle" /\ turn = 0 /\ compactions = 0
  /\ emptyRetry = FALSE /\ pending = FALSE
  /\ nudgeUsed = FALSE /\ nudgePending = FALSE /\ checkpointed = FALSE
  /\ stagnation = [kind |-> "none", count |-> 0]
  /\ view = <<>> /\ inject = 0 /\ round = 0 /\ salvaged = FALSE
  /\ batch = <<>> /\ started = {} /\ finished = {} /\ stored = 0
  /\ runs = 0 /\ first = 0 /\ seen = 0
  /\ nudged = FALSE /\ dirty = FALSE /\ undoes = FALSE

RunStep ==
  \/ Drain \/ DrainFails \/ Exhausted \/ Compacts \/ Keeps \/ PrunesInEmergency \/ Fails
  \/ RoundFails \/ RepliesNothing \/ GateTrips \/ Answers \/ StaysSilent \/ Steered \/ Returns
  \/ (\E kinds \in Batches, scheme \in Schemes : CallsTools(kinds, scheme))
  \/ Begin \/ StartCall \/ FinishCall \/ StoreResult \/ StagnationStop

Next == RunStep \/ Run \/ QueueSteering \/ Crash

Spec == Init /\ [][Next]_vars /\ WF_vars(RunStep)

----------------------------------------------------------------------------
\* Whatever crashes, stops and errors left in the history, and however it was
\* cut, no provider is sent a tool call without its result or a result without
\* its call (sanitizeToolHistory, EmergencyPrune).
RequestsWellFormed == pc = "call" => WellFormed(Sanitize(view))

\* A run ends with an answer over unverified source changes only if the model
\* was asked to verify them, or on the last turn (the verification gate).
Unverified(messages) ==
  \E i \in DOMAIN messages : \E k \in DOMAIN messages[i].calls :
    /\ messages[i].calls[k].kind \in Arms
    /\ \A j \in i..Len(messages) : \A l \in DOMAIN messages[j].calls :
         messages[j].calls[l].kind \in Verifies => j = i /\ l < k
VerifiedOrNudged ==
  pc = "ok" /\ Unverified(SubSeq(hist, first, Len(hist))) => nudged \/ NearBudget

\* No run returns an answer while a message of the user that it persisted has
\* not been part of a request (runLoop's last drainSteering).
AnswerCoversUsers ==
  pc \in {"ok", "silent"} => \A i \in (seen + 1)..Len(hist) : hist[i].role # "user"

\* A run changes the workspace only after its checkpoint, and the checkpoint
\* holds nothing the run changed: rewinding undoes the whole run.
RewindUndoesRun == (dirty => checkpointed) /\ ~undoes

\* A tool that may change something runs alone (runToolBatch).
MutatorsAlone ==
  \A i \in started \ finished : batch[i].kind \notin ReadOnly => started \ finished = {i}

\* Every request over the whole effective history carries the project context
\* as it is then, in its preamble or as the latest breadcrumb, whatever was
\* edited, compacted or lost in a crash before (needsFreshInjection).
Carried ==
  LET last == LastBreadcrumb(view)
  IN  IF inject > 0 THEN inject ELSE IF last = 0 THEN 0 ELSE view[last].version
ContextCurrent == [][Keeps => Carried' = version']_vars

\* The same of every request, as the comment on needsFreshInjection has it:
\* what it skips, "the model already has it from history".
ContextReaches == [][pc = "plan" /\ pc' = "call" => Carried' = version']_vars

\* Each step of a run uses up its turn, or what is left of it, whatever the
\* model, the gateway and the store do: no compaction, retry or nudge is free.
Phase == CASE pc = "head" -> 6 [] pc = "plan" -> 5 [] pc = "call" -> 4 [] pc = "batch" -> 3
           [] pc = "running" -> 2 [] pc \in {"answered", "silenced", "stopping"} -> 1
           [] OTHER -> 0
Effort == IF pc = "call" THEN Rounds - round
          ELSE 3 * Len(batch) - Cardinality(started) - Cardinality(finished) - stored
RunsDown == [][RunStep => \/ turn' > turn \/ Phase' < Phase
                         \/ (Phase' = Phase /\ Effort' < Effort)]_vars

\* And it never waits for itself: a run ends.
RunEnds == pc = "head" ~> pc \in Resting

\* The loop keeps the transcript's promise.
T == INSTANCE Transcript WITH
  open <- IF pc \in {"batch", "running", "stopping"}
          THEN SubSeq(IdsOf(batch), stored + 1, Len(batch)) ELSE <<>>
TranscriptSpec == T!Spec
=============================================================================
