# Verification of kram

TLA+ models of kram, a coding agent made of a terminal UI, a session daemon and an
LLM gateway, with TLC configurations that check them on small instances and TLAPS
proofs of their main invariants for every instance. `PROJECT.json` lists the runs,
the theorems, the hazards, and for each definition the source lines it stands for.
Paths below are relative to `internal/` of the repository.

    tlc -workers 2 -config turns_stream.cfg MCTurns.tla
    tlapm TurnsProof.tla

## 1. The system

```
 TUI / CLI ──HTTP+SSE──> daemon ──HTTP+SSE──> gateway ──HTTPS──> model providers
 cli/app                 server, agent,       server, router,    provider/*
 cli/daemonclient        store, tools         breaker
                           │  └── mcp, lsp: child processes (JSON-RPC)
                           └── permission, snapshot, artifact, credentials: files
```

| Component | State it keeps | Operations | What is hard | What makes it correct |
|---|---|---|---|---|
| Turn lifecycle `daemon/server/turns.go` | registry session → turn; per turn: frames under a replay cap, subscribers, done | start, publish, subscribe, finish, retire, interrupt | requests, the run's goroutine, a timer and vanishing clients share two mutexes | one turn per session; every frame once and in order or counted as missed; no channel closed twice; a finished turn's streams end |
| Daemon endpoints `daemon/server/server.go` | none | message, attach, steer, interrupt, answer, approve, rewind, combo, settings, processes | check-then-act over the registry | steering is persisted once, in order |
| Agent loop `daemon/agent` | history, steering queue, retry and verify flags, tool batches | run, run task, drain, call model, run tools, checkpoint | cancellation, retries with salvaged text, parallel tools, budgets | history stays well-formed (every tool call answered), a run ends within budget, mutating tools never overlap |
| Approvals and questions `daemon/agent`, `daemon/tools` | pending maps of one-slot channels | ask, answer, time out | late and duplicate answers | at most one answer takes effect; silence denies |
| Permission `permission` | policy, grants | evaluate, add grant, hide tool | precedence | a hidden tool could never have been allowed |
| Context `daemon/agent/promptcompiler.go`, `daemon/compaction`, `daemon/contextpolicy` | marker, calibration | compile, compact | estimates against a hard limit | the newest messages survive |
| Gateway client `daemon/gatewayclient` | none | call, stream | early close | an unfinished stream is not a success |
| Session store `daemon/store` | SQLite tables | append, list, search, rewind | writers of several turns | append order |
| Background processes `daemon/tools/background.go` | process map, output with cursors | start, output, kill, kill all | start against shutdown, truncation against cursors | no output read twice; none outlives the daemon |
| Gateway executor `server/chat.go` | none (per request: trail) | rank, attempt, peek, commit, gate, answer | commit is irrevocable while the outcome is unknown | one provider speaks; the trail is the truth; only completed requests teach the router |
| Router `router` | combo snapshot, strategy memory (cursor, last-known-good, sticky pins) | rank, record, set strategy | requests overlap with each other and with strategy switches | memory names winners only |
| Circuit breaker `breaker` | per provider: state, failures, openedAt, trialAt | allow, report success, report failure | callers that report late or never | trips on evidence, one trial per cooldown, never wedged |
| Providers `provider` | none | stream, watchdog, repair of tool calls | silent streams | a terminal event or an error |
| MCP `mcp`, `daemon/tools/mcp.go` | per connection: pending calls, transport; manager: clients, supervisors; registry: bound tools | connect, call, dispatch, reconnect, close | disconnect against call, close against reconnect | nothing lives after Close |
| LSP `lsp`, `daemon/tools/lsp.go` | entry per language; per server: open documents, cached diagnostics, waiters, pending calls | find, start, open, wait, call, close | queries share a start, a document and its cache | nobody waits on a dead server; diagnostics are newer than the question |
| Snapshots `snapshot` | shadow git repository, its index and lock | create, list, restore, rewind | writers beside it, restore under a running turn | a checkpoint precedes the first mutation; a rewind is exact and can be undone |
| Credentials, OAuth `credentials`, `localstore` | token files, each holder's copy | load, resolve (refresh), save, login, logout | concurrent refresh, a crash inside a save | what was saved stays |
| kram process `cmd/kram`, `gatewayconfig`, `config` | configuration, results of its two goroutines, context | set up, configure, start, wait, run, leave | parts that never start or never end | a valid configuration starts; the program gets past its waits |
| Terminal UI `cli/app`, `cli/daemonclient` | transcript, stream, prompts, rewind, process panel | keys, results of commands, stream events | results in any order, streams that outlive their use | while it waits, something will tell it of the end |
| Artifacts, telemetry | files, counters | store, evict, count | none that meets another part | see section 6 |

Components call each other synchronously inside a process (agent → tools, executor →
router → breaker); across processes they speak HTTP with server-sent events. Shared
state is behind one mutex per structure (credentials.Store's maps are the exception), so the
interesting behaviour is *between* critical sections: that is the grain of the models' actions.

## 2. Modules

| Module | Models | Reads as |
|---|---|---|
| `Lists` | the part of a list that passes a test, in its order | `Only`, as a function of the length |
| `ListsProof` | lemmas about lists | what the other proofs cite |
| `SessionLane` | abstract promise of the turn registry | `Begin(s, t)`, `End(s)`: a session is held by one turn at a time, a turn holds once |
| `Turns` | turns.go, its handlers, and the part of the agent run that moves a turn | below |
| `TurnsProof` | theorems about `Turns` | |
| `BreakerEntry` | one breaker entry and its operations, as operators | `Admits`/`AllowEntry` are the answer and the effect of Allow |
| `Breaker` | one provider under overlapping callers | `Ask`, `ReportSuccess`, `ReportFailure`, `NoReport`, `Tick` |
| `BreakerProof` | theorems about `Breaker` | |
| `Gateway` | executor, router and all breakers together, for concurrent requests | below |
| `History` | what the model is shown of a session: compaction, emergency prune, injection, repair of tool calls | pure operators on sequences of messages |
| `Transcript` | abstract promise of a session's durable history | `Say`, `Ask`, `Answer`, `Abandon`: it only grows, and results answer the batch before them in order |
| `AgentLoop` | runLoop, run after run in one session, with crashes | below |
| `AgentProof` | theorems about `History` and `AgentLoop` | |
| `GatewayProof` | theorems about `Gateway` | |
| `Permission` | presets, merge of policies, Evaluate, FullyDenied | operators on sequences of rules |
| `Approvals` | a tool call from Execute to its end, with both waits for a human | below |
| `Tui` | the chat screen | below |
| `Background` | background processes and the two polls that follow them | below |
| `Mcp`, `Lsp` | clients, managers and the tools on top | below |
| `Snapshots` | snapshot.Store with writers beside it | below |
| `Credentials` | the token file, its holders and the refresh | below |
| `Kram` | the process from start to exit | below |
| `Streams` | a response through a provider adapter | below |
| `Requests` | a conversation through the four translations | below |
| `Relay` | a model call between gateway, gateway client and agent | below |
| `Parts` | the modules from `Approvals` to `Relay` side by side | `part` says which one runs; the others rest |
| `PartsProof` | theorems about `Parts`: `Kram`, `Credentials`, `Tui`, `Snapshots`, `Approvals`, `Streams` | `OneStep` is what the proofs share |
| `PeersProof` | theorems about `Parts`: `Mcp`, `Lsp`, `Relay`, `Background` | |
| `RequestsProof` | theorem about `Parts`: `Requests` | |
| `MC*` | instances for TLC | |

Definitions marked *Slip* are not part of any specification: each is a plausible
mistake in the code just below it, kept to show that the property named for it in
`PROJECT.json` can fail.

**Turns.** `reg` is `turnRegistry.turns`, `done`/`subs` are the fields of a `turn`, and
`log[t]` with `base[t]` are its frames: `log` keeps every kind ever published and
`base` counts those the replay cap removed. A client is a `Conn` whose handler goes
`opening` (holds the turn) → `streaming` (has subscribed) → `complete` ([DONE]
written) or `left`. `Post` is handleSendMessage up to the start of the goroutine,
`Subscribe`, `WriteReplay`, `WriteLive`, `WriteDone`, `Leave` are streamTurn.
handleSteer is three actions (`SteerCheck`, `QueueSteering`, `SteerPublish`) because
nothing holds a lock across it, and finish is two (`PublishTerminal`, `CloseSubs`)
because it takes the lock twice. The goroutine is `Round`, `Emit`, `Continue`,
`Answer`, `StagnationStop`, `RunFails`. `closes`, `from`, `missed`, `arrived`, `lost`,
`got` are history for the properties. `got` of a client that vanished is dropped.

**Gateway.** A request goes `new` → `trying` → (`peeking` → `streaming`) or `draining`
→ `answered`. `Ask` is one iteration of eligibleCandidates, `Rank` the strategy's
ranking as any permutation its scores, cursors or samples can give (`Declared`, `Rotated`,
`Sampled`, `LedBy`, `Weighted` say which of them each strategy may choose), `Connect` an accepted
provider call, `PeekRejects`/`Commit` the two outcomes of BoundedPeek,
`GateRejects`/`GateAccepts` those of the response gate, `StreamDone`/`StreamBreaks` the
ends of streamResponse. A strategy switch makes a new *instance*: a request ranks with
the instance its combo snapshot holds and records into the latest, as the code does.
`held` keeps the admissions a request has not concluded, including those it never
will. Each provider's entry refines `Breaker` (`BreakerContract`), which is how the
two modules compose.

**AgentLoop.** `hist` is the session's messages in the store. A run's goroutine goes
`head` (`Drain` takes the steering queue and loads the history) → `plan` (`Compacts`,
`Keeps` or `PrunesInEmergency`; the latter two assemble the request, `Ready`) → `call`
(`RoundFails` is one retry of callModelWithRetry) → `answered` or `silenced`, where
steering that came with the answer keeps the run going, or → `batch` (`Begin`: checkpoint
and verify.observe) → `running` (`StartCall`, `FinishCall` are runToolBatch, `StoreResult`
one pass of the loop over outcomes) → `stopping` on stagnation. Token estimates only
decide between keeping, pruning and compacting, so all three are always possible;
PruneForModel shortens old results and changes nothing a message here has. Replies of the
model, and whether a result equals the previous one, are choices. Each tool stands for
its class: `poll` is process_output, the only one that stagnates on purpose; `note` is a
change that is no source edit; `garbled` has arguments that are no JSON object, which
gemini.go does not filter. `Versions` is the content of AGENTS.md, which is taken to exist;
memory follows the same protocol and is not modelled apart. A subagent runs the same loop
in a session of its own. An interrupt is a call that fails. `first`, `seen`, `nudged`,
`dirty`, `undoes` are history for the properties. sanitizeToolHistory runs in the
gateway's adapters, not here: `RequestsWellFormed` applies it to the request, which is how
`AgentLoop` and the adapters meet. It leaves out an assistant message that lost all its
calls and has no text; `Sanitize` keeps it, which changes nothing of well-formedness.
`RunStep` refines, coarsely, what a turn's goroutine does in `Turns`.

**Permission, Approvals.** A rule is the tools its name or glob covers and the subjects its
pattern matches; what the patterns of the instance match is worked out from `Match`, so that
`Evaluate`, `Specificity`, `FullyDenied` and the presets are the code's, over sets. A call's
`phase` goes through Registry.Execute: evaluated, then run, refused or waiting. `pending` is the
two tables (approvals, questions), `slot[w]` the one-slot channel of a wait, `click` a handler
of POST /approve or /answer between its lookup and its send. `file`, `grants` and `adding` are
GrantStore with its read-modify-write, `torn` what a crash makes of the file.

**Tui.** `Update` is the screen's, one message at a time; `cmds` are the commands it has
returned and the results on their way, `stage[s]` one SSE stream from POST to closed body.
`running` and `restoring` are the little of the daemon that a client can notice. Keys are
handled by handlePickerKey and handleKey in their order of precedence (prompts first).

**Background.** The output of a process is a number of bytes, and the buffer is its last
`Retain`. The cursor protocol is outputSince (with UTF-8 boundaries at `Inside`) against
applyProcessSnapshot; `panelGen` and `badgeGen` are the generation numbers that retire a poll,
`polls` those under way. killAll holds the lock (`halting`), a kill is TERM, grace, KILL.

**Mcp.** Clients are numbered in the order they are dialled, since a reconnect makes a new one
and the registry keeps the old (`bound`). `link` is a transport's life as dispatch sees it,
`body` the server process. `supervisor` and `attempt` are reconnect with its backoff,
`manager` the life of Manager up to the return of Close.

**Lsp.** `at[q]` walks a query through ClientFor (shared lazy start), ensureOpen (didOpen, or
didClose and didOpen, each a step) and the wait or the call. `news` and `told` are history:
whether a publication came in after the query dropped the cache, and who was handed one.

**Snapshots.** A tree is what the tracked paths hold; `job[a]` is the operation of the run or of
the rewind between git commands, under `lock` where Store.mu is held. Anyone may write files
in between, at most `MaxWrites` times.

**Credentials.** A token is the number of its refresh token. AtomicWrite is step by step (open,
write, sync, remove, rename) on inodes, with two names; a crash may hit between any two.
`token[h]` is the copy of each holder, the gateway's and the screen's.

**Kram.** `main` is where run() is; `gateway` and `daemon` are its two goroutines from the start
to the result they send. A configuration is its providers, combos and default; the three
providers stand for an API key, a login and a custom endpoint. `built` and `routed` are what
gateway.Run keeps of it.

**Streams.** `wire` holds upstream events, `acc`/`seen`/`made` are the tool calls put together in
each adapter's own way, `offer` the event being sent into the bounded channel `events`.
The watchdog (`fired`) and the caller (`gone`) may cancel at any step.

**Requests.** One conversation is put through sanitizeToolHistory and the four translations.
`History` has the same repair where ids may repeat (what `AgentLoop` needs); here they
differ, and texts, order, system messages and reasoning are kept track of.

**Relay.** The gateway writes numbered texts and one last frame, `[DONE]` behind it; the client's
goroutine (`reader`) sends deltas into a bounded channel under an idle watchdog; streamCall puts
`got` together. It is what `Gateway` calls the sent content, seen from the other side.

## 3. Runs

| Run | Instance | Shows |
|---|---|---|
| `turns_stream` | one turn, two clients, a steering message; replay cap of 3 bytes with 2-byte terminal frames, channel of 1 | `ExactlyOnceInOrder`, `ClosedOnce`, `DoneImpliesTerminal` |
| `turns_sessions` | one session, two turns, two steering messages, clients that only post | `TypeOK`, `ActiveReachable`, `SteeringInOrder`, refinement of `SessionLane` |
| `turns_live` | one turn, one client, one steering message, fairness | `InterruptEnds`, `StreamEnds` |
| `turns_slow` | as turns_stream | *violated*: the done frame does not always arrive (finding 1) |
| `breaker` | four callers, threshold 3, cooldown 3 | `TrippedOnEvidence`, `PacedRecovery`, `NoWedge` |
| `gateway` | two requests of one run, two providers, threshold 1, cooldown 1, one strategy switch | `OneVoice`, `WinnersCompleted`, `TrailTellsAll`, `BreakerContract`, `AnsweredEventually` |
| `gateway_cancel` | the same, declared order | *violated*: a cancelled client trips the breaker (finding 2) |
| `agent_history` | two runs of three turns, two versions of AGENTS.md, one edit | `RequestsWellFormed`, `ContextCurrent`, refinement of `Transcript` |
| `agent_run` | one run of four turns, two gateway rounds, four kinds of batches, a steering message | `VerifiedOrNudged`, `AnswerCoversUsers`, `RewindUndoesRun`, `MutatorsAlone`, `RunsDown`, `RunEnds` |
| `agent_ids` | as agent_history with positional call ids | *violated*: a repaired request holds an unanswered call (finding 3) |
| `agent_context` | as agent_history, one version | *violated*: a request without project context (finding 4) |
| `parts` | the eleven parts, each on its own: see below | `ConsentedCalls`, `WaitingIsServed`, `CopyFaithful`, `CloseIsFinal`, `DiagnosticsAreNews`, `NobodyWaitsOnTheDead`, `SavedStays`, `GatewayTakesItsConfig`, `CallsAsSent`, `SameConversation`, `AnswerAsWritten`, `RewindExact`, `MainMovesOn`, `CallReturns` |

**The run `parts`.** What these parts exchange with each other is small: a tool's result, a
credential, the fact that a run is live. Each module lets it be any value, so checking them
together would multiply their states and add no behaviour of any of them. Init of `Parts` chooses the part
that runs and the others keep their initial state: the run's states are the *sum* of the
parts'. The pairs that do meet are one module each (`Approvals` has the policy and the
handlers; `Background` the screen's polls; `Snapshots` the rewind; `Kram` configuration,
gateway and daemon; `Relay` gateway, client and agent). Per part:

| Part | Instance | Property |
|---|---|---|
| approvals | the recommended preset; a call that may be granted for ever, one that chains commands or asks a question; two starts | `ConsentedCalls`: what the policy does not allow unasked runs only with the user's consent, given for it or for what covers it |
| tui | two streams, two texts | `WaitingIsServed`: while the screen waits, a stream is open or being opened that will tell it of the end |
| background | a process that outruns its buffer by a byte and holds a two-byte character, one that writes nothing and ends at a TERM | `CopyFaithful`: the panel shows one stretch of the output, nothing missing, nothing twice |
| mcp | two servers, one over HTTP; three connections; two attempts | `CloseIsFinal`: once Close returned nothing reconnects and no server runs |
| lsp | two languages, two queries | `DiagnosticsAreNews`, `NobodyWaitsOnTheDead` |
| snapshots | two files, one created later; three snapshots, one foreign write | `RewindExact`: the checkpoint is back, and what was undone is kept |
| credentials | two requests of the gateway, the screen; two tokens | `SavedStays`: through crashes and failed writes |
| kram | one start, four files | `GatewayTakesItsConfig`, `MainMovesOn` |
| streams | two calls (two fragments, none), one text, a channel of one | `CallsAsSent`: an answer that came to its end carries the model's calls, whole |
| requests | five messages, batches of two | `SameConversation`: each provider is sent all of it, each whole call with its result |
| relay | two texts, a channel of one | `AnswerAsWritten`, `CallReturns` |

**Why the bounds suffice.** In turns_stream trimming (base > 0), a full channel, an
attach before, between and after the two halves of finish, and a frame after the
terminal one all occur; a third client would repeat the role of one of the two. The cap
holds the terminal frame and a steering frame after it, as 4 MiB does unless the final
message alone nearly fills it: `DoneImpliesTerminal` would fail for a smaller one. In
turns_sessions the second turn can start before or after the timer of the first, and
steering can straddle the two. `NobodyReads` keeps clients from streaming there, since
nothing of the registry or the queue depends on it. `MaxCalls` is the product of two
tunables and only needs to allow a round after a round. Four callers exceed the
threshold of three, so a trip, a trial and a late report of an earlier caller coexist.
In gateway the second request can only use the second provider, so the capability
filter, a wasted admission and an empty candidate set occur; one failure trips, and
one tick recovers, so trials of both requests overlap. The strategies with memory are
the ones selected (`smart`, `lkgp`); the others only restrict the orders `smart` allows.
Ages saturate at the cooldown and failures at the threshold because the code only
compares them with those values. `CHECK_DEADLOCK` is off in the turn runs, where every
request may be finished, and in the agent runs, where a session may rest; the breaker's
and the gateway's clocks always tick.

The two agent instances split the loop, because together they exceed what TLC can
enumerate: what crosses runs (crashes, cuts, breadcrumbs, orphaned calls) and what one run
decides. Two runs leave one batch orphaned and another answered; three turns give a
compaction, a batch and an answer. In agent_run four turns allow an edit, the gated answer,
a verification and a further answer, and the last turn. The batches hold a parallel
stretch before a change, a verification before a change, and a change that is no source
edit. `StopAt` is 2 instead of 4, so that stagnation is reached within a batch and across
two; `Parallel` is 2 instead of 4, as no batch is longer than three; `MaxCompactions` is 1.
Call ids are distinct unless `Schemes` says otherwise, as most providers' are.

In `parts`, `Few` keeps the sum small. Its conjuncts cut *combinations* of steps that do not
concern each other (a rewind while two streams are in use; a prompt while other commands run;
a second language while the first is queried), never a step: TLC's coverage shows each
disjunct of every part taken. Parts whose temporal or action properties are checked (kram,
relay, snapshots) are not cut at all. `credentials` is cut at `spoilt`: once two writers
overlapped in AtomicWrite, or a crash hit the moment between its remove and its rename, the
code promises nothing (section 4); what is checked is that nothing else loses a token. A
channel of one is full as soon as one of sixteen is; two streams, two queries, two holders are
the pairs whose steps can interleave; three connections are one for each server and a
reconnect; three snapshots are a checkpoint, one by the model and
the one a rewind takes. Five messages hold two batches, a cut one and an answered one, with
room for a system message between them.

**Fairness.** A turn's goroutine is scheduled when it waits for nobody, and also inside
a model or tool call once its context is cancelled (calls take that context); an
uncancelled call may take for ever, since the provider watchdog only bounds silence.
A handler is scheduled and its client reads or goes away. In the gateway a handler is
scheduled and a provider call ends, by the watchdog for a silent stream; that excludes
a stream that sends for ever. Time may stand still there. In the agent loop the goroutine is
scheduled, the gateway answers or fails, and a tool returns: bash, questions,
approvals and MCP calls have timeouts, and a file tool on a dead mount is outside `RunEnds`.
`RunsDown` assumes no fairness. In `Kram` only the main goroutine is scheduled (its health
waits and its grace have deadlines of their own); in `Relay` the client's goroutine, its timer
and the agent are, but the gateway may hang and the connection may stay silent. Nothing is
assumed of users, steering, posts, child processes or providers.

## 4. Findings

1. *A slow subscriber can lose the done frame.* The comment at
   daemon/server/turns.go:33-36 relies on it to make the transcript whole, but finish
   sends it like any frame, and a full channel drops it (`turns_slow`). What holds is
   `DoneImpliesTerminal`: it arrives unless some frame was missed.
2. *A client that leaves during the peek counts against the provider.* BoundedPeek
   reports the cancelled context as an ordinary rejection, and markRejection always
   reports a failure, although openai/failure.go:46-48 says a cancellation is no
   evidence (`gateway_cancel`). Enough impatient users in a row open the breaker of a
   healthy provider.
3. *A reused call id hides an orphaned call.* sanitizeToolHistory looks for the answer to a
   call anywhere in the history, by id, but gemini.go numbers the calls of each response
   from call_1. After a crash in a batch, a result of any other batch with that id keeps
   the placeholder away, and each later request carries an unanswered call (`agent_ids`).
   With distinct ids `RequestsWellFormed` holds whatever crashes and cuts do.
4. *An emergency prune can lose the project context.* Whether the preamble injects it is
   decided on the history before the prune, which may cut the breadcrumb the decision
   relied on (`agent_context`). Unpruned requests always carry it (`ContextCurrent`).

Seen while modelling, not checked by a run; where it matters the models behave like the code.

*Turns, agent, router.* SetStrategy's comment
(router/router.go:87-91) says an in-flight request keeps its snapshot, but RecordOutcome
and StrategyName load the combo again, so a winner ranked by the old strategy teaches
the new one. drainSteering loses the rest of the queue when a write fails
(`DrainFails`), though QueueSteering's comment says a message is never dropped;
`SteeringInOrder` is stated up to `lost`. On the last turn no tools are offered, but calls
the model makes anyway are executed: `graceUsed` (agent.go:932-944) is first set on that
turn, so the branch that would stop is never taken and the run ends in the exhausted error.
Steering, a compaction or an empty reply on the last turn end in that error as well.
compaction.go:44-45 says the newest messages are never summarized away, but a summary
replaces all of the effective history, the message just sent included. streamCall returns
an empty result and no error when a stream closes without its end, dropping what it
streamed (`lost` in `Relay`). An image without text passes the screen's submit and is refused
by handleSendMessage.

*Approvals and policy.* AnswerApproval reports success for an answer that fell out of a full
slot. FullyDenied ignores patterns, so that one denied command can hide a tool. A grant whose
text ends in a star widens to a prefix. Two "always" answers at once can lose one
(GrantStore.Add reads before it appends).

*Screen.* After a steering message in mid-turn the model's words go on into the user's message.
A stale stream's last event can end the next turn's display, and a late interrupt the next
turn. The badge can have two polls or none, though it promises exactly one. Rewind restores
files under a running turn.

*Background.* outputSince may split a character. killAll can miss a process being started.
The program waits for one of two results or two seconds and may leave before killAll ends, so
background processes can outlive it (`Kram`).

*MCP.* Close of the HTTP transport closes the channel a late answer is then sent on
(client.go:44-47 says one broken entry must never stop the daemon). A reconnect never rebinds
the registry's tools. The supervisor never closes a client whose output ended; ClientFor is not
blocked by Close.

*LSP.* A failed first start is cached for ever. Close does not see languages first used
afterwards. Two queries of one file may send didOpen twice; a woken waiter may find nothing,
and a publication of the previous text may be handed on as news of this one.

*Snapshots.* List follows HEAD, so that after a restore newer snapshots are gone from it
(snapshot.go:255 has it list every snapshot ever taken). Restore overwrites an untracked file.
Writes between the diff and the reset go unreported. A failed checkpoint is not logged.

*Credentials, process.* AtomicWrite removes the old file before the rename on every system, so a
crash in between loses both; writers share one temporary name. A token that cannot be saved is
still used. The screen's refresh rotates the gateway's token away. main loads its store before
the wizard saves a login. An unreadable credential file and a login provider keep the gateway
from starting. waitHealthy does not notice a part that already failed. daemon.Run
returns when Shutdown begins, and its store is closed while turns still append.

*Adapters.* Anthropic's adapter hands on a tool call truncated by max_tokens (toolcalls.go:64-68
says truncated JSON must never escape; `CallsAsSent` is stated of answers that came to their
end). A clean end of file without a terminal event, and anthropic's and the responses API's
error events, count as Done, as does a context that ends during the callback's send. The last
send into `events` has no way out when the reader left. The placeholders sanitizeToolHistory
adds carry no name for gemini.

## 5. Proofs

Assumptions are the named ASSUMEs on the constants: `None` is no turn or session, frame
sizes are positive, bounds are naturals; threshold and cooldown are positive; batches are
non-empty sequences of calls; the parts' constants have the types their modules name
(`PartsAssumption`); switches are a natural number (`SwitchAssumption`). They are
evaluated by the runs. Everything is proved for any number of sessions, turns, clients,
steering messages, callers, and any bound. Two theorems state a hypothesis of their own, `RoomForEnd` (`DoneShowsTheEnd`) and
distinct call ids (`RequestsAreWellFormed`): the property is false without it, as said below.

**Induction over data.** The library's induction theorems take the predicate as an operator,
which the provers cannot instantiate, but a predicate over the naturals is a subset of them:
`Climb` (`ListsProof`) says that a set holding a number, and with each number the next, holds
all from there on, and `ListClimb` the same of sequences and Append. From them follow the lemmas on
what recursive functions compute: `Bytes`, the folds of `Permission`, `Only`, and the walk of
sanitizeToolHistory.

- **Turns** (`TurnsProof`). `ActiveReachable` is not inductive: that a retiring timer
  spares a running turn needs that a turn's `pc` and `done` agree, and that a registered
  turn belongs to its session. The inductive invariant is
  `IInv == TypeOK /\ Registry /\ Handlers`, where `Registry` ties `reg`, `sess`, `pc` and
  `done` together and `Handlers` says a handler holds a turn that was born. One lemma
  per family of actions (`MoveRegistry`, `RegistryActions`, `GoroutineMoves`) keeps the
  step short. From it follow `TypeCorrect`, `RunningTurnReachable` and, step by step with
  stuttering, `OneTurnPerSession`: `Turns` implements `SessionLane`.
  `ChannelsNeverPanic` needs in addition that a subscribed channel is open and belongs to
  the turn its handler holds (`Channels`). Trimming is a lemma of its own
  (`TrimInLog`): the CHOOSE in `Trim` has a least value. `FramesOnceInOrder`: a connected
  client is a subscriber until its turn is done, so every frame published goes to its channel
  or to `missed` (`Streams`); `Whole` says what a stream of a log of n frames is, with one
  lemma for the replay, one for a frame sent, one for a frame missed and one for writing
  (`StreamMoves`). `SteeringInOrder`: a message is pending, arrived or lost and only one of them, once;
  what one drain loses is the end of the queue, so that what arrived is what was accepted
  with the lost taken out (`OnlyWithoutEnd`). `DoneImpliesTerminal` is not true of every cap: steering
  frames published after the terminal one push it out of the replay if they are large enough, and
  a client that attaches then sees [DONE] alone. `RoomForEnd` asks for room for a terminal frame and
  one steered frame per steering request; under it the bytes behind the terminal frame
  stay below the cap (`EndHeld`, with lemmas on `Bytes`).
- **Breaker** (`BreakerProof`). `TrippedOnEvidence` and `PacedRecovery` need what each
  state's fields mean (`Clocks`): the counter is the evidence while closed and stays at
  the threshold otherwise; openedAt, while open, and trialAt, while half-open, are the
  time of the last admission or failure.

- **History** (`AgentProof`). `SanitizedAreWellFormed`: whatever history goes into
  sanitizeToolHistory, if its batches have ids of their own, what comes out has each call answered
  right behind it and each result behind its call. A place of the result is opened by an assistant
  message, stands behind it, or is due (`Opened`, `Behind`, `Due`); `Flattened` is the concatenation
  the code builds with append, as a function of the places.
- **AgentLoop** (`AgentProof`). `RewindUndoesRun` needs that a batch which changes something
  runs only once the checkpoint was taken, and so that the workspace was untouched then
  (`Checkpoints`). `MutatorsAlone` needs that whatever is started waited for everything
  before it outside its own read-only stretch, and that nothing is started outside a batch
  (`Stretches`). One lemma (`ElsewhereKeeps`) covers the actions that leave both alone.
  `AnswerCoversUsers` holds only after an answer; inductive is that from the request on no
  message behind `seen` is a user's (`Covered`). `RunsDown` and the refinement of `Transcript`
  are proved step by step from `Types` and `Batching` (a batch's calls start, finish and are
  stored within it, and one result is missing while it runs): `Phase` and `Effort` are the
  measure, with lemmas on the cardinality of started and finished calls; a result appended is
  the head of the ids `Owed`. `RequestsWellFormed` is proved for distinct call ids, as most
  providers give them; for positional ones `agent_ids` refutes it. It comes from `KeepsTranscript`:
  a history that grew as `Transcript` allows has batches numbered in order and their results in
  line (`Numbered`, `Lined`), and a compaction, a prune or an injection keeps that. `ContextCurrent`
  (requests no prune has touched) needs that the breadcrumb in the history is the one shown last
  (`Shown`); `VerifiedOrNudged` that edits not yet verified are the loop's `dirty` until the
  gate has spoken.
- **Gateway** (`GatewayProof`). `OneVoice`, `TrailTellsAll` and `WinnersCompleted` relate the trail
  to the ranking, the reply and the router's memory. The inductive invariant ties them at every
  stage of a request: who was ranked had been admitted and can serve it (`Candidates`), the trail
  follows the ranking and only its end can have succeeded (`Follows`, `Outcome`), and what was
  heard is the candidate in hand or the last in the trail (`Heard`). `BreakerContract`,
  that each provider's entry under all requests implements `Breaker`, needs in addition that the
  candidate a request reports on is one it still holds.
- **Kram, Credentials, Tui, Snapshots, Approvals, Streams** (`PartsProof`, over `Parts`). `OneStep`: a step of
  `Parts` is one of the part that runs, and leaves the others' variables alone.
  `ConfigTaken`: whatever is held, found, detected or reconciled is a configuration
  (`ConfigsHeld`), and the router refuses what is left after sanitising only for an unknown
  strategy (`OnlyUnknownRefused`).
  `LastSaveStays`: writers take turns at the temporary file until two saves overlap
  (`TakingTurns`), and between a removal and its rename alone there is no file (`Kept`).
  `ScreenIsServed` needs that a screen that interrupts does not wait. `RewindsExactly`: who
  creates or restores holds the lock (`Locked`), and from its capture on the files of a rewind
  nobody disturbed are in some commit and its index (`Captured`), so that resetting to the
  target leaves none behind. `ConsentedCalls`: the evaluator's rules are the policy's followed by
  grants, and every grant was given with an "always"; a rule that decides a call against the policy is
  therefore a grant, because the last of the most specific rules decides and there is one such.
  `CallsAsSent`: between the wire and a finished answer are a reader with its accumulators, a
  channel and a collector. `Flows` says that a sequence of accumulator states leads over the events of
  the wire to what was sent; `Honest` that every Done offered, on its way or held
  carries that, unless the answer was cut. After a stop or the end of the stream the
  accumulators change no more (`EndIsSteady`).
- **Mcp, Lsp, Relay, Background** (`PeersProof`, over `Parts` with `PartsProof`).
  `CloseIsFinal` needs which transports a manager that is closing can still have, and
  that a supervisor dials only while it is not. `NobodyWaitsOnTheDead`
  needs that calls are registered only on a connection whose loop has not ended;
  `DiagnosticsAreNews` that whatever is cached, or in a waiter's hand, came after the drop.
  `AnswerAsWritten` accounts for every text: until one side stops, each text written is in
  `got`, in the channel, in the client's hand or on the wire, in its order and counted
  (`OnTheWire`, `InTheChannel`, `Received`); capacity and number of texts are any.
  `CopyFaithful`: at most one poll of the panel is on its way whose answer the panel would
  take, its cursor is the panel's own, and what a poll brings goes on from its cursor or, where the
  buffer has moved past it, starts anew (`GoesOn`, `Stretch`).
- **Requests** (`RequestsProof`, over `Parts`). `EveryProviderIsTold` proves `SameConversation` for
  every length and batch. The inductive invariant, `Conversed`, says what a
  message at each place can be: a call's id is its place in its batch, and a result stands in the
  block behind the message it answers (`Tells`, `Replies`). Each request is a list of lists, one for each
  message (`Piece`): sanitizing a message and translating what comes out of it gives its piece
  (`SanitizedSays`, and a lemma for each translation), so what is said of one message is said of
  the request by lemmas on lists of lists (`ListsProof`:
  `EachOfEach`, `OnlyOfEach`, `MapOfEach`, `OnlyOfMap`). For the pairing the pieces are laid out at their offsets (`Layout`): a call's
  result is a later item of its own piece, where the repair put it, or the piece of a later
  message of the same block, with only calls and results in between (`AllPaired`). Each item
  occurs once (`AllOnce`) and each result has its call, so there are as many of one as of the other
  (`SameCount`). Gemini's items are the same without the ids of results (`Strip`).

Model-checked only: the liveness properties (`InterruptEnds`, `StreamEnds`, `NoWedge`, `RunEnds`,
`AnsweredEventually`, `MainMovesOn`, `CallReturns`), since fairness and ENABLED are outside the
prover. Every safety property a passing run checks is a theorem.

What the proofs taught about the models. `Responds` (`Streams`) chose between overlapping
cases, so that a second stop of a call could have been read as a first: TLC takes the first that
holds, a proof may not, and the cases are exclusive now. `Steered` messages, and what
`Requests` takes of a list, were selected by SelectSeq, a RECURSIVE operator; `Only` is a
recursive function of the length instead.

## 6. Not modelled

The artifact store (each spilled output is a file of its own under one mutex; only its text
depends on it) and telemetry (counters that only feed scores, which `Gateway` leaves arbitrary).
Of modelled components: the text of messages, prompts and frames; score arithmetic; the thresholds
of the context policy; wire formats beyond the order of events; SQLite beyond an atomic append,
with search, memory and usage; what a single tool does; rendering, pickers and the pages of the
wizard; the browser's half of a login; headers, prices, images, tool schemas; session and
settings endpoints; the daemon's wiring between its start and its end. `PROJECT.json` says for
each component that is `partly` modelled what is missing.

## 7. Plan

What is left, most valuable first:

1. Store: two turns of different sessions and the memory and search tables, if they come to share
   more than SQLite's own lock.
2. Screen: pickers and the accounts screen as a second consumer of `Credentials`.
3. The daemon's own shutdown order (server, turns, store) as a module between `Turns` and `Kram`.
