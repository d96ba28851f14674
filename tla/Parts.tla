------------------------------- MODULE Parts -------------------------------
(***************************************************************************)
(* The parts of the program beside a turn and a model call, each with a    *)
(* state of its own: what they exchange is small (a tool's result, a       *)
(* credential) and is a choice inside each module.  A behaviour is one of  *)
(* one part, which Init chooses; the others stay in their initial states,  *)
(* so a run checks the sum of the parts and not their product.             *)
(***************************************************************************)
EXTENDS Naturals, Sequences, FiniteSets

CONSTANTS
  Chosen,                                                  \* the parts to run
  Tools, Subjects, Chained, Blank, Widens, Begins,         \* Permission
  Calls, Clicks, Globals, Projects, Asked, DaemonStarts,   \* Approvals
  MaxStreams, TypedTexts,                                  \* Tui
  Procs, Stubborn, Retain, Chunk, LocalMax, MaxOut, Inside, MaxGen,  \* Background
  Servers, Http, MaxClients, MaxAttempts, ToolCalls,       \* Mcp
  Languages, Queries,                                      \* Lsp
  Contents, Workspace, MaxSnapshots, MaxWrites,            \* Snapshots
  Requests, HolderOf, MaxTokens,                           \* Credentials
  Files, ProgramStarts,                                    \* Kram
  StreamCalls, Size, MaxTexts, Buffer,                     \* Streams
  MaxMessages, MaxBatch,                                   \* Requests
  RelayTexts, Capacity                                     \* Relay

VARIABLES
  part,   \* the part that runs
  \* Approvals
  rules, default, policy, grants, grantFile, torn, adding, disabled, phase, tool, subject,
  live, pending, slot, click, heard, always, daemonStarts,
  \* Tui
  screen, messages, waiting, activeStream, interrupting, prompts, rewindArmed, rewindBusy,
  stage, turnOf, closed, cmds, typed, running, restoring,
  \* Background
  started, group, table, total, victims, halting, panel, panelGen, badgeGen, selected,
  logs, cursors, polls,
  \* Mcp
  dialled, server, transport, body, closing, late, clients, supervisor, attempt, manager,
  bound, request, through, panicked,
  \* Lsp
  entry, alive, dead, docOpen, serverOpen, cached, waiters, pendingCalls, stop, stopping,
  unseen, queryAt, lang, queryKind, wasOpen, news, told,
  \* Snapshots
  files, index, commits, head, lock, job, checkpointed, offered, writes, disturbed,
  \* Credentials
  token, fresh, issued, writerAt, value, fd, data, path, tmp, saved, spoilt,
  \* Kram
  main, starts, keys, login, custom, readable, env, copy, file, cfg, gateway, built, routed,
  daemon, background, results, cancelled, wizardUsed,
  \* Streams
  adapter, link, wire, texts, sent, block, finished, reader, offer, acc, seen, made,
  upstreamErr, events, fired, gone, result,
  \* Requests
  conversation,
  \* Relay
  relaying, wrote, lastFrame, trail, frames, connection, goroutine, sending, deltas, watchdog,
  runGone, got, callResult, outcome

A == INSTANCE Approvals WITH file <- grantFile, starts <- daemonStarts, MaxStarts <- DaemonStarts
T == INSTANCE Tui WITH texts <- typed, MaxTexts <- TypedTexts
B == INSTANCE Background
M == INSTANCE Mcp WITH link <- transport, Requests <- ToolCalls
L == INSTANCE Lsp WITH at <- queryAt, kind <- queryKind
S == INSTANCE Snapshots
C == INSTANCE Credentials WITH at <- writerAt
K == INSTANCE Kram WITH MaxStarts <- ProgramStarts
P == INSTANCE Streams WITH kind <- adapter, Calls <- StreamCalls
Q == INSTANCE Requests WITH history <- conversation
R == INSTANCE Relay WITH gateway <- relaying, last <- lastFrame, wire <- frames,
       link <- connection, reader <- goroutine, offer <- sending, fired <- watchdog,
       gone <- runGone, result <- callResult, MaxTexts <- RelayTexts

ASSUME PartsAssumption ==
  /\ Chosen \subseteq {"approvals", "tui", "background", "mcp", "lsp", "snapshots",
                       "credentials", "kram", "streams", "requests", "relay"}
  /\ A!ApprovalsAssumption /\ T!TuiAssumption /\ B!BackgroundAssumption
  /\ M!McpAssumption /\ C!CredentialsAssumption /\ K!KramAssumption
  /\ S!SnapshotsAssumption /\ P!StreamsAssumption /\ Q!RequestsAssumption

approvalVars == <<rules, default, policy, grants, grantFile, torn, adding, disabled,
                  phase, tool, subject, live, pending, slot, click, heard, always,
                  daemonStarts>>
tuiVars == <<screen, messages, waiting, activeStream, interrupting, prompts,
             rewindArmed, rewindBusy, stage, turnOf, closed, cmds, typed, running,
             restoring>>
backgroundVars == <<started, group, table, total, victims, halting, panel, panelGen,
                    badgeGen, selected, logs, cursors, polls>>
mcpVars == <<dialled, server, transport, body, closing, late, clients, supervisor,
             attempt, manager, bound, request, through, panicked>>
lspVars == <<entry, alive, dead, docOpen, serverOpen, cached, waiters, pendingCalls,
             stop, stopping, unseen, queryAt, lang, queryKind, wasOpen, news, told>>
snapshotVars == <<files, index, commits, head, lock, job, checkpointed, offered, writes,
                  disturbed>>
credVars == <<token, fresh, issued, writerAt, value, fd, data, path, tmp, saved, spoilt>>
kramVars == <<main, starts, keys, login, custom, readable, env, copy, file, cfg,
              gateway, built, routed, daemon, background, results, cancelled, wizardUsed>>
streamVars == <<adapter, link, wire, texts, sent, block, finished, reader, offer, acc,
                seen, made, upstreamErr, events, fired, gone, result>>
relayVars == <<relaying, wrote, lastFrame, trail, frames, connection, goroutine, sending,
               deltas, watchdog, runGone, got, callResult, outcome>>
partsVars == <<part, approvalVars, tuiVars, backgroundVars, mcpVars, lspVars,
               snapshotVars, credVars, kramVars, streamVars, conversation,
               relayVars>>

Init ==
  /\ part \in Chosen
  /\ A!Init /\ T!Init /\ B!Init /\ M!Init /\ L!Init /\ S!Init /\ C!Init /\ K!Init /\ P!Init
  /\ Q!Init /\ R!Init
  /\ part # "streams" => adapter = "gemini"

\* Only the part that runs changes its state.
OnlyIts ==
  /\ UNCHANGED part
  /\ IF part = "approvals" THEN TRUE ELSE UNCHANGED approvalVars
  /\ IF part = "tui" THEN TRUE ELSE UNCHANGED tuiVars
  /\ IF part = "background" THEN TRUE ELSE UNCHANGED backgroundVars
  /\ IF part = "mcp" THEN TRUE ELSE UNCHANGED mcpVars
  /\ IF part = "lsp" THEN TRUE ELSE UNCHANGED lspVars
  /\ IF part = "snapshots" THEN TRUE ELSE UNCHANGED snapshotVars
  /\ IF part = "credentials" THEN TRUE ELSE UNCHANGED credVars
  /\ IF part = "kram" THEN TRUE ELSE UNCHANGED kramVars
  /\ IF part = "streams" THEN TRUE ELSE UNCHANGED streamVars
  /\ IF part = "requests" THEN TRUE ELSE UNCHANGED conversation
  /\ IF part = "relay" THEN TRUE ELSE UNCHANGED relayVars

Next ==
  \/ part = "approvals" /\ A!Next /\ OnlyIts
  \/ part = "tui" /\ T!Next /\ OnlyIts
  \/ part = "background" /\ B!Next /\ OnlyIts
  \/ part = "mcp" /\ M!Next /\ OnlyIts
  \/ part = "lsp" /\ L!Next /\ OnlyIts
  \/ part = "snapshots" /\ S!Next /\ OnlyIts
  \/ part = "credentials" /\ C!Next /\ OnlyIts
  \/ part = "kram" /\ K!Next /\ OnlyIts
  \/ part = "streams" /\ P!Next /\ OnlyIts
  \/ part = "requests" /\ Q!Next /\ OnlyIts
  \/ part = "relay" /\ R!Next /\ OnlyIts

MainStep == part = "kram" /\ K!MainStep /\ OnlyIts
Goroutines == part = "relay" /\ R!Goroutines /\ OnlyIts

\* The fairness of Kram and of Relay: the main goroutine is scheduled, and so are
\* those of a model call.
Spec == Init /\ [][Next]_partsVars /\ WF_partsVars(MainStep) /\ WF_partsVars(Goroutines)

-----------------------------------------------------------------------------

\* A call that the policy does not allow unasked runs only if the user agreed
\* to it or to one it is covered by (Approvals: Registry.Execute).
ConsentedCalls == part = "approvals" => A!ConsentedCalls

\* While the chat screen waits for a turn, a stream is open or being opened that
\* will tell it of the end (Tui: handleStreamEvent).
WaitingIsServed == part = "tui" => T!WaitingIsServed

\* The process panel shows one stretch of what a process wrote, nothing missing
\* and nothing twice (Background: outputSince, applyProcessSnapshot).
CopyFaithful == part = "background" => B!CopyFaithful

\* Nothing reconnects and no client's server runs once the MCP manager's Close
\* returned (Mcp: Manager.Close, reconnect).
CloseIsFinal == part = "mcp" => M!CloseIsFinal

\* Diagnostics handed to the model came in after the query dropped the cached
\* ones (Lsp: ensureOpen).
DiagnosticsAreNews == part = "lsp" => L!DiagnosticsAreNews

\* No call waits on a language server connection that ended (Lsp: call, shutdown).
NobodyWaitsOnTheDead == part = "lsp" => L!NobodyWaitsOnTheDead

\* A rewind brings back the checkpoint exactly and loses nothing of what it
\* undoes (Snapshots: Service.Rewind).
RewindExact == S!RewindExact

\* What was saved last stays in the credential file, through crashes and failed
\* writes (Credentials: localstore.AtomicWrite).
SavedStays == part = "credentials" => C!SavedStays

\* A valid configuration never keeps the gateway from starting, whatever became
\* of the accounts since (Kram: gateway.Run).
GatewayTakesItsConfig == part = "kram" => K!GatewayTakesItsConfig

\* The program gets past its waits whether or not its gateway and its daemon
\* answer or return (Kram: kramWaitHealthy, run).
MainMovesOn == K!MainMovesOn

\* An answer that came to its end is handed on with exactly the tool calls the
\* model made, whole (Streams: toolcalls.go, the adapters' loops).
CallsAsSent == part = "streams" => P!CallsAsSent

\* Every provider is sent the whole conversation, each whole call with its result
\* behind it (Requests: sanitizeToolHistory and the four translations).
SameConversation == part = "requests" => Q!SameConversation

\* The agent has the answer as the gateway wrote it, takes no cut one for whole,
\* and knows a failure worth a retry (Relay: ChatCompletionStream, streamCall).
AnswerAsWritten == part = "relay" => R!AnswerAsWritten

\* A model call comes back though its gateway hangs or leaves, or the run is
\* interrupted (Relay: the idle watchdog of ChatCompletionStream).
CallReturns == R!CallReturns
=============================================================================
