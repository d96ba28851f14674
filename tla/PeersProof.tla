----------------------------- MODULE PeersProof -----------------------------
(***************************************************************************)
(* The processes the daemon deals with.  MCP servers: once Close returned, *)
(* nothing reconnects and no client's server runs.  Language servers: no   *)
(* call waits on a connection that ended, and diagnostics handed to the    *)
(* model came in after the query dropped the cached ones.  The gateway: the*)
(* agent has what it wrote.  Background processes: the panel's copy of     *)
(* their output is one stretch of it.                                      *)
(***************************************************************************)
EXTENDS PartsProof

(* The MCP manager *)

Links == {"none", "dialing", "up", "down", "ended"}
Supervisors == {"off", "watching", "sleeping", "dialing"}

McpTypes ==
  /\ dialled \in 0..MaxClients
  /\ server \in [M!Clients -> Servers \cup {M!NoClient}]
  /\ transport \in [M!Clients -> Links]
  /\ body \subseteq M!Clients /\ closing \subseteq M!Clients
  /\ clients \in [Servers -> M!Clients \cup {M!NoClient}]
  /\ supervisor \in [Servers -> Supervisors]
  /\ manager \in {"connecting", "up", "cancelled", "closed"}

\* A connection is used only once it was dialled, and is of the server dialled.
Dialled ==
  /\ \A c \in M!Clients : transport[c] # "none" <=> c <= dialled
  /\ \A c \in M!Clients : transport[c] # "none" => server[c] \in Servers
  /\ \A c \in body \cup closing : transport[c] # "none"
  /\ \A c \in body : c \notin closing

\* Who dials is connectAll or the server's supervisor, one connection at a time,
\* while the manager has no client of the server.
OneDials ==
  /\ \A c \in M!Clients : transport[c] = "dialing" =>
       /\ clients[server[c]] = M!NoClient
       /\ \/ supervisor[server[c]] = "dialing"
          \/ supervisor[server[c]] = "off" /\ manager = "connecting"
  /\ \A c, d \in M!Clients :
       transport[c] = "dialing" /\ transport[d] = "dialing" /\ server[c] = server[d] => c = d
  /\ \A s \in Servers :
       /\ supervisor[s] \in {"sleeping", "dialing"} => clients[s] = M!NoClient
       /\ supervisor[s] # "off" => ~M!Untried(s)

\* The manager has every client whose connection is up.
Owned ==
  /\ \A c \in M!Clients : transport[c] = "up" => clients[server[c]] = c
  /\ \A s \in Servers : clients[s] # M!NoClient =>
       server[clients[s]] = s /\ transport[clients[s]] # "none"

McpInv == McpTypes /\ Dialled /\ OneDials /\ Owned /\ CloseIsFinal

\* The manager's, the supervisors' and the connections' steps preserve it; a call
\* leaves all of it alone.
LEMMA McpStep ==
  ASSUME part = "mcp", part' = part, McpInv, M!Next
  PROVE  McpInv'
<1>. USE PartsAssumption DEF M!McpAssumption, McpInv, McpTypes, Dialled, OneDials, Owned,
             CloseIsFinal, M!CloseIsFinal, Links, Supervisors, M!Clients, M!NoClient,
             M!Dialing, M!links, M!managerVars, M!requestVars
<1>0. \A t \in Servers : UNCHANGED <<dialled, server>> => M!Untried(t)' = M!Untried(t)
  BY DEF M!Untried
<1>10. CASE UNCHANGED <<dialled, server, transport, body, closing, clients, supervisor, manager>>
  BY <1>10, <1>0
<1>1. ASSUME NEW s \in Servers, M!connectAll(s)
      PROVE  McpInv'
  <2>1. CASE M!Untried(s) /\ M!Dial(s) /\ UNCHANGED <<clients, supervisor>>
    <3>1. manager = "connecting" /\ manager' = manager
      BY <1>1 DEF M!connectAll
    <3>2. /\ supervisor[s] = "off" /\ clients[s] = M!NoClient
          /\ \A c \in M!Clients : transport[c] = "dialing" => server[c] # s
      BY <2>1 DEF M!Untried
    <3>3. McpTypes'
      BY <2>1, <3>1, <3>2 DEF M!Dial
    <3>4. Dialled'
      BY <2>1, <3>1, <3>2 DEF M!Dial
    <3>5. OneDials'
      <4>1. \A c \in M!Clients : transport'[c] = "dialing" =>
              c = dialled' \/ (transport[c] = "dialing" /\ server[c] # s /\ server'[c] = server[c])
        BY <2>1, <3>2 DEF M!Dial
      <4>2. server'[dialled'] = s
        BY <2>1 DEF M!Dial
      <4>3. \A t \in Servers : ~M!Untried(t) => ~M!Untried(t)'
        BY <2>1 DEF M!Dial, M!Untried
      <4>. QED  BY <2>1, <3>1, <3>2, <4>1, <4>2, <4>3 DEF M!Dial
    <3>6. Owned'
      BY <2>1, <3>1, <3>2 DEF M!Dial
    <3>7. CloseIsFinal'
      BY <2>1, <3>1, <3>2 DEF M!Dial
    <3>. QED  BY <3>3, <3>4, <3>5, <3>6, <3>7
  <2>2. ASSUME NEW c \in M!Dialing(s) \cap M!FirstDials, M!Connected(c),
               clients' = [clients EXCEPT ![s] = c],
               supervisor' = [supervisor EXCEPT ![s] = "watching"]
        PROVE  McpInv'
    <3>1. /\ c \in M!Clients /\ server[c] = s /\ transport[c] = "dialing"
          /\ supervisor[s] = "off" /\ manager = "connecting" /\ manager' = manager
          /\ ~M!Untried(s)
      BY <1>1, <2>2 DEF M!connectAll, M!FirstDials, M!Untried
    <3>. QED  BY <2>2, <3>1, <1>0 DEF M!Connected
  <2>3. ASSUME NEW c \in M!Dialing(s) \cap M!FirstDials, M!ConnectFailed(c),
               UNCHANGED <<clients, supervisor>>
        PROVE  McpInv'
    BY <1>1, <2>3, <1>0 DEF M!connectAll, M!ConnectFailed, M!Close
  <2>. QED  BY <1>1, <2>1, <2>2, <2>3 DEF M!connectAll
<1>2. CASE M!RegisterMCP
  BY <1>2, <1>0 DEF M!RegisterMCP, M!FirstDials
<1>3. ASSUME NEW c \in M!Clients, M!ServerDies(c)
      PROVE  McpInv'
  BY <1>3, <1>0 DEF M!ServerDies
<1>4. ASSUME NEW c \in M!Clients, M!DispatchEnds(c)
      PROVE  McpInv'
  BY <1>4, <1>0 DEF M!DispatchEnds
<1>5. ASSUME NEW s \in Servers, M!superviseServer(s)
      PROVE  McpInv'
  <2>1. McpTypes'
    BY <1>5 DEF M!superviseServer
  <2>2. Dialled'
    BY <1>5 DEF M!superviseServer
  <2>3. OneDials'
    BY <1>5, <1>0 DEF M!superviseServer
  <2>4. Owned'
    BY <1>5 DEF M!superviseServer
  <2>5. CloseIsFinal'
    BY <1>5 DEF M!superviseServer
  <2>. QED  BY <2>1, <2>2, <2>3, <2>4, <2>5
<1>6. ASSUME NEW s \in Servers, M!SleepOver(s)
      PROVE  McpInv'
  <2>1. CASE M!Cancelled
    <3>1. /\ UNCHANGED <<dialled, server, transport, body, closing, clients, manager>>
          /\ supervisor[s] = "sleeping"
          /\ supervisor' = [supervisor EXCEPT ![s] = "off"]
      BY <1>6, <2>1 DEF M!SleepOver, M!Cancelled
    <3>. QED  BY <3>1, <1>0
  <2>2. CASE M!Dial(s) /\ supervisor' = [supervisor EXCEPT ![s] = "dialing"]
    <3>1. manager # "closed" /\ UNCHANGED <<clients, manager>> /\ supervisor[s] = "sleeping"
      BY <1>6 DEF M!SleepOver
    <3>2. /\ clients[s] = M!NoClient
          /\ \A c \in M!Clients : transport[c] = "dialing" => server[c] # s
      BY <3>1
    <3>3. McpTypes'
      BY <2>2, <3>1, <3>2 DEF M!Dial
    <3>4. Dialled'
      BY <2>2, <3>1, <3>2 DEF M!Dial
    <3>5. OneDials'
      <4>1. \A c \in M!Clients : transport'[c] = "dialing" =>
              c = dialled' \/ (transport[c] = "dialing" /\ server[c] # s /\ server'[c] = server[c])
        BY <2>2, <3>2 DEF M!Dial
      <4>2. server'[dialled'] = s
        BY <2>2 DEF M!Dial
      <4>3. \A t \in Servers : ~M!Untried(t) => ~M!Untried(t)'
        BY <2>2 DEF M!Dial, M!Untried
      <4>. QED  BY <2>2, <3>1, <3>2, <4>1, <4>2, <4>3 DEF M!Dial
    <3>6. Owned'
      BY <2>2, <3>1, <3>2 DEF M!Dial
    <3>7. CloseIsFinal'
      BY <2>2, <3>1, <3>2 DEF M!Dial
    <3>. QED  BY <3>3, <3>4, <3>5, <3>6, <3>7
  <2>. QED  BY <1>6, <2>1, <2>2 DEF M!SleepOver
<1>7. ASSUME NEW s \in Servers, M!reconnect(s)
      PROVE  McpInv'
  <2>1. ASSUME NEW c \in M!Dialing(s), M!Connected(c),
               clients' = [clients EXCEPT ![s] = c],
               supervisor' = [supervisor EXCEPT ![s] = "watching"]
        PROVE  McpInv'
    BY <1>7, <2>1, <1>0 DEF M!reconnect, M!Connected
  <2>2. ASSUME NEW c \in M!Dialing(s), M!ConnectFailed(c), UNCHANGED clients,
               supervisor' = [supervisor EXCEPT ![s] = "off"]
                 \/ supervisor' = [supervisor EXCEPT ![s] = "sleeping"]
        PROVE  McpInv'
    <3>1. McpTypes'
      <4>1. c \in M!Clients /\ UNCHANGED manager
        BY <1>7, <2>2 DEF M!reconnect
      <4>. QED  BY <2>2, <4>1 DEF M!ConnectFailed, M!Close
    <3>2. Dialled'
      BY <1>7, <2>2 DEF M!reconnect, M!ConnectFailed, M!Close
    <3>3. OneDials'
      BY <1>7, <2>2, <1>0 DEF M!reconnect, M!ConnectFailed, M!Close
    <3>4. Owned'
      BY <1>7, <2>2 DEF M!reconnect, M!ConnectFailed, M!Close
    <3>5. CloseIsFinal'
      BY <1>7, <2>2 DEF M!reconnect, M!ConnectFailed, M!Close
    <3>. QED  BY <3>1, <3>2, <3>3, <3>4, <3>5
  <2>. QED  BY <1>7, <2>1, <2>2 DEF M!reconnect
<1>8. CASE M!CancelAll
  BY <1>8, <1>0 DEF M!CancelAll
<1>9. CASE M!CloseAll
  <2>1. McpTypes'
    <3>1. M!ClientsOf \subseteq M!Clients
      BY DEF M!ClientsOf
    <3>2. transport' \in [M!Clients -> Links]
      BY <1>9 DEF M!CloseAll
    <3>. QED  BY <1>9, <3>1, <3>2 DEF M!CloseAll
  <2>6. /\ \A c \in M!Clients : transport'[c] # "none" <=> transport[c] # "none"
        /\ UNCHANGED <<dialled, server>>
    BY <1>9 DEF M!CloseAll
  <2>7. body' \subseteq body /\ closing' = closing \cup M!ClientsOf /\ body' \cap M!ClientsOf = {}
    BY <1>9 DEF M!CloseAll
  <2>8. \A c \in M!ClientsOf : c \in M!Clients /\ transport[c] # "none"
    BY DEF M!ClientsOf
  <2>2. Dialled'
    <3>1. /\ \A c \in M!Clients : transport'[c] # "none" <=> c <= dialled'
          /\ \A c \in M!Clients : transport'[c] # "none" => server'[c] \in Servers
      BY <2>6
    <3>2. \A c \in body' \cup closing' : transport'[c] # "none"
      BY <2>6, <2>7, <2>8
    <3>3. \A c \in body' : c \notin closing'
      BY <2>7
    <3>. QED  BY <3>1, <3>2, <3>3
  <2>3. OneDials'
    BY <1>9 DEF M!CloseAll, M!ClientsOf
  <2>4. Owned'
    BY <1>9 DEF M!CloseAll, M!ClientsOf
  <2>5. CloseIsFinal'
    BY <1>9 DEF M!CloseAll, M!ClientsOf
  <2>. QED  BY <2>1, <2>2, <2>3, <2>4, <2>5
<1>. QED
  BY <1>10, <1>1, <1>2, <1>3, <1>4, <1>5, <1>6, <1>7, <1>8, <1>9
  DEF M!Next, M!readResponse, M!call, M!Answer, M!TimeOut

\* In every state of the MCP servers the invariant holds.
LEMMA McpInvariance == Spec => [](part = "mcp" => McpInv)
<1>1. Init => (part = "mcp" => McpInv)
  BY PartsAssumption DEF Init, M!Init, M!McpAssumption, McpInv, McpTypes, Dialled, OneDials,
     Owned, CloseIsFinal, M!CloseIsFinal, Links, Supervisors, M!Clients, M!NoClient, M!Dialing
<1>2. (part = "mcp" => McpInv) /\ [Next]_partsVars => (part = "mcp" => McpInv)'
  <2>1. CASE UNCHANGED mcpVars
    BY <2>1, OneStep DEF mcpVars, McpInv, McpTypes, Dialled, OneDials, Owned, CloseIsFinal,
       M!CloseIsFinal, M!Dialing, M!Untried
  <2>. QED  BY <2>1, OneStep, McpStep
<1>. QED  BY <1>1, <1>2, PTL DEF Spec

\* Nothing reconnects and no client's server runs once Close returned
\* (Manager.Close, reconnect).
THEOREM ClosedForGood == Spec => []CloseIsFinal
<1>1. (part = "mcp" => McpInv) => CloseIsFinal
  BY DEF McpInv, CloseIsFinal
<1>. QED  BY <1>1, McpInvariance, PTL

-----------------------------------------------------------------------------
(* The language servers *)

Points ==
  {"idle", "joining", "dialing", "initializing", "found", "reopening", "closed",
   "dropped", "opened", "open", "waiting", "woken", "registered", "calling",
   "answered", "unavailable"}

LspTypes ==
  /\ queryAt \in [Queries -> Points]
  /\ lang \in [Queries -> Languages \cup {"none"}]
  /\ pendingCalls \subseteq Queries /\ news \subseteq Queries

\* A query that waits for its answer is registered, and whoever is registered
\* was so before the read loop ended.
Registered ==
  \A q \in Queries :
    /\ q \in pendingCalls => queryAt[q] # "idle" /\ lang[q] \notin dead
    /\ queryAt[q] = "calling" => q \in pendingCalls

\* What is in the cache after a query dropped it, was published since.
Fresh ==
  /\ \A q \in Queries :
       /\ queryAt[q] \in {"dropped", "opened", "open", "waiting"} /\ lang[q] \in cached =>
            q \in news
       /\ queryAt[q] = "woken" => q \in news
  /\ DiagnosticsAreNews

LspInv == LspTypes /\ Registered /\ Fresh

\* Each of a query's steps, a server's and Close's preserves the invariant.
LEMMA LspStep ==
  ASSUME part = "lsp", part' = part, LspInv, L!Next
  PROVE  LspInv'
<1>. USE DEF LspInv, LspTypes, Registered, Fresh, DiagnosticsAreNews, L!DiagnosticsAreNews,
             Points, L!Goes, L!Is, L!documents, L!query, L!manage
<1>1. ASSUME NEW q \in Queries, NEW l \in Languages, NEW k \in {"diagnostics", "locations"},
             L!ClientFor(q, l, k)
      PROVE  LspInv'
  BY <1>1 DEF L!ClientFor
<1>2. ASSUME NEW q \in Queries, L!startProcess(q) \/ L!initialize(q) \/ L!Join(q)
      PROVE  LspInv'
  BY <1>2 DEF L!startProcess, L!initialize, L!Join
<1>3. ASSUME NEW q \in Queries, L!openFile(q) \/ L!didClose(q) \/ L!didOpen(q) \/ L!MarkOpen(q)
      PROVE  LspInv'
  BY <1>3 DEF L!openFile, L!didClose, L!didOpen, L!MarkOpen, L!notify
<1>4. ASSUME NEW q \in Queries, L!DropDiagnostics(q)
      PROVE  LspInv'
  BY <1>4 DEF L!DropDiagnostics, L!DropStale
<1>5. ASSUME NEW q \in Queries, L!waitDiagnostics(q) \/ L!WaitOver(q)
      PROVE  LspInv'
  BY <1>5 DEF L!waitDiagnostics, L!WaitOver, L!Tell
<1>6. ASSUME NEW q \in Queries, L!call(q) \/ L!SendCall(q) \/ L!route(q) \/ L!CallOver(q)
      PROVE  LspInv'
  BY <1>6 DEF L!call, L!Register, L!SendCall, L!route, L!CallOver
<1>7. ASSUME NEW l \in Languages, L!shutdown(l)
      PROVE  LspInv'
  BY <1>7 DEF L!shutdown
<1>8. ASSUME NEW l \in Languages, L!handleNotification(l)
      PROVE  LspInv'
  BY <1>8 DEF L!handleNotification
<1>9. ASSUME NEW l \in Languages, L!ServerDies(l) \/ L!CloseClient(l)
      PROVE  LspInv'
  BY <1>9 DEF L!ServerDies, L!CloseClient
<1>10. ASSUME L!CloseBegins \/ L!CloseReturns
       PROVE  LspInv'
  BY <1>10 DEF L!CloseBegins, L!CloseReturns
<1>. QED
  BY <1>1, <1>2, <1>3, <1>4, <1>5, <1>6, <1>7, <1>8, <1>9, <1>10 DEF L!Next

\* In every state of the language servers the invariant holds.
LEMMA LspInvariance == Spec => [](part = "lsp" => LspInv)
<1>1. Init => (part = "lsp" => LspInv)
  BY DEF Init, L!Init, LspInv, LspTypes, Registered, Fresh, Points, DiagnosticsAreNews,
         L!DiagnosticsAreNews
<1>2. (part = "lsp" => LspInv) /\ [Next]_partsVars => (part = "lsp" => LspInv)'
  <2>1. CASE UNCHANGED lspVars
    BY <2>1, OneStep DEF lspVars, LspInv, LspTypes, Registered, Fresh,
       DiagnosticsAreNews, L!DiagnosticsAreNews
  <2>. QED  BY <2>1, OneStep, LspStep
<1>. QED  BY <1>1, <1>2, PTL DEF Spec

\* No call waits on a language server connection that ended (call, shutdown).
THEOREM NobodyWaits == Spec => []NobodyWaitsOnTheDead
<1>1. (part = "lsp" => LspInv) => NobodyWaitsOnTheDead
  BY DEF LspInv, Registered, LspTypes, NobodyWaitsOnTheDead, L!NobodyWaitsOnTheDead
<1>. QED  BY <1>1, LspInvariance, PTL

\* Diagnostics handed to the model are news to the query (ensureOpen).
THEOREM ToldNews == Spec => []DiagnosticsAreNews
<1>1. (part = "lsp" => LspInv) => DiagnosticsAreNews
  BY DEF LspInv, Fresh, DiagnosticsAreNews
<1>. QED  BY <1>1, LspInvariance, PTL

-----------------------------------------------------------------------------
(* A model call between daemon and gateway *)

Frames ==
  [is : {"text"}, text : Nat] \cup [is : {"comment", "final", "done"}]
    \cup [is : {"failed"}, trail : SUBSET {"retryable", "fatal"}]
Errors == [is : {"error"}, typed : BOOLEAN, retry : BOOLEAN]
Deltas == [is : {"text"}, text : Nat] \cup [is : {"final"}] \cup Errors

RelayTypes ==
  /\ relaying \in {"peeking", "silent", "refused", "streaming", "finished", "stuck", "over"}
  /\ wrote \in Nat /\ lastFrame \in {"none", "final", "failed"}
  /\ trail \subseteq {"retryable", "fatal"}
  /\ frames \in Seq(Frames) /\ deltas \in Seq(Deltas) /\ got \in Seq(Nat)
  /\ goroutine \in {"connecting", "reading", "sending", "over"}
  /\ sending \in Deltas \cup {R!Nothing}
  /\ goroutine = "sending" => sending \in Deltas
  /\ callResult \in Deltas \cup {R!Nothing}
  /\ outcome \in {"none", "answered", "failed", "lost"}
  /\ relaying \in {"peeking", "silent", "streaming"} => lastFrame = "none"
  /\ relaying = "finished" => lastFrame # "none"

\* The client's goroutine has not read the last frame.
Midway == goroutine \in {"connecting", "reading"} \/ (goroutine = "sending" /\ sending.is = "text")

\* Texts in the agent's hands or on their way from the goroutine to it.
Taken == Len(got) + Len(deltas) + (IF goroutine = "sending" /\ sending.is = "text" THEN 1 ELSE 0)

Comments == IF frames # <<>> /\ frames[1].is = "comment" THEN 1 ELSE 0
Dones == IF frames # <<>> /\ frames[Len(frames)].is = "done" THEN 1 ELSE 0
Lasts == IF lastFrame = "none" THEN 0 ELSE 1

\* What is on the wire goes on where the goroutine is: a comment at most, texts,
\* the last frame if it was written, and [DONE] behind it.
Counted == wrote = Taken + Len(frames) - Comments - Lasts - Dones
DoneIsLast == Dones = 1 => Lasts = 1 /\ relaying = "over"
Numbered ==
  \A i \in 1..(Len(frames) - Lasts - Dones) :
    \/ frames[i].is = "text" /\ frames[i].text = Taken + i - Comments
    \/ frames[i].is = "comment" /\ i = 1
LastFrame ==
  Lasts = 1 =>
    /\ Len(frames) > Dones /\ frames[Len(frames) - Dones].is = lastFrame
    /\ lastFrame = "failed" => frames[Len(frames) - Dones].trail = trail
OnTheWire == Midway => Counted /\ DoneIsLast /\ Numbered /\ LastFrame

\* The delta d, after n texts, tells of the answer's end as it was.
Tells(d, n) ==
  /\ n <= wrote
  /\ d.is = "final" => lastFrame = "final" /\ n = wrote
  /\ d.is = "error" /\ d.typed =>
       lastFrame = "failed" /\ n = wrote /\ d.retry = ("retryable" \in trail)

\* The channel holds the texts that come next, and at its end what ended them.
InTheChannel ==
  /\ \A i \in 1..Len(deltas) :
       \/ deltas[i].is = "text" /\ deltas[i].text = Len(got) + i
       \/ /\ deltas[i].is # "text" /\ i = Len(deltas) /\ goroutine = "over"
          /\ Tells(deltas[i], Len(got) + i - 1)
  /\ goroutine = "sending" =>
       IF sending.is = "text" THEN sending.text = Len(got) + Len(deltas) + 1
       ELSE Tells(sending, Len(got) + Len(deltas))
  /\ (\A i \in 1..Len(deltas) : deltas[i].is = "text") => Len(got) + Len(deltas) <= wrote

Received ==
  /\ got = [i \in 1..Len(got) |-> i]
  /\ callResult # R!Nothing =>
       goroutine = "over" /\ deltas = <<>> /\ callResult.is # "text" /\ Tells(callResult, Len(got))
  /\ outcome = "answered" => callResult # R!Nothing /\ callResult.is = "final"
  /\ outcome = "none" /\ callResult # R!Nothing => callResult.is = "final"
  /\ outcome = "failed" /\ callResult # R!Nothing => callResult.is = "error"

RelayInv == RelayTypes /\ OnTheWire /\ InTheChannel /\ Received

\* A frame more on the wire.
LEMMA Written ==
  ASSUME RelayTypes, NEW f \in Frames, frames' = Append(frames, f)
  PROVE  /\ frames' \in Seq(Frames) /\ Len(frames) \in Nat /\ Len(frames') = Len(frames) + 1
         /\ \A i \in 1..Len(frames) : frames'[i] = frames[i]
         /\ frames'[Len(frames) + 1] = f
         /\ Comments \in {0, 1}
         /\ Comments' = IF frames = <<>> /\ f.is = "comment" THEN 1 ELSE Comments
         /\ Dones' = IF f.is = "done" THEN 1 ELSE 0
<1>1. /\ frames' \in Seq(Frames) /\ Len(frames) \in Nat /\ Len(frames') = Len(frames) + 1
      /\ \A i \in 1..Len(frames) : frames'[i] = frames[i]
      /\ frames'[Len(frames) + 1] = f
  BY DEF RelayTypes
<1>2. frames' # <<>>
  BY <1>1
<1>3. CASE frames = <<>>
  <2>1. frames'[1] = f
    BY <1>1, <1>3
  <2>. QED  BY <1>1, <1>2, <1>3, <2>1 DEF Comments, Dones
<1>4. CASE frames # <<>>
  <2>1. 1 \in 1..Len(frames)
    BY <1>4 DEF RelayTypes
  <2>2. frames'[1] = frames[1]
    BY <1>1, <2>1
  <2>. QED  BY <1>1, <1>2, <1>4, <2>2 DEF Comments, Dones
<1>. QED  BY <1>3, <1>4

\* What the gateway does, before and after it answers.
LEMMA GatewayStep ==
  ASSUME RelayInv,
         R!Commit \/ R!writeDelta \/ R!KeepAlive \/ R!writeFinal \/ R!WriteDone
           \/ R!LinkEnds \/ R!Hangs
  PROVE  RelayInv'
<1>. USE DEF R!clientVars, R!agentVars
<1>1. UNCHANGED <<goroutine, sending, deltas, got, callResult, outcome>>
  BY DEF R!Commit, R!writeDelta, R!KeepAlive, R!writeFinal, R!WriteDone, R!LinkEnds, R!Hangs
<1>2. RelayTypes /\ OnTheWire /\ InTheChannel /\ Received
  BY DEF RelayInv
<1>3. Midway' = Midway /\ Taken' = Taken /\ Taken \in Nat
  BY <1>1, <1>2 DEF Midway, Taken, RelayTypes
<1>4. CASE R!Commit \/ R!LinkEnds \/ R!Hangs
  <2>1. UNCHANGED <<wrote, lastFrame, frames>> /\ (lastFrame = "none" \/ UNCHANGED trail)
    BY <1>2, <1>4 DEF R!Commit, R!LinkEnds, R!Hangs, RelayTypes
  <2>2. RelayTypes'
    <3>1. /\ relaying' \in {"peeking", "silent", "refused", "streaming", "finished", "stuck", "over"}
          /\ trail' \subseteq {"retryable", "fatal"}
          /\ relaying' \in {"peeking", "silent", "streaming"} => lastFrame = "none"
          /\ relaying' # "finished"
      BY <1>2, <1>4 DEF RelayTypes, R!Commit, R!LinkEnds, R!Hangs
    <3>. QED  BY <1>1, <1>2, <2>1, <3>1 DEF RelayTypes, R!Nothing
  <2>3. OnTheWire'
    <3>1. relaying = "over" => relaying' = "over"
      BY <1>4 DEF R!Commit, R!LinkEnds, R!Hangs
    <3>2. Dones' = Dones /\ Comments' = Comments /\ Lasts' = Lasts
      BY <2>1 DEF Comments, Dones, Lasts
    <3>3. (Counted => Counted') /\ (DoneIsLast => DoneIsLast') /\ (Numbered => Numbered')
      BY <1>3, <2>1, <3>1, <3>2 DEF Counted, DoneIsLast, Numbered
    <3>4. LastFrame => LastFrame'
      BY <2>1, <3>2 DEF LastFrame, Lasts
    <3>. QED  BY <1>2, <1>3, <3>3, <3>4 DEF OnTheWire
  <2>4. InTheChannel' /\ Received'
    BY <1>1, <1>2, <2>1 DEF InTheChannel, Received, Tells
  <2>. QED  BY <2>2, <2>3, <2>4 DEF RelayInv
<1>5. CASE R!writeDelta
  <2>. DEFINE f == [is |-> "text", text |-> wrote + 1]
  <2>1. /\ wrote' = wrote + 1 /\ frames' = Append(frames, f) /\ lastFrame = "none"
        /\ UNCHANGED <<relaying, lastFrame, trail>>
    BY <1>2, <1>5 DEF R!writeDelta, R!Writes, R!Text, RelayTypes
  <2>2. f \in Frames /\ f.is = "text" /\ f.text = wrote + 1 /\ wrote \in Nat
    BY <1>2 DEF Frames, RelayTypes
  <2>. HIDE DEF f
  <2>3. /\ frames' \in Seq(Frames) /\ Len(frames) \in Nat /\ Len(frames') = Len(frames) + 1
        /\ \A i \in 1..Len(frames) : frames'[i] = frames[i]
        /\ frames'[Len(frames) + 1] = f
        /\ Comments \in {0, 1} /\ Comments' = Comments /\ Dones' = 0
    BY <1>2, <2>1, <2>2, Written
  <2>4. RelayTypes'
    BY <1>1, <1>2, <2>1, <2>2, <2>3 DEF RelayTypes, R!Nothing
  <2>5. ASSUME Midway  PROVE Counted' /\ DoneIsLast' /\ Numbered' /\ LastFrame'
    <3>1. Lasts = 0 /\ Lasts' = 0 /\ Dones = 0
      BY <1>2, <2>1, <2>5 DEF Lasts, Dones, OnTheWire, DoneIsLast
    <3>2. wrote = Taken + Len(frames) - Comments
      BY <1>2, <1>3, <2>2, <2>3, <2>5, <3>1 DEF OnTheWire, Counted
    <3>3. Counted'
      BY <1>3, <2>1, <2>2, <2>3, <3>1, <3>2 DEF Counted
    <3>4. DoneIsLast' /\ LastFrame'
      BY <2>3, <3>1 DEF DoneIsLast, LastFrame
    <3>5. ASSUME NEW i \in 1..(Len(frames') - Lasts' - Dones')
          PROVE  \/ frames'[i].is = "text" /\ frames'[i].text = Taken' + i - Comments'
                 \/ frames'[i].is = "comment" /\ i = 1
      <4>1. CASE i \in 1..Len(frames)
        <5>1. \/ frames[i].is = "text" /\ frames[i].text = Taken + i - Comments
              \/ frames[i].is = "comment" /\ i = 1
          BY <1>2, <2>3, <2>5, <3>1, <4>1 DEF OnTheWire, Numbered
        <5>. QED  BY <1>3, <2>3, <4>1, <5>1
      <4>2. CASE i = Len(frames) + 1
        BY <1>3, <2>2, <2>3, <3>2, <4>2
      <4>. QED  BY <2>3, <3>1, <4>1, <4>2
    <3>. QED  BY <3>3, <3>4, <3>5 DEF Numbered
  <2>6. InTheChannel' /\ Received'
    BY <1>1, <1>2, <2>1 DEF InTheChannel, Received, Tells, RelayTypes
  <2>. QED  BY <1>3, <2>4, <2>5, <2>6 DEF RelayInv, OnTheWire
<1>6. CASE R!KeepAlive
  <2>. DEFINE f == [is |-> "comment"]
  <2>1. /\ frames = <<>> /\ frames' = Append(frames, f) /\ lastFrame = "none"
        /\ UNCHANGED <<relaying, wrote, lastFrame, trail>>
    BY <1>2, <1>6 DEF R!KeepAlive, R!Writes, RelayTypes
  <2>2. f \in Frames /\ f.is = "comment" /\ wrote \in Nat
    BY <1>2 DEF Frames, RelayTypes
  <2>. HIDE DEF f
  <2>3. /\ frames' \in Seq(Frames) /\ Len(frames) = 0 /\ Len(frames') = 1
        /\ frames'[1] = f /\ Comments = 0 /\ Comments' = 1 /\ Dones' = 0
    <3>1. Len(frames) = 0 /\ Comments = 0
      BY <2>1 DEF Comments
    <3>. QED  BY <1>2, <2>1, <2>2, <3>1, Written
  <2>4. RelayTypes'
    BY <1>1, <1>2, <2>1, <2>2, <2>3 DEF RelayTypes, R!Nothing
  <2>5. ASSUME Midway  PROVE Counted' /\ DoneIsLast' /\ Numbered' /\ LastFrame'
    <3>1. Lasts = 0 /\ Lasts' = 0 /\ Dones = 0
      BY <1>2, <2>1, <2>5 DEF Lasts, Dones, OnTheWire, DoneIsLast
    <3>2. wrote = Taken
      BY <1>2, <1>3, <2>2, <2>3, <2>5, <3>1 DEF OnTheWire, Counted
    <3>3. Counted'
      BY <1>3, <2>1, <2>2, <2>3, <3>1, <3>2 DEF Counted
    <3>4. DoneIsLast' /\ LastFrame'
      BY <2>3, <3>1 DEF DoneIsLast, LastFrame
    <3>5. Numbered'
      BY <2>2, <2>3, <3>1 DEF Numbered
    <3>. QED  BY <3>3, <3>4, <3>5
  <2>6. InTheChannel' /\ Received'
    BY <1>1, <1>2, <2>1 DEF InTheChannel, Received, Tells
  <2>. QED  BY <1>3, <2>4, <2>5, <2>6 DEF RelayInv, OnTheWire
<1>7. CASE R!writeFinal
  <2>1. /\ lastFrame = "none" /\ lastFrame' \in {"final", "failed"}
        /\ relaying' = "finished" /\ UNCHANGED wrote /\ trail' \subseteq {"retryable", "fatal"}
    BY <1>2, <1>7 DEF R!writeFinal, RelayTypes
  <2>2. PICK f \in Frames :
          /\ frames' = Append(frames, f) /\ f.is = lastFrame'
          /\ lastFrame' = "failed" => f.trail = trail'
    <3>1. CASE lastFrame' = "final" /\ R!Writes([is |-> "final"])
      BY <3>1 DEF R!Writes, Frames
    <3>2. ASSUME NEW class \in {"retryable", "fatal"}, lastFrame' = "failed",
                 trail' = trail \cup {class}, R!Writes([is |-> "failed", trail |-> trail'])
          PROVE  \E f \in Frames :
                   /\ frames' = Append(frames, f) /\ f.is = lastFrame'
                   /\ lastFrame' = "failed" => f.trail = trail'
      <4>. DEFINE f == [is |-> "failed", trail |-> trail']
      <4>1. f \in Frames
        BY <2>1 DEF Frames
      <4>2. frames' = Append(frames, f)
        BY <3>2 DEF R!Writes
      <4>. QED  BY <3>2, <4>1, <4>2
    <3>. QED  BY <1>7, <3>1, <3>2 DEF R!writeFinal
  <2>3. /\ frames' \in Seq(Frames) /\ Len(frames) \in Nat /\ Len(frames') = Len(frames) + 1
        /\ \A i \in 1..Len(frames) : frames'[i] = frames[i]
        /\ frames'[Len(frames) + 1] = f
        /\ Comments \in {0, 1} /\ Comments' = Comments /\ Dones' = 0
    BY <1>2, <2>1, <2>2, Written
  <2>4. RelayTypes'
    BY <1>1, <1>2, <2>1, <2>2, <2>3 DEF RelayTypes, R!Nothing
  <2>5. ASSUME Midway  PROVE Counted' /\ DoneIsLast' /\ Numbered' /\ LastFrame'
    <3>1. Lasts = 0 /\ Lasts' = 1 /\ Dones = 0 /\ wrote \in Nat
      BY <1>2, <2>1, <2>5 DEF Lasts, Dones, OnTheWire, DoneIsLast, RelayTypes
    <3>2. Counted'
      BY <1>2, <1>3, <2>1, <2>3, <2>5, <3>1 DEF OnTheWire, Counted
    <3>3. DoneIsLast' /\ LastFrame'
      BY <2>2, <2>3, <3>1 DEF DoneIsLast, LastFrame
    <3>4. Numbered'
      BY <1>2, <1>3, <2>3, <2>5, <3>1 DEF OnTheWire, Numbered
    <3>. QED  BY <3>2, <3>3, <3>4
  <2>6. InTheChannel' /\ Received'
    BY <1>1, <1>2, <2>1 DEF InTheChannel, Received, Tells, RelayTypes
  <2>. QED  BY <1>3, <2>4, <2>5, <2>6 DEF RelayInv, OnTheWire
<1>8. CASE R!WriteDone
  <2>. DEFINE f == [is |-> "done"]
  <2>1. /\ frames' = Append(frames, f) /\ UNCHANGED <<wrote, lastFrame, trail>>
        /\ relaying = "finished" /\ relaying' = "over" /\ lastFrame # "none"
    BY <1>2, <1>8 DEF R!WriteDone, R!Writes, RelayTypes
  <2>2. f \in Frames /\ f.is = "done"
    BY DEF Frames
  <2>. HIDE DEF f
  <2>3. /\ frames' \in Seq(Frames) /\ Len(frames) \in Nat /\ Len(frames') = Len(frames) + 1
        /\ \A i \in 1..Len(frames) : frames'[i] = frames[i]
        /\ Comments \in {0, 1} /\ Comments' = Comments /\ Dones' = 1
    BY <1>2, <2>1, <2>2, Written
  <2>4. RelayTypes'
    BY <1>1, <1>2, <2>1, <2>3 DEF RelayTypes, R!Nothing
  <2>5. ASSUME Midway  PROVE Counted' /\ DoneIsLast' /\ Numbered' /\ LastFrame'
    <3>1. Lasts = 1 /\ Lasts' = 1 /\ wrote \in Nat
      BY <1>2, <2>1 DEF Lasts, RelayTypes
    <3>2. Dones = 0
      BY <1>2, <2>1, <2>5 DEF Dones, OnTheWire, DoneIsLast
    <3>3. Counted'
      BY <1>2, <1>3, <2>1, <2>3, <2>5, <3>1, <3>2 DEF OnTheWire, Counted
    <3>4. DoneIsLast'
      BY <2>1, <3>1 DEF DoneIsLast
    <3>5. LastFrame'
      <4>1. Len(frames) > 0 /\ frames[Len(frames)].is = lastFrame
            /\ (lastFrame = "failed" => frames[Len(frames)].trail = trail)
        BY <1>2, <2>3, <2>5, <3>1, <3>2 DEF OnTheWire, LastFrame
      <4>2. Len(frames') - Dones' = Len(frames) /\ frames'[Len(frames)] = frames[Len(frames)]
        BY <2>3, <4>1
      <4>3. Len(frames') > Dones' /\ UNCHANGED <<lastFrame, trail>>
        BY <2>1, <2>3, <4>1
      <4>. QED  BY <4>1, <4>2, <4>3 DEF LastFrame
    <3>6. ASSUME NEW i \in 1..(Len(frames') - Lasts' - Dones')
          PROVE  \/ frames'[i].is = "text" /\ frames'[i].text = Taken' + i - Comments'
                 \/ frames'[i].is = "comment" /\ i = 1
      <4>1. i \in 1..(Len(frames) - Lasts - Dones) /\ frames'[i] = frames[i]
        BY <2>3, <3>1, <3>2
      <4>2. \/ frames[i].is = "text" /\ frames[i].text = Taken + i - Comments
            \/ frames[i].is = "comment" /\ i = 1
        BY <1>2, <2>5, <4>1 DEF OnTheWire, Numbered
      <4>. QED  BY <1>3, <2>3, <4>1, <4>2
    <3>. QED  BY <3>3, <3>4, <3>5, <3>6 DEF Numbered
  <2>6. InTheChannel' /\ Received'
    BY <1>1, <1>2, <2>1 DEF InTheChannel, Received, Tells
  <2>. QED  BY <1>3, <2>4, <2>5, <2>6 DEF RelayInv, OnTheWire
<1>. QED  BY <1>4, <1>5, <1>6, <1>7, <1>8

\* While the goroutine goes on, nothing in the channel ended the answer.
LEMMA OnlyTexts ==
  ASSUME RelayInv, goroutine # "over"
  PROVE  /\ \A i \in 1..Len(deltas) : deltas[i].is = "text" /\ deltas[i].text = Len(got) + i
         /\ Len(got) \in Nat /\ Len(deltas) \in Nat /\ Len(got) + Len(deltas) <= wrote
         /\ callResult = R!Nothing /\ outcome # "answered"
BY DEF RelayInv, RelayTypes, InTheChannel, Received

\* The goroutine takes a frame off the wire.
LEMMA ScanStep ==
  ASSUME RelayInv, R!Scan
  PROVE  RelayInv'
<1>. DEFINE f == frames[1]
<1>1. /\ goroutine = "reading" /\ frames # <<>> /\ f \in Frames /\ Len(frames) \in Nat \ {0}
      /\ frames' \in Seq(Frames) /\ Len(frames') = Len(frames) - 1
      /\ \A i \in 1..Len(frames') : frames'[i] = frames[i + 1]
      /\ UNCHANGED <<relaying, wrote, lastFrame, trail, deltas, got, callResult, outcome>>
  BY DEF R!Scan, RelayInv, RelayTypes, R!agentVars
<1>2. R!Reads(f)
  BY <1>1 DEF R!Scan, RelayInv, RelayTypes
<1>3. /\ wrote = Taken + Len(frames) - Comments - Lasts - Dones
      /\ Taken = Len(got) + Len(deltas) /\ Lasts \in {0, 1} /\ Dones \in {0, 1}
      /\ Lasts' = Lasts
  BY <1>1 DEF RelayInv, OnTheWire, Counted, Midway, Taken, Lasts, Dones
<1>4. Dones' = IF Len(frames) = 1 THEN 0 ELSE Dones
  <2>1. CASE Len(frames) = 1
    BY <1>1, <2>1 DEF Dones
  <2>2. CASE Len(frames) > 1
    <3>1. frames'[Len(frames')] = frames[Len(frames)] /\ frames' # <<>>
      BY <1>1, <2>2
    <3>. QED  BY <1>1, <2>2, <3>1 DEF Dones
  <2>. QED  BY <1>1, <2>1, <2>2
<1>5. ASSUME NEW i \in 1..Len(frames)
      PROVE  \/ i <= Len(frames) - Lasts - Dones
             \/ i = Len(frames) - Dones /\ Lasts = 1 /\ frames[i].is = lastFrame
             \/ i = Len(frames) /\ frames[i].is = "done"
  BY <1>1, <1>3 DEF RelayInv, OnTheWire, Numbered, LastFrame, Midway, Dones, Lasts
<1>6. ASSUME NEW i \in 1..Len(frames), i <= Len(frames) - Lasts - Dones
      PROVE  \/ frames[i].is = "text" /\ frames[i].text = Taken + i - Comments
             \/ frames[i].is = "comment" /\ i = 1
  BY <1>1, <1>3, <1>6 DEF RelayInv, OnTheWire, Numbered, Midway
<1>7. Comments' = 0 /\ Comments = (IF f.is = "comment" THEN 1 ELSE 0)
  <2>1. CASE Len(frames) > 1
    <3>1. frames'[1] = frames[2] /\ 2 \in 1..Len(frames)
      BY <1>1, <2>1
    <3>2. lastFrame # "comment"
      BY DEF RelayInv, RelayTypes
    <3>3. frames[2].is # "comment"
      BY <1>5, <1>6, <3>1, <3>2
    <3>. QED  BY <1>1, <3>1, <3>3 DEF Comments
  <2>. QED  BY <1>1, <2>1 DEF Comments
<1>8. lastFrame \in {"none", "final", "failed"} /\ (Lasts = 1 <=> lastFrame # "none")
  BY DEF RelayInv, RelayTypes, Lasts
<1>9. Lasts = 1 => Len(frames) > Dones /\ frames[Len(frames) - Dones].is = lastFrame
                   /\ (lastFrame = "failed" => frames[Len(frames) - Dones].trail = trail)
  BY <1>1 DEF RelayInv, OnTheWire, LastFrame, Midway
<1>10. Dones = 1 => Lasts = 1 /\ relaying = "over"
  BY <1>1 DEF RelayInv, OnTheWire, DoneIsLast, Midway
<1>11. CASE f.is \in {"text", "comment"}
  <2>1. 1 <= Len(frames) - Lasts - Dones
    BY <1>1, <1>3, <1>5, <1>8, <1>11
  <2>2. IF f.is = "text" THEN goroutine' = "sending" /\ sending' = f
        ELSE UNCHANGED <<goroutine, sending>>
    BY <1>2, <1>11 DEF R!Reads, R!Sends
  <2>3. f.is = "text" => f.text = Taken + 1
    BY <1>1, <1>6, <1>7, <2>1
  <2>4. Taken' = Taken + (IF f.is = "text" THEN 1 ELSE 0) /\ Taken \in Nat
    BY <1>1, <1>3, <2>2, OnlyTexts DEF Taken
  <2>5. Dones' = Dones
    BY <1>1, <1>3, <1>4, <2>1
  <2>6. OnTheWire'
    <3>1. wrote' = Taken' + Len(frames') - Comments' - Lasts' - Dones'
      BY <1>1, <1>3, <1>7, <1>11, <2>4, <2>5
    <3>2. \A i \in 1..(Len(frames') - Lasts' - Dones') :
            frames'[i].is = "text" /\ frames'[i].text = Taken' + i - Comments'
      <4>. SUFFICES ASSUME NEW i \in 1..(Len(frames') - Lasts' - Dones')
                    PROVE  frames'[i].is = "text" /\ frames'[i].text = Taken' + i - Comments'
        OBVIOUS
      <4>1. /\ i \in 1..Len(frames') /\ i + 1 \in 1..Len(frames)
            /\ i + 1 <= Len(frames) - Lasts - Dones /\ i + 1 # 1
        BY <1>1, <1>3, <2>5
      <4>2. frames'[i] = frames[i + 1]
        BY <1>1, <4>1
      <4>3. frames[i + 1].is = "text" /\ frames[i + 1].text = Taken + (i + 1) - Comments
        BY <1>6, <4>1
      <4>. QED  BY <1>7, <1>11, <2>4, <4>2, <4>3
    <3>3. Lasts = 1 => /\ Len(frames') > Dones
                       /\ frames'[Len(frames') - Dones] = frames[Len(frames) - Dones]
      <4>. SUFFICES ASSUME Lasts = 1
                    PROVE  /\ Len(frames') > Dones
                           /\ frames'[Len(frames') - Dones] = frames[Len(frames) - Dones]
        OBVIOUS
      <4>1. Len(frames') - Dones \in 1..Len(frames') /\ Len(frames') - Dones + 1 = Len(frames) - Dones
        BY <1>1, <1>3, <2>1
      <4>. QED  BY <1>1, <1>3, <4>1
    <3>. QED  BY <1>1, <1>3, <1>9, <1>10, <2>5, <3>1, <3>2, <3>3
       DEF OnTheWire, Counted, DoneIsLast, Numbered, LastFrame
  <2>7. RelayTypes'
    BY <1>1, <1>11, <2>2 DEF RelayInv, RelayTypes, Deltas, Frames, R!Nothing
  <2>8. InTheChannel' /\ Received'
    BY <1>1, <1>3, <2>2, <2>3, OnlyTexts DEF RelayInv, InTheChannel, Received
  <2>. QED  BY <2>6, <2>7, <2>8 DEF RelayInv
<1>12. CASE f.is \in {"final", "failed"}
  <2>1. Len(frames) - Dones = 1 /\ Lasts = 1 /\ f.is = lastFrame /\ (f.is = "failed" => f.trail = trail)
    BY <1>1, <1>3, <1>5, <1>6, <1>9, <1>12
  <2>2. wrote = Len(got) + Len(deltas)
    BY <1>1, <1>3, <1>7, <1>12, <2>1, OnlyTexts
  <2>3. /\ goroutine' = "sending"
        /\ sending' = IF f.is = "final" THEN f
                      ELSE [is |-> "error", typed |-> TRUE, retry |-> ("retryable" \in trail)]
    BY <1>2, <1>12, <2>1 DEF R!Reads, R!Sends, R!Failure, R!Retryable
  <2>4. sending' \in Deltas /\ sending'.is \in {"final", "error"} /\ Tells(sending, Len(got) + Len(deltas))'
    <3>1. CASE f.is = "final"
      <4>1. f \in [is : {"final"}]
        BY <1>1, <3>1 DEF Frames
      <4>. QED  BY <1>1, <2>1, <2>2, <2>3, <3>1, <4>1, OnlyTexts DEF Deltas, Tells
    <3>2. CASE f.is = "failed"
      <4>1. sending' \in Errors /\ sending'.is = "error" /\ sending'.retry = ("retryable" \in trail)
        BY <2>3, <3>2 DEF Errors
      <4>. QED  BY <1>1, <2>1, <2>2, <3>2, <4>1, OnlyTexts DEF Deltas, Tells
    <3>. QED  BY <1>12, <3>1, <3>2
  <2>5. OnTheWire' /\ RelayTypes'
    BY <1>1, <2>3, <2>4 DEF OnTheWire, Midway, RelayInv, RelayTypes
  <2>6. InTheChannel' /\ Received'
    BY <1>1, <2>3, <2>4, OnlyTexts DEF RelayInv, InTheChannel, Received
  <2>. QED  BY <2>5, <2>6 DEF RelayInv
<1>13. f.is # "done"
  <2>. SUFFICES ASSUME f.is = "done" PROVE FALSE
    OBVIOUS
  <2>1. CASE Len(frames) = 1
    <3>1. Dones = 1
      BY <1>1, <2>1 DEF Dones
    <3>. QED  BY <1>9, <1>10, <2>1, <3>1
  <2>2. CASE Len(frames) > 1
    <3>1. 1 \in 1..Len(frames) /\ 1 # Len(frames)
      BY <1>1, <2>2
    <3>. QED  BY <1>5, <1>6, <1>8, <3>1
  <2>. QED  BY <1>1, <2>1, <2>2
<1>. QED  BY <1>1, <1>11, <1>12, <1>13 DEF Frames

\* No text is taken that was not written.
LEMMA TakenIsWritten ==
  ASSUME RelayInv, Midway
  PROVE  Taken \in Nat /\ Taken <= wrote
<1>1. Taken \in Nat /\ Len(frames) \in Nat /\ Dones \in {0, 1} /\ Comments \in {0, 1}
      /\ Lasts \in {0, 1} /\ lastFrame # "comment" /\ (Comments = 1 => frames[1].is = "comment")
      /\ (Comments = 1 => Len(frames) > 0)
  BY DEF RelayInv, RelayTypes, Taken, Dones, Comments, Lasts
<1>2. CASE Lasts = 0
  BY <1>1, <1>2 DEF RelayInv, RelayTypes, OnTheWire, Counted, DoneIsLast
<1>3. CASE Lasts = 1
  <2>1. Len(frames) > Dones /\ (Comments = 1 => Len(frames) - Dones # 1)
    BY <1>1, <1>3 DEF RelayInv, OnTheWire, Numbered, LastFrame
  <2>. QED  BY <1>1, <1>3, <2>1 DEF RelayInv, RelayTypes, OnTheWire, Counted
<1>. QED  BY <1>1, <1>2, <1>3

\* The goroutine's beginning, its ends, and what it sends into the channel.
LEMMA SenderStep ==
  ASSUME RelayInv,
         R!gatewayErrorFromBody \/ R!ChatCompletionStream \/ R!ScanEnds \/ R!SendDelta
           \/ R!WatchdogFires \/ R!Cancel
  PROVE  RelayInv'
<1>. USE DEF R!gatewayVars, R!clientVars, R!agentVars
<1>1. UNCHANGED <<relaying, wrote, lastFrame, trail, frames>>
  BY DEF R!gatewayErrorFromBody, R!ChatCompletionStream, R!ScanEnds, R!SendDelta,
         R!WatchdogFires, R!Cancel
<1>2. CASE R!WatchdogFires \/ R!Cancel
  <2>1. UNCHANGED <<goroutine, sending, deltas, got, callResult, outcome>>
    BY <1>2 DEF R!WatchdogFires, R!Cancel
  <2>2. RelayTypes' /\ OnTheWire'
    BY <1>1, <2>1
       DEF RelayInv, RelayTypes, OnTheWire, Counted, DoneIsLast, Numbered, LastFrame, Midway, Taken, Comments, Dones, Lasts,
       R!Nothing
  <2>3. InTheChannel' /\ Received'
    BY <1>1, <2>1 DEF RelayInv, InTheChannel, Received, Tells, R!Nothing
  <2>. QED  BY <2>2, <2>3 DEF RelayInv
<1>3. ASSUME goroutine # "over", goroutine' = "over", UNCHANGED <<deltas, got, callResult>>,
             sending' \in {sending, R!Nothing}, outcome' = outcome \/ outcome' = "failed"
      PROVE  RelayInv'
  BY <1>1, <1>3, OnlyTexts DEF RelayInv, RelayTypes, OnTheWire, Midway, InTheChannel, Received,
     R!Nothing
<1>4. ASSUME goroutine \in {"connecting", "reading"}, goroutine' = "reading",
             UNCHANGED <<sending, deltas, got, callResult, outcome>>
      PROVE  RelayInv'
  <2>1. Midway /\ Taken' = Taken /\ Comments' = Comments /\ Dones' = Dones /\ Lasts' = Lasts
    BY <1>1, <1>4 DEF Midway, Taken, Comments, Dones, Lasts
  <2>2. OnTheWire'
    BY <1>1, <2>1 DEF RelayInv, OnTheWire, Counted, DoneIsLast, Numbered, LastFrame
  <2>. QED  BY <1>1, <1>4, <2>2, OnlyTexts
     DEF RelayInv, RelayTypes, InTheChannel, Received, R!Nothing
<1>5. CASE R!gatewayErrorFromBody
  BY <1>5, <1>3 DEF R!gatewayErrorFromBody, R!Returns
<1>6. CASE R!ChatCompletionStream
  BY <1>6, <1>3, <1>4 DEF R!ChatCompletionStream, R!Returns
<1>7. CASE R!ScanEnds
  <2>1. CASE R!AtEnd
    BY <1>7, <2>1, <1>3 DEF R!ScanEnds, R!AtEnd
  <2>2. CASE R!Sends(R!Failure(FALSE, FALSE))
    <3>1. /\ goroutine = "reading" /\ goroutine' = "sending"
          /\ sending' = [is |-> "error", typed |-> FALSE, retry |-> FALSE]
          /\ UNCHANGED <<deltas, got, callResult, outcome>>
      BY <1>7, <2>2 DEF R!ScanEnds, R!Sends, R!Failure
    <3>2. sending' \in Deltas /\ Tells(sending, Len(got) + Len(deltas))'
      BY <1>1, <3>1, OnlyTexts DEF Deltas, Errors, Tells
    <3>3. OnTheWire' /\ RelayTypes'
      BY <1>1, <3>1, <3>2 DEF OnTheWire, Midway, RelayInv, RelayTypes
    <3>4. InTheChannel' /\ Received'
      BY <1>1, <3>1, <3>2, OnlyTexts DEF RelayInv, InTheChannel, Received
    <3>. QED  BY <3>3, <3>4 DEF RelayInv
  <2>. QED  BY <1>7, <2>1, <2>2 DEF R!ScanEnds
<1>8. CASE R!SendDelta
  <2>1. CASE goroutine' = "over" /\ UNCHANGED deltas
    BY <1>3, <1>8, <2>1 DEF R!SendDelta
  <2>2. CASE deltas' = Append(deltas, sending)
    <3>1. /\ goroutine = "sending" /\ sending \in Deltas /\ sending' = R!Nothing
          /\ goroutine' = IF sending.is = "text" THEN "reading" ELSE "over"
          /\ UNCHANGED <<got, callResult, outcome>>
      BY <1>8, <2>2 DEF R!SendDelta, RelayInv, RelayTypes
    <3>2. /\ deltas' \in Seq(Deltas) /\ Len(deltas') = Len(deltas) + 1
          /\ \A i \in 1..Len(deltas) : deltas'[i] = deltas[i]
          /\ deltas'[Len(deltas) + 1] = sending
      BY <2>2, <3>1 DEF RelayInv, RelayTypes
    <3>3. IF sending.is = "text" THEN sending.text = Len(got) + Len(deltas) + 1
          ELSE Tells(sending, Len(got) + Len(deltas))
      BY <3>1 DEF RelayInv, InTheChannel
    <3>4. RelayTypes'
      BY <1>1, <3>1, <3>2 DEF RelayInv, RelayTypes, R!Nothing
    <3>5. OnTheWire'
      <4>1. CASE sending.is = "text"
        <5>1. Midway /\ Taken' = Taken /\ Comments' = Comments /\ Dones' = Dones /\ Lasts' = Lasts
          BY <1>1, <3>1, <3>2, <4>1, OnlyTexts DEF Midway, Taken, Comments, Dones, Lasts
        <5>. QED  BY <1>1, <5>1
           DEF RelayInv, OnTheWire, Counted, DoneIsLast, Numbered, LastFrame
      <4>2. CASE sending.is # "text"
        BY <3>1, <4>2 DEF OnTheWire, Midway
      <4>. QED  BY <4>1, <4>2
    <3>6. InTheChannel'
      <4>1. sending.is = "text" => Len(got) + Len(deltas) + 1 <= wrote
        BY <3>1, OnlyTexts, TakenIsWritten DEF Midway, Taken
      <4>2. ASSUME NEW i \in 1..Len(deltas')
            PROVE  \/ i \in 1..Len(deltas) /\ deltas'[i] = deltas[i]
                   \/ i = Len(deltas') /\ deltas'[i] = sending
        BY <3>2, OnlyTexts, <3>1
      <4>3. \A i \in 1..Len(deltas') :
              \/ deltas'[i].is = "text" /\ deltas'[i].text = Len(got') + i
              \/ /\ deltas'[i].is # "text" /\ i = Len(deltas') /\ goroutine' = "over"
                 /\ Tells(deltas[i], Len(got) + i - 1)'
        <5>. SUFFICES ASSUME NEW i \in 1..Len(deltas')
                      PROVE  \/ deltas'[i].is = "text" /\ deltas'[i].text = Len(got') + i
                             \/ /\ deltas'[i].is # "text" /\ i = Len(deltas') /\ goroutine' = "over"
                                /\ Tells(deltas[i], Len(got) + i - 1)'
          OBVIOUS
        <5>1. CASE i \in 1..Len(deltas) /\ deltas'[i] = deltas[i]
          BY <3>1, <5>1, OnlyTexts
        <5>2. CASE i = Len(deltas') /\ deltas'[i] = sending
          <6>1. Len(got') + i = Len(got) + Len(deltas) + 1 /\ Len(got') + i - 1 = Len(got) + Len(deltas)
            BY <3>1, <3>2, <5>2, OnlyTexts
          <6>2. CASE sending.is = "text"
            BY <3>3, <5>2, <6>1, <6>2
          <6>3. CASE sending.is # "text"
            BY <1>1, <3>1, <3>3, <5>2, <6>1, <6>3 DEF Tells
          <6>. QED  BY <6>2, <6>3
        <5>. QED  BY <4>2, <5>1, <5>2
      <4>4. (\A i \in 1..Len(deltas') : deltas'[i].is = "text") => Len(got') + Len(deltas') <= wrote'
        BY <1>1, <3>1, <3>2, <4>1, OnlyTexts
      <4>. QED  BY <3>1, <4>3, <4>4 DEF InTheChannel
    <3>7. Received'
      BY <1>1, <3>1, OnlyTexts DEF RelayInv, Received
    <3>. QED  BY <3>4, <3>5, <3>6, <3>7 DEF RelayInv
  <2>. QED  BY <1>8, <2>1, <2>2 DEF R!SendDelta
<1>. QED  BY <1>2, <1>5, <1>6, <1>7, <1>8

\* The agent takes a delta, or finds the channel closed.
LEMMA AgentStep ==
  ASSUME RelayInv, R!streamCall
  PROVE  RelayInv'
<1>. USE DEF R!gatewayVars
<1>1. /\ UNCHANGED <<relaying, wrote, lastFrame, trail, frames, goroutine, sending>>
      /\ outcome = "none" /\ goroutine # "connecting"
  BY DEF R!streamCall
<1>2. CASE deltas # <<>> /\ deltas' = Tail(deltas)
  <2>. DEFINE d == deltas[1]
  <2>1. /\ d \in Deltas /\ Head(deltas) = d /\ Len(deltas) \in Nat \ {0} /\ Len(got) \in Nat
        /\ deltas' \in Seq(Deltas) /\ Len(deltas') = Len(deltas) - 1
        /\ \A i \in 1..Len(deltas') : deltas'[i] = deltas[i + 1]
    BY <1>2 DEF RelayInv, RelayTypes
  <2>2. callResult = R!Nothing
    BY <1>2 DEF RelayInv, Received
  <2>3. CASE d.is = "text"
    <3>1. d.text = Len(got) + 1
      BY <2>1, <2>3 DEF RelayInv, InTheChannel
    <3>2. got' = Append(got, Len(got) + 1) /\ UNCHANGED <<callResult, outcome>>
      BY <1>1, <1>2, <2>1, <2>3, <3>1 DEF R!streamCall
    <3>3. /\ got' \in Seq(Nat) /\ Len(got') = Len(got) + 1
          /\ \A i \in 1..Len(got) : got'[i] = got[i]
          /\ got'[Len(got) + 1] = Len(got) + 1
      BY <2>1, <3>2 DEF RelayInv, RelayTypes
    <3>4. RelayTypes'
      BY <1>1, <2>1, <3>2, <3>3 DEF RelayInv, RelayTypes, R!Nothing
    <3>5. OnTheWire'
      <4>1. Midway' = Midway /\ Taken' = Taken /\ Comments' = Comments /\ Dones' = Dones /\ Lasts' = Lasts
        BY <1>1, <2>1, <3>3 DEF Midway, Taken, Comments, Dones, Lasts
      <4>. QED  BY <1>1, <4>1 DEF RelayInv, OnTheWire, Counted, DoneIsLast, Numbered, LastFrame
    <3>6. InTheChannel'
      <4>1. \A i \in 1..Len(deltas') : Len(got') + i = Len(got) + (i + 1) /\ i + 1 \in 1..Len(deltas)
        BY <2>1, <3>3
      <4>2. Len(got') + Len(deltas') = Len(got) + Len(deltas)
        BY <2>1, <3>3
      <4>3. \A i \in 1..Len(deltas') :
              \/ deltas'[i].is = "text" /\ deltas'[i].text = Len(got') + i
              \/ /\ deltas'[i].is # "text" /\ i = Len(deltas') /\ goroutine' = "over"
                 /\ Tells(deltas[i], Len(got) + i - 1)'
        <5>. SUFFICES ASSUME NEW i \in 1..Len(deltas')
                      PROVE  \/ deltas'[i].is = "text" /\ deltas'[i].text = Len(got') + i
                             \/ /\ deltas'[i].is # "text" /\ i = Len(deltas') /\ goroutine' = "over"
                                /\ Tells(deltas[i], Len(got) + i - 1)'
          OBVIOUS
        <5>1. /\ i + 1 \in 1..Len(deltas) /\ deltas'[i] = deltas[i + 1]
              /\ Len(got') + i = Len(got) + (i + 1) /\ Len(got') + i - 1 = Len(got) + (i + 1) - 1
          BY <2>1, <3>3, <4>1
        <5>2. CASE deltas[i + 1].is = "text"
          BY <5>1, <5>2 DEF RelayInv, InTheChannel
        <5>3. CASE deltas[i + 1].is # "text"
          <6>1. i + 1 = Len(deltas) /\ goroutine = "over" /\ Tells(deltas[i + 1], Len(got) + (i + 1) - 1)
            BY <5>1, <5>3 DEF RelayInv, InTheChannel
          <6>2. i = Len(deltas')
            BY <2>1, <6>1
          <6>. QED  BY <1>1, <5>1, <5>3, <6>1, <6>2 DEF Tells
        <5>. QED  BY <5>2, <5>3
      <4>4. (\A i \in 1..Len(deltas') : deltas'[i].is = "text") => \A i \in 1..Len(deltas) : deltas[i].is = "text"
        <5>. SUFFICES ASSUME \A i \in 1..Len(deltas') : deltas'[i].is = "text", NEW i \in 1..Len(deltas)
                      PROVE  deltas[i].is = "text"
          OBVIOUS
        <5>1. CASE i = 1
          BY <2>3, <5>1
        <5>2. CASE i # 1
          <6>1. i - 1 \in 1..Len(deltas') /\ (i - 1) + 1 = i
            BY <2>1, <5>2
          <6>. QED  BY <2>1, <6>1
        <5>. QED  BY <5>1, <5>2
      <4>. QED  BY <1>1, <4>2, <4>3, <4>4 DEF RelayInv, InTheChannel, Tells
    <3>7. Received'
      BY <1>1, <2>1, <2>2, <3>2, <3>3 DEF RelayInv, Received, RelayTypes
    <3>. QED  BY <3>4, <3>5, <3>6, <3>7 DEF RelayInv
  <2>4. CASE d.is # "text"
    <3>1. Len(deltas) = 1 /\ goroutine = "over" /\ Tells(d, Len(got))
      BY <2>1, <2>4 DEF RelayInv, InTheChannel
    <3>2. /\ callResult' = d /\ UNCHANGED got /\ deltas' = <<>>
          /\ IF d.is = "final" THEN UNCHANGED outcome ELSE outcome' = "failed"
      BY <1>1, <1>2, <2>1, <2>4, <3>1 DEF R!streamCall
    <3>3. d.is \in {"final", "error"}
      BY <2>1, <2>4 DEF Deltas, Errors
    <3>4. RelayTypes' /\ OnTheWire'
      BY <1>1, <2>1, <3>1, <3>2 DEF RelayInv, RelayTypes, OnTheWire, Midway, R!Nothing
    <3>5. InTheChannel' /\ Received'
      <4>1. Tells(d, Len(got)) => Tells(callResult, Len(got))'
        BY <1>1, <3>2 DEF Tells
      <4>2. Len(got) <= wrote /\ Len(deltas') = 0 /\ Len(got) \in Nat
        BY <3>1, <3>2 DEF Tells, RelayInv, RelayTypes
      <4>3. InTheChannel'
        BY <1>1, <3>1, <3>2, <4>2 DEF InTheChannel
      <4>4. Received'
        BY <1>1, <3>1, <3>2, <3>3, <4>1 DEF RelayInv, Received
      <4>. QED  BY <4>3, <4>4
    <3>. QED  BY <3>4, <3>5 DEF RelayInv
  <2>. QED  BY <2>3, <2>4
<1>3. CASE deltas = <<>> /\ UNCHANGED <<deltas, got, callResult>>
  <2>1. goroutine = "over" /\ outcome' = (IF callResult = R!Nothing THEN "lost" ELSE "answered")
    BY <1>1, <1>3 DEF R!streamCall
  <2>2. RelayTypes' /\ OnTheWire'
    BY <1>1, <1>3, <2>1 DEF RelayInv, RelayTypes, OnTheWire, Midway, R!Nothing
  <2>3. InTheChannel' /\ Received'
    BY <1>1, <1>3, <2>1 DEF RelayInv, InTheChannel, Received, Tells, R!Nothing
  <2>. QED  BY <2>2, <2>3 DEF RelayInv
<1>. QED  BY <1>2, <1>3 DEF R!streamCall

\* In every state of a model call the invariant holds.
LEMMA RelayInvariance == Spec => [](part = "relay" => RelayInv)
<1>1. Init => (part = "relay" => RelayInv)
  BY
     DEF Init, R!Init, RelayInv, RelayTypes, OnTheWire, Counted, DoneIsLast, Numbered, LastFrame, Midway, Taken, Comments, Dones, Lasts,
     InTheChannel, Received, R!Nothing
<1>2. (part = "relay" => RelayInv) /\ [Next]_partsVars => (part = "relay" => RelayInv)'
  <2>1. CASE UNCHANGED relayVars
    <3>1. UNCHANGED <<relaying, wrote, lastFrame, trail, frames, goroutine, sending, deltas, got,
                      callResult, outcome>>
      BY <2>1 DEF relayVars
    <3>2. RelayTypes' = RelayTypes
      BY <3>1 DEF RelayTypes, R!Nothing
    <3>3. OnTheWire' = OnTheWire
      BY <3>1
         DEF OnTheWire, Counted, DoneIsLast, Numbered, LastFrame, Midway, Taken, Comments, Dones, Lasts
    <3>4. InTheChannel' = InTheChannel /\ Received' = Received
      BY <3>1 DEF InTheChannel, Received, Tells, R!Nothing
    <3>. QED  BY <3>2, <3>3, <3>4, OneStep DEF RelayInv
  <2>. QED
    BY <2>1, OneStep, GatewayStep, ScanStep, SenderStep, AgentStep DEF R!Next, R!Goroutines
<1>. QED  BY <1>1, <1>2, PTL DEF Spec

\* The agent has the answer as the gateway wrote it, takes no cut one for whole,
\* and knows a failure worth a retry (ChatCompletionStream, streamCall).
THEOREM AnswersAreWhole == Spec => []AnswerAsWritten
<1>1. (part = "relay" => RelayInv) => AnswerAsWritten
  <2>. SUFFICES ASSUME RelayInv PROVE R!AnswerAsWritten
    BY DEF AnswerAsWritten
  <2>1. Len(got) <= wrote
    <3>1. CASE \A i \in 1..Len(deltas) : deltas[i].is = "text"
      BY <3>1 DEF RelayInv, RelayTypes, InTheChannel
    <3>2. ASSUME NEW i \in 1..Len(deltas), deltas[i].is # "text"
          PROVE  Len(got) <= wrote
      <4>1. Len(got) + i - 1 <= wrote
        BY <3>2 DEF RelayInv, InTheChannel, Tells
      <4>. QED  BY <4>1 DEF RelayInv, RelayTypes
    <3>. QED  BY <3>1, <3>2
  <2>. QED
    BY <2>1 DEF R!AnswerAsWritten, RelayInv, RelayTypes, Received, Tells, Deltas, Errors
<1>. QED  BY <1>1, RelayInvariance, PTL

(***************************************************************************)
(* Background processes.  At most one poll of the panel is not stale, it   *)
(* asks with the cursor the panel has, and what it read goes on there.     *)
(***************************************************************************)
Positions == Nat \cup {B!NoCursor}
BadgePolls == [poll : {"badge"}, gen : Nat, at : {"asked", "tick"}]
Asks == [poll : {"panel"}, gen : Nat, at : {"asked"}, proc : Procs \cup {0}, cursor : Positions]
Unreads == [poll : {"panel"}, gen : Nat, at : {"tick", "failed", "empty"}]
Outputs == [output : Seq(Nat), cursor : Nat, reset : BOOLEAN]
Reads == [poll : {"panel"}, gen : Nat, at : {"read"}, proc : Procs, got : Outputs]

PanelTypes ==
  /\ table \subseteq Procs
  /\ total \in [Procs -> Nat]
  /\ panelGen \in Nat /\ badgeGen \in Nat
  /\ selected \in Procs \cup {0}
  /\ logs \in [Procs -> Seq(Nat)]
  /\ cursors \in [Procs -> Positions]
  /\ polls \subseteq BadgePolls \cup Asks \cup Unreads \cup Reads

\* The numbers after a up to b continue a character.
Skippable(a, b) == \A k \in (a + 1)..b : k \in Inside

\* A log is a stretch of positions that leads to the cursor c.
Stretch(log, c) ==
  /\ \A i \in 1..Len(log) : log[i] <= c
  /\ \A i \in 1..(Len(log) - 1) : log[i] < log[i + 1] /\ Skippable(log[i], log[i + 1] - 1)
  /\ log # <<>> => Skippable(log[Len(log)], c)

\* An output is what was written after some position, up to its cursor; one that
\* resets nothing starts where a cursor c is, but for the rest of a character.
GoesOn(text, c) ==
  \E i \in 0..text.cursor :
    /\ text.output = [k \in 1..(text.cursor - i) |-> i + k]
    /\ ~text.reset => c # B!NoCursor /\ c <= i /\ Skippable(c, i)

OnePoll ==
  /\ \A r \in polls : r.poll = "panel" =>
       /\ r.gen <= panelGen
       /\ r.gen = panelGen => panel = "processes"
       /\ r.gen = panelGen /\ r.at = "asked" => r.cursor = B!processCursor(r.proc)
       /\ r.gen = panelGen /\ r.at = "read" => GoesOn(r.got, cursors[r.proc])
  /\ \A r, s \in polls :
       r.poll = "panel" /\ s.poll = "panel" /\ r.gen = panelGen /\ s.gen = panelGen => r = s

Copied == \A p \in Procs : Stretch(logs[p], cursors[p])

PanelInv == PanelTypes /\ OnePoll /\ Copied

\* The tail of a stretch is one.
LEMMA TailOfStretch ==
  ASSUME NEW log \in Seq(Nat), NEW c \in Nat, Stretch(log, c)
  PROVE  B!KeepTail(log) \in Seq(Nat) /\ Stretch(B!KeepTail(log), c)
<1>. DEFINE n == Len(log)
            m == B!Larger(1, n - LocalMax + 1)
            tail == SubSeq(log, m, n)
<1>1. LocalMax \in Nat /\ LocalMax > 0 /\ n \in Nat
  BY PartsAssumption DEF B!BackgroundAssumption
<1>2. m \in Nat /\ m >= 1 /\ (n > 0 => m <= n) /\ (n = 0 => m = 1)
  BY <1>1 DEF B!Larger
<1>3. B!KeepTail(log) = tail
  BY DEF B!KeepTail
<1>4. CASE n = 0
  <2>1. tail = <<>>
    BY <1>2, <1>4
  <2>. HIDE DEF tail
  <2>2. tail \in Seq(Nat) /\ Len(tail) = 0
    BY <2>1
  <2>. QED  BY <1>3, <2>1, <2>2 DEF Stretch
<1>5. CASE n > 0
  <2>1. /\ tail \in Seq(Nat) /\ Len(tail) = n - m + 1
        /\ \A i \in 1..Len(tail) : tail[i] = log[m + i - 1]
    <3>1. m \in 1..n
      BY <1>1, <1>2, <1>5
    <3>. HIDE DEF m
    <3>. QED  BY <1>1, <3>1
  <2>2. \A i \in 1..Len(tail) : m + i - 1 \in 1..n
    BY <1>1, <1>2, <1>5, <2>1
  <2>3. \A i \in 1..(Len(tail) - 1) :
          /\ m + i - 1 \in 1..(n - 1) /\ tail[i] = log[m + i - 1]
          /\ tail[i + 1] = log[(m + i - 1) + 1]
    <3>. HIDE DEF tail, m, n
    <3>1. TAKE i \in 1..(Len(tail) - 1)
    <3>2. i \in 1..Len(tail) /\ i + 1 \in 1..Len(tail) /\ m + i - 1 \in 1..(n - 1)
      BY <1>1, <1>2, <1>5, <2>1
    <3>3. m + (i + 1) - 1 = (m + i - 1) + 1
      BY <1>2
    <3>. QED  BY <2>1, <3>2, <3>3
  <2>4. Len(tail) > 0 /\ tail[Len(tail)] = log[n]
    <3>. HIDE DEF tail, m, n
    <3>1. Len(tail) \in 1..Len(tail) /\ m + Len(tail) - 1 = n
      BY <1>1, <1>2, <1>5, <2>1
    <3>. QED  BY <2>1, <3>1
  <2>. HIDE DEF tail, m
  <2>5. \A i \in 1..Len(tail) : tail[i] <= c
    BY <2>1, <2>2 DEF Stretch
  <2>6. \A i \in 1..(Len(tail) - 1) : tail[i] < tail[i + 1] /\ Skippable(tail[i], tail[i + 1] - 1)
    BY <2>3 DEF Stretch
  <2>7. tail # <<>> => Skippable(tail[Len(tail)], c)
    BY <1>5, <2>4 DEF Stretch
  <2>. QED  BY <1>3, <2>1, <2>5, <2>6, <2>7 DEF Stretch
<1>. QED  BY <1>1, <1>4, <1>5

\* Two skippable stretches make one.
LEMMA SkipOn ==
  ASSUME NEW a \in Nat, NEW b \in Nat, NEW c \in Nat, a <= b, b <= c,
         Skippable(a, b), Skippable(b, c)
  PROVE  Skippable(a, c)
<1>. SUFFICES ASSUME NEW k \in (a + 1)..c  PROVE k \in Inside
  BY DEF Skippable
<1>1. k \in (a + 1)..b \/ k \in (b + 1)..c
  OBVIOUS
<1>. QED  BY <1>1 DEF Skippable

\* An output by its length and its positions.
LEMMA OutputLong ==
  ASSUME NEW a \in Nat, NEW n \in Nat
  PROVE  /\ [k \in 1..n |-> a + k] \in Seq(Nat)
         /\ Len([k \in 1..n |-> a + k]) = n
         /\ \A k \in 1..n : [j \in 1..n |-> a + j][k] = a + k
<1>. DEFINE f == [k \in 1..n |-> a + k]
<1>1. f \in [1..n -> Nat]
  OBVIOUS
<1>2. f \in Seq(Nat) /\ Len(f) = n
  BY <1>1
<1>3. \A k \in 1..n : f[k] = a + k
  OBVIOUS
<1>. QED  BY <1>2, <1>3

\* What was read goes on a log, or starts one.
LEMMA StretchGrows ==
  ASSUME NEW log \in Seq(Nat), NEW c \in Positions, Stretch(log, c),
         NEW text \in Outputs, GoesOn(text, c)
  PROVE  LET more == (IF text.reset THEN <<>> ELSE log) \o text.output
         IN  more \in Seq(Nat) /\ Stretch(more, text.cursor)
<1>. DEFINE all == text.cursor
            out == text.output
            old == IF text.reset THEN <<>> ELSE log
            more == old \o out
<1>1. PICK i \in 0..all : /\ out = [k \in 1..(all - i) |-> i + k]
                          /\ ~text.reset => c # B!NoCursor /\ c <= i /\ Skippable(c, i)
  BY DEF GoesOn
<1>2. all \in Nat /\ i \in Nat /\ i <= all /\ out \in Seq(Nat) /\ old \in Seq(Nat)
  <2>1. all \in Nat /\ out \in Seq(Nat)
    BY DEF Outputs
  <2>2. old \in Seq(Nat)
    OBVIOUS
  <2>. QED  BY <1>1, <2>1, <2>2
<1>3. Len(out) = all - i /\ \A k \in 1..Len(out) : out[k] = i + k
  <2>1. all - i \in Nat /\ out = [k \in 1..(all - i) |-> i + k]
    BY <1>1, <1>2
  <2>. HIDE DEF all, out
  <2>2. Len(out) = all - i
    BY <1>2, <2>1, OutputLong
  <2>3. \A k \in 1..(all - i) : out[k] = i + k
    BY <1>2, <2>1, OutputLong
  <2>. QED  BY <2>2, <2>3
<1>4. /\ \A k \in 1..Len(old) : old[k] <= i
      /\ \A k \in 1..(Len(old) - 1) : old[k] < old[k + 1] /\ Skippable(old[k], old[k + 1] - 1)
      /\ old # <<>> => Skippable(old[Len(old)], i)
  <2>1. CASE text.reset
    <3>1. Len(old) = 0 /\ old = <<>>
      BY <2>1
    <3>. HIDE DEF old
    <3>. QED  BY <3>1
  <2>2. CASE ~text.reset
    <3>1. old = log /\ c \in Nat /\ c <= i /\ Skippable(c, i)
      <4>1. old = log
        BY <2>2
      <4>2. c # B!NoCursor /\ c <= i /\ Skippable(c, i)
        BY <1>1, <2>2
      <4>3. c \in Nat
        BY <4>2 DEF Positions
      <4>. QED  BY <4>1, <4>2, <4>3
    <3>2. \A k \in 1..Len(log) : log[k] \in Nat /\ log[k] <= c
      BY DEF Stretch
    <3>3. log # <<>> => Skippable(log[Len(log)], i)
      <4>. SUFFICES ASSUME log # <<>>  PROVE Skippable(log[Len(log)], i)
        OBVIOUS
      <4>1. Len(log) \in 1..Len(log)
        OBVIOUS
      <4>2. Skippable(log[Len(log)], c)
        BY DEF Stretch
      <4>. QED  BY <1>2, <3>1, <3>2, <4>1, <4>2, SkipOn
    <3>4. \A k \in 1..(Len(log) - 1) : log[k] < log[k + 1] /\ Skippable(log[k], log[k + 1] - 1)
      BY DEF Stretch
    <3>5. \A k \in 1..Len(log) : log[k] <= i
      BY <1>2, <3>1, <3>2
    <3>. HIDE DEF old
    <3>. QED  BY <3>1, <3>3, <3>4, <3>5
  <2>. QED  BY <2>1, <2>2
<1>. HIDE DEF all, out, old
<1>5. /\ more \in Seq(Nat) /\ Len(more) = Len(old) + Len(out)
      /\ \A k \in 1..Len(old) : more[k] = old[k]
      /\ \A k \in 1..Len(out) : more[Len(old) + k] = out[k]
  BY <1>2
<1>6. Len(old) \in Nat /\ Len(out) \in Nat /\ \A k \in 1..Len(old) : old[k] \in Nat
  BY <1>2
<1>. HIDE DEF more
<1>7. ASSUME NEW k \in 1..Len(more)
      PROVE  \/ k \in 1..Len(old) /\ more[k] = old[k]
             \/ k - Len(old) \in 1..Len(out) /\ more[k] = i + (k - Len(old))
  <2>1. CASE k <= Len(old)
    BY <1>5, <1>6, <2>1
  <2>2. CASE k > Len(old)
    <3>1. k - Len(old) \in 1..Len(out) /\ k = Len(old) + (k - Len(old))
      BY <1>5, <1>6, <2>2
    <3>. QED  BY <1>3, <1>5, <3>1
  <2>. QED  BY <1>6, <2>1, <2>2
<1>8. \A k \in 1..Len(more) : more[k] <= all
  <2>. TAKE k \in 1..Len(more)
  <2>1. CASE k \in 1..Len(old) /\ more[k] = old[k]
    BY <1>2, <1>4, <1>6, <2>1
  <2>2. CASE k - Len(old) \in 1..Len(out) /\ more[k] = i + (k - Len(old))
    BY <1>2, <1>3, <2>2
  <2>. QED  BY <1>7, <2>1, <2>2
<1>9. ASSUME NEW k \in 1..(Len(more) - 1)
      PROVE  more[k] < more[k + 1] /\ Skippable(more[k], more[k + 1] - 1)
  <2>0. k \in 1..Len(more) /\ k + 1 \in 1..Len(more)
    BY <1>5, <1>6
  <2>1. CASE k < Len(old)
    <3>1. k \in 1..(Len(old) - 1) /\ k \in 1..Len(old) /\ k + 1 \in 1..Len(old)
      BY <1>6, <2>1
    <3>2. more[k] = old[k] /\ more[k + 1] = old[k + 1]
      BY <1>5, <3>1
    <3>. QED  BY <1>4, <3>1, <3>2
  <2>2. CASE k = Len(old)
    <3>1. more[k] = old[k] /\ old[k] \in Nat /\ old[k] <= i /\ old # <<>> /\ Skippable(old[k], i)
      BY <1>4, <1>5, <1>6, <2>2
    <3>2. more[k + 1] = i + 1
      <4>1. ~(k + 1 \in 1..Len(old)) /\ (k + 1) - Len(old) = 1
        BY <1>6, <2>2
      <4>. QED  BY <1>7, <2>0, <4>1
    <3>. QED  BY <1>2, <3>1, <3>2
  <2>3. CASE k > Len(old)
    <3>1. more[k] = i + (k - Len(old)) /\ more[k + 1] = i + ((k + 1) - Len(old))
      BY <1>6, <1>7, <2>0, <2>3
    <3>2. more[k] \in Nat /\ more[k + 1] = more[k] + 1
      BY <1>2, <1>6, <2>3, <3>1
    <3>. QED  BY <3>2 DEF Skippable
  <2>. QED  BY <1>6, <2>1, <2>2, <2>3
<1>10. more # <<>> => Skippable(more[Len(more)], all)
  <2>. SUFFICES ASSUME more # <<>>  PROVE Skippable(more[Len(more)], all)
    OBVIOUS
  <2>1. Len(more) \in 1..Len(more)
    BY <1>5
  <2>2. CASE Len(out) = 0
    <3>1. Len(more) \in 1..Len(old) /\ Len(more) = Len(old) /\ all = i
      BY <1>2, <1>3, <1>5, <1>6, <2>1, <2>2
    <3>2. old # <<>>
      BY <3>1
    <3>. QED  BY <1>4, <1>5, <3>1, <3>2
  <2>3. CASE Len(out) > 0
    <3>1. more[Len(more)] = all
      <4>1. ~(Len(more) \in 1..Len(old)) /\ Len(more) - Len(old) = all - i
        BY <1>3, <1>5, <1>6, <2>3
      <4>2. more[Len(more)] = i + (all - i)
        BY <1>7, <2>1, <4>1
      <4>. QED  BY <1>2, <4>2
    <3>. QED  BY <1>2, <3>1 DEF Skippable
  <2>. QED  BY <1>6, <2>2, <2>3
<1>. QED  BY <1>5, <1>8, <1>9, <1>10 DEF Stretch, more, old, out, all

\* A read starts where a character does, after what it skips.
LEMMA StartOfRune ==
  ASSUME NEW p \in Procs, total \in [Procs -> Nat], NEW i \in 0..total[p]
  PROVE  B!RuneStart(p, i) \in i..total[p] /\ Skippable(i, B!RuneStart(p, i))
<1>. DEFINE all == total[p]
            ends == {j \in i..all : j = all \/ j + 1 \notin Inside}
            Good(j) == (\A k \in i..(j - 1) : k + 1 \in Inside) /\ (j = all \/ j + 1 \notin Inside)
<1>1. all \in Nat /\ i \in Nat /\ i <= all
  OBVIOUS
<1>. HIDE DEF all
<1>2. ends \in SUBSET Nat /\ all \in ends
  BY <1>1
<1>3. PICK j \in ends : \A k \in ends : j <= k
  <2>. HIDE DEF ends
  <2>. QED  BY <1>2, LeastMember
<1>4. j \in i..all /\ (j = all \/ j + 1 \notin Inside)
  BY <1>3
<1>5. \A k \in i..(j - 1) : k + 1 \in Inside
  BY <1>1, <1>3, <1>4
<1>6. \E m \in i..all : Good(m)
  BY <1>4, <1>5
<1>7. B!RuneStart(p, i) = CHOOSE m \in i..all : Good(m)
  BY DEF B!RuneStart, all
<1>8. B!RuneStart(p, i) \in i..all /\ Good(B!RuneStart(p, i))
  <2>. HIDE DEF Good
  <2>. QED  BY <1>6, <1>7
<1>9. ASSUME NEW k \in (i + 1)..B!RuneStart(p, i)  PROVE k \in Inside
  <2>1. k - 1 \in i..(B!RuneStart(p, i) - 1) /\ (k - 1) + 1 = k
    BY <1>1, <1>8
  <2>. QED  BY <1>8, <2>1
<1>. QED  BY <1>8, <1>9 DEF Skippable, all

\* A read with the panel's cursor goes on there.
LEMMA ReadGoesOn ==
  ASSUME NEW p \in Procs, total \in [Procs -> Nat], NEW c \in Positions
  PROVE  B!outputSince(p, c) \in Outputs /\ GoesOn(B!outputSince(p, c), c)
<1>. DEFINE all == total[p]
            from == B!From(p, c)
            i == B!RuneStart(p, from)
            text == B!outputSince(p, c)
<1>1. all \in Nat /\ Retain \in Nat /\ Retain > 0 /\ Chunk \in Nat /\ Chunk > 0
  BY PartsAssumption DEF B!BackgroundAssumption
<1>2. B!RetainedStart(p) \in 0..all
  BY <1>1 DEF B!RetainedStart, B!Larger
<1>3. B!Appends(p, c) => from = c /\ c # B!NoCursor /\ c \in 0..all
  BY <1>2 DEF B!From, B!Appends, Positions
<1>4. ~B!Appends(p, c) => from \in 0..all
  BY <1>1, <1>2 DEF B!From, B!Larger
<1>5. i \in from..all /\ Skippable(from, i)
  <2>. HIDE DEF from
  <2>. QED  BY <1>3, <1>4, StartOfRune
<1>6. i \in 0..all
  BY <1>1, <1>3, <1>4, <1>5
<1>7. /\ text.output = [k \in 1..(all - i) |-> i + k]
      /\ text.cursor = all /\ text.reset = ~B!Appends(p, c)
      /\ text = [output |-> text.output, cursor |-> text.cursor, reset |-> text.reset]
  BY DEF B!outputSince
<1>. HIDE DEF all, i, from, text
<1>8. text.output \in Seq(Nat)
  <2>1. all - i \in Nat /\ \A k \in 1..(all - i) : i + k \in Nat
    BY <1>1, <1>6
  <2>. QED  BY <1>7, <2>1
<1>9. text \in Outputs
  <2>1. text.cursor \in Nat /\ text.reset \in BOOLEAN
    BY <1>1, <1>7
  <2>. QED  BY <1>7, <1>8, <2>1 DEF Outputs
<1>10. ~text.reset => c # B!NoCursor /\ c <= i /\ Skippable(c, i)
  <2>. SUFFICES ASSUME ~text.reset  PROVE c # B!NoCursor /\ c <= i /\ Skippable(c, i)
    OBVIOUS
  <2>1. B!Appends(p, c)
    BY <1>7
  <2>2. from = c /\ c # B!NoCursor /\ c \in 0..all
    BY <1>3, <2>1
  <2>. QED  BY <1>1, <1>5, <2>2
<1>11. GoesOn(text, c)
  BY <1>6, <1>7, <1>10 DEF GoesOn
<1>. QED  BY <1>9, <1>11 DEF text


\* The first process listed is one.
LEMMA FirstIsListed ==
  ASSUME table \subseteq Procs, table # {}
  PROVE  B!First \in table
<1>1. table \in SUBSET Nat
  BY PartsAssumption DEF B!BackgroundAssumption
<1>2. \E p \in table : \A q \in table : p <= q
  BY <1>1, LeastMember
<1>3. \E p : p \in table /\ \A q \in table : p <= q
  BY <1>2
<1>. QED  BY <1>3 DEF B!First

ProcOrNone == Procs \cup {0}

LEMMA CursorType ==
  ASSUME cursors \in [Procs -> Positions], NEW p \in ProcOrNone
  PROVE  B!processCursor(p) \in Positions
BY DEF B!processCursor, Positions, ProcOrNone

\* The daemon's steps and the badge's leave the panel and its polls alone.
LEMMA PanelStays ==
  ASSUME PanelInv, UNCHANGED <<panel, panelGen, selected, logs, cursors, polls>>,
         table' \subseteq Procs, total' \in [Procs -> Nat], badgeGen' \in Nat
  PROVE  PanelInv'
BY DEF PanelInv, PanelTypes, OnePoll, Copied, Stretch, Skippable, GoesOn, B!processCursor

\* A poll of an earlier generation, or of the badge, comes and goes.
LEMMA OtherPolls ==
  ASSUME PanelInv, UNCHANGED <<panel, panelGen, selected, logs, cursors>>,
         table' \subseteq Procs, total' \in [Procs -> Nat], badgeGen' \in Nat,
         NEW r, NEW more \in SUBSET BadgePolls, polls' = (polls \ {r}) \cup more
  PROVE  PanelInv'
<1>1. \A s \in more : s.poll = "badge" /\ s.poll # "panel"
  BY DEF BadgePolls
<1>2. PanelTypes'
  BY DEF PanelInv, PanelTypes
<1>3. \A s \in polls' : s.poll = "panel" => s \in polls
  BY <1>1
<1>4. OnePoll'
  BY <1>3 DEF PanelInv, OnePoll, B!processCursor
<1>5. Copied'
  BY DEF PanelInv, Copied
<1>. QED  BY <1>2, <1>4, <1>5 DEF PanelInv

\* The poll of this generation gives way to its next point.
LEMMA NextPoint ==
  ASSUME PanelInv, NEW r \in polls, r.poll = "panel",
         UNCHANGED <<panel, panelGen>>,
         table' \subseteq Procs, total' \in [Procs -> Nat], badgeGen' \in Nat,
         selected' \in Procs \cup {0},
         logs' \in [Procs -> Seq(Nat)], cursors' \in [Procs -> Positions], Copied',
         NEW s \in Asks \cup Unreads \cup Reads,
         s.gen = r.gen, polls' = (polls \ {r}) \cup {s},
         r.gen # panelGen => UNCHANGED cursors,
         s.at = "asked" => s.cursor = B!processCursor(s.proc)',
         s.at = "read" => GoesOn(s.got, cursors'[s.proc]) \/ r.gen # panelGen
  PROVE  PanelInv'
<1>1. s.poll = "panel"
  BY DEF Asks, Unreads, Reads
<1>2. PanelTypes'
  BY DEF PanelInv, PanelTypes
<1>3. r.gen <= panelGen /\ (r.gen = panelGen => panel = "processes")
  BY DEF PanelInv, OnePoll
<1>4. \A q \in polls' : q = s \/ (q \in polls /\ q # r)
  OBVIOUS
<1>5. \A q \in polls : q.poll = "panel" /\ q.gen = panelGen /\ q # r => r.gen # panelGen
  BY DEF PanelInv, OnePoll
<1>6. ASSUME NEW q \in polls', q.poll = "panel"
      PROVE  /\ q.gen <= panelGen
             /\ q.gen = panelGen => panel = "processes"
             /\ q.gen = panelGen /\ q.at = "asked" => q.cursor = B!processCursor(q.proc)'
             /\ q.gen = panelGen /\ q.at = "read" => GoesOn(q.got, cursors'[q.proc])
  <2>1. CASE q = s
    BY <1>3, <2>1
  <2>2. CASE q \in polls /\ q # r
    <3>1. /\ q.gen <= panelGen
          /\ q.gen = panelGen => panel = "processes"
          /\ q.gen = panelGen /\ q.at = "asked" => q.cursor = B!processCursor(q.proc)
          /\ q.gen = panelGen /\ q.at = "read" => GoesOn(q.got, cursors[q.proc])
      BY <1>6, <2>2 DEF PanelInv, OnePoll
    <3>2. q.gen = panelGen => cursors' = cursors
      BY <1>5, <1>6, <2>2
    <3>. QED  BY <3>1, <3>2 DEF B!processCursor
  <2>. QED  BY <1>4, <2>1, <2>2
<1>7. ASSUME NEW q \in polls', NEW o \in polls', q.poll = "panel", o.poll = "panel",
             q.gen = panelGen, o.gen = panelGen
      PROVE  q = o
  <2>1. q = s \/ o = s => q = s /\ o = s
    BY <1>4, <1>5, <1>7
  <2>2. q # s /\ o # s => q = o
    BY <1>4, <1>7 DEF PanelInv, OnePoll
  <2>. QED  BY <2>1, <2>2
<1>8. OnePoll'
  BY <1>6, <1>7 DEF OnePoll
<1>. QED  BY <1>2, <1>8 DEF PanelInv

\* Opening the panel, or another process in it, starts a generation.
LEMMA NextGeneration ==
  ASSUME PanelInv, UNCHANGED <<table, total, logs, cursors>>,
         panelGen' = panelGen + 1, badgeGen' \in Nat, selected' \in Procs \cup {0},
         NEW more \in SUBSET (BadgePolls \cup Asks), polls' = polls \cup more,
         \A s \in more : s.poll = "panel" =>
           /\ s.gen = panelGen' /\ panel' = "processes"
           /\ s.cursor = B!processCursor(s.proc),
         \A s, o \in more : s.poll = "panel" /\ o.poll = "panel" => s = o
  PROVE  PanelInv'
<1>0. panelGen \in Nat
  BY DEF PanelInv, PanelTypes
<1>1. PanelTypes'
  BY <1>0 DEF PanelInv, PanelTypes
<1>2. \A q \in polls : q.poll = "panel" => q.gen <= panelGen /\ q.gen \in Nat
  BY DEF PanelInv, OnePoll, PanelTypes, BadgePolls, Asks, Unreads, Reads
<1>3. \A q \in polls : q.poll = "panel" => q.gen < panelGen' /\ q.gen # panelGen'
  BY <1>0, <1>2
<1>4. \A s \in more : s.poll = "panel" => s.at # "read"
  BY DEF BadgePolls, Asks
<1>5. \A p : B!processCursor(p)' = B!processCursor(p)
  BY DEF B!processCursor
<1>6. ASSUME NEW q \in polls', q.poll = "panel"
      PROVE  /\ q.gen <= panelGen'
             /\ q.gen = panelGen' => panel' = "processes"
             /\ q.gen = panelGen' /\ q.at = "asked" => q.cursor = B!processCursor(q.proc)'
             /\ q.gen = panelGen' /\ q.at = "read" => GoesOn(q.got, cursors'[q.proc])
  <2>1. CASE q \in polls
    BY <1>0, <1>2, <1>3, <1>6, <2>1
  <2>2. CASE q \in more
    BY <1>0, <1>4, <1>5, <1>6, <2>2
  <2>. QED  BY <2>1, <2>2
<1>7. \A q, o \in polls' :
        q.poll = "panel" /\ o.poll = "panel" /\ q.gen = panelGen' /\ o.gen = panelGen' => q = o
  BY <1>3
<1>8. OnePoll' /\ Copied'
  BY <1>6, <1>7 DEF OnePoll, PanelInv, Copied
<1>. QED  BY <1>1, <1>8 DEF PanelInv


\* Which of the kinds of polls one is.
LEMMA PollIs ==
  ASSUME PanelTypes, NEW r \in polls
  PROVE  /\ r.poll = "badge" => r \in BadgePolls
         /\ r.poll = "panel" /\ r.at = "asked" => r \in Asks
         /\ r.poll = "panel" /\ r.at \in {"tick", "failed", "empty"} => r \in Unreads
         /\ r.poll = "panel" /\ r.at = "read" => r \in Reads
         /\ r.gen \in Nat
BY DEF PanelTypes, BadgePolls, Asks, Unreads, Reads

LEMMA FetchKeeps ==
  ASSUME PanelInv, NEW r \in polls, B!fetchProcessSnapshot(r)
  PROVE  PanelInv'
<1>. DEFINE p == IF r.proc \in table THEN r.proc ELSE B!First
            c == IF r.proc \in table THEN r.cursor ELSE B!NoCursor
            text == B!outputSince(p, c)
<1>1. r.poll = "panel" /\ r.at = "asked" /\ r \in Asks /\ r.gen \in Nat
  BY PollIs DEF B!fetchProcessSnapshot, PanelInv
<1>2. /\ UNCHANGED <<panel, panelGen, selected, logs, cursors, badgeGen, table, total>>
      /\ \/ polls' = (polls \ {r}) \cup {B!Unread(r.gen, "failed")}
         \/ polls' = (polls \ {r}) \cup {B!Unread(r.gen, "empty")}
         \/ p # 0 /\ polls' = (polls \ {r}) \cup {B!Read(r.gen, p, text)}
  BY DEF B!fetchProcessSnapshot, B!daemonVars
<1>3. /\ table' \subseteq Procs /\ total' \in [Procs -> Nat] /\ badgeGen' \in Nat
      /\ selected' \in Procs \cup {0} /\ logs' \in [Procs -> Seq(Nat)]
      /\ cursors' \in [Procs -> Positions] /\ Copied'
  BY <1>2 DEF PanelInv, PanelTypes, Copied
<1>4. ASSUME NEW why \in {"failed", "empty"},
             polls' = (polls \ {r}) \cup {B!Unread(r.gen, why)}
      PROVE  PanelInv'
  <2>1. B!Unread(r.gen, why) \in Asks \cup Unreads \cup Reads
    BY <1>1 DEF B!Unread, Unreads
  <2>2. B!Unread(r.gen, why).gen = r.gen /\ B!Unread(r.gen, why).at = why
    BY DEF B!Unread
  <2>. QED  BY <1>1, <1>2, <1>3, <1>4, <2>1, <2>2, NextPoint
<1>5. ASSUME p # 0, polls' = (polls \ {r}) \cup {B!Read(r.gen, p, text)}
      PROVE  PanelInv'
  <2>1. p \in Procs
    <3>1. table # {} \/ B!First = 0
      BY DEF B!First
    <3>. QED  BY <1>5, <3>1, FirstIsListed DEF PanelInv, PanelTypes
  <2>2. c \in Positions
    BY <1>1 DEF Asks, Positions
  <2>3. text \in Outputs /\ GoesOn(text, c)
    <3>. HIDE DEF p, c
    <3>. QED  BY <2>1, <2>2, ReadGoesOn DEF PanelInv, PanelTypes
  <2>. HIDE DEF text
  <2>4. GoesOn(text, cursors[p]) \/ r.gen # panelGen
    <3>1. CASE r.proc \in table /\ r.gen = panelGen
      <4>1. r.cursor = B!processCursor(r.proc)
        BY <1>1, <3>1 DEF PanelInv, OnePoll
      <4>2. r.proc \in Procs /\ r.proc # 0
        BY <3>1, PartsAssumption DEF PanelInv, PanelTypes, B!BackgroundAssumption
      <4>3. c = cursors[p]
        BY <3>1, <4>1, <4>2 DEF B!processCursor
      <4>. QED  BY <2>3, <4>3
    <3>2. CASE r.proc \notin table
      <4>1. GoesOn(text, B!NoCursor)
        BY <2>3, <3>2
      <4>. QED  BY <4>1 DEF GoesOn
    <3>. QED  BY <3>1, <3>2
  <2>. HIDE DEF p
  <2>5. B!Read(r.gen, p, text) \in Asks \cup Unreads \cup Reads
    BY <1>1, <2>1, <2>3 DEF B!Read, Reads
  <2>6. /\ B!Read(r.gen, p, text).gen = r.gen /\ B!Read(r.gen, p, text).at = "read"
        /\ B!Read(r.gen, p, text).proc = p /\ B!Read(r.gen, p, text).got = text
    BY DEF B!Read
  <2>7. cursors' = cursors
    BY <1>2
  <2>. QED  BY <1>1, <1>2, <1>3, <1>5, <2>4, <2>5, <2>6, <2>7, NextPoint
<1>. QED  BY <1>2, <1>4, <1>5

LEMMA ApplyKeeps ==
  ASSUME PanelInv, NEW r \in polls, B!applyProcessSnapshot(r)
  PROVE  PanelInv'
<1>1. /\ r.poll = "panel" /\ r.at \in {"failed", "empty", "read"} /\ r.gen \in Nat
      /\ UNCHANGED <<panel, panelGen, badgeGen, table, total>>
  BY PollIs DEF B!applyProcessSnapshot, PanelInv, B!daemonVars
<1>2. table' \subseteq Procs /\ total' \in [Procs -> Nat] /\ badgeGen' \in Nat
  BY <1>1 DEF PanelInv, PanelTypes
<1>3. CASE B!Stale(r)
  <2>1. UNCHANGED <<selected, logs, cursors>> /\ polls' = (polls \ {r}) \cup {}
    BY <1>3 DEF B!applyProcessSnapshot
  <2>2. {} \in SUBSET BadgePolls
    OBVIOUS
  <2>. QED  BY <1>1, <1>2, <2>1, <2>2, OtherPolls
<1>4. CASE ~B!Stale(r)
  <2>. DEFINE tick == B!PanelTick(panelGen)
  <2>1. r.gen = panelGen /\ polls' = (polls \ {r}) \cup {tick}
    BY <1>4 DEF B!Stale, B!applyProcessSnapshot
  <2>2. tick \in Asks \cup Unreads \cup Reads /\ tick.gen = panelGen /\ tick.at = "tick"
    BY <1>1, <2>1 DEF B!PanelTick, Unreads
  <2>3. CASE r.at # "read"
    <3>1. logs' = logs /\ cursors' = cursors /\ selected' \in {0, selected}
      BY <1>1, <1>4, <2>3 DEF B!applyProcessSnapshot
    <3>2. /\ logs' \in [Procs -> Seq(Nat)] /\ cursors' \in [Procs -> Positions]
          /\ Copied' /\ selected' \in Procs \cup {0}
      BY <3>1 DEF PanelInv, PanelTypes, Copied
    <3>. HIDE DEF tick
    <3>. QED  BY <1>1, <1>2, <2>1, <2>2, <3>2, NextPoint
  <2>4. CASE r.at = "read"
    <3>. DEFINE p == r.proc
                text == r.got
                more == (IF text.reset THEN <<>> ELSE logs[p]) \o text.output
    <3>1. r \in Reads /\ p \in Procs /\ text \in Outputs
      BY <1>1, <2>4, PollIs DEF PanelInv, Reads
    <3>2. /\ logs' = [logs EXCEPT ![p] = B!KeepTail(more)]
          /\ cursors' = [cursors EXCEPT ![p] = text.cursor]
          /\ selected' = p
      BY <1>4, <2>4 DEF B!applyProcessSnapshot
    <3>3. GoesOn(text, cursors[p])
      BY <1>1, <2>1, <2>4 DEF PanelInv, OnePoll
    <3>4. logs[p] \in Seq(Nat) /\ cursors[p] \in Positions /\ Stretch(logs[p], cursors[p])
      BY <3>1 DEF PanelInv, PanelTypes, Copied
    <3>5. more \in Seq(Nat) /\ Stretch(more, text.cursor)
      BY <3>1, <3>3, <3>4, StretchGrows
    <3>6. text.cursor \in Nat
      BY <3>1 DEF Outputs
    <3>. HIDE DEF more, text, p, tick
    <3>7. B!KeepTail(more) \in Seq(Nat) /\ Stretch(B!KeepTail(more), text.cursor)
      BY <3>5, <3>6, TailOfStretch
    <3>8. logs' \in [Procs -> Seq(Nat)] /\ cursors' \in [Procs -> Positions]
      BY <3>1, <3>2, <3>6, <3>7 DEF PanelInv, PanelTypes, Positions
    <3>9. \A q \in Procs : Stretch(logs'[q], cursors'[q])
      <4>1. \A q \in Procs : q # p => logs'[q] = logs[q] /\ cursors'[q] = cursors[q]
        BY <3>2 DEF PanelInv, PanelTypes
      <4>2. logs'[p] = B!KeepTail(more) /\ cursors'[p] = text.cursor
        BY <3>1, <3>2 DEF PanelInv, PanelTypes
      <4>. QED  BY <3>7, <4>1, <4>2 DEF PanelInv, Copied
    <3>10. Copied' /\ selected' \in Procs \cup {0}
      BY <3>1, <3>2, <3>9 DEF Copied
    <3>. QED  BY <1>1, <1>2, <2>1, <2>2, <3>8, <3>10, NextPoint
  <2>. QED  BY <2>3, <2>4
<1>. QED  BY <1>3, <1>4

LEMMA TickKeeps ==
  ASSUME PanelInv, NEW r \in polls, B!processPollTick(r)
  PROVE  PanelInv'
<1>1. /\ r.poll = "panel" /\ r.gen \in Nat
      /\ UNCHANGED <<panel, panelGen, badgeGen, table, total, selected, logs, cursors>>
  BY PollIs DEF B!processPollTick, PanelInv, B!daemonVars
<1>2. /\ table' \subseteq Procs /\ total' \in [Procs -> Nat] /\ badgeGen' \in Nat
      /\ selected' \in Procs \cup {0} /\ logs' \in [Procs -> Seq(Nat)]
      /\ cursors' \in [Procs -> Positions] /\ Copied'
  BY <1>1 DEF PanelInv, PanelTypes, Copied
<1>3. CASE B!Stale(r)
  <2>1. polls' = (polls \ {r}) \cup {}
    BY <1>3 DEF B!processPollTick
  <2>2. {} \in SUBSET BadgePolls
    OBVIOUS
  <2>. QED  BY <1>1, <1>2, <2>1, <2>2, OtherPolls
<1>4. CASE ~B!Stale(r)
  <2>0. PICK s : s = B!Panel(panelGen, "asked", selected, B!processCursor(selected))
    OBVIOUS
  <2>1. r.gen = panelGen /\ polls' = (polls \ {r}) \cup {s}
    BY <1>4, <2>0 DEF B!processPollTick, B!Stale
  <2>2. selected \in Procs \cup {0} /\ B!processCursor(selected) \in Positions
    BY CursorType DEF PanelInv, PanelTypes, ProcOrNone
  <2>3. s \in Asks /\ s.gen = panelGen /\ s.at = "asked" /\ s.proc = selected
        /\ s.cursor = B!processCursor(selected)
    BY <1>1, <2>0, <2>1, <2>2 DEF B!Panel, Asks
  <2>4. s.cursor = B!processCursor(s.proc)'
    BY <1>1, <2>3 DEF B!processCursor
  <2>. QED  BY <1>1, <1>2, <2>1, <2>3, <2>4, NextPoint
<1>. QED  BY <1>3, <1>4

\* Keys that open the panel or show another process in it.
LEMMA OpenKeepsPanel ==
  ASSUME PanelInv, NEW p \in Procs \cup {0}, B!openProcessPanel(p) \/ B!selectProcess(p)
  PROVE  PanelInv'
<1>. DEFINE s == B!Panel(panelGen + 1, "asked", p, B!processCursor(p))
<1>1. /\ panelGen' = panelGen + 1 /\ badgeGen' \in {badgeGen, badgeGen + 1}
      /\ panel' = "processes" /\ selected' = p
      /\ UNCHANGED <<table, total, logs, cursors>>
      /\ polls' = polls \cup {s}
  BY DEF B!openProcessPanel, B!selectProcess, B!daemonVars
<1>2. panelGen + 1 \in Nat /\ badgeGen' \in Nat /\ B!processCursor(p) \in Positions
  BY <1>1, CursorType DEF PanelInv, PanelTypes, ProcOrNone
<1>3. /\ s \in Asks /\ s.poll = "panel" /\ s.gen = panelGen + 1
      /\ s.cursor = B!processCursor(p) /\ s.proc = p
  BY <1>2 DEF B!Panel, Asks
<1>. HIDE DEF s
<1>4. {s} \in SUBSET (BadgePolls \cup Asks)
  BY <1>3
<1>. QED  BY <1>1, <1>2, <1>3, <1>4, NextGeneration

LEMMA ToggleKeeps ==
  ASSUME PanelInv, B!closeProcessPanel \/ B!togglePanel
  PROVE  PanelInv'
<1>1. CASE B!closeProcessPanel
  <2>. DEFINE s == B!Badge(badgeGen', "asked")
  <2>1. /\ panelGen' = panelGen + 1 /\ badgeGen' = badgeGen + 1
        /\ UNCHANGED <<table, total, logs, cursors, selected>>
        /\ polls' = polls \cup {s}
    BY <1>1 DEF B!closeProcessPanel, B!daemonVars
  <2>2. badgeGen' \in Nat /\ selected' \in Procs \cup {0}
    BY <2>1 DEF PanelInv, PanelTypes
  <2>3. {s} \in SUBSET (BadgePolls \cup Asks) /\ s.poll = "badge"
    BY <2>2 DEF B!Badge, BadgePolls
  <2>. HIDE DEF s
  <2>. QED  BY <2>1, <2>2, <2>3, NextGeneration
<1>2. CASE panel = "processes" /\ B!togglePanel
  <2>1. /\ panelGen' = panelGen + 1 /\ badgeGen' = badgeGen
        /\ UNCHANGED <<table, total, logs, cursors, selected>>
        /\ polls' = polls \cup {}
    BY <1>2 DEF B!togglePanel, B!daemonVars
  <2>2. badgeGen' \in Nat /\ selected' \in Procs \cup {0}
    BY <2>1 DEF PanelInv, PanelTypes
  <2>3. {} \in SUBSET (BadgePolls \cup Asks)
    OBVIOUS
  <2>. QED  BY <2>1, <2>2, <2>3, NextGeneration
<1>3. CASE panel # "processes" /\ B!togglePanel
  <2>1. UNCHANGED <<table, total, panelGen, badgeGen, selected, logs, cursors, polls>>
    BY <1>3 DEF B!togglePanel, B!daemonVars
  <2>2. \A r \in polls : r.poll = "panel" => r.gen <= panelGen /\ r.gen # panelGen
    BY <1>3 DEF PanelInv, OnePoll
  <2>3. OnePoll'
    BY <2>1, <2>2 DEF OnePoll
  <2>4. PanelTypes' /\ Copied'
    BY <2>1 DEF PanelInv, PanelTypes, Copied
  <2>. QED  BY <2>3, <2>4 DEF PanelInv
<1>. QED  BY <1>1, <1>2, <1>3

\* Every step of daemon and panel keeps the invariant.
LEMMA PanelStep ==
  ASSUME PanelInv, B!Next
  PROVE  PanelInv'
<1>1. ASSUME NEW p \in Procs,
             \/ B!Start(p) \/ B!start(p) \/ B!write(p) \/ B!Exits(p)
             \/ B!processKill(p) \/ B!killAll(p)
      PROVE  PanelInv'
  <2>1. /\ UNCHANGED <<panel, panelGen, selected, logs, cursors, polls, badgeGen>>
        /\ table' \in {table, table \cup {p}}
        /\ total' = total \/ total' = [total EXCEPT ![p] = @ + 1]
    BY <1>1 DEF B!Start, B!start, B!write, B!Exits, B!processKill, B!killAll, B!panelVars
  <2>2. table' \subseteq Procs /\ total' \in [Procs -> Nat] /\ badgeGen' \in Nat
    BY <2>1 DEF PanelInv, PanelTypes
  <2>. QED  BY <2>1, <2>2, PanelStays
<1>2. CASE B!StopBackgroundProcesses \/ B!Exit
  <2>1. UNCHANGED <<panel, panelGen, selected, logs, cursors, polls, badgeGen, table, total>>
    BY <1>2 DEF B!StopBackgroundProcesses, B!Exit, B!panelVars
  <2>. QED  BY <2>1, PanelStays DEF PanelInv, PanelTypes
<1>3. ASSUME NEW r \in polls, B!applyBgProcessList(r)  PROVE PanelInv'
  <2>1. r.poll = "badge" /\ r.gen \in Nat
    BY <1>3, PollIs DEF B!applyBgProcessList, PanelInv
  <2>2. PICK at \in {"asked", "tick"} :
          \/ polls' = (polls \ {r}) \cup {} \/ polls' = (polls \ {r}) \cup {B!Badge(r.gen, at)}
    BY <1>3 DEF B!applyBgProcessList
  <2>3. {B!Badge(r.gen, at)} \in SUBSET BadgePolls /\ {} \in SUBSET BadgePolls
    BY <2>1 DEF B!Badge, BadgePolls
  <2>4. UNCHANGED <<panel, panelGen, selected, logs, cursors, table, total, badgeGen>>
    BY <1>3 DEF B!applyBgProcessList, B!daemonVars
  <2>5. table' \subseteq Procs /\ total' \in [Procs -> Nat] /\ badgeGen' \in Nat
    BY <2>4 DEF PanelInv, PanelTypes
  <2>. QED  BY <2>2, <2>3, <2>4, <2>5, OtherPolls
<1>. QED
  BY <1>1, <1>2, <1>3, FetchKeeps, ApplyKeeps, TickKeeps, OpenKeepsPanel, ToggleKeeps DEF B!Next

\* However the panel is closed, opened again or moved while answers are under way,
\* and whatever was trimmed meanwhile: the panel has one stretch of the output,
\* nothing missing and nothing twice (outputSince, applyProcessSnapshot).
THEOREM PanelCopiesFaithfully == Spec => []CopyFaithful
<1>1. Init => (part = "background" => PanelInv)
  <2>. SUFFICES ASSUME B!Init  PROVE PanelInv
    BY DEF Init
  <2>1. polls = {B!Badge(0, "asked")} /\ B!Badge(0, "asked") \in BadgePolls
        /\ B!Badge(0, "asked").poll = "badge"
    BY DEF B!Init, B!Badge, BadgePolls
  <2>2. PanelTypes
    BY <2>1 DEF B!Init, PanelTypes, Positions
  <2>3. OnePoll
    BY <2>1 DEF OnePoll
  <2>4. Copied
    <3>1. \A p \in Procs : logs[p] = <<>>
      BY DEF B!Init
    <3>2. \A c : Stretch(<<>>, c)
      BY DEF Stretch
    <3>. QED  BY <3>1, <3>2 DEF Copied
  <2>. QED  BY <2>2, <2>3, <2>4 DEF PanelInv
<1>2. (part = "background" => PanelInv) /\ [Next]_partsVars => (part = "background" => PanelInv)'
  <2>1. CASE UNCHANGED backgroundVars
    BY <2>1, OneStep
       DEF backgroundVars, PanelInv, PanelTypes, OnePoll, Copied, B!processCursor
  <2>. QED  BY <2>1, OneStep, PanelStep
<1>3. (part = "background" => PanelInv) => CopyFaithful
  <2>. SUFFICES ASSUME PanelInv  PROVE B!CopyFaithful
    BY DEF CopyFaithful
  <2>. SUFFICES ASSUME NEW p \in Procs
                PROVE  /\ \A i \in 1..(Len(logs[p]) - 1) :
                            /\ logs[p][i] < logs[p][i + 1]
                            /\ \A k \in (logs[p][i] + 1)..(logs[p][i + 1] - 1) : k \in Inside
                       /\ \A k \in (IF logs[p] = <<>> THEN cursors[p] + 1
                                    ELSE logs[p][Len(logs[p])] + 1)..cursors[p] : k \in Inside
    BY DEF B!CopyFaithful
  <2>1. Stretch(logs[p], cursors[p])
    BY DEF PanelInv, Copied
  <2>2. cursors[p] \in Int
    BY DEF PanelInv, PanelTypes, Positions, B!NoCursor
  <2>3. (cursors[p] + 1)..cursors[p] = {}
    BY <2>2
  <2>4. logs[p] # <<>> => Skippable(logs[p][Len(logs[p])], cursors[p])
    BY <2>1 DEF Stretch
  <2>5. \A i \in 1..(Len(logs[p]) - 1) :
          logs[p][i] < logs[p][i + 1] /\ Skippable(logs[p][i], logs[p][i + 1] - 1)
    BY <2>1 DEF Stretch
  <2>. QED  BY <2>3, <2>4, <2>5 DEF Skippable
<1>. QED  BY <1>1, <1>2, <1>3, PTL DEF Spec
=============================================================================
