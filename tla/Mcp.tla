-------------------------------- MODULE Mcp --------------------------------
(***************************************************************************)
(* MCP servers (internal/mcp, tools/mcp.go): a client per connection, with *)
(* a table of pending calls and a dispatch loop; a manager that supervises *)
(* every server and reconnects it; the tools the registry bound to the     *)
(* clients of the daemon's start.                                          *)
(*                                                                         *)
(* Clients are numbered in the order they were dialled.  What a call       *)
(* carries is left out, and the schema cache, which nothing reads.  A call *)
(* stands for every request: initialize, tools/list, tools/call and those  *)
(* about resources and prompts.                                            *)
(***************************************************************************)
EXTENDS Naturals, FiniteSets

CONSTANTS
  Servers,      \* entries of mcp.json that are enabled
  Http,         \* those reached over HTTP, the others are processes
  MaxClients,   \* connections ever dialled
  MaxAttempts,  \* reconnectMaxAttempts
  Requests      \* tool calls the model makes

McpAssumption ==
  /\ Http \subseteq Servers
  /\ MaxClients \in Nat /\ MaxAttempts \in Nat \ {0}

Clients == 1..MaxClients
NoClient == 0

VARIABLES
  dialled,     \* how many clients there are
  server,      \* server[c]
  link,        \* link[c]: none, dialing, up, down (out closed), ended (dispatch too)
  body,        \* clients whose server process runs
  closing,     \* clients whose transport Close was called
  late,        \* HTTP clients that owe an answer nobody waits for
  clients,     \* Manager.clients
  supervisor,  \* supervisor[s]: off, watching, sleeping, dialing
  attempt,     \* attempt[s] of reconnect
  manager,     \* connecting, up, cancelled, closed
  bound,       \* bound[s]: the client the registry's tools of s call
  request,     \* request[k]: idle, waiting, answered, dropped, timedout
  through,     \* through[k]: the client a request went to
  panicked     \* a send on a closed channel

links == <<dialled, server, link, body, closing, late>>
managerVars == <<clients, supervisor, attempt, manager>>
requestVars == <<request, through>>
mcpVars == <<links, managerVars, bound, requestVars, panicked>>

Init ==
  /\ dialled = 0 /\ server = [c \in Clients |-> NoClient]
  /\ link = [c \in Clients |-> "none"] /\ body = {} /\ closing = {} /\ late = {}
  /\ clients = [s \in Servers |-> NoClient]
  /\ supervisor = [s \in Servers |-> "off"] /\ attempt = [s \in Servers |-> 0]
  /\ manager = "connecting"
  /\ bound = [s \in Servers |-> NoClient]
  /\ request = [k \in Requests |-> "idle"] /\ through = [k \in Requests |-> NoClient]
  /\ panicked = FALSE

IsHttp(c) == server[c] \in Http
Dialing(s) == {c \in Clients : server[c] = s /\ link[c] = "dialing"}
Cancelled == manager \in {"cancelled", "closed"}

(***************************************************************************)
(* Connect: the process is started or the URL noted, and the handshake     *)
(* and tools/list succeed, or fail and the transport is closed.  A request *)
(* that timed out over HTTP may still be answered.                         *)
(***************************************************************************)
Dial(s) ==
  /\ dialled < MaxClients
  /\ dialled' = dialled + 1
  /\ server' = [server EXCEPT ![dialled'] = s]
  /\ link' = [link EXCEPT ![dialled'] = "dialing"]
  /\ body' = IF s \in Http THEN body ELSE body \cup {dialled'}
  /\ UNCHANGED <<closing, late>>

\* Client.Close: the transport's Close, once.
Close(c) ==
  /\ closing' = closing \cup {c}
  /\ body' = body \ {c}
  /\ link' = [link EXCEPT ![c] = "down"]

Connected(c) ==
  /\ link' = [link EXCEPT ![c] = "up"]
  /\ UNCHANGED <<dialled, server, body, closing, late>>

ConnectFailed(c) ==
  /\ Close(c)
  /\ late' \in {late} \cup (IF IsHttp(c) THEN {late \cup {c}} ELSE {})
  /\ UNCHANGED <<dialled, server>>

(***************************************************************************)
(* connectAll: each server once, then its supervisor; RegisterMCP binds    *)
(* the tools of those that connected.                                      *)
(***************************************************************************)
Untried(s) == \A c \in 1..dialled : server[c] # s
\* A server is tried in its turn, while supervisors of others may be reconnecting.
FirstDials == {c \in Clients : link[c] = "dialing" /\ supervisor[server[c]] = "off"}

connectAll(s) ==
  /\ manager = "connecting"
  /\ \/ Untried(s) /\ FirstDials = {} /\ Dial(s) /\ UNCHANGED <<clients, supervisor>>
     \/ \E c \in Dialing(s) \cap FirstDials :
          \/ /\ Connected(c)
             /\ clients' = [clients EXCEPT ![s] = c]
             /\ supervisor' = [supervisor EXCEPT ![s] = "watching"]
          \/ ConnectFailed(c) /\ UNCHANGED <<clients, supervisor>>
  /\ UNCHANGED <<attempt, manager, bound, requestVars, panicked>>

RegisterMCP ==
  /\ manager = "connecting"
  /\ \A s \in Servers : ~Untried(s)
  /\ FirstDials = {}
  /\ manager' = "up"
  /\ bound' = clients
  /\ UNCHANGED <<links, clients, supervisor, attempt, requestVars, panicked>>

(***************************************************************************)
(* A transport dies: the process exits, or only its output ends (a line    *)
(* beyond the limit).  An HTTP transport never dies by itself.             *)
(***************************************************************************)
ServerDies(c) ==
  /\ link[c] = "up" /\ ~IsHttp(c)
  /\ link' = [link EXCEPT ![c] = "down"]
  /\ body' \in {body, body \ {c}}
  /\ UNCHANGED <<dialled, server, closing, late, managerVars, bound, requestVars, panicked>>

\* dispatch ends: the pending requests of the client are unblocked.
DispatchEnds(c) ==
  /\ link[c] = "down"
  /\ link' = [link EXCEPT ![c] = "ended"]
  /\ request' = [k \in Requests |-> IF request[k] = "waiting" /\ through[k] = c
                                    THEN "dropped" ELSE request[k]]
  /\ UNCHANGED <<dialled, server, body, closing, late, managerVars, bound, through, panicked>>

(***************************************************************************)
(* superviseServer and reconnect.                                          *)
(***************************************************************************)
superviseServer(s) ==
  /\ supervisor[s] = "watching"
  /\ \/ /\ Cancelled
        /\ supervisor' = [supervisor EXCEPT ![s] = "off"]
        /\ UNCHANGED <<clients, attempt>>
     \/ /\ ~Cancelled
        /\ link[clients[s]] = "ended"
        /\ clients' = [clients EXCEPT ![s] = NoClient]
        /\ supervisor' = [supervisor EXCEPT ![s] = "sleeping"]
        /\ attempt' = [attempt EXCEPT ![s] = 1]
  /\ UNCHANGED <<links, manager, bound, requestVars, panicked>>

SleepOver(s) ==
  /\ supervisor[s] = "sleeping"
  /\ \/ /\ Cancelled
        /\ supervisor' = [supervisor EXCEPT ![s] = "off"]
        /\ UNCHANGED links
     \/ /\ ~Cancelled
        /\ supervisor' = [supervisor EXCEPT ![s] = "dialing"]
        /\ Dial(s)
  /\ UNCHANGED <<clients, attempt, manager, bound, requestVars, panicked>>

reconnect(s) ==
  /\ supervisor[s] = "dialing"
  /\ \E c \in Dialing(s) :
       \/ /\ Connected(c)
          /\ clients' = [clients EXCEPT ![s] = c]
          /\ supervisor' = [supervisor EXCEPT ![s] = "watching"]
          /\ UNCHANGED attempt
       \/ /\ ConnectFailed(c)
          /\ attempt' = [attempt EXCEPT ![s] = @ + 1]
          /\ supervisor' = [supervisor EXCEPT ![s] =
                              IF attempt'[s] > MaxAttempts THEN "off" ELSE "sleeping"]
          /\ UNCHANGED clients
  /\ UNCHANGED <<manager, bound, requestVars, panicked>>

(***************************************************************************)
(* Manager.Close: cancel, wait for the supervisors, close the clients.     *)
(***************************************************************************)
CancelAll ==
  /\ manager = "up"
  /\ manager' = "cancelled"
  /\ UNCHANGED <<links, clients, supervisor, attempt, bound, requestVars, panicked>>

ClientsOf == {clients[s] : s \in Servers} \ {NoClient}

\* Slip: the supervisors are cancelled but not waited for.
CloseAllAtOnce ==
  /\ manager = "cancelled"
  /\ manager' = "closed"
  /\ closing' = closing \cup ClientsOf
  /\ body' = body \ ClientsOf
  /\ link' = [c \in Clients |-> IF c \in ClientsOf /\ link[c] = "up" THEN "down" ELSE link[c]]
  /\ UNCHANGED <<dialled, server, late, clients, supervisor, attempt, bound, requestVars, panicked>>

CloseAll ==
  /\ manager = "cancelled"
  /\ \A s \in Servers : supervisor[s] = "off"
  /\ manager' = "closed"
  /\ closing' = closing \cup ClientsOf
  /\ body' = body \ ClientsOf
  /\ link' = [c \in Clients |-> IF c \in ClientsOf /\ link[c] = "up" THEN "down" ELSE link[c]]
  /\ UNCHANGED <<dialled, server, late, clients, supervisor, attempt, bound, requestVars, panicked>>

(***************************************************************************)
(* call: registered, then sent; answered, dropped, timed out or cancelled. *)
(* A closed or dead process takes no request; a URL always does.           *)
(***************************************************************************)
call(k, s) ==
  /\ manager # "connecting"
  /\ request[k] = "idle" /\ bound[s] # NoClient
  /\ through' = [through EXCEPT ![k] = bound[s]]
  /\ request' = [request EXCEPT ![k] =
                   IF IsHttp(bound[s]) \/ bound[s] \in body THEN "waiting" ELSE "dropped"]
  /\ UNCHANGED <<links, managerVars, bound, panicked>>

Answer(k) ==
  /\ request[k] = "waiting" /\ link[through[k]] = "up"
  /\ request' = [request EXCEPT ![k] = "answered"]
  /\ UNCHANGED <<links, managerVars, bound, through, panicked>>

TimeOut(k) ==
  /\ request[k] = "waiting"
  /\ request' = [request EXCEPT ![k] = "timedout"]
  /\ late' \in {late} \cup (IF IsHttp(through[k]) THEN {late \cup {through[k]}} ELSE {})
  /\ UNCHANGED <<dialled, server, link, body, closing, managerVars, bound, through, panicked>>

\* readResponse puts an answer nobody waits for into the channel Close closed;
\* while the client lives, dispatch drops it.
readResponse(c) ==
  /\ c \in late
  /\ late' = late \ {c}
  /\ panicked' = (panicked \/ c \in closing)
  /\ UNCHANGED <<dialled, server, link, body, closing, managerVars, bound, requestVars>>

Next ==
  \/ \E s \in Servers : \/ connectAll(s) \/ superviseServer(s)
                       \/ SleepOver(s) \/ reconnect(s)
  \/ RegisterMCP \/ CancelAll \/ CloseAll
  \/ \E c \in Clients : ServerDies(c) \/ DispatchEnds(c) \/ readResponse(c)
  \/ \E k \in Requests : \/ \E s \in Servers : call(k, s)
                        \/ Answer(k) \/ TimeOut(k)

Spec == Init /\ [][Next]_mcpVars

-----------------------------------------------------------------------------

\* Once Close returned, no supervisor runs and nobody is dialling, so nothing
\* connects any more, and the only server processes left are those whose output
\* ended before they did, which no client owns (Manager.Close, reconnect).
CloseIsFinal ==
  manager = "closed" =>
    /\ \A s \in Servers : supervisor[s] = "off" /\ Dialing(s) = {}
    /\ \A c \in body : link[c] \in {"down", "ended"} /\ c \notin closing
=============================================================================
