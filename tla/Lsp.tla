-------------------------------- MODULE Lsp --------------------------------
(***************************************************************************)
(* Language servers (internal/lsp, tools/lsp.go): one lazily started       *)
(* process per language, shared by the queries of every run.  A query      *)
(* finds the client, reopens its file and then either waits for the        *)
(* server's next diagnostics or asks for locations.                        *)
(*                                                                         *)
(* Every language has one file here, on which its queries meet; a language *)
(* stands for both.  Frames arrive in the order they are written, so what  *)
(* the server has open is what was written last.  Text is its version.     *)
(***************************************************************************)
EXTENDS Naturals, FiniteSets

CONSTANTS
  Languages,
  Queries      \* tool calls

VARIABLES
  entry,       \* entry[l] of Manager.clients: none, starting, ready, failed
  alive,       \* languages whose server process runs
  dead,        \* languages whose client's read loop ended
  docOpen,     \* files the client takes to be open
  serverOpen,  \* files the server has open
  cached,      \* files with diagnostics in the cache
  waiters,     \* diagWaiters: queries that wait for a publication
  pendingCalls,\* pending: queries whose call is registered
  stop,        \* Manager.Close: no, waiting, closed
  stopping,    \* entries Close found and has not closed
  unseen,      \* languages without an entry when Close looked
  at,          \* at[q]: how far query q is
  lang, kind,  \* of query q
  wasOpen,     \* what ensureOpen of q read
  news,        \* queries whose file was published since they dropped the cache
  told         \* queries that were handed diagnostics

documents == <<docOpen, serverOpen, cached, waiters, news>>
query == <<at, lang, kind, wasOpen, told>>
manage == <<stop, stopping, unseen>>
lspVars == <<entry, alive, dead, pendingCalls, documents, query, manage>>

Init ==
  /\ entry = [l \in Languages |-> "none"] /\ alive = {} /\ dead = {}
  /\ docOpen = {} /\ serverOpen = {} /\ cached = {} /\ waiters = {} /\ news = {}
  /\ pendingCalls = {} /\ stop = "no" /\ stopping = {} /\ unseen = {}
  /\ at = [q \in Queries |-> "idle"]
  /\ lang = [q \in Queries |-> "none"] /\ kind = [q \in Queries |-> "none"]
  /\ wasOpen = {} /\ told = {}

Goes(q, to) == at' = [at EXCEPT ![q] = to]
Is(q, l, here) == lang[q] = l /\ at[q] = here

(***************************************************************************)
(* ClientFor: the first query of a language starts its server; the others  *)
(* wait for that attempt, whatever became of its owner.                    *)
(***************************************************************************)
ClientFor(q, l, k) ==
  /\ at[q] = "idle"
  /\ lang' = [lang EXCEPT ![q] = l] /\ kind' = [kind EXCEPT ![q] = k]
  /\ IF entry[l] = "none"
     THEN /\ entry' = [entry EXCEPT ![l] = "starting"]
          /\ Goes(q, "dialing")
     ELSE Goes(q, "joining") /\ UNCHANGED entry
  /\ UNCHANGED <<alive, dead, pendingCalls, documents, wasOpen, told, manage>>

startProcess(q) ==
  /\ at[q] = "dialing"
  /\ \/ /\ alive' = alive \cup {lang[q]}
        /\ Goes(q, "initializing")
        /\ UNCHANGED entry
     \/ /\ entry' = [entry EXCEPT ![lang[q]] = "failed"]   \* no such binary
        /\ Goes(q, "unavailable")
        /\ UNCHANGED alive
  /\ UNCHANGED <<dead, pendingCalls, documents, lang, kind, wasOpen, told, manage>>

\* The handshake fails too when the server dies, and when the run is cancelled.
initialize(q) ==
  /\ at[q] = "initializing"
  /\ \/ /\ lang[q] \in alive
        /\ entry' = [entry EXCEPT ![lang[q]] = "ready"]
        /\ Goes(q, "found")
        /\ UNCHANGED alive
     \/ /\ entry' = [entry EXCEPT ![lang[q]] = "failed"]
        /\ alive' = alive \ {lang[q]}
        /\ Goes(q, "unavailable")
  /\ UNCHANGED <<dead, pendingCalls, documents, lang, kind, wasOpen, told, manage>>

Join(q) ==
  /\ at[q] = "joining"
  /\ \/ entry[lang[q]] = "ready" /\ Goes(q, "found")
     \/ entry[lang[q]] = "failed" /\ Goes(q, "unavailable")
     \/ Goes(q, "unavailable")                              \* the run is cancelled
  /\ UNCHANGED <<entry, alive, dead, pendingCalls, documents, lang, kind, wasOpen, told, manage>>

(***************************************************************************)
(* ensureOpen, after openFile read the file: the flag, didClose, the cache,*)
(* didOpen and the flag again, each under its own lock.                    *)
(***************************************************************************)
openFile(q) ==
  /\ at[q] = "found"
  /\ \/ /\ wasOpen' = IF lang[q] \in docOpen THEN wasOpen \cup {q} ELSE wasOpen
        /\ Goes(q, "reopening")
     \/ Goes(q, "unavailable") /\ UNCHANGED wasOpen         \* unreadable
  /\ UNCHANGED <<entry, alive, dead, pendingCalls, documents, lang, kind, told, manage>>

\* notify: a frame reaches the server, or its process is gone and the query fails.
notify(q, effect, to) ==
  IF lang[q] \in alive
  THEN serverOpen' = effect /\ Goes(q, to)
  ELSE Goes(q, "unavailable") /\ UNCHANGED serverOpen

didClose(q) ==
  /\ at[q] = "reopening"
  /\ IF q \in wasOpen
     THEN notify(q, serverOpen \ {lang[q]}, "closed")
     ELSE Goes(q, "closed") /\ UNCHANGED serverOpen
  /\ UNCHANGED <<entry, alive, dead, pendingCalls, docOpen, cached, waiters, news,
                 lang, kind, wasOpen, told, manage>>

\* Slip: the diagnostics of the version before stay in the cache.
KeepsStale(q) == UNCHANGED cached

DropStale(q) == cached' = cached \ {lang[q]}

DropDiagnostics(q) ==
  /\ at[q] = "closed"
  /\ DropStale(q)
  /\ Goes(q, "dropped")
  /\ UNCHANGED <<entry, alive, dead, pendingCalls, docOpen, serverOpen, waiters, news,
                 lang, kind, wasOpen, told, manage>>

didOpen(q) ==
  /\ at[q] = "dropped"
  /\ notify(q, serverOpen \cup {lang[q]}, "opened")
  /\ UNCHANGED <<entry, alive, dead, pendingCalls, docOpen, cached, waiters, news,
                 lang, kind, wasOpen, told, manage>>

MarkOpen(q) ==
  /\ at[q] = "opened"
  /\ docOpen' = docOpen \cup {lang[q]}
  /\ Goes(q, "open")
  /\ UNCHANGED <<entry, alive, dead, pendingCalls, serverOpen, cached, waiters, news,
                 lang, kind, wasOpen, told, manage>>

(***************************************************************************)
(* waitDiagnostics: the cache, or the next publication, or five seconds.   *)
(***************************************************************************)
Tell(q) ==
  /\ told' = IF lang[q] \in cached THEN told \cup {q} ELSE told
  /\ Goes(q, "answered")

waitDiagnostics(q) ==
  /\ at[q] = "open" /\ kind[q] = "diagnostics"
  /\ IF lang[q] \in cached
     THEN Tell(q) /\ UNCHANGED waiters
     ELSE waiters' = waiters \cup {q} /\ Goes(q, "waiting") /\ UNCHANGED told
  /\ UNCHANGED <<entry, alive, dead, pendingCalls, docOpen, serverOpen, cached, news,
                 lang, kind, wasOpen, manage>>

\* Woken, timed out or cancelled: what the cache holds by then.
WaitOver(q) ==
  /\ at[q] \in {"waiting", "woken"}
  /\ Tell(q)
  /\ UNCHANGED <<entry, alive, dead, pendingCalls, documents, lang, kind, wasOpen, manage>>

\* publishDiagnostics of a file the server was ever sent; it may be about an
\* opening that is over.
handleNotification(l) ==
  /\ l \in alive \ dead
  /\ l \in serverOpen \cup docOpen
  /\ cached' = cached \cup {l}
  /\ waiters' = {q \in waiters : lang[q] # l}
  /\ at' = [q \in Queries |-> IF q \in waiters /\ Is(q, l, "waiting") THEN "woken" ELSE at[q]]
  /\ news' = news \cup {q \in Queries : lang[q] = l /\ at[q] \in {"dropped", "opened", "open", "waiting"}}
  /\ UNCHANGED <<entry, alive, dead, pendingCalls, docOpen, serverOpen,
                 lang, kind, wasOpen, told, manage>>

(***************************************************************************)
(* call (definition, references): refused once the read loop ended, else   *)
(* registered in the same step; then written.                              *)
(***************************************************************************)
\* Slip: the end of the read loop is not looked at before registering.
RegisterAnyway(q) == Goes(q, "registered") /\ pendingCalls' = pendingCalls \cup {q}

Register(q) ==
  IF lang[q] \in dead
  THEN Goes(q, "unavailable") /\ UNCHANGED pendingCalls
  ELSE Goes(q, "registered") /\ pendingCalls' = pendingCalls \cup {q}

call(q) ==
  /\ at[q] = "open" /\ kind[q] = "locations"
  /\ Register(q)
  /\ UNCHANGED <<entry, alive, dead, documents, lang, kind, wasOpen, told, manage>>

SendCall(q) ==
  /\ at[q] = "registered"
  /\ Goes(q, IF lang[q] \in alive /\ q \in pendingCalls THEN "calling" ELSE "unavailable")
  /\ UNCHANGED <<entry, alive, dead, pendingCalls, documents, lang, kind, wasOpen, told, manage>>

route(q) ==
  /\ at[q] = "calling" /\ q \in pendingCalls /\ lang[q] \in alive \ dead
  /\ pendingCalls' = pendingCalls \ {q}
  /\ Goes(q, "answered")
  /\ UNCHANGED <<entry, alive, dead, documents, lang, kind, wasOpen, told, manage>>

CallOver(q) ==                                   \* timed out or cancelled
  /\ at[q] = "calling"
  /\ Goes(q, "unavailable")
  /\ UNCHANGED <<entry, alive, dead, pendingCalls, documents, lang, kind, wasOpen, told, manage>>

ServerDies(l) ==
  /\ l \in alive
  /\ alive' = alive \ {l}
  /\ UNCHANGED <<entry, dead, pendingCalls, documents, query, manage>>

\* The read loop ends, with the process or at a frame it cannot read; every
\* registered call's channel is closed.
shutdown(l) ==
  /\ entry[l] = "ready" /\ l \notin dead
  /\ dead' = dead \cup {l}
  /\ pendingCalls' = {q \in pendingCalls : lang[q] # l}
  /\ at' = [q \in Queries |-> IF q \in pendingCalls /\ Is(q, l, "calling") THEN "unavailable" ELSE at[q]]
  /\ UNCHANGED <<entry, alive, documents, lang, kind, wasOpen, told, manage>>

(***************************************************************************)
(* Manager.Close: the entries it finds, each closed once it is ready.      *)
(***************************************************************************)
CloseBegins ==
  /\ stop = "no"
  /\ stop' = "waiting"
  /\ stopping' = {l \in Languages : entry[l] # "none"}
  /\ unseen' = Languages \ stopping'
  /\ UNCHANGED <<entry, alive, dead, pendingCalls, documents, query>>

CloseClient(l) ==
  /\ stop = "waiting" /\ l \in stopping
  /\ entry[l] \in {"ready", "failed"}
  /\ stopping' = stopping \ {l}
  /\ alive' = IF entry[l] = "ready" THEN alive \ {l} ELSE alive
  /\ UNCHANGED <<entry, dead, pendingCalls, documents, query, stop, unseen>>

CloseReturns ==
  /\ stop = "waiting" /\ stopping = {}
  /\ stop' = "closed"
  /\ UNCHANGED <<entry, alive, dead, pendingCalls, documents, query, stopping, unseen>>

Next ==
  \/ \E q \in Queries :
       \/ \E l \in Languages, k \in {"diagnostics", "locations"} : ClientFor(q, l, k)
       \/ startProcess(q) \/ initialize(q) \/ Join(q)
       \/ openFile(q) \/ didClose(q) \/ DropDiagnostics(q) \/ didOpen(q) \/ MarkOpen(q)
       \/ waitDiagnostics(q) \/ WaitOver(q)
       \/ call(q) \/ SendCall(q) \/ route(q) \/ CallOver(q)
  \/ \E l \in Languages : \/ ServerDies(l) \/ shutdown(l) \/ handleNotification(l)
                         \/ CloseClient(l)
  \/ CloseBegins \/ CloseReturns

Spec == Init /\ [][Next]_lspVars

-----------------------------------------------------------------------------

\* Diagnostics a query hands to the model came in after it dropped the cached
\* copy, however the queries of the same file interleave (ensureOpen, "so a waiter
\* doesn't get handed a notification left over").
DiagnosticsAreNews == told \subseteq news

\* A call never waits on a connection whose read loop has ended: it is either
\* refused, or shutdown finds it registered and unblocks it (call, shutdown).
NobodyWaitsOnTheDead == \A q \in Queries : at[q] = "calling" => lang[q] \notin dead
=============================================================================
