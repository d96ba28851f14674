-------------------------------- MODULE Kram --------------------------------
(***************************************************************************)
(* The kram process from its start to its exit (cmd/kram): the setup       *)
(* wizard, the gateway's configuration (gatewayconfig, config), the        *)
(* gateway and the daemon as goroutines of it, the client it runs on top,  *)
(* and the shutdown.                                                       *)
(*                                                                         *)
(* Three providers stand for the kinds of account: one with an API key,    *)
(* one with an OAuth login, one custom.  A configuration is its providers, *)
(* its combos and the default.  What the daemon does between its start and *)
(* its end is in the other modules; here it may have left a background     *)
(* process running.                                                        *)
(***************************************************************************)
EXTENDS Naturals, FiniteSets

CONSTANTS
  Files,       \* configurations a config.yaml may hold (NoConfig: no file)
  MaxStarts    \* times the program is started

Providers == {"keyed", "login", "custom"}
NoConfig == [providers |-> {}, combos |-> {}, default |-> ""]
Combo(id, members, known) == [id |-> id, members |-> members, known |-> known]

\* Names of combos, the one Detect gives among them, and all configurations.
Ids == {"", "default"} \cup {f.default : f \in Files}
         \cup UNION {{k.id : k \in f.combos} : f \in Files}
ComboType == [id : Ids, members : SUBSET Providers, known : BOOLEAN]
Configs ==
  [providers : SUBSET Providers, combos : SUBSET ComboType, default : Ids]

KramAssumption == Files \subseteq Configs

VARIABLES
  main,        \* run: off, setup, wizard, config, gateway, daemon, client, leaving, exited
  starts,
  keys, login, custom,   \* on disk: the stored key, the OAuth login, the custom provider
  readable,    \* the credential files parse
  env,         \* the key is in the environment
  copy,        \* main's credentials.Store holds the login
  file,        \* config.yaml
  cfg,         \* gwCfg
  gateway,     \* off, building, listening, failed, stopped
  built,       \* providers the gateway built
  routed,      \* the router's configuration
  daemon,      \* off, opening, listening, mcp, lsp, background, store, failed, stopped
  background,  \* a run_background process lives
  results,     \* results in errCh
  cancelled,   \* ctx
  wizardUsed   \* the wizard of this start saved a login (history)

accounts == <<keys, login, custom, readable>>
local == <<env, copy, file, cfg, wizardUsed>>
parts == <<gateway, built, routed, daemon, background, results>>
kramVars == <<main, starts, accounts, local, parts, cancelled>>

Init ==
  /\ main = "off" /\ starts = 0
  /\ keys = FALSE /\ login = FALSE /\ custom = FALSE /\ readable = TRUE
  /\ env = FALSE /\ copy = FALSE /\ file = NoConfig /\ cfg = NoConfig /\ wizardUsed = FALSE
  /\ gateway = "off" /\ built = {} /\ routed = NoConfig
  /\ daemon = "off" /\ background = FALSE /\ results = 0 /\ cancelled = FALSE

(***************************************************************************)
(* gatewayconfig.                                                          *)
(***************************************************************************)
\* catalogProviderConfig, customProviderConfig: the accounts one can see.
Configured(key, oauth, own) ==
  (IF key THEN {"keyed"} ELSE {}) \cup (IF oauth THEN {"login"} ELSE {})
    \cup (IF own THEN {"custom"} ELSE {})

Detect(seen) ==
  IF seen = {} THEN NoConfig
  ELSE [providers |-> seen, combos |-> {Combo("default", seen, TRUE)}, default |-> "default"]

Reconcile(c, seen) ==
  LET added == seen \ c.providers
  IN  [c EXCEPT !.providers = @ \cup added,
                !.combos = {IF k.id = c.default THEN [k EXCEPT !.members = @ \cup added] ELSE k :
                              k \in c.combos}]

\* Config.validate.
validate(c) ==
  /\ c.providers # {} /\ c.combos # {}
  /\ \A k \in c.combos : k.members # {} /\ k.members \subseteq c.providers
  /\ \A k, o \in c.combos : k.id = o.id => k = o
  /\ c.default = "" \/ \E k \in c.combos : k.id = c.default

\* sanitizeCombosForBuiltProviders; of several combos left, any may be first.
Sanitized(c, ready) ==
  LET kept == {k \in {[o EXCEPT !.members = @ \cap ready] : o \in c.combos} : k.members # {}}
      ids == {k.id : k \in kept}
  IN  {[c EXCEPT !.combos = kept, !.default = d] :
         d \in IF c.default = "" \/ c.default \in ids \/ kept = {} THEN {c.default} ELSE ids}

\* router.New: every member of every combo built, every strategy known.
RouterBuilds(c, ready) == \A k \in c.combos : k.known /\ k.members \subseteq ready

(***************************************************************************)
(* run: up to the configuration.                                           *)
(***************************************************************************)
Start ==
  /\ main \in {"off", "exited"} /\ starts < MaxStarts
  /\ starts' = starts + 1
  /\ copy' = (readable /\ login)
  /\ env' \in BOOLEAN                       \* exported in the shell, or not
  /\ main' = "setup" /\ wizardUsed' = FALSE
  /\ gateway' = "off" /\ built' = {} /\ routed' = NoConfig /\ cfg' = NoConfig
  /\ daemon' = "off" /\ results' = 0 /\ cancelled' = FALSE
  /\ UNCHANGED <<accounts, file, background>>

\* Onboarding is over, or -p, -config or a file of its own says so.
SkipWizard ==
  /\ main = "setup"
  /\ main' = "config"
  /\ UNCHANGED <<starts, accounts, local, parts, cancelled>>

OpenWizard ==
  /\ main = "setup"
  /\ main' = "wizard"
  /\ UNCHANGED <<starts, accounts, local, parts, cancelled>>

\* Its accounts step, over a credentials.Store of its own.
WizardSaves ==
  /\ main = "wizard"
  /\ \/ ~keys /\ keys' = TRUE /\ UNCHANGED <<login, custom, wizardUsed>>
     \/ ~login /\ login' = TRUE /\ wizardUsed' = TRUE /\ UNCHANGED <<keys, custom>>
     \/ ~custom /\ custom' = TRUE /\ UNCHANGED <<keys, login, wizardUsed>>
  /\ UNCHANGED <<main, starts, readable, env, copy, file, cfg, parts, cancelled>>

LoadStoredCredentials == env \/ (readable /\ keys)
SeenBy(own) == Configured(own, copy, custom)

WizardEnds ==
  /\ main = "wizard"
  /\ \/ main' = "config" /\ UNCHANGED <<env, file>>          \* cancelled
     \/ /\ env' = LoadStoredCredentials
        /\ LET found == Detect(SeenBy(env'))
           IN  IF found = NoConfig
               THEN main' = "exited" /\ UNCHANGED file      \* "building config after setup"
               ELSE main' = "config" /\ file' = found
  /\ UNCHANGED <<starts, accounts, copy, cfg, wizardUsed, parts, cancelled>>

loadOrDetectGatewayConfig ==
  /\ main = "config"
  /\ env' = LoadStoredCredentials
  /\ LET seen == SeenBy(env')
         found == IF file = NoConfig THEN Detect(seen)
                  ELSE IF validate(file) THEN Reconcile(file, seen) ELSE NoConfig
     IN  IF found = NoConfig
         THEN main' = "exited" /\ UNCHANGED <<cfg, gateway, daemon>>
         ELSE /\ cfg' = found /\ main' = "gateway"
              /\ gateway' = "building" /\ daemon' = "opening"
  /\ UNCHANGED <<starts, accounts, copy, file, wizardUsed, built, routed, background, results,
                 cancelled>>

\* Between two starts somebody edits the files, or a crash left one unreadable.
EditFiles ==
  /\ main \in {"off", "exited"}
  /\ \/ file' \in Files /\ UNCHANGED <<keys, login, readable>>
     \/ keys' = FALSE /\ login' = FALSE /\ UNCHANGED <<file, readable>>
     \/ readable' = FALSE /\ UNCHANGED <<file, keys, login>>
  /\ UNCHANGED <<main, starts, custom, env, copy, cfg, wizardUsed, parts, cancelled>>

(***************************************************************************)
(* gateway.Run.                                                            *)
(***************************************************************************)
Running == main \notin {"off", "exited"}

\* provider.Build: a key in the environment, a resolver for a login; a custom
\* provider needs neither.
Build(c) ==
  {p \in c.providers : CASE p = "keyed" -> env [] p = "login" -> readable [] OTHER -> TRUE}

\* Slip: combos keep the providers that were not built.
CombosAsWritten(c, ready) == {c}

Combos(c, ready) == Sanitized(c, ready)

GatewayBuilds ==
  /\ Running /\ gateway = "building"
  /\ built' = Build(cfg)
  /\ routed' \in Combos(cfg, built')
  /\ IF \/ ~readable /\ "login" \in cfg.providers    \* no store, a login wanted
        \/ built' = {}
        \/ ~RouterBuilds(routed', built')
     THEN gateway' = "failed" /\ results' = results + 1
     ELSE gateway' = "listening" /\ UNCHANGED results
  /\ UNCHANGED <<main, starts, accounts, local, daemon, background, cancelled>>

GatewayStops ==
  /\ Running /\ cancelled /\ gateway = "listening"
  /\ gateway' = "stopped" /\ results' = results + 1
  /\ UNCHANGED <<main, starts, accounts, local, built, routed, daemon, background, cancelled>>

(***************************************************************************)
(* daemon.Run; its deferred calls in their order.                          *)
(***************************************************************************)
DaemonOpens ==
  /\ Running /\ daemon = "opening"
  /\ \/ daemon' = "listening" /\ UNCHANGED results
     \/ daemon' = "failed" /\ results' = results + 1        \* store, port
  /\ UNCHANGED <<main, starts, accounts, local, gateway, built, routed, background, cancelled>>

run_background ==
  /\ Running /\ daemon = "listening" /\ main = "client"
  /\ background' = TRUE
  /\ UNCHANGED <<main, starts, accounts, local, gateway, built, routed, daemon, results, cancelled>>

\* httpServer.Shutdown makes ListenAndServe return at once.
DaemonStops ==
  /\ Running
  /\ \/ cancelled /\ daemon = "listening" /\ daemon' = "mcp" /\ UNCHANGED <<background, results>>
     \/ daemon = "mcp" /\ daemon' = "lsp" /\ UNCHANGED <<background, results>>
     \/ daemon = "lsp" /\ daemon' = "background" /\ UNCHANGED <<background, results>>
     \/ daemon = "background" /\ daemon' = "store" /\ background' = FALSE /\ UNCHANGED results
     \/ daemon = "store" /\ daemon' = "stopped" /\ results' = results + 1 /\ UNCHANGED background
  /\ UNCHANGED <<main, starts, accounts, local, gateway, built, routed, cancelled>>

(***************************************************************************)
(* run: both healthy, then the client; the end.                            *)
(***************************************************************************)
Signal ==
  /\ main \in {"gateway", "daemon", "client"} /\ ~cancelled
  /\ cancelled' = TRUE
  /\ UNCHANGED <<main, starts, accounts, local, parts>>

Moves(to) == main' = to

\* kramWaitHealthy: healthy, or five seconds, or cancelled; a result already
\* there is only used for the message.
WaitGateway ==
  /\ main = "gateway"
  /\ \/ gateway = "listening" /\ Moves("daemon") /\ UNCHANGED results
     \/ Moves("exited") /\ results' \in {results, IF results > 0 THEN results - 1 ELSE 0}
  /\ UNCHANGED <<starts, accounts, local, gateway, built, routed, daemon, background, cancelled>>

WaitDaemon ==
  /\ main = "daemon"
  /\ \/ daemon = "listening" /\ Moves("client") /\ UNCHANGED results
     \/ Moves("exited") /\ results' \in {results, IF results > 0 THEN results - 1 ELSE 0}
  /\ UNCHANGED <<starts, accounts, local, gateway, built, routed, daemon, background, cancelled>>

\* The screen is left, or the prompt of -p is answered or failed.
ClientEnds ==
  /\ main = "client"
  /\ Moves("leaving") /\ cancelled' = TRUE
  /\ UNCHANGED <<starts, accounts, local, parts>>

\* Slip: the results are waited for without a limit.
GraceForResults == results > 0

\* The first of the two results, or two seconds.
GraceOver == results > 0 \/ main = "leaving"

Leave ==
  /\ main = "leaving" /\ GraceOver
  /\ Moves("exited")
  /\ results' = IF results > 0 THEN results - 1 ELSE 0
  /\ UNCHANGED <<starts, accounts, local, gateway, built, routed, daemon, background, cancelled>>

MainStep == WaitGateway \/ WaitDaemon \/ Leave

Next ==
  \/ Start \/ SkipWizard \/ OpenWizard \/ WizardSaves \/ WizardEnds
  \/ loadOrDetectGatewayConfig \/ EditFiles
  \/ GatewayBuilds \/ GatewayStops \/ DaemonOpens \/ run_background \/ DaemonStops
  \/ Signal \/ ClientEnds \/ MainStep

\* The main goroutine is scheduled; nothing is assumed of the gateway, the
\* daemon or the user.
Spec == Init /\ [][Next]_kramVars /\ WF_kramVars(MainStep)

-----------------------------------------------------------------------------

\* A configuration that is valid, or detected, never keeps the gateway from
\* starting, whatever became of the accounts since: it fails only with no usable
\* provider, an unknown strategy, or no credential store for a login ("a single
\* provider failing to build must not take the whole gateway down", gateway.Run).
GatewayTakesItsConfig ==
  gateway = "failed" =>
    \/ built = {}
    \/ \E k \in cfg.combos : ~k.known
    \/ "login" \in cfg.providers /\ ~readable

\* The program always gets past its waits, whether or not its gateway and its
\* daemon answer or return (kramWaitHealthy, the two seconds at the end).
MainMovesOn == main \in {"gateway", "daemon", "leaving"} ~> main \in {"client", "exited"}
=============================================================================
