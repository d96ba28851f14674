----------------------------- MODULE PartsProof -----------------------------
(***************************************************************************)
(* What the proofs about the single parts share: a behaviour of Parts is   *)
(* one of the part that runs.  Then the parts inside the program: the      *)
(* gateway's configuration, the credential file, the chat screen, rewind,  *)
(* and the consent to tool calls.                                          *)
(***************************************************************************)
EXTENDS Parts, ListsProof, SequenceTheorems

\* The part stays the same, and steps as its own module says or not at all.
LEMMA OneStep ==
  ASSUME [Next]_partsVars
  PROVE  /\ part' = part
         /\ part = "approvals" => A!Next \/ UNCHANGED approvalVars
         /\ part = "tui" => T!Next \/ UNCHANGED tuiVars
         /\ part = "background" => B!Next \/ UNCHANGED backgroundVars
         /\ part = "mcp" => M!Next \/ UNCHANGED mcpVars
         /\ part = "lsp" => L!Next \/ UNCHANGED lspVars
         /\ part = "snapshots" => S!Next \/ UNCHANGED snapshotVars
         /\ part = "credentials" => C!Next \/ UNCHANGED credVars
         /\ part = "kram" => K!Next \/ UNCHANGED kramVars
         /\ part = "streams" => P!Next \/ UNCHANGED streamVars
         /\ part = "requests" => Q!Next \/ UNCHANGED conversation
         /\ part = "relay" => R!Next \/ UNCHANGED relayVars
<1>1. CASE UNCHANGED partsVars
  BY <1>1 DEF partsVars
<1>2. CASE Next
  BY <1>2 DEF Next, OnlyIts
<1>. QED  BY <1>1, <1>2

(***************************************************************************)
(* The configuration.  Whatever is detected, reconciled or read is a       *)
(* configuration, and of one the sanitized combos name only what was       *)
(* built.                                                                  *)
(***************************************************************************)
ConfigsHeld == file \in K!Configs /\ cfg \in K!Configs

KramInv == ConfigsHeld /\ GatewayTakesItsConfig

LEMMA NoConfigIsOne == K!NoConfig \in K!Configs
BY DEF K!NoConfig, K!Configs, K!Ids

\* What is detected of accounts is a configuration.
LEMMA DetectType ==
  ASSUME NEW accts \in SUBSET K!Providers
  PROVE  K!Detect(accts) \in K!Configs
<1>1. K!Combo("default", accts, TRUE) \in K!ComboType
  BY DEF K!Combo, K!ComboType, K!Ids
<1>. QED  BY <1>1, NoConfigIsOne DEF K!Detect, K!Configs, K!Ids

\* A configuration with new accounts added is one.
LEMMA ReconcileType ==
  ASSUME NEW c \in K!Configs, NEW accts \in SUBSET K!Providers
  PROVE  K!Reconcile(c, accts) \in K!Configs
<1>. DEFINE added == accts \ c.providers
            more == {IF k.id = c.default THEN [k EXCEPT !.members = @ \cup added] ELSE k :
                       k \in c.combos}
<1>1. ASSUME NEW k \in c.combos
      PROVE  (IF k.id = c.default THEN [k EXCEPT !.members = @ \cup added] ELSE k)
               \in K!ComboType
  BY DEF K!Configs, K!ComboType
<1>2. more \in SUBSET K!ComboType
  BY <1>1
<1>3. K!Reconcile(c, accts) = [c EXCEPT !.providers = @ \cup added, !.combos = more]
  BY DEF K!Reconcile
<1>. QED
  <2>. HIDE DEF more
  <2>. QED  BY <1>2, <1>3 DEF K!Configs

\* The accounts main sees are providers.
LEMMA SeenType == ASSUME NEW own PROVE K!SeenBy(own) \in SUBSET K!Providers
BY DEF K!SeenBy, K!Configured, K!Providers

\* A sanitized configuration fails the router only over a strategy.
LEMMA OnlyUnknownRefused ==
  ASSUME NEW c \in K!Configs, NEW ready, NEW d \in K!Sanitized(c, ready),
         ~K!RouterBuilds(d, ready)
  PROVE  \E k \in c.combos : ~k.known
<1>. DEFINE kept == {k \in {[o EXCEPT !.members = @ \cap ready] : o \in c.combos} :
                       k.members # {}}
<1>1. d.combos = kept
  <2>1. PICK e : d = [c EXCEPT !.combos = kept, !.default = e]
    BY DEF K!Sanitized
  <2>. QED
    <3>. HIDE DEF kept
    <3>. QED  BY <2>1 DEF K!Configs
<1>2. PICK k \in kept : ~k.known \/ ~(k.members \subseteq ready)
  BY <1>1 DEF K!RouterBuilds
<1>3. PICK o \in c.combos : k = [o EXCEPT !.members = @ \cap ready]
  BY <1>2
<1>4. o \in K!ComboType
  BY DEF K!Configs
<1>5. k.known = o.known /\ k.members \subseteq ready
  BY <1>3, <1>4 DEF K!ComboType
<1>. QED  BY <1>2, <1>5

\* Every step of the program keeps configurations and their promise.
LEMMA KramStep ==
  ASSUME part = "kram", part' = part, KramInv, K!Next
  PROVE  KramInv'
<1>. USE DEF KramInv, ConfigsHeld, GatewayTakesItsConfig, K!GatewayTakesItsConfig
<1>1. CASE K!Start
  BY <1>1, NoConfigIsOne DEF K!Start, K!accounts
<1>2. CASE K!SkipWizard \/ K!OpenWizard \/ K!WizardSaves
  BY <1>2 DEF K!SkipWizard, K!OpenWizard, K!WizardSaves, K!accounts, K!local, K!parts
<1>3. CASE K!WizardEnds
  BY <1>3, SeenType, DetectType DEF K!WizardEnds, K!accounts, K!parts
<1>4. CASE K!loadOrDetectGatewayConfig
  BY <1>4, SeenType, DetectType, ReconcileType DEF K!loadOrDetectGatewayConfig, K!accounts
<1>5. CASE K!EditFiles
  <2>1. file' \in K!Configs
    BY <1>5, PartsAssumption DEF K!EditFiles, K!KramAssumption
  <2>. QED  BY <1>5, <2>1 DEF K!EditFiles, K!parts
<1>6. CASE K!GatewayBuilds
  <2>1. UNCHANGED <<file, cfg, readable>>
    BY <1>6 DEF K!GatewayBuilds, K!accounts, K!local
  <2>2. routed' \in K!Sanitized(cfg, built')
    BY <1>6 DEF K!GatewayBuilds, K!Combos
  <2>3. gateway' = "failed" => \/ ~readable /\ "login" \in cfg.providers
                               \/ built' = {}
                               \/ ~K!RouterBuilds(routed', built')
    BY <1>6 DEF K!GatewayBuilds
  <2>. QED  BY <2>1, <2>2, <2>3, OnlyUnknownRefused
<1>7. CASE K!GatewayStops \/ K!DaemonOpens \/ K!run_background \/ K!DaemonStops
  BY <1>7 DEF K!GatewayStops, K!DaemonOpens, K!run_background, K!DaemonStops, K!accounts, K!local
<1>8. CASE K!Signal \/ K!ClientEnds \/ K!MainStep
  BY <1>8 DEF K!Signal, K!ClientEnds, K!MainStep, K!WaitGateway, K!WaitDaemon, K!Leave,
     K!accounts, K!local, K!parts
<1>. QED  BY <1>1, <1>2, <1>3, <1>4, <1>5, <1>6, <1>7, <1>8 DEF K!Next

\* Whatever configuration files there are and whatever becomes of the accounts,
\* a valid or detected configuration starts the gateway (gateway.Run,
\* sanitizeCombosForBuiltProviders).
THEOREM ConfigTaken == Spec => []GatewayTakesItsConfig
<1>1. Init => (part = "kram" => KramInv)
  BY NoConfigIsOne DEF Init, K!Init, KramInv, ConfigsHeld, GatewayTakesItsConfig,
     K!GatewayTakesItsConfig
<1>2. (part = "kram" => KramInv) /\ [Next]_partsVars => (part = "kram" => KramInv)'
  <2>1. CASE UNCHANGED kramVars
    BY <2>1, OneStep DEF kramVars, KramInv, ConfigsHeld, GatewayTakesItsConfig,
       K!GatewayTakesItsConfig
  <2>. QED  BY <2>1, OneStep, KramStep
<1>3. (part = "kram" => KramInv) => GatewayTakesItsConfig
  BY DEF KramInv, GatewayTakesItsConfig
<1>. QED  BY <1>1, <1>2, <1>3, PTL DEF Spec

(***************************************************************************)
(* The credential file.  As long as writers took turns, at most one writes *)
(* the temporary file, which is not the file, and holds what it is to save *)
(* once it was synced.                                                     *)
(***************************************************************************)
Stages == {"idle", "asking", "answered", "saving", "written", "synced", "removed"}

CredTypes ==
  /\ writerAt \in [C!Writers -> Stages]
  /\ fd \in [C!Writers -> C!Inodes \cup {0}]
  /\ DOMAIN value = C!Writers /\ DOMAIN data = C!Inodes
  /\ path \in C!Inodes \cup {0} /\ tmp \in C!Inodes \cup {0}

Busy(w) == writerAt[w] \in {"written", "synced", "removed"}

TakingTurns ==
  /\ \A w \in C!Writers, v \in C!Writers : Busy(w) /\ Busy(v) => w = v
  /\ \A w \in C!Writers : IF Busy(w) THEN tmp # 0 /\ fd[w] = tmp ELSE fd[w] = 0
  /\ \A w \in C!Writers : writerAt[w] \in {"synced", "removed"} => data[tmp] = value[w]
  /\ \A w \in C!Writers : writerAt[w] = "removed" => path = 0
  /\ tmp # 0 => tmp # path

Kept ==
  (\A w \in C!Writers : writerAt[w] # "removed") =>
    IF path = 0 THEN saved = 0 ELSE data[path] = saved

CredInv == ~spoilt => CredTypes /\ TakingTurns /\ Kept

\* Inodes start at 1, and there are at least two.
LEMMA InodesArePositive ==
  1 \in C!Inodes /\ 2 \in C!Inodes /\ C!Inodes \subseteq Nat \ {0}
<1>1. Cardinality(C!Writers) \in Nat
  <2>1. IsFiniteSet(Requests)
    BY PartsAssumption DEF C!CredentialsAssumption, C!IsFiniteSet, IsFiniteSet
  <2>. QED  BY <2>1, FS_AddElement, FS_CardinalityType DEF C!Writers
<1>2. C!Cardinality(C!Writers) = Cardinality(C!Writers)
  BY DEF C!Cardinality, Cardinality
<1>. QED  BY <1>1, <1>2 DEF C!Inodes

\* There is an inode for a temporary file while nobody writes.
LEMMA InodeLeft ==
  ASSUME CredTypes, tmp = 0, \A w \in C!Writers : fd[w] = 0
  PROVE  C!NewInode \in C!Inodes /\ C!NewInode # path
<1>1. C!Free = C!Inodes \ {path}
  BY InodesArePositive DEF C!Free
<1>2. \E i \in C!Free : \A j \in C!Free : i <= j
  <2>1. CASE path = 1
    <3>1. 2 \in C!Free /\ \A j \in C!Free : 2 <= j
      BY <1>1, <2>1, InodesArePositive
    <3>. QED  BY <3>1
  <2>2. CASE path # 1
    <3>1. 1 \in C!Free /\ \A j \in C!Free : 1 <= j
      BY <1>1, <2>2, InodesArePositive
    <3>. QED  BY <3>1
  <2>. QED  BY <2>1, <2>2
<1>3. C!NewInode \in C!Free
  BY <1>2 DEF C!NewInode
<1>. QED  BY <1>1, <1>3

\* A save begins: the temporary file is opened.
LEMMA OpenKeeps ==
  ASSUME CredInv, NEW w \in C!Writers, C!AtomicWrite(w), ~spoilt'
  PROVE  CredTypes' /\ TakingTurns' /\ Kept'
<1>. USE DEF C!AtomicWrite, C!OpenTmp, C!Open, C!Goes
<1>1. CredTypes /\ TakingTurns /\ Kept /\ ~Busy(w) /\ \A v \in C!Writers : ~Busy(v) /\ fd[v] = 0
  BY DEF CredInv, TakingTurns, C!Writing, Busy
<1>2. /\ tmp' \in C!Inodes /\ tmp' # path /\ tmp' # 0
      /\ fd' = [fd EXCEPT ![w] = tmp'] /\ data' = [data EXCEPT ![tmp'] = C!Partial]
  <2>1. 0 \notin C!Inodes
    BY InodesArePositive
  <2>2. CASE tmp = 0
    BY <1>1, <2>1, <2>2, InodeLeft DEF CredTypes, C!NoFile
  <2>3. CASE tmp # 0
    BY <1>1, <2>1, <2>3 DEF CredTypes, TakingTurns, C!NoFile
  <2>. QED  BY <2>2, <2>3
<1>3. writerAt' = [writerAt EXCEPT ![w] = "written"] /\ UNCHANGED <<path, value, saved>>
  OBVIOUS
<1>. HIDE DEF C!AtomicWrite
<1>4. CredTypes'
  BY <1>1, <1>2, <1>3 DEF CredTypes, Stages
<1>5. TakingTurns'
  BY <1>1, <1>2, <1>3 DEF TakingTurns, CredTypes, Busy, Stages
<1>6. Kept'
  BY <1>1, <1>2, <1>3 DEF Kept, CredTypes, Busy, Stages
<1>. QED  BY <1>4, <1>5, <1>6

\* The steps that open, write or rename nothing keep it.
LEMMA QuietStep ==
  ASSUME CredInv, UNCHANGED <<data, path, tmp, saved, spoilt, fd>>,
         NEW w \in C!Writers, NEW to \in Stages \ {"written", "synced", "removed"}, ~Busy(w),
         writerAt' = [writerAt EXCEPT ![w] = to],
         value' = value \/ \E v : value' = [value EXCEPT ![w] = v]
  PROVE  CredInv'
<1>. SUFFICES ASSUME ~spoilt'  PROVE CredTypes' /\ TakingTurns' /\ Kept'
  BY DEF CredInv
<1>0. CredTypes /\ TakingTurns /\ Kept
  BY DEF CredInv
<1>1. CredTypes'
  BY <1>0 DEF CredTypes, Stages
<1>2. TakingTurns'
  BY <1>0 DEF TakingTurns, CredTypes, Busy, Stages
<1>3. Kept'
  BY <1>0 DEF CredTypes, Kept, Busy, Stages
<1>. QED  BY <1>1, <1>2, <1>3

\* Every step of Resolve, of the accounts screen and of AtomicWrite keeps it.
LEMMA CredStep ==
  ASSUME CredInv, C!Next
  PROVE  CredInv'
<1>. USE DEF C!Goes, C!Done, C!memory, C!disk, C!NoFile
<1>1. ASSUME NEW h \in C!Holders, C!Expire(h)  PROVE CredInv'
  BY <1>1 DEF C!Expire, CredInv, CredTypes, TakingTurns, Busy, Kept
<1>2. ASSUME NEW r \in Requests, C!Resolve(r)  PROVE CredInv'
  BY <1>2, QuietStep DEF C!Resolve, C!Writers, Busy, Stages
<1>3. ASSUME NEW r \in Requests, C!RefreshOpenAI(r)  PROVE CredInv'
  BY <1>3, QuietStep DEF C!RefreshOpenAI, C!Writers, Busy, Stages
<1>4. ASSUME NEW r \in Requests, C!RefreshFails(r)  PROVE CredInv'
  <2>1. r \in C!Writers /\ ~Busy(r)
    BY <1>4 DEF C!RefreshFails, C!Writers, Busy
  <2>2. ~spoilt => fd' = fd
    BY <1>4, <2>1 DEF C!RefreshFails, CredInv, CredTypes, TakingTurns
  <2>. QED  BY <1>4, <2>1, <2>2, QuietStep DEF C!RefreshFails, CredInv, Stages
<1>5. ASSUME NEW r \in Requests, C!SetOAuth(r)  PROVE CredInv'
  BY <1>5, QuietStep DEF C!SetOAuth, C!Writers, Busy, Stages
<1>6. ASSUME C!saveOAuthResult \/ C!DeleteOAuth  PROVE CredInv'
  BY <1>6, QuietStep DEF C!saveOAuthResult, C!DeleteOAuth, C!Writers, Busy, Stages
<1>7. ASSUME NEW w \in C!Writers, C!AtomicWrite(w)  PROVE CredInv'
  BY <1>7, OpenKeeps DEF CredInv
<1>8. ASSUME NEW w \in C!Writers, C!writeAndSync(w)  PROVE CredInv'
  <2>. SUFFICES ASSUME ~spoilt'  PROVE CredTypes' /\ TakingTurns' /\ Kept'
    BY DEF CredInv
  <2>1. CredTypes /\ TakingTurns /\ Kept
    BY <1>8 DEF C!writeAndSync, CredInv
  <2>2. CredTypes'
    BY <1>8, <2>1 DEF C!writeAndSync, CredTypes, TakingTurns, Busy, Stages
  <2>3. TakingTurns'
    BY <1>8, <2>1 DEF C!writeAndSync, CredTypes, TakingTurns, Busy, Stages
  <2>4. Kept'
    BY <1>8, <2>1 DEF C!writeAndSync, CredTypes, TakingTurns, Kept, Busy, Stages
  <2>. QED  BY <2>2, <2>3, <2>4
<1>9. ASSUME NEW w \in C!Writers, C!WriteFails(w)  PROVE CredInv'
  <2>. SUFFICES ASSUME ~spoilt'  PROVE CredTypes' /\ TakingTurns' /\ Kept'
    BY DEF CredInv
  <2>1. CredTypes /\ TakingTurns /\ Kept
    BY <1>9 DEF C!WriteFails, CredInv
  <2>2. CredTypes'
    BY <1>9, <2>1 DEF C!WriteFails, CredTypes, TakingTurns, Busy, Stages
  <2>3. TakingTurns'
    BY <1>9, <2>1 DEF C!WriteFails, CredTypes, TakingTurns, Busy, Stages
  <2>4. Kept'
    BY <1>9, <2>1 DEF C!WriteFails, CredTypes, TakingTurns, Kept, Busy, Stages
  <2>. QED  BY <2>2, <2>3, <2>4
<1>10. ASSUME NEW w \in C!Writers, C!RemoveOld(w)  PROVE CredInv'
  <2>. SUFFICES ASSUME ~spoilt'  PROVE CredTypes' /\ TakingTurns' /\ Kept'
    BY DEF CredInv
  <2>1. CredTypes /\ TakingTurns /\ Kept
    BY <1>10 DEF C!RemoveOld, CredInv
  <2>2. CredTypes'
    BY <1>10, <2>1 DEF C!RemoveOld, CredTypes, TakingTurns, Busy, Stages
  <2>3. TakingTurns'
    BY <1>10, <2>1 DEF C!RemoveOld, CredTypes, TakingTurns, Busy, Stages
  <2>4. Kept'
    BY <1>10, <2>1 DEF C!RemoveOld, CredTypes, TakingTurns, Kept, Busy, Stages
  <2>. QED  BY <2>2, <2>3, <2>4
<1>11. ASSUME NEW w \in C!Writers, C!Rename(w)  PROVE CredInv'
  <2>. SUFFICES ASSUME ~spoilt'  PROVE CredTypes' /\ TakingTurns' /\ Kept'
    BY DEF CredInv
  <2>1. CredTypes /\ TakingTurns /\ Kept
    BY <1>11 DEF C!Rename, CredInv
  <2>2. CredTypes'
    BY <1>11, <2>1 DEF C!Rename, CredTypes, TakingTurns, Busy, Stages
  <2>3. TakingTurns'
    BY <1>11, <2>1 DEF C!Rename, CredTypes, TakingTurns, Busy, Stages
  <2>4. Kept'
    BY <1>11, <2>1 DEF C!Rename, CredTypes, TakingTurns, Kept, Busy, Stages
  <2>. QED  BY <2>2, <2>3, <2>4
<1>12. ASSUME C!Restart  PROVE CredInv'
  <2>. SUFFICES ASSUME ~spoilt'  PROVE CredTypes' /\ TakingTurns' /\ Kept'
    BY DEF CredInv
  <2>1. CredTypes /\ TakingTurns /\ Kept /\ \A w \in C!Writers : writerAt[w] # "removed"
    BY <1>12 DEF C!Restart, CredInv
  <2>2. CredTypes'
    BY <1>12, <2>1 DEF C!Restart, CredTypes, Stages
  <2>3. TakingTurns'
    BY <1>12, <2>1 DEF C!Restart, TakingTurns, Busy
  <2>4. Kept'
    BY <1>12, <2>1 DEF C!Restart, Kept
  <2>. QED  BY <2>2, <2>3, <2>4
<1>. QED
  BY <1>1, <1>2, <1>3, <1>4, <1>5, <1>6, <1>7, <1>8, <1>9, <1>10, <1>11, <1>12 DEF C!Next

\* Whoever refreshes, logs in or out, and whatever fails or crashes, what was
\* saved last stays in the file (AtomicWrite).
THEOREM LastSaveStays == Spec => []SavedStays
<1>1. Init => (part = "credentials" => CredInv)
  <2>. SUFFICES ASSUME C!Init  PROVE CredTypes /\ TakingTurns /\ Kept
    BY DEF Init, CredInv
  <2>. USE DEF C!Init, C!NoFile
  <2>1. CredTypes
    BY DEF CredTypes, Stages
  <2>2. TakingTurns
    BY DEF TakingTurns, Busy
  <2>3. Kept
    BY DEF Kept
  <2>. QED  BY <2>1, <2>2, <2>3
<1>2. (part = "credentials" => CredInv) /\ [Next]_partsVars => (part = "credentials" => CredInv)'
  <2>1. CASE UNCHANGED credVars
    BY <2>1, OneStep DEF credVars, CredInv, CredTypes, TakingTurns, Busy, Kept
  <2>. QED  BY <2>1, OneStep, CredStep
<1>3. (part = "credentials" => CredInv) => SavedStays
  BY DEF CredInv, SavedStays, C!SavedStays, Kept, C!NoFile
<1>. QED  BY <1>1, <1>2, <1>3, PTL DEF Spec

(***************************************************************************)
(* The chat screen.  It waits only while nothing is to be swallowed, and a *)
(* stream that tells of an end ends the wait.                              *)
(***************************************************************************)
StreamStages ==
  {"unused", "posting", "started", "refused", "attaching", "attached", "reading", "over",
   "broken", "delta", "question", "approval", "done", "error", "eof"}

TuiInv ==
  /\ stage \in [T!Streams -> StreamStages]
  /\ interrupting => ~waiting
  /\ T!WaitingIsServed

LEMMA NextIsUnused ==
  ASSUME T!Unused # {}
  PROVE  T!NextStream \in T!Streams /\ stage[T!NextStream] = "unused"
<1>1. T!Unused \in SUBSET Nat
  BY PartsAssumption DEF T!Unused, T!Streams, T!TuiAssumption
<1>2. \E s \in T!Unused : \A o \in T!Unused : s <= o
  BY <1>1, LeastMember
<1>. QED  BY <1>2 DEF T!NextStream, T!Unused

\* A stream may take any stage if nobody waits then, another that serves if it
\* served, and any other if it did not.
LEMMA StageStep ==
  ASSUME TuiInv, NEW s \in T!Streams, NEW to \in StreamStages,
         stage' = [stage EXCEPT ![s] = to], UNCHANGED <<waiting, interrupting>>,
         ~waiting \/ stage[s] \notin T!Opening \cup T!Open \/ to \in T!Opening \cup T!Open
  PROVE  TuiInv'
BY DEF TuiInv, T!WaitingIsServed

\* Each key, message and command keeps it.
LEMMA TuiStep ==
  ASSUME TuiInv, T!Next
  PROVE  TuiInv'
<1>. USE DEF T!net, T!rewind, T!daemon
<1>1. ASSUME UNCHANGED <<stage, waiting, interrupting>>  PROVE TuiInv'
  BY <1>1 DEF TuiInv, T!WaitingIsServed, T!Opening, T!Open, T!Progress, T!Last
<1>2. CASE T!handlePickerKey \/ T!finishSplash \/ T!SessionCreated
  BY <1>1, <1>2 DEF T!handlePickerKey, T!finishSplash, T!SessionCreated
<1>3. CASE T!handleQuestionKey \/ T!handleApprovalKey \/ T!handleRewindKey \/ T!Disarm
  BY <1>1, <1>3 DEF T!handleQuestionKey, T!handleApprovalKey, T!handleRewindKey, T!Disarm
<1>4. CASE T!handleRewindInfo \/ T!handleRewindDone
  BY <1>1, <1>4 DEF T!handleRewindInfo, T!handleRewindDone
<1>5. CASE T!Interrupt \/ T!Rewind \/ T!TurnEnds
  BY <1>1, <1>5 DEF T!Interrupt, T!Rewind, T!TurnEnds
<1>6. ASSUME NEW k \in 1..TypedTexts, T!SteerLost(k) \/ T!Steer(k)  PROVE TuiInv'
  BY <1>1, <1>6 DEF T!SteerLost, T!Steer
<1>7. CASE T!submit
  <2>1. CASE waiting
    BY <1>1, <1>7, <2>1 DEF T!submit
  <2>2. CASE ~waiting
    <3>1. /\ waiting' = TRUE /\ interrupting' = FALSE
          /\ stage' = [stage EXCEPT ![T!NextStream] = "posting"] /\ T!Unused # {}
      BY <1>7, <2>2 DEF T!submit
    <3>. QED
      BY <3>1, NextIsUnused DEF TuiInv, StreamStages, T!WaitingIsServed, T!Opening
  <2>. QED  BY <2>1, <2>2
<1>8. CASE T!InterruptKey
  BY <1>8 DEF T!InterruptKey, TuiInv, T!WaitingIsServed
<1>9. CASE T!HistoryLoaded
  <2>1. CASE UNCHANGED stage
    BY <1>1, <1>9, <2>1 DEF T!HistoryLoaded
  <2>2. CASE T!Unused # {} /\ stage' = [stage EXCEPT ![T!NextStream] = "attaching"]
    BY <1>9, <2>2, NextIsUnused, StageStep
       DEF T!HistoryLoaded, StreamStages, T!Opening, T!Open, T!Progress, T!Last
  <2>. QED  BY <1>9, <2>1, <2>2 DEF T!HistoryLoaded
<1>10. ASSUME NEW s \in T!Streams, T!SendMessageStream(s)  PROVE TuiInv'
  BY <1>10, StageStep DEF T!SendMessageStream, StreamStages, T!Opening
<1>11. ASSUME NEW s \in T!Streams, T!AttachTurn(s)  PROVE TuiInv'
  BY <1>11, StageStep DEF T!AttachTurn, StreamStages, T!Opening, T!Open, T!Progress, T!Last
<1>12. ASSUME NEW s \in T!Streams, T!MessageStreamNext(s)  PROVE TuiInv'
  BY <1>12, StageStep
     DEF T!MessageStreamNext, T!Events, StreamStages, T!Open, T!Progress, T!Last
<1>13. ASSUME NEW s \in T!Streams, T!StreamStart(s)  PROVE TuiInv'
  <2>1. CASE stage[s] = "started"
    BY <1>13, <2>1, StageStep DEF T!StreamStart, StreamStages, T!Open
  <2>2. CASE stage[s] = "refused"
    BY <1>13, <2>2 DEF T!StreamStart, TuiInv, StreamStages, T!WaitingIsServed
  <2>. QED  BY <1>13, <2>1, <2>2 DEF T!StreamStart
<1>14. ASSUME NEW s \in T!Streams, T!TurnAttached(s)  PROVE TuiInv'
  BY <1>14 DEF T!TurnAttached, TuiInv, StreamStages, T!WaitingIsServed, T!Open
<1>15. ASSUME NEW s \in T!Streams, T!Swallowed(s)  PROVE TuiInv'
  BY <1>15 DEF T!Swallowed, T!Forget, TuiInv, StreamStages, T!WaitingIsServed
<1>16. ASSUME NEW s \in T!Streams, T!Progressed(s)  PROVE TuiInv'
  BY <1>16, StageStep DEF T!Progressed, StreamStages, T!Open
<1>17. ASSUME NEW s \in T!Streams, T!Finished(s)  PROVE TuiInv'
  BY <1>17 DEF T!Finished, T!Forget, TuiInv, StreamStages, T!WaitingIsServed
<1>. QED
  BY <1>2, <1>3, <1>4, <1>5, <1>6, <1>7, <1>8, <1>9, <1>10, <1>11, <1>12, <1>13, <1>14,
     <1>15, <1>16, <1>17
     DEF T!Next, T!handleKey, T!Update, T!Commands, T!handleStreamEvent

\* However keys, late events and an attach interleave, a screen that waits is
\* served by some stream (handleStreamEvent).
THEOREM ScreenIsServed == Spec => []WaitingIsServed
<1>1. Init => (part = "tui" => TuiInv)
  BY DEF Init, T!Init, TuiInv, StreamStages, T!WaitingIsServed
<1>2. (part = "tui" => TuiInv) /\ [Next]_partsVars => (part = "tui" => TuiInv)'
  <2>1. CASE UNCHANGED tuiVars
    BY <2>1, OneStep DEF tuiVars, TuiInv, T!WaitingIsServed
  <2>. QED  BY <2>1, OneStep, TuiStep
<1>3. (part = "tui" => TuiInv) => WaitingIsServed
  BY DEF TuiInv, WaitingIsServed
<1>. QED  BY <1>1, <1>2, <1>3, PTL DEF Spec

(***************************************************************************)
(* Snapshots.  Whoever stages or resets holds the lock, and from a rewind's*)
(* capture on, unless somebody else wrote, the index covers every file and *)
(* what is in the workspace is in some commit.                             *)
(***************************************************************************)
Labels == {"auto", "named", "pre-rewind"}
CommitType == [tree : S!Trees, label : Labels, parent : Nat]
CreateType == [do : {"create"}, label : Labels, tree : S!Trees]
RestoreType == [do : {"restore"}, target : Nat, report : SUBSET S!Paths, seen : S!Trees]

SnapTypes ==
  /\ files \in S!Trees
  /\ index \subseteq S!Paths
  /\ commits \in Seq(CommitType)
  /\ head \in Nat
  /\ lock \in S!Actors \cup {"free"}
  /\ job \in [S!Actors ->
       {S!Idle, [do |-> "captured"]} \cup CreateType \cup RestoreType]

Locked ==
  /\ \A a \in S!Actors : job[a].do \in {"create", "restore"} => lock = a
  /\ \A a \in S!Actors : job[a].do = "restore" => job[a].target \in DOMAIN commits
  /\ offered \in DOMAIN commits \cup {0}
  /\ job["rewind"] # S!Idle => offered # 0

InSomeCommit == \E n \in DOMAIN commits : commits[n].tree = files

Captured ==
  ~disturbed /\ job["rewind"] # S!Idle =>
    /\ S!Present(files) \subseteq index
    /\ job["rewind"].do = "create" => job["rewind"].tree = files
    /\ job["rewind"].do \in {"captured", "restore"} => InSomeCommit

SnapInv == SnapTypes /\ Locked /\ Captured

LEMMA CommitHasTree ==
  ASSUME SnapTypes, NEW n \in DOMAIN commits
  PROVE  commits[n].tree \in S!Trees
<1>1. commits[n] \in CommitType
  BY DEF SnapTypes
<1>. QED  BY <1>1 DEF CommitType

\* With every file in the index, a reset brings back the commit's tree.
LEMMA ResetIsExact ==
  ASSUME SnapTypes, NEW n \in DOMAIN commits, S!Present(files) \subseteq index
  PROVE  S!ResetTo(n) = commits[n].tree
<1>1. commits[n].tree \in S!Trees
  BY CommitHasTree
<1>2. \A p \in S!Paths : S!ResetTo(n)[p] = commits[n].tree[p]
  BY DEF S!ResetTo, S!Present
<1>. QED
  BY <1>1, <1>2 DEF S!ResetTo, S!Trees

\* A reset gives a tree.
LEMMA ResetIsTree ==
  ASSUME SnapTypes, NEW n \in DOMAIN commits
  PROVE  S!ResetTo(n) \in S!Trees
<1>1. commits[n].tree \in S!Trees
  BY CommitHasTree
<1>. QED  BY <1>1 DEF S!ResetTo, S!Trees, SnapTypes

\* Create begins: everything is staged.
LEMMA StageKeeps ==
  ASSUME SnapInv, NEW a \in S!Actors, NEW label \in Labels, S!Stage(a, label),
         job[a] = S!Idle, a = "rewind" => disturbed' = FALSE /\ offered # 0,
         a # "rewind" => disturbed' = disturbed
  PROVE  SnapInv'
<1>1. SnapTypes'
  BY DEF SnapInv, SnapTypes, S!Stage, CreateType, S!Present
<1>2. Locked'
  BY DEF SnapInv, SnapTypes, Locked, S!Stage, S!Idle, S!Actors
<1>3. Captured'
  <2>1. job' = [job EXCEPT ![a] = [do |-> "create", label |-> label, tree |-> files]]
        /\ files' = files /\ commits' = commits /\ index' = S!Present(files)
    BY DEF S!Stage
  <2>2. CASE a = "rewind"
    BY <2>1, <2>2 DEF SnapInv, SnapTypes, Captured, S!Present
  <2>3. CASE a # "rewind"
    BY <2>1, <2>3 DEF SnapInv, SnapTypes, Captured, InSomeCommit, S!Present, S!Actors
  <2>. QED  BY <2>2, <2>3
<1>. QED  BY <1>1, <1>2, <1>3 DEF SnapInv

\* The commit of what was staged.
LEMMA CommitKeeps ==
  ASSUME SnapInv, NEW a \in S!Actors, S!Commit(a)
  PROVE  SnapInv'
<1>. DEFINE new == [tree |-> job[a].tree, label |-> job[a].label, parent |-> head]
<1>1. job[a] \in CreateType
  BY DEF SnapInv, SnapTypes, S!Commit, S!Idle, RestoreType
<1>2. new \in CommitType
  BY <1>1 DEF CreateType, CommitType, SnapInv, SnapTypes
<1>3. /\ commits' = Append(commits, new) /\ commits' \in Seq(CommitType)
      /\ DOMAIN commits \subseteq DOMAIN commits' /\ Len(commits') \in DOMAIN commits'
      /\ Len(commits') \in Nat /\ commits'[Len(commits')] = new
      /\ \A n \in DOMAIN commits : commits'[n] = commits[n]
  <2>. HIDE DEF new
  <2>1. commits' = Append(commits, new)
    BY DEF S!Commit, new
  <2>. QED  BY <1>2, <2>1 DEF SnapInv, SnapTypes
<1>4. SnapTypes'
  BY <1>3 DEF SnapInv, SnapTypes, S!Commit, S!After
<1>5. Locked'
  BY <1>3 DEF SnapInv, SnapTypes, Locked, S!Commit, S!After, S!Idle, S!Actors
<1>6. Captured'
  <2>1. /\ job' = [job EXCEPT ![a] = S!After(a)]
        /\ files' = files /\ index' = index /\ disturbed' = disturbed
    BY DEF S!Commit
  <2>2. CASE a = "rewind"
    <3>1. ~disturbed => new.tree = files /\ S!Present(files) \subseteq index
      BY <2>2, <1>1 DEF SnapInv, Captured, S!Commit, S!Idle, CreateType
    <3>. QED
      BY <1>3, <2>1, <2>2, <3>1 DEF SnapInv, SnapTypes, Captured, InSomeCommit, S!Present, S!After, S!Commit
  <2>3. CASE a # "rewind"
    BY <1>3, <2>1, <2>3 DEF SnapInv, SnapTypes, Captured, InSomeCommit, S!Present, S!Actors
  <2>. QED  BY <2>2, <2>3
<1>. QED  BY <1>4, <1>5, <1>6 DEF SnapInv

\* Restore begins: what differs is listed.
LEMMA PreviewKeeps ==
  ASSUME SnapInv, NEW a \in S!Actors, NEW n \in DOMAIN commits, S!Preview(a, n),
         job[a] = IF a = "rewind" THEN [do |-> "captured"] ELSE S!Idle
  PROVE  SnapInv'
<1>1. SnapTypes'
  <2>1. n \in Nat
    BY DEF SnapInv, SnapTypes
  <2>2. S!changesFor(n) \in SUBSET S!Paths
    BY DEF SnapInv, SnapTypes, S!changesFor, S!Present
  <2>3. [do |-> "restore", target |-> n, report |-> S!changesFor(n), seen |-> files]
          \in RestoreType
    BY <2>1, <2>2 DEF RestoreType, SnapInv, SnapTypes
  <2>. QED  BY <2>3 DEF SnapInv, SnapTypes, S!Preview
<1>2. Locked'
  BY DEF SnapInv, SnapTypes, Locked, S!Preview, S!Idle, S!Actors
<1>3. Captured'
  BY DEF SnapInv, SnapTypes, Captured, InSomeCommit, S!Present, S!Preview, S!Idle, S!Actors
<1>. QED  BY <1>1, <1>2, <1>3 DEF SnapInv

\* The reset itself.
LEMMA ResetKeeps ==
  ASSUME SnapInv, NEW a \in S!Actors, S!Reset(a)
  PROVE  SnapInv'
<1>. DEFINE n == job[a].target
<1>1. n \in DOMAIN commits /\ n \in Nat /\ commits[n].tree \in S!Trees
  <2>1. n \in DOMAIN commits
    BY DEF SnapInv, Locked, S!Reset
  <2>. QED  BY <2>1, CommitHasTree DEF SnapInv, SnapTypes
<1>2. /\ files' = S!ResetTo(n) /\ index' = S!Present(commits[n].tree) /\ head' = n
      /\ lock' = "free" /\ job' = [job EXCEPT ![a] = S!Idle] /\ commits' = commits
      /\ offered' = IF a = "rewind" THEN 0 ELSE offered
      /\ disturbed' = disturbed
  BY DEF S!Reset
<1>3. SnapTypes'
  BY <1>1, <1>2, ResetIsTree DEF SnapInv, SnapTypes, S!Present
<1>4. Locked'
  BY <1>2 DEF SnapInv, SnapTypes, Locked, S!Idle, S!Actors, S!Reset
<1>5. Captured'
  <2>1. CASE a = "rewind"
    BY <1>2, <2>1 DEF SnapInv, SnapTypes, Captured
  <2>2. CASE a # "rewind"
    <3>1. job'["rewind"] = job["rewind"] /\ lock = a /\ job["rewind"].do # "create"
      BY <1>2, <2>2 DEF SnapInv, SnapTypes, Locked, S!Actors, S!Reset
    <3>2. ~disturbed /\ job["rewind"] # S!Idle => files' = commits[n].tree
      BY <1>1, <1>2, ResetIsExact DEF SnapInv, Captured
    <3>. QED
      BY <1>1, <1>2, <3>1, <3>2 DEF Captured, InSomeCommit, S!Present
  <2>. QED  BY <2>1, <2>2
<1>. QED  BY <1>3, <1>4, <1>5 DEF SnapInv

\* Every operation of the store, and every writer beside it, keeps it.
LEMMA SnapStep ==
  ASSUME SnapInv, S!Next
  PROVE  SnapInv'
<1>. USE DEF S!storeVars
<1>1. CASE S!AutoCheckpoint
  BY <1>1, StageKeeps DEF S!AutoCheckpoint, S!Actors, Labels
<1>2. CASE S!SnapshotCreate
  BY <1>2, StageKeeps DEF S!SnapshotCreate, S!Actors, Labels
<1>3. CASE S!RunEnds
  BY <1>3 DEF S!RunEnds, SnapInv, SnapTypes, Locked, Captured, InSomeCommit, S!Present
<1>4. CASE S!SnapshotRestore
  BY <1>4, PreviewKeeps DEF S!SnapshotRestore, S!Actors
<1>5. CASE S!LatestAutoCheckpoint
  BY <1>5 DEF S!LatestAutoCheckpoint, SnapInv, SnapTypes, Locked, Captured, InSomeCommit,
     S!Present, S!Idle
<1>6. CASE S!RewindCapture
  BY <1>6, StageKeeps DEF S!RewindCapture, S!Actors, Labels
<1>7. CASE S!RewindRestore
  <2>1. offered \in DOMAIN commits /\ job["rewind"] = [do |-> "captured"]
    BY <1>7 DEF S!RewindRestore, SnapInv, SnapTypes, Locked, S!Actors, S!Idle, CreateType, RestoreType
  <2>. QED  BY <1>7, <2>1, PreviewKeeps DEF S!RewindRestore, S!Actors
<1>8. ASSUME NEW a \in S!Actors, S!Commit(a)  PROVE SnapInv'
  BY <1>8, CommitKeeps
<1>9. ASSUME NEW a \in S!Actors, S!CreateFails(a)  PROVE SnapInv'
  <2>1. SnapTypes'
    BY <1>9 DEF S!CreateFails, SnapInv, SnapTypes
  <2>2. Locked'
    BY <1>9 DEF S!CreateFails, SnapInv, SnapTypes, Locked, S!Idle, S!Actors
  <2>3. Captured'
    BY <1>9 DEF S!CreateFails, SnapInv, SnapTypes, Captured, InSomeCommit, S!Present, S!Actors
  <2>. QED  BY <2>1, <2>2, <2>3 DEF SnapInv
<1>10. ASSUME NEW a \in S!Actors, S!Reset(a)  PROVE SnapInv'
  BY <1>10, ResetKeeps
<1>11. ASSUME NEW p \in S!Paths, S!Write(p)  PROVE SnapInv'
  <2>1. files' \in S!Trees
    BY <1>11 DEF S!Write, SnapInv, SnapTypes, S!Trees
  <2>. QED
    BY <1>11, <2>1 DEF S!Write, SnapInv, SnapTypes, Locked, Captured
<1>. QED
  BY <1>1, <1>2, <1>3, <1>4, <1>5, <1>6, <1>7, <1>8, <1>9, <1>10, <1>11 DEF S!Next

\* The rewind's reset brings back its target and what it undoes is in a commit.
LEMMA RewindStep ==
  ASSUME SnapInv, S!Next, NEW a \in S!Actors, a = "rewind", job[a].do = "restore",
         job'[a] = S!Idle, ~disturbed
  PROVE  /\ files' = commits[job[a].target].tree
         /\ \E n \in DOMAIN commits : commits[n].tree = files
<1>1. job["rewind"] # S!Idle /\ lock = "rewind"
  BY DEF S!Idle, SnapInv, Locked
<1>2. S!Reset("rewind")
  <2>1. job' # job
    BY <1>1
  <2>2. \A b \in S!Actors : ~S!Commit(b) /\ ~S!CreateFails(b)
    BY <1>1 DEF S!Commit, S!CreateFails, SnapInv, Locked
  <2>3. ~S!Reset("run")
    BY <1>1 DEF S!Reset, SnapInv, Locked, S!Actors
  <2>4. \A p \in S!Paths : ~S!Write(p)
    BY <2>1 DEF S!Write
  <2>. QED
    BY <1>1, <2>1, <2>2, <2>3, <2>4
       DEF S!Next, S!AutoCheckpoint, S!SnapshotCreate, S!RunEnds, S!SnapshotRestore,
           S!LatestAutoCheckpoint, S!RewindCapture, S!RewindRestore, S!Stage, S!Preview, S!Actors
<1>3. job["rewind"].target \in DOMAIN commits /\ S!Present(files) \subseteq index /\ InSomeCommit
  BY <1>1 DEF SnapInv, Locked, Captured
<1>. QED
  BY <1>2, <1>3, ResetIsExact DEF S!Reset, SnapInv, InSomeCommit

\* A rewind nobody wrote into brings back its checkpoint exactly and loses
\* nothing (Service.Rewind).
THEOREM RewindsExactly == Spec => RewindExact
<1>1. Init => (part = "snapshots" => SnapInv)
  <2>. SUFFICES ASSUME S!Init  PROVE SnapTypes /\ Locked /\ Captured
    BY DEF Init, SnapInv
  <2>. USE DEF S!Init
  <2>1. SnapTypes
    BY PartsAssumption DEF SnapTypes, S!SnapshotsAssumption
  <2>2. Locked /\ Captured
    BY DEF Locked, Captured, S!Idle, S!Actors
  <2>. QED  BY <2>1, <2>2
<1>2. (part = "snapshots" => SnapInv) /\ [Next]_partsVars => (part = "snapshots" => SnapInv)'
  <2>1. CASE UNCHANGED snapshotVars
    BY <2>1, OneStep DEF snapshotVars, SnapInv, SnapTypes, Locked, Captured, InSomeCommit, S!Present
  <2>. QED  BY <2>1, OneStep, SnapStep
<1>3. (part = "snapshots" => SnapInv) /\ [Next]_partsVars =>
        [\A a \in S!Actors :
           a = "rewind" /\ job[a].do = "restore" /\ job'[a] = S!Idle /\ ~disturbed =>
             /\ files' = commits[job[a].target].tree
             /\ \E n \in DOMAIN commits : commits[n].tree = files]_(S!snapshotVars)
  <2>. SUFFICES ASSUME part = "snapshots" => SnapInv, [Next]_partsVars,
                       ~UNCHANGED S!snapshotVars,
                       NEW a \in S!Actors, a = "rewind", job[a].do = "restore",
                       job'[a] = S!Idle, ~disturbed
                PROVE  /\ files' = commits[job[a].target].tree
                       /\ \E n \in DOMAIN commits : commits[n].tree = files
    OBVIOUS
  <2>1. ~UNCHANGED snapshotVars
    BY DEF snapshotVars, S!snapshotVars, S!storeVars
  <2>2. part = "snapshots"
    BY <2>1 DEF Next, OnlyIts, partsVars
  <2>3. S!Next
    BY <2>1, <2>2, OneStep
  <2>. QED  BY <2>2, <2>3, RewindStep
<1>. QED  BY <1>1, <1>2, <1>3, PTL DEF Spec, RewindExact, S!RewindExact

(***************************************************************************)
(* Approvals.  The evaluator's rules are the policy's with those of grants *)
(* behind, every grant was once an "always" of the user, and what runs or  *)
(* is about to was allowed by the rules or by an answer to its own wait.   *)
(***************************************************************************)
Phases == {"idle", "approval", "question", "granting", "adding", "saving", "approved",
           "ran", "refused"}
Grants == [tool : Tools \cup {A!Asking}, subject : Subjects \cup {""}]
AnswersOrNone == A!Verdicts \cup {"words", "nothing", ""}
Clicking == [at : {"found"}, wait : A!Waits, answer : A!Verdicts \cup {"words"}]

ApprovalTypes ==
  /\ phase \in [Calls -> Phases]
  /\ tool \in [Calls -> Tools \cup {A!Asking}]
  /\ subject \in [Calls -> Subjects \cup {""}]
  /\ live \in [Calls -> BOOLEAN]
  /\ heard \in [A!Waits -> AnswersOrNone]
  /\ slot \in [A!Waits -> AnswersOrNone]
  /\ \A w \in A!Waits : slot[w] \in A!AnswersTo(w) \cup {""}
  /\ click \in [Clicks -> Clicking \cup {A!Idle}]
  /\ \A k \in Clicks : click[k].at = "found" => click[k].answer \in A!AnswersTo(click[k].wait)

\* Grants are answers the user gave.
GrantsGiven ==
  /\ always \in SUBSET Grants /\ IsFiniteSet(always)
  /\ grants \subseteq always /\ grantFile \subseteq always
  /\ adding \in [Calls -> SUBSET always]
  /\ \A c \in Calls : phase[c] \in {"granting", "adding", "saving"} => A!What(c) \in always

\* Behind the rules of the policy there are those of grants.
Evaluator ==
  /\ policy \in Seq(A!Rule) /\ default \in A!Decisions
  /\ \E n \in Nat : Len(policy) <= n /\ DOMAIN rules = 1..n
  /\ \A i \in DOMAIN policy : rules[i] = policy[i]
  /\ \A i \in DOMAIN rules \ DOMAIN policy : \E g \in always : rules[i] = A!GrantRule(g)

Agreed(c) == live[c] /\ heard[<<"approval", c>>] \in {"once", "always"}
Allowed(c) ==
  /\ \/ A!Evaluate(policy, default, tool[c], subject[c]) = "allow"
     \/ \E g \in always : A!Covers(g, c)
  /\ tool[c] = "bash" => ~A!HasCommandChaining(subject[c])

Consented ==
  \A c \in Calls :
    /\ phase[c] = "approval" => live[c]
    /\ phase[c] \in {"granting", "adding", "saving", "approved"} => Agreed(c)
    /\ phase[c] \in {"question", "ran"} => Agreed(c) \/ Allowed(c)

ApprovalInv == ApprovalTypes /\ GrantsGiven /\ Evaluator /\ Consented

\* Of the rules that match a call one outranks the others.
LEMMA OneOutranks ==
  ASSUME NEW rs, NEW n \in Nat, DOMAIN rs = 1..n, NEW hits \in SUBSET (1..n), hits # {}
  PROVE  \E i \in hits : \A j \in hits : A!Outranks(rs, i, j)
<1>. DEFINE spec(i) == A!Specificity(rs[i])
            specs == {spec(i) : i \in hits}
<1>1. \A i \in hits : spec(i) \in 1..3
  BY DEF A!Specificity
<1>2. PICK top \in specs : \A x \in specs : top >= x
  <2>1. specs \in SUBSET (1..3) /\ specs # {}
    BY <1>1
  <2>. HIDE DEF specs
  <2>. QED  BY <2>1, GreatestMember
<1>. DEFINE best == {i \in hits : spec(i) = top}
<1>3. PICK i \in best : \A j \in best : i >= j
  <2>1. best \in SUBSET (1..n) /\ best # {}
    BY <1>2
  <2>. HIDE DEF best
  <2>. QED  BY <2>1, GreatestMember
<1>4. ASSUME NEW j \in hits  PROVE A!Outranks(rs, i, j)
  <2>1. spec(i) >= spec(j) /\ spec(i) \in 1..3 /\ spec(j) \in 1..3
    BY <1>1, <1>2, <1>3
  <2>2. spec(i) = spec(j) => i >= j
    BY <1>3
  <2>. QED  BY <2>1, <2>2 DEF A!Outranks
<1>. QED  BY <1>3, <1>4

\* So the verdict is the default or that of a rule which outranks.
LEMMA VerdictIs ==
  ASSUME NEW rs, NEW n \in Nat, DOMAIN rs = 1..n, NEW d, NEW t, NEW s
  PROVE  LET hits == A!Matching(rs, t, s)
             v == A!Verdict(rs, d, t, s)
         IN  \/ hits = {} /\ v = d
             \/ \E i \in hits : /\ \A j \in hits : A!Outranks(rs, i, j)
                                /\ v = rs[i].decision
<1>. DEFINE hits == A!Matching(rs, t, s)
<1>1. hits \in SUBSET (1..n)
  BY DEF A!Matching
<1>2. CASE hits = {}
  BY <1>2 DEF A!Verdict
<1>3. CASE hits # {}
  <2>1. \E i \in hits : \A j \in hits : A!Outranks(rs, i, j)
    <3>. HIDE DEF hits
    <3>. QED  BY <1>1, <1>3, OneOutranks
  <2>2. PICK i : /\ i \in hits /\ \A j \in hits : A!Outranks(rs, i, j)
                 /\ A!Verdict(rs, d, t, s) = rs[i].decision
    BY <1>3, <2>1 DEF A!Verdict
  <2>. QED  BY <2>2
<1>. QED  BY <1>2, <1>3

\* And no other outranks.
LEMMA OnlyOneOutranks ==
  ASSUME NEW rs, NEW i \in Nat, NEW j \in Nat,
         A!Outranks(rs, i, j), A!Outranks(rs, j, i)
  PROVE  i = j
<1>1. A!Specificity(rs[i]) \in 1..3 /\ A!Specificity(rs[j]) \in 1..3
  BY DEF A!Specificity
<1>. QED  BY <1>1 DEF A!Outranks

\* What the evaluator allows, the policy allows or a grant covers.
LEMMA AllowedOrGranted ==
  ASSUME Evaluator, NEW t, NEW s,
         A!Evaluate(rules, default, t, s) \notin {"ask", "deny"}
  PROVE  /\ \/ A!Evaluate(policy, default, t, s) = "allow"
            \/ \E g \in always : /\ g.tool = t
                                 /\ s \in Widens[g.subject] \/ g.subject \in Blank
         /\ t = "bash" => ~A!HasCommandChaining(s)
<1>. DEFINE hits == A!Matching(rules, t, s)
            mine == A!Matching(policy, t, s)
            v == A!Verdict(rules, default, t, s)
<1>1. PICK n \in Nat : Len(policy) <= n /\ DOMAIN rules = 1..n
  BY DEF Evaluator
<1>2. Len(policy) \in Nat /\ DOMAIN policy = 1..Len(policy)
  BY DEF Evaluator
<1>3. \A i \in DOMAIN rules : rules[i].decision \in A!Decisions
  <2>1. \A i \in DOMAIN policy : policy[i].decision \in A!Decisions
    <3>1. \A i \in DOMAIN policy : policy[i] \in A!Rule
      BY DEF Evaluator
    <3>2. \A r \in A!Rule : r.decision \in A!Decisions
      BY DEF A!Rule
    <3>. QED  BY <3>1, <3>2
  <2>. QED  BY <2>1 DEF Evaluator, A!GrantRule, A!Decisions
<1>4. \/ hits = {} /\ v = default
      \/ \E i \in hits : (\A j \in hits : A!Outranks(rules, i, j)) /\ v = rules[i].decision
  BY <1>1, VerdictIs
<1>5. v = "allow" /\ (t = "bash" => ~A!HasCommandChaining(s))
  <2>1. v \in A!Decisions
    BY <1>3, <1>4 DEF Evaluator, A!Matching
  <2>. QED  BY <2>1 DEF A!Evaluate, A!Decisions
<1>6. mine = {i \in hits : i \in DOMAIN policy}
  BY <1>1, <1>2 DEF Evaluator, A!Matching
<1>7. \/ mine = {} /\ A!Verdict(policy, default, t, s) = default
      \/ \E i \in mine : /\ \A j \in mine : A!Outranks(policy, i, j)
                         /\ A!Verdict(policy, default, t, s) = policy[i].decision
  BY <1>2, VerdictIs
<1>8. CASE hits = {}
  <2>1. A!Verdict(policy, default, t, s) = "allow"
    BY <1>4, <1>5, <1>6, <1>7, <1>8
  <2>. QED  BY <1>5, <2>1 DEF A!Evaluate
<1>9. ASSUME NEW i \in hits, \A j \in hits : A!Outranks(rules, i, j), v = rules[i].decision,
             i \in DOMAIN policy
      PROVE  A!Evaluate(policy, default, t, s) = "allow"
  <2>1. i \in mine
    BY <1>6, <1>9
  <2>2. PICK k \in mine : /\ \A j \in mine : A!Outranks(policy, k, j)
                          /\ A!Verdict(policy, default, t, s) = policy[k].decision
    BY <1>7, <2>1
  <2>3. A!Outranks(policy, k, i)
    BY <2>1, <2>2
  <2>4. A!Outranks(policy, i, k)
    <3>1. A!Outranks(rules, i, k) /\ rules[i] = policy[i] /\ rules[k] = policy[k]
      BY <1>6, <1>9, <2>2 DEF Evaluator
    <3>. QED  BY <3>1 DEF A!Outranks
  <2>5. i \in Nat /\ k \in Nat
    BY <1>2, <1>6, <1>9, <2>2
  <2>6. k = i
    BY <2>3, <2>4, <2>5, OnlyOneOutranks
  <2>7. A!Verdict(policy, default, t, s) = "allow"
    BY <1>5, <1>9, <2>2, <2>6 DEF Evaluator
  <2>. QED  BY <1>5, <2>7 DEF A!Evaluate
<1>10. ASSUME NEW i \in hits, i \notin DOMAIN policy
       PROVE  \E g \in always : g.tool = t /\ (s \in Widens[g.subject] \/ g.subject \in Blank)
  <2>1. PICK g \in always : rules[i] = A!GrantRule(g)
    BY <1>10 DEF Evaluator, A!Matching
  <2>2. A!MatchesTool(rules[i], t) /\ A!MatchesSubject(rules[i], s)
    BY <1>10 DEF A!Matching
  <2>3. /\ A!GrantRule(g).tools = {g.tool}
        /\ A!GrantRule(g).any = (g.subject \in Blank)
        /\ A!GrantRule(g).subjects = Widens[g.subject]
    BY DEF A!GrantRule
  <2>4. t \in A!GrantRule(g).tools
    BY <2>1, <2>2 DEF A!MatchesTool
  <2>5. A!GrantRule(g).any \/ s \in A!GrantRule(g).subjects
    BY <2>1, <2>2 DEF A!MatchesSubject
  <2>6. g.subject \in Blank \/ s \in Widens[g.subject]
    BY <2>3, <2>5
  <2>. QED  BY <2>3, <2>4, <2>6
<1>. QED  BY <1>4, <1>5, <1>8, <1>9, <1>10

\* The rules of the grants that are kept.
LEMMA GrantRulesAre ==
  ASSUME NEW kept, IsFiniteSet(kept)
  PROVE  /\ A!GrantRules(kept) \in Seq({A!GrantRule(g) : g \in kept})
<1>. DEFINE granted == {A!GrantRule(g) : g \in kept}
<1>1. IsFiniteSet(granted)
  <2>. DEFINE f == [g \in kept |-> A!GrantRule(g)]
  <2>1. f \in Surjection(kept, granted)
    BY DEF Surjection
  <2>. QED  BY <2>1, FS_Surjection
<1>2. A!SetToSeq(granted) \in [1..Cardinality(granted) -> granted] /\ Cardinality(granted) \in Nat
  <2>1. \E f \in [1..Cardinality(granted) -> granted] : A!IsInjective(f)
    <3>1. PICK f \in Bijection(1..Cardinality(granted), granted) : TRUE
      BY <1>1, FS_CardinalityType DEF ExistsBijection
    <3>2. f \in [1..Cardinality(granted) -> granted] /\ \A a, b \in 1..Cardinality(granted) : f[a] = f[b] => a = b
      BY <3>1 DEF Bijection, Injection, IsInjective
    <3>. HIDE DEF granted
    <3>. QED  BY <3>2 DEF A!IsInjective
  <2>2. A!Cardinality(granted) = Cardinality(granted)
    BY DEF A!Cardinality, Cardinality
  <2>. HIDE DEF granted
  <2>. QED  BY <1>1, <2>1, <2>2, FS_CardinalityType DEF A!SetToSeq
<1>3. A!SetToSeq(granted) \in Seq(granted)
  <2>. HIDE DEF granted
  <2>. QED  BY <1>2
<1>. QED  BY <1>3 DEF A!GrantRules

\* The rules of a file that count, and the policy files together.
LEMMA RulesKept ==
  ASSUME NEW f, NEW Any, f.rules \in Seq(Any)
  PROVE  A!Only(f.rules, A!Rule) \in Seq(A!Rule)
<1>. DEFINE list == f.rules
<1>1. A!Only(list, A!Rule) = Only(list, A!Rule)
  BY DEF A!Only, Only
<1>2. Only(list, A!Rule) \in Seq(Any)
  BY OnlyType
<1>3. \A i \in 1..Len(Only(list, A!Rule)) : Only(list, A!Rule)[i] \in A!Rule
  BY OnlyMembers
<1>. QED
  <2>. DEFINE only == Only(list, A!Rule)
  <2>1. only \in Seq(Any) /\ \A i \in 1..Len(only) : only[i] \in A!Rule
    BY <1>2, <1>3
  <2>2. only \in Seq(A!Rule)
    <3>. HIDE DEF only
    <3>. QED  BY <2>1
  <2>. QED  BY <1>1, <2>2

LEMMA PolicyLoaded ==
  ASSUME NEW g \in Globals, NEW p \in Projects
  PROVE  /\ A!LoadConfig(g, p).rules \in Seq(A!Rule)
         /\ A!DefaultOf(A!LoadConfig(g, p)) \in A!Decisions
<1>1. /\ A!Only(g.rules, A!Rule) \in Seq(A!Rule)
      /\ A!Only(p.rules, A!Rule) \in Seq(A!Rule)
  BY PartsAssumption, RulesKept DEF A!ApprovalsAssumption
<1>2. A!LoadConfig(g, p).rules = <<>> \o A!Only(g.rules, A!Rule) \o A!Only(p.rules, A!Rule)
  BY DEF A!LoadConfig, A!MergeConfigFile, A!NoPolicy
<1>. QED  BY <1>1, <1>2 DEF A!DefaultOf, A!Decisions

\* The evaluator of a new registry.
LEMMA NewRegistryStep ==
  ASSUME NEW g \in Globals, NEW p \in Projects, NEW kept, kept \subseteq always,
         A!NewRegistry(g, p, kept), GrantsGiven, UNCHANGED always
  PROVE  Evaluator' /\ grants' = kept
<1>1. IsFiniteSet(kept)
  BY FS_Subset DEF GrantsGiven
<1>2. PICK more \in Seq({A!GrantRule(x) : x \in kept}) : rules' = policy' \o more
  BY <1>1, GrantRulesAre DEF A!NewRegistry
<1>3. policy' \in Seq(A!Rule) /\ default' \in A!Decisions
  BY PolicyLoaded DEF A!NewRegistry
<1>4. /\ Len(rules') = Len(policy') + Len(more) /\ DOMAIN rules' = 1..Len(rules')
      /\ Len(policy') \in Nat /\ Len(more) \in Nat
      /\ DOMAIN policy' = 1..Len(policy')
  BY <1>2, <1>3
<1>5. \A i \in DOMAIN policy' : rules'[i] = policy'[i]
  BY <1>2, <1>3
<1>6. ASSUME NEW i \in DOMAIN rules', i \notin DOMAIN policy'
      PROVE  \E x \in always : rules'[i] = A!GrantRule(x)
  <2>1. i - Len(policy') \in 1..Len(more) /\ rules'[i] = more[i - Len(policy')]
    BY <1>2, <1>3, <1>4, <1>6
  <2>2. more[i - Len(policy')] \in {A!GrantRule(x) : x \in kept}
    BY <1>2, <2>1
  <2>. QED  BY <2>1, <2>2
<1>7. \E n \in Nat : Len(policy') <= n /\ DOMAIN rules' = 1..n
  BY <1>4
<1>8. grants' = kept
  BY DEF A!NewRegistry
<1>. QED  BY <1>3, <1>5, <1>6, <1>7, <1>8 DEF Evaluator

\* While the evaluator and the user's answers only grow, it stays what it is.
LEMMA EvaluatorStays ==
  ASSUME Evaluator, UNCHANGED A!evaluator, always \subseteq always'
  PROVE  Evaluator'
<1>1. rules' = rules /\ policy' = policy /\ default' = default
  BY DEF A!evaluator
<1>2. \E n \in Nat : Len(policy') <= n /\ DOMAIN rules' = 1..n
  BY <1>1 DEF Evaluator
<1>. QED  BY <1>1, <1>2 DEF Evaluator

\* A call consented to stays so while nothing about it changes.
LEMMA ConsentStays ==
  ASSUME UNCHANGED A!evaluator, always \subseteq always',
         NEW c \in Calls, tool'[c] = tool[c], subject'[c] = subject[c], live'[c] = live[c],
         heard'[<<"approval", c>>] = heard[<<"approval", c>>]
  PROVE  /\ Agreed(c) => Agreed(c)'
         /\ Allowed(c) => Allowed(c)'
         /\ A!What(c) \in always => A!What(c)' \in always'
<1>1. rules' = rules /\ policy' = policy /\ default' = default
  BY DEF A!evaluator
<1>2. Agreed(c) => Agreed(c)'
  BY DEF Agreed
<1>3. A!Evaluate(policy', default', tool'[c], subject'[c]) = A!Evaluate(policy, default, tool[c], subject[c])
  BY <1>1
<1>4. \A g \in always : A!Covers(g, c) => A!Covers(g, c)'
  BY DEF A!Covers
<1>5. Allowed(c) => Allowed(c)'
  BY <1>3, <1>4 DEF Allowed
<1>6. A!What(c)' = A!What(c)
  BY DEF A!What
<1>. QED  BY <1>2, <1>5, <1>6


\* A wait is a kind and a call.
LEMMA WaitIs ==
  ASSUME NEW w \in A!Waits
  PROVE  w = <<w[1], w[2]>> /\ w[1] \in {"approval", "question"} /\ w[2] \in Calls
BY DEF A!Waits, A!Kinds

\* A daemon that starts has nothing running, waiting or half granted.
LEMMA StartKeeps ==
  ASSUME ApprovalInv, A!Start
  PROVE  ApprovalInv'
<1>. USE DEF ApprovalInv
<1>1. always' = always /\ grantFile' = grantFile
  BY DEF A!Start
<1>2. PICK g \in Globals, p \in Projects : A!NewRegistry(g, p, A!Kept(grantFile, torn'))
  BY DEF A!Start
<1>3. A!Kept(grantFile, torn') \subseteq always
  BY DEF A!Kept, GrantsGiven
<1>4. Evaluator' /\ grants' = A!Kept(grantFile, torn')
  BY <1>1, <1>2, <1>3, NewRegistryStep
<1>5. ApprovalTypes'
  BY DEF A!Start, ApprovalTypes, Phases, AnswersOrNone, A!Idle
<1>6. GrantsGiven'
  BY <1>1, <1>3, <1>4 DEF A!Start, GrantsGiven
<1>7. Consented'
  BY DEF A!Start, Consented
<1>. QED  BY <1>4, <1>5, <1>6, <1>7

\* Execute lets a call through that the rules allow, and has others wait.
LEMMA ExecuteKeeps ==
  ASSUME ApprovalInv, NEW c \in Calls, A!Execute(c)
  PROVE  ApprovalInv'
<1>. USE DEF ApprovalInv
<1>1. PICK t \in Tools, s \in Subjects, w \in BOOLEAN :
        /\ A!Outcome(t, s, w) # "refused"
        /\ tool' = [tool EXCEPT ![c] = t] /\ subject' = [subject EXCEPT ![c] = s]
        /\ live' = [live EXCEPT ![c] = w]
        /\ phase' = [phase EXCEPT ![c] = A!Outcome(t, s, w)]
  BY DEF A!Execute
<1>2. /\ UNCHANGED <<A!evaluator, heard, slot, click, always>>
      /\ UNCHANGED <<grants, grantFile, adding>>
  BY DEF A!Execute, A!store
<1>3. A!Outcome(t, s, w) \in {"approval", "question", "ran"}
  BY <1>1 DEF A!Outcome
<1>4. /\ phase'[c] = A!Outcome(t, s, w) /\ tool'[c] = t /\ subject'[c] = s /\ live'[c] = w
      /\ \A d \in Calls : d # c => /\ phase'[d] = phase[d] /\ tool'[d] = tool[d]
                                   /\ subject'[d] = subject[d] /\ live'[d] = live[d]
  BY <1>1 DEF ApprovalTypes
<1>5. ApprovalTypes'
  BY <1>1, <1>2, <1>3 DEF ApprovalTypes, Phases
<1>6. Evaluator'
  BY <1>2, EvaluatorStays
<1>7. \A d \in Calls : d # c => /\ Agreed(d) => Agreed(d)'
                                /\ Allowed(d) => Allowed(d)'
                                /\ A!What(d) \in always => A!What(d)' \in always'
  BY <1>2, <1>4, ConsentStays
<1>8. GrantsGiven'
  BY <1>2, <1>3, <1>4, <1>7 DEF GrantsGiven
<1>9. phase'[c] = "approval" => live'[c]
  BY <1>3, <1>4 DEF A!Outcome
<1>10. ASSUME phase'[c] \in {"question", "ran"}  PROVE Allowed(c)'
  <2>1. A!Evaluate(rules, default, t, s) \notin {"ask", "deny"}
    BY <1>3, <1>4, <1>10 DEF A!Outcome, A!DecisionOn
  <2>2. /\ \/ A!Evaluate(policy, default, t, s) = "allow"
           \/ \E g \in always : g.tool = t /\ (s \in Widens[g.subject] \/ g.subject \in Blank)
        /\ t = "bash" => ~A!HasCommandChaining(s)
    BY <2>1, AllowedOrGranted
  <2>3. \A g : g.tool = t /\ (s \in Widens[g.subject] \/ g.subject \in Blank) => A!Covers(g, c)'
    BY <1>4 DEF A!Covers
  <2>4. policy' = policy /\ default' = default /\ always' = always
    BY <1>2 DEF A!evaluator
  <2>. QED  BY <1>4, <2>2, <2>3, <2>4 DEF Allowed
<1>11. Consented'
  <2>1. ASSUME NEW d \in Calls, d # c
        PROVE  /\ phase'[d] = "approval" => live'[d]
               /\ phase'[d] \in {"granting", "adding", "saving", "approved"} => Agreed(d)'
               /\ phase'[d] \in {"question", "ran"} => Agreed(d)' \/ Allowed(d)'
    BY <1>4, <1>7, <2>1 DEF Consented
  <2>2. phase'[c] \notin {"granting", "adding", "saving", "approved"}
    BY <1>3, <1>4
  <2>. QED  BY <1>9, <1>10, <2>1, <2>2 DEF Consented
<1>. QED  BY <1>5, <1>6, <1>8, <1>11

\* A wait that ends hears an answer to it, or nothing.
LEMMA EndWaitKeeps ==
  ASSUME ApprovalInv, NEW w \in A!Waits, NEW answer \in A!AnswersTo(w) \cup {"nothing"},
         A!EndWait(w, answer)
  PROVE  ApprovalInv'
<1>. USE DEF ApprovalInv
<1>. DEFINE c == w[2]
            then == A!AfterWait(w, answer)
<1>1. w = <<w[1], c>> /\ w[1] \in {"approval", "question"} /\ c \in Calls
  BY WaitIs
<1>2. /\ UNCHANGED <<A!evaluator, tool, subject, live, click>>
      /\ UNCHANGED <<grants, grantFile, adding>>
      /\ phase[c] = w[1]
      /\ heard' = [heard EXCEPT ![w] = answer] /\ slot' = [slot EXCEPT ![w] = ""]
      /\ phase' = [phase EXCEPT ![c] = then]
      /\ always' = IF answer = "always" THEN always \cup {A!What(c)} ELSE always
  BY DEF A!EndWait, A!store
<1>3. answer \in {"once", "always", "deny", "words", "nothing"}
  BY DEF A!AnswersTo, A!Verdicts
<1>4. /\ then \in {"refused", "ran", "granting", "approved"}
      /\ then = "ran" => w[1] = "question"
      /\ then = "granting" => answer = "always" /\ w[1] # "question"
      /\ then = "approved" => answer \notin {"nothing", "deny"} /\ w[1] # "question"
  BY DEF A!AfterWait
<1>5. ApprovalTypes'
  <2>1. answer \in AnswersOrNone /\ "" \in AnswersOrNone /\ then \in Phases
    BY <1>3, <1>4 DEF AnswersOrNone, A!Verdicts, Phases
  <2>. QED  BY <1>1, <1>2, <2>1 DEF ApprovalTypes
<1>6. A!What(c) \in Grants
  BY <1>1 DEF ApprovalTypes, A!What, Grants
<1>7. always \subseteq always' /\ always' \subseteq Grants /\ IsFiniteSet(always')
  BY <1>2, <1>6, FS_AddElement DEF GrantsGiven
<1>8. Evaluator'
  BY <1>2, <1>7, EvaluatorStays
<1>9. \A d \in Calls :
        /\ d # c => phase'[d] = phase[d]
        /\ d # c \/ w[1] = "question" => heard'[<<"approval", d>>] = heard[<<"approval", d>>]
  <2>1. \A d \in Calls : <<"approval", d>> \in A!Waits
    BY DEF A!Waits, A!Kinds
  <2>2. \A d \in Calls : d # c \/ w[1] = "question" => <<"approval", d>> # w
    BY <1>1
  <2>. QED  BY <1>1, <1>2, <2>1, <2>2 DEF ApprovalTypes
<1>10. \A d \in Calls : d # c \/ w[1] = "question" =>
         /\ Agreed(d) => Agreed(d)'
         /\ Allowed(d) => Allowed(d)'
         /\ A!What(d) \in always => A!What(d)' \in always'
  BY <1>2, <1>7, <1>9, ConsentStays
<1>11. phase'[c] = then /\ heard'[w] = answer
  BY <1>1, <1>2 DEF ApprovalTypes
<1>12. GrantsGiven'
  <2>1. \A d \in Calls : phase'[d] \in {"granting", "adding", "saving"} => A!What(d)' \in always'
    <3>1. then = "granting" => A!What(c)' \in always'
      BY <1>2, <1>4 DEF A!What
    <3>. QED  BY <1>4, <1>9, <1>10, <1>11, <3>1 DEF GrantsGiven
  <2>2. grants' \subseteq always' /\ grantFile' \subseteq always' /\ adding' \in [Calls -> SUBSET always']
    BY <1>2, <1>7 DEF GrantsGiven
  <2>. QED  BY <1>7, <2>1, <2>2 DEF GrantsGiven
<1>13. then \in {"granting", "approved"} => Agreed(c)'
  <2>. SUFFICES ASSUME then \in {"granting", "approved"}  PROVE Agreed(c)'
    OBVIOUS
  <2>1. w = <<"approval", c>> /\ w[1] = "approval" /\ answer \in {"once", "always"}
    BY <1>1, <1>4 DEF A!AnswersTo, A!Verdicts
  <2>2. live[c]
    <3>1. phase[c] = "approval"
      BY <1>2, <2>1
    <3>. QED  BY <1>1, <3>1 DEF Consented
  <2>. QED  BY <1>2, <1>11, <2>1, <2>2 DEF Agreed
<1>14. then = "ran" => Agreed(c)' \/ Allowed(c)'
  BY <1>1, <1>2, <1>4, <1>10 DEF Consented
<1>15. Consented'
  <2>1. ASSUME NEW d \in Calls, d # c
        PROVE  /\ phase'[d] = "approval" => live'[d]
               /\ phase'[d] \in {"granting", "adding", "saving", "approved"} => Agreed(d)'
               /\ phase'[d] \in {"question", "ran"} => Agreed(d)' \/ Allowed(d)'
    BY <1>2, <1>9, <1>10, <2>1 DEF Consented
  <2>2. /\ phase'[c] # "approval" /\ phase'[c] # "question"
        /\ phase'[c] \in {"granting", "adding", "saving", "approved"} => Agreed(c)'
        /\ phase'[c] \in {"question", "ran"} => Agreed(c)' \/ Allowed(c)'
    BY <1>4, <1>11, <1>13, <1>14
  <2>. QED  BY <1>1, <2>1, <2>2 DEF Consented
<1>. QED  BY <1>5, <1>8, <1>12, <1>15


\* A call goes from one point to another that asks for no more, and what it is
\* about and the answers it had stay.
LEMMA PhaseMoves ==
  ASSUME ApprovalInv, NEW c \in Calls, NEW to \in Phases \ {"approval"},
         phase' = [phase EXCEPT ![c] = to],
         UNCHANGED <<A!evaluator, tool, subject, live, heard, slot, click, always>>,
         to \in {"granting", "adding", "saving"} => phase[c] \in {"granting", "adding", "saving"},
         to # "idle" => phase[c] \in {"granting", "adding", "saving", "approved"},
         grants' \subseteq always, grantFile' \subseteq always,
         adding' \in [Calls -> SUBSET always]
  PROVE  ApprovalInv'
<1>. USE DEF ApprovalInv
<1>1. ApprovalTypes'
  BY DEF ApprovalTypes
<1>2. Evaluator'
  BY EvaluatorStays
<1>3. \A d \in Calls : /\ Agreed(d) => Agreed(d)'
                       /\ Allowed(d) => Allowed(d)'
                       /\ A!What(d) \in always => A!What(d)' \in always'
  BY ConsentStays
<1>4. phase'[c] = to /\ \A d \in Calls : d # c => phase'[d] = phase[d]
  BY DEF ApprovalTypes
<1>5. GrantsGiven'
  <2>1. \A d \in Calls : phase'[d] \in {"granting", "adding", "saving"} => A!What(d)' \in always'
    BY <1>3, <1>4 DEF GrantsGiven
  <2>. QED  BY <2>1 DEF GrantsGiven
<1>6. Consented'
  <2>1. ASSUME NEW d \in Calls, d # c
        PROVE  /\ phase'[d] = "approval" => live'[d]
               /\ phase'[d] \in {"granting", "adding", "saving", "approved"} => Agreed(d)'
               /\ phase'[d] \in {"question", "ran"} => Agreed(d)' \/ Allowed(d)'
    BY <1>3, <1>4, <2>1 DEF Consented
  <2>2. to # "idle" => Agreed(c)'
    BY <1>3 DEF Consented
  <2>. QED  BY <1>4, <2>1, <2>2 DEF Consented
<1>. QED  BY <1>1, <1>2, <1>5, <1>6

\* The steps of one call after it was allowed.
LEMMA CallKeeps ==
  ASSUME ApprovalInv, NEW c \in Calls,
         A!Run(c) \/ A!ReadGrants(c) \/ A!AppendGrant(c) \/ A!SaveGrants(c)
  PROVE  ApprovalInv'
<1>1. /\ grants \subseteq always /\ grantFile \subseteq always
      /\ adding \in [Calls -> SUBSET always]
  BY DEF ApprovalInv, GrantsGiven
<1>2. CASE A!Run(c)
  <2>1. PICK to \in {"question", "ran"} : phase' = [phase EXCEPT ![c] = to]
    BY <1>2 DEF A!Run
  <2>2. UNCHANGED <<A!evaluator, tool, subject, live, heard, slot, click, always,
                    grants, grantFile, adding>> /\ phase[c] = "approved"
    BY <1>2 DEF A!Run, A!store
  <2>3. to \in Phases \ {"approval"}
    BY DEF Phases
  <2>. QED  BY <1>1, <2>1, <2>2, <2>3, PhaseMoves
<1>3. CASE A!ReadGrants(c)
  <2>1. /\ UNCHANGED <<A!evaluator, tool, subject, live, heard, slot, click, always>>
        /\ phase[c] = "granting" /\ phase' = [phase EXCEPT ![c] = "adding"]
        /\ grants' = grants /\ grantFile' = grantFile
        /\ adding' = [adding EXCEPT ![c] = grants]
    BY <1>3 DEF A!ReadGrants, A!waits
  <2>2. adding' \in [Calls -> SUBSET always]
    BY <1>1, <2>1
  <2>3. "adding" \in Phases \ {"approval"}
    BY DEF Phases
  <2>. QED  BY <1>1, <2>1, <2>2, <2>3, PhaseMoves
<1>4. CASE A!AppendGrant(c)
  <2>1. /\ UNCHANGED <<A!evaluator, tool, subject, live, heard, slot, click, always>>
        /\ phase[c] = "adding" /\ phase' = [phase EXCEPT ![c] = "saving"]
        /\ grants' = adding[c] \cup {A!What(c)} /\ grantFile' = grantFile
        /\ adding' = adding
    BY <1>4 DEF A!AppendGrant, A!waits
  <2>2. grants' \subseteq always
    <3>1. A!What(c) \in always
      BY <2>1 DEF ApprovalInv, GrantsGiven
    <3>. QED  BY <1>1, <2>1, <3>1
  <2>3. "saving" \in Phases \ {"approval"}
    BY DEF Phases
  <2>. QED  BY <1>1, <2>1, <2>2, <2>3, PhaseMoves
<1>5. CASE A!SaveGrants(c)
  <2>1. /\ UNCHANGED <<A!evaluator, tool, subject, live, heard, slot, click, always>>
        /\ phase[c] = "saving" /\ phase' = [phase EXCEPT ![c] = "approved"]
        /\ grants' = grants /\ grantFile' = grants
        /\ adding' = [adding EXCEPT ![c] = {}]
    BY <1>5 DEF A!SaveGrants, A!waits
  <2>2. adding' \in [Calls -> SUBSET always]
    BY <1>1, <2>1
  <2>3. "approved" \in Phases \ {"approval"}
    BY DEF Phases
  <2>. QED  BY <1>1, <2>1, <2>2, <2>3, PhaseMoves
<1>. QED  BY <1>2, <1>3, <1>4, <1>5

\* A call whose result is in the history leaves nothing behind.
LEMMA ReturnKeeps ==
  ASSUME ApprovalInv, NEW c \in Calls, A!Return(c)
  PROVE  ApprovalInv'
<1>. USE DEF ApprovalInv
<1>1. /\ UNCHANGED <<A!evaluator, slot, always, grants, grantFile, adding>>
      /\ phase' = [phase EXCEPT ![c] = "idle"]
      /\ tool' = [tool EXCEPT ![c] = A!Asking] /\ subject' = [subject EXCEPT ![c] = ""]
      /\ live' = [live EXCEPT ![c] = FALSE]
      /\ heard' = [w \in A!Waits |-> IF w[2] = c THEN "" ELSE heard[w]]
      /\ click' = [k \in Clicks |-> IF click[k].at = "found" /\ click[k].wait[2] = c
                                    THEN A!Idle ELSE click[k]]
  BY DEF A!Return, A!store
<1>2. ApprovalTypes'
  <2>1. click' \in [Clicks -> Clicking \cup {A!Idle}]
    BY <1>1 DEF ApprovalTypes
  <2>2. \A k \in Clicks : click'[k].at = "found" => click'[k] = click[k]
    BY <1>1 DEF A!Idle
  <2>3. heard' \in [A!Waits -> AnswersOrNone]
    BY <1>1 DEF ApprovalTypes, AnswersOrNone
  <2>4. phase' \in [Calls -> Phases] /\ live' \in [Calls -> BOOLEAN]
    BY <1>1 DEF ApprovalTypes, Phases
  <2>5. tool' \in [Calls -> Tools \cup {A!Asking}] /\ subject' \in [Calls -> Subjects \cup {""}]
    BY <1>1 DEF ApprovalTypes
  <2>. QED  BY <1>1, <2>1, <2>2, <2>3, <2>4, <2>5 DEF ApprovalTypes
<1>3. Evaluator'
  BY <1>1, EvaluatorStays
<1>4. ASSUME NEW d \in Calls, d # c
      PROVE  /\ phase'[d] = phase[d] /\ live'[d] = live[d]
             /\ tool'[d] = tool[d] /\ subject'[d] = subject[d]
             /\ heard'[<<"approval", d>>] = heard[<<"approval", d>>]
  <2>1. <<"approval", d>> \in A!Waits
    BY DEF A!Waits, A!Kinds
  <2>. QED  BY <1>1, <1>4, <2>1 DEF ApprovalTypes
<1>5. phase'[c] = "idle"
  BY <1>1 DEF ApprovalTypes
<1>6. \A d \in Calls : d # c => /\ Agreed(d) => Agreed(d)'
                                /\ Allowed(d) => Allowed(d)'
                                /\ A!What(d) \in always => A!What(d)' \in always'
  BY <1>1, <1>4, ConsentStays
<1>7. GrantsGiven'
  BY <1>1, <1>4, <1>5, <1>6 DEF GrantsGiven
<1>8. Consented'
  BY <1>4, <1>5, <1>6 DEF Consented
<1>. QED  BY <1>2, <1>3, <1>7, <1>8

\* A handler's answer goes into a slot of the wait it is for.
LEMMA ClickKeeps ==
  ASSUME ApprovalInv, NEW k \in Clicks,
         \/ A!Deliver(k)
         \/ \E w \in A!Waits, d \in A!Verdicts \cup {"words"} : A!Lookup(k, w, d)
  PROVE  ApprovalInv'
<1>. USE DEF ApprovalInv
<1>1. /\ UNCHANGED <<A!evaluator, phase, tool, subject, live, heard>>
      /\ UNCHANGED <<always, grants, grantFile, adding>>
  BY DEF A!Deliver, A!Lookup, A!calls, A!store
<1>2. ApprovalTypes'
  <2>1. CASE A!Deliver(k)
    <3>. DEFINE w == click[k].wait
    <3>1. click[k] \in Clicking /\ w \in A!Waits /\ click[k].answer \in A!AnswersTo(w)
      <4>1. click[k].at = "found" /\ A!Idle.at = "idle"
        BY <2>1 DEF A!Deliver, A!Idle
      <4>2. click[k] \in Clicking
        BY <4>1 DEF ApprovalTypes
      <4>3. click[k].answer \in A!AnswersTo(w)
        BY <4>1 DEF ApprovalTypes
      <4>. QED  BY <4>2, <4>3 DEF Clicking
    <3>2. click[k].answer \in AnswersOrNone
      BY <3>1 DEF Clicking, AnswersOrNone
    <3>3. slot' = slot \/ slot' = [slot EXCEPT ![w] = click[k].answer]
      BY <2>1 DEF A!Deliver
    <3>4. slot' \in [A!Waits -> AnswersOrNone] /\ \A v \in A!Waits : slot'[v] \in A!AnswersTo(v) \cup {""}
      BY <3>1, <3>2, <3>3 DEF ApprovalTypes
    <3>5. click' = [click EXCEPT ![k] = A!Idle]
      BY <2>1 DEF A!Deliver
    <3>6. /\ click' \in [Clicks -> Clicking \cup {A!Idle}]
          /\ \A j \in Clicks : click'[j].at = "found" => click'[j] = click[j]
      BY <3>5 DEF ApprovalTypes, A!Idle
    <3>. QED  BY <1>1, <3>4, <3>6 DEF ApprovalTypes
  <2>2. ASSUME NEW w \in A!Waits, NEW d \in A!Verdicts \cup {"words"}, A!Lookup(k, w, d)
        PROVE  ApprovalTypes'
    <3>. DEFINE found == [at |-> "found", wait |-> w, answer |-> d]
    <3>1. slot' = slot /\ click' = [click EXCEPT ![k] = found] /\ d \in A!AnswersTo(w)
      BY <2>2 DEF A!Lookup
    <3>2. found \in Clicking /\ found.answer = d /\ found.wait = w
      BY DEF Clicking
    <3>3. /\ click' \in [Clicks -> Clicking \cup {A!Idle}]
          /\ \A j \in Clicks : click'[j].at = "found" => click'[j].answer \in A!AnswersTo(click'[j].wait)
      <4>. HIDE DEF found
      <4>. QED  BY <3>1, <3>2 DEF ApprovalTypes
    <3>. QED  BY <1>1, <3>1, <3>3 DEF ApprovalTypes
  <2>. QED  BY <2>1, <2>2
<1>3. Evaluator'
  BY <1>1, EvaluatorStays
<1>4. \A d \in Calls : /\ Agreed(d) => Agreed(d)'
                       /\ Allowed(d) => Allowed(d)'
                       /\ A!What(d) \in always => A!What(d)' \in always'
  BY <1>1, ConsentStays
<1>5. GrantsGiven' /\ Consented'
  BY <1>1, <1>4 DEF GrantsGiven, Consented
<1>. QED  BY <1>2, <1>3, <1>5

\* Every step keeps the invariant.
LEMMA ApprovalStep ==
  ASSUME ApprovalInv, A!Next
  PROVE  ApprovalInv'
<1>1. ASSUME NEW w \in A!Waits, A!Hear(w) \/ A!GiveUp(w)  PROVE ApprovalInv'
  <2>1. CASE A!Hear(w)
    <3>1. slot[w] \in A!AnswersTo(w)
      BY <2>1 DEF A!Hear, ApprovalInv, ApprovalTypes
    <3>2. A!EndWait(w, slot[w])
      BY <2>1 DEF A!Hear
    <3>. QED  BY <3>1, <3>2, EndWaitKeeps
  <2>2. CASE A!GiveUp(w)
    BY <2>2, EndWaitKeeps DEF A!GiveUp
  <2>. QED  BY <1>1, <2>1, <2>2
<1>2. CASE A!ReplaceDisabled
  <2>1. /\ UNCHANGED <<A!evaluator, phase, tool, subject, live, heard>>
        /\ UNCHANGED <<always, grants, grantFile, adding, slot, click>>
    BY <1>2 DEF A!ReplaceDisabled, A!calls, A!store, A!waits
  <2>2. Evaluator'
    BY <2>1, EvaluatorStays DEF ApprovalInv
  <2>3. \A d \in Calls : /\ Agreed(d) => Agreed(d)'
                         /\ Allowed(d) => Allowed(d)'
                         /\ A!What(d) \in always => A!What(d)' \in always'
    BY <2>1, ConsentStays
  <2>4. ApprovalTypes' /\ GrantsGiven' /\ Consented'
    BY <2>1, <2>3 DEF ApprovalInv, ApprovalTypes, GrantsGiven, Consented
  <2>. QED  BY <2>2, <2>4 DEF ApprovalInv
<1>. QED
  BY <1>1, <1>2, StartKeeps, ExecuteKeeps, CallKeeps, ReturnKeeps, ClickKeeps DEF A!Next

\* Before the daemon starts there are no rules.
LEMMA BlankEvaluator ==
  ASSUME rules = <<>>, policy = <<>>, default = "allow"
  PROVE  Evaluator
<1>1. <<>> \in Seq(A!Rule) /\ Len(<<>>) = 0 /\ 1..0 = {}
  OBVIOUS
<1>2. DOMAIN <<>> = 1..0
  BY <1>1
<1>3. \E n \in Nat : Len(policy) <= n /\ DOMAIN rules = 1..n
  BY <1>1, <1>2
<1>4. DOMAIN rules = {} /\ DOMAIN policy = {}
  BY <1>1, <1>2
<1>5. default \in A!Decisions
  BY DEF A!Decisions
<1>. QED  BY <1>1, <1>3, <1>4, <1>5 DEF Evaluator

\* Whatever the policy files say, however answers, timeouts, interrupts and
\* restarts interleave and grants are lost: a call runs only if the policy or an
\* "always" of the user allows it, or the user agreed to it (Registry.Execute).
THEOREM CallsAreConsented == Spec => []ConsentedCalls
<1>1. Init => (part = "approvals" => ApprovalInv)
  <2>. SUFFICES ASSUME A!Init  PROVE ApprovalInv
    BY DEF Init
  <2>. USE DEF A!Init
  <2>1. ApprovalTypes
    BY DEF ApprovalTypes, Phases, AnswersOrNone, A!Idle
  <2>2. GrantsGiven
    BY FS_EmptySet DEF GrantsGiven
  <2>3. Evaluator
    BY BlankEvaluator
  <2>4. Consented
    BY DEF Consented
  <2>. QED  BY <2>1, <2>2, <2>3, <2>4 DEF ApprovalInv
<1>2. (part = "approvals" => ApprovalInv) /\ [Next]_partsVars => (part = "approvals" => ApprovalInv)'
  <2>1. CASE UNCHANGED approvalVars
    BY <2>1, OneStep
       DEF approvalVars, ApprovalInv, ApprovalTypes, GrantsGiven, Evaluator, Consented,
           Agreed, Allowed, A!What, A!Covers
  <2>. QED  BY <2>1, OneStep, ApprovalStep
<1>3. (part = "approvals" => ApprovalInv) => ConsentedCalls
  BY DEF ApprovalInv, Consented, Agreed, Allowed, ConsentedCalls, A!ConsentedCalls
<1>. QED  BY <1>1, <1>2, <1>3, PTL DEF Spec

(***************************************************************************)
(* Streams.  What the adapter has put together comes, with the events on   *)
(* the wire taken one after the other, to what the upstream sent: steps is *)
(* the way there, one state of the accumulators between two events.        *)
(***************************************************************************)
CallEvents == [type : {"open", "args", "stop"}, call : StreamCalls, parts : Seq(Nat)]
WireEvents == [type : {"text", "end", "error"}] \cup CallEvents

CallState == [StreamCalls -> {"unopened", "open", "stopped"}]
Named == {c \in StreamCalls : block[c] # "unopened"}
Stopped == {c \in StreamCalls : block[c] = "stopped"}

StreamTypes ==
  /\ adapter \in P!Adapters
  /\ link \in {"connecting", "open", "ended", "broken", "refused"}
  /\ wire \in Seq(WireEvents)
  /\ sent \in [StreamCalls -> Seq(Nat)] /\ block \in CallState
  /\ finished \in BOOLEAN /\ fired \in BOOLEAN /\ gone \in BOOLEAN
  /\ \E s : events \in Seq(s)

\* The upstream's last event has none behind it; a caller that left had no end.
Closes ==
  /\ \A i \in 1..Len(wire) : wire[i].type = "end" => finished /\ i = Len(wire)
  /\ link = "connecting" => ~finished /\ reader = "waiting"
  /\ adapter = "gemini" => /\ finished => link # "open"
                           /\ \A c \in StreamCalls : block[c] # "open"
  /\ gone => result.type = "none" /\ link # "connecting"

\* t has what was sent of every call.
Agrees(t) ==
  /\ t.made = IF adapter \in {"anthropic", "gemini"}
                THEN {[call |-> c, parts |-> sent[c]] : c \in Stopped} ELSE {}
  /\ adapter # "gemini" => /\ DOMAIN t.acc = Named
                           /\ \A c \in Named : t.acc[c] = sent[c]
  /\ adapter = "openai-responses" =>
       \A c \in StreamCalls : block[c] = "open" => (c \in t.seen <=> sent[c] # <<>>)

After(t, e) == IF e.type \in {"open", "args", "stop"} THEN P!Takes(t, e) ELSE t
Way(steps, from, es) ==
  steps[1] = from /\ \A i \in 1..Len(es) : steps[i + 1] = After(steps[i], es[i])
Flows ==
  reader \in {"waiting", "scanning", "sending"} =>
    \E steps : Way(steps, P!Taken, wire) /\ Agrees(steps[Len(wire) + 1])

\* An end that is offered, on its way or there.
AllCalls == {[call |-> c, parts |-> P!Whole(c)] : c \in Named}
Genuine(event) ==
  event.type = "done" /\ ~fired /\ ~gone =>
    IF finished THEN P!Complete => event.calls = AllCalls ELSE link = "ended"
Honest == Genuine(offer) /\ Genuine(result) /\ \A i \in DOMAIN events : Genuine(events[i])

StreamInv == StreamTypes /\ Closes /\ Flows /\ Honest

\* Taking depends on the adapter alone.
LEMMA FlowsOn ==
  ASSUME adapter' = adapter, NEW steps, NEW from, NEW es,
         Way(steps, from, es), P!Taken' = from, wire' = es, Agrees(steps[Len(es) + 1])'
  PROVE  Flows'
<1>1. \A t, e : After(t, e)' = After(t, e)
  BY DEF After, P!Takes
<1>2. Way(steps, from, es)'
  BY <1>1 DEF Way
<1>. QED  BY <1>2 DEF Flows, Way

\* One more event is one more step.
LEMMA Longer ==
  ASSUME NEW steps, NEW from, NEW es \in Seq(WireEvents), NEW e \in WireEvents,
         Way(steps, from, es)
  PROVE  \E more : /\ Way(more, from, Append(es, e))
                   /\ more[Len(es) + 2] = After(steps[Len(es) + 1], e)
<1>. DEFINE more == [i \in 1..(Len(es) + 2) |->
                       IF i <= Len(es) + 1 THEN steps[i] ELSE After(steps[Len(es) + 1], e)]
<1>1. Len(es) \in Nat
  OBVIOUS
<1>2. /\ Len(Append(es, e)) = Len(es) + 1 /\ Append(es, e)[Len(es) + 1] = e
      /\ \A i \in 1..Len(es) : Append(es, e)[i] = es[i]
  BY AppendProperties
<1>3. /\ \A i \in 1..(Len(es) + 1) : more[i] = steps[i]
      /\ more[Len(es) + 2] = After(steps[Len(es) + 1], e)
  BY <1>1
<1>. HIDE DEF more
<1>4. ASSUME NEW i \in 1..(Len(es) + 1)
      PROVE  more[i + 1] = After(more[i], Append(es, e)[i])
  <2>1. CASE i = Len(es) + 1
    BY <1>1, <1>2, <1>3, <2>1
  <2>2. CASE i \in 1..Len(es)
    BY <1>1, <1>2, <1>3, <2>2 DEF Way
  <2>. QED  BY <1>1, <2>1, <2>2
<1>5. more[1] = from
  BY <1>1, <1>3 DEF Way
<1>. QED  BY <1>2, <1>3, <1>4, <1>5 DEF Way

\* The event taken is the first step.
LEMMA Shorter ==
  ASSUME NEW steps, NEW from, NEW es \in Seq(WireEvents), es # <<>>, Way(steps, from, es)
  PROVE  \E less : /\ Way(less, After(from, Head(es)), Tail(es))
                   /\ less[Len(Tail(es)) + 1] = steps[Len(es) + 1]
<1>. DEFINE less == [i \in 1..Len(es) |-> steps[i + 1]]
<1>1. Len(es) \in Nat /\ Len(es) > 0 /\ Head(es) = es[1]
  OBVIOUS
<1>2. Len(Tail(es)) = Len(es) - 1 /\ \A i \in 1..(Len(es) - 1) : Tail(es)[i] = es[i + 1]
  BY HeadTailProperties
<1>3. \A i \in 1..Len(es) : less[i] = steps[i + 1]
  OBVIOUS
<1>. HIDE DEF less
<1>4. less[1] = After(from, Head(es))
  BY <1>1, <1>3 DEF Way
<1>5. ASSUME NEW i \in 1..(Len(es) - 1)
      PROVE  less[i + 1] = After(less[i], Tail(es)[i])
  BY <1>1, <1>2, <1>3 DEF Way
<1>6. less[Len(es)] = steps[Len(es) + 1]
  BY <1>1, <1>3
<1>. QED  BY <1>1, <1>2, <1>4, <1>5, <1>6 DEF Way

\* What the upstream sends keeps the flow if it agrees with what it counts as sent.
LEMMA Sent ==
  ASSUME StreamInv, NEW e \in WireEvents, wire' = Append(wire, e),
         UNCHANGED <<adapter, reader, acc, seen, made>>,
         \A t, u : Agrees(t) /\ u = After(t, e) => Agrees(u)'
  PROVE  Flows'
<1>. SUFFICES ASSUME reader \in {"waiting", "scanning", "sending"}  PROVE Flows'
  BY DEF Flows
<1>1. PICK steps : Way(steps, P!Taken, wire) /\ Agrees(steps[Len(wire) + 1])
  BY DEF StreamInv, Flows
<1>2. PICK es : es = Append(wire, e)
  OBVIOUS
<1>3. wire \in Seq(WireEvents) /\ Len(es) + 1 = Len(wire) + 2
  BY <1>2, AppendProperties DEF StreamInv, StreamTypes
<1>4. PICK more : /\ Way(more, P!Taken, es)
                  /\ more[Len(es) + 1] = After(steps[Len(wire) + 1], e)
  BY <1>1, <1>2, <1>3, Longer
<1>5. Agrees(more[Len(es) + 1])'
  BY <1>1, <1>4
<1>6. PICK from : from = P!Taken
  OBVIOUS
<1>7. P!Taken' = from /\ adapter' = adapter /\ Way(more, from, es) /\ wire' = es
  BY <1>2, <1>4, <1>6 DEF P!Taken
<1>. QED  BY <1>5, <1>7, FlowsOn

\* An event without a call changes nothing of the calls.
LEMMA PlainSent ==
  ASSUME StreamInv, NEW e \in WireEvents, wire' = Append(wire, e),
         e.type \notin {"open", "args", "stop"},
         UNCHANGED <<adapter, sent, block, reader, acc, seen, made>>
  PROVE  Flows'
<1>1. ASSUME NEW t, NEW u, Agrees(t), u = After(t, e)  PROVE Agrees(u)'
  <2>1. u = t
    BY <1>1 DEF After
  <2>. QED  BY <1>1, <2>1 DEF Agrees, Stopped, Named
<1>. QED  BY <1>1, Sent

\* A call is named.
LEMMA OpenAgrees ==
  ASSUME StreamInv, adapter' = adapter, NEW c \in StreamCalls, NEW p \in Seq(Nat),
         block[c] = "unopened", sent' = [sent EXCEPT ![c] = p],
         block' = [block EXCEPT ![c] = IF adapter = "gemini" THEN "stopped" ELSE "open"],
         NEW e, e = [type |-> "open", call |-> c, parts |-> p],
         NEW t, Agrees(t), NEW u, u = After(t, e)
  PROVE  Agrees(u)'
<1>. USE DEF StreamInv, StreamTypes
<1>1. /\ sent'[c] = p /\ \A d \in StreamCalls \ {c} : sent'[d] = sent[d] /\ block'[d] = block[d]
      /\ block'[c] = IF adapter = "gemini" THEN "stopped" ELSE "open"
  BY DEF CallState
<1>2. Named' = Named \cup {c} /\ c \notin Named
  BY <1>1 DEF Named
<1>3. Stopped' = IF adapter = "gemini" THEN Stopped \cup {c} ELSE Stopped
  BY <1>1 DEF Stopped
<1>4. c \notin Stopped
  BY DEF Stopped
<1>5. CASE adapter = "gemini"
  <2>1. u.made = t.made \cup {[call |-> c, parts |-> p]}
    BY <1>5 DEF After, P!Takes, P!Lists, P!Took
  <2>2. {[call |-> d, parts |-> sent[d]] : d \in Stopped}'
           = {[call |-> d, parts |-> sent[d]] : d \in Stopped} \cup {[call |-> c, parts |-> p]}
    BY <1>1, <1>3, <1>4, <1>5 DEF Stopped
  <2>. QED  BY <1>5, <2>1, <2>2 DEF Agrees
<1>6. CASE adapter # "gemini"
  <2>1. /\ u.acc = P!Gather(t.acc, c, p) /\ u.made = t.made
        /\ adapter = "openai-responses" => u.seen = IF p = <<>> THEN t.seen \ {c} ELSE t.seen \cup {c}
    BY <1>6 DEF After, P!Takes, P!Responds, P!Gathers, P!Took, P!Adapters
  <2>2. DOMAIN u.acc = Named' /\ \A d \in Named' : u.acc[d] = sent'[d]
    <3>1. DOMAIN t.acc = Named /\ \A d \in Named : t.acc[d] = sent[d]
      BY <1>6 DEF Agrees
    <3>2. /\ DOMAIN u.acc = Named \cup {c} /\ u.acc[c] = p
          /\ \A d \in Named : u.acc[d] = t.acc[d]
      <4>1. /\ DOMAIN P!Gather(t.acc, c, p) = DOMAIN t.acc \cup {c}
            /\ P!Gather(t.acc, c, p)[c] = IF c \in DOMAIN t.acc THEN t.acc[c] \o p ELSE p
            /\ \A d \in DOMAIN t.acc \ {c} : P!Gather(t.acc, c, p)[d] = t.acc[d]
        BY DEF P!Gather
      <4>. QED  BY <1>2, <2>1, <3>1, <4>1
    <3>3. \A d \in Named : sent'[d] = sent[d]
      BY <1>1, <1>2 DEF Named
    <3>. QED  BY <1>1, <1>2, <3>1, <3>2, <3>3
  <2>3. {[call |-> d, parts |-> sent[d]] : d \in Stopped}'
           = {[call |-> d, parts |-> sent[d]] : d \in Stopped}
    BY <1>1, <1>3, <1>4, <1>6 DEF Stopped
  <2>4. u.made = (IF adapter \in {"anthropic", "gemini"}
                    THEN {[call |-> d, parts |-> sent[d]] : d \in Stopped} ELSE {})'
    BY <2>1, <2>3 DEF Agrees
  <2>5. adapter = "openai-responses" =>
          \A d \in StreamCalls : block'[d] = "open" => (d \in u.seen <=> sent'[d] # <<>>)
    BY <1>1, <2>1 DEF Agrees
  <2>. QED  BY <1>6, <2>2, <2>4, <2>5 DEF Agrees
<1>. QED  BY <1>5, <1>6

\* A fragment of its arguments comes.
LEMMA ArgsAgree ==
  ASSUME StreamInv, adapter' = adapter, NEW c \in StreamCalls, NEW n \in Nat,
         block[c] = "open", sent' = [sent EXCEPT ![c] = Append(@, n)], block' = block,
         NEW e, e = [type |-> "args", call |-> c, parts |-> <<n>>],
         NEW t, Agrees(t), NEW u, u = After(t, e)
  PROVE  Agrees(u)'
<1>. USE DEF StreamInv, StreamTypes
<1>1. /\ \A d \in StreamCalls \ {c} : sent'[d] = sent[d]
      /\ sent'[c] = sent[c] \o <<n>> /\ sent'[c] # <<>>
  <2>1. sent[c] \in Seq(Nat) /\ sent'[c] = Append(sent[c], n)
    OBVIOUS
  <2>2. \A s \in Seq(Nat) : Append(s, n) = s \o <<n>> /\ Append(s, n) # <<>>
    <3>. TAKE s \in Seq(Nat)
    <3>1. Append(s, n) = s \o <<n>>
      BY AppendIsConcat
    <3>2. Append(s, n) # <<>>
      BY AppendProperties
    <3>. QED  BY <3>1, <3>2
  <2>. QED  BY <2>1, <2>2
<1>2. Named' = Named /\ c \in Named /\ Stopped' = Stopped /\ c \notin Stopped
  BY DEF Named, Stopped
<1>3. adapter # "gemini"
  BY DEF Closes
<1>4. /\ u.acc = P!Gather(t.acc, c, <<n>>) /\ u.made = t.made
      /\ adapter = "openai-responses" => u.seen = t.seen \cup {c}
  BY <1>3 DEF After, P!Takes, P!Responds, P!Gathers, P!Took, P!Adapters
<1>5. DOMAIN u.acc = Named' /\ \A d \in Named' : u.acc[d] = sent'[d]
  <2>1. DOMAIN t.acc = Named /\ \A d \in Named : t.acc[d] = sent[d]
    BY <1>3 DEF Agrees
  <2>2. /\ DOMAIN u.acc = Named /\ u.acc[c] = t.acc[c] \o <<n>>
        /\ \A d \in Named \ {c} : u.acc[d] = t.acc[d]
    <3>1. /\ DOMAIN P!Gather(t.acc, c, <<n>>) = DOMAIN t.acc \cup {c}
          /\ P!Gather(t.acc, c, <<n>>)[c] =
               IF c \in DOMAIN t.acc THEN t.acc[c] \o <<n>> ELSE <<n>>
          /\ \A d \in DOMAIN t.acc \ {c} : P!Gather(t.acc, c, <<n>>)[d] = t.acc[d]
      BY DEF P!Gather
    <3>. QED  BY <1>2, <1>4, <2>1, <3>1
  <2>3. \A d \in Named \ {c} : sent'[d] = sent[d]
    BY <1>1 DEF Named
  <2>. QED  BY <1>1, <1>2, <2>1, <2>2, <2>3
<1>6. {[call |-> d, parts |-> sent[d]] : d \in Stopped}'
         = {[call |-> d, parts |-> sent[d]] : d \in Stopped}
  BY <1>1, <1>2 DEF Stopped
<1>7. u.made = (IF adapter \in {"anthropic", "gemini"}
                  THEN {[call |-> d, parts |-> sent[d]] : d \in Stopped} ELSE {})'
  BY <1>4, <1>6 DEF Agrees
<1>8. adapter = "openai-responses" =>
        \A d \in StreamCalls : block'[d] = "open" => (d \in u.seen <=> sent'[d] # <<>>)
  BY <1>1, <1>4 DEF Agrees
<1>. QED  BY <1>3, <1>5, <1>7, <1>8 DEF Agrees

\* A call comes to its end: what was not sent before is sent with it.
LEMMA StopAgrees ==
  ASSUME StreamInv, adapter' = adapter, NEW c \in StreamCalls, NEW p \in Seq(Nat),
         block[c] = "open", sent' = [sent EXCEPT ![c] = p],
         block' = [block EXCEPT ![c] = "stopped"], adapter # "openai-compat",
         adapter # "openai-responses" => p = sent[c],
         adapter = "openai-responses" => sent[c] \in {<<>>, p},
         NEW e, e = [type |-> "stop", call |-> c, parts |-> p],
         NEW t, Agrees(t), NEW u, u = After(t, e)
  PROVE  Agrees(u)'
<1>. USE DEF StreamInv, StreamTypes
<1>1. /\ sent'[c] = p /\ \A d \in StreamCalls \ {c} : sent'[d] = sent[d] /\ block'[d] = block[d]
      /\ block'[c] = "stopped"
  BY DEF CallState
<1>2. Named' = Named /\ c \in Named
  BY <1>1 DEF Named
<1>3. Stopped' = Stopped \cup {c} /\ c \notin Stopped
  BY <1>1 DEF Stopped
<1>4. adapter # "gemini"
  BY DEF Closes
<1>5. CASE adapter = "anthropic"
  <2>1. u.acc = t.acc /\ u.made = t.made \cup {[call |-> c, parts |-> t.acc[c]]}
    BY <1>5 DEF After, P!Takes, P!Lists, P!Took
  <2>2. t.acc[c] = p
    BY <1>2, <1>4, <1>5 DEF Agrees
  <2>3. {[call |-> d, parts |-> sent[d]] : d \in Stopped}'
           = {[call |-> d, parts |-> sent[d]] : d \in Stopped} \cup {[call |-> c, parts |-> p]}
    BY <1>1, <1>3 DEF Stopped
  <2>4. DOMAIN u.acc = Named' /\ \A d \in Named' : u.acc[d] = sent'[d]
    BY <1>1, <1>2, <1>4, <2>1, <2>2 DEF Agrees, Named
  <2>. QED  BY <1>5, <2>1, <2>2, <2>3, <2>4 DEF Agrees
<1>6. CASE adapter = "openai-responses"
  <2>1. /\ u.acc = IF c \in t.seen THEN t.acc ELSE P!Gather(t.acc, c, p)
        /\ u.made = t.made /\ u.seen = t.seen
    <3>0. e.type = "stop" /\ e.call = c /\ e.parts = p
      OBVIOUS
    <3>1. u = IF c \in t.seen THEN t ELSE P!Gathers(t, e)
      <4>1. u = P!Responds(t, e)
        BY <1>6, <3>0 DEF After, P!Takes
      <4>2. CASE c \in t.seen
        BY <3>0, <4>1, <4>2 DEF P!Responds
      <4>3. CASE c \notin t.seen
        BY <3>0, <4>1, <4>3 DEF P!Responds
      <4>. QED  BY <4>2, <4>3
    <3>2. P!Gathers(t, e) = P!Took(P!Gather(t.acc, c, p), t.seen, t.made)
      BY <3>0 DEF P!Gathers
    <3>. QED  BY <3>1, <3>2 DEF P!Took
  <2>2. c \in t.seen <=> sent[c] # <<>>
    BY <1>6 DEF Agrees
  <2>3. DOMAIN u.acc = Named
    BY <1>2, <1>4, <2>1 DEF Agrees, P!Gather
  <2>4. u.acc[c] = p
    <3>1. CASE c \in t.seen
      BY <1>2, <1>4, <1>6, <2>1, <2>2, <3>1 DEF Agrees
    <3>2. CASE c \notin t.seen
      <4>1. t.acc[c] = <<>>
        BY <1>2, <1>4, <2>2, <3>2 DEF Agrees
      <4>2. u.acc[c] = t.acc[c] \o p
        BY <1>2, <1>4, <2>1, <3>2 DEF Agrees, P!Gather
      <4>. QED  BY <4>1, <4>2, ConcatEmptySeq
    <3>. QED  BY <3>1, <3>2
  <2>5. \A d \in Named \ {c} : u.acc[d] = t.acc[d]
    BY <1>4, <2>1 DEF Agrees, P!Gather
  <2>6. \A d \in Named' : u.acc[d] = sent'[d]
    BY <1>1, <1>2, <1>4, <2>4, <2>5 DEF Agrees, Named
  <2>7. \A d \in StreamCalls : block'[d] = "open" => (d \in u.seen <=> sent'[d] # <<>>)
    BY <1>1, <1>6, <2>1 DEF Agrees
  <2>. QED  BY <1>2, <1>6, <2>1, <2>3, <2>6, <2>7 DEF Agrees
<1>. QED  BY <1>4, <1>5, <1>6 DEF P!Adapters

\* A stream's end is told of as it was, and nothing is sent after it.
LEMMA GenuineStays ==
  ASSUME finished \/ link = "ended" => UNCHANGED <<adapter, sent, block, finished>>,
         link = "ended" => link' = "ended", fired => fired', gone => gone',
         finished \in BOOLEAN, NEW d, Genuine(d)
  PROVE  Genuine(d)'
<1>. SUFFICES ASSUME d.type = "done", ~fired', ~gone'  PROVE Genuine(d)'
  BY DEF Genuine
<1>1. finished \/ link = "ended"
  BY DEF Genuine
<1>2. UNCHANGED <<adapter, sent, block, finished, Named, AllCalls, P!Complete>>
  BY <1>1 DEF AllCalls, Named, P!Complete, P!Whole
<1>. QED  BY <1>1, <1>2 DEF Genuine

LEMMA EndIsSteady ==
  ASSUME StreamInv, P!Next
  PROVE  /\ finished \/ link = "ended" => UNCHANGED <<adapter, sent, block, finished>>
         /\ link = "ended" => link' = "ended"
         /\ fired => fired'
         /\ gone => gone'
<1>. USE DEF P!upstream, P!caller
<1>1. CASE P!Connect
  BY <1>1 DEF P!Connect, StreamInv, Closes
<1>2. CASE P!SendText \/ P!SendLast \/ P!SendError \/ P!LinkEnds
  BY <1>2 DEF P!SendText, P!SendLast, P!SendError, P!LinkEnds
<1>3. ASSUME NEW c \in StreamCalls, P!SendOpen(c) \/ P!SendArgs(c) \/ P!SendStop(c)
      PROVE  /\ link = "open" /\ ~finished /\ adapter' = adapter /\ UNCHANGED <<fired, gone>>
  BY <1>3 DEF P!SendOpen, P!SendArgs, P!SendStop
<1>4. CASE P!Scan \/ P!SendEvent \/ P!ScanEnds \/ P!SendFinal \/ P!WatchdogFires
  BY <1>4 DEF P!Scan, P!SendEvent, P!ScanEnds, P!SendFinal, P!WatchdogFires
<1>5. CASE P!Receive \/ P!Leave
  BY <1>5 DEF P!Receive, P!Leave
<1>. QED  BY <1>1, <1>2, <1>3, <1>4, <1>5 DEF P!Next

\* What is put together of the whole stream are the calls the model made.
LEMMA FinishIsAll ==
  ASSUME StreamInv, Agrees(P!Taken), P!Complete
  PROVE  P!finish = AllCalls
<1>1. /\ made = P!Taken.made /\ acc = P!Taken.acc
  BY DEF P!Taken, P!Took
<1>2. CASE adapter \in {"anthropic", "gemini"}
  <2>1. Stopped = Named
    BY <1>2 DEF Stopped, Named, P!Complete
  <2>2. \A c \in Named : sent[c] = P!Whole(c)
    BY DEF Named, P!Complete
  <2>. QED  BY <1>1, <1>2, <2>1, <2>2 DEF P!finish, Agrees, AllCalls
<1>3. CASE adapter \notin {"anthropic", "gemini"}
  <2>1. \A c \in Named : sent[c] = P!Whole(c)
    BY DEF Named, P!Complete
  <2>2. DOMAIN acc = Named /\ \A c \in Named : acc[c] = P!Whole(c)
    BY <1>1, <1>3, <2>1 DEF Agrees
  <2>3. {d \in DOMAIN acc : acc[d] = <<>> \/ acc[d] = P!Whole(d)} = Named
    BY <2>2
  <2>. QED  BY <1>3, <2>2, <2>3 DEF P!finish, AllCalls
<1>. QED  BY <1>2, <1>3

\* What the upstream does keeps the invariant.
LEMMA UpstreamKeeps ==
  ASSUME StreamInv, NEW c,
         \/ P!Connect \/ P!SendText \/ P!SendLast \/ P!SendError \/ P!LinkEnds
         \/ c \in StreamCalls /\ (P!SendOpen(c) \/ P!SendArgs(c) \/ P!SendStop(c))
  PROVE  StreamTypes' /\ Closes' /\ Flows'
<1>. USE DEF P!upstream, P!caller
<1>1. \A q \in Seq(WireEvents), e \in WireEvents :
        /\ Append(q, e) \in Seq(WireEvents) /\ Len(Append(q, e)) = Len(q) + 1
        /\ Append(q, e)[Len(q) + 1] = e /\ \A i \in 1..Len(q) : Append(q, e)[i] = q[i]
  BY AppendProperties
<1>2. ASSUME c \in StreamCalls
      PROVE  P!Whole(c) \in Seq(Nat) /\ \A n \in 0..Size[c] : SubSeq(P!Whole(c), 1, n) \in Seq(Nat)
  <2>1. Size[c] \in Nat
    BY <1>2, PartsAssumption DEF P!StreamsAssumption
  <2>2. P!Whole(c) \in [1..Size[c] -> Nat]
    BY DEF P!Whole
  <2>3. P!Whole(c) \in Seq(Nat)
    BY <2>1, <2>2, SeqDef
  <2>4. ASSUME NEW n \in 0..Size[c]  PROVE SubSeq(P!Whole(c), 1, n) \in Seq(Nat)
    <3>1. \A i \in 1..n : P!Whole(c)[i] \in Nat
      BY <2>1, <2>2
    <3>. QED  BY <2>1, <3>1, SubSeqProperties
  <2>. QED  BY <2>3, <2>4
<1>3. ASSUME NEW e \in WireEvents, wire' = Append(wire, e), ~finished,
             e.type # "end" \/ finished', adapter' = adapter, finished => finished'
      PROVE  /\ wire' \in Seq(WireEvents)
             /\ \A i \in 1..Len(wire') : wire'[i].type = "end" => finished' /\ i = Len(wire')
  <2>1. wire \in Seq(WireEvents) /\ Len(wire) \in Nat
    BY DEF StreamInv, StreamTypes
  <2>2. /\ wire' \in Seq(WireEvents) /\ Len(wire') = Len(wire) + 1 /\ wire'[Len(wire) + 1] = e
        /\ \A i \in 1..Len(wire) : wire'[i] = wire[i]
    BY <1>1, <1>3, <2>1
  <2>3. \A i \in 1..Len(wire) : wire[i].type # "end"
    BY <1>3 DEF StreamInv, Closes
  <2>. QED  BY <1>3, <2>1, <2>2, <2>3
<1>4. ASSUME UNCHANGED <<adapter, sent, block, wire, acc, seen, made>>,
             reader' = reader \/ (reader = "waiting" /\ reader' \in {"scanning", "over"})
      PROVE  Flows'
  <2>1. ASSUME reader \in {"waiting", "scanning", "sending"}  PROVE Flows'
    <3>1. PICK steps : Way(steps, P!Taken, wire) /\ Agrees(steps[Len(wire) + 1])
      BY <2>1 DEF StreamInv, Flows
    <3>2. PICK es, from : es = wire /\ from = P!Taken
      OBVIOUS
    <3>3. Agrees(steps[Len(es) + 1])'
      BY <1>4, <3>1, <3>2 DEF Agrees, Stopped, Named
    <3>4. adapter' = adapter /\ Way(steps, from, es) /\ P!Taken' = from /\ wire' = es
      BY <1>4, <3>1, <3>2 DEF P!Taken
    <3>. QED  BY <3>3, <3>4, FlowsOn
  <2>. QED  BY <1>4, <2>1 DEF Flows
<1>5. CASE P!Connect \/ P!LinkEnds
  <2>1. StreamTypes'
    BY <1>5 DEF P!Connect, P!LinkEnds, StreamInv, StreamTypes
  <2>2. Closes'
    BY <1>5 DEF P!Connect, P!LinkEnds, StreamInv, Closes
  <2>3. Flows'
    <3>1. CASE P!Connect
      BY <1>4, <3>1 DEF P!Connect, StreamInv, Closes
    <3>2. CASE P!LinkEnds
      BY <1>4, <3>2 DEF P!LinkEnds
    <3>. QED  BY <1>5, <3>1, <3>2
  <2>. QED  BY <2>1, <2>2, <2>3
<1>6. ASSUME NEW e \in WireEvents, e.type \in {"text", "end", "error"},
             wire' = Append(wire, e), ~finished, finished' \in BOOLEAN,
             e.type = "end" => finished', adapter = "gemini" /\ finished' => link' # "open",
             link = "open", link' \in {"open", "ended"},
             UNCHANGED <<adapter, sent, block, reader, acc, seen, made, events, fired, gone, result>>
      PROVE  StreamTypes' /\ Closes' /\ Flows'
  <2>1. /\ wire' \in Seq(WireEvents)
        /\ \A i \in 1..Len(wire') : wire'[i].type = "end" => finished' /\ i = Len(wire')
    BY <1>3, <1>6
  <2>2. StreamTypes'
    BY <1>6, <2>1 DEF StreamInv, StreamTypes
  <2>3. Closes'
    BY <1>6, <2>1 DEF StreamInv, Closes
  <2>4. Flows'
    BY <1>6, PlainSent
  <2>. QED  BY <2>2, <2>3, <2>4
<1>7. CASE P!SendText
  BY <1>6, <1>7 DEF P!SendText, WireEvents, StreamInv, StreamTypes
<1>8. CASE P!SendError
  BY <1>6, <1>8 DEF P!SendError, WireEvents, StreamInv, StreamTypes
<1>9. CASE P!SendLast
  <2>1. CASE adapter # "gemini"
    BY <1>6, <1>9, <2>1 DEF P!SendLast, WireEvents
  <2>2. CASE adapter = "gemini"
    <3>1. /\ UNCHANGED <<adapter, sent, block, wire, reader, acc, seen, made, events, fired, gone, result>>
          /\ link = "open" /\ link' = "ended" /\ finished' = TRUE /\ ~finished
      BY <1>9, <2>2 DEF P!SendLast
    <3>2. StreamTypes'
      BY <3>1 DEF StreamInv, StreamTypes
    <3>3. Closes'
      BY <3>1 DEF StreamInv, Closes
    <3>. QED  BY <1>4, <3>1, <3>2, <3>3
  <2>. QED  BY <2>1, <2>2
<1>10. ASSUME c \in StreamCalls, NEW e \in CallEvents, wire' = Append(wire, e), link = "open", ~finished,
              NEW p \in Seq(Nat), sent' = [sent EXCEPT ![c] = p],
              NEW b \in {"open", "stopped"}, block' = [block EXCEPT ![c] = b],
              adapter = "gemini" => b = "stopped",
              UNCHANGED <<adapter, link, finished, reader, acc, seen, made, events, fired,
                          gone, result>>,
              \A t, u : Agrees(t) /\ u = After(t, e) => Agrees(u)'
       PROVE  StreamTypes' /\ Closes' /\ Flows'
  <2>1. e \in WireEvents /\ e.type # "end"
    BY DEF WireEvents, CallEvents
  <2>2. /\ wire' \in Seq(WireEvents)
        /\ \A i \in 1..Len(wire') : wire'[i].type = "end" => finished' /\ i = Len(wire')
    BY <1>3, <1>10, <2>1
  <2>3. StreamTypes'
    BY <1>10, <2>2 DEF StreamInv, StreamTypes, CallState
  <2>4. Closes'
    BY <1>10, <2>2 DEF StreamInv, StreamTypes, Closes, CallState
  <2>5. Flows'
    BY <1>10, <2>1, Sent
  <2>. QED  BY <2>3, <2>4, <2>5
<1>11. CASE c \in StreamCalls /\ P!SendOpen(c)
  <2>1. PICK p \in {SubSeq(P!Whole(c), 1, n) : n \in {m \in {0, 1, Size[c]} : m <= Size[c]}} :
          /\ sent' = [sent EXCEPT ![c] = p]
          /\ wire' = Append(wire, [type |-> "open", call |-> c, parts |-> p])
    BY <1>11 DEF P!SendOpen, P!Sends, P!Event
  <2>2. p \in Seq(Nat)
    BY <1>2, <1>11, PartsAssumption DEF P!StreamsAssumption
  <2>3. PICK e, b : /\ e = [type |-> "open", call |-> c, parts |-> p]
                    /\ b = IF adapter = "gemini" THEN "stopped" ELSE "open"
    OBVIOUS
  <2>4. /\ e \in CallEvents /\ wire' = Append(wire, e) /\ b \in {"open", "stopped"}
        /\ adapter = "gemini" => b = "stopped"
    BY <1>11, <2>1, <2>2, <2>3 DEF CallEvents
  <2>5. /\ link = "open" /\ ~finished /\ block[c] = "unopened" /\ block' = [block EXCEPT ![c] = b]
        /\ UNCHANGED <<adapter, link, finished, reader, acc, seen, made, events, fired, gone, result>>
    BY <1>11, <2>3 DEF P!SendOpen
  <2>6. ASSUME NEW t, NEW u, Agrees(t), u = After(t, e)  PROVE Agrees(u)'
    BY <1>11, <2>1, <2>2, <2>3, <2>5, <2>6, OpenAgrees
  <2>. QED  BY <1>10, <1>11, <2>1, <2>2, <2>4, <2>5, <2>6
<1>12. CASE c \in StreamCalls /\ P!SendArgs(c)
  <2>1. PICK n, p, e : /\ n = Len(sent[c]) + 1 /\ p = Append(sent[c], n)
                       /\ e = [type |-> "args", call |-> c, parts |-> <<n>>]
    OBVIOUS
  <2>2. n \in Nat /\ p \in Seq(Nat) /\ <<n>> \in Seq(Nat) /\ e \in CallEvents
    <3>1. sent[c] \in Seq(Nat)
      BY <1>12 DEF StreamInv, StreamTypes
    <3>2. n \in Nat
      BY <2>1, <3>1
    <3>. QED  BY <1>12, <2>1, <3>1, <3>2 DEF CallEvents
  <2>3. /\ link = "open" /\ ~finished /\ block[c] = "open" /\ wire' = Append(wire, e)
        /\ sent' = [sent EXCEPT ![c] = Append(@, n)] /\ block' = block
        /\ UNCHANGED <<adapter, link, finished, reader, acc, seen, made, events, fired, gone, result>>
    BY <1>12, <2>1 DEF P!SendArgs, P!Sends, P!Event
  <2>4. adapter # "gemini"
    BY <1>12, <2>3 DEF StreamInv, Closes
  <2>5. sent' = [sent EXCEPT ![c] = p] /\ block' = [block EXCEPT ![c] = "open"]
    BY <1>12, <2>1, <2>3 DEF StreamInv, StreamTypes, CallState
  <2>6. ASSUME NEW t, NEW u, Agrees(t), u = After(t, e)  PROVE Agrees(u)'
    BY <1>12, <2>1, <2>2, <2>3, <2>6, ArgsAgree
  <2>. QED  BY <1>10, <1>12, <2>2, <2>3, <2>4, <2>5, <2>6
<1>13. CASE c \in StreamCalls /\ P!SendStop(c)
  <2>1. PICK p, e : /\ p = IF adapter = "openai-responses" THEN P!Whole(c) ELSE sent[c]
                    /\ e = [type |-> "stop", call |-> c, parts |-> p]
    OBVIOUS
  <2>2. p \in Seq(Nat) /\ e \in CallEvents
    BY <1>2, <1>13, <2>1 DEF CallEvents, StreamInv, StreamTypes
  <2>3. /\ link = "open" /\ ~finished /\ block[c] = "open" /\ adapter # "openai-compat"
        /\ adapter = "openai-responses" => sent[c] \in {<<>>, p}
        /\ adapter # "openai-responses" => p = sent[c]
        /\ sent' = [sent EXCEPT ![c] = p] /\ block' = [block EXCEPT ![c] = "stopped"]
        /\ UNCHANGED <<adapter, link, finished, reader, acc, seen, made, events, fired, gone, result>>
    BY <1>13, <2>1 DEF P!SendStop
  <2>4. wire' = Append(wire, e)
    <3>1. sent'[c] = p
      BY <1>13, <2>3 DEF StreamInv, StreamTypes
    <3>. QED  BY <1>13, <2>1, <3>1 DEF P!SendStop, P!Sends, P!Event
  <2>5. ASSUME NEW t, NEW u, Agrees(t), u = After(t, e)  PROVE Agrees(u)'
    BY <1>13, <2>1, <2>2, <2>3, <2>5, StopAgrees
  <2>. QED  BY <1>10, <1>13, <2>2, <2>3, <2>4, <2>5
<1>. QED  BY <1>5, <1>7, <1>8, <1>9, <1>11, <1>12, <1>13

\* The calls are put together when nothing is left on the wire but the end.
LEMMA AllTaken ==
  ASSUME StreamInv, reader \in {"waiting", "scanning", "sending"},
         wire = <<>> \/ (wire # <<>> /\ Head(wire).type = "end")
  PROVE  Agrees(P!Taken) /\ (wire # <<>> => finished)
<1>1. PICK steps : Way(steps, P!Taken, wire) /\ Agrees(steps[Len(wire) + 1])
  BY DEF StreamInv, Flows
<1>2. CASE wire = <<>>
  <2>1. Len(wire) = 0
    BY <1>2
  <2>. QED  BY <1>1, <1>2, <2>1 DEF Way
<1>3. CASE wire # <<>>
  <2>1. Head(wire) = wire[1] /\ Len(wire) \in Nat /\ Len(wire) > 0
    BY <1>3 DEF StreamInv, StreamTypes
  <2>2. finished /\ Len(wire) = 1
    <3>1. 1 \in 1..Len(wire) /\ wire[1].type = "end"
      BY <1>3, <2>1
    <3>2. \A i \in 1..Len(wire) : wire[i].type = "end" => finished /\ i = Len(wire)
      BY DEF StreamInv, Closes
    <3>. QED  BY <3>1, <3>2
  <2>3. steps[2] = After(steps[1], wire[1]) /\ steps[1] = P!Taken
    BY <1>1, <2>2 DEF Way
  <2>4. steps[2] = P!Taken
    BY <1>3, <2>1, <2>3 DEF After
  <2>. QED  BY <1>1, <2>2, <2>4
<1>. QED  BY <1>2, <1>3

\* An end that the adapter offers of its own accord is a good one.
LEMMA DoneIsGenuine ==
  ASSUME StreamInv, Agrees(P!Taken), finished \/ link = "ended"
  PROVE  Genuine(P!Done(P!finish))
BY FinishIsAll DEF Genuine, P!Done

\* One event is taken.
LEMMA ScanFlows ==
  ASSUME StreamInv, P!Scan
  PROVE  Flows'
<1>. USE DEF P!upstream, P!caller
<1>1. wire \in Seq(WireEvents) /\ wire # <<>> /\ wire' = Tail(wire) /\ reader = "scanning"
  BY DEF P!Scan, StreamInv, StreamTypes
<1>2. PICK steps : Way(steps, P!Taken, wire) /\ Agrees(steps[Len(wire) + 1])
  BY <1>1 DEF StreamInv, Flows
<1>3. PICK es, from : es = Tail(wire) /\ from = After(P!Taken, Head(wire))
  OBVIOUS
<1>4. PICK less : Way(less, from, es) /\ less[Len(es) + 1] = steps[Len(wire) + 1]
  BY <1>1, <1>2, <1>3, Shorter
<1>5. Agrees(less[Len(es) + 1])'
  <2>1. Agrees(less[Len(es) + 1])
    BY <1>2, <1>4
  <2>2. UNCHANGED <<adapter, sent, block>>
    BY DEF P!Scan
  <2>. QED  BY <2>1, <2>2 DEF Agrees, Stopped, Named
<1>6. P!Taken' = from
  <2>1. CASE Head(wire).type \in {"open", "args", "stop"}
    <3>1. PICK t : t = P!Takes(P!Taken, Head(wire))
      OBVIOUS
    <3>2. acc' = t.acc /\ seen' = t.seen /\ made' = t.made
      BY <2>1, <3>1 DEF P!Scan
    <3>3. t = P!Took(t.acc, t.seen, t.made)
      BY <3>1 DEF P!Takes, P!Responds, P!Gathers, P!Lists, P!Taken, P!Took
    <3>. QED  BY <1>3, <2>1, <3>1, <3>2, <3>3 DEF After, P!Taken
  <2>2. CASE Head(wire).type \notin {"open", "args", "stop"}
    BY <1>3, <2>2 DEF P!Scan, After, P!Taken
  <2>. QED  BY <2>1, <2>2
<1>7. adapter' = adapter /\ wire' = es
  BY <1>1, <1>3 DEF P!Scan
<1>. QED  BY <1>4, <1>5, <1>6, <1>7, FlowsOn

\* What the goroutine and the caller do keeps the invariant.
LEMMA ReaderKeeps ==
  ASSUME StreamInv,
         \/ P!Scan \/ P!SendEvent \/ P!ScanEnds \/ P!SendFinal \/ P!WatchdogFires
         \/ P!Receive \/ P!Leave
  PROVE  StreamTypes' /\ Closes' /\ Flows'
<1>. USE DEF P!upstream, P!caller
<1>1. \A s, q : q \in Seq(s) => /\ \A e : \E more : Append(q, e) \in Seq(more)
                                /\ q # <<>> => Tail(q) \in Seq(s)
  <2>. SUFFICES ASSUME NEW s, NEW q \in Seq(s)
                PROVE  (\A e : \E more : Append(q, e) \in Seq(more)) /\ (q # <<>> => Tail(q) \in Seq(s))
    OBVIOUS
  <2>1. ASSUME NEW e  PROVE Append(q, e) \in Seq(s \cup {e})
    <3>1. q \in Seq(s \cup {e})
      BY SeqMonotonic
    <3>. QED  BY <3>1, AppendProperties
  <2>. QED  BY <2>1, HeadTailProperties
<1>2. ASSUME UNCHANGED <<adapter, sent, block, wire, acc, seen, made>>,
             reader' \in {"waiting", "scanning", "sending"} => reader \in {"waiting", "scanning", "sending"}
      PROVE  Flows'
  <2>1. ASSUME reader \in {"waiting", "scanning", "sending"}  PROVE Flows'
    <3>1. PICK steps : Way(steps, P!Taken, wire) /\ Agrees(steps[Len(wire) + 1])
      BY <2>1 DEF StreamInv, Flows
    <3>2. PICK es, from : es = wire /\ from = P!Taken
      OBVIOUS
    <3>3. Agrees(steps[Len(es) + 1])'
      BY <1>2, <3>1, <3>2 DEF Agrees, Stopped, Named
    <3>4. adapter' = adapter /\ Way(steps, from, es) /\ P!Taken' = from /\ wire' = es
      BY <1>2, <3>1, <3>2 DEF P!Taken
    <3>. QED  BY <3>3, <3>4, FlowsOn
  <2>. QED  BY <1>2, <2>1 DEF Flows
<1>3. CASE P!Scan
  <2>1. /\ wire \in Seq(WireEvents) /\ wire # <<>> /\ wire' = Tail(wire)
        /\ UNCHANGED <<adapter, link, sent, block, finished, events, fired, gone, result>>
        /\ reader = "scanning"
    BY <1>3 DEF P!Scan, StreamInv, StreamTypes
  <2>2. /\ wire' \in Seq(WireEvents) /\ Len(wire') = Len(wire) - 1 /\ Len(wire) \in Nat
        /\ \A i \in 1..Len(wire') : wire'[i] = wire[i + 1]
    BY <2>1, HeadTailProperties
  <2>3. StreamTypes'
    BY <2>1, <2>2 DEF StreamInv, StreamTypes
  <2>4. Closes'
    <3>1. \A i \in 1..Len(wire) : wire[i].type = "end" => finished /\ i = Len(wire)
      BY DEF StreamInv, Closes
    <3>2. ASSUME NEW i \in 1..Len(wire'), wire'[i].type = "end"  PROVE finished' /\ i = Len(wire')
      <4>1. i + 1 \in 1..Len(wire) /\ wire[i + 1].type = "end"
        BY <2>2, <3>2
      <4>2. finished /\ i + 1 = Len(wire)
        BY <3>1, <4>1
      <4>3. finished' /\ i \in Nat
        BY <2>1, <4>2
      <4>. QED  BY <2>2, <4>2, <4>3
    <3>. QED  BY <2>1, <3>2 DEF StreamInv, Closes
  <2>. QED  BY <1>3, <2>3, <2>4, ScanFlows
<1>4. CASE P!SendEvent \/ P!ScanEnds \/ P!WatchdogFires
  <2>1. /\ UNCHANGED <<adapter, link, sent, block, finished, wire, acc, seen, made, gone, result>>
        /\ reader \in {"scanning", "sending"}
        /\ events' = events \/ events' = Append(events, offer)
        /\ fired' \in {fired, TRUE}
    BY <1>4 DEF P!SendEvent, P!ScanEnds, P!WatchdogFires
  <2>2. StreamTypes'
    <3>1. \E more : events' \in Seq(more)
      <4>1. PICK s : events \in Seq(s)
        BY DEF StreamInv, StreamTypes
      <4>2. \E more : Append(events, offer) \in Seq(more)
        BY <1>1, <4>1
      <4>. QED  BY <2>1, <4>1, <4>2
    <3>. QED  BY <2>1, <3>1 DEF StreamInv, StreamTypes
  <2>3. Closes'
    BY <2>1 DEF StreamInv, Closes
  <2>. QED  BY <1>2, <2>1, <2>2, <2>3
<1>5. CASE P!SendFinal
  <2>1. /\ UNCHANGED <<adapter, link, sent, block, finished, fired, gone, result>>
        /\ reader = "closing" /\ reader' = "over" /\ wire' = <<>> /\ events' = Append(events, offer)
    BY <1>5 DEF P!SendFinal
  <2>2. StreamTypes'
    BY <1>1, <2>1, EmptySeq DEF StreamInv, StreamTypes
  <2>3. Closes'
    BY <2>1, EmptySeq DEF StreamInv, Closes
  <2>4. Flows'
    BY <2>1 DEF Flows
  <2>. QED  BY <2>2, <2>3, <2>4
<1>6. CASE P!Receive
  <2>1. /\ UNCHANGED <<adapter, link, sent, block, finished, wire, reader, acc, seen, made, fired, gone>>
        /\ ~gone /\ events # <<>> /\ events' = Tail(events)
    BY <1>6 DEF P!Receive
  <2>2. StreamTypes'
    BY <1>1, <2>1 DEF StreamInv, StreamTypes
  <2>3. Closes'
    BY <2>1 DEF StreamInv, Closes
  <2>. QED  BY <1>2, <2>1, <2>2, <2>3
<1>7. CASE P!Leave
  <2>1. /\ UNCHANGED <<adapter, link, sent, block, finished, wire, reader, acc, seen, made, events, fired, result>>
        /\ gone' = TRUE /\ result.type = "none" /\ link # "connecting"
    BY <1>7 DEF P!Leave, P!Nothing
  <2>2. StreamTypes'
    BY <2>1 DEF StreamInv, StreamTypes
  <2>3. Closes'
    BY <2>1 DEF StreamInv, Closes
  <2>. QED  BY <1>2, <2>1, <2>2, <2>3
<1>. QED  BY <1>3, <1>4, <1>5, <1>6, <1>7

\* Every end that is offered, goes its way or is there is a good one.
LEMMA HonestKeeps ==
  ASSUME StreamInv, P!Next
  PROVE  Honest'
<1>. USE DEF P!upstream, P!caller
<1>. DEFINE Told(d) == d \in {offer, result} \/ \E i \in DOMAIN events : d = events[i]
<1>1. \A d : Told(d) => Genuine(d)
  BY DEF StreamInv, Honest
<1>2. \A d : Genuine(d) => Genuine(d)'
  BY GenuineStays, EndIsSteady DEF StreamInv, StreamTypes
<1>3. PICK s : events \in Seq(s)
  BY DEF StreamInv, StreamTypes
<1>4. /\ \A i \in DOMAIN Append(events, offer) : Told(Append(events, offer)[i])
      /\ events # <<>> => /\ Told(Head(events))
                          /\ \A i \in DOMAIN Tail(events) : Told(Tail(events)[i])
  <2>1. /\ DOMAIN Append(events, offer) = 1..(Len(events) + 1) /\ Append(events, offer)[Len(events) + 1] = offer
        /\ \A i \in 1..Len(events) : Append(events, offer)[i] = events[i]
    <3>1. events \in Seq(s \cup {offer})
      BY <1>3, SeqMonotonic
    <3>. QED  BY <3>1, AppendProperties, LenProperties
  <2>2. events # <<>> => /\ Head(events) = events[1] /\ 1 \in DOMAIN events
                         /\ DOMAIN Tail(events) = 1..(Len(events) - 1)
                         /\ \A i \in 1..(Len(events) - 1) : Tail(events)[i] = events[i + 1]
    BY <1>3, HeadTailProperties, LenProperties
  <2>3. DOMAIN events = 1..Len(events) /\ Len(events) \in Nat
    BY <1>3
  <2>. QED  BY <2>1, <2>2, <2>3
<1>. DEFINE Fair(d) == Told(d) \/ d.type # "done" \/ Genuine(d)
<1>5. /\ Fair(offer') /\ Fair(result') /\ \A i \in DOMAIN events' : Fair(events'[i])
  <2>1. CASE \/ P!SendText \/ P!SendLast \/ P!SendError \/ P!LinkEnds
             \/ P!WatchdogFires \/ P!Leave
             \/ \E c \in StreamCalls : P!SendOpen(c) \/ P!SendArgs(c) \/ P!SendStop(c)
    <3>1. UNCHANGED <<offer, events, result>>
      BY <2>1 DEF P!SendText, P!SendLast, P!SendError, P!LinkEnds, P!WatchdogFires, P!Leave,
                  P!SendOpen, P!SendArgs, P!SendStop
    <3>. QED  BY <3>1
  <2>2. CASE P!Connect
    <3>1. UNCHANGED <<offer, events>> /\ (result' = result \/ result'.type # "done")
      BY <2>2 DEF P!Connect, P!Err
    <3>. QED  BY <3>1
  <2>3. CASE P!Scan
    <3>1. UNCHANGED <<events, result>> /\ reader = "scanning" /\ wire # <<>>
      BY <2>3 DEF P!Scan
    <3>2. CASE Head(wire).type = "end"
      <4>1. offer' = P!Done(P!finish)
        BY <2>3, <3>2 DEF P!Scan, P!Ends
      <4>2. Genuine(P!Done(P!finish))
        BY <3>1, <3>2, AllTaken, DoneIsGenuine
      <4>. QED  BY <3>1, <4>1, <4>2
    <3>3. CASE Head(wire).type # "end"
      <4>1. offer' = offer \/ offer'.type # "done"
        BY <2>3, <3>3 DEF P!Scan, P!Ends, P!Err, P!Delta, P!Shows, P!Progress, P!Nothing
      <4>. QED  BY <3>1, <4>1
    <3>. QED  BY <3>2, <3>3
  <2>4. CASE P!SendEvent
    <3>1. CASE events' = Append(events, offer) /\ offer' = P!Nothing
      BY <1>4, <2>4, <3>1 DEF P!SendEvent, P!Nothing
    <3>2. CASE P!Cancelled /\ offer' = P!Done(P!finish) /\ UNCHANGED events
      <4>1. Genuine(offer')
        BY <3>2 DEF Genuine, P!Cancelled
      <4>. QED  BY <2>4, <3>2, <4>1 DEF P!SendEvent
    <3>. QED  BY <2>4, <3>1, <3>2 DEF P!SendEvent, P!Ends
  <2>5. CASE P!ScanEnds
    <3>1. UNCHANGED <<events, result>> /\ reader = "scanning"
      BY <2>5 DEF P!ScanEnds
    <3>2. CASE wire = <<>> /\ link = "ended" /\ offer' = P!Done(P!finish)
      <4>1. Genuine(P!Done(P!finish))
        BY <3>1, <3>2, AllTaken, DoneIsGenuine
      <4>. QED  BY <3>1, <3>2, <4>1
    <3>3. CASE offer' = P!Err
      BY <3>1, <3>3 DEF P!Err
    <3>. QED  BY <2>5, <3>2, <3>3 DEF P!ScanEnds, P!Ends
  <2>6. CASE P!SendFinal
    <3>1. events' = Append(events, offer) /\ offer' = P!Nothing /\ UNCHANGED result
      BY <2>6 DEF P!SendFinal
    <3>. QED  BY <1>4, <3>1 DEF P!Nothing
  <2>7. CASE P!Receive
    <3>1. /\ events # <<>> /\ events' = Tail(events) /\ UNCHANGED offer
          /\ result' \in {Head(events), result}
      BY <2>7 DEF P!Receive
    <3>. QED  BY <1>4, <3>1
  <2>. QED  BY <2>1, <2>2, <2>3, <2>4, <2>5, <2>6, <2>7 DEF P!Next
<1>6. \A d : Fair(d) => Genuine(d)'
  <2>1. \A d : Fair(d) => Genuine(d)
    BY <1>1 DEF Genuine
  <2>. QED  BY <1>2, <2>1
<1>. HIDE DEF Fair
<1>7. \A d : Genuine(d)' /\ d = offer' => Genuine(offer)'
  BY DEF Genuine
<1>8. \A d : Genuine(d)' /\ d = result' => Genuine(result)'
  BY DEF Genuine
<1>9. \A i \in DOMAIN events' : Genuine(events[i])'
  BY <1>5, <1>6 DEF Genuine
<1>. QED  BY <1>5, <1>6, <1>7, <1>8, <1>9 DEF Honest

LEMMA StreamStep ==
  ASSUME StreamInv, P!Next
  PROVE  StreamInv'
<1>1. StreamTypes' /\ Closes' /\ Flows'
  <2>1. ASSUME NEW c \in StreamCalls, P!SendOpen(c) \/ P!SendArgs(c) \/ P!SendStop(c)
        PROVE  StreamTypes' /\ Closes' /\ Flows'
    BY <2>1, UpstreamKeeps
  <2>2. CASE P!Connect \/ P!SendText \/ P!SendLast \/ P!SendError \/ P!LinkEnds
    BY <2>2, UpstreamKeeps
  <2>. QED  BY <2>1, <2>2, ReaderKeeps DEF P!Next
<1>. QED  BY <1>1, HonestKeeps DEF StreamInv

\* An answer that came to its end is handed on with exactly the calls the model
\* made, each with all its arguments once, however long they are, in whatever
\* fragments they came and however full the channel (toolcalls.go, the adapters).
THEOREM CallsComeAsSent == Spec => []CallsAsSent
<1>1. Init => (part = "streams" => StreamInv)
  <2>. SUFFICES ASSUME P!Init  PROVE StreamInv
    BY DEF Init
  <2>. USE DEF P!Init
  <2>1. StreamTypes
    BY EmptySeq DEF StreamTypes, CallState
  <2>2. Closes
    BY EmptySeq DEF Closes, P!Nothing
  <2>3. Agrees(P!Taken)
    BY EmptySeq DEF Agrees, P!Taken, P!Took, Stopped, Named
  <2>4. Flows
    <3>1. PICK steps : steps = [i \in {1} |-> P!Taken]
      OBVIOUS
    <3>2. Len(wire) = 0 /\ steps[1] = P!Taken
      BY <3>1
    <3>. QED  BY <2>3, <3>2 DEF Flows, Way
  <2>5. Honest
    BY DEF Honest, Genuine, P!Nothing
  <2>. QED  BY <2>1, <2>2, <2>4, <2>5 DEF StreamInv
<1>2. (part = "streams" => StreamInv) /\ [Next]_partsVars => (part = "streams" => StreamInv)'
  <2>1. CASE UNCHANGED streamVars
    <3>1. UNCHANGED <<adapter, link, wire, sent, block, finished, reader, offer, acc, seen, made,
                      events, fired, gone, result>>
      BY <2>1 DEF streamVars
    <3>2. StreamInv => StreamInv'
      <4>1. StreamTypes => StreamTypes'
        BY <3>1 DEF StreamTypes
      <4>2. Closes => Closes'
        BY <3>1 DEF Closes
      <4>3. Honest => Honest'
        BY <3>1 DEF Honest, Genuine, AllCalls, Named, P!Complete, P!Whole
      <4>4. Flows => Flows'
        <5>. SUFFICES ASSUME NEW steps, Way(steps, P!Taken, wire), Agrees(steps[Len(wire) + 1])
                      PROVE  Flows'
          BY <3>1 DEF Flows
        <5>1. PICK es, from : es = wire /\ from = P!Taken
          OBVIOUS
        <5>2. Agrees(steps[Len(es) + 1])'
          BY <3>1, <5>1 DEF Agrees, Stopped, Named
        <5>3. adapter' = adapter /\ Way(steps, from, es) /\ P!Taken' = from /\ wire' = es
          BY <3>1, <5>1 DEF P!Taken
        <5>. QED  BY <5>2, <5>3, FlowsOn
      <4>. QED  BY <4>1, <4>2, <4>3, <4>4 DEF StreamInv
    <3>. QED  BY <3>2, OneStep
  <2>. QED  BY <2>1, OneStep, StreamStep
<1>3. (part = "streams" => StreamInv) => CallsAsSent
  <2>. SUFFICES ASSUME StreamInv  PROVE P!CallsAsSent
    BY DEF CallsAsSent
  <2>1. result.type = "done" => ~gone
    BY DEF StreamInv, Closes
  <2>. QED  BY <2>1 DEF StreamInv, Honest, Genuine, P!CallsAsSent, AllCalls, Named
<1>. QED  BY <1>1, <1>2, <1>3, PTL DEF Spec
=============================================================================
