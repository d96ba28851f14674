----------------------------- MODULE Snapshots -----------------------------
(***************************************************************************)
(* Snapshots of the workspace in a hidden git repository (snapshot.Store), *)
(* taken by a run before its first change and by its snapshot tools, and   *)
(* the rewind of the terminal interface (Service.Rewind).  Tools, editors  *)
(* and background processes write files all the while.                     *)
(*                                                                         *)
(* A snapshot is a commit, known by its number: a tree of contents (0: no  *)
(* file) and the commit it was made on.  Of git's index only the set of    *)
(* tracked paths matters.  Ignored files are not among the paths.          *)
(***************************************************************************)
EXTENDS Naturals, FiniteSets, Sequences

CONSTANTS
  Contents,      \* Contents[p]: what path p may hold, 0 for no file
  Workspace,     \* what they hold when the daemon starts
  MaxSnapshots,
  MaxWrites      \* changes made to files by anyone but this store

Paths == DOMAIN Contents
Trees == [Paths -> UNION {Contents[p] : p \in Paths}]
SnapshotsAssumption == Workspace \in Trees
Actors == {"run", "rewind"}   \* the run's tool calls, the handler of POST /rewind

VARIABLES
  files,        \* the workspace
  index,        \* paths the hidden repository tracks
  commits,      \* every commit
  head,         \* HEAD, 0 before the first
  lock,         \* Store.mu: "free" or an actor
  job,          \* job[a]: the operation of a
  checkpointed, \* the run took its automatic checkpoint, or tried
  offered,      \* the checkpoint GET /rewind showed, 0 for none
  writes,
  disturbed     \* files were written since the rewind captured them (history)

storeVars == <<index, commits, head, lock>>
snapshotVars == <<files, storeVars, job, checkpointed, offered, writes, disturbed>>

Idle == [do |-> "idle"]

Init ==
  /\ files = Workspace /\ index = {} /\ commits = <<>> /\ head = 0 /\ lock = "free"
  /\ job = [a \in Actors |-> Idle]
  /\ checkpointed = FALSE /\ offered = 0 /\ writes = 0
  /\ disturbed = FALSE

Present(tree) == {p \in Paths : tree[p] # 0}

\* git log: HEAD and its ancestors.
Log ==
  LET ancestors[n \in 0..Len(commits)] ==
        IF n = 0 THEN {} ELSE {n} \cup ancestors[commits[n].parent]
  IN  ancestors[head]

(***************************************************************************)
(* Create: stage everything, then commit, under the lock.  Either git call *)
(* may fail; what was staged stays staged.                                 *)
(***************************************************************************)
Stage(a, label) ==
  /\ lock = "free" /\ Len(commits) < MaxSnapshots
  /\ lock' = a
  /\ index' = Present(files)
  /\ job' = [job EXCEPT ![a] = [do |-> "create", label |-> label, tree |-> files]]
  /\ UNCHANGED <<files, commits, head, offered, writes>>

\* What an operation does next: a rewind that captured the workspace restores.
After(a) ==
  IF a = "rewind" /\ job[a].do = "create" THEN [do |-> "captured"] ELSE Idle

Commit(a) ==
  /\ job[a].do = "create"
  /\ commits' = Append(commits, [tree |-> job[a].tree, label |-> job[a].label, parent |-> head])
  /\ head' = Len(commits')
  /\ lock' = "free"
  /\ job' = [job EXCEPT ![a] = After(a)]
  /\ UNCHANGED <<files, index, checkpointed, offered, writes, disturbed>>

CreateFails(a) ==
  /\ job[a].do = "create"
  /\ lock' = "free"
  /\ job' = [job EXCEPT ![a] = Idle]
  /\ UNCHANGED <<files, index, commits, head, checkpointed, offered, writes, disturbed>>

\* runLoop: before the first batch that may change something; a failure is
\* no reason to stop.
AutoCheckpoint ==
  /\ ~checkpointed /\ job["run"] = Idle
  /\ checkpointed' = TRUE
  /\ Stage("run", "auto")
  /\ UNCHANGED disturbed

SnapshotCreate ==
  /\ checkpointed /\ job["run"] = Idle
  /\ Stage("run", "named")
  /\ UNCHANGED <<checkpointed, disturbed>>

RunEnds ==
  /\ checkpointed /\ job["run"] = Idle
  /\ checkpointed' = FALSE
  /\ UNCHANGED <<files, storeVars, job, offered, writes, disturbed>>

(***************************************************************************)
(* Restore: the paths that differ, then the reset, under the lock.         *)
(***************************************************************************)
\* git diff <commit>: tracked paths and the commit's; one that is not tracked
\* counts as deleted, whatever the workspace holds.
changesFor(n) ==
  LET tree == commits[n].tree
  IN  {p \in index \cup Present(tree) : p \in index => files[p] # tree[p]}

Preview(a, n) ==
  /\ lock = "free"
  /\ lock' = a
  /\ job' = [job EXCEPT ![a] = [do |-> "restore", target |-> n,
                                report |-> changesFor(n), seen |-> files]]
  /\ UNCHANGED <<files, index, commits, head, checkpointed, offered, writes, disturbed>>

\* git reset --hard: the commit's files, and none of the tracked ones it lacks.
ResetTo(n) ==
  [p \in Paths |-> IF commits[n].tree[p] # 0 \/ p \in index THEN commits[n].tree[p] ELSE files[p]]

Reset(a) ==
  /\ job[a].do = "restore"
  /\ files' = ResetTo(job[a].target)
  /\ index' = Present(commits[job[a].target].tree)
  /\ head' = job[a].target
  /\ lock' = "free"
  /\ job' = [job EXCEPT ![a] = Idle]
  /\ offered' = IF a = "rewind" THEN 0 ELSE offered
  /\ UNCHANGED <<commits, checkpointed, writes, disturbed>>

\* snapshot_restore, of any id the model still remembers.
SnapshotRestore ==
  /\ checkpointed /\ job["run"] = Idle
  /\ \E n \in DOMAIN commits : Preview("run", n)

(***************************************************************************)
(* The rewind of the terminal interface: the newest automatic checkpoint   *)
(* is offered, confirmed some time later, and the workspace captured first.*)
(***************************************************************************)
LatestAutoCheckpoint ==
  /\ lock = "free" /\ job["rewind"] = Idle
  /\ \E n \in DOMAIN commits :
       /\ n \in Log
       /\ commits[n].label = "auto"
       /\ \A m \in Log : commits[m].label = "auto" => m <= n
       /\ offered' = n
  /\ UNCHANGED <<files, storeVars, job, checkpointed, writes, disturbed>>

\* Slip: the workspace is not captured before the restore.
RewindBlindly ==
  /\ offered # 0 /\ job["rewind"] = Idle
  /\ job' = [job EXCEPT !["rewind"] = [do |-> "captured"]]
  /\ disturbed' = FALSE
  /\ UNCHANGED <<files, storeVars, checkpointed, offered, writes>>

RewindCapture ==
  /\ offered # 0 /\ job["rewind"] = Idle
  /\ Stage("rewind", "pre-rewind")
  /\ disturbed' = FALSE
  /\ UNCHANGED checkpointed

RewindRestore ==
  /\ job["rewind"].do = "captured"
  /\ Preview("rewind", offered)

\* A tool of the run, a background process, another session or an editor.
Write(p) ==
  /\ writes < MaxWrites
  /\ \E c \in Contents[p] \ {files[p]} : files' = [files EXCEPT ![p] = c]
  /\ writes' = writes + 1
  /\ disturbed' = (job["rewind"] # Idle)
  /\ UNCHANGED <<storeVars, job, checkpointed, offered>>

Next ==
  \/ AutoCheckpoint \/ SnapshotCreate \/ RunEnds \/ SnapshotRestore
  \/ LatestAutoCheckpoint \/ RewindCapture \/ RewindRestore
  \/ \E a \in Actors : Commit(a) \/ CreateFails(a) \/ Reset(a)
  \/ \E p \in Paths : Write(p)

Spec == Init /\ [][Next]_snapshotVars

-----------------------------------------------------------------------------

\* A rewind during which nobody else wrote brings back the checkpoint exactly,
\* files the turn created included, and what it undid is in some snapshot
\* (Service.Rewind: "without this capture a file the turn created would survive").
RewindExact ==
  [][\A a \in Actors :
       a = "rewind" /\ job[a].do = "restore" /\ job'[a] = Idle /\ ~disturbed =>
         /\ files' = commits[job[a].target].tree
         /\ \E n \in DOMAIN commits : commits[n].tree = files]_snapshotVars
=============================================================================
