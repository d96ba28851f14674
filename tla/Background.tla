----------------------------- MODULE Background -----------------------------
(***************************************************************************)
(* Background processes (tools/background.go, internal/shell), and the two *)
(* polls by which the terminal interface follows them: the badge while the *)
(* panel is closed, the panel with a cursor into one process's output.     *)
(*                                                                         *)
(* Output is a stream of bytes known by their positions; the bytes at   *)
(* Inside continue the character of the byte before.  The buffer keeps the *)
(* last Retain of them, so its content follows from the total.             *)
(* A kill is a TERM to the group, a grace of four seconds, and a KILL.     *)
(***************************************************************************)
EXTENDS Integers, Sequences, FiniteSets

CONSTANTS
  Procs,      \* 1..n, in the order their ids are given
  Stubborn,   \* processes that outlast a TERM
  Retain,     \* backgroundMaxOutputBytes
  Chunk,      \* backgroundOutputChunkBytes
  LocalMax,   \* processLocalLogMax
  MaxOut,     \* MaxOut[p]: bytes p writes
  Inside,     \* positions of continuation bytes
  MaxGen      \* times the panel opens, closes or changes process

BackgroundAssumption ==
  /\ Procs \subseteq Nat \ {0}
  /\ Retain \in Nat \ {0} /\ Chunk \in Nat \ {0} /\ LocalMax \in Nat \ {0}
  /\ MaxOut \in [Procs -> Nat] /\ MaxGen \in Nat
  /\ Stubborn \subseteq Procs /\ Inside \subseteq Nat \ {0, 1}

VARIABLES
  started,   \* processes ever started
  group,     \* processes with a living process group
  table,     \* processManager.procs
  total,     \* totalOut
  victims,   \* whom killAll has still to kill
  halting,   \* the daemon: up, killAll holding the lock, gone
  panel,     \* active: processes, other or none
  panelGen, badgeGen,
  selected,  \* processSelected, 0 for none
  logs, cursors,   \* processLogs, and processCursors where processHaveCursor
  polls      \* requests and ticks of both polls under way

daemonVars == <<started, group, table, total, victims, halting>>
panelVars == <<panel, panelGen, badgeGen, selected, logs, cursors, polls>>
backgroundVars == <<daemonVars, panelVars>>

NoCursor == -1

Badge(gen, at) == [poll |-> "badge", gen |-> gen, at |-> at]
Panel(gen, at, p, c) == [poll |-> "panel", gen |-> gen, at |-> at, proc |-> p, cursor |-> c]
PanelTick(gen) == [poll |-> "panel", gen |-> gen, at |-> "tick"]

\* Answers to a poll of the panel: a process's output, or why there is none.
Read(gen, p, out) == [poll |-> "panel", gen |-> gen, at |-> "read", proc |-> p, got |-> out]
Unread(gen, why) == [poll |-> "panel", gen |-> gen, at |-> why]

Init ==
  /\ started = {} /\ group = {} /\ table = {}
  /\ total = [p \in Procs |-> 0] /\ victims = {} /\ halting = "up"
  /\ panel = "none" /\ panelGen = 0 /\ badgeGen = 0 /\ selected = 0
  /\ logs = [p \in Procs |-> <<>>] /\ cursors = [p \in Procs |-> NoCursor]
  /\ polls = {Badge(0, "asked")}

(***************************************************************************)
(* The daemon: a process starts before it is in the table, writes, and     *)
(* exits.                                                                  *)
(***************************************************************************)
Start(p) ==
  /\ halting # "gone"
  /\ p \notin started
  /\ \A q \in Procs : q < p => q \in started
  /\ started' = started \cup {p}
  /\ group' = group \cup {p}
  /\ UNCHANGED <<table, total, victims, halting, panelVars>>

start(p) ==
  /\ halting = "up"
  /\ p \in started \ table
  /\ table' = table \cup {p}
  /\ UNCHANGED <<started, group, total, victims, halting, panelVars>>

write(p) ==
  /\ p \in group /\ halting # "gone"
  /\ total[p] < MaxOut[p]
  /\ total' = [total EXCEPT ![p] = @ + 1]
  /\ UNCHANGED <<started, group, table, victims, halting, panelVars>>

Exits(p) ==
  /\ p \in group
  /\ group' = group \ {p}
  /\ UNCHANGED <<started, table, total, victims, halting, panelVars>>

\* A TERM and, if the group outlasts the grace, a KILL: either way it is gone.
KillTree(p) == group' = group \ {p}

processKill(p) ==
  /\ halting = "up"
  /\ p \in table \cap group
  /\ KillTree(p)
  /\ UNCHANGED <<started, table, total, victims, halting, panelVars>>

\* StopBackgroundProcesses, as the daemon stops; the program waits two seconds
\* for it and exits, less than the grace a stubborn process is given.
StopBackgroundProcesses ==
  /\ halting = "up"
  /\ halting' = "killing"
  /\ victims' = table
  /\ UNCHANGED <<started, group, table, total, panelVars>>

killAll(p) ==
  /\ halting = "killing"
  /\ p \in victims
  /\ victims' = victims \ {p}
  /\ KillTree(p)
  /\ UNCHANGED <<started, table, total, halting, panelVars>>

Exit ==
  /\ halting = "killing"
  /\ victims = {} \/ group \cap victims \cap Stubborn # {}
  /\ halting' = "gone"
  /\ group' = group \ (victims \ Stubborn)
  /\ UNCHANGED <<started, table, total, victims, panelVars>>

(***************************************************************************)
(* outputSince: what a read with a cursor returns.                         *)
(***************************************************************************)
Larger(a, b) == IF a > b THEN a ELSE b
RetainedStart(p) == Larger(total[p] - Retain, 0)

Appends(p, c) ==
  /\ c # NoCursor
  /\ RetainedStart(p) <= c /\ c <= total[p]
  /\ total[p] - c <= Chunk

From(p, c) == IF Appends(p, c) THEN c ELSE Larger(RetainedStart(p), total[p] - Chunk)

\* The first position after i that starts a character.
RuneStart(p, i) ==
  CHOOSE j \in i..total[p] :
    /\ \A k \in i..(j - 1) : k + 1 \in Inside
    /\ j = total[p] \/ j + 1 \notin Inside

outputSince(p, c) ==
  LET i == RuneStart(p, From(p, c))
  IN  [output |-> [k \in 1..(total[p] - i) |-> i + k],
       cursor |-> total[p], reset |-> ~Appends(p, c)]

(***************************************************************************)
(* The panel's poll: the first process stands in for one that is not       *)
(* listed; a daemon that has gone answers with an error.                   *)
(***************************************************************************)
First == IF table = {} THEN 0 ELSE CHOOSE p \in table : \A q \in table : p <= q

fetchProcessSnapshot(r) ==
  /\ r.poll = "panel" /\ r.at = "asked"
  /\ LET p == IF r.proc \in table THEN r.proc ELSE First
         c == IF r.proc \in table THEN r.cursor ELSE NoCursor
         answer == IF halting = "gone" THEN Unread(r.gen, "failed")
                   ELSE IF p = 0 THEN Unread(r.gen, "empty")
                   ELSE Read(r.gen, p, outputSince(p, c))
     IN  polls' = (polls \ {r}) \cup {answer}
  /\ UNCHANGED <<daemonVars, panel, panelGen, badgeGen, selected, logs, cursors>>

\* Slip: an answer of an earlier opening of the panel is applied.
StaleIfClosed(r) == panel # "processes"

Stale(r) == panel # "processes" \/ r.gen # panelGen

KeepTail(s) == SubSeq(s, Larger(1, Len(s) - LocalMax + 1), Len(s))

applyProcessSnapshot(r) ==
  /\ r.poll = "panel" /\ r.at \in {"failed", "empty", "read"}
  /\ IF Stale(r)
     THEN polls' = polls \ {r} /\ UNCHANGED <<selected, logs, cursors>>
     ELSE /\ polls' = (polls \ {r}) \cup {PanelTick(panelGen)}
          /\ selected' = CASE r.at = "read" -> r.proc
                           [] r.at = "empty" -> 0
                           [] OTHER -> selected
          /\ IF r.at = "read"
             THEN /\ logs' = [logs EXCEPT ![r.proc] =
                        KeepTail((IF r.got.reset THEN <<>> ELSE @) \o r.got.output)]
                  /\ cursors' = [cursors EXCEPT ![r.proc] = r.got.cursor]
             ELSE UNCHANGED <<logs, cursors>>
  /\ UNCHANGED <<daemonVars, panel, panelGen, badgeGen>>

processCursor(p) == IF p = 0 THEN NoCursor ELSE cursors[p]

processPollTick(r) ==
  /\ r.poll = "panel" /\ r.at = "tick"
  /\ polls' = (polls \ {r}) \cup
       (IF Stale(r) THEN {} ELSE {Panel(panelGen, "asked", selected, processCursor(selected))})
  /\ UNCHANGED <<daemonVars, panel, panelGen, badgeGen, selected, logs, cursors>>

(***************************************************************************)
(* The badge's poll, and the keys that hand over between the two.          *)
(***************************************************************************)
BadgeStale(r) == r.gen # badgeGen \/ panel = "processes"

applyBgProcessList(r) ==
  /\ r.poll = "badge"
  /\ polls' = (polls \ {r}) \cup
       (IF BadgeStale(r) THEN {} ELSE {Badge(r.gen, IF r.at = "asked" THEN "tick" ELSE "asked")})
  /\ UNCHANGED <<daemonVars, panel, panelGen, badgeGen, selected, logs, cursors>>

openProcessPanel(p) ==
  /\ panel # "processes" /\ panelGen < MaxGen
  /\ p \in {0, selected} \cup table
  /\ panel' = "processes"
  /\ panelGen' = panelGen + 1
  /\ badgeGen' = badgeGen + 1
  /\ selected' = p
  /\ polls' = polls \cup {Panel(panelGen', "asked", p, processCursor(p))}
  /\ UNCHANGED <<daemonVars, logs, cursors>>

closeProcessPanel ==
  /\ panel = "processes" /\ panelGen < MaxGen
  /\ panel' = "none"
  /\ panelGen' = panelGen + 1
  /\ badgeGen' = badgeGen + 1
  /\ polls' = polls \cup {Badge(badgeGen', "asked")}
  /\ UNCHANGED <<daemonVars, selected, logs, cursors>>

selectProcess(p) ==
  /\ panel = "processes" /\ panelGen < MaxGen
  /\ p \in table /\ p # selected
  /\ panelGen' = panelGen + 1
  /\ selected' = p
  /\ polls' = polls \cup {Panel(panelGen', "asked", p, processCursor(p))}
  /\ UNCHANGED <<daemonVars, panel, badgeGen, logs, cursors>>

\* Another panel takes the place of the process panel, or is closed.
togglePanel ==
  \/ /\ panel = "processes" /\ panelGen < MaxGen
     /\ panel' = "other" /\ panelGen' = panelGen + 1
     /\ UNCHANGED <<daemonVars, badgeGen, selected, logs, cursors, polls>>
  \/ /\ panel # "processes"
     /\ panel' = IF panel = "none" THEN "other" ELSE "none"
     /\ UNCHANGED <<daemonVars, panelGen, badgeGen, selected, logs, cursors, polls>>

Next ==
  \/ \E p \in Procs : \/ Start(p) \/ start(p) \/ write(p) \/ Exits(p)
                     \/ processKill(p) \/ killAll(p) \/ selectProcess(p)
  \/ \E p \in Procs \cup {0} : openProcessPanel(p)
  \/ \E r \in polls : \/ fetchProcessSnapshot(r) \/ applyProcessSnapshot(r)
                     \/ processPollTick(r) \/ applyBgProcessList(r)
  \/ StopBackgroundProcesses \/ Exit
  \/ closeProcessPanel \/ togglePanel

Spec == Init /\ [][Next]_backgroundVars

-----------------------------------------------------------------------------

\* The panel's copy of a process's output is one stretch of what the process
\* wrote, ending at the cursor, whatever was trimmed, reset, reread or came
\* late: nothing is missing inside it but the rest of a character a read had
\* split, and nothing is there twice (outputSince, applyProcessSnapshot).
CopyFaithful ==
  \A p \in Procs :
    LET log == logs[p]
    IN  /\ \A i \in 1..(Len(log) - 1) :
             /\ log[i] < log[i + 1]
             /\ \A k \in (log[i] + 1)..(log[i + 1] - 1) : k \in Inside
        /\ \A k \in (IF log = <<>> THEN cursors[p] + 1 ELSE log[Len(log)] + 1)..cursors[p] : k \in Inside
=============================================================================
