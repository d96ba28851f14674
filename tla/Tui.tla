-------------------------------- MODULE Tui --------------------------------
(***************************************************************************)
(* The chat screen of the terminal interface (internal/cli/app) over the   *)
(* daemon's HTTP API (internal/cli/daemonclient): one Update at a time,    *)
(* each command it returns running beside it, its result a message that    *)
(* arrives in any order.                                                   *)
(*                                                                         *)
(* A stream is one SSE connection, to the turn its POST started or the     *)
(* turn it attached to.  The daemon is the little of it a client can see:  *)
(* the turn that runs, and a rewind in progress.  A message is its role,   *)
(* the text the user typed (0: none) and whether the model's words were    *)
(* put into it.  What panels and pickers show is left out.                 *)
(***************************************************************************)
EXTENDS Naturals, Sequences

CONSTANTS
  MaxStreams,   \* streams ever asked for
  MaxTexts      \* texts ever typed

TuiAssumption == MaxStreams \in Nat /\ MaxTexts \in Nat

Streams == 1..MaxStreams

VARIABLES
  screen,        \* phase: splash, picker, creating, chat
  messages,      \* the transcript
  waiting,       \* a turn is in flight, as far as the screen knows
  activeStream,  \* the stream esc would close, or 0
  interrupting,  \* esc closed it; its last event is to be swallowed
  prompts,       \* question and approval, while they take the keys
  rewindArmed, rewindBusy,
  stage,         \* stage[s]: where a stream and its one reader are
  turnOf,        \* turnOf[s]: the turn a stream follows
  closed,        \* streams whose body was closed
  cmds,          \* other commands running, and results on their way
  texts,         \* how many texts were typed
  running,       \* the daemon: the turn of the session, or 0
  restoring      \* the daemon: a rewind is writing files

daemon == <<running, restoring>>
net == <<stage, turnOf, closed>>
rewind == <<rewindArmed, rewindBusy>>
tuiVars == <<screen, messages, waiting, activeStream, interrupting, prompts,
             rewind, net, cmds, texts, daemon>>

Typed(k) == [role |-> "user", text |-> k, model |-> FALSE, streaming |-> FALSE]
Placeholder == [role |-> "assistant", text |-> 0, model |-> FALSE, streaming |-> TRUE]

Cmd(what, k) == [what |-> what, text |-> k]
Unused == {s \in Streams : stage[s] = "unused"}
NextStream == CHOOSE s \in Unused : \A o \in Unused : s <= o

Init ==
  /\ screen = "splash"
  /\ messages = <<>> /\ waiting = FALSE /\ activeStream = 0 /\ interrupting = FALSE
  /\ prompts = {} /\ rewindArmed = FALSE /\ rewindBusy = FALSE
  /\ stage = [s \in Streams |-> "unused"] /\ turnOf = [s \in Streams |-> 0]
  /\ closed = {} /\ cmds = {} /\ texts = 0
  /\ running = 0 /\ restoring = FALSE

(***************************************************************************)
(* Before the chat: splash, session picker, and the commands chat opens    *)
(* with.  The history replaces the transcript whenever it arrives, and is  *)
(* followed by an attempt to attach to a turn that kept running.           *)
(***************************************************************************)
finishSplash ==
  /\ screen = "splash"
  /\ screen' \in {"picker", "chat"}
  /\ cmds' = IF screen' = "chat" THEN {Cmd("history", 0)} ELSE cmds
  /\ UNCHANGED <<messages, waiting, activeStream, interrupting, prompts, rewind, net, texts, daemon>>

handlePickerKey ==
  /\ screen = "picker"
  /\ \/ screen' = "chat" /\ cmds' = {Cmd("history", 0)}
     \/ screen' = "creating" /\ cmds' = {Cmd("create", 0)}
  /\ UNCHANGED <<messages, waiting, activeStream, interrupting, prompts, rewind, net, texts, daemon>>

SessionCreated ==
  /\ Cmd("create", 0) \in cmds
  /\ \/ screen' = "chat" /\ cmds' = {Cmd("history", 0)}
     \/ screen' = "picker" /\ cmds' = {}
  /\ UNCHANGED <<messages, waiting, activeStream, interrupting, prompts, rewind, net, texts, daemon>>

HistoryLoaded ==
  /\ Cmd("history", 0) \in cmds
  /\ \/ /\ cmds' = cmds \ {Cmd("history", 0)}
        /\ UNCHANGED <<messages, stage>>
     \/ /\ Unused # {}
        /\ messages' = <<>>
        /\ cmds' = cmds \ {Cmd("history", 0)}
        /\ stage' = [stage EXCEPT ![NextStream] = "attaching"]
  /\ UNCHANGED <<screen, waiting, activeStream, interrupting, prompts, rewind, turnOf, closed, texts, daemon>>

(***************************************************************************)
(* The two ways a stream opens: the daemon's side, then the message.  A    *)
(* turn runs at most once per session; a second POST is refused.           *)
(***************************************************************************)
SendMessageStream(s) ==
  /\ stage[s] = "posting"
  /\ \/ /\ running = 0
        /\ running' = s
        /\ turnOf' = [turnOf EXCEPT ![s] = s]
        /\ stage' = [stage EXCEPT ![s] = "started"]
     \/ /\ stage' = [stage EXCEPT ![s] = "refused"]
        /\ UNCHANGED <<running, turnOf>>
  /\ UNCHANGED <<screen, messages, waiting, activeStream, interrupting, prompts, rewind, closed, cmds, texts, restoring>>

AttachTurn(s) ==
  /\ stage[s] = "attaching"
  /\ \/ /\ running # 0
        /\ turnOf' = [turnOf EXCEPT ![s] = running]
        /\ stage' = [stage EXCEPT ![s] = "attached"]
     \/ /\ stage' = [stage EXCEPT ![s] = "over"]
        /\ UNCHANGED turnOf
  /\ UNCHANGED <<screen, messages, waiting, activeStream, interrupting, prompts, rewind, closed, cmds, texts, daemon>>

dropStreamingPlaceholder ==
  IF messages # <<>> /\ messages[Len(messages)].streaming
  THEN SubSeq(messages, 1, Len(messages) - 1) ELSE messages

StreamStart(s) ==
  /\ \/ /\ stage[s] = "started"
        /\ stage' = [stage EXCEPT ![s] = "reading"]
        /\ activeStream' = s
        /\ UNCHANGED <<messages, waiting>>
     \/ /\ stage[s] = "refused"
        /\ stage' = [stage EXCEPT ![s] = "over"]
        /\ waiting' = FALSE
        /\ messages' = dropStreamingPlaceholder
        /\ UNCHANGED activeStream
  /\ UNCHANGED <<screen, interrupting, prompts, rewind, turnOf, closed, cmds, texts, daemon>>

TurnAttached(s) ==
  /\ stage[s] = "attached"
  /\ stage' = [stage EXCEPT ![s] = "reading"]
  /\ waiting' = TRUE
  /\ interrupting' = FALSE
  /\ activeStream' = s
  /\ messages' = Append(messages, Placeholder)
  /\ UNCHANGED <<screen, prompts, rewind, turnOf, closed, cmds, texts, daemon>>

(***************************************************************************)
(* The keys of the chat.  A question takes them before an approval.        *)
(***************************************************************************)
submit ==
  /\ screen = "chat" /\ prompts = {}
  /\ texts < MaxTexts
  /\ texts' = texts + 1
  /\ \/ /\ waiting
        /\ messages' = Append(messages, Typed(texts'))
        /\ cmds' = cmds \cup {Cmd("steer", texts')}
        /\ UNCHANGED <<waiting, activeStream, interrupting, stage>>
     \/ /\ ~waiting
        /\ Unused # {}
        /\ messages' = messages \o <<Typed(texts'), Placeholder>>
        /\ waiting' = TRUE
        /\ interrupting' = FALSE
        /\ activeStream' = 0
        /\ stage' = [stage EXCEPT ![NextStream] = "posting"]
        /\ UNCHANGED cmds
  /\ UNCHANGED <<screen, prompts, rewind, turnOf, closed, daemon>>

InterruptKey ==
  /\ screen = "chat" /\ prompts = {} /\ ~rewindArmed
  /\ waiting /\ activeStream # 0
  /\ interrupting' = TRUE
  /\ closed' = closed \cup {activeStream}
  /\ activeStream' = 0
  /\ waiting' = FALSE
  /\ cmds' = cmds \cup {Cmd("interrupt", 0)}
  /\ messages' = IF messages = <<>> THEN messages
                 ELSE [messages EXCEPT ![Len(messages)].streaming = FALSE]
  /\ UNCHANGED <<screen, prompts, rewind, stage, turnOf, texts, daemon>>

handleQuestionKey ==
  /\ "question" \in prompts
  /\ prompts' = prompts \ {"question"}
  /\ UNCHANGED <<screen, messages, waiting, activeStream, interrupting, rewind, net, cmds, texts, daemon>>

handleApprovalKey ==
  /\ prompts = {"approval"}
  /\ prompts' = {}
  /\ UNCHANGED <<screen, messages, waiting, activeStream, interrupting, rewind, net, cmds, texts, daemon>>

(***************************************************************************)
(* Steering and interrupting: what the daemon does, and what a refusal     *)
(* takes back on the screen.                                               *)
(***************************************************************************)
Steer(k) ==
  /\ Cmd("steer", k) \in cmds
  /\ cmds' = (cmds \ {Cmd("steer", k)}) \cup (IF running # 0 THEN {} ELSE {Cmd("lost", k)})
  /\ UNCHANGED <<screen, messages, waiting, activeStream, interrupting, prompts, rewind, net, texts, daemon>>

SteerLost(k) ==
  /\ Cmd("lost", k) \in cmds
  /\ cmds' = cmds \ {Cmd("lost", k)}
  /\ messages' = SelectSeq(messages, LAMBDA m : m.text # k \/ m.model)
  /\ UNCHANGED <<screen, waiting, activeStream, interrupting, prompts, rewind, net, texts, daemon>>

\* The turn that runs when the POST arrives is cancelled, and ends in its time.
Interrupt ==
  /\ Cmd("interrupt", 0) \in cmds
  /\ cmds' = cmds \ {Cmd("interrupt", 0)}
  /\ UNCHANGED <<screen, messages, waiting, activeStream, interrupting, prompts, rewind, net, texts, daemon>>

TurnEnds ==
  /\ running # 0
  /\ running' = 0
  /\ UNCHANGED <<screen, messages, waiting, activeStream, interrupting, prompts, rewind, net, cmds, texts, restoring>>

(***************************************************************************)
(* One read of a stream, and the event it brings: of a running turn any    *)
(* but the last; then the last, or the bare end; a broken connection at    *)
(* any time, and always once the body is closed.                           *)
(***************************************************************************)
Progress == {"delta", "question", "approval"}
Last == {"done", "error", "eof"}

Events(s) ==
  IF s \in closed THEN {"broken"}
  ELSE {"broken"} \cup IF running = turnOf[s] THEN Progress ELSE Last

MessageStreamNext(s) ==
  /\ stage[s] = "reading"
  /\ \E e \in Events(s) : stage' = [stage EXCEPT ![s] = e]
  /\ UNCHANGED <<screen, messages, waiting, activeStream, interrupting, prompts, rewind, turnOf, closed, cmds, texts, daemon>>

(***************************************************************************)
(* handleStreamEvent, whichever stream the event is of: it writes into the *)
(* last message of the transcript.                                         *)
(***************************************************************************)
OnLast(settled) ==
  IF messages = <<>> THEN messages
  ELSE [messages EXCEPT ![Len(messages)].model = TRUE,
                        ![Len(messages)].streaming = @ /\ ~settled]

finishStreamingPlaceholder ==
  IF messages = <<>> THEN messages
  ELSE [messages EXCEPT ![Len(messages)].streaming = FALSE]

\* Nobody reads the stream again.
Forget(s) ==
  /\ stage' = [stage EXCEPT ![s] = "over"]
  /\ turnOf' = [turnOf EXCEPT ![s] = 0]
  /\ closed' = closed \ {s}

Swallowed(s) ==
  /\ interrupting
  /\ stage[s] \in Progress \cup Last \cup {"broken"}
  /\ interrupting' = FALSE
  /\ Forget(s)
  /\ UNCHANGED <<screen, messages, waiting, activeStream, prompts, rewind, cmds, texts, daemon>>

Progressed(s) ==
  /\ ~interrupting
  /\ stage[s] \in Progress
  /\ messages' = IF stage[s] = "delta" THEN OnLast(FALSE) ELSE messages
  /\ prompts' = prompts \cup ({stage[s]} \cap {"question", "approval"})
  /\ stage' = [stage EXCEPT ![s] = "reading"]
  /\ UNCHANGED <<screen, waiting, activeStream, interrupting, rewind, turnOf, closed, cmds, texts, daemon>>

\* Slip: a stream that ends without a terminal event leaves the screen waiting.
FinishedByEvent(s) ==
  /\ ~interrupting
  /\ stage[s] \in Last \cup {"broken"}
  /\ waiting' = (waiting /\ stage[s] = "eof")
  /\ messages' = finishStreamingPlaceholder
  /\ activeStream' = 0
  /\ Forget(s)
  /\ UNCHANGED <<screen, interrupting, prompts, rewind, cmds, texts, daemon>>

Finished(s) ==
  /\ ~interrupting
  /\ stage[s] \in Last \cup {"broken"}
  /\ waiting' = FALSE
  /\ messages' = IF stage[s] = "done" THEN OnLast(TRUE) ELSE finishStreamingPlaceholder
  /\ activeStream' = IF stage[s] \in {"done", "broken"} THEN 0 ELSE activeStream
  /\ Forget(s)
  /\ UNCHANGED <<screen, interrupting, prompts, rewind, cmds, texts, daemon>>

handleStreamEvent(s) == Swallowed(s) \/ Progressed(s) \/ Finished(s)

(***************************************************************************)
(* ctrl+g twice: the first press fetches the checkpoint and arms it until  *)
(* its notice runs out, the second restores it.                            *)
(***************************************************************************)
handleRewindKey ==
  /\ screen = "chat" /\ prompts = {}
  /\ ~rewindBusy /\ ~waiting
  /\ rewindArmed' = FALSE
  /\ rewindBusy' = TRUE
  /\ cmds' = cmds \cup {Cmd(IF rewindArmed THEN "rewind" ELSE "info", 0)}
  /\ UNCHANGED <<screen, messages, waiting, activeStream, interrupting, prompts, net, texts, daemon>>

handleRewindInfo ==
  /\ Cmd("info", 0) \in cmds
  /\ cmds' = cmds \ {Cmd("info", 0)}
  /\ rewindBusy' = FALSE
  /\ rewindArmed' \in {rewindArmed, TRUE}
  /\ UNCHANGED <<screen, messages, waiting, activeStream, interrupting, prompts, net, texts, daemon>>

\* Esc, or the notice's timeout.
Disarm ==
  /\ rewindArmed
  /\ rewindArmed' = FALSE
  /\ UNCHANGED <<screen, messages, waiting, activeStream, interrupting, prompts, rewindBusy, net, cmds, texts, daemon>>

\* The daemon restores files, whatever runs; a refusal restores nothing.
Rewind ==
  /\ Cmd("rewind", 0) \in cmds
  /\ cmds' = (cmds \ {Cmd("rewind", 0)}) \cup {Cmd("rewound", 0)}
  /\ restoring' \in BOOLEAN
  /\ UNCHANGED <<screen, messages, waiting, activeStream, interrupting, prompts, rewind, net, texts, running>>

handleRewindDone ==
  /\ Cmd("rewound", 0) \in cmds
  /\ cmds' = cmds \ {Cmd("rewound", 0)}
  /\ rewindBusy' = FALSE
  /\ restoring' = FALSE
  /\ UNCHANGED <<screen, messages, waiting, activeStream, interrupting, prompts, rewindArmed, net, texts, running>>

\* The keys of the chat screen.
handleKey ==
  \/ submit \/ InterruptKey
  \/ handleQuestionKey \/ handleApprovalKey
  \/ handleRewindKey \/ Disarm

\* The messages commands and the ticker leave.
Update ==
  \/ finishSplash \/ SessionCreated \/ HistoryLoaded
  \/ \E k \in 1..MaxTexts : SteerLost(k)
  \/ \E s \in Streams : StreamStart(s) \/ TurnAttached(s) \/ handleStreamEvent(s)
  \/ handleRewindInfo \/ handleRewindDone

\* The commands that run beside Update, and the daemon.
Commands ==
  \/ \E s \in Streams : SendMessageStream(s) \/ AttachTurn(s) \/ MessageStreamNext(s)
  \/ \E k \in 1..MaxTexts : Steer(k)
  \/ Interrupt \/ Rewind \/ TurnEnds

Next == handlePickerKey \/ handleKey \/ Update \/ Commands

Spec == Init /\ [][Next]_tuiVars

-----------------------------------------------------------------------------

Opening == {"posting", "started", "refused"}
Open == {"reading", "broken"} \cup Progress \cup Last

\* While the screen waits for a turn, some stream is being opened or read that
\* will say it ended, however esc, a new message, a late event of the stream
\* before and an attach interleave (submit, Update, handleStreamEvent).
WaitingIsServed ==
  waiting => \E s \in Streams : stage[s] \in Opening \cup Open
=============================================================================
