------------------------------- MODULE Turns -------------------------------
(***************************************************************************)
(* The daemon's turn lifecycle (internal/daemon/server/turns.go and the    *)
(* handlers of server.go that use it).  A turn is one agent run decoupled  *)
(* from any HTTP request: it publishes frames into a bounded replay        *)
(* buffer, any number of subscribers attach and detach while it runs, and  *)
(* a user may steer or interrupt it.                                       *)
(*                                                                         *)
(* Actors, each a set of actions: HTTP requests that post a message or     *)
(* attach (Conns), the goroutine of each turn (Turns), steering requests   *)
(* (Steers), the retirement timer, and the clients that vanish.  An action *)
(* is one critical section of turn.mu, turnRegistry.mu or Service.steerMu. *)
(*                                                                         *)
(* Abstraction: a frame is its kind and its position in the turn's log.    *)
(* log[t] keeps every frame ever published; the code's `frames` are the    *)
(* suffix after base[t].  The agent run is reduced to what moves the turn: *)
(* it drains steering at the loop head and after an answer, emits frames   *)
(* while a model call or a tool batch runs, and ends in a result or an     *)
(* error after at most MaxCalls rounds.                                    *)
(***************************************************************************)
EXTENDS Naturals, Sequences, FiniteSets, Lists

CONSTANTS Sessions, Turns, Conns, Steers,
          None,
          FrameSize,    \* bytes of a frame, by kind
          ReplayCap,    \* turnReplayCapBytes
          SubBuffer,    \* turnSubscriberBuffer
          MaxCalls,     \* MaxTurns * MaxSegmentsPerRun
          MaxFrames     \* bound: a run emits no delta beyond this many frames

Kinds == {"delta", "notice", "steered", "done", "error"}
Terminal == {"done", "error"}

ASSUME NoneAssumption == None \notin Turns \cup Sessions
ASSUME SizeAssumption == FrameSize \in [Kinds -> Nat \ {0}]
ASSUME BoundAssumption == {ReplayCap, SubBuffer, MaxCalls, MaxFrames} \subseteq Nat

VARIABLES
  \* turnRegistry and the turns
  reg,        \* session -> the turn registered for it, or None
  sess,       \* turn -> its session, None before it starts
  pc,         \* turn -> where its goroutine is
  calls,      \* turn -> loop rounds begun
  cancelled,  \* turn -> its run context is cancelled
  log,        \* turn -> kinds of all frames published
  base,       \* turn -> how many of them the replay cap discarded
  done,       \* turn -> turn.done
  subs,       \* turn -> subscribed connections
  \* one HTTP request each
  req,        \* conn -> stage of its handler
  on,         \* conn -> the turn it streams
  alive,      \* conn -> its client still reads
  replay,     \* conn -> replay frames still to write (0 is the trimmed notice)
  live,       \* conn -> its buffered channel
  closes,     \* conn -> times the channel was closed (a second one panics)
  from,       \* conn -> base of its turn when it subscribed
  got,        \* conn -> frames its client received, in order
  missed,     \* conn -> frames dropped because its channel was full
  \* steering
  steer,      \* steering request -> stage of its handler
  aim,        \* steering request -> the turn it found running
  queue,      \* session -> Service.steering
  history,    \* session -> steering messages persisted
  arrived,    \* session -> steering messages ever queued, in order
  lost        \* steering messages a failed write left behind

turnVars  == <<reg, sess, pc, calls, cancelled>>
frameVars == <<log, base, live, missed>>
connVars  == <<req, on, alive, replay, from, got>>
steerVars == <<steer, aim, queue, history, arrived, lost>>
vars == <<turnVars, frameVars, done, subs, closes, connVars, steerVars>>

----------------------------------------------------------------------------
\* Bytes retained when the first b frames of the log l are gone.
Bytes(l, b) ==
  LET sum[i \in b..Len(l)] == IF i = b THEN 0 ELSE sum[i - 1] + FrameSize[l[i]]
  IN  sum[Len(l)]

\* turn.publish: discard the oldest frames while over the cap, always
\* keeping the newest one.
Fits(l, b) == Bytes(l, b) <= ReplayCap \/ b >= Len(l) - 1
Trim(l, b) == CHOOSE k \in b..Len(l) :
                /\ Fits(l, k)
                /\ \A j \in b..Len(l) : Fits(l, j) => k <= j

\* turn.publish: no effect once done; a full subscriber channel drops the
\* frame and never blocks the run.
HasRoom(c) == Len(live[c]) < SubBuffer
Publish(t, kind) ==
  IF done[t] THEN UNCHANGED frameVars
  ELSE LET l == Append(log[t], kind) IN
       /\ log'  = [log EXCEPT ![t] = l]
       /\ base' = [base EXCEPT ![t] = Trim(l, @)]
       /\ live' = [c \in Conns |-> IF c \in subs[t] /\ HasRoom(c)
                                   THEN Append(live[c], Len(l)) ELSE live[c]]
       /\ missed' = [c \in Conns |-> IF c \in subs[t] /\ ~HasRoom(c)
                                     THEN missed[c] \cup {Len(l)} ELSE missed[c]]

Running(s) == reg[s] # None /\ ~done[reg[s]]

----------------------------------------------------------------------------
\* Slip: start does not look for a running turn.
PostUnchecked(c, s, t) ==
  /\ req[c] = "new" /\ pc[t] = "unborn"
  /\ reg'  = [reg EXCEPT ![s] = t]
  /\ sess' = [sess EXCEPT ![t] = s]
  /\ pc'   = [pc EXCEPT ![t] = "boundary"]
  /\ req'  = [req EXCEPT ![c] = "opening"]
  /\ on'   = [on EXCEPT ![c] = t]
  /\ UNCHANGED <<calls, cancelled, frameVars, done, subs, closes,
                 alive, replay, from, got, steerVars>>

\* handleSendMessage: turnRegistry.start refuses while a turn runs (409).
\* A finished turn awaiting retirement is replaced.
Post(c, s, t) ==
  /\ req[c] = "new" /\ pc[t] = "unborn" /\ ~Running(s)
  /\ reg'  = [reg EXCEPT ![s] = t]
  /\ sess' = [sess EXCEPT ![t] = s]
  /\ pc'   = [pc EXCEPT ![t] = "boundary"]
  /\ req'  = [req EXCEPT ![c] = "opening"]
  /\ on'   = [on EXCEPT ![c] = t]
  /\ UNCHANGED <<calls, cancelled, frameVars, done, subs, closes,
                 alive, replay, from, got, steerVars>>

\* handleAttachTurn: 404 when nothing is registered.
Attach(c, s) ==
  /\ req[c] = "new" /\ reg[s] # None
  /\ req' = [req EXCEPT ![c] = "opening"]
  /\ on'  = [on EXCEPT ![c] = reg[s]]
  /\ UNCHANGED <<turnVars, frameVars, done, subs, closes,
                 alive, replay, from, got, steerVars>>

\* The 409 of a post and the 404 of an attach.
Refused(c, s) ==
  /\ req[c] = "new" /\ (Running(s) \/ reg[s] = None)
  /\ req' = [req EXCEPT ![c] = "refused"]
  /\ UNCHANGED <<turnVars, frameVars, done, subs, closes,
                 on, alive, replay, from, got, steerVars>>

\* Slip: the replay is numbered as if nothing had been trimmed.
SubscribeUntrimmed(c) ==
  LET t == on[c] IN
  /\ req[c] = "opening"
  /\ req'  = [req EXCEPT ![c] = "streaming"]
  /\ from' = [from EXCEPT ![c] = base[t]]
  /\ replay' = [replay EXCEPT ![c] = (IF base[t] > 0 THEN <<0>> ELSE <<>>)
                                     \o [i \in 1..(Len(log[t]) - base[t]) |-> i]]
  /\ subs' = [subs EXCEPT ![t] = IF done[t] THEN @ ELSE @ \cup {c}]
  /\ UNCHANGED <<turnVars, frameVars, done, closes, on, alive, got, steerVars>>

\* turn.subscribe: one critical section copies the replay and, unless the
\* turn is done, registers a channel.
Subscribe(c) ==
  LET t == on[c]
      n == Len(log[t]) - base[t]
  IN /\ req[c] = "opening"
     /\ req'  = [req EXCEPT ![c] = "streaming"]
     /\ from' = [from EXCEPT ![c] = base[t]]
     /\ replay' = [replay EXCEPT ![c] = (IF base[t] > 0 THEN <<0>> ELSE <<>>)
                                        \o [i \in 1..n |-> base[t] + i]]
     /\ subs' = [subs EXCEPT ![t] = IF done[t] THEN @ ELSE @ \cup {c}]
     /\ UNCHANGED <<turnVars, frameVars, done, closes, on, alive, got, steerVars>>

\* Writing to a client that is gone reaches nobody.
Deliver(c, i) == got' = IF alive[c] THEN [got EXCEPT ![c] = Append(@, i)] ELSE got

WriteReplay(c) ==
  /\ req[c] = "streaming" /\ replay[c] # <<>>
  /\ Deliver(c, Head(replay[c]))
  /\ replay' = [replay EXCEPT ![c] = Tail(@)]
  /\ UNCHANGED <<turnVars, frameVars, done, subs, closes, req, on, alive, from, steerVars>>

WriteLive(c) ==
  /\ req[c] = "streaming" /\ replay[c] = <<>> /\ live[c] # <<>>
  /\ Deliver(c, Head(live[c]))
  /\ live' = [live EXCEPT ![c] = Tail(@)]
  /\ UNCHANGED <<turnVars, log, base, missed, done, subs, closes,
                 req, on, alive, replay, from, steerVars>>

\* Slip: the deferred unsubscribe closes a channel finish has closed.
UnsubscribeTwice(c) ==
  LET t == on[c] IN
  /\ subs'   = [subs EXCEPT ![t] = @ \ {c}]
  /\ closes' = IF c \in subs[t] \/ closes[c] > 0
               THEN [closes EXCEPT ![c] = @ + 1] ELSE closes

\* The deferred unsubscribe: closes the channel only if finish has not.
Unsubscribe(c) ==
  LET t == on[c] IN
  /\ subs'   = [subs EXCEPT ![t] = @ \ {c}]
  /\ closes' = IF c \in subs[t] THEN [closes EXCEPT ![c] = @ + 1] ELSE closes

\* Slip: a closed channel is not drained first.
WriteDoneUndrained(c) ==
  /\ req[c] = "streaming" /\ replay[c] = <<>>
  /\ c \notin subs[on[c]]
  /\ req' = [req EXCEPT ![c] = "complete"]
  /\ Unsubscribe(c)
  /\ UNCHANGED <<turnVars, frameVars, done, on, alive, replay, from, got, steerVars>>

\* [DONE]: the replay of a finished turn is written, or the channel is
\* drained and closed.
WriteDone(c) ==
  /\ req[c] = "streaming" /\ replay[c] = <<>> /\ live[c] = <<>>
  /\ c \notin subs[on[c]]
  /\ req' = [req EXCEPT ![c] = "complete"]
  /\ Unsubscribe(c)
  /\ UNCHANGED <<turnVars, frameVars, done, on, alive, replay, from, got, steerVars>>

\* The request context ends at any time; the handler notices only in its
\* select, which a finished turn's handler never reaches.
ClientGone(c) ==
  /\ req[c] \in {"opening", "streaming"} /\ alive[c]
  /\ alive' = [alive EXCEPT ![c] = FALSE]
  /\ got' = [got EXCEPT ![c] = <<>>]  \* the record of a lost client is dropped
  /\ UNCHANGED <<turnVars, frameVars, done, subs, closes, req, on, replay, from, steerVars>>

HasChannel(c) == c \in subs[on[c]] \/ closes[c] > 0
Leave(c) ==
  /\ req[c] = "streaming" /\ ~alive[c] /\ replay[c] = <<>> /\ HasChannel(c)
  /\ req' = [req EXCEPT ![c] = "left"]
  /\ Unsubscribe(c)
  /\ UNCHANGED <<turnVars, frameVars, done, on, alive, replay, from, got, steerVars>>

----------------------------------------------------------------------------
\* handleSteer: the check, the queueing and the frame are three steps.
SteerCheck(m, s) ==
  /\ steer[m] = "new"
  /\ steer' = [steer EXCEPT ![m] = IF Running(s) THEN "checked" ELSE "refused"]
  /\ aim'   = [aim EXCEPT ![m] = IF Running(s) THEN reg[s] ELSE None]
  /\ UNCHANGED <<turnVars, frameVars, done, subs, closes, connVars,
                 queue, history, arrived, lost>>

\* Service.QueueSteering
QueueSteering(m) ==
  LET s == sess[aim[m]] IN
  /\ steer[m] = "checked"
  /\ steer'   = [steer EXCEPT ![m] = "queued"]
  /\ queue'   = [queue EXCEPT ![s] = Append(@, m)]
  /\ arrived' = [arrived EXCEPT ![s] = Append(@, m)]
  /\ UNCHANGED <<turnVars, frameVars, done, subs, closes, connVars, aim, history, lost>>

SteerPublish(m) ==
  /\ steer[m] = "queued"
  /\ steer' = [steer EXCEPT ![m] = "accepted"]
  /\ Publish(aim[m], "steered")
  /\ UNCHANGED <<turnVars, done, subs, closes, connVars, aim, queue, history, arrived, lost>>

\* handleInterrupt
Interrupt(s) ==
  /\ Running(s)
  /\ cancelled' = [cancelled EXCEPT ![reg[s]] = TRUE]
  /\ UNCHANGED <<reg, sess, pc, calls, frameVars, done, subs, closes, connVars, steerVars>>

----------------------------------------------------------------------------
\* Slip: the drained queue is not emptied.
DrainKeeps(t, next) ==
  LET s == sess[t] IN
  /\ history' = [history EXCEPT ![s] = @ \o queue[s]]
  /\ pc'      = [pc EXCEPT ![t] = next]
  /\ IF queue[s] = <<>> THEN UNCHANGED frameVars ELSE Publish(t, "notice")
  /\ UNCHANGED <<queue, lost>>

\* Service.drainSteering: the queue is taken first and persisted message by
\* message, so a failed write loses the rest of what was taken.  (The store
\* writes and the notice are one step with it: no other step reads them.)
DrainTo(t, next) ==
  LET s == sess[t] IN
  /\ queue'   = [queue EXCEPT ![s] = <<>>]
  /\ history' = [history EXCEPT ![s] = @ \o queue[s]]
  /\ pc'      = [pc EXCEPT ![t] = next]
  /\ IF queue[s] = <<>> THEN UNCHANGED frameVars ELSE Publish(t, "notice")
  /\ UNCHANGED lost

DrainFails(t) ==
  LET s == sess[t] IN
  \E n \in 0..(Len(queue[s]) - 1) :
     /\ queue[s] # <<>>
     /\ queue'   = [queue EXCEPT ![s] = <<>>]
     /\ history' = [history EXCEPT ![s] = @ \o SubSeq(queue[s], 1, n)]
     /\ lost'    = lost \cup {queue[s][i] : i \in (n + 1)..Len(queue[s])}
     /\ pc'      = [pc EXCEPT ![t] = "failing"]
     /\ UNCHANGED frameVars

runUnchanged == <<reg, sess, cancelled, done, subs, closes, connVars, steer, aim, arrived>>

\* Slips: the round budget is one too large; a round is not counted.
RoundTooMany(t) ==
  /\ pc[t] = "boundary" /\ calls[t] <= MaxCalls
  /\ calls' = [calls EXCEPT ![t] = @ + 1]
  /\ DrainTo(t, "calling") \/ DrainFails(t)
  /\ UNCHANGED runUnchanged
RoundUncounted(t) ==
  /\ pc[t] = "boundary" /\ calls[t] < MaxCalls
  /\ DrainTo(t, "calling") \/ DrainFails(t)
  /\ UNCHANGED <<calls, runUnchanged>>

\* runLoop, head of a round: drain, then call the model.
Round(t) ==
  /\ pc[t] = "boundary" /\ calls[t] < MaxCalls
  /\ calls' = [calls EXCEPT ![t] = @ + 1]
  /\ DrainTo(t, "calling") \/ DrainFails(t)
  /\ UNCHANGED runUnchanged

\* A delta, tool, approval or heartbeat frame while the round runs.
Emit(t) ==
  /\ pc[t] = "calling" /\ Len(log[t]) < MaxFrames
  /\ Publish(t, "delta")
  /\ UNCHANGED <<turnVars, done, subs, closes, connVars, steerVars>>

\* A tool batch, an empty-answer retry, a verification nudge or a compaction.
Continue(t) ==
  /\ pc[t] = "calling"
  /\ pc' = [pc EXCEPT ![t] = "boundary"]
  /\ UNCHANGED <<reg, sess, calls, cancelled, frameVars, done, subs, closes, connVars, steerVars>>

\* A final answer is persisted; steering queued meanwhile keeps the turn going.
Answer(t) ==
  /\ pc[t] = "calling"
  /\ DrainTo(t, IF queue[sess[t]] = <<>> THEN "answered" ELSE "boundary") \/ DrainFails(t)
  /\ UNCHANGED <<calls, runUnchanged>>

\* The stagnation stop returns a result without draining; a model, store or
\* compaction failure and an exhausted budget return an error.
Stop(t, next) ==
  /\ pc' = [pc EXCEPT ![t] = next]
  /\ UNCHANGED <<reg, sess, calls, cancelled, frameVars, done, subs, closes, connVars, steerVars>>
StagnationStop(t) == pc[t] = "calling" /\ Stop(t, "answered")
RunFails(t) == pc[t] \in {"boundary", "calling"} /\ Stop(t, "failing")

\* The goroutine cancels its own context once the run returned, and finishes
\* the turn: turn.finish publishes in one critical section and closes in
\* another.
PublishTerminal(t) ==
  /\ pc[t] \in {"answered", "failing"}
  /\ Publish(t, IF pc[t] = "answered" THEN "done" ELSE "error")
  /\ pc' = [pc EXCEPT ![t] = "closing"]
  /\ cancelled' = [cancelled EXCEPT ![t] = TRUE]
  /\ UNCHANGED <<reg, sess, calls, done, subs, closes, connVars, steerVars>>

\* Slip: finish marks the turn done and forgets its subscribers.
CloseNobody(t) ==
  /\ pc[t] = "closing"
  /\ done' = [done EXCEPT ![t] = TRUE]
  /\ pc'   = [pc EXCEPT ![t] = "finished"]
  /\ UNCHANGED <<reg, sess, calls, cancelled, frameVars, subs, closes, connVars, steerVars>>

CloseSubs(t) ==
  /\ pc[t] = "closing"
  /\ done'   = [done EXCEPT ![t] = TRUE]
  /\ closes' = [c \in Conns |-> closes[c] + (IF c \in subs[t] THEN 1 ELSE 0)]
  /\ subs'   = [subs EXCEPT ![t] = {}]
  /\ pc'     = [pc EXCEPT ![t] = "finished"]
  /\ UNCHANGED <<reg, sess, calls, cancelled, frameVars, connVars, steerVars>>

\* Slip: the timer removes whatever turn is registered.
RetireAnyTurn(t) ==
  /\ pc[t] = "finished"
  /\ reg' = [reg EXCEPT ![sess[t]] = None]
  /\ pc'  = [pc EXCEPT ![t] = "retired"]
  /\ UNCHANGED <<sess, calls, cancelled, frameVars, done, subs, closes, connVars, steerVars>>

\* turnRegistry.retire: the timer removes only its own turn.
Retire(t) ==
  /\ pc[t] = "finished"
  /\ reg' = [reg EXCEPT ![sess[t]] = IF @ = t THEN None ELSE @]
  /\ pc'  = [pc EXCEPT ![t] = "retired"]
  /\ UNCHANGED <<sess, calls, cancelled, frameVars, done, subs, closes, connVars, steerVars>>

----------------------------------------------------------------------------
Init ==
  /\ reg = [s \in Sessions |-> None]
  /\ sess = [t \in Turns |-> None]
  /\ pc = [t \in Turns |-> "unborn"]
  /\ calls = [t \in Turns |-> 0]
  /\ cancelled = [t \in Turns |-> FALSE]
  /\ log = [t \in Turns |-> <<>>]
  /\ base = [t \in Turns |-> 0]
  /\ done = [t \in Turns |-> FALSE]
  /\ subs = [t \in Turns |-> {}]
  /\ req = [c \in Conns |-> "new"]
  /\ on = [c \in Conns |-> None]
  /\ alive = [c \in Conns |-> TRUE]
  /\ replay = [c \in Conns |-> <<>>]
  /\ live = [c \in Conns |-> <<>>]
  /\ closes = [c \in Conns |-> 0]
  /\ from = [c \in Conns |-> 0]
  /\ got = [c \in Conns |-> <<>>]
  /\ missed = [c \in Conns |-> {}]
  /\ steer = [m \in Steers |-> "new"]
  /\ aim = [m \in Steers |-> None]
  /\ queue = [s \in Sessions |-> <<>>]
  /\ history = [s \in Sessions |-> <<>>]
  /\ arrived = [s \in Sessions |-> <<>>]
  /\ lost = {}

ConnStep(c) == Subscribe(c) \/ WriteReplay(c) \/ WriteLive(c) \/ WriteDone(c) \/ Leave(c)
RunStep(t)  == Round(t) \/ Continue(t) \/ Answer(t) \/ StagnationStop(t) \/ RunFails(t)
EndStep(t)  == PublishTerminal(t) \/ CloseSubs(t) \/ Retire(t)

Next ==
  \/ \E c \in Conns : ConnStep(c) \/ ClientGone(c)
  \/ \E c \in Conns, s \in Sessions : Attach(c, s) \/ Refused(c, s)
  \/ \E c \in Conns, s \in Sessions, t \in Turns : Post(c, s, t)
  \/ \E m \in Steers, s \in Sessions : SteerCheck(m, s)
  \/ \E m \in Steers : QueueSteering(m) \/ SteerPublish(m)
  \/ \E s \in Sessions : Interrupt(s)
  \/ \E t \in Turns : RunStep(t) \/ Emit(t) \/ EndStep(t)

Spec == Init /\ [][Next]_vars

(***************************************************************************)
(* Fairness.  The goroutine of a turn is scheduled whenever it is not      *)
(* waiting for a model or a tool; a call that is waiting is only known to  *)
(* return once the run context is cancelled (nothing bounds an attached    *)
(* provider that keeps sending).  A handler is scheduled and its client    *)
(* reads or goes away.  Nothing is assumed of posts, steering or clients.  *)
(***************************************************************************)
Fairness ==
  /\ \A t \in Turns : /\ WF_vars(pc[t] = "boundary" /\ RunStep(t))
                      /\ WF_vars(cancelled[t] /\ RunStep(t))
                      /\ WF_vars(EndStep(t))
  /\ \A c \in Conns : WF_vars(ConnStep(c))
FairSpec == Spec /\ Fairness

----------------------------------------------------------------------------
SeqSet(s) == {s[i] : i \in DOMAIN s}

TypeOK ==
  /\ reg \in [Sessions -> Turns \cup {None}]
  /\ sess \in [Turns -> Sessions \cup {None}]
  /\ pc \in [Turns -> {"unborn", "boundary", "calling", "answered", "failing",
                       "closing", "finished", "retired"}]
  /\ calls \in [Turns -> 0..MaxCalls]
  /\ cancelled \in [Turns -> BOOLEAN]
  /\ log \in [Turns -> Seq(Kinds)]
  /\ base \in [Turns -> Nat]
  /\ done \in [Turns -> BOOLEAN]
  /\ subs \in [Turns -> SUBSET Conns]
  /\ req \in [Conns -> {"new", "refused", "opening", "streaming", "complete", "left"}]
  /\ on \in [Conns -> Turns \cup {None}]
  /\ alive \in [Conns -> BOOLEAN]
  /\ replay \in [Conns -> Seq(Nat)]
  /\ live \in [Conns -> Seq(Nat)]
  /\ closes \in [Conns -> Nat]
  /\ from \in [Conns -> Nat]
  /\ got \in [Conns -> Seq(Nat)]
  /\ missed \in [Conns -> SUBSET Nat]
  /\ steer \in [Steers -> {"new", "refused", "checked", "queued", "accepted"}]
  /\ aim \in [Steers -> Turns \cup {None}]
  /\ queue \in [Sessions -> Seq(Steers)]
  /\ history \in [Sessions -> Seq(Steers)]
  /\ arrived \in [Sessions -> Seq(Steers)]
  /\ lost \in SUBSET Steers

----------------------------------------------------------------------------
\* A turn that started and is not done is the one its session's requests
\* find: attach, steer, interrupt and the 409 of a second post all reach it.
\* (turnRegistry.start and retire: a late timer of an earlier turn must not
\* unregister the turn that replaced it.)
ActiveReachable ==
  \A t \in Turns : pc[t] # "unborn" /\ ~done[t] => reg[sess[t]] = t

\* What a connected client has been sent, is being sent, or has waiting.
Stream(c) == got[c] \o replay[c] \o live[c]

\* Every frame the turn held or published since a client subscribed reaches
\* it once, in order, or was dropped because its channel was full; the
\* trimmed notice comes first and only when frames were trimmed.  (subscribe
\* copies the replay and registers the channel in one critical section, and
\* publish appends and fans out in one.)
ExactlyOnceInOrder ==
  \A c \in Conns : req[c] \in {"streaming", "complete"} /\ alive[c] =>
    LET sent == Stream(c) IN
    /\ \A i, j \in DOMAIN sent : i < j => sent[i] < sent[j]
    /\ SeqSet(sent) \cap missed[c] = {}
    /\ SeqSet(sent) \cup missed[c] =
         (from[c] + 1)..Len(log[on[c]]) \cup (IF from[c] > 0 THEN {0} ELSE {})

\* A subscriber channel is closed at most once, and nothing is sent on a
\* closed one: both would panic the daemon.  (finish and the deferred
\* unsubscribe both close channels.)
ClosedOnce ==
  \A c \in Conns : closes[c] <= 1 /\ \A t \in Turns : c \in subs[t] => closes[c] = 0

HasTerminal(c) == \E i \in SeqSet(got[c]) \ {0} : log[on[c]][i] \in Terminal

\* A client that saw [DONE] and missed nothing has the terminal frame, also
\* when it attached late and steering frames followed the terminal one.
DoneImpliesTerminal ==
  \A c \in Conns :
    req[c] = "complete" /\ alive[c] /\ missed[c] = {} => HasTerminal(c)

\* What the comment on turnSubscriberBuffer says: a slow subscriber loses
\* frames, but the done frame makes its transcript whole.
DoneCarriesTerminal ==
  \A c \in Conns : req[c] = "complete" /\ alive[c] => HasTerminal(c)

\* Steering reaches the session's history once and in the order it was
\* queued, whichever turn drains it; the queue holds what is left.  Only a
\* failed write takes messages out.  (QueueSteering, drainSteering)
SteeringInOrder ==
  \A s \in Sessions :
    history[s] \o queue[s] = Only(arrived[s], Steers \ lost)

\* An interrupted turn finishes, whatever its run was waiting for.
InterruptEnds == \A t \in Turns : cancelled[t] ~> done[t]

\* No subscriber of a finished turn hangs: its handler writes [DONE] or sees
\* the client gone.
StreamEnds ==
  \A c \in Conns : (req[c] = "streaming" /\ done[on[c]]) ~> req[c] \in {"complete", "left"}

\* A turn holds its session from its start until it is done: no other turn
\* of the session starts in between (SessionLane).
Lane == INSTANCE SessionLane WITH
          holder <- [s \in Sessions |-> IF Running(s) THEN reg[s] ELSE None],
          begun  <- {t \in Turns : pc[t] # "unborn"},
          over   <- {t \in Turns : done[t]}
LaneSpec == Lane!Spec
=============================================================================
