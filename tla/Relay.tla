------------------------------- MODULE Relay -------------------------------
(***************************************************************************)
(* One model call between the daemon and the gateway: the frames the       *)
(* gateway writes once an attempt is committed (streamResponse), the       *)
(* client's goroutine that turns them into deltas under an idle watchdog   *)
(* (gatewayclient.ChatCompletionStream), and the agent that puts the       *)
(* answer together (streamCall).                                           *)
(*                                                                         *)
(* Texts are numbered.  A trail is the set of the classes of its attempts, *)
(* as far as a retry tells them apart.  The gateway is also a process that *)
(* may hang, and a connection may break at any time.                       *)
(***************************************************************************)
EXTENDS Naturals, Sequences

CONSTANTS
  MaxTexts,
  Capacity   \* of the deltas channel (16 in the code)

VARIABLES
  gateway,   \* peeking, silent, refused; streaming, finished, stuck, over
  wrote,     \* texts written
  last,      \* its last frame: none, final, failed
  trail,     \* classes of the attempts: retryable, fatal
  wire,      \* frames written and not yet read
  link,      \* open, ended, broken
  reader,    \* the client's goroutine: connecting, reading, sending, over
  offer,     \* the delta it is sending
  deltas,    \* the channel
  fired,     \* the watchdog
  gone,      \* the run's context is done
  got,       \* content streamCall has put together
  result,    \* its result: none, or the Done delta
  outcome    \* of the call: none, answered, failed, lost

gatewayVars == <<gateway, wrote, last, trail, wire, link>>
clientVars == <<reader, offer, deltas, fired>>
agentVars == <<gone, got, result, outcome>>
relayVars == <<gatewayVars, clientVars, agentVars>>

Nothing == [is |-> "nothing"]
Text(k) == [is |-> "text", text |-> k]
Failure(typed, retry) == [is |-> "error", typed |-> typed, retry |-> retry]

Init ==
  /\ gateway = "peeking" /\ wrote = 0 /\ last = "none" /\ trail = {} /\ wire = <<>> /\ link = "open"
  /\ reader = "connecting" /\ offer = Nothing /\ deltas = <<>> /\ fired = FALSE
  /\ gone = FALSE /\ got = <<>> /\ result = Nothing /\ outcome = "none"

(***************************************************************************)
(* The gateway: frames while the connection stands; a last one always, and *)
(* [DONE].  An error in mid-answer is a last frame too.                    *)
(***************************************************************************)
Writes(frame) == wire' = Append(wire, frame)
Standing == link = "open" /\ ~gone /\ ~fired

\* Attempts fail before one is committed, or all do (then no headers but an error).
Commit ==
  /\ gateway = "peeking" /\ Standing
  /\ trail' \in SUBSET {"retryable", "fatal"}
  /\ \/ gateway' = "streaming"
     \/ gateway' = "refused" /\ trail' # {}
  /\ UNCHANGED <<wrote, last, wire, link, clientVars, agentVars>>

writeDelta ==
  /\ gateway = "streaming" /\ Standing
  /\ wrote < MaxTexts
  /\ wrote' = wrote + 1
  /\ Writes(Text(wrote'))
  /\ UNCHANGED <<gateway, last, trail, link, clientVars, agentVars>>

\* Reasoning is passed on and not kept; a comment proves the attempt is alive.
KeepAlive ==
  /\ gateway = "streaming" /\ Standing /\ wire = <<>>
  /\ Writes([is |-> "comment"])
  /\ UNCHANGED <<gateway, wrote, last, trail, link, clientVars, agentVars>>

writeFinal ==
  /\ gateway = "streaming" /\ Standing
  /\ gateway' = "finished"
  /\ \/ last' = "final" /\ Writes([is |-> "final"]) /\ UNCHANGED trail
     \/ \E class \in {"retryable", "fatal"} :
          /\ last' = "failed" /\ trail' = trail \cup {class}
          /\ Writes([is |-> "failed", trail |-> trail'])
  /\ UNCHANGED <<wrote, link, clientVars, agentVars>>

WriteDone ==
  /\ gateway = "finished" /\ Standing
  /\ gateway' = "over" /\ link' = "ended"
  /\ Writes([is |-> "done"])
  /\ UNCHANGED <<wrote, last, trail, clientVars, agentVars>>

\* The gateway's process ends and the connection with it, or it breaks.
LinkEnds ==
  /\ gateway # "over" /\ link = "open"
  /\ link' \in {"ended", "broken"}
  /\ gateway' = IF gateway \in {"peeking", "silent", "refused"} THEN "refused" ELSE "over"
  /\ UNCHANGED <<wrote, last, trail, wire, clientVars, agentVars>>

Hangs ==
  /\ gateway \in {"peeking", "streaming", "finished"}
  /\ gateway' = IF gateway = "peeking" THEN "silent" ELSE "stuck"
  /\ UNCHANGED <<wrote, last, trail, wire, link, clientVars, agentVars>>

(***************************************************************************)
(* ChatCompletionStream.                                                   *)
(***************************************************************************)
Cut == gone \/ fired
Sends(delta) == reader' = "sending" /\ offer' = delta

\* The error is the call's own: no channel is handed out.
Returns(how) == outcome' = how /\ reader' = "over" /\ offer' = Nothing /\ UNCHANGED <<got, result>>

gatewayErrorFromBody ==
  /\ reader = "connecting" /\ gateway = "refused"
  /\ Returns("failed")
  /\ UNCHANGED <<gatewayVars, deltas, fired, gone>>

ChatCompletionStream ==
  /\ reader = "connecting"
  /\ \/ /\ gateway \in {"streaming", "finished", "stuck", "over"}
        /\ reader' = "reading" /\ UNCHANGED <<offer, got, result, outcome>>
     \/ Cut /\ Returns("failed")
  /\ UNCHANGED <<gatewayVars, deltas, fired, gone>>

\* Any attempt that may be tried again makes the answer worth another round.
Retryable(t) == "retryable" \in t

Reads(frame) ==
  CASE frame.is = "text" -> Sends(frame)
    [] frame.is = "comment" -> UNCHANGED <<reader, offer>>
    [] frame.is = "final" -> Sends(frame)
    [] frame.is = "failed" -> Sends(Failure(TRUE, Retryable(frame.trail)))
    [] frame.is = "done" -> reader' = "over" /\ UNCHANGED offer

Scan ==
  /\ reader = "reading" /\ wire # <<>>
  /\ Reads(Head(wire))
  /\ wire' = Tail(wire)
  /\ UNCHANGED <<gateway, wrote, last, trail, link, deltas, fired, agentVars>>

\* Slip: the end of the body is taken for the end of the answer.
AnswerAtEnd == Sends([is |-> "final"])
\* A body that ends without its last frame closes the channel, and that is all.
AtEnd == reader' = "over" /\ UNCHANGED offer

ScanEnds ==
  /\ reader = "reading"
  /\ \/ wire = <<>> /\ link = "ended" /\ AtEnd
     \/ link = "broken" /\ Sends(Failure(FALSE, FALSE))
     \/ Cut /\ Sends(Failure(FALSE, FALSE))
  /\ UNCHANGED <<gatewayVars, deltas, fired, agentVars>>

\* The select: room in the channel, or the run is over; the last delta ends it.
SendDelta ==
  /\ reader = "sending"
  /\ \/ /\ Len(deltas) < Capacity
        /\ deltas' = Append(deltas, offer)
        /\ reader' = IF offer.is = "text" THEN "reading" ELSE "over"
     \/ gone /\ reader' = "over" /\ UNCHANGED deltas
  /\ offer' = Nothing
  /\ UNCHANGED <<gatewayVars, fired, agentVars>>

\* Slip: the timer is stopped once the headers are there.
GuardsHeaders == reader = "connecting"
\* The timer bounds the wait for headers and then each wait for bytes; it also
\* runs while the goroutine waits for the agent.
Guards == reader \in {"connecting", "reading", "sending"}

WatchdogFires ==
  /\ Guards /\ ~fired
  /\ reader = "reading" => wire = <<>>
  /\ reader = "sending" => Len(deltas) = Capacity
  /\ fired' = TRUE
  /\ UNCHANGED <<gatewayVars, reader, offer, deltas, agentVars>>

(***************************************************************************)
(* streamCall; an interrupt or a crash of the run's client ends its        *)
(* context, which it notices only by the channel.                          *)
(***************************************************************************)
streamCall ==
  /\ outcome = "none" /\ reader # "connecting"
  /\ \/ /\ deltas # <<>>
        /\ deltas' = Tail(deltas)
        /\ LET d == Head(deltas)
           IN  CASE d.is = "text" -> got' = Append(got, d.text) /\ UNCHANGED <<result, outcome>>
                 [] d.is = "final" -> result' = d /\ UNCHANGED <<got, outcome>>
                 [] OTHER -> result' = d /\ outcome' = "failed" /\ UNCHANGED got
     \/ /\ deltas = <<>> /\ reader = "over"
        /\ outcome' = IF result = Nothing THEN "lost" ELSE "answered"
        /\ UNCHANGED <<deltas, got, result>>
  /\ UNCHANGED <<gatewayVars, reader, offer, fired, gone>>

Cancel ==
  /\ ~gone /\ outcome = "none"
  /\ gone' = TRUE
  /\ UNCHANGED <<gatewayVars, clientVars, got, result, outcome>>

Goroutines ==
  \/ gatewayErrorFromBody \/ ChatCompletionStream \/ Scan \/ ScanEnds \/ SendDelta
  \/ WatchdogFires \/ streamCall

Next ==
  \/ Commit \/ writeDelta \/ KeepAlive \/ writeFinal \/ WriteDone \/ LinkEnds \/ Hangs
  \/ Goroutines \/ Cancel

\* The client's goroutine, its timer and the agent are scheduled; nothing is
\* assumed of the gateway.
Spec == Init /\ [][Next]_relayVars /\ WF_relayVars(Goroutines)

-----------------------------------------------------------------------------

\* What the agent has is what the gateway wrote, in its order; an answer is the
\* whole of it, one that was cut is never taken for whole, and a failure the
\* gateway told of is typed and worth a retry exactly if some attempt of its trail
\* is (ChatCompletionStream, streamCall; "a dropped answer" is resumed, not failed).
AnswerAsWritten ==
  /\ got = [i \in 1..Len(got) |-> i] /\ Len(got) <= wrote
  /\ outcome = "answered" => last = "final" /\ Len(got) = wrote
  /\ (outcome = "failed" /\ result # Nothing /\ result.typed) =>
       (last = "failed" /\ Len(got) = wrote /\ result.retry = ("retryable" \in trail))

\* A call comes back once its run is interrupted or its gateway hangs or leaves,
\* wherever the answer was (ChatCompletionStream's idle watchdog).
CallReturns == gone \/ gateway \in {"refused", "silent", "stuck", "over"} ~> outcome # "none"
=============================================================================
