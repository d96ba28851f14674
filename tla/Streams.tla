------------------------------ MODULE Streams ------------------------------
(***************************************************************************)
(* One ChatCompletion through a provider adapter (provider/anthropic.go,   *)
(* gemini.go, openai_compat.go, openai_responses.go): the response stream, *)
(* its tool calls in fragments, the watchdog, and the channel of events to *)
(* a caller that may be slow or leave.                                     *)
(*                                                                         *)
(* A wire event carries its type, the call it is about and the fragments   *)
(* of that call's arguments it holds; the whole arguments of call c are    *)
(* Whole(c), and no proper part of them but the empty one is a JSON object.*)
(* Texts are counted.  Unparseable events, usage and prices are left out.  *)
(***************************************************************************)
EXTENDS Naturals, Sequences, FiniteSets

CONSTANTS
  Calls,      \* tool calls the model may make
  Size,       \* Size[c]: fragments of the arguments of c
  MaxTexts,   \* text deltas of an answer
  Buffer      \* capacity of the events channel (16 in the code)

StreamsAssumption ==
  /\ Size \in [Calls -> Nat] /\ MaxTexts \in Nat /\ Buffer \in Nat \ {0}

VARIABLES
  kind,       \* the adapter
  link,       \* connecting, open, ended (EOF), broken, or refused
  wire,       \* events sent and not yet scanned
  texts,      \* text deltas sent
  sent,       \* sent[c]: fragments of c sent
  block,      \* block[c]: unopened, open, stopped
  finished,   \* the upstream sent its last event
  reader,     \* the adapter's goroutine: waiting, scanning, sending, closing, over
  offer,      \* the event it is sending
  acc,        \* acc[c]: fragments put together; c \in DOMAIN acc once it is named
  seen,       \* toolArgsSeen
  made,       \* toolCalls, of the adapters that list whole calls
  upstreamErr,
  events,     \* the channel
  fired,      \* the watchdog cancelled the call
  gone,       \* the caller cancelled and reads no more
  result      \* what the caller got last: none, done with calls, or err

upstream == <<link, texts, sent, block, finished>>
caller == <<fired, gone, result>>
streamVars == <<kind, upstream, wire, reader, offer, acc, seen, made, upstreamErr, events, caller>>

Adapters == {"anthropic", "gemini", "openai-compat", "openai-responses"}
Whole(c) == [i \in 1..Size[c] |-> i]
Delta == [type |-> "delta"]
Progress == [type |-> "progress"]
Err == [type |-> "err"]
Done(calls) == [type |-> "done", calls |-> calls]
Nothing == [type |-> "none"]

Init ==
  /\ kind \in Adapters
  /\ link = "connecting" /\ wire = <<>> /\ texts = 0 /\ finished = FALSE
  /\ sent = [c \in Calls |-> <<>>] /\ block = [c \in Calls |-> "unopened"]
  /\ reader = "waiting" /\ offer = Nothing /\ acc = <<>> /\ seen = {} /\ made = {}
  /\ upstreamErr = FALSE /\ events = <<>> /\ fired = FALSE /\ gone = FALSE /\ result = Nothing

(***************************************************************************)
(* The upstream.                                                           *)
(***************************************************************************)
\* The request is encoded and sent; headers come, or an error status, or
\* nothing until the watchdog or the caller ends the wait.
Connect ==
  /\ link = "connecting"
  /\ \/ link' = "open" /\ reader' = "scanning" /\ UNCHANGED result
     \/ link' = "refused" /\ reader' = "over" /\ result' = Err
  /\ UNCHANGED <<kind, wire, texts, sent, block, finished, offer, acc, seen, made, upstreamErr,
                 events, fired, gone>>

Event(type, c, parts) == [type |-> type, call |-> c, parts |-> parts]

Sends(event) == wire' = Append(wire, event)

SendText ==
  /\ link = "open" /\ ~finished /\ texts < MaxTexts
  /\ texts' = texts + 1
  /\ wire' = Append(wire, [type |-> "text"])
  /\ UNCHANGED <<kind, link, sent, block, finished, reader, offer, acc, seen, made, upstreamErr,
                 events, caller>>

\* A call is named: with its first fragment (openai-compat), with none
\* (anthropic), with none or all (openai-responses), with all (gemini).
SendOpen(c) ==
  /\ link = "open" /\ ~finished /\ block[c] = "unopened"
  /\ \E parts \in {SubSeq(Whole(c), 1, n) : n \in {m \in {0, 1, Size[c]} : m <= Size[c]}} :
       /\ kind = "anthropic" => parts = <<>>
       /\ kind = "gemini" => parts = Whole(c)
       /\ kind = "openai-responses" => parts \in {<<>>, Whole(c)}
       /\ sent' = [sent EXCEPT ![c] = parts]
       /\ Sends(Event("open", c, parts))
  /\ block' = [block EXCEPT ![c] = IF kind = "gemini" THEN "stopped" ELSE "open"]
  /\ UNCHANGED <<kind, link, texts, finished, reader, offer, acc, seen, made, upstreamErr,
                 events, caller>>

SendArgs(c) ==
  /\ link = "open" /\ ~finished /\ block[c] = "open" /\ Len(sent[c]) < Size[c]
  /\ sent' = [sent EXCEPT ![c] = Append(@, Len(@) + 1)]
  /\ Sends(Event("args", c, <<Len(sent[c]) + 1>>))
  /\ UNCHANGED <<kind, link, texts, block, finished, reader, offer, acc, seen, made,
                 upstreamErr, events, caller>>

\* The end of a call: openai-responses repeats its whole arguments, or gives
\* them here only; anthropic also ends one cut off at max_tokens.
SendStop(c) ==
  /\ link = "open" /\ ~finished /\ block[c] = "open" /\ kind # "openai-compat"
  /\ kind = "openai-responses" => sent[c] \in {<<>>, Whole(c)}
  /\ sent' = [sent EXCEPT ![c] = IF kind = "openai-responses" THEN Whole(c) ELSE @]
  /\ block' = [block EXCEPT ![c] = "stopped"]
  /\ Sends(Event("stop", c, sent'[c]))
  /\ UNCHANGED <<kind, link, texts, finished, reader, offer, acc, seen, made, upstreamErr,
                 events, caller>>

\* [DONE], message_stop, response.completed; gemini has none and just closes.
\* An upstream in trouble reports it, and any may close or break at any time.
SendLast ==
  /\ link = "open" /\ ~finished
  /\ finished' = TRUE
  /\ \/ kind # "gemini" /\ wire' = Append(wire, [type |-> "end"]) /\ UNCHANGED link
     \/ kind = "gemini" /\ link' = "ended" /\ UNCHANGED wire
  /\ UNCHANGED <<kind, texts, sent, block, reader, offer, acc, seen, made, upstreamErr, events,
                 caller>>

SendError ==
  /\ link = "open" /\ ~finished
  /\ wire' = Append(wire, [type |-> "error"]) /\ link' = "ended"
  /\ UNCHANGED <<kind, texts, sent, block, finished, reader, offer, acc, seen, made,
                 upstreamErr, events, caller>>

LinkEnds ==
  /\ link = "open"
  /\ link' \in {"ended", "broken"}
  /\ UNCHANGED <<kind, texts, sent, block, finished, wire, reader, offer, acc, seen, made,
                 upstreamErr, events, caller>>

(***************************************************************************)
(* The adapter's goroutine.                                                *)
(***************************************************************************)
\* What the events of calls come to, kept and listed.
Took(a, s, m) == [acc |-> a, seen |-> s, made |-> m]
Taken == Took(acc, seen, made)

Gather(a, c, parts) ==
  [d \in DOMAIN a \cup {c} |->
     IF d # c THEN a[d] ELSE IF c \in DOMAIN a THEN a[c] \o parts ELSE parts]
Gathers(t, e) == Took(Gather(t.acc, e.call, e.parts), t.seen, t.made)
Lists(t, e, parts) == Took(t.acc, t.seen, t.made \cup {[call |-> e.call, parts |-> parts]})

\* Slip: the arguments of the stop event are appended in any case.
RespondsTwice(t, e) ==
  CASE e.type = "open" /\ e.parts = <<>> -> Gathers(t, e)
    [] OTHER -> [Gathers(t, e) EXCEPT !.seen = @ \cup {e.call}]
\* openai-responses: the stop event repeats what deltas brought, or brings it.
Responds(t, e) ==
  CASE e.type = "open" /\ e.parts = <<>> -> [Gathers(t, e) EXCEPT !.seen = @ \ {e.call}]
    [] e.type = "stop" /\ e.call \in t.seen -> t
    [] e.type = "stop" /\ e.call \notin t.seen -> Gathers(t, e)
    [] OTHER -> [Gathers(t, e) EXCEPT !.seen = @ \cup {e.call}]

\* What a wire event does to the calls.
Takes(t, e) ==
  CASE kind = "openai-responses" -> Responds(t, e)
    [] kind = "anthropic" /\ e.type = "stop" -> Lists(t, e, t.acc[e.call])
    [] kind = "gemini" -> Lists(t, e, e.parts)
    [] OTHER -> Gathers(t, e)

\* The events an adapter makes of it for the caller: proof of life.
Shows(e) ==
  CASE e.type = "text" -> Delta
    [] e.type = "args" /\ kind # "openai-responses" -> Progress
    [] e.type = "open" /\ kind \in {"gemini", "openai-compat"} -> Progress
    [] OTHER -> Nothing

\* toolCallAccumulator.finish drops what is not a JSON object; the other two
\* adapters hand on their list.
finish ==
  IF kind \in {"anthropic", "gemini"} THEN made
  ELSE {[call |-> c, parts |-> acc[c]] :
          c \in {d \in DOMAIN acc : acc[d] = <<>> \/ acc[d] = Whole(d)}}

Ends(final) == reader' = "closing" /\ offer' = final

\* scanSSEData calls back with one event.
Scan ==
  /\ reader = "scanning" /\ wire # <<>>
  /\ wire' = Tail(wire)
  /\ LET e == Head(wire)
     IN  \/ /\ e.type = "end" /\ Ends(Done(finish)) /\ UNCHANGED <<acc, seen, made, upstreamErr>>
         \/ /\ e.type = "error" /\ kind = "openai-compat"
            /\ upstreamErr' = TRUE /\ Ends(Err) /\ UNCHANGED <<acc, seen, made>>
         \/ /\ e.type = "error" /\ kind # "openai-compat"     \* no case for it
            /\ UNCHANGED <<reader, offer, acc, seen, made, upstreamErr>>
         \/ /\ e.type = "text"
            /\ reader' = "sending" /\ offer' = Delta /\ UNCHANGED <<acc, seen, made, upstreamErr>>
         \/ /\ e.type \in {"open", "args", "stop"}
            /\ LET t == Takes(Taken, e) IN acc' = t.acc /\ seen' = t.seen /\ made' = t.made
            /\ offer' = Shows(e)
            /\ reader' = IF Shows(e) = Nothing THEN "scanning" ELSE "sending"
            /\ UNCHANGED upstreamErr
  /\ UNCHANGED <<kind, upstream, events, caller>>

Cancelled == fired \/ gone

\* The select of the callback: room in the channel, or the context is over, and
\* then the stream counts as finished.
SendEvent ==
  /\ reader = "sending"
  /\ \/ /\ Len(events) < Buffer
        /\ events' = Append(events, offer)
        /\ reader' = "scanning" /\ offer' = Nothing
     \/ /\ Cancelled
        /\ Ends(Done(finish)) /\ UNCHANGED events
  /\ UNCHANGED <<kind, upstream, wire, acc, seen, made, upstreamErr, caller>>

\* The body is read to its end, or reading it fails.
ScanEnds ==
  /\ reader = "scanning"
  /\ \/ wire = <<>> /\ link = "ended" /\ Ends(Done(finish))
     \/ wire = <<>> /\ link = "broken" /\ Ends(Err)
     \/ Cancelled /\ Ends(Err)
  /\ UNCHANGED <<kind, upstream, wire, acc, seen, made, upstreamErr, events, caller>>

\* The last event is sent without regard to the context.
SendFinal ==
  /\ reader = "closing" /\ Len(events) < Buffer
  /\ events' = Append(events, offer)
  /\ reader' = "over" /\ offer' = Nothing
  /\ acc' = <<>> /\ seen' = {} /\ made' = {} /\ wire' = <<>>
  /\ UNCHANGED <<kind, upstream, upstreamErr, caller>>

\* streamWatchdog: nothing was read for the timeout, as the upstream is quiet or
\* the goroutine waits for the caller.
WatchdogFires ==
  /\ reader \in {"scanning", "sending"} /\ ~fired
  /\ reader = "scanning" => wire = <<>>
  /\ reader = "sending" => Len(events) = Buffer
  /\ fired' = TRUE
  /\ UNCHANGED <<kind, upstream, wire, reader, offer, acc, seen, made, upstreamErr, events, gone,
                 result>>

(***************************************************************************)
(* The caller.                                                             *)
(***************************************************************************)
Receive ==
  /\ ~gone /\ events # <<>>
  /\ events' = Tail(events)
  /\ result' = IF Head(events).type \in {"done", "err"} THEN Head(events) ELSE result
  /\ UNCHANGED <<kind, upstream, wire, reader, offer, acc, seen, made, upstreamErr, fired, gone>>

Leave ==
  /\ ~gone /\ result = Nothing /\ link # "connecting"
  /\ gone' = TRUE
  /\ UNCHANGED <<kind, upstream, wire, reader, offer, acc, seen, made, upstreamErr, events, fired,
                 result>>

Next ==
  \/ Connect \/ SendText \/ SendLast \/ SendError \/ LinkEnds
  \/ \E c \in Calls : SendOpen(c) \/ SendArgs(c) \/ SendStop(c)
  \/ Scan \/ SendEvent \/ ScanEnds \/ SendFinal \/ WatchdogFires
  \/ Receive \/ Leave

Spec == Init /\ [][Next]_streamVars

-----------------------------------------------------------------------------

Complete == \A c \in Calls : block[c] # "unopened" => sent[c] = Whole(c) /\ (kind = "openai-compat" \/ block[c] = "stopped")

\* An answer that came to its end is handed on with exactly the calls the model
\* made, each with all its arguments once, whichever way the provider cut,
\* interleaved or repeated their fragments (toolcalls.go, the adapters' loops).
CallsAsSent ==
  result.type = "done" /\ finished /\ Complete /\ ~fired =>
    result.calls = {[call |-> c, parts |-> Whole(c)] : c \in {d \in Calls : block[d] # "unopened"}}
=============================================================================
