------------------------------ MODULE Gateway ------------------------------
(***************************************************************************)
(* The gateway's attempt executor (internal/server/chat.go) over the       *)
(* router's ranking (internal/router) and the circuit breakers             *)
(* (internal/breaker): concurrent requests against one combo.              *)
(*                                                                         *)
(* A request ranks the providers its breakers admit, then tries them in    *)
(* order.  A streaming attempt is peeked until its first meaningful event  *)
(* and from then on committed; a buffered attempt is drained and gated.    *)
(* Clients may go away, the operator may switch the strategy, time passes. *)
(*                                                                         *)
(* Abstraction: scores are an arbitrary order, a response is its provider, *)
(* and a failure is its class up to what the code distinguishes:           *)
(*   "retryable"  network, timeout, server_error, rate_limit               *)
(*   "permanent"  auth, unknown      "request"  invalid_request            *)
(*   "cancelled"  the client left    "rejected" content_rejected           *)
(***************************************************************************)
EXTENDS BreakerEntry, SequencesExt

CONSTANTS Requests, Providers, Runs, None,
          Combo,        \* the combo's providers in declared order
          Streams,      \* requests with stream: true
          Capable,      \* request -> providers that support what it needs
          RunOf,        \* request -> its RunKey
          Configured,   \* the combo's configured strategy
          Selectable,   \* strategies it may have or be switched to
          MaxSwitches   \* bound: strategy switches

\* "smart" stands for the weighted strategies with stickiness on, the default.
Strategies == {"priority", "round-robin", "prefix-affinity", "p2c", "lkgp", "smart"}
Instances == 0..MaxSwitches
Classes == {"retryable", "permanent", "request", "cancelled", "rejected"}

ASSUME ComboAssumption == /\ Combo \in Seq(Providers) /\ IsInjective(Combo)
                          /\ Providers = {Combo[i] : i \in DOMAIN Combo}
ASSUME RequestAssumption == /\ Streams \subseteq Requests
                            /\ Capable \in [Requests -> SUBSET Providers]
                            /\ RunOf \in [Requests -> Runs]
ASSUME StrategyAssumption == Configured \in Selectable /\ Selectable \subseteq Strategies
ASSUME NoneAssumption == None \notin Providers
ASSUME SwitchAssumption == MaxSwitches \in Nat

VARIABLES
  entry,     \* provider -> its breaker entry
  quiet,     \* provider -> ticks since its last admission or counted failure
  latest,    \* the combo's strategy instance; earlier ones were replaced
  strategy,  \* instance -> its strategy
  good,      \* instance -> its last-known-good provider, or None
  pinned,    \* instance -> its sticky winner, by run
  pc,        \* request -> stage of its handler
  combo,     \* request -> the instance its combo snapshot holds
  asked,     \* request -> how many of the combo's breakers it asked
  ranked,    \* request -> its ranked candidates
  held,      \* request -> providers admitted for it and not concluded
  trail,     \* request -> attempts made, in order
  gone,      \* request -> its client went away
  sent,      \* request -> providers whose content reached the client
  reply      \* request -> how it was answered

routeVars == <<latest, strategy, good, pinned>>
rankVars == <<combo, asked, ranked>>
vars == <<entry, quiet, routeVars, pc, rankVars, held, trail, gone, sent, reply>>

----------------------------------------------------------------------------
\* FailureClass.CountsAgainstBreaker and Retryable
Counts(class) == class \notin {"request", "cancelled"}
Retryable(class) == class = "retryable"

\* The candidate being tried: every earlier one left a trail entry.
Current(r) == ranked[r][Len(trail[r]) + 1]
Attempted(outcome, p, class, left) ==
  [provider |-> p, outcome |-> outcome, class |-> class, clientLeft |-> left]

\* What each strategy's Rank may make of the eligible set: scores, cursors,
\* hashes and samples are arbitrary, the order declared in the combo is not.
Place(p) == CHOOSE i \in DOMAIN Combo : Combo[i] = p
Declared(q) == \A i, j \in DOMAIN q : i < j => Place(q[i]) < Place(q[j])
Rotated(q) == \E k \in DOMAIN q : Declared(SubSeq(q, k, Len(q)) \o SubSeq(q, 1, k - 1))
\* The better of two samples is moved to the front; so is the last-known-good.
Sampled(q) == Declared(Tail(q))
LedBy(p, q) == IF p \in Range(q) THEN q[1] = p /\ Declared(Tail(q)) ELSE Declared(q)
\* A pinned provider leads; exploration reorders only when nothing is pinned,
\* so it adds no order.
Weighted(p, q) == p \in Range(q) => q[1] = p

Rankings(r, eligible) ==
  LET i == combo[r] IN
  {q \in SetToSeqs(eligible) :
     CASE strategy[i] = "priority" -> Declared(q)
       [] strategy[i] \in {"round-robin", "prefix-affinity"} -> Rotated(q)
       [] strategy[i] = "p2c"   -> Sampled(q)
       [] strategy[i] = "lkgp"  -> LedBy(good[i], q)
       [] strategy[i] = "smart" -> Weighted(pinned[i][RunOf[r]], q)}

\* Router.RecordOutcome: the combo's present instance learns the winner, also
\* when another one ranked the request.
RecordOutcome(r, p) ==
  /\ good' = IF strategy[latest] \in {"lkgp", "smart"} THEN [good EXCEPT ![latest] = p] ELSE good
  /\ pinned' = IF strategy[latest] = "smart"
               THEN [pinned EXCEPT ![latest][RunOf[r]] = p] ELSE pinned
  /\ UNCHANGED <<latest, strategy>>

----------------------------------------------------------------------------
\* Router.Rank loads the combo and asks each provider's breaker in turn, which
\* takes a half-open slot also for one the capability filter then drops.
Ask(r) ==
  LET p == Combo[asked[r] + 1] IN
  /\ pc[r] = "new" /\ asked[r] < Len(Combo)
  /\ combo' = IF asked[r] = 0 THEN [combo EXCEPT ![r] = latest] ELSE combo
  /\ asked' = [asked EXCEPT ![r] = @ + 1]
  /\ IF Admits(entry[p])
     THEN /\ entry' = [entry EXCEPT ![p] = AllowEntry(@)]
          /\ quiet' = [quiet EXCEPT ![p] = 0]
          /\ held' = [held EXCEPT ![r] = @ \cup {p}]
     ELSE UNCHANGED <<entry, quiet, held>>
  /\ UNCHANGED <<routeVars, pc, ranked, trail, gone, sent, reply>>

Rank(r) ==
  LET eligible == held[r] \cap Capable[r] IN
  /\ pc[r] = "new" /\ asked[r] = Len(Combo)
  /\ IF eligible = {}
     THEN /\ pc' = [pc EXCEPT ![r] = "answered"]
          /\ reply' = [reply EXCEPT ![r] = "unavailable"]
          /\ UNCHANGED ranked
     ELSE /\ \E q \in Rankings(r, eligible) : ranked' = [ranked EXCEPT ![r] = q]
          /\ pc' = [pc EXCEPT ![r] = "trying"]
          /\ UNCHANGED reply
  /\ UNCHANGED <<entry, quiet, routeVars, combo, asked, held, trail, gone, sent>>

\* Provider.ChatCompletion answers with an event stream.
Connect(r) ==
  /\ pc[r] = "trying" /\ Len(trail[r]) < Len(ranked[r])
  /\ pc' = [pc EXCEPT ![r] = IF r \in Streams THEN "peeking" ELSE "draining"]
  /\ UNCHANGED <<entry, quiet, routeVars, rankVars, held, trail, gone, sent, reply>>

\* A failed attempt is reported, recorded in the trail, and the next
\* candidate is tried.  (markFailure, markRejection, errorAttempt)
Blame(p, class) ==
  IF Counts(class)
  THEN /\ entry' = [entry EXCEPT ![p] = FailureEntry(@)]
       /\ quiet' = [quiet EXCEPT ![p] = 0]
  ELSE UNCHANGED <<entry, quiet>>
NextCandidate(r, outcome, class, left) ==
  LET p == Current(r) IN
  /\ Blame(p, class)
  /\ held' = [held EXCEPT ![r] = @ \ {p}]
  /\ trail' = [trail EXCEPT ![r] = Append(@, Attempted(outcome, p, class, left))]
  /\ pc' = [pc EXCEPT ![r] = "trying"]
  /\ UNCHANGED <<routeVars, rankVars, gone, sent, reply>>

\* Classify: only a context the client cancelled is "cancelled".
Transport(r) == Classes \ ({"rejected"} \cup IF gone[r] THEN {} ELSE {"cancelled"})

\* The call fails before any event, or a drained stream carries an error.
AttemptFails(r) ==
  /\ \/ pc[r] = "trying" /\ Len(trail[r]) < Len(ranked[r])
     \/ pc[r] = "draining"
  /\ \E class \in Transport(r) :
       NextCandidate(r, "error", class, class = "cancelled")

\* BoundedPeek gives up: closed, empty, an error before content, the idle
\* budget, too many empty events -- or its context is done.
PeekRejects(r) ==
  /\ pc[r] = "peeking"
  /\ \E left \in {FALSE, gone[r]} : NextCandidate(r, "rejected", "rejected", left)

\* The ResponseGate rejects a drained response: for its content, or because
\* no terminal event was seen.
GateRejects(r) ==
  /\ pc[r] = "draining"
  /\ NextCandidate(r, "rejected", "rejected", FALSE)

\* A winning or committed attempt ends the request.  Providers admitted and
\* not tried are never reported: they stay in held.
Answer(r, how, p, attempt) ==
  /\ pc' = [pc EXCEPT ![r] = "answered"]
  /\ reply' = [reply EXCEPT ![r] = how]
  /\ trail' = [trail EXCEPT ![r] = Append(@, attempt)]
  /\ held' = [held EXCEPT ![r] = @ \ {p}]
  /\ UNCHANGED <<rankVars, gone>>
Succeeds(r, p) ==
  /\ entry' = [entry EXCEPT ![p] = SuccessEntry(@)]
  /\ RecordOutcome(r, p)
  /\ Answer(r, "ok", p, Attempted("success", p, "none", FALSE))
  /\ UNCHANGED quiet

\* A drained response passes the gate: one whose channel closed early too,
\* unless RequireTerminal is set.
GateAccepts(r) ==
  /\ pc[r] = "draining"
  /\ Succeeds(r, Current(r))
  /\ sent' = [sent EXCEPT ![r] = @ \cup {Current(r)}]

\* Slips: the strategy, or the breaker, learns of success at commit.
CommitRecords(r) ==
  /\ pc[r] = "peeking"
  /\ pc' = [pc EXCEPT ![r] = "streaming"]
  /\ sent' = [sent EXCEPT ![r] = @ \cup {Current(r)}]
  /\ RecordOutcome(r, Current(r))
  /\ UNCHANGED <<entry, quiet, rankVars, held, trail, gone, reply>>
CommitReports(r) ==
  /\ pc[r] = "peeking"
  /\ pc' = [pc EXCEPT ![r] = "streaming"]
  /\ sent' = [sent EXCEPT ![r] = @ \cup {Current(r)}]
  /\ entry' = [entry EXCEPT ![Current(r)] = SuccessEntry(@)]
  /\ UNCHANGED <<quiet, routeVars, rankVars, held, trail, gone, reply>>

\* Meaningful content was seen: headers and the buffered events go out.
Commit(r) ==
  /\ pc[r] = "peeking"
  /\ pc' = [pc EXCEPT ![r] = "streaming"]
  /\ sent' = [sent EXCEPT ![r] = @ \cup {Current(r)}]
  /\ UNCHANGED <<entry, quiet, routeVars, rankVars, held, trail, gone, reply>>

\* streamResponse: only a terminal Done is a success.
StreamDone(r) ==
  /\ pc[r] = "streaming"
  /\ Succeeds(r, Current(r))
  /\ UNCHANGED sent

\* Slip: a stream that breaks after commit falls back.
StreamFallsBack(r) ==
  /\ pc[r] = "streaming"
  /\ \E class \in Transport(r) :
       NextCandidate(r, "error", class, class = "cancelled")

\* An error event, or a channel that closes with no terminal event (a
\* network failure to Classify).
StreamBreaks(r) ==
  LET p == Current(r) IN
  /\ pc[r] = "streaming"
  /\ \E class \in Transport(r) :
       /\ Blame(p, class)
       /\ Answer(r, "broken", p, Attempted("error", p, class, class = "cancelled"))
  /\ UNCHANGED <<routeVars, sent>>

\* Slips: a permanent failure ends the fallback; nobody answers a request
\* whose client is gone.
ExhaustedEarly(r) ==
  /\ pc[r] = "trying" /\ trail[r] # <<>>
  /\ Last(trail[r]).class = "permanent" \/ Len(trail[r]) = Len(ranked[r])
  /\ pc' = [pc EXCEPT ![r] = "answered"]
  /\ reply' = [reply EXCEPT ![r] = "failed"]
  /\ UNCHANGED <<entry, quiet, routeVars, rankVars, held, trail, gone, sent>>
ExhaustedIfHeard(r) ==
  /\ pc[r] = "trying" /\ Len(trail[r]) = Len(ranked[r]) /\ ~gone[r]
  /\ pc' = [pc EXCEPT ![r] = "answered"]
  /\ reply' = [reply EXCEPT ![r] = "failed"]
  /\ UNCHANGED <<entry, quiet, routeVars, rankVars, held, trail, gone, sent>>

\* writeGatewayError: every candidate failed.
Exhausted(r) ==
  /\ pc[r] = "trying" /\ Len(trail[r]) = Len(ranked[r])
  /\ pc' = [pc EXCEPT ![r] = "answered"]
  /\ reply' = [reply EXCEPT ![r] =
       IF \E i \in DOMAIN trail[r] : Retryable(trail[r][i].class) THEN "retry" ELSE "failed"]
  /\ UNCHANGED <<entry, quiet, routeVars, rankVars, held, trail, gone, sent>>

ClientGone(r) ==
  /\ pc[r] \notin {"new", "answered"} /\ ~gone[r]
  /\ gone' = [gone EXCEPT ![r] = TRUE]
  /\ UNCHANGED <<entry, quiet, routeVars, pc, rankVars, held, trail, sent, reply>>

\* Router.SetStrategy: a new instance with no memory.
SetStrategy(name) ==
  /\ latest < MaxSwitches /\ name # strategy[latest]
  /\ latest' = latest + 1
  /\ strategy' = [strategy EXCEPT ![latest'] = name]
  /\ UNCHANGED <<entry, quiet, good, pinned, pc, rankVars, held, trail, gone, sent, reply>>

Tick ==
  /\ entry' = [p \in Providers |-> Age(entry[p])]
  /\ quiet' = [p \in Providers |-> Up(quiet[p], Cooldown)]
  /\ UNCHANGED <<routeVars, pc, rankVars, held, trail, gone, sent, reply>>

Init ==
  /\ entry = [p \in Providers |-> NewEntry]
  /\ quiet = [p \in Providers |-> Cooldown]
  /\ latest = 0
  /\ strategy = [i \in Instances |-> Configured]
  /\ good = [i \in Instances |-> None]
  /\ pinned = [i \in Instances |-> [k \in Runs |-> None]]
  /\ combo = [r \in Requests |-> 0] /\ asked = [r \in Requests |-> 0]
  /\ pc = [r \in Requests |-> "new"]
  /\ ranked = [r \in Requests |-> <<>>]
  /\ held = [r \in Requests |-> {}]
  /\ trail = [r \in Requests |-> <<>>]
  /\ gone = [r \in Requests |-> FALSE]
  /\ sent = [r \in Requests |-> {}]
  /\ reply = [r \in Requests |-> "none"]

Handle(r) == \/ Ask(r) \/ Rank(r) \/ Connect(r) \/ AttemptFails(r) \/ PeekRejects(r)
             \/ GateRejects(r) \/ GateAccepts(r) \/ Commit(r) \/ StreamDone(r)
             \/ StreamBreaks(r) \/ Exhausted(r)

Next == \/ \E r \in Requests : Handle(r) \/ ClientGone(r)
        \/ \E name \in Selectable : SetStrategy(name)
        \/ Tick

\* The handler of a request that arrived is scheduled, and every provider call
\* ends: the provider layer's watchdog fails a silent stream and a live one
\* reaches its end.  Time may stand still.
Spec == /\ Init /\ [][Next]_vars
        /\ \A r \in Requests : WF_vars(asked[r] > 0 /\ Handle(r))

----------------------------------------------------------------------------
\* A client hears one provider: once content of one went out, no fallback to
\* another happens, and what it heard is the attempt the trail ends with.
OneVoice == \A r \in Requests : sent[r] # {} =>
  /\ Cardinality(sent[r]) = 1
  /\ pc[r] = "streaming" => sent[r] = {Current(r)}
  /\ pc[r] = "answered" => sent[r] = {Last(trail[r]).provider}
  /\ pc[r] \in {"streaming", "answered"}

\* Sticky pins and the last-known-good provider always name somebody who
\* completed a request -- of that run, for a pin -- and never one that only
\* started well.  (finalize: "the router only ever hears about success here")
Won(r, p) == reply[r] = "ok" /\ Last(trail[r]).provider = p
WinnersCompleted ==
  \A i \in Instances :
    /\ good[i] = None \/ \E r \in Requests : Won(r, good[i])
    /\ \A k \in Runs : pinned[i][k] = None
                      \/ \E r \in Requests : RunOf[r] = k /\ Won(r, pinned[i][k])

\* The trail a client is sent is the whole truth: the attempts follow the
\* ranking with none skipped or repeated, only the last can have succeeded,
\* it did exactly when the reply says so, and an error reply means every
\* ranked candidate was really tried.
TrailTellsAll == \A r \in Requests :
  /\ \A i \in DOMAIN trail[r] :
       /\ trail[r][i].provider = ranked[r][i]
       /\ trail[r][i].outcome = "success" <=> reply[r] = "ok" /\ i = Len(trail[r])
  /\ reply[r] = "ok" => trail[r] # <<>>
  /\ reply[r] \in {"retry", "failed"} => Len(trail[r]) = Len(ranked[r]) /\ sent[r] = {}

\* Every provider sees the breaker protocol, whatever the other requests and
\* providers do: a report answers an admission, each admission is reported at
\* most once, and nothing but a report or time moves the entry.
CallersOf(p) == [r \in Requests |-> IF p \in held[r] THEN "calling" ELSE "idle"]
EvidenceOn(p) == IF entry[p].state = "closed" THEN entry[p].fails ELSE Threshold
B(p) == INSTANCE Breaker WITH
  Callers <- Requests, entry <- entry[p], caller <- CallersOf(p),
  evidence <- EvidenceOn(p), quiet <- quiet[p]
BreakerContract == /\ \A p \in Providers : B(p)!Init
                   /\ [][\A p \in Providers : [B(p)!Next]_(B(p)!vars)]_vars

\* Every request that arrived is answered, however its candidates fail and
\* whatever the breakers, the other requests and the operator do meanwhile.
\* (An answer is for good, so that it is enough that none stays unanswered for ever.)
Unanswered == {r \in Requests : asked[r] > 0 /\ pc[r] # "answered"}
AnsweredEventually == []<>(Unanswered = {})

\* What CountsAgainstBreaker says of "the caller simply gave up": an attempt
\* that ended because the client left is never of a class that counts.
CancelIsNotEvidence == \A r \in Requests : \A i \in DOMAIN trail[r] :
  trail[r][i].clientLeft => ~Counts(trail[r][i].class)
=============================================================================
