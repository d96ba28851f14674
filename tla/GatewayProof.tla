---------------------------- MODULE GatewayProof ----------------------------
(***************************************************************************)
(* Theorems about Gateway, for every number of requests, providers and     *)
(* strategy switches: a client hears one provider, the trail it is sent is *)
(* the truth, and each provider's entry sees the protocol of Breaker.      *)
(***************************************************************************)
EXTENDS Gateway, FiniteSetTheorems, TLAPS

Stages == {"new", "trying", "peeking", "draining", "streaming", "answered"}
Open == {"peeking", "draining", "streaming"}
Replies == {"none", "ok", "broken", "retry", "failed", "unavailable"}
Attempts == [provider : Providers, outcome : {"success", "error", "rejected"},
             class : Classes \cup {"none"}, clientLeft : BOOLEAN]

EntryTypes ==
  /\ entry \in [Providers -> Entry]
  /\ quiet \in [Providers -> 0..Cooldown]

RequestTypes ==
  /\ pc \in [Requests -> Stages]
  /\ asked \in [Requests -> 0..Len(Combo)]
  /\ ranked \in [Requests -> Seq(Providers)]
  /\ held \in [Requests -> SUBSET Providers]
  /\ trail \in [Requests -> Seq(Attempts)]
  /\ gone \in [Requests -> BOOLEAN]
  /\ sent \in [Requests -> SUBSET Providers]
  /\ reply \in [Requests -> Replies]

RouteTypes ==
  /\ latest \in Instances
  /\ good \in [Instances -> Providers \cup {None}]
  /\ pinned \in [Instances -> [Runs -> Providers \cup {None}]]

\* The ranking names each provider once, and those not tried yet are held; a
\* breaker that was not asked admitted nobody for this request.
Candidates(r) ==
  /\ \A i, j \in DOMAIN ranked[r] : ranked[r][i] = ranked[r][j] => i = j
  /\ pc[r] \in {"trying"} \cup Open =>
       \A i \in DOMAIN ranked[r] : i > Len(trail[r]) => ranked[r][i] \in held[r]
  /\ pc[r] = "new" => \A i \in DOMAIN Combo : i > asked[r] => Combo[i] \notin held[r]

\* The trail follows the ranking, and a request being tried has one to try.
Follows(r) ==
  /\ Len(trail[r]) <= Len(ranked[r])
  /\ pc[r] \in Open => Len(trail[r]) < Len(ranked[r])
  /\ pc[r] = "new" => trail[r] = <<>> /\ ranked[r] = <<>>
  /\ \A i \in DOMAIN trail[r] : trail[r][i].provider = ranked[r][i]

\* What was answered, and that only an answered request has a reply.
Outcome(r) ==
  /\ pc[r] = "answered" <=> reply[r] # "none"
  /\ \A i \in DOMAIN trail[r] :
       trail[r][i].outcome = "success" <=> reply[r] = "ok" /\ i = Len(trail[r])
  /\ reply[r] \in {"ok", "broken"} => trail[r] # <<>>
  /\ reply[r] \in {"retry", "failed"} => Len(trail[r]) = Len(ranked[r])

\* What the client has heard.
Heard(r) ==
  /\ pc[r] = "streaming" => sent[r] = {Current(r)}
  /\ reply[r] \in {"ok", "broken"} => sent[r] = {Last(trail[r]).provider}
  /\ pc[r] # "streaming" /\ reply[r] \notin {"ok", "broken"} => sent[r] = {}

Types == EntryTypes /\ RequestTypes /\ RouteTypes
GatewayInv ==
  /\ Types
  /\ \A r \in Requests : Candidates(r) /\ Follows(r) /\ Outcome(r) /\ Heard(r)

----------------------------------------------------------------------------
LEMMA TuningFacts ==
  /\ Threshold \in Nat \ {0} /\ Cooldown \in Nat \ {0}
  /\ Combo \in Seq(Providers)
  /\ \A i, j \in DOMAIN Combo : Combo[i] = Combo[j] => i = j
  /\ IsFiniteSet(Providers)
<1>1. Combo \in Seq(Providers) /\ Providers = {Combo[i] : i \in DOMAIN Combo}
  BY ComboAssumption
<1>2. \A i, j \in DOMAIN Combo : Combo[i] = Combo[j] => i = j
  BY ComboAssumption DEF IsInjective
<1>3. DOMAIN Combo = 1..Len(Combo) /\ Len(Combo) \in Nat
  BY <1>1
<1>4. IsFiniteSet(DOMAIN Combo)
  BY <1>3, FS_Interval
<1>5. Combo \in Surjection(DOMAIN Combo, Providers)
  BY <1>1, <1>3 DEF Surjection
<1> QED BY <1>1, <1>2, <1>4, <1>5, FS_Surjection, TuningAssumption

\* Whatever the strategy, a ranking names the eligible providers once each.
LEMMA RankingShape ==
  ASSUME NEW r \in Requests, NEW eligible \in SUBSET Providers,
         NEW q \in Rankings(r, eligible)
  PROVE  /\ q \in Seq(Providers)
         /\ \A i \in DOMAIN q : q[i] \in eligible
         /\ \A i, j \in DOMAIN q : q[i] = q[j] => i = j
<1>1. Cardinality(eligible) \in Nat
  BY TuningFacts, FS_Subset, FS_CardinalityType
<1>2. q \in SetToSeqs(eligible)
  BY DEF Rankings
<1>3. q \in [1..Cardinality(eligible) -> eligible]
  BY <1>2 DEF SetToSeqs
<1>4. \A i, j \in DOMAIN q : i # j => q[i] # q[j]
  BY <1>2, <1>3 DEF SetToSeqs
<1>5. q \in Seq(eligible)
  BY <1>1, <1>3
<1> QED BY <1>1, <1>3, <1>4, <1>5

LEMMA EntryType ==
  ASSUME NEW e \in Entry
  PROVE  /\ AllowEntry(e) \in Entry
         /\ SuccessEntry(e) \in Entry
         /\ FailureEntry(e) \in Entry
         /\ Age(e) \in Entry
<1>1. Threshold \in Nat \ {0} /\ Cooldown \in Nat \ {0}
  BY TuningAssumption
<1>2. /\ e.state \in {"closed", "open", "halfOpen"} /\ e.fails \in 0..Threshold
      /\ e.opened \in 0..Cooldown /\ e.trial \in 0..Cooldown
  BY DEF Entry
<1>3. /\ Up(e.fails, Threshold) \in 0..Threshold
      /\ Up(e.opened, Cooldown) \in 0..Cooldown /\ Up(e.trial, Cooldown) \in 0..Cooldown
  BY <1>1, <1>2 DEF Up
<1> QED BY <1>1, <1>2, <1>3 DEF AllowEntry, SuccessEntry, FailureEntry, Age, Entry

----------------------------------------------------------------------------
\* All that the steps of one request's handler read and write of it.
Share(s) == <<pc[s], asked[s], ranked[s], held[s], trail[s], sent[s], reply[s]>>
Sound(s) == Candidates(s) /\ Follows(s) /\ Outcome(s) /\ Heard(s)

\* Requests leave each other alone, and whoever changes nothing stays sound.
LEMMA Alone ==
  ASSUME RequestTypes, NEW r \in Requests, Handle(r) \/ ClientGone(r),
         NEW s \in Requests, s # r
  PROVE  Share(s)' = Share(s)
<1> USE DEF Share, RequestTypes, rankVars, routeVars
<1>1. CASE Ask(r)
  BY <1>1 DEF Ask
<1>2. CASE Rank(r)
  BY <1>2 DEF Rank
<1>3. CASE Connect(r) \/ Commit(r) \/ Exhausted(r) \/ ClientGone(r)
  BY <1>3 DEF Connect, Commit, Exhausted, ClientGone
<1>4. CASE AttemptFails(r) \/ PeekRejects(r) \/ GateRejects(r)
  BY <1>4 DEF AttemptFails, PeekRejects, GateRejects, NextCandidate
<1>5. CASE GateAccepts(r) \/ StreamDone(r)
  BY <1>5 DEF GateAccepts, StreamDone, Succeeds, Answer
<1>6. CASE StreamBreaks(r)
  BY <1>6 DEF StreamBreaks, Answer
<1> QED BY <1>1, <1>2, <1>3, <1>4, <1>5, <1>6 DEF Handle

LEMMA SoundKept ==
  ASSUME NEW s, Share(s)' = Share(s), Sound(s)
  PROVE  Sound(s)'
BY DEF Share, Sound, Candidates, Follows, Outcome, Heard, Current

\* A step that ends an attempt puts it at the end of the trail.
LEMMA TrailGrows ==
  ASSUME RequestTypes, NEW r \in Requests, NEW t \in Attempts,
         trail' = [trail EXCEPT ![r] = Append(@, t)]
  PROVE  /\ trail[r] \in Seq(Attempts) /\ Len(trail[r]) \in Nat
         /\ Len(trail'[r]) = Len(trail[r]) + 1
         /\ DOMAIN trail[r] = 1..Len(trail[r])
         /\ DOMAIN trail'[r] = 1..(Len(trail[r]) + 1)
         /\ \A i \in 1..Len(trail[r]) : trail'[r][i] = trail[r][i]
         /\ trail'[r][Len(trail[r]) + 1] = t
         /\ trail' \in [Requests -> Seq(Attempts)]
         /\ trail'[r] # <<>> /\ Last(trail'[r]) = t
<1>1. trail[r] \in Seq(Attempts) /\ trail'[r] = Append(trail[r], t)
  BY DEF RequestTypes
<1>2. trail' \in [Requests -> Seq(Attempts)]
  BY <1>1 DEF RequestTypes
<1> QED BY <1>1, <1>2 DEF Last

\* The provider being tried is a real one, and held.
LEMMA CurrentHeld ==
  ASSUME RequestTypes, NEW r \in Requests, Sound(r),
         pc[r] \in {"trying"} \cup Open, Len(trail[r]) < Len(ranked[r])
  PROVE  /\ Current(r) \in Providers /\ Current(r) \in held[r]
         /\ Len(trail[r]) + 1 \in DOMAIN ranked[r]
         /\ Current(r) = ranked[r][Len(trail[r]) + 1]
<1>1. trail[r] \in Seq(Attempts) /\ ranked[r] \in Seq(Providers)
  BY DEF RequestTypes
<1>2. Len(trail[r]) + 1 \in DOMAIN ranked[r] /\ Len(trail[r]) + 1 > Len(trail[r])
  BY <1>1
<1> QED BY <1>1, <1>2 DEF Sound, Candidates, Current

\* Both ends of an attempt: the next candidate, and the answer.
LEMMA NextSound ==
  ASSUME RequestTypes, NEW r \in Requests, Sound(r),
         pc[r] \in {"trying", "peeking", "draining"}, Len(trail[r]) < Len(ranked[r]),
         NEW outcome \in {"error", "rejected"}, NEW class \in Classes, NEW left \in BOOLEAN,
         NextCandidate(r, outcome, class, left)
  PROVE  Sound(r)' /\ RequestTypes'
<1> DEFINE n == Len(trail[r])
           t == Attempted(outcome, Current(r), class, left)
<1>1. /\ Current(r) \in Providers /\ n + 1 \in DOMAIN ranked[r]
      /\ Current(r) = ranked[r][n + 1]
  BY CurrentHeld DEF Open
<1>2. t \in Attempts
  BY <1>1 DEF Attempts, Attempted
<1>3. /\ trail' = [trail EXCEPT ![r] = Append(@, t)]
      /\ held' = [held EXCEPT ![r] = @ \ {Current(r)}]
      /\ pc' = [pc EXCEPT ![r] = "trying"]
      /\ UNCHANGED <<asked, ranked, gone, sent, reply>>
  BY DEF NextCandidate, rankVars
<1>4. /\ n \in Nat /\ Len(trail'[r]) = n + 1
      /\ DOMAIN trail[r] = 1..n /\ DOMAIN trail'[r] = 1..(n + 1)
      /\ \A i \in 1..n : trail'[r][i] = trail[r][i]
      /\ trail'[r][n + 1] = t
      /\ trail' \in [Requests -> Seq(Attempts)]
  BY <1>2, <1>3, TrailGrows
<1>5. RequestTypes'
  BY <1>3, <1>4 DEF RequestTypes, Stages
<1>6. /\ pc'[r] = "trying" /\ held'[r] = held[r] \ {Current(r)}
      /\ ranked'[r] = ranked[r] /\ sent'[r] = sent[r] /\ reply'[r] = reply[r]
      /\ ranked[r] \in Seq(Providers)
  BY <1>3 DEF RequestTypes
<1>7. t.provider = Current(r) /\ t.outcome # "success"
  BY DEF Attempted
<1>8. reply[r] = "none" /\ sent[r] = {}
  BY DEF Sound, Outcome, Heard, RequestTypes, Stages
<1>9. Candidates(r)'
  <2>1. ASSUME NEW i \in DOMAIN ranked[r], i > n + 1
        PROVE  ranked[r][i] # Current(r) /\ ranked[r][i] \in held[r]
    <3>1. i > n /\ i # n + 1
      BY <1>4, <1>6, <2>1
    <3>2. ranked[r][i] \in held[r]
      BY <3>1 DEF Sound, Candidates, Open
    <3>3. ranked[r][i] # ranked[r][n + 1]
      BY <1>1, <3>1 DEF Sound, Candidates
    <3> QED BY <1>1, <3>2, <3>3
  <2> QED BY <2>1, <1>4, <1>6 DEF Candidates, Sound, Open
<1>10. Follows(r)'
  <2>1. \A i \in 1..(n + 1) : trail'[r][i].provider = ranked[r][i]
    <3>1. trail'[r][n + 1].provider = ranked[r][n + 1]
      BY <1>1, <1>4, <1>7
    <3>2. \A i \in 1..n : trail'[r][i].provider = ranked[r][i]
      BY <1>4 DEF Sound, Follows
    <3>3. \A i \in 1..(n + 1) : i \in 1..n \/ i = n + 1
      BY <1>4
    <3> QED BY <3>1, <3>2, <3>3
  <2> QED BY <1>4, <1>6, <2>1 DEF Follows, Open
<1>11. Outcome(r)'
  <2>1. \A i \in DOMAIN trail[r] : trail[r][i].outcome # "success"
    BY <1>8 DEF Sound, Outcome
  <2>2. ASSUME NEW i \in DOMAIN trail'[r]
        PROVE  trail'[r][i].outcome # "success"
    <3>1. CASE i = n + 1
      BY <1>4, <1>7, <3>1
    <3>2. CASE i \in 1..n
      BY <1>4, <2>1, <3>2
    <3> QED BY <1>4, <3>1, <3>2
  <2> QED BY <1>6, <1>8, <2>2 DEF Outcome
<1>12. Heard(r)'
  BY <1>6, <1>8 DEF Heard
<1> QED BY <1>5, <1>9, <1>10, <1>11, <1>12 DEF Sound

LEMMA AnswerSound ==
  ASSUME RequestTypes, NEW r \in Requests, Sound(r), pc[r] \in {"draining", "streaming"},
         NEW how \in {"ok", "broken"}, NEW t \in Attempts,
         t.provider = Current(r), t.outcome = "success" <=> how = "ok",
         Answer(r, how, Current(r), t),
         sent' \in [Requests -> SUBSET Providers], sent'[r] = {Current(r)}
  PROVE  Sound(r)' /\ RequestTypes'
<1> DEFINE n == Len(trail[r])
<1>1. /\ Current(r) \in Providers /\ n + 1 \in DOMAIN ranked[r]
      /\ Current(r) = ranked[r][n + 1]
  <2>1. Len(trail[r]) < Len(ranked[r])
    BY DEF Sound, Follows, Open
  <2> QED BY <2>1, CurrentHeld DEF Open
<1>2. /\ trail' = [trail EXCEPT ![r] = Append(@, t)]
      /\ held' = [held EXCEPT ![r] = @ \ {Current(r)}]
      /\ pc' = [pc EXCEPT ![r] = "answered"] /\ reply' = [reply EXCEPT ![r] = how]
      /\ UNCHANGED <<asked, ranked, gone>>
  BY DEF Answer, rankVars
<1>3. /\ n \in Nat /\ Len(trail'[r]) = n + 1
      /\ DOMAIN trail[r] = 1..n /\ DOMAIN trail'[r] = 1..(n + 1)
      /\ \A i \in 1..n : trail'[r][i] = trail[r][i]
      /\ trail'[r][n + 1] = t
      /\ trail' \in [Requests -> Seq(Attempts)]
      /\ trail'[r] # <<>> /\ Last(trail'[r]) = t
  BY <1>2, TrailGrows
<1>4. RequestTypes'
  BY <1>2, <1>3 DEF RequestTypes, Stages, Replies
<1>5. /\ pc'[r] = "answered" /\ reply'[r] = how /\ ranked'[r] = ranked[r]
      /\ ranked[r] \in Seq(Providers)
  BY <1>2 DEF RequestTypes
<1>6. reply[r] = "none"
  BY DEF Sound, Outcome, RequestTypes, Stages
<1>7. \A i \in 1..(n + 1) : i \in 1..n \/ i = n + 1
  BY <1>3
<1>8. Candidates(r)'
  BY <1>5 DEF Sound, Candidates, Open
<1>9. Follows(r)'
  <2>1. trail'[r][n + 1].provider = ranked[r][n + 1]
    BY <1>1, <1>3
  <2>2. \A i \in 1..n : trail'[r][i].provider = ranked[r][i]
    BY <1>3 DEF Sound, Follows
  <2>3. n + 1 <= Len(ranked[r])
    BY <1>1, <1>5
  <2> QED BY <1>3, <1>5, <1>7, <2>1, <2>2, <2>3 DEF Follows, Open
<1>10. Outcome(r)'
  <2>1. \A i \in 1..n : trail'[r][i].outcome # "success"
    BY <1>3, <1>6 DEF Sound, Outcome
  <2>2. \A i \in 1..(n + 1) : trail'[r][i].outcome = "success" <=> how = "ok" /\ i = n + 1
    BY <1>3, <1>7, <2>1
  <2> QED BY <1>3, <1>5, <2>2 DEF Outcome
<1>11. Heard(r)'
  BY <1>3, <1>5 DEF Heard
<1> QED BY <1>4, <1>8, <1>9, <1>10, <1>11 DEF Sound

\* Every step of a handler keeps what is true of its request.
LEMMA HandleSound ==
  ASSUME RequestTypes, NEW r \in Requests, Sound(r), Handle(r) \/ ClientGone(r)
  PROVE  Sound(r)' /\ RequestTypes'
<1>1. CASE Ask(r)
  <2>1. /\ pc[r] = "new" /\ asked[r] < Len(Combo) /\ asked' = [asked EXCEPT ![r] = @ + 1]
        /\ UNCHANGED <<pc, ranked, trail, gone, sent, reply>>
    BY <1>1 DEF Ask
  <2>2. Combo[asked[r] + 1] \in Providers /\ Len(Combo) \in Nat /\ asked[r] \in Nat
    BY <2>1, TuningFacts DEF RequestTypes
  <2>3. held' = held \/ held' = [held EXCEPT ![r] = @ \cup {Combo[asked[r] + 1]}]
    BY <1>1 DEF Ask
  <2>4. RequestTypes'
    <3>1. asked' \in [Requests -> 0..Len(Combo)]
      BY <2>1, <2>2 DEF RequestTypes
    <3>2. held' \in [Requests -> SUBSET Providers]
      <4> DEFINE mine == held[r] \cup {Combo[asked[r] + 1]}
      <4>1. held \in [Requests -> SUBSET Providers] /\ mine \in SUBSET Providers
        BY <2>2 DEF RequestTypes
      <4>2. held' = held \/ held' = [held EXCEPT ![r] = mine]
        BY <2>3
      <4> HIDE DEF mine
      <4> QED BY <4>1, <4>2
    <3> QED BY <2>1, <3>1, <3>2 DEF RequestTypes
  <2>5. asked'[r] = asked[r] + 1 /\ held'[r] \subseteq held[r] \cup {Combo[asked[r] + 1]}
    BY <2>1, <2>3 DEF RequestTypes
  <2>6. Candidates(r)'
    <3>1. \A i \in DOMAIN Combo : i > asked[r] + 1 => Combo[i] \notin held'[r]
      BY <2>1, <2>2, <2>5, TuningFacts DEF Sound, Candidates
    <3> QED BY <2>1, <2>5, <3>1 DEF Sound, Candidates, Open
  <2>7. Follows(r)' /\ Outcome(r)' /\ Heard(r)'
    BY <2>1 DEF Sound, Follows, Outcome, Heard, Current
  <2> QED BY <2>4, <2>6, <2>7 DEF Sound
<1>2. CASE Rank(r)
  <2> DEFINE eligible == held[r] \cap Capable[r]
  <2>1. /\ pc[r] = "new" /\ UNCHANGED <<asked, held, trail, gone, sent>>
    BY <1>2 DEF Rank
  <2>2. eligible \in SUBSET Providers /\ trail[r] = <<>> /\ sent[r] = {} /\ reply[r] = "none"
        /\ ranked[r] = <<>>
    BY <2>1 DEF RequestTypes, Sound, Follows, Outcome, Heard
  <2>3. CASE eligible = {}
    <3>1. /\ pc' = [pc EXCEPT ![r] = "answered"]
          /\ reply' = [reply EXCEPT ![r] = "unavailable"] /\ ranked' = ranked
      BY <1>2, <2>3 DEF Rank
    <3>2. pc'[r] = "answered" /\ reply'[r] = "unavailable"
      BY <3>1 DEF RequestTypes
    <3>3. RequestTypes'
      BY <2>1, <3>1 DEF RequestTypes, Stages, Replies
    <3> QED
      BY <2>1, <2>2, <3>1, <3>2, <3>3
      DEF Sound, Candidates, Follows, Outcome, Heard, Open
  <2>4. CASE eligible # {}
    <3>1. PICK q \in Rankings(r, eligible) :
            ranked' = [ranked EXCEPT ![r] = q] /\ pc' = [pc EXCEPT ![r] = "trying"]
            /\ reply' = reply
      BY <1>2, <2>4 DEF Rank
    <3>2. /\ q \in Seq(Providers)
          /\ \A i \in DOMAIN q : q[i] \in eligible
          /\ \A i, j \in DOMAIN q : q[i] = q[j] => i = j
      BY <2>2, RankingShape
    <3>3. pc'[r] = "trying" /\ ranked'[r] = q
      BY <3>1 DEF RequestTypes
    <3>4. RequestTypes'
      BY <2>1, <3>1, <3>2 DEF RequestTypes, Stages
    <3>5. Candidates(r)'
      BY <2>1, <3>2, <3>3 DEF Candidates, Open
    <3>6. Len(q) \in Nat /\ Len(trail[r]) = 0
      BY <2>2, <3>2
    <3>7. Follows(r)' /\ Outcome(r)' /\ Heard(r)'
      BY <2>1, <2>2, <3>1, <3>3, <3>6 DEF Follows, Outcome, Heard, Open
    <3> QED BY <3>4, <3>5, <3>7 DEF Sound
  <2> QED BY <2>3, <2>4
<1>3. CASE Connect(r)
  <2>1. /\ pc[r] = "trying" /\ Len(trail[r]) < Len(ranked[r])
        /\ \E s \in {"peeking", "draining"} : pc' = [pc EXCEPT ![r] = s]
        /\ UNCHANGED <<asked, ranked, held, trail, gone, sent, reply>>
    BY <1>3 DEF Connect, rankVars
  <2>2. RequestTypes' /\ pc'[r] \in {"peeking", "draining"}
    BY <2>1 DEF RequestTypes, Stages
  <2> QED BY <2>1, <2>2 DEF Sound, Candidates, Follows, Outcome, Heard, Open
<1>4. CASE AttemptFails(r) \/ PeekRejects(r) \/ GateRejects(r)
  <2>1. /\ pc[r] \in {"trying", "peeking", "draining"}
        /\ pc[r] = "trying" => Len(trail[r]) < Len(ranked[r])
    BY <1>4 DEF AttemptFails, PeekRejects, GateRejects
  <2>2. Len(trail[r]) < Len(ranked[r])
    BY <2>1 DEF Sound, Follows, Open
  <2>3. \E outcome \in {"error", "rejected"}, class \in Classes, left \in BOOLEAN :
          NextCandidate(r, outcome, class, left)
    <3>1. CASE AttemptFails(r)
      BY <3>1 DEF AttemptFails, Transport
    <3>2. CASE PeekRejects(r)
      BY <3>2 DEF PeekRejects, Classes, RequestTypes
    <3>3. CASE GateRejects(r)
      BY <3>3 DEF GateRejects, Classes
    <3> QED BY <1>4, <3>1, <3>2, <3>3
  <2> QED BY <2>1, <2>2, <2>3, NextSound
<1>5. CASE Commit(r)
  <2>1. /\ pc[r] = "peeking" /\ pc' = [pc EXCEPT ![r] = "streaming"]
        /\ sent' = [sent EXCEPT ![r] = @ \cup {Current(r)}]
        /\ UNCHANGED <<asked, ranked, held, trail, gone, reply>>
    BY <1>5 DEF Commit, rankVars
  <2>2. Len(trail[r]) < Len(ranked[r]) /\ sent[r] = {} /\ reply[r] = "none"
    BY <2>1 DEF Sound, Follows, Heard, Outcome, Open
  <2>3. Current(r) \in Providers
    BY <2>1, <2>2, CurrentHeld DEF Open
  <2>4. RequestTypes' /\ pc'[r] = "streaming" /\ sent'[r] = {Current(r)}
    BY <2>1, <2>2, <2>3 DEF RequestTypes, Stages
  <2>5. Current(r)' = Current(r)
    BY <2>1 DEF Current
  <2> QED BY <2>1, <2>2, <2>4, <2>5 DEF Sound, Candidates, Follows, Outcome, Heard, Open
<1>6. CASE GateAccepts(r) \/ StreamDone(r) \/ StreamBreaks(r)
  <2>1. pc[r] \in {"draining", "streaming"}
    BY <1>6 DEF GateAccepts, StreamDone, StreamBreaks
  <2>2. Len(trail[r]) < Len(ranked[r])
    BY <2>1 DEF Sound, Follows, Open
  <2>3. Current(r) \in Providers
    BY <2>1, <2>2, CurrentHeld DEF Open
  <2>4. sent' \in [Requests -> SUBSET Providers] /\ sent'[r] = {Current(r)}
    <3>1. CASE GateAccepts(r)
      <4>1. pc[r] = "draining" /\ sent' = [sent EXCEPT ![r] = @ \cup {Current(r)}]
        BY <3>1 DEF GateAccepts
      <4>2. sent[r] = {}
        BY <4>1 DEF Sound, Heard, Outcome
      <4> QED BY <2>3, <4>1, <4>2 DEF RequestTypes
    <3>2. CASE StreamDone(r) \/ StreamBreaks(r)
      BY <3>2 DEF StreamDone, StreamBreaks, Sound, Heard, RequestTypes
    <3> QED BY <1>6, <3>1, <3>2
  <2>5. \E how \in {"ok", "broken"}, t \in Attempts :
          /\ t.provider = Current(r) /\ (t.outcome = "success" <=> how = "ok")
          /\ Answer(r, how, Current(r), t)
    <3>1. CASE GateAccepts(r) \/ StreamDone(r)
      <4> DEFINE t == Attempted("success", Current(r), "none", FALSE)
      <4>1. t \in Attempts /\ t.provider = Current(r) /\ t.outcome = "success"
        BY <2>3 DEF Attempted, Attempts
      <4>2. Answer(r, "ok", Current(r), t)
        BY <3>1 DEF GateAccepts, StreamDone, Succeeds
      <4> QED BY <4>1, <4>2
    <3>2. CASE StreamBreaks(r)
      <4>1. PICK class \in Classes :
              Answer(r, "broken", Current(r), Attempted("error", Current(r), class, class = "cancelled"))
        BY <3>2 DEF StreamBreaks, Transport
      <4> DEFINE t == Attempted("error", Current(r), class, class = "cancelled")
      <4>2. t \in Attempts /\ t.provider = Current(r) /\ t.outcome = "error"
        BY <2>3 DEF Attempted, Attempts
      <4> QED BY <4>1, <4>2
    <3> QED BY <1>6, <3>1, <3>2
  <2> QED BY <2>1, <2>4, <2>5, AnswerSound
<1>7. CASE Exhausted(r)
  <2>1. /\ pc[r] = "trying" /\ Len(trail[r]) = Len(ranked[r])
        /\ pc' = [pc EXCEPT ![r] = "answered"]
        /\ \E how \in {"retry", "failed"} : reply' = [reply EXCEPT ![r] = how]
        /\ UNCHANGED <<asked, ranked, held, trail, gone, sent>>
    BY <1>7 DEF Exhausted, rankVars
  <2>2. RequestTypes' /\ pc'[r] = "answered" /\ reply'[r] \in {"retry", "failed"}
    BY <2>1 DEF RequestTypes, Stages, Replies
  <2>3. reply[r] = "none" /\ sent[r] = {}
    BY <2>1 DEF Sound, Outcome, Heard
  <2> QED BY <2>1, <2>2, <2>3 DEF Sound, Candidates, Follows, Outcome, Heard, Open
<1>8. CASE ClientGone(r)
  <2>1. gone' = [gone EXCEPT ![r] = TRUE] /\ UNCHANGED <<pc, asked, ranked, held, trail, sent, reply>>
    BY <1>8 DEF ClientGone, rankVars
  <2>2. RequestTypes'
    BY <2>1 DEF RequestTypes
  <2> QED BY <2>1, <2>2, SoundKept DEF Share
<1> QED BY <1>1, <1>2, <1>3, <1>4, <1>5, <1>6, <1>7, <1>8 DEF Handle

----------------------------------------------------------------------------
\* The entries and the memory of the router have their types; a success is
\* remembered of a provider.
LEMMA OthersTyped ==
  ASSUME GatewayInv, [Next]_vars
  PROVE  EntryTypes' /\ RouteTypes'
<1>1. EntryTypes /\ RouteTypes /\ RequestTypes /\ MaxSwitches \in Nat
      /\ 0 \in 0..Cooldown
  BY SwitchAssumption, TuningAssumption DEF GatewayInv, Types
<1>2. \A p \in Providers : entry[p] \in Entry /\ quiet[p] \in 0..Cooldown
  BY <1>1 DEF EntryTypes
<1>3. ASSUME UNCHANGED <<entry, quiet>>  PROVE EntryTypes'
  BY <1>1, <1>3 DEF EntryTypes
<1>4. ASSUME UNCHANGED routeVars  PROVE RouteTypes'
  BY <1>1, <1>4 DEF RouteTypes, routeVars
<1>5. ASSUME NEW p \in Providers, NEW e \in Entry, entry' = [entry EXCEPT ![p] = e],
             quiet' = [quiet EXCEPT ![p] = 0] \/ quiet' = quiet
      PROVE  EntryTypes'
  BY <1>1, <1>5 DEF EntryTypes
<1>6. ASSUME NEW p \in Providers, NEW class, Blame(p, class)
      PROVE  EntryTypes'
  <2>1. FailureEntry(entry[p]) \in Entry
    BY <1>2, EntryType
  <2> QED BY <1>3, <1>5, <1>6, <2>1 DEF Blame
<1>7. ASSUME NEW r \in Requests, pc[r] \in {"trying"} \cup Open,
             pc[r] = "trying" => Len(trail[r]) < Len(ranked[r])
      PROVE  Current(r) \in Providers
  <2>1. Sound(r)
    BY DEF GatewayInv, Sound
  <2>2. Len(trail[r]) < Len(ranked[r])
    BY <1>7, <2>1 DEF Sound, Follows
  <2> QED BY <1>1, <1>7, <2>1, <2>2, CurrentHeld
<1>8. ASSUME NEW r \in Requests, Succeeds(r, Current(r)), pc[r] \in Open
      PROVE  EntryTypes' /\ RouteTypes'
  <2>1. Current(r) \in Providers
    BY <1>7, <1>8 DEF Open
  <2>2. SuccessEntry(entry[Current(r)]) \in Entry
    BY <1>2, <2>1, EntryType
  <2>3. EntryTypes'
    BY <1>5, <1>8, <2>1, <2>2 DEF Succeeds
  <2>4. RecordOutcome(r, Current(r)) /\ RunOf[r] \in Runs
    BY <1>8, RequestAssumption DEF Succeeds
  <2>5. latest' \in Instances
    BY <1>1, <2>4 DEF RecordOutcome, RouteTypes
  <2>6. good' \in [Instances -> Providers \cup {None}]
    BY <1>1, <2>1, <2>4 DEF RecordOutcome, RouteTypes
  <2>7. pinned' \in [Instances -> [Runs -> Providers \cup {None}]]
    BY <1>1, <2>1, <2>4 DEF RecordOutcome, RouteTypes
  <2> QED BY <2>3, <2>5, <2>6, <2>7 DEF RouteTypes
<1>9. ASSUME NEW r \in Requests, Handle(r)  PROVE EntryTypes' /\ RouteTypes'
  <2>1. CASE Ask(r)
    <3>1. Combo[asked[r] + 1] \in Providers
      BY <1>1, <2>1, TuningFacts DEF Ask, RequestTypes
    <3>2. AllowEntry(entry[Combo[asked[r] + 1]]) \in Entry
      BY <1>2, <3>1, EntryType
    <3>3. EntryTypes'
      BY <1>3, <1>5, <2>1, <3>1, <3>2 DEF Ask
    <3> QED BY <1>4, <2>1, <3>3 DEF Ask
  <2>2. CASE Rank(r) \/ Connect(r) \/ Commit(r) \/ Exhausted(r)
    BY <1>3, <1>4, <2>2 DEF Rank, Connect, Commit, Exhausted
  <2>3. CASE AttemptFails(r) \/ PeekRejects(r) \/ GateRejects(r)
    <3>1. Current(r) \in Providers
      BY <1>7, <2>3 DEF AttemptFails, PeekRejects, GateRejects, Open
    <3>2. \E class : Blame(Current(r), class)
      BY <2>3 DEF AttemptFails, PeekRejects, GateRejects, NextCandidate
    <3>3. UNCHANGED routeVars
      BY <2>3 DEF AttemptFails, PeekRejects, GateRejects, NextCandidate
    <3> QED BY <1>4, <1>6, <3>1, <3>2, <3>3
  <2>4. CASE GateAccepts(r) \/ StreamDone(r)
    BY <1>8, <2>4 DEF GateAccepts, StreamDone, Open
  <2>5. CASE StreamBreaks(r)
    <3>1. Current(r) \in Providers
      BY <1>7, <2>5 DEF StreamBreaks, Open
    <3>2. (\E class : Blame(Current(r), class)) /\ UNCHANGED routeVars
      BY <2>5 DEF StreamBreaks
    <3> QED BY <1>4, <1>6, <3>1, <3>2
  <2> QED BY <1>9, <2>1, <2>2, <2>3, <2>4, <2>5 DEF Handle
<1>10. ASSUME NEW r \in Requests, ClientGone(r)  PROVE EntryTypes' /\ RouteTypes'
  BY <1>3, <1>4, <1>10 DEF ClientGone
<1>11. ASSUME NEW name \in Selectable, SetStrategy(name)  PROVE EntryTypes' /\ RouteTypes'
  <2>1. latest' \in Instances
    BY <1>1, <1>11 DEF SetStrategy, RouteTypes, Instances
  <2> QED BY <1>1, <1>3, <1>11, <2>1 DEF SetStrategy, RouteTypes
<1>12. CASE Tick
  <2>1. \A p \in Providers : Age(entry[p]) \in Entry /\ Up(quiet[p], Cooldown) \in 0..Cooldown
    BY <1>2, EntryType, TuningAssumption DEF Up
  <2>2. EntryTypes'
    BY <1>12, <2>1 DEF Tick, EntryTypes
  <2> QED BY <1>4, <1>12, <2>2 DEF Tick
<1>13. CASE UNCHANGED vars
  BY <1>3, <1>4, <1>13 DEF vars
<1> QED BY <1>9, <1>10, <1>11, <1>12, <1>13 DEF Next

LEMMA GatewayStep ==
  ASSUME GatewayInv, [Next]_vars
  PROVE  GatewayInv'
<1>1. RequestTypes /\ \A s \in Requests : Sound(s)
  BY DEF GatewayInv, Types, Sound
<1>2. RequestTypes' /\ \A s \in Requests : Sound(s)'
  <2>1. ASSUME NEW r \in Requests, Handle(r) \/ ClientGone(r)
        PROVE  RequestTypes' /\ \A s \in Requests : Sound(s)'
    <3>1. RequestTypes' /\ Sound(r)'
      BY <1>1, <2>1, HandleSound
    <3>2. ASSUME NEW s \in Requests, s # r  PROVE Sound(s)'
      BY <1>1, <2>1, <3>2, Alone, SoundKept
    <3> QED BY <3>1, <3>2
  <2>2. ASSUME UNCHANGED <<pc, asked, ranked, held, trail, gone, sent, reply>>
        PROVE  RequestTypes' /\ \A s \in Requests : Sound(s)'
    <3>1. RequestTypes'
      BY <1>1, <2>2 DEF RequestTypes
    <3>2. \A s \in Requests : Share(s)' = Share(s)
      BY <2>2 DEF Share
    <3> QED BY <1>1, <3>1, <3>2, SoundKept
  <2>3. CASE Tick \/ (\E name \in Selectable : SetStrategy(name)) \/ UNCHANGED vars
    BY <2>2, <2>3 DEF Tick, SetStrategy, vars, rankVars
  <2> QED BY <2>1, <2>3 DEF Next
<1> QED BY <1>2, OthersTyped DEF GatewayInv, Types, Sound

\* What every behaviour of the gateway keeps.
THEOREM GatewayInvariance == Spec => []GatewayInv
<1>1. Init => GatewayInv
  <2> SUFFICES ASSUME Init PROVE GatewayInv
    OBVIOUS
  <2>1. NewEntry \in Entry /\ Cooldown \in 0..Cooldown
    BY TuningAssumption DEF NewEntry, Entry
  <2>2. EntryTypes
    BY <2>1 DEF Init, EntryTypes
  <2>3. RouteTypes
    BY SwitchAssumption DEF Init, RouteTypes, Instances
  <2>4. 0 \in 0..Len(Combo)
    BY TuningFacts
  <2>5. RequestTypes
    BY <2>4 DEF Init, RequestTypes, Stages, Replies
  <2>6. \A r \in Requests : Candidates(r) /\ Follows(r) /\ Outcome(r) /\ Heard(r)
    BY DEF Init, Candidates, Follows, Outcome, Heard, Open
  <2> QED BY <2>2, <2>3, <2>5, <2>6 DEF GatewayInv, Types
<1>2. GatewayInv /\ [Next]_vars => GatewayInv'
  BY GatewayStep
<1> QED BY <1>1, <1>2, PTL DEF Spec

\* A client hears one provider, for every ranking and every way the attempts
\* end (streamResponse, BoundedPeek: no fallback after commit).
THEOREM ClientsHearOneProvider == Spec => []OneVoice
<1>1. GatewayInv => OneVoice
  <2> SUFFICES ASSUME GatewayInv, NEW r \in Requests, sent[r] # {}
               PROVE  /\ Cardinality(sent[r]) = 1
                      /\ pc[r] = "streaming" => sent[r] = {Current(r)}
                      /\ pc[r] = "answered" => sent[r] = {Last(trail[r]).provider}
                      /\ pc[r] \in {"streaming", "answered"}
    BY DEF OneVoice
  <2>1. Heard(r) /\ Outcome(r) /\ pc[r] \in Stages
    BY DEF GatewayInv, Types, RequestTypes
  <2>2. (\E p : sent[r] = {p}) /\ pc[r] \in {"streaming", "answered"}
    BY <2>1 DEF Heard, Outcome
  <2>3. Cardinality(sent[r]) = 1
    BY <2>2, FS_Singleton
  <2> QED BY <2>1, <2>2, <2>3 DEF Heard, Outcome
<1> QED BY <1>1, GatewayInvariance, PTL

\* The trail in a reply is the whole truth about its attempts (errorAttempt,
\* finalize, writeGatewayError).
THEOREM TrailsTellAll == Spec => []TrailTellsAll
<1>1. GatewayInv => TrailTellsAll
  <2> SUFFICES ASSUME GatewayInv, NEW r \in Requests
               PROVE  /\ \A i \in DOMAIN trail[r] :
                           /\ trail[r][i].provider = ranked[r][i]
                           /\ trail[r][i].outcome = "success" <=>
                                reply[r] = "ok" /\ i = Len(trail[r])
                      /\ reply[r] = "ok" => trail[r] # <<>>
                      /\ reply[r] \in {"retry", "failed"} =>
                           Len(trail[r]) = Len(ranked[r]) /\ sent[r] = {}
    BY DEF TrailTellsAll
  <2>1. Heard(r) /\ Outcome(r) /\ Follows(r)
    BY DEF GatewayInv
  <2> QED BY <2>1 DEF Heard, Outcome, Follows
<1> QED BY <1>1, GatewayInvariance, PTL
----------------------------------------------------------------------------
\* A request that was answered well stays so.
LEMMA WinsLast ==
  ASSUME GatewayInv, [Next]_vars, NEW s \in Requests, reply[s] = "ok"
  PROVE  reply'[s] = "ok" /\ trail'[s] = trail[s]
<1>1. pc[s] = "answered" /\ RequestTypes
  BY DEF GatewayInv, Types, Outcome
<1>2. ~Handle(s) /\ ~ClientGone(s)
  BY <1>1 DEF Handle, ClientGone, Ask, Rank, Connect, AttemptFails, PeekRejects, GateRejects,
     GateAccepts, Commit, StreamDone, StreamBreaks, Exhausted
<1>3. ASSUME NEW r \in Requests, Handle(r) \/ ClientGone(r)
      PROVE  reply'[s] = reply[s] /\ trail'[s] = trail[s]
  <2>1. s # r
    BY <1>2, <1>3
  <2> QED BY <1>1, <1>3, <2>1, Alone DEF Share
<1>4. CASE Tick \/ (\E name \in Selectable : SetStrategy(name)) \/ UNCHANGED vars
  BY <1>4 DEF Tick, SetStrategy, vars, rankVars
<1> QED BY <1>3, <1>4 DEF Next

\* After the step, p is the winner of r.
Wins(r, p) == reply'[r] = "ok" /\ Last(trail'[r]).provider = p

\* The winner a step records has just won.
LEMMA RecordsWinner ==
  ASSUME GatewayInv, NEW r \in Requests, pc[r] \in Open, Succeeds(r, Current(r))
  PROVE  Wins(r, Current(r))
<1>1. RequestTypes /\ Sound(r)
  BY DEF GatewayInv, Types, Sound
<1>2. Len(trail[r]) < Len(ranked[r])
  BY <1>1 DEF Sound, Follows
<1> DEFINE t == Attempted("success", Current(r), "none", FALSE)
<1>3. t \in Attempts /\ t.provider = Current(r)
  BY <1>1, <1>2, CurrentHeld DEF Attempted, Attempts
<1>4. trail' = [trail EXCEPT ![r] = Append(@, t)] /\ reply' = [reply EXCEPT ![r] = "ok"]
  BY DEF Succeeds, Answer
<1>5. Last(trail'[r]) = t /\ reply'[r] = "ok"
  BY <1>1, <1>3, <1>4, TrailGrows DEF RequestTypes
<1> QED BY <1>3, <1>5 DEF Wins

\* Only a success teaches the router: the rest leaves its memory alone.
LEMMA OnlySuccessTeaches ==
  ASSUME [Next]_vars, ~(UNCHANGED <<good, pinned>>)
  PROVE  \E r \in Requests : pc[r] \in Open /\ Succeeds(r, Current(r))
<1>1. ASSUME NEW r \in Requests, Handle(r)
      PROVE  pc[r] \in Open /\ Succeeds(r, Current(r))
  <2>1. ~Ask(r) /\ ~Rank(r) /\ ~Connect(r) /\ ~Commit(r) /\ ~Exhausted(r)
    BY DEF Ask, Rank, Connect, Commit, Exhausted, routeVars
  <2>2. ~AttemptFails(r) /\ ~PeekRejects(r) /\ ~GateRejects(r) /\ ~StreamBreaks(r)
    BY DEF AttemptFails, PeekRejects, GateRejects, StreamBreaks, NextCandidate, routeVars
  <2> QED BY <1>1, <2>1, <2>2 DEF Handle, GateAccepts, StreamDone, Open
<1>2. \A r \in Requests : ~ClientGone(r)
  BY DEF ClientGone, routeVars
<1>3. ~Tick /\ (\A name \in Selectable : ~SetStrategy(name)) /\ ~UNCHANGED vars
  BY DEF Tick, SetStrategy, vars, routeVars
<1> QED BY <1>1, <1>2, <1>3 DEF Next

\* Pins and the last-known-good provider name winners, however strategies are
\* switched between a ranking and its outcome (finalize, RecordOutcome).
THEOREM OnlyWinnersRemembered == Spec => []WinnersCompleted
<1>1. Init => WinnersCompleted
  BY DEF Init, WinnersCompleted
<1>2. WinnersCompleted /\ GatewayInv /\ [Next]_vars => WinnersCompleted'
  <2> SUFFICES ASSUME WinnersCompleted, GatewayInv, [Next]_vars
               PROVE  WinnersCompleted'
    OBVIOUS
  <2>1. ASSUME NEW s \in Requests, NEW p, Won(s, p)  PROVE Wins(s, p)
    BY <2>1, WinsLast DEF Won, Wins
  <2>2. CASE UNCHANGED <<good, pinned>>
    BY <2>1, <2>2 DEF WinnersCompleted, Won, Wins
  <2>3. CASE ~(UNCHANGED <<good, pinned>>)
    <3>1. PICK r \in Requests : pc[r] \in Open /\ Succeeds(r, Current(r))
      BY <2>3, OnlySuccessTeaches
    <3> DEFINE p == Current(r)
    <3>2. Wins(r, p)
      BY <3>1, RecordsWinner
    <3>3. latest \in Instances /\ RouteTypes /\ RunOf[r] \in Runs
      BY RequestAssumption DEF GatewayInv, Types, RouteTypes
    <3>4. RecordOutcome(r, p)
      BY <3>1 DEF Succeeds
    <3> HIDE DEF p
    <3>5. \A i \in Instances : good'[i] = good[i] \/ good'[i] = p
      BY <3>3, <3>4 DEF RecordOutcome, RouteTypes
    <3>6. \A i \in Instances : \A k \in Runs :
            pinned'[i][k] = pinned[i][k] \/ (k = RunOf[r] /\ pinned'[i][k] = p)
      BY <3>3, <3>4 DEF RecordOutcome, RouteTypes
    <3>7. ASSUME NEW i \in Instances
          PROVE  good'[i] = None \/ \E s \in Requests : Wins(s, good'[i])
      BY <2>1, <3>2, <3>5 DEF WinnersCompleted
    <3>8. ASSUME NEW i \in Instances, NEW k \in Runs
          PROVE  \/ pinned'[i][k] = None
                 \/ \E s \in Requests : RunOf[s] = k /\ Wins(s, pinned'[i][k])
      BY <2>1, <3>2, <3>6 DEF WinnersCompleted
    <3> QED BY <3>7, <3>8 DEF WinnersCompleted, Won, Wins
  <2> QED BY <2>2, <2>3
<1> QED BY <1>1, <1>2, GatewayInvariance, PTL DEF Spec
----------------------------------------------------------------------------
\* What one provider's breaker sees: nothing, an admission, or a report.
LEMMA Stutters ==
  ASSUME NEW p \in Providers, entry'[p] = entry[p], quiet'[p] = quiet[p],
         \A c \in Requests : p \in held'[c] <=> p \in held[c]
  PROVE  [B(p)!Next]_(B(p)!vars)
<1>1. EvidenceOn(p)' = EvidenceOn(p)
  BY DEF EvidenceOn
<1>2. CallersOf(p)' = CallersOf(p)
  BY DEF CallersOf
<1> QED BY <1>1, <1>2 DEF B!vars

LEMMA Asked ==
  ASSUME EntryTypes, NEW p \in Providers, NEW r \in Requests,
         p \notin held[r], Admits(entry[p]),
         entry' = [entry EXCEPT ![p] = AllowEntry(@)], quiet' = [quiet EXCEPT ![p] = 0],
         held' = [held EXCEPT ![r] = @ \cup {p}], held \in [Requests -> SUBSET Providers]
  PROVE  B(p)!Next
<1>1. entry'[p] = AllowEntry(entry[p]) /\ quiet'[p] = 0 /\ entry[p] \in Entry
  BY DEF EntryTypes
<1>2. EvidenceOn(p)' = EvidenceOn(p)
  BY <1>1 DEF EvidenceOn, AllowEntry
<1>3. CallersOf(p)' = [CallersOf(p) EXCEPT ![r] = "calling"]
  BY DEF CallersOf
<1>4. CallersOf(p)[r] = "idle"
  BY DEF CallersOf
<1>5. B(p)!Ask(r)
  BY <1>1, <1>2, <1>3, <1>4 DEF B!Ask, B!Admits, B!AllowEntry, Admits, AllowEntry
<1> QED BY <1>5 DEF B!Next

\* A request lets go of the current provider, with or without a report.
LEMMA Returned ==
  ASSUME EntryTypes, NEW p \in Providers, NEW r \in Requests, p \in held[r],
         held' = [held EXCEPT ![r] = @ \ {p}], held \in [Requests -> SUBSET Providers],
         \/ UNCHANGED <<entry, quiet>>
         \/ entry' = [entry EXCEPT ![p] = FailureEntry(@)] /\ quiet' = [quiet EXCEPT ![p] = 0]
         \/ entry' = [entry EXCEPT ![p] = SuccessEntry(@)] /\ UNCHANGED quiet
  PROVE  B(p)!Next
<1>1. entry[p] \in Entry /\ Threshold \in Nat \ {0}
  BY TuningAssumption DEF EntryTypes
<1>2. entry[p].fails \in 0..Threshold /\ entry[p].state \in {"closed", "open", "halfOpen"}
  BY <1>1 DEF Entry
<1>3. CallersOf(p)[r] = "calling" /\ CallersOf(p)' = [CallersOf(p) EXCEPT ![r] = "idle"]
  BY DEF CallersOf
<1>4. CASE UNCHANGED <<entry, quiet>>
  <2>1. EvidenceOn(p)' = EvidenceOn(p)
    BY <1>4 DEF EvidenceOn
  <2>2. B(p)!NoReport(r)
    BY <1>3, <1>4, <2>1 DEF B!NoReport, B!Return
  <2> QED BY <2>2 DEF B!Next
<1>5. CASE entry' = [entry EXCEPT ![p] = FailureEntry(@)] /\ quiet' = [quiet EXCEPT ![p] = 0]
  <2>1. entry'[p] = FailureEntry(entry[p]) /\ quiet'[p] = 0
    BY <1>5 DEF EntryTypes
  <2>2. EvidenceOn(p)' = Up(EvidenceOn(p), Threshold)
    BY <1>1, <1>2, <2>1 DEF EvidenceOn, FailureEntry, Up, Entry
  <2>3. B(p)!ReportFailure(r)
    BY <1>3, <2>1, <2>2
    DEF B!ReportFailure, B!Return, B!FailureEntry, B!Up, FailureEntry, Up
  <2> QED BY <2>3 DEF B!Next
<1>6. CASE entry' = [entry EXCEPT ![p] = SuccessEntry(@)] /\ UNCHANGED quiet
  <2>1. entry'[p] = SuccessEntry(entry[p])
    BY <1>6 DEF EntryTypes
  <2>2. EvidenceOn(p)' = 0
    BY <2>1 DEF EvidenceOn, SuccessEntry
  <2>3. B(p)!ReportSuccess(r)
    BY <1>3, <1>6, <2>1, <2>2 DEF B!ReportSuccess, B!Return, B!SuccessEntry, SuccessEntry
  <2> QED BY <2>3 DEF B!Next
<1> QED BY <1>4, <1>5, <1>6

LEMMA Ticked ==
  ASSUME EntryTypes, NEW p \in Providers, Tick
  PROVE  B(p)!Next
<1>1. entry'[p] = Age(entry[p]) /\ quiet'[p] = Up(quiet[p], Cooldown) /\ UNCHANGED held
  BY DEF Tick
<1>2. EvidenceOn(p)' = EvidenceOn(p) /\ CallersOf(p)' = CallersOf(p)
  BY <1>1 DEF EvidenceOn, CallersOf, Age
<1>3. B(p)!Tick
  BY <1>1, <1>2 DEF B!Tick, B!Age, B!Up, Age, Up
<1> QED BY <1>3 DEF B!Next

\* Of the other providers a handler's step leaves everything alone.
LEMMA OthersStutter ==
  ASSUME EntryTypes, RequestTypes, NEW r \in Requests, NEW q \in Providers,
         NEW p \in Providers, p # q,
         held' = held \/ (\E h : held' = [held EXCEPT ![r] = h]
                             /\ (p \in h <=> p \in held[r])),
         entry' = entry \/ (\E e : entry' = [entry EXCEPT ![q] = e]),
         quiet' = quiet \/ (\E n : quiet' = [quiet EXCEPT ![q] = n])
  PROVE  [B(p)!Next]_(B(p)!vars)
<1>1. entry'[p] = entry[p] /\ quiet'[p] = quiet[p]
  BY DEF EntryTypes
<1>2. \A c \in Requests : p \in held'[c] <=> p \in held[c]
  BY DEF RequestTypes
<1> QED BY <1>1, <1>2, Stutters

\* One step of a handler, as one provider's breaker sees it.
LEMMA HandleSeen ==
  ASSUME GatewayInv, NEW r \in Requests, Handle(r), NEW p \in Providers
  PROVE  [B(p)!Next]_(B(p)!vars)
<1>1. EntryTypes /\ RequestTypes /\ Sound(r) /\ held \in [Requests -> SUBSET Providers]
  BY DEF GatewayInv, Types, RequestTypes, Sound
<1>2. CASE Ask(r)
  <2> DEFINE q == Combo[asked[r] + 1]
  <2>1. q \in Providers /\ q \notin held[r]
    <3>1. pc[r] = "new" /\ asked[r] \in Nat /\ asked[r] + 1 \in DOMAIN Combo
      BY <1>1, <1>2, TuningFacts DEF Ask, RequestTypes
    <3>2. asked[r] + 1 > asked[r]
      BY <3>1
    <3> QED BY <1>1, <3>1, <3>2, TuningFacts DEF Sound, Candidates
  <2>2. \/ UNCHANGED <<entry, quiet, held>>
        \/ /\ Admits(entry[q]) /\ entry' = [entry EXCEPT ![q] = AllowEntry(@)]
           /\ quiet' = [quiet EXCEPT ![q] = 0] /\ held' = [held EXCEPT ![r] = @ \cup {q}]
    BY <1>2 DEF Ask
  <2> HIDE DEF q
  <2>3. CASE UNCHANGED <<entry, quiet, held>>
    BY <2>3, Stutters
  <2>4. CASE ~(UNCHANGED <<entry, quiet, held>>) /\ p = q
    BY <1>1, <2>1, <2>2, <2>4, Asked
  <2>5. CASE ~(UNCHANGED <<entry, quiet, held>>) /\ p # q
    BY <1>1, <2>1, <2>2, <2>5, OthersStutter
  <2> QED BY <2>3, <2>4, <2>5
<1>3. CASE Rank(r) \/ Connect(r) \/ Commit(r) \/ Exhausted(r)
  <2>1. UNCHANGED <<entry, quiet, held>>
    BY <1>3 DEF Rank, Connect, Commit, Exhausted
  <2> QED BY <2>1, Stutters
<1>4. CASE \/ AttemptFails(r) \/ PeekRejects(r) \/ GateRejects(r)
           \/ GateAccepts(r) \/ StreamDone(r) \/ StreamBreaks(r)
  <2> DEFINE q == Current(r)
  <2>1. pc[r] \in {"trying"} \cup Open /\ Len(trail[r]) < Len(ranked[r])
    <3>1. /\ pc[r] \in {"trying"} \cup Open
          /\ pc[r] = "trying" => Len(trail[r]) < Len(ranked[r])
      BY <1>4 DEF AttemptFails, PeekRejects, GateRejects, GateAccepts, StreamDone,
         StreamBreaks, Open
    <3> QED BY <1>1, <3>1 DEF Sound, Follows
  <2>2. q \in Providers /\ q \in held[r]
    BY <1>1, <2>1, CurrentHeld
  <2>3. /\ held' = [held EXCEPT ![r] = @ \ {q}]
        /\ \/ UNCHANGED <<entry, quiet>>
           \/ entry' = [entry EXCEPT ![q] = FailureEntry(@)] /\ quiet' = [quiet EXCEPT ![q] = 0]
           \/ entry' = [entry EXCEPT ![q] = SuccessEntry(@)] /\ UNCHANGED quiet
    <3>1. CASE AttemptFails(r) \/ PeekRejects(r) \/ GateRejects(r)
      BY <3>1 DEF AttemptFails, PeekRejects, GateRejects, NextCandidate, Blame
    <3>2. CASE GateAccepts(r) \/ StreamDone(r)
      BY <3>2 DEF GateAccepts, StreamDone, Succeeds, Answer
    <3>3. CASE StreamBreaks(r)
      BY <3>3 DEF StreamBreaks, Answer, Blame
    <3> QED BY <1>4, <3>1, <3>2, <3>3
  <2> HIDE DEF q
  <2>4. CASE p = q
    BY <1>1, <2>2, <2>3, <2>4, Returned
  <2>5. CASE p # q
    <3>1. \E h : held' = [held EXCEPT ![r] = h] /\ (p \in h <=> p \in held[r])
      BY <2>3, <2>5
    <3>2. entry' = entry \/ \E e : entry' = [entry EXCEPT ![q] = e]
      BY <2>3
    <3>3. quiet' = quiet \/ \E n : quiet' = [quiet EXCEPT ![q] = n]
      BY <2>3
    <3> QED BY <1>1, <2>2, <2>5, <3>1, <3>2, <3>3, OthersStutter
  <2> QED BY <2>4, <2>5
<1> QED BY <1>2, <1>3, <1>4 DEF Handle

\* Gateway implements Breaker for each provider: a report answers an admission
\* and each admission is reported at most once, whatever else the executor does.
THEOREM EachBreakerSeesItsProtocol == Spec => BreakerContract
<1>1. Init => \A p \in Providers : B(p)!Init
  <2> SUFFICES ASSUME Init, NEW p \in Providers PROVE B(p)!Init
    OBVIOUS
  <2>1. entry[p] = NewEntry /\ quiet[p] = Cooldown /\ \A r \in Requests : held[r] = {}
    BY DEF Init
  <2>2. EvidenceOn(p) = 0 /\ CallersOf(p) = [c \in Requests |-> "idle"]
    BY <2>1 DEF EvidenceOn, CallersOf, NewEntry
  <2> QED BY <2>1, <2>2 DEF B!Init, B!NewEntry, NewEntry
<1>2. GatewayInv /\ [Next]_vars => [\A p \in Providers : [B(p)!Next]_(B(p)!vars)]_vars
  <2> SUFFICES ASSUME GatewayInv, Next, NEW p \in Providers
               PROVE  [B(p)!Next]_(B(p)!vars)
    OBVIOUS
  <2>1. ASSUME NEW r \in Requests, Handle(r)  PROVE [B(p)!Next]_(B(p)!vars)
    BY <2>1, HandleSeen
  <2>2. ASSUME NEW r \in Requests, ClientGone(r)  PROVE [B(p)!Next]_(B(p)!vars)
    BY <2>2, Stutters DEF ClientGone
  <2>3. ASSUME NEW name \in Selectable, SetStrategy(name)  PROVE [B(p)!Next]_(B(p)!vars)
    BY <2>3, Stutters DEF SetStrategy
  <2>4. CASE Tick
    BY <2>4, Ticked DEF GatewayInv, Types
  <2> QED BY <2>1, <2>2, <2>3, <2>4 DEF Next
<1> QED BY <1>1, <1>2, GatewayInvariance, PTL DEF Spec, BreakerContract
=============================================================================
