----------------------------- MODULE TurnsProof -----------------------------
(***************************************************************************)
(* Proofs about Turns for every set of sessions, turns, requests and       *)
(* steering messages, every cap, buffer and budget.                        *)
(***************************************************************************)
EXTENDS Turns, ListsProof, SequenceTheorems

\* The replay keeps a suffix of the log (turn.publish's trimming loop ends
\* inside the log), and drops no more than it must.
LEMMA TrimInLog ==
  ASSUME NEW l \in Seq(Kinds), NEW b \in Nat, b <= Len(l)
  PROVE  /\ Trim(l, b) \in b..Len(l)
         /\ \A j \in b..Len(l) : Fits(l, j) => Trim(l, b) <= j
<1>. DEFINE S == {k \in b..Len(l) : Fits(l, k)}
<1>1. Len(l) \in Nat
  OBVIOUS
<1>2. Len(l) \in S
  BY <1>1 DEF Fits
<1>3. S \in SUBSET Nat
  BY <1>1
<1>4. PICK x \in S : \A y \in S : x <= y
  <2>. HIDE DEF S
  <2>. QED  BY <1>2, <1>3, LeastMember
<1>5. x \in b..Len(l) /\ Fits(l, x) /\ \A j \in b..Len(l) : Fits(l, j) => x <= j
  BY <1>4
<1>. QED  BY <1>5 DEF Trim

----------------------------------------------------------------------------
\* What ties the registry, the goroutines and the handlers together.
Registry ==
  /\ \A s \in Sessions : reg[s] # None => pc[reg[s]] # "unborn" /\ sess[reg[s]] = s
  /\ \A t \in Turns : pc[t] # "unborn" => sess[t] \in Sessions
  /\ \A t \in Turns : done[t] <=> pc[t] \in {"finished", "retired"}
  /\ ActiveReachable

Handlers ==
  /\ \A c \in Conns : req[c] \notin {"new", "refused"} => on[c] \in Turns
  /\ \A m \in Steers : steer[m] \notin {"new", "refused"} =>
                         aim[m] \in Turns /\ pc[aim[m]] # "unborn"
  /\ \A t \in Turns : base[t] <= Len(log[t])

IInv == TypeOK /\ Registry /\ Handlers

\* publish keeps the types of what it writes, and the replay inside the log.
LEMMA PublishType ==
  ASSUME TypeOK, Handlers, NEW t \in Turns, NEW kind \in Kinds, Publish(t, kind)
  PROVE  /\ log' \in [Turns -> Seq(Kinds)]
         /\ base' \in [Turns -> Nat]
         /\ live' \in [Conns -> Seq(Nat)]
         /\ missed' \in [Conns -> SUBSET Nat]
         /\ \A u \in Turns : base'[u] <= Len(log'[u])
<1>. DEFINE l == Append(log[t], kind)
<1>1. log[t] \in Seq(Kinds) /\ base[t] \in Nat /\ base[t] <= Len(log[t])
  BY DEF TypeOK, Handlers
<1>2. l \in Seq(Kinds) /\ Len(l) = Len(log[t]) + 1 /\ Len(log[t]) \in Nat
  BY <1>1
<1>3. Trim(l, base[t]) \in base[t]..Len(l)
  <2>. HIDE DEF l
  <2>. QED  BY <1>1, <1>2, TrimInLog
<1>4. CASE done[t]
  BY <1>4 DEF Publish, frameVars, TypeOK, Handlers
<1>5. CASE ~done[t]
  <2>1. /\ log'  = [log EXCEPT ![t] = l]
        /\ base' = [base EXCEPT ![t] = Trim(l, base[t])]
        /\ live' = [c \in Conns |-> IF c \in subs[t] /\ HasRoom(c)
                                    THEN Append(live[c], Len(l)) ELSE live[c]]
        /\ missed' = [c \in Conns |-> IF c \in subs[t] /\ ~HasRoom(c)
                                      THEN missed[c] \cup {Len(l)} ELSE missed[c]]
    BY <1>5 DEF Publish
  <2>. HIDE DEF l
  <2>2. log' \in [Turns -> Seq(Kinds)] /\ base' \in [Turns -> Nat]
    BY <2>1, <1>2, <1>3 DEF TypeOK
  <2>3. live' \in [Conns -> Seq(Nat)] /\ missed' \in [Conns -> SUBSET Nat]
    BY <2>1, <1>2 DEF TypeOK
  <2>4. \A u \in Turns : base'[u] <= Len(log'[u])
    BY <2>1, <1>2, <1>3 DEF TypeOK, Handlers
  <2>. QED  BY <2>2, <2>3, <2>4
<1>. QED  BY <1>4, <1>5

\* Draining keeps the types of what it writes, whether or not it succeeds.
LEMMA DrainType ==
  ASSUME TypeOK, Handlers, NEW t \in Turns, sess[t] \in Sessions,
         \E next \in {"calling", "answered", "boundary"} : DrainTo(t, next) \/ DrainFails(t)
  PROVE  /\ queue' \in [Sessions -> Seq(Steers)]
         /\ history' \in [Sessions -> Seq(Steers)]
         /\ lost' \in SUBSET Steers
         /\ pc' \in [Turns -> {"unborn", "boundary", "calling", "answered", "failing",
                               "closing", "finished", "retired"}]
         /\ log' \in [Turns -> Seq(Kinds)]
         /\ base' \in [Turns -> Nat]
         /\ live' \in [Conns -> Seq(Nat)]
         /\ missed' \in [Conns -> SUBSET Nat]
         /\ \A u \in Turns : base'[u] <= Len(log'[u])
<1>. DEFINE q == queue[sess[t]]
<1>1. q \in Seq(Steers) /\ history[sess[t]] \in Seq(Steers)
  BY DEF TypeOK
<1>2. ASSUME NEW next \in {"calling", "answered", "boundary"}, DrainTo(t, next)
      PROVE  /\ queue' \in [Sessions -> Seq(Steers)]
             /\ history' \in [Sessions -> Seq(Steers)]
             /\ lost' \in SUBSET Steers
             /\ pc' \in [Turns -> {"unborn", "boundary", "calling", "answered", "failing",
                                   "closing", "finished", "retired"}]
             /\ UNCHANGED frameVars \/ Publish(t, "notice")
  BY <1>1, <1>2 DEF DrainTo, TypeOK
<1>3. ASSUME DrainFails(t)
      PROVE  /\ queue' \in [Sessions -> Seq(Steers)]
             /\ history' \in [Sessions -> Seq(Steers)]
             /\ lost' \in SUBSET Steers
             /\ pc' \in [Turns -> {"unborn", "boundary", "calling", "answered", "failing",
                                   "closing", "finished", "retired"}]
             /\ UNCHANGED frameVars
  <2>1. PICK n \in 0..(Len(q) - 1) :
          /\ queue'   = [queue EXCEPT ![sess[t]] = <<>>]
          /\ history' = [history EXCEPT ![sess[t]] = @ \o SubSeq(q, 1, n)]
          /\ lost'    = lost \cup {q[i] : i \in (n + 1)..Len(q)}
          /\ pc'      = [pc EXCEPT ![t] = "failing"]
          /\ UNCHANGED frameVars
    BY <1>3 DEF DrainFails
  <2>2. SubSeq(q, 1, n) \in Seq(Steers) /\ \A i \in (n + 1)..Len(q) : q[i] \in Steers
    BY <1>1
  <2>3. history[sess[t]] \o SubSeq(q, 1, n) \in Seq(Steers)
    BY <1>1, <2>2
  <2>. HIDE DEF q
  <2>. QED  BY <2>1, <2>2, <2>3 DEF TypeOK
<1>4. UNCHANGED frameVars \/ Publish(t, "notice")
  BY <1>2, <1>3
<1>5. /\ log' \in [Turns -> Seq(Kinds)]
      /\ base' \in [Turns -> Nat]
      /\ live' \in [Conns -> Seq(Nat)]
      /\ missed' \in [Conns -> SUBSET Nat]
      /\ \A u \in Turns : base'[u] <= Len(log'[u])
  <2>1. "notice" \in Kinds
    BY DEF Kinds
  <2>2. CASE UNCHANGED frameVars
    BY <2>2 DEF frameVars, TypeOK, Handlers
  <2>. QED  BY <1>4, <2>1, <2>2, PublishType
<1>. QED  BY <1>2, <1>3, <1>5

----------------------------------------------------------------------------
LEMMA TypeStep ==
  ASSUME IInv, [Next]_vars
  PROVE  TypeOK'
<1>. USE DEF IInv
<1>1. ASSUME NEW c \in Conns, NEW s \in Sessions, NEW t \in Turns, Post(c, s, t)  PROVE TypeOK'
  BY <1>1 DEF Post, TypeOK, Handlers, turnVars, frameVars, connVars, steerVars
<1>2. ASSUME NEW c \in Conns, NEW s \in Sessions, Attach(c, s)  PROVE TypeOK'
  BY <1>2 DEF Attach, TypeOK, Handlers, turnVars, frameVars, connVars, steerVars
<1>3. ASSUME NEW c \in Conns, NEW s \in Sessions, Refused(c, s)  PROVE TypeOK'
  BY <1>3 DEF Refused, TypeOK, Handlers, turnVars, frameVars, connVars, steerVars
<1>4. ASSUME NEW c \in Conns, Subscribe(c)  PROVE TypeOK'
  <2>1. on[c] \in Turns
    BY <1>4 DEF Subscribe, Handlers
  <2>2. base[on[c]] \in Nat /\ Len(log[on[c]]) - base[on[c]] \in Nat
    BY <2>1 DEF TypeOK, Handlers
  <2>3. replay' \in [Conns -> Seq(Nat)]
    <3>. DEFINE n == Len(log[on[c]]) - base[on[c]]
                notice == IF base[on[c]] > 0 THEN <<0>> ELSE <<>>
                kept == [i \in 1..n |-> base[on[c]] + i]
    <3>1. kept \in Seq(Nat)
      BY <2>2
    <3>2. notice \o kept \in Seq(Nat)
      BY <3>1
    <3>3. replay' = [replay EXCEPT ![c] = notice \o kept]
      BY <1>4 DEF Subscribe
    <3>. HIDE DEF kept, notice
    <3>. QED  BY <3>2, <3>3 DEF TypeOK
  <2>4. UNCHANGED <<turnVars, frameVars, done, closes, on, alive, got, steerVars>>
        /\ req' = [req EXCEPT ![c] = "streaming"]
        /\ from' = [from EXCEPT ![c] = base[on[c]]]
        /\ subs' = [subs EXCEPT ![on[c]] = IF done[on[c]] THEN @ ELSE @ \cup {c}]
    BY <1>4 DEF Subscribe
  <2>. QED  BY <2>1, <2>2, <2>3, <2>4 DEF TypeOK, turnVars, frameVars, steerVars
<1>5. ASSUME NEW c \in Conns, WriteReplay(c)  PROVE TypeOK'
  <2>1. replay[c] \in Seq(Nat) /\ replay[c] # <<>>
    BY <1>5 DEF WriteReplay, TypeOK
  <2>2. Head(replay[c]) \in Nat /\ Tail(replay[c]) \in Seq(Nat)
    BY <2>1
  <2>3. replay' \in [Conns -> Seq(Nat)]
    BY <1>5, <2>2 DEF WriteReplay, TypeOK
  <2>4. got' \in [Conns -> Seq(Nat)]
    <3>1. got \in [Conns -> Seq(Nat)] /\ Append(got[c], Head(replay[c])) \in Seq(Nat)
      BY <2>2 DEF TypeOK
    <3>. QED  BY <1>5, <3>1 DEF WriteReplay, Deliver
  <2>. QED  BY <1>5, <2>3, <2>4 DEF WriteReplay, TypeOK, turnVars, frameVars, steerVars
<1>6. ASSUME NEW c \in Conns, WriteLive(c)  PROVE TypeOK'
  <2>1. live[c] \in Seq(Nat) /\ live[c] # <<>>
    BY <1>6 DEF WriteLive, TypeOK
  <2>2. Head(live[c]) \in Nat /\ Tail(live[c]) \in Seq(Nat)
    BY <2>1
  <2>3. live' \in [Conns -> Seq(Nat)]
    BY <1>6, <2>2 DEF WriteLive, TypeOK
  <2>4. got' \in [Conns -> Seq(Nat)]
    <3>1. got \in [Conns -> Seq(Nat)] /\ Append(got[c], Head(live[c])) \in Seq(Nat)
      BY <2>2 DEF TypeOK
    <3>. QED  BY <1>6, <3>1 DEF WriteLive, Deliver
  <2>. QED  BY <1>6, <2>3, <2>4 DEF WriteLive, TypeOK, turnVars, steerVars
<1>7. ASSUME NEW c \in Conns, WriteDone(c)  PROVE TypeOK'
  BY <1>7 DEF WriteDone, Unsubscribe, TypeOK, Handlers, turnVars, frameVars, connVars, steerVars
<1>8. ASSUME NEW c \in Conns, ClientGone(c)  PROVE TypeOK'
  BY <1>8 DEF ClientGone, TypeOK, Handlers, turnVars, frameVars, connVars, steerVars
<1>9. ASSUME NEW c \in Conns, Leave(c)  PROVE TypeOK'
  <2>1. on[c] \in Turns
    BY <1>9 DEF Leave, Handlers
  <2>2. subs' \in [Turns -> SUBSET Conns] /\ closes' \in [Conns -> Nat]
    BY <1>9, <2>1 DEF Leave, Unsubscribe, TypeOK
  <2>3. req' \in [Conns -> {"new", "refused", "opening", "streaming", "complete", "left"}]
    BY <1>9 DEF Leave, TypeOK
  <2>. QED  BY <1>9, <2>2, <2>3 DEF Leave, TypeOK, turnVars, frameVars, steerVars
<1>10. ASSUME NEW m \in Steers, NEW s \in Sessions, SteerCheck(m, s)  PROVE TypeOK'
  BY <1>10 DEF SteerCheck, Running, TypeOK, Handlers, turnVars, frameVars, connVars, steerVars
<1>11. ASSUME NEW m \in Steers, QueueSteering(m)  PROVE TypeOK'
  <2>1. aim[m] \in Turns /\ sess[aim[m]] \in Sessions
    BY <1>11 DEF QueueSteering, Handlers, Registry
  <2>2. steer' \in [Steers -> {"new", "refused", "checked", "queued", "accepted"}]
    BY <1>11 DEF QueueSteering, TypeOK
  <2>3. queue' \in [Sessions -> Seq(Steers)]
    BY <1>11, <2>1 DEF QueueSteering, TypeOK
  <2>4. arrived' \in [Sessions -> Seq(Steers)]
    BY <1>11, <2>1 DEF QueueSteering, TypeOK
  <2>. QED  BY <1>11, <2>2, <2>3, <2>4 DEF QueueSteering, TypeOK, turnVars, frameVars, connVars
<1>12. ASSUME NEW m \in Steers, SteerPublish(m)  PROVE TypeOK'
  <2>1. aim[m] \in Turns /\ "steered" \in Kinds /\ Publish(aim[m], "steered")
    BY <1>12 DEF SteerPublish, Handlers, Kinds
  <2>. QED  BY <1>12, <2>1, PublishType DEF SteerPublish, TypeOK, turnVars, connVars
<1>13. ASSUME NEW s \in Sessions, Interrupt(s)  PROVE TypeOK'
  BY <1>13 DEF Interrupt, Running, TypeOK, Handlers, turnVars, frameVars, connVars, steerVars
<1>14. ASSUME NEW t \in Turns, Round(t)  PROVE TypeOK'
  <2>1. DrainTo(t, "calling") \/ DrainFails(t)
    BY <1>14 DEF Round
  <2>2. calls' \in [Turns -> 0..MaxCalls]
    BY <1>14, BoundAssumption DEF Round, TypeOK
  <2>3. sess[t] \in Sessions
    BY <1>14 DEF Round, Registry
  <2>. QED  BY <1>14, <2>1, <2>2, <2>3, DrainType DEF Round, TypeOK, runUnchanged, connVars
<1>15. ASSUME NEW t \in Turns, Emit(t)  PROVE TypeOK'
  <2>1. "delta" \in Kinds /\ Publish(t, "delta")
    BY <1>15 DEF Emit, Kinds
  <2>. QED  BY <1>15, <2>1, PublishType DEF Emit, TypeOK, turnVars, connVars, steerVars
<1>16. ASSUME NEW t \in Turns, Continue(t)  PROVE TypeOK'
  BY <1>16 DEF Continue, TypeOK, Handlers, turnVars, frameVars, connVars, steerVars
<1>17. ASSUME NEW t \in Turns, Answer(t)  PROVE TypeOK'
  <2>1. \E next \in {"answered", "boundary"} : DrainTo(t, next) \/ DrainFails(t)
    BY <1>17 DEF Answer
  <2>2. sess[t] \in Sessions
    BY <1>17 DEF Answer, Registry
  <2>. QED  BY <1>17, <2>1, <2>2, DrainType DEF Answer, TypeOK, runUnchanged, connVars
<1>18. ASSUME NEW t \in Turns, StagnationStop(t)  PROVE TypeOK'
  BY <1>18 DEF StagnationStop, Stop, TypeOK, Handlers, turnVars, frameVars, connVars, steerVars
<1>19. ASSUME NEW t \in Turns, RunFails(t)  PROVE TypeOK'
  BY <1>19 DEF RunFails, Stop, TypeOK, Handlers, turnVars, frameVars, connVars, steerVars
<1>20. ASSUME NEW t \in Turns, PublishTerminal(t)  PROVE TypeOK'
  <2>1. \E kind \in Kinds : Publish(t, kind)
    BY <1>20 DEF PublishTerminal, Kinds
  <2>. QED  BY <1>20, <2>1, PublishType DEF PublishTerminal, TypeOK, connVars, steerVars
<1>21. ASSUME NEW t \in Turns, CloseSubs(t)  PROVE TypeOK'
  <2>1. closes' \in [Conns -> Nat]
    BY <1>21 DEF CloseSubs, TypeOK
  <2>2. /\ done' \in [Turns -> BOOLEAN] /\ subs' \in [Turns -> SUBSET Conns]
        /\ pc' \in [Turns -> {"unborn", "boundary", "calling", "answered", "failing",
                             "closing", "finished", "retired"}]
    BY <1>21 DEF CloseSubs, TypeOK
  <2>. QED  BY <1>21, <2>1, <2>2 DEF CloseSubs, TypeOK, frameVars, connVars, steerVars
<1>22. ASSUME NEW t \in Turns, Retire(t)  PROVE TypeOK'
  BY <1>22 DEF Retire, TypeOK, Handlers, turnVars, frameVars, connVars, steerVars
<1>23. CASE UNCHANGED vars
  BY <1>23 DEF vars, TypeOK, turnVars, frameVars, connVars, steerVars
<1>. QED
  BY <1>1, <1>2, <1>3, <1>4, <1>5, <1>6, <1>7, <1>8, <1>9, <1>10, <1>11, <1>12, <1>13, <1>14, <1>15, <1>16, <1>17, <1>18, <1>19, <1>20, <1>21, <1>22, <1>23
  DEF Next, ConnStep, RunStep, EndStep

----------------------------------------------------------------------------
\* The goroutine of a turn moves between stages in which it is running.
Active == {"boundary", "calling", "answered", "failing", "closing"}

LEMMA MoveRegistry ==
  ASSUME TypeOK, Registry, NEW t \in Turns, NEW next \in Active,
         pc[t] \in Active, pc' = [pc EXCEPT ![t] = next], UNCHANGED <<reg, sess, done>>
  PROVE  Registry'
BY NoneAssumption DEF TypeOK, Registry, ActiveReachable, Active


\* Only a post, and the steps of a turn's goroutine, touch the registry.
LEMMA RegistryActions ==
  ASSUME [Next]_vars
  PROVE  \/ \E c \in Conns, s \in Sessions, t \in Turns : Post(c, s, t)
         \/ \E t \in Turns : RunStep(t) \/ EndStep(t)
         \/ UNCHANGED <<reg, sess, pc, done>>
<1>1. ASSUME NEW c \in Conns, ConnStep(c) \/ ClientGone(c)
      PROVE  UNCHANGED <<reg, sess, pc, done>>
  BY <1>1 DEF ConnStep, ClientGone, Subscribe, WriteReplay, WriteLive, WriteDone, Leave, turnVars
<1>2. ASSUME NEW c \in Conns, NEW s \in Sessions, Attach(c, s) \/ Refused(c, s)
      PROVE  UNCHANGED <<reg, sess, pc, done>>
  BY <1>2 DEF Attach, Refused, turnVars
<1>3. ASSUME NEW m \in Steers, NEW s \in Sessions, SteerCheck(m, s)
      PROVE  UNCHANGED <<reg, sess, pc, done>>
  BY <1>3 DEF SteerCheck, turnVars
<1>4. ASSUME NEW m \in Steers, QueueSteering(m) \/ SteerPublish(m)
      PROVE  UNCHANGED <<reg, sess, pc, done>>
  BY <1>4 DEF QueueSteering, SteerPublish, turnVars
<1>5. ASSUME NEW s \in Sessions, Interrupt(s)  PROVE UNCHANGED <<reg, sess, pc, done>>
  BY <1>5 DEF Interrupt
<1>6. ASSUME NEW t \in Turns, Emit(t)  PROVE UNCHANGED <<reg, sess, pc, done>>
  BY <1>6 DEF Emit, turnVars
<1>7. CASE UNCHANGED vars
  BY <1>7 DEF vars, turnVars
<1>. QED  BY <1>1, <1>2, <1>3, <1>4, <1>5, <1>6, <1>7 DEF Next

\* While it runs and finishes, a goroutine moves between active stages.
LEMMA GoroutineMoves ==
  ASSUME NEW t \in Turns, RunStep(t) \/ PublishTerminal(t)
  PROVE  /\ pc[t] \in Active
         /\ \E next \in Active : pc' = [pc EXCEPT ![t] = next]
         /\ UNCHANGED <<reg, sess, done>>
<1>1. CASE Round(t)
  BY <1>1 DEF Round, DrainTo, DrainFails, runUnchanged, Active
<1>2. CASE Answer(t)
  BY <1>2 DEF Answer, DrainTo, DrainFails, runUnchanged, Active
<1>3. CASE Continue(t) \/ StagnationStop(t) \/ RunFails(t) \/ PublishTerminal(t)
  BY <1>3 DEF Continue, StagnationStop, RunFails, Stop, PublishTerminal, Active
<1>. QED  BY <1>1, <1>2, <1>3 DEF RunStep

LEMMA RegistryStep ==
  ASSUME IInv, [Next]_vars
  PROVE  Registry'
<1>. USE DEF IInv
<1>1. ASSUME NEW c \in Conns, NEW s \in Sessions, NEW t \in Turns, Post(c, s, t)
      PROVE  Registry'
  <2>1. /\ pc[t] = "unborn" /\ ~Running(s)
        /\ reg' = [reg EXCEPT ![s] = t] /\ sess' = [sess EXCEPT ![t] = s]
        /\ pc' = [pc EXCEPT ![t] = "boundary"] /\ UNCHANGED done
    BY <1>1 DEF Post
  <2>2. ~done[t] /\ t # None /\ \A u \in Sessions : reg[u] # t
    BY <2>1, NoneAssumption DEF Registry
  <2>3. /\ \A u \in Sessions : reg'[u] = IF u = s THEN t ELSE reg[u]
        /\ \A u \in Turns : /\ sess'[u] = IF u = t THEN s ELSE sess[u]
                            /\ pc'[u] = IF u = t THEN "boundary" ELSE pc[u]
    BY <2>1 DEF TypeOK
  <2>4. \A u \in Sessions : reg'[u] # None => pc'[reg'[u]] # "unborn" /\ sess'[reg'[u]] = u
    <3>. TAKE u \in Sessions
    <3>1. CASE u = s
      BY <2>3, <3>1
    <3>2. CASE u # s
      <4>1. reg'[u] = reg[u] /\ reg[u] # t /\ (reg[u] # None => reg[u] \in Turns)
        BY <2>2, <2>3, <3>2 DEF TypeOK
      <4>. QED  BY <2>3, <4>1 DEF Registry
    <3>. QED  BY <3>1, <3>2
  <2>5. \A u \in Turns : /\ pc'[u] # "unborn" => sess'[u] \in Sessions
                         /\ done'[u] <=> pc'[u] \in {"finished", "retired"}
    BY <2>1, <2>2 DEF TypeOK, Registry
  <2>6. ActiveReachable'
    <3>. SUFFICES ASSUME NEW u \in Turns, pc'[u] # "unborn", ~done'[u]
                  PROVE  reg'[sess'[u]] = u
      BY DEF ActiveReachable
    <3>1. CASE u = t
      BY <2>3, <3>1
    <3>2. CASE u # t
      <4>1. pc[u] # "unborn" /\ ~done[u] /\ sess'[u] = sess[u]
        BY <2>1, <2>3, <3>2
      <4>2. reg[sess[u]] = u /\ sess[u] \in Sessions /\ u # None
        BY <4>1, NoneAssumption DEF Registry, ActiveReachable
      <4>3. sess[u] # s
        BY <2>1, <4>1, <4>2 DEF Running
      <4>. QED  BY <2>3, <4>1, <4>2, <4>3
    <3>. QED  BY <3>1, <3>2
  <2>. QED  BY <2>4, <2>5, <2>6 DEF Registry
<1>2. ASSUME NEW t \in Turns, RunStep(t) \/ PublishTerminal(t)  PROVE Registry'
  BY <1>2, GoroutineMoves, MoveRegistry
<1>3. ASSUME NEW t \in Turns, CloseSubs(t)  PROVE Registry'
  BY <1>3, NoneAssumption DEF CloseSubs, TypeOK, Registry, ActiveReachable
<1>4. ASSUME NEW t \in Turns, Retire(t)  PROVE Registry'
  <2>1. /\ pc[t] = "finished" /\ UNCHANGED <<sess, done>>
        /\ reg' = [reg EXCEPT ![sess[t]] = IF @ = t THEN None ELSE @]
        /\ pc' = [pc EXCEPT ![t] = "retired"]
    BY <1>4 DEF Retire
  <2>2. done[t] /\ sess[t] \in Sessions
    BY <2>1 DEF Registry
  <2>3. \A s \in Sessions : reg'[s] # None =>
          reg'[s] = reg[s] /\ pc'[reg'[s]] # "unborn" /\ sess'[reg'[s]] = s
    BY <2>1, <2>2 DEF TypeOK, Registry
  <2>4. \A u \in Turns : /\ pc'[u] # "unborn" => sess'[u] \in Sessions
                         /\ done'[u] <=> pc'[u] \in {"finished", "retired"}
    BY <2>1, <2>2 DEF TypeOK, Registry
  <2>5. ActiveReachable'
    <3>. SUFFICES ASSUME NEW u \in Turns, pc'[u] # "unborn", ~done'[u]
                  PROVE  reg'[sess'[u]] = u
      BY DEF ActiveReachable
    <3>1. u # t /\ pc[u] # "unborn" /\ ~done[u]
      BY <2>1, <2>2 DEF TypeOK
    <3>2. reg[sess[u]] = u /\ sess[u] \in Sessions
      BY <3>1 DEF Registry, ActiveReachable
    <3>. QED  BY <2>1, <3>1, <3>2 DEF TypeOK
  <2>. QED  BY <2>3, <2>4, <2>5 DEF Registry
<1>5. CASE UNCHANGED <<reg, sess, pc, done>>
  BY <1>5 DEF Registry, ActiveReachable
<1>. QED
  BY <1>1, <1>2, <1>3, <1>4, <1>5, RegistryActions DEF EndStep

\* A turn that started never counts as unborn again.
LEMMA NeverUnborn ==
  ASSUME IInv, [Next]_vars
  PROVE  \A t \in Turns : pc[t] # "unborn" => pc'[t] # "unborn"
<1>. USE DEF IInv
<1>1. ASSUME NEW c \in Conns, NEW s \in Sessions, NEW t \in Turns, Post(c, s, t)
      PROVE  \A u \in Turns : pc[u] # "unborn" => pc'[u] # "unborn"
  BY <1>1 DEF Post, TypeOK
<1>2. ASSUME NEW t \in Turns, RunStep(t) \/ PublishTerminal(t)
      PROVE  \A u \in Turns : pc[u] # "unborn" => pc'[u] # "unborn"
  BY <1>2, GoroutineMoves DEF TypeOK, Active
<1>3. ASSUME NEW t \in Turns, CloseSubs(t) \/ Retire(t)
      PROVE  \A u \in Turns : pc[u] # "unborn" => pc'[u] # "unborn"
  BY <1>3 DEF CloseSubs, Retire, TypeOK
<1>. QED
  BY <1>1, <1>2, <1>3, RegistryActions DEF EndStep

LEMMA HandlersStep ==
  ASSUME IInv, [Next]_vars
  PROVE  Handlers'
<1>. USE DEF IInv
<1>. DEFINE Streams == \A c \in Conns : req[c] \notin {"new", "refused"} => on[c] \in Turns
            Aims == \A m \in Steers : steer[m] \notin {"new", "refused"} =>
                                        aim[m] \in Turns /\ pc[aim[m]] # "unborn"
            Kept == \A t \in Turns : base[t] <= Len(log[t])
<1>1. Streams /\ Aims /\ Kept
  BY DEF Handlers
<1>2. ASSUME NEW c \in Conns, ConnStep(c) \/ ClientGone(c)
      PROVE  Streams' /\ UNCHANGED <<steer, aim, log, base>>
  BY <1>1, <1>2 DEF ConnStep, ClientGone, Subscribe, WriteReplay, WriteLive, WriteDone, Leave,
                    TypeOK, frameVars, steerVars
<1>3. ASSUME NEW c \in Conns, NEW s \in Sessions, Attach(c, s) \/ Refused(c, s)
      PROVE  Streams' /\ UNCHANGED <<steer, aim, log, base>>
  <2>1. CASE Attach(c, s)
    <3>1. reg[s] \in Turns
      BY <2>1 DEF Attach, TypeOK
    <3>2. req' = [req EXCEPT ![c] = "opening"] /\ on' = [on EXCEPT ![c] = reg[s]]
      BY <2>1 DEF Attach
    <3>3. Streams'
      BY <1>1, <3>1, <3>2 DEF TypeOK
    <3>. QED  BY <2>1, <3>3 DEF Attach, frameVars, steerVars
  <2>2. CASE Refused(c, s)
    BY <1>1, <2>2 DEF Refused, TypeOK, frameVars, steerVars
  <2>. QED  BY <1>3, <2>1, <2>2
<1>4. ASSUME NEW c \in Conns, NEW s \in Sessions, NEW t \in Turns, Post(c, s, t)
      PROVE  Streams' /\ UNCHANGED <<steer, aim, log, base>>
  BY <1>1, <1>4 DEF Post, TypeOK, frameVars, steerVars
<1>5. ASSUME NEW m \in Steers, NEW s \in Sessions, SteerCheck(m, s)
      PROVE  Aims' /\ UNCHANGED <<req, on, log, base>>
  BY <1>1, <1>5, NoneAssumption DEF SteerCheck, Running, TypeOK, Registry, turnVars, connVars, frameVars
<1>6. ASSUME NEW m \in Steers, QueueSteering(m)
      PROVE  Aims' /\ UNCHANGED <<req, on, log, base>>
  BY <1>1, <1>6 DEF QueueSteering, TypeOK, turnVars, connVars, frameVars
<1>7. ASSUME NEW m \in Steers, SteerPublish(m)
      PROVE  Aims' /\ Kept' /\ UNCHANGED <<req, on>>
  <2>1. aim[m] \in Turns /\ "steered" \in Kinds /\ Publish(aim[m], "steered")
    BY <1>1, <1>7 DEF SteerPublish, Kinds
  <2>2. Kept'
    BY <2>1, PublishType
  <2>. QED  BY <1>1, <1>7, <2>2 DEF SteerPublish, TypeOK, turnVars, connVars
<1>8. ASSUME NEW s \in Sessions, Interrupt(s)
      PROVE  UNCHANGED <<req, on, steer, aim, log, base>>
  BY <1>8 DEF Interrupt, connVars, steerVars, frameVars
<1>9. ASSUME NEW t \in Turns, RunStep(t) \/ Emit(t) \/ EndStep(t)
      PROVE  Kept' /\ UNCHANGED <<req, on, steer, aim>>
  <2>1. CASE Round(t) \/ Answer(t)
    <3>1. sess[t] \in Sessions
      BY <2>1 DEF Round, Answer, Registry
    <3>2. \E next \in {"calling", "answered", "boundary"} : DrainTo(t, next) \/ DrainFails(t)
      BY <2>1 DEF Round, Answer
    <3>3. Kept'
      BY <3>1, <3>2, DrainType
    <3>. QED  BY <2>1, <3>3 DEF Round, Answer, runUnchanged, connVars
  <2>2. CASE Emit(t) \/ PublishTerminal(t)
    <3>1. \E kind \in Kinds : Publish(t, kind)
      BY <2>2 DEF Emit, PublishTerminal, Kinds
    <3>2. Kept'
      BY <3>1, PublishType
    <3>. QED  BY <2>2, <3>2 DEF Emit, PublishTerminal, connVars, steerVars
  <2>3. CASE Continue(t) \/ StagnationStop(t) \/ RunFails(t) \/ CloseSubs(t) \/ Retire(t)
    BY <1>1, <2>3 DEF Continue, StagnationStop, RunFails, Stop, CloseSubs, Retire,
                      connVars, steerVars, frameVars
  <2>. QED  BY <1>9, <2>1, <2>2, <2>3 DEF RunStep, EndStep
<1>10. UNCHANGED <<steer, aim>> => Aims'
  BY <1>1, NeverUnborn
<1>11. UNCHANGED <<req, on>> => Streams'
  BY <1>1
<1>12. UNCHANGED <<log, base>> => Kept'
  BY <1>1
<1>13. Streams' /\ Aims' /\ Kept'
  <2>. HIDE DEF Streams, Aims, Kept
  <2>. QED
    BY <1>2, <1>3, <1>4, <1>5, <1>6, <1>7, <1>8, <1>9, <1>10, <1>11, <1>12
    DEF Next, vars, turnVars, connVars, steerVars, frameVars
<1>. QED  BY <1>13 DEF Handlers

----------------------------------------------------------------------------
\* TypeOK, the registry facts and the handler facts hold in every state.
THEOREM Invariance == Spec => []IInv
<1>1. Init => IInv
  BY NoneAssumption, BoundAssumption
  DEF Init, IInv, TypeOK, Registry, Handlers, ActiveReachable, Kinds
<1>2. IInv /\ [Next]_vars => IInv'
  BY TypeStep, RegistryStep, HandlersStep DEF IInv
<1>. QED  BY <1>1, <1>2, PTL DEF Spec

\* Every state is well typed, for every instance.
THEOREM TypeCorrect == Spec => []TypeOK
<1>1. IInv => TypeOK
  BY DEF IInv
<1>. QED  BY <1>1, Invariance, PTL

\* A started turn stays the one its session's requests find until it is
\* done: turnRegistry never loses or replaces a running turn.
THEOREM RunningTurnReachable == Spec => []ActiveReachable
<1>1. IInv => ActiveReachable
  BY DEF IInv, Registry
<1>. QED  BY <1>1, Invariance, PTL

\* The registry implements one turn per session (SessionLane).
THEOREM OneTurnPerSession == Spec => LaneSpec
<1>. DEFINE holds == [s \in Sessions |-> IF Running(s) THEN reg[s] ELSE None]
            born == {t \in Turns : pc[t] # "unborn"}
            ended == {t \in Turns : done[t]}
<1>1. Init => Lane!Init
  BY DEF Init, Lane!Init, Running
<1>2. IInv /\ [Next]_vars => [Lane!Next]_<<holds, born, ended>>
  <2>. SUFFICES ASSUME IInv, [Next]_vars
                PROVE  [Lane!Next]_<<holds, born, ended>>
    OBVIOUS
  <2>. USE DEF IInv
  <2>1. ASSUME NEW c \in Conns, NEW s \in Sessions, NEW t \in Turns, Post(c, s, t)
        PROVE  Lane!Next
    <3>1. /\ ~Running(s) /\ pc[t] = "unborn" /\ UNCHANGED done
          /\ reg' = [reg EXCEPT ![s] = t] /\ pc' = [pc EXCEPT ![t] = "boundary"]
      BY <2>1 DEF Post
    <3>2. ~done[t] /\ t # None
      BY <3>1, NoneAssumption DEF Registry
    <3>3. holds' = [holds EXCEPT ![s] = t]
      BY <3>1, <3>2 DEF Running, TypeOK
    <3>4. born' = born \cup {t} /\ ended' = ended /\ t \notin born /\ holds[s] = None
      BY <3>1 DEF TypeOK
    <3>5. Lane!Begin(s, t)
      BY <3>3, <3>4 DEF Lane!Begin
    <3>. QED  BY <3>5 DEF Lane!Next
  <2>2. ASSUME NEW t \in Turns, RunStep(t) \/ PublishTerminal(t)
        PROVE  UNCHANGED <<holds, born, ended>>
    <3>1. /\ pc[t] \in Active /\ UNCHANGED <<reg, sess, done>>
          /\ \E next \in Active : pc' = [pc EXCEPT ![t] = next]
      BY <2>2, GoroutineMoves
    <3>2. \A u \in Turns : pc'[u] # "unborn" <=> pc[u] # "unborn"
      BY <3>1 DEF TypeOK, Active
    <3>. QED  BY <3>1, <3>2 DEF Running
  <2>3. ASSUME NEW t \in Turns, CloseSubs(t)  PROVE Lane!Next
    <3>1. /\ pc[t] = "closing" /\ UNCHANGED <<reg, sess>>
          /\ done' = [done EXCEPT ![t] = TRUE] /\ pc' = [pc EXCEPT ![t] = "finished"]
      BY <2>3 DEF CloseSubs
    <3>2. sess[t] \in Sessions /\ reg[sess[t]] = t /\ ~done[t] /\ t # None
      BY <3>1, NoneAssumption DEF Registry, ActiveReachable
    <3>3. holds[sess[t]] = t
      BY <3>2 DEF Running
    <3>4. \A s \in Sessions : s # sess[t] => reg[s] # t
      BY NoneAssumption DEF Registry
    <3>5. holds' = [holds EXCEPT ![sess[t]] = None]
      BY <3>1, <3>2, <3>4 DEF Running, TypeOK
    <3>6. born' = born /\ ended' = ended \cup {t}
      BY <3>1 DEF TypeOK
    <3>7. \A s \in Sessions : s = sess[t] => Lane!End(s)
      BY <3>2, <3>3, <3>5, <3>6 DEF Lane!End
    <3>8. \E s \in Sessions : Lane!End(s)
      BY <3>2, <3>7
    <3>. QED  BY <3>8 DEF Lane!Next
  <2>4. ASSUME NEW t \in Turns, Retire(t)  PROVE UNCHANGED <<holds, born, ended>>
    BY <2>4 DEF Retire, Registry, TypeOK, Running
  <2>5. CASE UNCHANGED <<reg, sess, pc, done>>
    BY <2>5 DEF Running
  <2>. HIDE DEF holds, born, ended
  <2>. QED
    BY <2>1, <2>2, <2>3, <2>4, <2>5, RegistryActions DEF EndStep
<1>. QED
  BY <1>1, <1>2, Invariance, PTL DEF Spec, LaneSpec, Lane!Spec

----------------------------------------------------------------------------
\* A channel belongs to the one turn its handler streams; it is closed only
\* together with its removal from that turn's subscribers.
Channels ==
  \A c \in Conns :
    /\ \A t \in Turns : c \in subs[t] => t = on[c] /\ req[c] = "streaming" /\ closes[c] = 0
    /\ closes[c] <= 1
    /\ req[c] \in {"new", "refused", "opening"} => closes[c] = 0

\* The deferred unsubscribe closes only a channel it finds registered.
LEMMA UnsubscribeChannels ==
  ASSUME TypeOK, Channels, NEW c \in Conns, on[c] \in Turns, req[c] = "streaming",
         Unsubscribe(c), UNCHANGED on,
         NEW stage \in {"complete", "left"}, req' = [req EXCEPT ![c] = stage]
  PROVE  Channels'
<1>1. /\ \A t \in Turns : subs'[t] = IF t = on[c] THEN subs[t] \ {c} ELSE subs[t]
      /\ \A d \in Conns : closes'[d] = IF d = c /\ c \in subs[on[c]]
                                       THEN closes[d] + 1 ELSE closes[d]
      /\ \A d \in Conns : req'[d] = IF d = c THEN stage ELSE req[d]
  BY DEF Unsubscribe, TypeOK
<1>2. ASSUME NEW d \in Conns, NEW t \in Turns, d \in subs'[t]
      PROVE  t = on'[d] /\ req'[d] = "streaming" /\ closes'[d] = 0
  <2>1. d \in subs[t] /\ d # c
    BY <1>1, <1>2 DEF Channels
  <2>. QED  BY <1>1, <2>1 DEF Channels
<1>3. ASSUME NEW d \in Conns
      PROVE  closes'[d] <= 1 /\ (req'[d] \in {"new", "refused", "opening"} => closes'[d] = 0)
  BY <1>1 DEF Channels, TypeOK
<1>. QED  BY <1>2, <1>3 DEF Channels

LEMMA ChannelsStep ==
  ASSUME IInv, Channels, [Next]_vars
  PROVE  Channels'
<1>. USE DEF IInv
<1>1. CASE UNCHANGED <<subs, closes, req, on>>
  BY <1>1 DEF Channels
<1>2. ASSUME NEW c \in Conns, NEW stage \in {"opening", "refused"}, req[c] = "new",
             req' = [req EXCEPT ![c] = stage], UNCHANGED <<subs, closes>>,
             \A d \in Conns \ {c} : on'[d] = on[d]
      PROVE  Channels'
  <2>1. \A d \in Conns : req'[d] = IF d = c THEN stage ELSE req[d]
    BY <1>2 DEF TypeOK
  <2>2. \A t \in Turns : c \notin subs[t]
    BY <1>2 DEF Channels
  <2>. QED  BY <1>2, <2>1, <2>2 DEF Channels
<1>3. ASSUME NEW c \in Conns, Subscribe(c)  PROVE Channels'
  <2>1. /\ req[c] = "opening" /\ on[c] \in Turns /\ UNCHANGED <<on, closes>>
        /\ \A d \in Conns : req'[d] = IF d = c THEN "streaming" ELSE req[d]
        /\ \A t \in Turns : subs'[t] \subseteq IF t = on[c] THEN subs[t] \cup {c} ELSE subs[t]
    BY <1>3 DEF Subscribe, TypeOK, Handlers
  <2>2. ASSUME NEW d \in Conns, NEW t \in Turns, d \in subs'[t]
        PROVE  t = on'[d] /\ req'[d] = "streaming" /\ closes'[d] = 0
    <3>1. CASE d \in subs[t]
      BY <2>1, <3>1 DEF Channels
    <3>2. CASE d \notin subs[t]
      <4>1. d = c /\ t = on[c]
        BY <2>1, <2>2, <3>2
      <4>. QED  BY <2>1, <4>1 DEF Channels
    <3>. QED  BY <3>1, <3>2
  <2>. QED  BY <2>1, <2>2 DEF Channels
<1>4. ASSUME NEW c \in Conns, WriteDone(c) \/ Leave(c)  PROVE Channels'
  <2>1. /\ req[c] = "streaming" /\ on[c] \in Turns /\ UNCHANGED on /\ Unsubscribe(c)
        /\ \E stage \in {"complete", "left"} : req' = [req EXCEPT ![c] = stage]
    BY <1>4 DEF WriteDone, Leave, Handlers
  <2>. QED  BY <2>1, UnsubscribeChannels
<1>5. ASSUME NEW t \in Turns, CloseSubs(t)  PROVE Channels'
  <2>1. /\ \A u \in Turns : subs'[u] = IF u = t THEN {} ELSE subs[u]
        /\ \A d \in Conns : closes'[d] = closes[d] + (IF d \in subs[t] THEN 1 ELSE 0)
        /\ UNCHANGED <<req, on>>
    BY <1>5 DEF CloseSubs, TypeOK, connVars
  <2>2. ASSUME NEW d \in Conns, NEW u \in Turns, d \in subs'[u]
        PROVE  u = on'[d] /\ req'[d] = "streaming" /\ closes'[d] = 0
    <3>1. u # t /\ d \in subs[u]
      BY <2>1, <2>2
    <3>2. u = on[d] /\ req[d] = "streaming" /\ closes[d] = 0 /\ d \notin subs[t]
      BY <3>1 DEF Channels
    <3>. QED  BY <2>1, <3>2
  <2>3. ASSUME NEW d \in Conns
        PROVE  closes'[d] <= 1 /\ (req'[d] \in {"new", "refused", "opening"} => closes'[d] = 0)
    <3>1. CASE d \in subs[t]
      BY <2>1, <3>1 DEF Channels
    <3>2. CASE d \notin subs[t]
      BY <2>1, <3>2 DEF Channels, TypeOK
    <3>. QED  BY <3>1, <3>2
  <2>. QED  BY <2>2, <2>3 DEF Channels
\* Every other step leaves the channels and the handlers' stages alone.
<1>6. ASSUME NEW c \in Conns, NEW s \in Sessions, NEW t \in Turns, Post(c, s, t)
      PROVE  Channels'
  BY <1>2, <1>6 DEF Post, TypeOK
<1>7. ASSUME NEW c \in Conns, NEW s \in Sessions, Attach(c, s) \/ Refused(c, s)
      PROVE  Channels'
  BY <1>2, <1>7 DEF Attach, Refused, TypeOK
<1>8. ASSUME NEW c \in Conns, WriteReplay(c) \/ WriteLive(c) \/ ClientGone(c)
      PROVE  UNCHANGED <<subs, closes, req, on>>
  BY <1>8 DEF WriteReplay, WriteLive, ClientGone
<1>9. ASSUME NEW m \in Steers, NEW s \in Sessions, SteerCheck(m, s)
      PROVE  UNCHANGED <<subs, closes, req, on>>
  BY <1>9 DEF SteerCheck, connVars
<1>10. ASSUME NEW m \in Steers, QueueSteering(m) \/ SteerPublish(m)
      PROVE  UNCHANGED <<subs, closes, req, on>>
  BY <1>10 DEF QueueSteering, SteerPublish, connVars
<1>11. ASSUME NEW s \in Sessions, Interrupt(s)  PROVE UNCHANGED <<subs, closes, req, on>>
  BY <1>11 DEF Interrupt, connVars
<1>12. ASSUME NEW t \in Turns, RunStep(t) \/ Emit(t) \/ PublishTerminal(t) \/ Retire(t)
       PROVE  UNCHANGED <<subs, closes, req, on>>
  BY <1>12 DEF RunStep, Round, Continue, Answer, StagnationStop, RunFails, Stop, Emit,
               PublishTerminal, Retire, runUnchanged, connVars
<1>13. CASE UNCHANGED vars
  BY <1>1, <1>13 DEF vars, connVars
<1>. QED
  BY <1>1, <1>3, <1>4, <1>5, <1>6, <1>7, <1>8, <1>9, <1>10, <1>11, <1>12, <1>13
  DEF Next, ConnStep, EndStep

\* No subscriber channel is closed twice and nothing is sent on a closed one:
\* the daemon cannot panic there, for any number of clients and turns.
THEOREM ChannelsNeverPanic == Spec => []ClosedOnce
<1>1. Init => Channels
  BY DEF Init, Channels
<1>2. IInv /\ Channels /\ [Next]_vars => Channels'
  BY ChannelsStep
<1>3. Channels => ClosedOnce
  BY DEF Channels, ClosedOnce
<1>. QED  BY <1>1, <1>2, <1>3, Invariance, PTL DEF Spec

----------------------------------------------------------------------------
\* Of a log of n frames, sent has those behind f that are not in miss, in order.
Whole(sent, miss, f, n) ==
  /\ \A i, j \in DOMAIN sent : i < j => sent[i] < sent[j]
  /\ SeqSet(sent) \cap miss = {}
  /\ SeqSet(sent) \cup miss = (f + 1)..n \cup (IF f > 0 THEN {0} ELSE {})

\* The next frame reaches a client whose channel has room for it.
LEMMA WholeSent ==
  ASSUME NEW sent \in Seq(Nat), NEW miss, NEW f \in Nat, NEW n \in Nat, f <= n,
         Whole(sent, miss, f, n)
  PROVE  Whole(Append(sent, n + 1), miss, f, n + 1)
<1>. DEFINE more == Append(sent, n + 1)
<1>1. /\ Len(sent) \in Nat /\ DOMAIN sent = 1..Len(sent)
      /\ DOMAIN more = 1..(Len(sent) + 1) /\ more[Len(sent) + 1] = n + 1
      /\ \A i \in DOMAIN sent : more[i] = sent[i] /\ sent[i] \in Nat
  OBVIOUS
<1>2. SeqSet(more) = SeqSet(sent) \cup {n + 1}
  <2>. HIDE DEF more
  <2>. QED  BY <1>1 DEF SeqSet
<1>3. SeqSet(sent) \cup miss \subseteq 0..n
  BY DEF Whole
<1>4. \A i \in DOMAIN sent : sent[i] <= n
  BY <1>3 DEF SeqSet
<1>5. \A i, j \in DOMAIN more : i < j => more[i] < more[j]
  <2>. HIDE DEF more
  <2>. SUFFICES ASSUME NEW i \in DOMAIN more, NEW j \in DOMAIN more, i < j
                PROVE  more[i] < more[j]
    OBVIOUS
  <2>1. i \in DOMAIN sent
    BY <1>1
  <2>2. CASE j \in DOMAIN sent
    BY <1>1, <2>1, <2>2 DEF Whole
  <2>3. CASE j = Len(sent) + 1
    BY <1>1, <1>4, <2>1, <2>3
  <2>. QED  BY <1>1, <2>2, <2>3
<1>6. n + 1 \notin miss
  BY <1>3
<1>7. (f + 1)..(n + 1) = (f + 1)..n \cup {n + 1}
  OBVIOUS
<1>. HIDE DEF more
<1>8. SeqSet(more) \cap miss = {}
  BY <1>2, <1>6 DEF Whole
<1>9. SeqSet(more) \cup miss = (f + 1)..(n + 1) \cup (IF f > 0 THEN {0} ELSE {})
  BY <1>2, <1>7 DEF Whole
<1>10. Whole(more, miss, f, n + 1)
  BY <1>5, <1>8, <1>9 DEF Whole
<1>. QED  BY <1>10 DEF more

\* The next frame is dropped, for a full channel.
LEMMA WholeMissed ==
  ASSUME NEW sent \in Seq(Nat), NEW miss, NEW f \in Nat, NEW n \in Nat, f <= n,
         Whole(sent, miss, f, n)
  PROVE  Whole(sent, miss \cup {n + 1}, f, n + 1)
<1>1. SeqSet(sent) \cup miss \subseteq 0..n
  BY DEF Whole
<1>2. n + 1 \notin SeqSet(sent)
  BY <1>1
<1>3. (f + 1)..(n + 1) = (f + 1)..n \cup {n + 1}
  OBVIOUS
<1>. QED  BY <1>2, <1>3 DEF Whole

\* The replay of a log of n frames of which the first b are gone.
LEMMA WholeReplay ==
  ASSUME NEW b \in Nat, NEW n \in Nat, b <= n
  PROVE  LET sent == (IF b > 0 THEN <<0>> ELSE <<>>) \o [i \in 1..(n - b) |-> b + i]
         IN  sent \in Seq(Nat) /\ Whole(sent, {}, b, n)
<1>. DEFINE tail == [i \in 1..(n - b) |-> b + i]
            sent == (IF b > 0 THEN <<0>> ELSE <<>>) \o tail
<1>1. tail \in Seq(Nat) /\ Len(tail) = n - b /\ n - b \in Nat
      /\ \A i \in 1..(n - b) : tail[i] = b + i
  OBVIOUS
<1>2. CASE b = 0
  <2>1. sent = tail
    <3>. HIDE DEF tail
    <3>. QED  BY <1>1, <1>2
  <2>2. SeqSet(tail) = 1..n
    <3>. HIDE DEF tail
    <3>1. \A k \in 1..n : k = tail[k]
      BY <1>1, <1>2
    <3>. QED  BY <1>1, <1>2, <3>1 DEF SeqSet
  <2>3. Whole(tail, {}, b, n)
    <3>. HIDE DEF tail
    <3>. QED  BY <1>1, <1>2, <2>2 DEF Whole
  <2>. HIDE DEF sent, tail
  <2>4. sent \in Seq(Nat) /\ Whole(sent, {}, b, n)
    BY <1>1, <2>1, <2>3
  <2>. QED  BY <2>4 DEF sent, tail
<1>3. CASE b > 0
  <2>1. /\ sent \in Seq(Nat) /\ Len(sent) = n - b + 1 /\ sent[1] = 0
        /\ \A i \in 2..(n - b + 1) : sent[i] = b + i - 1
    <3>1. sent = <<0>> \o tail
      BY <1>3
    <3>. HIDE DEF tail, sent
    <3>. QED  BY <1>1, <3>1
  <2>. HIDE DEF sent
  <2>2. \A i, j \in DOMAIN sent : i < j => sent[i] < sent[j]
    BY <2>1, <1>3, <1>1
  <2>3. SeqSet(sent) = (b + 1)..n \cup {0}
    <3>1. SeqSet(sent) \subseteq (b + 1)..n \cup {0}
      BY <2>1, <1>1 DEF SeqSet
    <3>2. ASSUME NEW k \in (b + 1)..n  PROVE k \in SeqSet(sent)
      <4>1. k - b + 1 \in DOMAIN sent /\ sent[k - b + 1] = k
        BY <2>1, <1>1
      <4>. QED  BY <4>1 DEF SeqSet
    <3>3. 0 \in SeqSet(sent)
      BY <2>1, <1>1 DEF SeqSet
    <3>. QED  BY <3>1, <3>2, <3>3
  <2>4. Whole(sent, {}, b, n)
    BY <1>3, <2>2, <2>3 DEF Whole
  <2>5. sent \in Seq(Nat) /\ Whole(sent, {}, b, n)
    BY <2>1, <2>4
  <2>. QED  BY <2>5 DEF sent
<1>. QED  BY <1>2, <1>3

\* Delivering a frame, or queueing one, keeps the order of a stream.
LEMMA StreamMoves ==
  ASSUME NEW g \in Seq(Nat), NEW r \in Seq(Nat), NEW l \in Seq(Nat)
  PROVE  /\ g \o r \o l \in Seq(Nat)
         /\ r # <<>> => Append(g, Head(r)) \o Tail(r) \o l = g \o r \o l
         /\ r = <<>> /\ l # <<>> => Append(g, Head(l)) \o r \o Tail(l) = g \o r \o l
         /\ \A n \in Nat : g \o r \o Append(l, n) = Append(g \o r \o l, n)
<1>1. ASSUME NEW x \in Seq(Nat), x # <<>>  PROVE Append(g, Head(x)) \o Tail(x) = g \o x
  <2>. DEFINE moved == Append(g, Head(x)) \o Tail(x)
              whole == g \o x
  <2>1. Head(x) \in Nat /\ Tail(x) \in Seq(Nat) /\ Len(Tail(x)) = Len(x) - 1 /\ Len(x) \in Nat
        /\ x[1] = Head(x) /\ \A i \in 1..Len(Tail(x)) : Tail(x)[i] = x[i + 1]
    BY <1>1
  <2>2. Append(g, Head(x)) \in Seq(Nat) /\ Len(Append(g, Head(x))) = Len(g) + 1
        /\ Len(g) \in Nat
    BY <2>1
  <2>3. /\ moved \in Seq(Nat) /\ whole \in Seq(Nat)
        /\ Len(moved) = Len(g) + Len(x)
        /\ Len(whole) = Len(g) + Len(x)
    BY <2>1, <2>2
  <2>4. \A i \in 1..(Len(g) + Len(x)) : moved[i] = whole[i]
    <3>. TAKE i \in 1..(Len(g) + Len(x))
    <3>1. CASE i <= Len(g)
      BY <2>1, <2>2, <3>1
    <3>2. CASE i = Len(g) + 1
      BY <2>1, <2>2, <3>2
    <3>3. CASE i > Len(g) + 1
      BY <2>1, <2>2, <3>3
    <3>4. i \in Int /\ Len(g) \in Int
      BY <2>1, <2>2
    <3>. HIDE DEF moved, whole
    <3>. QED  BY <3>1, <3>2, <3>3, <3>4
  <2>. HIDE DEF moved, whole
  <2>5. moved = whole
    BY <2>3, <2>4, SeqEqual
  <2>. QED  BY <2>5 DEF moved, whole
<1>2. \A x \in Seq(Nat) : x \o <<>> = x
  OBVIOUS
<1>3. g \o r \in Seq(Nat) /\ g \o r \o l \in Seq(Nat)
  OBVIOUS
<1>4. l # <<>> => Append(g, Head(l)) \in Seq(Nat)
  OBVIOUS
<1>5. ASSUME NEW x \in Seq(Nat), NEW n \in Nat  PROVE x \o Append(l, n) = Append(x \o l, n)
  OBVIOUS
<1>6. r # <<>> => Append(g, Head(r)) \o Tail(r) \o l = g \o r \o l
  BY <1>1
<1>7. r = <<>> /\ l # <<>> => Append(g, Head(l)) \o r \o Tail(l) = g \o r \o l
  <2>. SUFFICES ASSUME r = <<>>, l # <<>>
                PROVE  Append(g, Head(l)) \o r \o Tail(l) = g \o r \o l
    OBVIOUS
  <2>1. Append(g, Head(l)) \o r = Append(g, Head(l)) /\ g \o r = g
    BY <1>2, <1>4
  <2>. QED  BY <1>1, <2>1
<1>8. \A n \in Nat : g \o r \o Append(l, n) = Append(g \o r \o l, n)
  <2>. DEFINE x == g \o r
  <2>1. x \in Seq(Nat)
    OBVIOUS
  <2>. HIDE DEF x
  <2>2. \A n \in Nat : x \o Append(l, n) = Append(x \o l, n)
    BY <1>5, <2>1
  <2>. QED  BY <2>2 DEF x
<1>. QED  BY <1>3, <1>6, <1>7, <1>8

\* A request that has not subscribed has received nothing; a connected client
\* that has is a subscriber until its turn is done, and its stream is whole.
Fresh(c) == got[c] = <<>> /\ replay[c] = <<>> /\ live[c] = <<>> /\ missed[c] = {}
Served(c) ==
  /\ done[on[c]] \/ (req[c] = "streaming" /\ c \in subs[on[c]])
  /\ from[c] <= Len(log[on[c]])
  /\ Whole(Stream(c), missed[c], from[c], Len(log[on[c]]))
StreamOf(c) ==
  /\ req[c] \in {"new", "refused", "opening"} => Fresh(c)
  /\ req[c] \in {"streaming", "complete"} /\ alive[c] => Served(c)
Streams == \A c \in Conns : StreamOf(c)

\* A step that changes nothing a connection's stream depends on.
Untouched(c) ==
  /\ got'[c] = got[c] /\ replay'[c] = replay[c] /\ live'[c] = live[c]
  /\ missed'[c] = missed[c] /\ from'[c] = from[c]
  /\ req'[c] = req[c] /\ alive'[c] = alive[c] /\ on'[c] = on[c]
  /\ on[c] \in Turns => /\ log'[on[c]] = log[on[c]] /\ done'[on[c]] = done[on[c]]
                        /\ c \in subs[on[c]] => c \in subs'[on[c]]

LEMMA UntouchedStream ==
  ASSUME IInv, NEW c \in Conns, StreamOf(c), Untouched(c)
  PROVE  StreamOf(c)'
<1>1. CASE req[c] \in {"new", "refused", "opening"}
  BY <1>1 DEF StreamOf, Untouched, Fresh
<1>2. CASE req[c] \in {"streaming", "complete"} /\ alive[c]
  <2>1. on[c] \in Turns
    BY <1>2 DEF IInv, Handlers
  <2>2. Stream(c)' = Stream(c)
    BY DEF Untouched, Stream
  <2>3. Served(c)'
    BY <1>2, <2>1, <2>2 DEF StreamOf, Untouched, Served
  <2>. QED  BY <1>2, <2>3 DEF StreamOf, Untouched
<1>3. CASE req[c] \notin {"new", "refused", "opening"} /\ ~alive[c]
  BY <1>3 DEF StreamOf, Untouched
<1>4. CASE req[c] = "left"
  BY <1>4 DEF StreamOf, Untouched
<1>. QED  BY <1>1, <1>2, <1>3, <1>4 DEF IInv, TypeOK

\* publish appends to the log and to every open channel with room at once.
LEMMA PublishStreams ==
  ASSUME IInv, Channels, Streams, NEW t \in Turns, NEW kind \in Kinds, Publish(t, kind),
         UNCHANGED <<done, subs, connVars>>
  PROVE  Streams'
<1>. USE DEF IInv
<1>. SUFFICES ASSUME NEW c \in Conns  PROVE StreamOf(c)'
  BY DEF Streams
<1>. StreamOf(c)
  BY DEF Streams
<1>1. CASE done[t]
  <2>1. Untouched(c)
    BY <1>1 DEF Publish, frameVars, connVars, Untouched
  <2>. QED  BY <2>1, UntouchedStream
<1>2. CASE ~done[t]
  <2>. DEFINE n == Len(log[t])
  <2>1. n \in Nat /\ Len(Append(log[t], kind)) = n + 1
    BY DEF TypeOK
  <2>2. /\ log' = [log EXCEPT ![t] = Append(log[t], kind)]
        /\ live'[c] = IF c \in subs[t] /\ HasRoom(c) THEN Append(live[c], n + 1) ELSE live[c]
        /\ missed'[c] = IF c \in subs[t] /\ ~HasRoom(c)
                        THEN missed[c] \cup {n + 1} ELSE missed[c]
    BY <1>2, <2>1 DEF Publish
  <2>3. \A u \in Turns : u # t => log'[u] = log[u]
    BY <2>2 DEF TypeOK
  <2>4. Len(log'[t]) = n + 1
    BY <2>1, <2>2 DEF TypeOK
  <2>5. /\ got'[c] = got[c] /\ replay'[c] = replay[c] /\ from'[c] = from[c]
        /\ req'[c] = req[c] /\ alive'[c] = alive[c] /\ on'[c] = on[c]
        /\ done' = done /\ subs' = subs
    BY DEF connVars
  <2>6. CASE c \notin subs[t] /\ on[c] # t
    <3>1. live'[c] = live[c] /\ missed'[c] = missed[c]
      BY <2>2, <2>6
    <3>2. Untouched(c)
      BY <2>3, <2>5, <2>6, <3>1 DEF Untouched
    <3>. QED  BY <3>2, UntouchedStream
  <2>7. CASE c \notin subs[t] /\ on[c] = t
    <3>1. Fresh(c)' <=> Fresh(c)
      BY <2>2, <2>5, <2>7 DEF Fresh
    <3>2. ~(req[c] \in {"streaming", "complete"} /\ alive[c])
      BY <1>2, <2>7 DEF StreamOf, Served
    <3>. QED  BY <2>5, <3>1, <3>2 DEF StreamOf
  <2>8. CASE c \in subs[t] /\ ~alive[c]
    <3>1. req[c] = "streaming"
      BY <2>8 DEF Channels
    <3>. QED  BY <2>5, <2>8, <3>1 DEF StreamOf
  <2>9. CASE c \in subs[t] /\ alive[c]
    <3>1. req[c] = "streaming" /\ on[c] = t
      BY <2>9 DEF Channels
    <3>2. from[c] <= n /\ from[c] \in Nat /\ Whole(Stream(c), missed[c], from[c], n)
      BY <2>9, <3>1 DEF StreamOf, Served, TypeOK
    <3>3. got[c] \in Seq(Nat) /\ replay[c] \in Seq(Nat) /\ live[c] \in Seq(Nat)
      BY DEF TypeOK
    <3>4. Stream(c) \in Seq(Nat)
          /\ got[c] \o replay[c] \o Append(live[c], n + 1) = Append(Stream(c), n + 1)
      <4>1. n + 1 \in Nat
        BY <2>1
      <4>. HIDE DEF n
      <4>2. /\ got[c] \o replay[c] \o live[c] \in Seq(Nat)
            /\ \A k \in Nat : got[c] \o replay[c] \o Append(live[c], k)
                                = Append(got[c] \o replay[c] \o live[c], k)
        BY <3>3, StreamMoves
      <4>. QED  BY <4>1, <4>2 DEF Stream
    <3>5. Whole(Stream(c)', missed'[c], from[c], n + 1)
      <4>1. CASE HasRoom(c)
        <5>1. Stream(c)' = Append(Stream(c), n + 1) /\ missed'[c] = missed[c]
          BY <2>2, <2>5, <2>9, <3>4, <4>1 DEF Stream
        <5>. HIDE DEF n
        <5>. QED  BY <2>1, <3>2, <3>4, <5>1, WholeSent
      <4>2. CASE ~HasRoom(c)
        <5>1. Stream(c)' = Stream(c) /\ missed'[c] = missed[c] \cup {n + 1}
          BY <2>2, <2>5, <2>9, <4>2 DEF Stream
        <5>. HIDE DEF n
        <5>. QED  BY <2>1, <3>2, <3>4, <5>1, WholeMissed
      <4>. QED  BY <4>1, <4>2
    <3>6. from'[c] <= Len(log'[on'[c]])
      BY <2>1, <2>4, <2>5, <3>1, <3>2
    <3>7. Served(c)'
      BY <2>4, <2>5, <2>9, <3>1, <3>5, <3>6 DEF Served
    <3>. QED  BY <2>5, <3>1, <3>7 DEF StreamOf
  <2>. QED  BY <2>6, <2>7, <2>8, <2>9
<1>. QED  BY <1>1, <1>2

\* subscribe hands the client the whole replay.
LEMMA SubscribeStreams ==
  ASSUME IInv, Channels, Streams, NEW c \in Conns, Subscribe(c)
  PROVE  StreamOf(c)'
<1>. USE DEF IInv
<1>. DEFINE t == on[c]
            b == base[t]
            n == Len(log[t])
            sent == (IF b > 0 THEN <<0>> ELSE <<>>) \o [i \in 1..(n - b) |-> b + i]
<1>1. t \in Turns /\ req[c] = "opening" /\ b \in Nat /\ n \in Nat /\ b <= n
  <2>1. req[c] = "opening"
    BY DEF Subscribe
  <2>2. on[c] \in Turns
    BY <2>1 DEF Handlers
  <2>. QED  BY <2>1, <2>2 DEF Handlers, TypeOK
<1>2. Fresh(c)
  BY <1>1 DEF Streams, StreamOf
<1>3. /\ req'[c] = "streaming" /\ from'[c] = b /\ replay'[c] = sent
      /\ got'[c] = <<>> /\ live'[c] = <<>> /\ missed'[c] = {}
      /\ on'[c] = t /\ log' = log /\ done' = done
      /\ done[t] \/ c \in subs'[t]
  BY <1>1, <1>2 DEF Subscribe, Fresh, TypeOK, frameVars
<1>4. sent \in Seq(Nat) /\ Whole(sent, {}, b, n)
  <2>. HIDE DEF b, n
  <2>. QED  BY <1>1, WholeReplay
<1>. HIDE DEF sent
<1>5. Stream(c)' = sent
  <2>1. <<>> \o sent \o <<>> = sent
    BY <1>4
  <2>. QED  BY <1>3, <2>1 DEF Stream
<1>6. Served(c)'
  BY <1>1, <1>3, <1>4, <1>5 DEF Served
<1>. QED  BY <1>3, <1>6 DEF StreamOf

\* Delivering a replay or a channel frame moves it within the stream.
LEMMA WriteStreams ==
  ASSUME IInv, Streams, NEW c \in Conns, WriteReplay(c) \/ WriteLive(c)
  PROVE  StreamOf(c)'
<1>. USE DEF IInv
<1>1. got[c] \in Seq(Nat) /\ replay[c] \in Seq(Nat) /\ live[c] \in Seq(Nat)
  BY DEF TypeOK
<1>2. /\ req[c] = "streaming" /\ req'[c] = "streaming" /\ alive'[c] = alive[c]
      /\ on[c] \in Turns /\ on'[c] = on[c] /\ from'[c] = from[c] /\ missed'[c] = missed[c]
      /\ log' = log /\ done' = done /\ subs' = subs
  BY DEF WriteReplay, WriteLive, frameVars, Handlers
<1>3. CASE ~alive[c]
  BY <1>2, <1>3 DEF StreamOf
<1>4. CASE alive[c]
  <2>1. Stream(c)' = Stream(c)
    <3>1. CASE WriteReplay(c)
      <4>1. /\ got'[c] = Append(got[c], Head(replay[c])) /\ replay'[c] = Tail(replay[c])
            /\ live'[c] = live[c] /\ replay[c] # <<>>
        BY <1>4, <3>1 DEF WriteReplay, Deliver, frameVars, TypeOK
      <4>2. Append(got[c], Head(replay[c])) \o Tail(replay[c]) \o live[c]
              = got[c] \o replay[c] \o live[c]
        BY <1>1, <4>1, StreamMoves
      <4>3. Stream(c)' = Append(got[c], Head(replay[c])) \o Tail(replay[c]) \o live[c]
        BY <4>1 DEF Stream
      <4>. QED  BY <4>2, <4>3 DEF Stream
    <3>2. CASE WriteLive(c)
      <4>1. /\ got'[c] = Append(got[c], Head(live[c])) /\ replay[c] = <<>> /\ replay'[c] = replay[c]
            /\ live'[c] = Tail(live[c]) /\ live[c] # <<>>
        BY <1>4, <3>2 DEF WriteLive, Deliver, TypeOK
      <4>2. Append(got[c], Head(live[c])) \o replay[c] \o Tail(live[c])
              = got[c] \o replay[c] \o live[c]
        <5>1. replay[c] = <<>> /\ live[c] # <<>>
          BY <4>1
        <5>. QED  BY <1>1, <5>1, StreamMoves
      <4>3. Stream(c)' = Append(got[c], Head(live[c])) \o replay[c] \o Tail(live[c])
        BY <4>1 DEF Stream
      <4>. QED  BY <4>2, <4>3 DEF Stream
    <3>. QED  BY <3>1, <3>2
  <2>2. Served(c)
    BY <1>2, <1>4 DEF Streams, StreamOf
  <2>3. Served(c)'
    BY <1>2, <2>1, <2>2 DEF Served
  <2>. QED  BY <1>2, <2>3 DEF StreamOf
<1>. QED  BY <1>3, <1>4

LEMMA StreamsStep ==
  ASSUME IInv, Channels, Streams, [Next]_vars
  PROVE  Streams'
<1>. USE DEF IInv
<1>. DEFINE Others(c) == \A d \in Conns \ {c} : Untouched(d)
<1>1. CASE UNCHANGED <<frameVars, done, subs, connVars>>
  <2>1. \A d \in Conns : Untouched(d)
    BY <1>1 DEF Untouched, frameVars, connVars
  <2>. QED  BY <2>1, UntouchedStream DEF Streams
<1>2. ASSUME NEW c \in Conns, Others(c), StreamOf(c)'  PROVE Streams'
  BY <1>2, UntouchedStream DEF Streams
<1>3. ASSUME NEW c \in Conns, req[c] = "new", req'[c] \in {"opening", "refused"},
             UNCHANGED <<frameVars, done, subs, alive, replay, from, got>>,
             \A d \in Conns \ {c} : req'[d] = req[d] /\ on'[d] = on[d]
      PROVE  Streams'
  <2>1. Others(c)
    BY <1>3 DEF Untouched, frameVars
  <2>2. Fresh(c)
    BY <1>3 DEF Streams, StreamOf
  <2>3. Fresh(c)'
    BY <1>3, <2>2 DEF Fresh, frameVars
  <2>4. StreamOf(c)'
    BY <1>3, <2>3 DEF StreamOf
  <2>. QED  BY <2>1, <2>4, <1>2
<1>4. ASSUME NEW c \in Conns, Subscribe(c)  PROVE Streams'
  <2>1. /\ UNCHANGED <<frameVars, done, on, alive, got>>
        /\ \A d \in Conns \ {c} : req'[d] = req[d] /\ from'[d] = from[d] /\ replay'[d] = replay[d]
        /\ \A u \in Turns : subs[u] \subseteq subs'[u]
    BY <1>4 DEF Subscribe, TypeOK
  <2>2. Others(c)
    BY <2>1 DEF Untouched, frameVars
  <2>. QED  BY <1>4, <2>2, <1>2, SubscribeStreams
<1>5. ASSUME NEW c \in Conns, WriteReplay(c) \/ WriteLive(c)  PROVE Streams'
  <2>1. /\ UNCHANGED <<log, missed, done, subs, req, on, alive, from>>
        /\ \A d \in Conns \ {c} : got'[d] = got[d] /\ replay'[d] = replay[d] /\ live'[d] = live[d]
    BY <1>5 DEF WriteReplay, WriteLive, Deliver, TypeOK, frameVars
  <2>2. Others(c)
    BY <2>1 DEF Untouched
  <2>. QED  BY <1>5, <2>2, <1>2, WriteStreams
<1>6. ASSUME NEW c \in Conns, WriteDone(c) \/ Leave(c)  PROVE Streams'
  <2>1. /\ UNCHANGED <<frameVars, done, on, alive, replay, from, got>>
        /\ req[c] = "streaming" /\ on[c] \in Turns
        /\ \A d \in Conns \ {c} : req'[d] = req[d]
        /\ \A u \in Turns : subs[u] \subseteq subs'[u] \cup {c}
    <3>1. req[c] = "streaming" /\ Unsubscribe(c)
          /\ UNCHANGED <<frameVars, done, on, alive, replay, from, got>>
      BY <1>6 DEF WriteDone, Leave
    <3>2. \A d \in Conns \ {c} : req'[d] = req[d]
      BY <1>6 DEF WriteDone, Leave, TypeOK
    <3>3. on[c] \in Turns
      BY <3>1 DEF Handlers
    <3>4. \A u \in Turns : subs[u] \subseteq subs'[u] \cup {c}
      BY <3>1 DEF Unsubscribe, TypeOK
    <3>. QED  BY <3>1, <3>2, <3>3, <3>4
  <2>2. Others(c)
    BY <2>1 DEF Untouched, frameVars
  <2>3. CASE alive[c] /\ WriteDone(c)
    <3>1. req'[c] = "complete" /\ c \notin subs[on[c]]
      BY <2>3 DEF WriteDone, TypeOK
    <3>2. Served(c) /\ done[on[c]]
      BY <2>1, <2>3, <3>1 DEF Streams, StreamOf, Served
    <3>3. Stream(c)' = Stream(c)
      BY <2>1 DEF Stream, frameVars
    <3>4. Served(c)'
      BY <2>1, <3>2, <3>3 DEF Served, frameVars
    <3>. QED  BY <2>2, <3>1, <3>4, <1>2 DEF StreamOf
  <2>4. CASE ~alive[c] \/ Leave(c)
    <3>1. ~alive'[c] /\ req'[c] \in {"complete", "left"}
      BY <1>6, <2>1, <2>4 DEF WriteDone, Leave, TypeOK
    <3>2. StreamOf(c)'
      BY <3>1 DEF StreamOf
    <3>. QED  BY <2>2, <3>2, <1>2
  <2>. QED  BY <1>6, <2>3, <2>4
<1>7. ASSUME NEW c \in Conns, ClientGone(c)  PROVE Streams'
  <2>1. /\ UNCHANGED <<frameVars, done, subs, on, req, replay, from>>
        /\ ~alive'[c] /\ got'[c] = <<>>
        /\ \A d \in Conns \ {c} : alive'[d] = alive[d] /\ got'[d] = got[d]
    BY <1>7 DEF ClientGone, TypeOK
  <2>2. Others(c)
    BY <2>1 DEF Untouched, frameVars
  <2>3. Fresh(c) => Fresh(c)'
    BY <2>1 DEF Fresh, frameVars
  <2>4. StreamOf(c)'
    BY <2>1, <2>3 DEF Streams, StreamOf
  <2>. QED  BY <2>2, <2>4, <1>2
<1>8. ASSUME NEW t \in Turns, CloseSubs(t)  PROVE Streams'
  <2>1. /\ UNCHANGED <<frameVars, connVars>>
        /\ \A u \in Turns : done'[u] = IF u = t THEN TRUE ELSE done[u]
        /\ \A u \in Turns : subs'[u] = IF u = t THEN {} ELSE subs[u]
    BY <1>8 DEF CloseSubs, TypeOK
  <2>2. ASSUME NEW c \in Conns  PROVE StreamOf(c)'
    <3>1. CASE req[c] \in {"streaming", "complete"} /\ alive[c]
      <4>1. Served(c) /\ on[c] \in Turns
        BY <3>1 DEF Streams, StreamOf, Handlers
      <4>2. Stream(c)' = Stream(c)
        BY <2>1 DEF Stream, frameVars, connVars
      <4>3. Served(c)'
        BY <2>1, <4>1, <4>2 DEF Served, frameVars, connVars
      <4>. QED  BY <2>1, <3>1, <4>3 DEF StreamOf, connVars
    <3>2. CASE ~(req[c] \in {"streaming", "complete"} /\ alive[c])
      <4>1. StreamOf(c)
        BY DEF Streams
      <4>2. Fresh(c) => Fresh(c)'
        BY <2>1 DEF Fresh, frameVars, connVars
      <4>. QED  BY <2>1, <3>2, <4>1, <4>2 DEF StreamOf, connVars
    <3>. QED  BY <3>1, <3>2
  <2>. QED  BY <2>2 DEF Streams
\* The goroutine, the steering requests and the interrupt publish, or leave
\* the streams alone.
<1>9. ASSUME NEW t \in Turns, NEW kind \in Kinds, Publish(t, kind),
             UNCHANGED <<done, subs, connVars>>
      PROVE  Streams'
  BY <1>9, PublishStreams
<1>10. ASSUME NEW t \in Turns, Round(t) \/ Answer(t)  PROVE Streams'
  <2>1. UNCHANGED <<done, subs, connVars>> /\ (UNCHANGED frameVars \/ Publish(t, "notice"))
    BY <1>10 DEF Round, Answer, DrainTo, DrainFails, runUnchanged
  <2>. QED  BY <2>1, <1>1, <1>9 DEF Kinds
<1>11. ASSUME NEW t \in Turns, Emit(t)  PROVE Streams'
  BY <1>9, <1>11 DEF Emit, Kinds
<1>12. ASSUME NEW t \in Turns, PublishTerminal(t)  PROVE Streams'
  <2>1. UNCHANGED <<done, subs, connVars>> /\ (Publish(t, "done") \/ Publish(t, "error"))
    BY <1>12 DEF PublishTerminal
  <2>. QED  BY <2>1, <1>9 DEF Kinds
<1>13. ASSUME NEW m \in Steers, SteerPublish(m)  PROVE Streams'
  <2>1. aim[m] \in Turns /\ Publish(aim[m], "steered") /\ UNCHANGED <<done, subs, connVars>>
    BY <1>13 DEF SteerPublish, Handlers
  <2>. QED  BY <2>1, <1>9 DEF Kinds
<1>14. ASSUME NEW t \in Turns, Continue(t) \/ StagnationStop(t) \/ RunFails(t) \/ Retire(t)
       PROVE  Streams'
  BY <1>1, <1>14 DEF Continue, StagnationStop, RunFails, Stop, Retire
<1>15. ASSUME NEW m \in Steers, QueueSteering(m)  PROVE Streams'
  BY <1>1, <1>15 DEF QueueSteering
<1>16. ASSUME NEW s \in Sessions,
              Interrupt(s) \/ \E m \in Steers : SteerCheck(m, s)
       PROVE  Streams'
  BY <1>1, <1>16 DEF SteerCheck, Interrupt
<1>17. ASSUME NEW c \in Conns, NEW s \in Sessions,
              Attach(c, s) \/ Refused(c, s) \/ \E t \in Turns : Post(c, s, t)
       PROVE  Streams'
  <2>1. /\ UNCHANGED <<frameVars, done, subs, alive, replay, from, got>>
        /\ req[c] = "new" /\ req'[c] \in {"opening", "refused"}
        /\ \A d \in Conns \ {c} : req'[d] = req[d] /\ on'[d] = on[d]
    BY <1>17 DEF Post, Attach, Refused, TypeOK, turnVars
  <2>. QED  BY <2>1, <1>3
<1>18. CASE UNCHANGED vars
  BY <1>1, <1>18 DEF vars
<1>19. CASE \E c \in Conns : ConnStep(c) \/ ClientGone(c)
  BY <1>4, <1>5, <1>6, <1>7, <1>19 DEF ConnStep
<1>20. CASE \E t \in Turns : RunStep(t) \/ Emit(t) \/ EndStep(t)
  BY <1>8, <1>10, <1>11, <1>12, <1>14, <1>20 DEF RunStep, EndStep
<1>. HIDE DEF Others
<1>. QED  BY <1>13, <1>15, <1>16, <1>17, <1>18, <1>19, <1>20 DEF Next

\* Whatever the cap, the buffer and the interleaving of attaches, publishes and
\* writes, a connected client is sent every frame once and in order, but for
\* those its full channel dropped.
THEOREM FramesOnceInOrder == Spec => []ExactlyOnceInOrder
<1>1. Init => Streams
  BY DEF Init, Streams, StreamOf, Fresh
<1>2. IInv /\ Channels /\ Streams /\ [Next]_vars => Streams'
  BY StreamsStep
<1>3. Streams => ExactlyOnceInOrder
  BY DEF Streams, StreamOf, Served, Whole, ExactlyOnceInOrder
<1>4. Spec => []Channels
  <2>1. Init => Channels
    BY DEF Init, Channels
  <2>2. IInv /\ Channels /\ [Next]_vars => Channels'
    BY ChannelsStep
  <2>. QED  BY <2>1, <2>2, Invariance, PTL DEF Spec
<1>. QED  BY <1>1, <1>2, <1>3, <1>4, Invariance, PTL DEF Spec

----------------------------------------------------------------------------
\* A steering message whose handler queued it.
Heard == {"queued", "accepted"}

\* A message arrives once, in one session, when its handler queues it, and is
\* lost only after that.
ArrivedOnce ==
  /\ \A s \in Sessions : Once(arrived[s])
  /\ \A s, u \in Sessions : \A i \in 1..Len(arrived[s]), j \in 1..Len(arrived[u]) :
       arrived[s][i] = arrived[u][j] => s = u
  /\ \A s \in Sessions : \A i \in 1..Len(arrived[s]) : steer[arrived[s][i]] \in Heard
  /\ \A m \in lost : steer[m] \in Heard

Steering == ArrivedOnce /\ SteeringInOrder

\* QueueSteering puts a message behind those that arrived and those queued.
LEMMA QueueInOrder ==
  ASSUME IInv, Steering, NEW m \in Steers, QueueSteering(m)
  PROVE  Steering'
<1>. USE DEF IInv
<1>. DEFINE s == sess[aim[m]]
<1>1. /\ steer[m] = "checked" /\ s \in Sessions
      /\ steer' = [steer EXCEPT ![m] = "queued"]
      /\ queue' = [queue EXCEPT ![s] = Append(@, m)]
      /\ arrived' = [arrived EXCEPT ![s] = Append(@, m)]
      /\ UNCHANGED <<history, lost>>
  BY DEF QueueSteering, Handlers, Registry
<1>. HIDE DEF s
<1>2. /\ queue[s] \in Seq(Steers) /\ history[s] \in Seq(Steers) /\ arrived[s] \in Seq(Steers)
      /\ queue'[s] = Append(queue[s], m) /\ arrived'[s] = Append(arrived[s], m)
      /\ history'[s] = history[s]
      /\ \A u \in Sessions \ {s} : queue'[u] = queue[u] /\ arrived'[u] = arrived[u]
                                   /\ history'[u] = history[u]
      /\ steer'[m] = "queued" /\ \A o \in Steers \ {m} : steer'[o] = steer[o]
  BY <1>1 DEF TypeOK
<1>3. /\ m \notin lost
      /\ \A u \in Sessions : \A i \in 1..Len(arrived[u]) : arrived[u][i] # m
  BY <1>1 DEF Steering, ArrivedOnce, Heard
<1>4. SteeringInOrder'
  <2>1. history[s] \o queue[s] = Only(arrived[s], Steers \ lost)
    BY <1>1 DEF Steering, SteeringInOrder
  <2>2. Only(Append(arrived[s], m), Steers \ lost) = Append(Only(arrived[s], Steers \ lost), m)
    <3>. DEFINE K == Steers \ lost
    <3>1. m \in K
      BY <1>3
    <3>. HIDE DEF K
    <3>2. \A l \in Seq(Steers) : Only(Append(l, m), K) = Append(Only(l, K), m)
      BY <3>1, OnlyOfAppend
    <3>3. Only(Append(arrived[s], m), K) = Append(Only(arrived[s], K), m)
      BY <1>2, <3>2
    <3>. QED  BY <3>3 DEF K
  <2>3. \A a, b \in Seq(Steers) : Append(a \o b, m) = a \o Append(b, m)
    BY AppendBehind
  <2>4. history'[s] \o queue'[s] = Only(arrived'[s], Steers \ lost')
    BY <1>1, <1>2, <2>1, <2>2, <2>3
  <2>5. ASSUME NEW u \in Sessions, u # s
        PROVE  history'[u] \o queue'[u] = Only(arrived'[u], Steers \ lost')
    BY <1>1, <1>2, <2>5 DEF Steering, SteeringInOrder
  <2>. QED  BY <2>4, <2>5 DEF SteeringInOrder
<1>5. \* What has arrived now is what had, and m at the end of s.
      /\ Len(arrived'[s]) = Len(arrived[s]) + 1 /\ Len(arrived[s]) \in Nat
      /\ arrived'[s][Len(arrived[s]) + 1] = m
      /\ \A i \in 1..Len(arrived[s]) : arrived'[s][i] = arrived[s][i]
  BY <1>2
<1>6. \A u \in Sessions : \A i \in 1..Len(arrived'[u]) :
        \/ arrived'[u][i] = m /\ u = s /\ i = Len(arrived[s]) + 1
        \/ i \in 1..Len(arrived[u]) /\ arrived'[u][i] = arrived[u][i] /\ arrived[u][i] # m
  <2>. TAKE u \in Sessions
  <2>1. CASE u = s
    <3>. TAKE i \in 1..Len(arrived'[u])
    <3>1. i = Len(arrived[s]) + 1 \/ i \in 1..Len(arrived[s])
      BY <1>5, <2>1
    <3>. QED  BY <1>3, <1>5, <2>1, <3>1
  <2>2. CASE u # s
    BY <1>2, <1>3, <2>2
  <2>. QED  BY <2>1, <2>2
<1>7. \A u \in Sessions : \A i \in 1..Len(arrived[u]) : arrived[u][i] \in Steers
  <2>1. \A u \in Sessions : arrived[u] \in Seq(Steers)
    BY DEF TypeOK
  <2>. QED  BY <2>1
<1>8. \A u \in Sessions : Once(arrived'[u])
  BY <1>6 DEF Steering, ArrivedOnce, Once
<1>9. \A u, v \in Sessions : \A i \in 1..Len(arrived'[u]), j \in 1..Len(arrived'[v]) :
        arrived'[u][i] = arrived'[v][j] => u = v
  <2>. TAKE u, v \in Sessions
  <2>. TAKE i \in 1..Len(arrived'[u]), j \in 1..Len(arrived'[v])
  <2>. HAVE arrived'[u][i] = arrived'[v][j]
  <2>1. CASE arrived'[u][i] = m
    <3>1. u = s /\ v = s
      BY <1>6, <2>1
    <3>. QED  BY <3>1
  <2>2. CASE arrived'[u][i] # m
    <3>1. /\ i \in 1..Len(arrived[u]) /\ arrived'[u][i] = arrived[u][i]
          /\ j \in 1..Len(arrived[v]) /\ arrived'[v][j] = arrived[v][j]
      BY <1>6, <2>2
    <3>2. arrived[u][i] = arrived[v][j]
      BY <3>1
    <3>. QED  BY <3>1, <3>2 DEF Steering, ArrivedOnce
  <2>. QED  BY <2>1, <2>2
<1>10. \A u \in Sessions : \A i \in 1..Len(arrived'[u]) : steer'[arrived'[u][i]] \in Heard
  <2>. TAKE u \in Sessions
  <2>. TAKE i \in 1..Len(arrived'[u])
  <2>1. CASE arrived'[u][i] = m
    BY <1>2, <2>1 DEF Heard
  <2>2. CASE i \in 1..Len(arrived[u]) /\ arrived'[u][i] = arrived[u][i] /\ arrived[u][i] # m
    BY <1>2, <1>7, <2>2 DEF Steering, ArrivedOnce
  <2>. QED  BY <1>6, <2>1, <2>2
<1>11. \A o \in lost' : steer'[o] \in Heard
  BY <1>1, <1>2, <1>3 DEF Steering, ArrivedOnce, TypeOK
<1>. QED  BY <1>4, <1>8, <1>9, <1>10, <1>11 DEF Steering, ArrivedOnce

\* drainSteering moves the queue into the history; a failed write moves a part of
\* it, and the rest is lost.
LEMMA DrainInOrder ==
  ASSUME IInv, Steering, NEW t \in Turns, sess[t] \in Sessions,
         (\E next : DrainTo(t, next)) \/ DrainFails(t), UNCHANGED <<steer, arrived>>
  PROVE  Steering'
<1>. USE DEF IInv
<1>. DEFINE s == sess[t]
            q == queue[s]
            h == history[s]
            a == arrived[s]
<1>1. /\ q \in Seq(Steers) /\ h \in Seq(Steers) /\ a \in Seq(Steers)
      /\ \A u \in Sessions : arrived[u] \in Seq(Steers) /\ history[u] \in Seq(Steers)
  BY DEF TypeOK
<1>2. h \o q = Only(a, Steers \ lost)
  BY DEF Steering, SteeringInOrder
<1>3. CASE \E next : DrainTo(t, next)
  <2>1. /\ queue' = [queue EXCEPT ![s] = <<>>]
        /\ history' = [history EXCEPT ![s] = @ \o q] /\ lost' = lost
    BY <1>3 DEF DrainTo
  <2>2. queue'[s] = <<>> /\ history'[s] = h \o q
        /\ \A u \in Sessions \ {s} : queue'[u] = queue[u] /\ history'[u] = history[u]
    BY <2>1 DEF TypeOK
  <2>3. (h \o q) \o <<>> = h \o q
    BY <1>1
  <2>. HIDE DEF q, h, s
  <2>4. SteeringInOrder'
    BY <1>2, <2>1, <2>2, <2>3 DEF Steering, SteeringInOrder, a
  <2>5. ArrivedOnce'
    BY <2>1 DEF Steering, ArrivedOnce
  <2>. QED  BY <2>4, <2>5 DEF Steering
<1>4. CASE DrainFails(t)
  <2>1. PICK n \in 0..(Len(q) - 1) :
          /\ queue'   = [queue EXCEPT ![s] = <<>>]
          /\ history' = [history EXCEPT ![s] = @ \o SubSeq(q, 1, n)]
          /\ lost'    = lost \cup {q[i] : i \in (n + 1)..Len(q)}
    BY <1>4 DEF DrainFails
  <2>. DEFINE kept == SubSeq(q, 1, n)
              left == SubSeq(q, n + 1, Len(q))
              gone == {left[i] : i \in 1..Len(left)}
  <2>2. n \in Nat /\ Len(q) \in Nat /\ n < Len(q)
    BY <1>1, <2>1
  <2>3. /\ kept \in Seq(Steers) /\ left \in Seq(Steers) /\ Len(left) = Len(q) - n
        /\ \A i \in 1..(Len(q) - n) : left[i] = q[n + i]
    <3>1. q \in Seq(Steers)
      BY <1>1
    <3>. HIDE DEF q
    <3>2. kept \in Seq(Steers)
      BY <2>2, <3>1
    <3>3. left \in Seq(Steers) /\ Len(left) = Len(q) - (n + 1) + 1
      BY <2>2, <3>1
    <3>4. \A i \in 1..(Len(q) - n) : left[i] = q[(n + 1) + i - 1] /\ (n + 1) + i - 1 = n + i
      BY <2>2, <3>1
    <3>5. Len(q) - (n + 1) + 1 = Len(q) - n
      BY <2>2
    <3>. QED  BY <3>2, <3>3, <3>4, <3>5
  <2>4. kept \o left = q
    <3>1. 1 \in 1..(Len(q) + 1) /\ n \in (1 - 1)..Len(q) /\ Len(q) \in n..Len(q)
      BY <2>2
    <3>2. SubSeq(q, 1, n) \o SubSeq(q, n + 1, Len(q)) = SubSeq(q, 1, Len(q))
      BY <1>1, <3>1, ConcatAdjacentSubSeq
    <3>3. SubSeq(q, 1, Len(q)) = q
      BY <1>1
    <3>. QED  BY <3>2, <3>3
  <2>5. gone = {q[i] : i \in (n + 1)..Len(q)}
    <3>1. \A i \in 1..Len(left) : n + i \in (n + 1)..Len(q) /\ left[i] = q[n + i]
      BY <2>2, <2>3
    <3>2. \A i \in (n + 1)..Len(q) : i - n \in 1..Len(left) /\ left[i - n] = q[i]
      BY <2>2, <2>3
    <3>. HIDE DEF left, q
    <3>3. \A m \in gone : m \in {q[i] : i \in (n + 1)..Len(q)}
      BY <3>1
    <3>4. \A m \in {q[i] : i \in (n + 1)..Len(q)} : m \in gone
      BY <3>2
    <3>. QED  BY <3>3, <3>4
  <2>6. /\ queue'[s] = <<>> /\ history'[s] = h \o kept /\ lost' = lost \cup gone
        /\ \A u \in Sessions \ {s} : queue'[u] = queue[u] /\ history'[u] = history[u]
    BY <2>1, <2>5 DEF TypeOK
  <2>7. h \o kept \in Seq(Steers) /\ (h \o kept) \o left = h \o q
    <3>1. (h \o kept) \o left = h \o (kept \o left)
      <4>. HIDE DEF h, kept, left
      <4>1. \A x, y, z \in Seq(Steers) : (x \o y) \o z = x \o (y \o z)
        BY ConcatAssociative
      <4>. QED  BY <1>1, <2>3, <4>1
    <3>. HIDE DEF kept, left
    <3>. QED  BY <1>1, <2>3, <2>4, <3>1
  <2>8. Once(a)
    BY DEF Steering, ArrivedOnce, Once
  <2>. HIDE DEF kept, left
  <2>9. Only(a, (Steers \ lost) \ gone) = h \o kept
    <3>. DEFINE front == h \o kept
                K == Steers \ lost
    <3>1. front \in Seq(Steers) /\ Only(a, K) = front \o left
      BY <1>2, <2>7
    <3>2. a \in Seq(Steers) /\ left \in Seq(Steers)
      BY <1>1, <2>3
    <3>. HIDE DEF front, a, K
    <3>3. Without(K, left) = K \ gone
      BY DEF Without
    <3>4. ASSUME NEW l \in Seq(Steers), NEW x \in Seq(Steers), NEW y \in Seq(Steers),
                 Only(l, K) = x \o y, Once(l)
          PROVE  Only(l, Without(K, y)) = x
      BY <3>4, OnlyWithoutEnd
    <3>5. Only(a, Without(K, left)) = front
      <4>. HIDE DEF left
      <4>. QED  BY <2>8, <3>1, <3>2, <3>4
    <3>. QED  BY <3>3, <3>5 DEF front, K
  \* The lost ones arrived in s.
  <2>10. ASSUME NEW m \in gone  PROVE \E k \in 1..Len(a) : a[k] = m
    <3>1. PICK i \in 1..Len(left) : m = left[i]
      BY <2>10
    <3>2. /\ Len(h \o kept) + i \in 1..Len(h \o q)
          /\ (h \o q)[Len(h \o kept) + i] = m
      <4>. DEFINE front == h \o kept
      <4>1. front \in Seq(Steers) /\ front \o left = h \o q
        BY <2>7
      <4>. HIDE DEF front
      <4>2. Len(front) + i \in 1..Len(front \o left) /\ (front \o left)[Len(front) + i] = left[i]
        <5>1. left \in Seq(Steers) /\ i \in 1..Len(left) /\ Len(front) \in Nat
          BY <2>3, <3>1, <4>1
        <5>2. \A x, y \in Seq(Steers) : \A j \in 1..Len(y) :
                Len(x) + j \in 1..Len(x \o y) /\ (x \o y)[Len(x) + j] = y[j]
          OBVIOUS
        <5>. QED  BY <4>1, <5>1, <5>2
      <4>. QED  BY <3>1, <4>1, <4>2 DEF front
    <3>3. \A j \in 1..Len(Only(a, Steers \ lost)) :
            \E k \in 1..Len(a) : a[k] = Only(a, Steers \ lost)[j]
      <4>. HIDE DEF a
      <4>. QED  BY <1>1, OnlyMembers
    <3>. QED  BY <1>2, <3>2, <3>3
  <2>11. ASSUME NEW u \in Sessions, u # s
         PROVE  Only(arrived[u], Steers \ lost') = Only(arrived[u], Steers \ lost)
    <3>. DEFINE there == {arrived[u][k] : k \in 1..Len(arrived[u])}
    <3>1. arrived[u] \in Seq(there)
      <4>1. \A l \in Seq(Steers) : l \in Seq({l[k] : k \in 1..Len(l)})
        OBVIOUS
      <4>. QED  BY <1>1, <4>1
    <3>2. ASSUME NEW m \in there  PROVE m \notin gone
      <4>1. PICK k \in 1..Len(arrived[u]) : arrived[u][k] = m
        BY <3>2
      <4>. SUFFICES ASSUME m \in gone  PROVE FALSE
        OBVIOUS
      <4>. HIDE DEF gone, there
      <4>2. PICK j \in 1..Len(arrived[s]) : arrived[s][j] = m
        BY <2>10
      <4>3. arrived[u][k] = arrived[s][j]
        BY <4>1, <4>2
      <4>. QED  BY <2>11, <4>3 DEF Steering, ArrivedOnce
    <3>3. \A m \in there : m \in Steers \ lost <=> m \in Steers \ lost'
      BY <2>6, <3>2
    <3>. HIDE DEF there
    <3>4. \A l \in Seq(there) : Only(l, Steers \ lost) = Only(l, Steers \ lost')
      BY <3>3, OnlyAgrees
    <3>. QED  BY <3>1, <3>4
  <2>12. Steers \ lost' = (Steers \ lost) \ gone
    BY <2>6
  <2>13. (h \o kept) \o <<>> = h \o kept
    BY <2>7
  <2>14. SteeringInOrder'
    <3>1. history'[s] \o queue'[s] = Only(arrived'[s], Steers \ lost')
      <4>1. history'[s] \o queue'[s] = h \o kept
        BY <2>6, <2>13
      <4>2. Only(arrived'[s], Steers \ lost') = Only(a, (Steers \ lost) \ gone)
        BY <2>12
      <4>. QED  BY <2>9, <4>1, <4>2
    <3>. HIDE DEF gone
    <3>2. ASSUME NEW u \in Sessions, u # s
          PROVE  history'[u] \o queue'[u] = Only(arrived'[u], Steers \ lost')
      <4>1. history[u] \o queue[u] = Only(arrived[u], Steers \ lost)
        BY DEF Steering, SteeringInOrder
      <4>. QED  BY <2>6, <2>11, <3>2, <4>1
    <3>. QED  BY <3>1, <3>2 DEF SteeringInOrder
  <2>15. ArrivedOnce'
    <3>. HIDE DEF gone
    <3>1. ASSUME NEW m \in lost'  PROVE steer'[m] \in Heard
      <4>1. CASE m \in gone
        <5>1. PICK k \in 1..Len(arrived[s]) : arrived[s][k] = m
          BY <2>10, <4>1
        <5>. QED  BY <5>1 DEF Steering, ArrivedOnce
      <4>2. CASE m \in lost
        BY <4>2 DEF Steering, ArrivedOnce
      <4>. QED  BY <2>6, <3>1, <4>1, <4>2
    <3>. QED  BY <3>1 DEF Steering, ArrivedOnce
  <2>. QED  BY <2>14, <2>15 DEF Steering
<1>. QED  BY <1>3, <1>4

\* Every step keeps the steering messages in order.
LEMMA SteeringStep ==
  ASSUME IInv, Steering, [Next]_vars
  PROVE  Steering'
<1>. USE DEF IInv
<1>1. ASSUME UNCHANGED <<queue, history, arrived, lost>>,
             \A m \in Steers : steer[m] \in Heard => steer'[m] \in Heard
      PROVE  Steering'
  <2>1. \A s \in Sessions : \A i \in 1..Len(arrived[s]) : arrived[s][i] \in Steers
    <3>1. \A s \in Sessions : arrived[s] \in Seq(Steers)
      BY DEF TypeOK
    <3>. QED  BY <3>1
  <2>2. SteeringInOrder'
    BY <1>1 DEF Steering, SteeringInOrder
  <2>3. ArrivedOnce'
    BY <1>1, <2>1 DEF Steering, ArrivedOnce, TypeOK
  <2>. QED  BY <2>2, <2>3 DEF Steering
<1>2. CASE UNCHANGED steerVars
  BY <1>1, <1>2 DEF steerVars
<1>3. ASSUME NEW m \in Steers, SteerPublish(m) \/ \E s \in Sessions : SteerCheck(m, s)
      PROVE  Steering'
  <2>1. UNCHANGED <<queue, history, arrived, lost>>
    BY <1>3 DEF SteerPublish, SteerCheck
  <2>2. \E stage : steer' = [steer EXCEPT ![m] = stage] /\ (steer[m] = "new" \/ stage = "accepted")
    BY <1>3 DEF SteerPublish, SteerCheck
  <2>3. \A o \in Steers : steer[o] \in Heard => steer'[o] \in Heard
    BY <2>2 DEF TypeOK, Heard
  <2>. QED  BY <1>1, <2>1, <2>3
<1>4. ASSUME NEW m \in Steers, QueueSteering(m)  PROVE Steering'
  BY <1>4, QueueInOrder
<1>5. ASSUME NEW t \in Turns, Round(t) \/ Answer(t)  PROVE Steering'
  <2>1. pc[t] \in {"boundary", "calling"} /\ UNCHANGED <<steer, arrived>>
        /\ ((\E next : DrainTo(t, next)) \/ DrainFails(t))
    BY <1>5 DEF Round, Answer, runUnchanged
  <2>2. sess[t] \in Sessions
    BY <2>1 DEF Registry
  <2>. QED  BY <2>1, <2>2, DrainInOrder
<1>6. ASSUME NEW t \in Turns,
             Continue(t) \/ StagnationStop(t) \/ RunFails(t) \/ Emit(t) \/ EndStep(t)
      PROVE  UNCHANGED steerVars
  BY <1>6 DEF Continue, StagnationStop, RunFails, Stop, Emit, EndStep, PublishTerminal,
              CloseSubs, Retire
<1>7. ASSUME NEW c \in Conns, ConnStep(c) \/ ClientGone(c)  PROVE UNCHANGED steerVars
  BY <1>7 DEF ConnStep, Subscribe, WriteReplay, WriteLive, WriteDone, Leave, ClientGone
<1>8. ASSUME NEW c \in Conns, NEW s \in Sessions,
             Attach(c, s) \/ Refused(c, s) \/ \E t \in Turns : Post(c, s, t)
      PROVE  UNCHANGED steerVars
  BY <1>8 DEF Attach, Refused, Post
<1>9. ASSUME NEW s \in Sessions, Interrupt(s)  PROVE UNCHANGED steerVars
  BY <1>9 DEF Interrupt
<1>10. CASE UNCHANGED vars
  BY <1>2, <1>10 DEF vars
<1>11. CASE \E t \in Turns : RunStep(t) \/ Emit(t) \/ EndStep(t)
  BY <1>2, <1>5, <1>6, <1>11 DEF RunStep
<1>. QED  BY <1>2, <1>3, <1>4, <1>7, <1>8, <1>9, <1>10, <1>11 DEF Next

\* Whatever turns drain a session's queue, and wherever a write fails, steering
\* is in the history once and in the order it was queued, but for what a failed
\* write lost.
THEOREM SteeringKept == Spec => []SteeringInOrder
<1>1. Init => Steering
  <2>. SUFFICES ASSUME Init  PROVE Steering
    OBVIOUS
  <2>1. \A s \in Sessions : history[s] = <<>> /\ queue[s] = <<>> /\ arrived[s] = <<>> /\ lost = {}
    BY DEF Init
  <2>2. <<>> \in Seq(Steers) /\ Len(<<>>) = 0 /\ <<>> \o <<>> = <<>>
    OBVIOUS
  <2>3. Only(<<>>, Steers \ {}) = <<>>
    BY <2>2, OnlyOfNothing
  <2>4. SteeringInOrder
    BY <2>1, <2>2, <2>3 DEF SteeringInOrder
  <2>5. ArrivedOnce
    BY <2>1, <2>2 DEF ArrivedOnce, Init, Once
  <2>. QED  BY <2>4, <2>5 DEF Steering
<1>2. IInv /\ Steering /\ [Next]_vars => Steering'
  BY SteeringStep
<1>3. Steering => SteeringInOrder
  BY DEF Steering
<1>. QED  BY <1>1, <1>2, <1>3, Invariance, PTL DEF Spec

----------------------------------------------------------------------------
\* How much a replay holds, by its recursion.
SumsUp(sum, l, b) ==
  sum = [i \in b..Len(l) |-> IF i = b THEN 0 ELSE sum[i - 1] + FrameSize[l[i]]]

LEMMA SumExists ==
  ASSUME NEW l \in Seq(Kinds), NEW b \in 0..Len(l)
  PROVE  \E sum \in [b..Len(l) -> Nat] : SumsUp(sum, l, b)
<1>. DEFINE N == Len(l) - b
            step == [x \in Nat \X (1..N) |-> x[1] + FrameSize[l[b + x[2]]]]
<1>1. N \in Nat /\ Len(l) \in Nat /\ b \in Nat
  OBVIOUS
<1>2. \A i \in 1..Len(l) : FrameSize[l[i]] \in Nat
  BY SizeAssumption
<1>3. \A n \in 1..N : b + n \in 1..Len(l)
  BY <1>1
<1>4. step \in [Nat \X (1..N) -> Nat]
  BY <1>2, <1>3
<1>5. PICK g \in [0..N -> Nat] : Steps(g, N, 0, step)
  <2>1. 0 \in Nat
    OBVIOUS
  <2>. HIDE DEF step, N
  <2>. QED  BY <1>1, <1>4, <2>1, Recursion
<1>6. \A n \in 1..N : g[n] = g[n - 1] + FrameSize[l[b + n]]
  <2>. TAKE n \in 1..N
  <2>1. n - 1 \in 0..N
    BY <1>1
  <2>2. g[n - 1] \in Nat
    BY <1>5, <2>1
  <2>3. <<g[n - 1], n>> \in Nat \X (1..N)
    BY <2>2
  <2>4. step[<<g[n - 1], n>>] = g[n - 1] + FrameSize[l[b + n]]
    BY <2>3
  <2>5. g[n] = step[<<g[n - 1], n>>]
    BY <1>5 DEF Steps
  <2>. QED  BY <2>4, <2>5
<1>7. g[0] = 0
  BY <1>5 DEF Steps
<1>. DEFINE sum == [i \in b..Len(l) |-> g[i - b]]
<1>8. \A i \in b..Len(l) : i - b \in 0..N /\ (i # b => i - b \in 1..N /\ (i - b) - 1 = (i - 1) - b
                                                 /\ b + (i - b) = i /\ i - 1 \in b..Len(l))
  BY <1>1
<1>9. sum \in [b..Len(l) -> Nat]
  BY <1>8
<1>10. \A i \in b..Len(l) : sum[i] = IF i = b THEN 0 ELSE sum[i - 1] + FrameSize[l[i]]
  <2>. TAKE i \in b..Len(l)
  <2>1. CASE i = b
    <3>1. i - b = 0
      BY <1>1, <2>1
    <3>. QED  BY <1>7, <2>1, <3>1
  <2>2. CASE i # b
    <3>1. g[i - b] = g[(i - 1) - b] + FrameSize[l[i]]
      <4>. HIDE DEF N, step
      <4>. QED  BY <1>6, <1>8, <2>2
    <3>2. sum[i] = g[i - b] /\ sum[i - 1] = g[(i - 1) - b]
      BY <1>8, <2>2
    <3>. HIDE DEF sum, N, step
    <3>. QED  BY <2>2, <3>1, <3>2
  <2>. QED  BY <2>1, <2>2
<1>. HIDE DEF sum
<1>11. SumsUp(sum, l, b)
  BY <1>9, <1>10 DEF SumsUp
<1>. QED  BY <1>9, <1>11

\* Over a common part of two logs the sums agree.
LEMMA SumsAgree ==
  ASSUME NEW l \in Seq(Kinds), NEW m \in Seq(Kinds), NEW b \in 0..Len(l),
         Len(l) <= Len(m), \A i \in 1..Len(l) : m[i] = l[i],
         NEW f, SumsUp(f, l, b), NEW g, SumsUp(g, m, b)
  PROVE  f[Len(l)] = g[Len(l)]
<1>. DEFINE N == Len(l) - b
            same == {n \in 0..N : f[b + n] = g[b + n]}
<1>1. N \in Nat /\ Len(l) \in Nat /\ Len(m) \in Nat /\ b \in Nat /\ b + N = Len(l)
  OBVIOUS
<1>2. 0 \in same
  <2>1. b \in b..Len(l) /\ b \in b..Len(m) /\ b + 0 = b /\ 0 \in 0..N
    BY <1>1
  <2>2. f[b] = 0 /\ g[b] = 0
    BY <2>1 DEF SumsUp
  <2>. QED  BY <2>1, <2>2
<1>3. ASSUME NEW n \in 0..(N - 1), n \in same  PROVE n + 1 \in same
  <2>1. /\ b + (n + 1) \in b..Len(l) /\ b + (n + 1) \in b..Len(m) /\ b + (n + 1) \in 1..Len(l)
        /\ b + (n + 1) # b /\ (b + (n + 1)) - 1 = b + n /\ n + 1 \in 0..N
    BY <1>1
  <2>2. f[b + (n + 1)] = f[b + n] + FrameSize[l[b + (n + 1)]]
    BY <2>1 DEF SumsUp
  <2>3. g[b + (n + 1)] = g[b + n] + FrameSize[m[b + (n + 1)]]
    BY <2>1 DEF SumsUp
  <2>4. m[b + (n + 1)] = l[b + (n + 1)] /\ f[b + n] = g[b + n]
    BY <1>3, <2>1
  <2>5. f[b + (n + 1)] = g[b + (n + 1)]
    BY <2>2, <2>3, <2>4
  <2>. QED  BY <2>1, <2>5
<1>4. N \in same
  <2>. HIDE DEF same, N
  <2>1. \A n \in 0..N : n \in same
    BY <1>1, <1>2, <1>3, Climb
  <2>. QED  BY <1>1, <2>1
<1>. QED  BY <1>1, <1>4

LEMMA BytesIsSum ==
  ASSUME NEW l \in Seq(Kinds), NEW b \in 0..Len(l)
  PROVE  \E sum : /\ SumsUp(sum, l, b) /\ Bytes(l, b) = sum[Len(l)]
                  /\ sum[Len(l)] \in Nat
<1>1. PICK g \in [b..Len(l) -> Nat] : SumsUp(g, l, b)
  BY SumExists
<1>2. PICK f : SumsUp(f, l, b) /\ Bytes(l, b) = f[Len(l)]
  BY <1>1 DEF Bytes, SumsUp
<1>3. f[Len(l)] = g[Len(l)]
  <2>1. Len(l) <= Len(l)
    OBVIOUS
  <2>. QED  BY <1>1, <1>2, <2>1, SumsAgree
<1>4. g[Len(l)] \in Nat
  BY <1>1
<1>. QED  BY <1>2, <1>3, <1>4

\* A frame adds its size to what the replay holds.
LEMMA BytesGrow ==
  ASSUME NEW l \in Seq(Kinds), NEW b \in 0..Len(l), NEW kind \in Kinds
  PROVE  /\ Bytes(l, b) \in Nat
         /\ Bytes(Append(l, kind), b) = Bytes(l, b) + FrameSize[kind]
         /\ b = Len(l) => Bytes(l, b) = 0
<1>. DEFINE m == Append(l, kind)
<1>1. /\ m \in Seq(Kinds) /\ Len(m) = Len(l) + 1 /\ Len(l) \in Nat
      /\ \A i \in 1..Len(l) : m[i] = l[i]
      /\ m[Len(l) + 1] = kind
  OBVIOUS
<1>. HIDE DEF m
<1>2. PICK f : SumsUp(f, l, b) /\ Bytes(l, b) = f[Len(l)] /\ f[Len(l)] \in Nat
  BY BytesIsSum
<1>3. b \in 0..Len(m) /\ Len(l) <= Len(m)
  BY <1>1
<1>4. PICK g : SumsUp(g, m, b) /\ Bytes(m, b) = g[Len(m)]
  BY <1>1, <1>3, BytesIsSum
<1>5. f[Len(l)] = g[Len(l)]
  BY <1>1, <1>2, <1>3, <1>4, SumsAgree
<1>6. g[Len(l) + 1] = g[Len(l)] + FrameSize[kind]
  <2>1. Len(l) + 1 \in b..Len(m) /\ Len(l) + 1 # b /\ (Len(l) + 1) - 1 = Len(l)
    BY <1>1
  <2>. QED  BY <1>1, <1>4, <2>1 DEF SumsUp
<1>7. b = Len(l) => Bytes(l, b) = 0
  <2>1. b \in b..Len(l)
    BY <1>1
  <2>. QED  BY <1>2, <2>1 DEF SumsUp
<1>. QED  BY <1>1, <1>2, <1>4, <1>5, <1>6, <1>7 DEF m

----------------------------------------------------------------------------
\* The cap holds a terminal frame and the steered frames that may follow it.
RoomForEnd ==
  /\ IsFiniteSet(Steers)
  /\ \A kind \in Terminal :
       FrameSize[kind] + Cardinality(Steers) * FrameSize["steered"] <= ReplayCap

\* Steering requests that have not published their frame, and its room.
Unheard == {m \in Steers : steer[m] # "accepted"}
Room(n) == n * FrameSize["steered"]

\* The terminal frame is in the replay, with room for the frames to come.
EndHeld(t) ==
  \E i \in 1..Len(log[t]) :
    /\ log[t][i] \in Terminal /\ base[t] < i
    /\ Bytes(log[t], i - 1) + Room(Cardinality(Unheard)) <= ReplayCap

\* A finished handler has written what it had, from its turn's replay.
Written ==
  \A c \in Conns :
    /\ req[c] \in {"streaming", "complete"} => from[c] <= base[on[c]]
    /\ req[c] = "complete" => replay[c] = <<>> /\ live[c] = <<>>

Over == {"closing", "finished", "retired"}
Ends == Written /\ \A t \in Turns : pc[t] \in Over => EndHeld(t)

LEMMA RoomGrows ==
  ASSUME NEW m \in Nat, NEW n \in Nat, m <= n
  PROVE  Room(m) \in Nat /\ Room(m) <= Room(n) /\ Room(m + 1) = Room(m) + FrameSize["steered"]
<1>. DEFINE k == FrameSize["steered"]
<1>1. k \in Nat
  BY SizeAssumption DEF Kinds
<1>. HIDE DEF k
<1>2. m * k \in Nat /\ m * k <= n * k /\ (m + 1) * k = m * k + k
  BY <1>1
<1>. QED  BY <1>2 DEF Room, k

\* Fewer requests need less room.
LEMMA RoomLeft ==
  ASSUME IsFiniteSet(Steers), NEW few \in SUBSET Steers, NEW many \in SUBSET Steers,
         few \subseteq many
  PROVE  /\ Cardinality(few) \in Nat /\ Cardinality(many) \in Nat
         /\ Room(Cardinality(few)) \in Nat /\ Room(Cardinality(many)) \in Nat
         /\ Room(Cardinality(few)) <= Room(Cardinality(many))
<1>1. IsFiniteSet(many)
  BY FS_Subset
<1>2. Cardinality(few) <= Cardinality(many) /\ IsFiniteSet(few)
  BY <1>1, FS_Subset
<1>3. Cardinality(few) \in Nat /\ Cardinality(many) \in Nat
  BY <1>1, <1>2, FS_CardinalityType
<1>4. Cardinality(many) <= Cardinality(many)
  BY <1>3
<1>. QED  BY <1>2, <1>3, <1>4, RoomGrows

\* The terminal frame stays where nothing is published.
LEMMA EndStays ==
  ASSUME IInv, IsFiniteSet(Steers), NEW t \in Turns, EndHeld(t), Unheard' \subseteq Unheard,
         log'[t] = log[t], base'[t] = base[t]
  PROVE  EndHeld(t)'
<1>1. PICK i \in 1..Len(log[t]) :
        /\ log[t][i] \in Terminal /\ base[t] < i
        /\ Bytes(log[t], i - 1) + Room(Cardinality(Unheard)) <= ReplayCap
  BY DEF EndHeld
<1>2. Unheard \in SUBSET Steers /\ Unheard' \in SUBSET Steers
  BY DEF Unheard
<1>3. /\ Room(Cardinality(Unheard)) \in Nat /\ Room(Cardinality(Unheard')) \in Nat
      /\ Room(Cardinality(Unheard')) <= Room(Cardinality(Unheard))
  BY <1>2, RoomLeft
<1>4. Bytes(log[t], i - 1) \in Nat /\ ReplayCap \in Nat
  <2>1. log[t] \in Seq(Kinds) /\ i - 1 \in 0..Len(log[t]) /\ "done" \in Kinds
    BY <1>1 DEF IInv, TypeOK, Kinds
  <2>. QED  BY <2>1, BytesGrow, BoundAssumption
<1>5. Bytes(log[t], i - 1) + Room(Cardinality(Unheard')) <= ReplayCap
  BY <1>1, <1>3, <1>4
<1>6. Room(Cardinality(Unheard))' = Room(Cardinality(Unheard'))
  BY DEF Room
<1>7. Bytes(log[t], i - 1)' = Bytes(log'[t], i - 1)
  BY DEF Bytes
<1>. QED  BY <1>1, <1>5, <1>6, <1>7 DEF EndHeld

\* A steered frame takes its part of the room and moves the replay no further
\* than the terminal frame.
LEMMA EndOutlastsSteering ==
  ASSUME IInv, IsFiniteSet(Steers), NEW t \in Turns, EndHeld(t), NEW m \in Unheard,
         Unheard' = Unheard \ {m},
         log'[t] = Append(log[t], "steered"), base'[t] = Trim(log'[t], base[t])
  PROVE  EndHeld(t)'
<1>. DEFINE l == log[t]
            more == Append(l, "steered")
            n == Cardinality(Unheard \ {m})
<1>1. PICK i \in 1..Len(l) :
        /\ l[i] \in Terminal /\ base[t] < i
        /\ Bytes(l, i - 1) + Room(Cardinality(Unheard)) <= ReplayCap
  BY DEF EndHeld
<1>2. /\ l \in Seq(Kinds) /\ "steered" \in Kinds /\ base[t] \in Nat /\ base[t] <= Len(l)
      /\ i - 1 \in 0..Len(l)
  BY <1>1 DEF IInv, TypeOK, Handlers, Kinds
<1>3. /\ more \in Seq(Kinds) /\ Len(more) = Len(l) + 1 /\ more[i] = l[i]
      /\ Len(l) \in Nat /\ i \in 1..Len(more)
  BY <1>1, <1>2
<1>4. Unheard \in SUBSET Steers /\ Unheard \ {m} \in SUBSET Steers
  BY DEF Unheard
<1>5. n \in Nat /\ Cardinality(Unheard) = n + 1
  <2>1. IsFiniteSet(Unheard)
    BY <1>4, FS_Subset
  <2>2. IsFiniteSet(Unheard \ {m}) /\ n = Cardinality(Unheard) - 1
    BY <2>1, FS_RemoveElement
  <2>3. Cardinality(Unheard) \in Nat /\ n \in Nat
    BY <2>1, <2>2, FS_CardinalityType
  <2>. QED  BY <2>2, <2>3
<1>6. Room(n) \in Nat /\ Room(Cardinality(Unheard)) = Room(n) + FrameSize["steered"]
  <2>. HIDE DEF n
  <2>1. n <= n
    BY <1>5
  <2>. QED  BY <1>5, <2>1, RoomGrows
<1>. HIDE DEF l, more, n
<1>7. Bytes(more, i - 1) = Bytes(l, i - 1) + FrameSize["steered"] /\ Bytes(l, i - 1) \in Nat
  BY <1>2, BytesGrow DEF more
<1>8. FrameSize["steered"] \in Nat /\ ReplayCap \in Nat
  BY SizeAssumption, BoundAssumption DEF Kinds
<1>9. Bytes(more, i - 1) + Room(n) <= ReplayCap
  BY <1>1, <1>6, <1>7, <1>8
<1>10. Fits(more, i - 1)
  <2>1. Bytes(more, i - 1) <= ReplayCap
    BY <1>6, <1>7, <1>8, <1>9
  <2>. QED  BY <2>1 DEF Fits
<1>11. Trim(more, base[t]) < i
  <2>1. base[t] <= Len(more) /\ i - 1 \in base[t]..Len(more)
    BY <1>1, <1>2, <1>3
  <2>2. Trim(more, base[t]) \in base[t]..Len(more) /\ Trim(more, base[t]) <= i - 1
    BY <1>2, <1>3, <1>10, <2>1, TrimInLog
  <2>. QED  BY <1>2, <1>3, <2>2
<1>12. log'[t] = more /\ base'[t] = Trim(more, base[t])
  BY DEF more, l
<1>13. Room(Cardinality(Unheard))' = Room(n)
  BY DEF Room, n
<1>14. Bytes(log[t], i - 1)' = Bytes(more, i - 1)
  BY <1>12 DEF Bytes
<1>. QED  BY <1>1, <1>3, <1>9, <1>11, <1>12, <1>13, <1>14 DEF EndHeld

\* The terminal frame, when it is published, is kept with all that room.
LEMMA EndIsPublished ==
  ASSUME IInv, RoomForEnd, NEW t \in Turns, NEW kind \in Terminal, Unheard' = Unheard,
         log'[t] = Append(log[t], kind), base'[t] = Trim(log'[t], base[t])
  PROVE  EndHeld(t)'
<1>. DEFINE l == log[t]
            more == Append(l, kind)
            n == Cardinality(Unheard)
<1>0. PICK i : i = Len(l) + 1
  OBVIOUS
<1>1. l \in Seq(Kinds) /\ kind \in Kinds /\ base[t] \in Nat /\ base[t] <= Len(l)
  BY DEF IInv, TypeOK, Handlers, Kinds, Terminal
<1>2. /\ more \in Seq(Kinds) /\ Len(more) = i /\ more[i] = kind
      /\ Len(l) \in Nat /\ i \in 1..Len(more) /\ i - 1 = Len(l)
  BY <1>0, <1>1
<1>3. Unheard \in SUBSET Steers /\ Steers \in SUBSET Steers /\ Unheard \subseteq Steers
  BY DEF Unheard
<1>4. /\ Room(n) \in Nat /\ Room(Cardinality(Steers)) \in Nat
      /\ Room(n) <= Room(Cardinality(Steers))
  BY <1>3, RoomLeft DEF RoomForEnd
<1>. HIDE DEF n
<1>5. Bytes(more, i - 1) = FrameSize[kind]
  <2>1. Len(l) \in 0..Len(l)
    BY <1>2
  <2>2. Bytes(more, Len(l)) = Bytes(l, Len(l)) + FrameSize[kind] /\ Bytes(l, Len(l)) = 0
    <3>. HIDE DEF l
    <3>. QED  BY <1>1, <2>1, BytesGrow
  <2>3. FrameSize[kind] \in Nat
    BY <1>1, SizeAssumption
  <2>. HIDE DEF more
  <2>. QED  BY <1>2, <2>2, <2>3
<1>. HIDE DEF l, more
<1>6. FrameSize[kind] + Room(Cardinality(Steers)) <= ReplayCap
  BY DEF RoomForEnd, Room
<1>7. FrameSize[kind] \in Nat /\ ReplayCap \in Nat
  BY <1>1, SizeAssumption, BoundAssumption
<1>8. Bytes(more, i - 1) + Room(n) <= ReplayCap /\ Bytes(more, i - 1) <= ReplayCap
  BY <1>4, <1>5, <1>6, <1>7
<1>9. Trim(more, base[t]) < i
  <2>1. base[t] <= Len(more) /\ i - 1 \in base[t]..Len(more) /\ i \in Nat
    BY <1>1, <1>2
  <2>2. Trim(more, base[t]) \in base[t]..Len(more) /\ Trim(more, base[t]) <= i - 1
    BY <1>1, <1>2, <1>8, <2>1, TrimInLog DEF Fits
  <2>. QED  BY <1>1, <1>2, <2>1, <2>2
<1>10. log'[t] = more /\ base'[t] = Trim(more, base[t])
  BY DEF more, l
<1>11. Room(Cardinality(Unheard))' = Room(n)
  BY DEF Room, n
<1>12. Bytes(log[t], i - 1)' = Bytes(more, i - 1)
  BY <1>10 DEF Bytes
<1>. QED  BY <1>2, <1>8, <1>9, <1>10, <1>11, <1>12 DEF EndHeld

\* The log of t has one frame more, and its replay is trimmed.
Logged(t, kind) ==
  /\ log' = [log EXCEPT ![t] = Append(@, kind)]
  /\ base' = [base EXCEPT ![t] = Trim(log'[t], @)]

\* What a publish does to the logs, and which channels it reaches.
LEMMA PublishLogs ==
  ASSUME IInv, NEW t \in Turns, NEW kind \in Kinds, Publish(t, kind)
  PROVE  /\ (done[t] /\ UNCHANGED <<log, base>>) \/ (~done[t] /\ Logged(t, kind))
         /\ \A c \in Conns : c \notin subs[t] => live'[c] = live[c]
<1>1. CASE done[t]
  BY <1>1 DEF Publish, frameVars
<1>2. CASE ~done[t]
  <2>1. /\ log' = [log EXCEPT ![t] = Append(log[t], kind)]
        /\ base' = [base EXCEPT ![t] = Trim(Append(log[t], kind), @)]
        /\ \A c \in Conns : c \notin subs[t] => live'[c] = live[c]
    BY <1>2 DEF Publish
  <2>2. log'[t] = Append(log[t], kind)
    BY <2>1 DEF IInv, TypeOK
  <2>. QED  BY <1>2, <2>1, <2>2 DEF Logged
<1>. QED  BY <1>1, <1>2

\* A step publishes nothing, a frame of the run, a steered frame or the terminal
\* one.
Silent ==
  /\ UNCHANGED <<log, base>> /\ Unheard' \subseteq Unheard
  /\ \A t \in Turns : pc'[t] \in Over => pc[t] \in Over
RunFrame(t) ==
  /\ \E kind \in Kinds : Logged(t, kind)
  /\ Unheard' = Unheard /\ pc'[t] \notin Over
  /\ \A u \in Turns \ {t} : pc'[u] = pc[u]
SteeredFrame(m) ==
  /\ Logged(aim[m], "steered") /\ aim[m] \in Turns
  /\ Unheard' = Unheard \ {m} /\ UNCHANGED pc
EndFrame(t) ==
  /\ \E kind \in Terminal : Logged(t, kind)
  /\ Unheard' = Unheard
  /\ \A u \in Turns \ {t} : pc'[u] = pc[u]

LEMMA FrameSteps ==
  ASSUME IInv, [Next]_vars
  PROVE  \/ Silent
         \/ \E t \in Turns : RunFrame(t) \/ EndFrame(t)
         \/ \E m \in Unheard : SteeredFrame(m)
<1>. USE DEF IInv
<1>1. ASSUME UNCHANGED <<log, base, pc, steer>>  PROVE Silent
  BY <1>1 DEF Silent, Unheard
<1>2. ASSUME NEW m \in Steers, SteerPublish(m)
      PROVE  Silent \/ \E o \in Unheard : SteeredFrame(o)
  <2>1. /\ steer[m] = "queued" /\ steer' = [steer EXCEPT ![m] = "accepted"]
        /\ Publish(aim[m], "steered") /\ UNCHANGED pc
    BY <1>2 DEF SteerPublish, turnVars
  <2>2. aim[m] \in Turns /\ "steered" \in Kinds
    BY <2>1 DEF Handlers, Kinds
  <2>3. m \in Unheard /\ Unheard' = Unheard \ {m}
    BY <2>1 DEF Unheard, TypeOK
  <2>4. UNCHANGED <<log, base>> \/ Logged(aim[m], "steered")
    BY <2>1, <2>2, PublishLogs
  <2>. QED  BY <2>1, <2>2, <2>3, <2>4 DEF Silent, SteeredFrame
<1>3. ASSUME NEW m \in Steers,
             QueueSteering(m) \/ \E s \in Sessions : SteerCheck(m, s)
      PROVE  Silent
  <2>1. /\ UNCHANGED <<log, base, pc>>
        /\ \E stage : steer' = [steer EXCEPT ![m] = stage] /\ steer[m] # "accepted"
    BY <1>3 DEF QueueSteering, SteerCheck, turnVars, frameVars
  <2>. QED  BY <2>1 DEF Silent, Unheard, TypeOK
<1>4. ASSUME NEW t \in Turns, NEW next, next \notin Over, NEW kind \in Kinds,
             pc[t] \notin Over, pc' = [pc EXCEPT ![t] = next],
             UNCHANGED <<log, base>> \/ Publish(t, kind), UNCHANGED steer
      PROVE  Silent \/ RunFrame(t)
  <2>1. Unheard' = Unheard
    BY <1>4 DEF Unheard
  <2>2. pc'[t] = next /\ \A u \in Turns \ {t} : pc'[u] = pc[u]
    BY <1>4 DEF TypeOK
  <2>3. UNCHANGED <<log, base>> \/ Logged(t, kind)
    BY <1>4, PublishLogs
  <2>. QED  BY <1>4, <2>1, <2>2, <2>3 DEF Silent, RunFrame
<1>5. ASSUME NEW t \in Turns, Round(t) \/ Answer(t)
      PROVE  Silent \/ RunFrame(t)
  <2>1. pc[t] \in {"boundary", "calling"} /\ UNCHANGED steer
    BY <1>5 DEF Round, Answer, runUnchanged
  <2>2. \E next \in {"boundary", "calling", "answered", "failing"} :
          /\ pc' = [pc EXCEPT ![t] = next]
          /\ UNCHANGED frameVars \/ Publish(t, "notice")
    BY <1>5 DEF Round, Answer, DrainTo, DrainFails
  <2>. QED  BY <1>4, <2>1, <2>2 DEF Over, Kinds, frameVars
<1>6. ASSUME NEW t \in Turns, Emit(t)
      PROVE  Silent \/ RunFrame(t)
  <2>1. /\ pc[t] = "calling" /\ UNCHANGED <<pc, steer>> /\ Publish(t, "delta")
    BY <1>6 DEF Emit, turnVars, steerVars
  <2>2. pc' = [pc EXCEPT ![t] = "calling"]
    BY <2>1 DEF TypeOK
  <2>. QED  BY <1>4, <2>1, <2>2 DEF Over, Kinds
<1>7. ASSUME NEW t \in Turns, Continue(t) \/ StagnationStop(t) \/ RunFails(t)
      PROVE  Silent \/ RunFrame(t)
  <2>1. /\ pc[t] \in {"boundary", "calling"} /\ UNCHANGED <<log, base, steer>>
        /\ \E next \in {"boundary", "answered", "failing"} : pc' = [pc EXCEPT ![t] = next]
    BY <1>7 DEF Continue, StagnationStop, RunFails, Stop, frameVars, steerVars
  <2>. QED  BY <1>4, <2>1 DEF Over, Kinds
<1>8. ASSUME NEW t \in Turns, PublishTerminal(t)
      PROVE  EndFrame(t)
  <2>1. /\ pc[t] \in {"answered", "failing"} /\ pc' = [pc EXCEPT ![t] = "closing"]
        /\ UNCHANGED steer /\ \E kind \in Terminal : Publish(t, kind)
    BY <1>8 DEF PublishTerminal, steerVars, Terminal
  <2>2. ~done[t] /\ \A u \in Turns \ {t} : pc'[u] = pc[u]
    BY <2>1 DEF Registry, TypeOK
  <2>3. \E kind \in Terminal : Logged(t, kind)
    <3>1. PICK kind \in Terminal : Publish(t, kind)
      BY <2>1
    <3>2. kind \in Kinds
      BY DEF Terminal, Kinds
    <3>. QED  BY <2>2, <3>1, <3>2, PublishLogs
  <2>. QED  BY <2>1, <2>2, <2>3 DEF EndFrame, Unheard
<1>9. ASSUME NEW t \in Turns, CloseSubs(t) \/ Retire(t)
      PROVE  Silent
  <2>1. /\ UNCHANGED <<log, base, steer>> /\ pc[t] \in {"closing", "finished"}
        /\ \E next : pc' = [pc EXCEPT ![t] = next]
    BY <1>9 DEF CloseSubs, Retire, frameVars, steerVars
  <2>. QED  BY <2>1 DEF Silent, Unheard, Over, TypeOK
<1>10. ASSUME NEW c \in Conns, NEW s \in Sessions, NEW t \in Turns, Post(c, s, t)
       PROVE  Silent
  <2>1. UNCHANGED <<log, base, steer>> /\ pc' = [pc EXCEPT ![t] = "boundary"]
    BY <1>10 DEF Post, frameVars, steerVars
  <2>. QED  BY <2>1 DEF Silent, Unheard, Over, TypeOK
<1>11. ASSUME NEW c \in Conns, NEW s \in Sessions, Attach(c, s) \/ Refused(c, s) \/ Interrupt(s)
       PROVE  Silent
  BY <1>1, <1>11 DEF Attach, Refused, Interrupt, turnVars, frameVars, steerVars
<1>12. ASSUME NEW c \in Conns, ConnStep(c) \/ ClientGone(c)  PROVE Silent
  BY <1>1, <1>12 DEF ConnStep, Subscribe, WriteReplay, WriteLive, WriteDone, Leave, ClientGone,
                     turnVars, frameVars, steerVars
<1>13. ASSUME NEW s \in Sessions, Interrupt(s)  PROVE Silent
  BY <1>1, <1>13 DEF Interrupt, frameVars, steerVars
<1>14. CASE UNCHANGED vars
  BY <1>1, <1>14 DEF vars, turnVars, frameVars, steerVars
<1>15. CASE \E t \in Turns : RunStep(t) \/ Emit(t) \/ EndStep(t)
  BY <1>5, <1>6, <1>7, <1>8, <1>9, <1>15 DEF RunStep, EndStep
<1>. QED
  BY <1>2, <1>3, <1>10, <1>11, <1>12, <1>13, <1>14, <1>15 DEF Next

\* The terminal frame of a turn is published in the replay and stays there.
LEMMA EndHeldStep ==
  ASSUME IInv, RoomForEnd, Ends, [Next]_vars, NEW t \in Turns, pc'[t] \in Over
  PROVE  EndHeld(t)'
<1>1. IsFiniteSet(Steers)
  BY DEF RoomForEnd
<1>2. log \in [Turns -> Seq(Kinds)] /\ base \in [Turns -> Nat]
  BY DEF IInv, TypeOK
<1>3. ASSUME pc[t] \in Over, Unheard' \subseteq Unheard, log'[t] = log[t], base'[t] = base[t]
      PROVE  EndHeld(t)'
  BY <1>1, <1>3, EndStays DEF Ends
<1>4. CASE Silent
  BY <1>3, <1>4 DEF Silent
<1>5. ASSUME NEW u \in Turns, RunFrame(u)  PROVE EndHeld(t)'
  <2>1. t # u
    BY <1>5 DEF RunFrame
  <2>2. log'[t] = log[t] /\ base'[t] = base[t]
    BY <1>2, <1>5, <2>1 DEF RunFrame, Logged
  <2>. QED  BY <1>3, <1>5, <2>1, <2>2 DEF RunFrame
<1>6. ASSUME NEW u \in Turns, EndFrame(u)  PROVE EndHeld(t)'
  <2>1. CASE t = u
    <3>1. PICK kind \in Terminal : Logged(t, kind)
      BY <1>6, <2>1 DEF EndFrame
    <3>2. log'[t] = Append(log[t], kind) /\ base'[t] = Trim(log'[t], base[t])
      BY <1>2, <3>1 DEF Logged
    <3>. QED  BY <1>6, <3>2, EndIsPublished DEF EndFrame
  <2>2. CASE t # u
    <3>1. log'[t] = log[t] /\ base'[t] = base[t]
      BY <1>2, <1>6, <2>2 DEF EndFrame, Logged
    <3>. QED  BY <1>3, <1>6, <2>2, <3>1 DEF EndFrame
  <2>. QED  BY <2>1, <2>2
<1>7. ASSUME NEW m \in Unheard, SteeredFrame(m)  PROVE EndHeld(t)'
  <2>1. pc[t] \in Over /\ Unheard' = Unheard \ {m} /\ Logged(aim[m], "steered")
    BY <1>7 DEF SteeredFrame
  <2>2. CASE t = aim[m]
    <3>1. log'[t] = Append(log[t], "steered") /\ base'[t] = Trim(log'[t], base[t])
      BY <1>2, <2>1, <2>2 DEF Logged
    <3>. QED  BY <1>1, <2>1, <3>1, EndOutlastsSteering DEF Ends
  <2>3. CASE t # aim[m]
    <3>1. log'[t] = log[t] /\ base'[t] = base[t]
      BY <1>2, <2>1, <2>3 DEF Logged
    <3>. QED  BY <1>3, <2>1, <3>1
  <2>. QED  BY <2>2, <2>3
<1>. QED  BY <1>4, <1>5, <1>6, <1>7, FrameSteps

\* A replay never gets back what it dropped.
LEMMA BaseGrows ==
  ASSUME IInv, [Next]_vars
  PROVE  \A t \in Turns : base[t] <= base'[t]
<1>1. log \in [Turns -> Seq(Kinds)] /\ base \in [Turns -> Nat]
  BY DEF IInv, TypeOK
<1>2. ASSUME NEW u \in Turns, NEW kind \in Kinds, Logged(u, kind)
      PROVE  \A t \in Turns : base[t] <= base'[t]
  <2>. DEFINE more == Append(log[u], kind)
  <2>1. /\ more \in Seq(Kinds) /\ base[u] \in Nat /\ base[u] <= Len(more)
    BY <1>1 DEF IInv, Handlers
  <2>2. base' = [base EXCEPT ![u] = Trim(more, @)]
    BY <1>1, <1>2 DEF Logged
  <2>. HIDE DEF more
  <2>3. Trim(more, base[u]) \in base[u]..Len(more)
    BY <2>1, TrimInLog
  <2>. QED  BY <1>1, <2>1, <2>2, <2>3
<1>3. CASE Silent
  BY <1>1, <1>3 DEF Silent
<1>4. Terminal \subseteq Kinds /\ "steered" \in Kinds
  BY DEF Terminal, Kinds
<1>. QED  BY <1>2, <1>3, <1>4, FrameSteps DEF RunFrame, EndFrame, SteeredFrame

LEMMA WrittenStep ==
  ASSUME IInv, Channels, Written, [Next]_vars
  PROVE  Written'
<1>. USE DEF IInv
<1>0. \A t \in Turns : base[t] \in Nat /\ base'[t] \in Nat /\ base[t] <= base'[t]
  BY BaseGrows, TypeStep DEF TypeOK
<1>1. ASSUME UNCHANGED <<req, on, from, replay>>,
             \A c \in Conns : req[c] = "complete" => live'[c] = live[c]
      PROVE  Written'
  <2>1. \A c \in Conns : req[c] \in {"streaming", "complete"} => on[c] \in Turns /\ from[c] \in Nat
    BY DEF Handlers, TypeOK
  <2>. QED  BY <1>0, <1>1, <2>1 DEF Written
<1>2. ASSUME NEW t \in Turns, NEW kind \in Kinds,
             UNCHANGED live \/ Publish(t, kind), UNCHANGED <<req, on, from, replay>>
      PROVE  Written'
  <2>1. \A c \in Conns : req[c] = "complete" => c \notin subs[t]
    BY DEF Channels
  <2>2. \A c \in Conns : c \notin subs[t] => live'[c] = live[c]
    BY <1>2, PublishLogs
  <2>. QED  BY <1>1, <1>2, <2>1, <2>2
<1>3. ASSUME NEW t \in Turns, RunStep(t) \/ Emit(t) \/ EndStep(t)  PROVE Written'
  <2>1. UNCHANGED <<req, on, from, replay>>
    BY <1>3 DEF RunStep, EndStep, Round, Answer, Continue, StagnationStop, RunFails, Stop, Emit,
                PublishTerminal, CloseSubs, Retire, runUnchanged, connVars
  <2>2. UNCHANGED live \/ \E kind \in Kinds : Publish(t, kind)
    BY <1>3 DEF RunStep, EndStep, Round, Answer, Continue, StagnationStop, RunFails, Stop, Emit,
                PublishTerminal, CloseSubs, Retire, DrainTo, DrainFails, frameVars, Kinds
  <2>. QED  BY <1>2, <2>1, <2>2 DEF Kinds
<1>4. ASSUME NEW m \in Steers,
             QueueSteering(m) \/ SteerPublish(m) \/ \E s \in Sessions : SteerCheck(m, s)
      PROVE  Written'
  <2>1. UNCHANGED <<req, on, from, replay>>
    BY <1>4 DEF QueueSteering, SteerPublish, SteerCheck, connVars
  <2>2. UNCHANGED live \/ (aim[m] \in Turns /\ Publish(aim[m], "steered"))
    BY <1>4 DEF QueueSteering, SteerPublish, SteerCheck, frameVars, Handlers
  <2>3. \A c \in Conns : req[c] = "complete" => live'[c] = live[c]
    <3>1. "steered" \in Kinds
      BY DEF Kinds
    <3>2. CASE aim[m] \in Turns /\ Publish(aim[m], "steered")
      <4>1. \A c \in Conns : req[c] = "complete" => c \notin subs[aim[m]]
        BY <3>2 DEF Channels
      <4>. QED  BY <3>1, <3>2, <4>1, PublishLogs
    <3>. QED  BY <2>2, <3>2
  <2>. QED  BY <1>1, <2>1, <2>3
<1>5. ASSUME NEW s \in Sessions, Interrupt(s)  PROVE Written'
  BY <1>1, <1>5 DEF Interrupt, frameVars, connVars
<1>6. CASE UNCHANGED vars
  BY <1>1, <1>6 DEF vars, frameVars, connVars
\* One handler moves: the others' facts are untouched.
<1>7. ASSUME NEW c \in Conns, UNCHANGED base,
             \A d \in Conns \ {c} : /\ req'[d] = req[d] /\ on'[d] = on[d] /\ from'[d] = from[d]
                                    /\ replay'[d] = replay[d] /\ live'[d] = live[d],
             req'[c] \in {"streaming", "complete"} => from'[c] <= base[on'[c]],
             req'[c] = "complete" => replay'[c] = <<>> /\ live'[c] = <<>>
      PROVE  Written'
  BY <1>7 DEF Written
<1>8. ASSUME NEW c \in Conns, Subscribe(c)  PROVE Written'
  <2>1. /\ UNCHANGED <<base, live, on>> /\ req'[c] = "streaming" /\ from'[c] = base[on[c]]
        /\ \A d \in Conns \ {c} : req'[d] = req[d] /\ from'[d] = from[d] /\ replay'[d] = replay[d]
    BY <1>8 DEF Subscribe, frameVars, TypeOK
  <2>2. on[c] \in Turns
    BY <1>8 DEF Subscribe, Handlers
  <2>. QED  BY <1>0, <1>7, <2>1, <2>2
<1>9. ASSUME NEW c \in Conns, WriteReplay(c) \/ WriteLive(c)  PROVE Written'
  <2>1. /\ UNCHANGED <<base, on, from, req>> /\ req[c] = "streaming"
        /\ \A d \in Conns \ {c} : replay'[d] = replay[d] /\ live'[d] = live[d]
    BY <1>9 DEF WriteReplay, WriteLive, frameVars, TypeOK
  <2>. QED  BY <1>7, <2>1 DEF Written
<1>10. ASSUME NEW c \in Conns, WriteDone(c)  PROVE Written'
  <2>1. /\ UNCHANGED <<base, on, from, replay, live>> /\ req[c] = "streaming"
        /\ replay[c] = <<>> /\ live[c] = <<>>
        /\ \A d \in Conns \ {c} : req'[d] = req[d]
    BY <1>10 DEF WriteDone, frameVars, TypeOK
  <2>. QED  BY <1>7, <2>1 DEF Written
<1>11. ASSUME NEW c \in Conns, ClientGone(c)  PROVE Written'
  BY <1>1, <1>11 DEF ClientGone, frameVars
<1>12. ASSUME NEW c \in Conns,
              Leave(c) \/ \E s \in Sessions : \/ Attach(c, s) \/ Refused(c, s)
                                              \/ \E t \in Turns : Post(c, s, t)
       PROVE  Written'
  <2>1. /\ UNCHANGED <<base, from, replay, live>> /\ req'[c] \in {"left", "opening", "refused"}
        /\ \A d \in Conns \ {c} : req'[d] = req[d] /\ on'[d] = on[d]
    BY <1>12 DEF Leave, Attach, Refused, Post, frameVars, TypeOK
  <2>. QED  BY <1>7, <2>1
<1>. QED
  BY <1>3, <1>4, <1>5, <1>6, <1>8, <1>9, <1>10, <1>11, <1>12 DEF Next, ConnStep

\* When the cap has room for the end of a turn, a client that saw [DONE] and
\* missed nothing has the terminal frame, however late it attached and whoever
\* steered meanwhile.
THEOREM DoneShowsTheEnd == RoomForEnd => (Spec => []DoneImpliesTerminal)
<1>. SUFFICES ASSUME RoomForEnd  PROVE Spec => []DoneImpliesTerminal
  OBVIOUS
<1>1. Init => Channels /\ Streams /\ Ends
  <2>. SUFFICES ASSUME Init  PROVE Channels /\ Streams /\ Ends
    OBVIOUS
  <2>1. Channels
    BY DEF Init, Channels
  <2>2. Streams
    BY DEF Init, Streams, StreamOf, Fresh
  <2>3. Ends
    BY DEF Init, Ends, Written, Over
  <2>. QED  BY <2>1, <2>2, <2>3
<1>2. IInv /\ Channels /\ Streams /\ Ends /\ [Next]_vars => (Channels /\ Streams /\ Ends)'
  <2>. SUFFICES ASSUME IInv, Channels, Streams, Ends, [Next]_vars
                PROVE  Channels' /\ Streams' /\ Ends'
    OBVIOUS
  <2>1. \A t \in Turns : pc'[t] \in Over => EndHeld(t)'
    BY EndHeldStep
  <2>2. Written'
    BY WrittenStep DEF Ends
  <2>3. Ends'
    BY <2>1, <2>2 DEF Ends
  <2>. QED  BY <2>3, ChannelsStep, StreamsStep
<1>3. IInv /\ Channels /\ Streams /\ Ends => DoneImpliesTerminal
  <2>. SUFFICES ASSUME IInv, Channels, Streams, Ends, NEW c \in Conns,
                       req[c] = "complete", alive[c], missed[c] = {}
                PROVE  HasTerminal(c)
    BY DEF DoneImpliesTerminal
  <2>1. on[c] \in Turns /\ Served(c) /\ done[on[c]]
    BY DEF IInv, Handlers, Streams, StreamOf, Served
  <2>2. pc[on[c]] \in Over
    BY <2>1 DEF IInv, Registry, Over
  <2>3. PICK i \in 1..Len(log[on[c]]) : log[on[c]][i] \in Terminal /\ base[on[c]] < i
    BY <2>1, <2>2 DEF Ends, EndHeld
  <2>4. from[c] <= base[on[c]] /\ replay[c] = <<>> /\ live[c] = <<>>
    BY DEF Ends, Written
  <2>5. i \in (from[c] + 1)..Len(log[on[c]]) /\ i # 0
    <3>1. from[c] \in Nat /\ base[on[c]] \in Nat /\ log[on[c]] \in Seq(Kinds)
      BY <2>1 DEF IInv, TypeOK
    <3>. QED  BY <2>3, <2>4, <3>1
  <2>6. Stream(c) = got[c]
    <3>1. got[c] \in Seq(Nat)
      BY DEF IInv, TypeOK
    <3>2. got[c] \o <<>> = got[c]
      BY <3>1
    <3>. QED  BY <2>4, <3>2 DEF Stream
  <2>7. i \in SeqSet(got[c])
    BY <2>1, <2>5, <2>6 DEF Served, Whole
  <2>. QED  BY <2>3, <2>5, <2>7 DEF HasTerminal
<1>. QED  BY <1>1, <1>2, <1>3, Invariance, PTL DEF Spec
=============================================================================
