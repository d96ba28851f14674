---------------------------- MODULE RequestsProof ----------------------------
(***************************************************************************)
(* What the four translations make of a conversation, for every            *)
(* conversation the agent can have kept (the part "requests" of Parts).    *)
(* Each request is a list of lists: what one message contributes is        *)
(* computed by itself, and what stands between a call and its result by    *)
(* the places where the messages begin.                                    *)
(***************************************************************************)
EXTENDS PartsProof

Entries == Q!InRole({"system", "user", "assistant", "tool"})
Pieces == Q!BlocksOf({"text", "call", "result", "reasoning"})

\* A result stands in the block of its call's message, as the call in it.
Replies(h, c, n) ==
  /\ h[n].answers = <<c, n - c>> /\ n - c <= Len(h[c].calls)
  /\ \A k \in (c + 1)..n : h[k].role = "tool"

\* What the n-th message is.
Tells(h, n) ==
  LET m == h[n]
  IN  /\ m.role \in {"system", "user"} => m.text = n /\ m.calls = <<>>
      /\ m.role = "assistant" =>
           /\ m.text \in {0, n} /\ (m.text = 0 => m.calls # <<>>)
           /\ \A k \in 1..Len(m.calls) : m.calls[k].id = <<n, k>> /\ (m.reasoning => m.calls[k].fine)
      /\ m.role = "tool" => m.text = 0 /\ m.calls = <<>> /\ \E c \in 1..(n - 1) : Replies(h, c, n)
      /\ m.role # "tool" => m.answers = Q!NoCall
      /\ m.reasoning => m.role = "assistant"

Conversed(h) ==
  /\ h \in Seq(Entries) /\ Len(h) >= 1 /\ h[1].role = "system"
  /\ \A n \in 1..Len(h) : Tells(h, n)

----------------------------------------------------------------------------
\* What stands is not changed by what comes behind.
LEMMA TellsOn ==
  ASSUME NEW h, NEW g, NEW n \in Nat, Tells(h, n), \A k \in 1..n : g[k] = h[k], n >= 1
  PROVE  Tells(g, n)
<1>1. g[n] = h[n]
  OBVIOUS
<1>2. \A c \in 1..(n - 1) : Replies(h, c, n) => Replies(g, c, n)
  <2>. TAKE c \in 1..(n - 1)
  <2>1. g[c] = h[c] /\ \A k \in (c + 1)..n : g[k] = h[k]
    OBVIOUS
  <2>. QED  BY <1>1, <2>1 DEF Replies
<1>. QED  BY <1>1, <1>2 DEF Tells

LEMMA ConversedGrows ==
  ASSUME NEW h, Conversed(h), NEW m \in Entries, Tells(Append(h, m), Len(h) + 1)
  PROVE  Conversed(Append(h, m))
<1>. DEFINE g == Append(h, m)
<1>1. /\ h \in Seq(Entries) /\ Len(h) \in Nat /\ Len(h) >= 1
      /\ g \in Seq(Entries) /\ Len(g) = Len(h) + 1 /\ \A k \in 1..Len(h) : g[k] = h[k]
  BY DEF Conversed
<1>2. ASSUME NEW n \in 1..Len(h)  PROVE Tells(g, n)
  <2>1. Tells(h, n)
    BY DEF Conversed
  <2>2. n \in Nat /\ n >= 1 /\ \A k \in 1..n : g[k] = h[k]
    BY <1>1
  <2>. HIDE DEF g
  <2>. QED  BY <2>1, <2>2, TellsOn
<1>3. g[1].role = "system"
  BY <1>1 DEF Conversed
<1>. HIDE DEF g
<1>4. \A n \in 1..Len(g) : n = Len(h) + 1 \/ n \in 1..Len(h)
  BY <1>1
<1>. QED  BY <1>1, <1>2, <1>3, <1>4 DEF Conversed, g

\* The message the last results answer: all behind it are results.
LEMMA CallerIs ==
  ASSUME NEW h, Conversed(h)
  PROVE  LET caller == Q!SelectLastInSeq(h, LAMBDA m : m.role # "tool")
         IN  /\ caller \in 1..Len(h) /\ h[caller].role # "tool"
             /\ \A k \in (caller + 1)..Len(h) : h[k].role = "tool"
<1>. DEFINE others == {i \in 1..Len(h) : h[i].role # "tool"}
            last == Q!Max(others)
<1>1. Len(h) \in Nat /\ 1 \in others
  BY DEF Conversed
<1>2. \E i \in others : \A j \in others : i >= j
  <2>1. others \in SUBSET (1..Len(h)) /\ others # {}
    BY <1>1
  <2>. HIDE DEF others
  <2>. QED  BY <1>1, <2>1, GreatestMember
<1>3. last \in others /\ \A j \in others : last >= j
  <2>. HIDE DEF others
  <2>. QED  BY <1>2 DEF Q!Max
<1>4. Q!SelectLastInSeq(h, LAMBDA m : m.role # "tool") = last
  BY <1>1 DEF Q!SelectLastInSeq
<1>5. \A k \in (last + 1)..Len(h) : h[k].role = "tool"
  <2>. TAKE k \in (last + 1)..Len(h)
  <2>1. last \in 1..Len(h) /\ k \in 1..Len(h) /\ ~(last >= k)
    BY <1>1, <1>3
  <2>2. k \notin others
    BY <1>3, <2>1
  <2>. QED  BY <2>1, <2>2
<1>. HIDE DEF last
<1>. QED  BY <1>3, <1>4, <1>5

LEMMA ConversedStep ==
  ASSUME Conversed(conversation), Q!Next, Q!RequestsAssumption
  PROVE  Conversed(conversation')
<1>1. PICK h : h = conversation
  OBVIOUS
<1>. DEFINE n == Len(h) + 1
<1>2. Conversed(h) /\ h \in Seq(Entries) /\ Len(h) \in Nat /\ n \in Nat /\ n >= 1 /\ Q!Place = n
  BY <1>1 DEF Conversed, Q!Place
<1>3. \A m \in Entries : /\ Append(h, m)[n] = m /\ \A k \in 1..Len(h) : Append(h, m)[k] = h[k]
                         /\ Tells(Append(h, m), n) => Conversed(Append(h, m))
  <2>. TAKE m \in Entries
  <2>1. Tells(Append(h, m), n) => Conversed(Append(h, m))
    BY <1>2, ConversedGrows
  <2>. QED  BY <1>2, <2>1
<1>4. Q!NoCall \in Nat \X Nat /\ Q!NoCall = <<0, 0>>
  BY DEF Q!NoCall
<1>. HIDE DEF n
<1>6. CASE Q!Says
  <2>1. PICK role \in {"user", "system"} :
          conversation' = Append(conversation, Q!Message(role, Q!Place, <<>>, Q!NoCall))
    BY <1>6 DEF Q!Says, Q!AppendMessage
  <2>. DEFINE m == Q!Message(role, n, <<>>, Q!NoCall)
  <2>2. /\ m \in Entries /\ m.role = role /\ m.text = n /\ m.calls = <<>>
        /\ m.answers = Q!NoCall /\ m.reasoning = FALSE
    BY <1>2, <1>4 DEF Q!Message, Entries, Q!InRole
  <2>3. conversation' = Append(h, m)
    BY <1>1, <1>2, <2>1
  <2>. HIDE DEF m
  <2>4. Tells(Append(h, m), n)
    BY <1>3, <2>2 DEF Tells
  <2>. QED  BY <1>3, <2>2, <2>3, <2>4
<1>7. CASE Q!Answers
  <2>1. PICK r \in BOOLEAN :
          conversation' = Append(conversation,
            [Q!Message("assistant", Q!Place, <<>>, Q!NoCall) EXCEPT !.reasoning = r])
    BY <1>7 DEF Q!Answers, Q!AppendMessage
  <2>. DEFINE m == [Q!Message("assistant", n, <<>>, Q!NoCall) EXCEPT !.reasoning = r]
  <2>0. m = [role |-> "assistant", text |-> n, calls |-> <<>>, answers |-> Q!NoCall, reasoning |-> r]
    BY DEF Q!Message
  <2>2. /\ m \in Entries /\ m.role = "assistant" /\ m.text = n /\ m.calls = <<>>
        /\ m.answers = Q!NoCall
    <3>1. <<>> \in Seq(Q!Call)
      OBVIOUS
    <3>. HIDE DEF m
    <3>. QED  BY <1>2, <1>4, <2>0, <3>1 DEF Entries, Q!InRole
  <2>3. conversation' = Append(h, m)
    BY <1>1, <1>2, <2>1
  <2>. HIDE DEF m
  <2>4. Tells(Append(h, m), n)
    <3>1. n # 0 /\ 1..Len(m.calls) = {}
      BY <1>2, <2>2
    <3>2. Append(h, m)[n] = m
      BY <1>3, <2>2
    <3>. QED  BY <2>2, <3>1, <3>2 DEF Tells
  <2>. QED  BY <1>3, <2>2, <2>3, <2>4
<1>8. CASE Q!CallsTools
  <2>1. PICK b \in 1..MaxBatch, text \in {0, n}, r \in BOOLEAN : \E fine \in [1..b -> BOOLEAN] :
          LET calls == [i \in 1..b |-> [id |-> <<Q!Place, i>>, fine |-> fine[i]]]
          IN  /\ r => \A i \in 1..b : fine[i]
              /\ Q!AppendMessage([Q!Message("assistant", text, calls, Q!NoCall) EXCEPT !.reasoning = r])
    BY <1>2, <1>8 DEF Q!CallsTools
  <2>2. PICK fine \in [1..b -> BOOLEAN] :
          LET calls == [i \in 1..b |-> [id |-> <<Q!Place, i>>, fine |-> fine[i]]]
          IN  /\ r => \A i \in 1..b : fine[i]
              /\ Q!AppendMessage([Q!Message("assistant", text, calls, Q!NoCall) EXCEPT !.reasoning = r])
    BY <2>1
  <2>. DEFINE calls == [i \in 1..b |-> [id |-> <<n, i>>, fine |-> fine[i]]]
              m == [Q!Message("assistant", text, calls, Q!NoCall) EXCEPT !.reasoning = r]
  <2>3. /\ calls \in Seq(Q!Call) /\ Len(calls) = b /\ calls # <<>>
        /\ \A i \in 1..b : calls[i].id = <<n, i>> /\ calls[i].fine = fine[i]
    <3>1. b \in Nat /\ b >= 1
      BY DEF Q!RequestsAssumption
    <3>2. \A i \in 1..b : [id |-> <<n, i>>, fine |-> fine[i]] \in Q!Call
      BY <1>2, <3>1 DEF Q!Call
    <3>3. calls \in Seq(Q!Call) /\ Len(calls) = b
      BY <3>1, <3>2
    <3>4. calls # <<>>
      <4>. HIDE DEF calls
      <4>. QED  BY <3>1, <3>3
    <3>. QED  BY <3>3, <3>4
  <2>4. conversation' = Append(h, m) /\ (r => \A i \in 1..b : fine[i])
    BY <1>1, <1>2, <2>2 DEF Q!AppendMessage
  <2>. HIDE DEF calls
  <2>5. /\ m \in Entries /\ m.role = "assistant" /\ m.text \in {0, n} /\ m.calls = calls
        /\ m.answers = Q!NoCall /\ m.reasoning = r
    BY <1>2, <1>4, <2>3 DEF Q!Message, Entries, Q!InRole
  <2>. HIDE DEF m
  <2>6. Tells(Append(h, m), n)
    BY <1>3, <2>3, <2>4, <2>5 DEF Tells
  <2>. QED  BY <1>3, <2>4, <2>5, <2>6
<1>9. CASE Q!Returns
  <2>. DEFINE c == Q!SelectLastInSeq(h, LAMBDA m : m.role # "tool")
              m == Q!Result(h[c].calls[n - c].id)
  <2>1. /\ c \in 1..Len(h) /\ h[c].role # "tool"
        /\ \A k \in (c + 1)..Len(h) : h[k].role = "tool"
    BY <1>2, CallerIs
  <2>2. n - c <= Len(h[c].calls) /\ conversation' = Append(h, m)
    BY <1>1, <1>2, <1>9 DEF Q!Returns, Q!AppendMessage
  <2>. HIDE DEF c
  <2>3. h[c] \in Entries /\ Tells(h, c)
    BY <1>2, <2>1 DEF Conversed
  <2>4. n - c \in 1..Len(h[c].calls) /\ c \in 1..(n - 1) /\ n - c \in Nat
    <3>1. Len(h[c].calls) \in Nat
      BY <2>3 DEF Entries, Q!InRole
    <3>. QED  BY <1>2, <2>1, <2>2, <3>1 DEF n
  <2>5. h[c].role = "assistant"
    <3>1. h[c].calls # <<>>
      BY <2>4
    <3>2. h[c].role \in {"system", "user", "assistant", "tool"}
      BY <2>3 DEF Entries, Q!InRole
    <3>. QED  BY <2>1, <2>3, <3>1, <3>2 DEF Tells
  <2>6. h[c].calls[n - c].id = <<c, n - c>>
    BY <2>3, <2>4, <2>5 DEF Tells
  <2>7. /\ m \in Entries /\ m.role = "tool" /\ m.text = 0 /\ m.calls = <<>>
        /\ m.answers = <<c, n - c>> /\ m.reasoning = FALSE
    BY <2>4, <2>6 DEF Q!Result, Q!Message, Entries, Q!InRole
  <2>. HIDE DEF m
  <2>8. Replies(Append(h, m), c, n)
    <3>1. Append(h, m)[n] = m /\ \A k \in 1..Len(h) : Append(h, m)[k] = h[k]
      BY <1>3, <2>7
    <3>2. \A k \in (c + 1)..n : k = n \/ k \in (c + 1)..Len(h)
      BY <1>2, <2>1 DEF n
    <3>3. \A k \in (c + 1)..Len(h) : k \in 1..Len(h)
      BY <2>1
    <3>. QED  BY <2>1, <2>2, <2>7, <3>1, <3>2, <3>3 DEF Replies
  <2>9. Tells(Append(h, m), n)
    BY <1>3, <2>4, <2>7, <2>8 DEF Tells
  <2>. QED  BY <1>3, <2>2, <2>7, <2>9
<1>. QED  BY <1>6, <1>7, <1>8, <1>9 DEF Q!Next

----------------------------------------------------------------------------
\* The functions of Requests are those the lemmas are about.
LEMMA OnlyIsOurs ==
  ASSUME NEW list, NEW keep
  PROVE  Q!Only(list, keep) = Only(list, keep)
BY DEF Q!Only, Only

LEMMA FlattenIsJoined ==
  ASSUME NEW V, NEW lists \in Seq(Seq(V))
  PROVE  Q!FlattenSeq(lists) = JoinedUp(lists)
<1>1. CASE lists = <<>>
  <2>1. JoinedUp(lists) = <<>>
    BY <1>1, JoinedOfNothing
  <2>. QED  BY <1>1, <2>1 DEF Q!FlattenSeq
<1>2. CASE lists # <<>>
  <2>1. \E flat : FlatBy(flat, lists)
    BY <1>2, FlatExists
  <2>2. Len(lists) # 0
    BY <1>2
  <2>3. \E flat : FlatBy(flat, lists) /\ Q!FlattenSeq(lists) = flat[Len(lists)]
    BY <2>1, <2>2 DEF Q!FlattenSeq, FlatBy
  <2>. QED  BY <1>2, <2>3, FlatIsJoined
<1>. QED  BY <1>1, <1>2

----------------------------------------------------------------------------
\* What is sent for one message: its text, its whole calls, and a result: its
\* own, or one for each of its calls that has none.
Items == Q!BlocksOf({"text", "call", "result"})
Orphans(h, m) ==
  Only(Q!FilteredCalls(m), [id : (Nat \X Nat) \ Q!Answered(h), fine : BOOLEAN])
Voice(m) == IF m.role \in {"user", "assistant"} THEN Q!TextBlock(m) ELSE <<>>
Asks(m) == [i \in 1..Len(Q!FilteredCalls(m)) |-> Q!Block("call", Q!FilteredCalls(m)[i].id)]
Told(h, m) ==
  IF m.role = "tool"
  THEN IF m.answers \in Q!ValidIDs(h) THEN <<Q!Block("result", m.answers)>> ELSE <<>>
  ELSE [i \in 1..Len(Orphans(h, m)) |-> Q!Block("result", Orphans(h, m)[i].id)]
Piece(h) == [m \in Entries |-> (Voice(m) \o Asks(m)) \o Told(h, m)]

\* The same by way of the repaired conversation.
Repair(h) ==
  [m \in Entries |->
     CASE m.role = "assistant" -> Q!Repaired(h, m)
       [] m.role = "tool" /\ m.answers \notin Q!ValidIDs(h) -> <<>>
       [] OTHER -> <<m>>]
Shown == [m \in Entries |-> IF m.role = "system" THEN <<>> ELSE Q!Blocks(m)]

LEMMA WholeCalls ==
  ASSUME NEW h, NEW m \in Entries
  PROVE  /\ Q!FilteredCalls(m) \in Seq(Q!Call)
         /\ Q!FilteredCalls(m) = Only(m.calls, [id : Nat \X Nat, fine : {TRUE}])
         /\ Orphans(h, m) \in Seq(Q!Call)
<1>1. m.calls \in Seq(Q!Call)
  BY DEF Entries, Q!InRole
<1>2. Q!FilteredCalls(m) = Only(m.calls, [id : Nat \X Nat, fine : {TRUE}])
  BY OnlyIsOurs DEF Q!FilteredCalls
<1>3. Q!FilteredCalls(m) \in Seq(Q!Call)
  BY <1>1, <1>2, OnlyType
<1>4. Orphans(h, m) \in Seq(Q!Call)
  BY <1>3, OnlyType DEF Orphans
<1>. QED  BY <1>2, <1>3, <1>4

LEMMA BlockIs ==
  ASSUME NEW kinds, NEW kind \in kinds, NEW id \in Nat \X Nat
  PROVE  Q!Block(kind, id) \in Q!BlocksOf(kinds)
BY DEF Q!Block, Q!BlocksOf

LEMMA IdIs ==
  ASSUME NEW s \in Seq(Q!Call), NEW i \in 1..Len(s)
  PROVE  s[i].id \in Nat \X Nat
<1>1. s[i] \in Q!Call
  OBVIOUS
<1>. QED  BY <1>1 DEF Q!Call

LEMMA PieceParts ==
  ASSUME NEW h, NEW m \in Entries
  PROVE  /\ Voice(m) \in Seq(Q!BlocksOf({"text"}))
         /\ Asks(m) \in Seq(Q!BlocksOf({"call"}))
         /\ Told(h, m) \in Seq(Q!BlocksOf({"result"}))
<1>1. m.text \in Nat /\ m.answers \in Nat \X Nat
  BY DEF Entries, Q!InRole
<1>2. Voice(m) \in Seq(Q!BlocksOf({"text"}))
  <2>1. Q!Block("text", <<m.text, 0>>) \in Q!BlocksOf({"text"})
    BY <1>1, BlockIs
  <2>. QED  BY <2>1 DEF Voice, Q!TextBlock
<1>3. ASSUME NEW s \in Seq(Q!Call), NEW kind
      PROVE  [i \in 1..Len(s) |-> Q!Block(kind, s[i].id)] \in Seq(Q!BlocksOf({kind}))
  <2>1. \A i \in 1..Len(s) : Q!Block(kind, s[i].id) \in Q!BlocksOf({kind})
    BY IdIs, BlockIs
  <2>. DEFINE f == [i \in 1..Len(s) |-> Q!Block(kind, s[i].id)]
  <2>2. Len(s) \in Nat /\ f = [i \in 1..Len(s) |-> f[i]]
    OBVIOUS
  <2>3. \A i \in 1..Len(s) : f[i] \in Q!BlocksOf({kind})
    BY <2>1
  <2>4. f \in Seq(Q!BlocksOf({kind}))
    <3>. HIDE DEF f
    <3>. QED  BY <2>2, <2>3, ListOf
  <2>. QED  BY <2>4
<1>4. Asks(m) \in Seq(Q!BlocksOf({"call"}))
  BY <1>3, WholeCalls DEF Asks
<1>5. CASE m.role = "tool"
  <2>1. Told(h, m) \in Seq(Q!BlocksOf({"result"}))
    <3>1. Q!Block("result", m.answers) \in Q!BlocksOf({"result"})
      BY <1>1, BlockIs
    <3>2. /\ <<Q!Block("result", m.answers)>> \in Seq(Q!BlocksOf({"result"}))
          /\ <<>> \in Seq(Q!BlocksOf({"result"}))
      BY <3>1
    <3>3. Told(h, m) \in {<<Q!Block("result", m.answers)>>, <<>>}
      BY <1>5 DEF Told
    <3>. QED  BY <3>2, <3>3
  <2>. QED  BY <1>2, <1>4, <2>1
<1>6. CASE m.role # "tool"
  <2>1. Told(h, m) \in Seq(Q!BlocksOf({"result"}))
    BY <1>3, <1>6, WholeCalls DEF Told
  <2>. QED  BY <1>2, <1>4, <2>1
<1>. QED  BY <1>5, <1>6

LEMMA PieceType ==
  ASSUME NEW h
  PROVE  Maps(Piece(h), Entries, Seq(Items))
<1>1. \A kind \in {"text", "call", "result"} : Q!BlocksOf({kind}) \subseteq Items
  BY DEF Q!BlocksOf, Items
<1>2. ASSUME NEW m \in Entries  PROVE (Voice(m) \o Asks(m)) \o Told(h, m) \in Seq(Items)
  <2>1. Voice(m) \in Seq(Items) /\ Asks(m) \in Seq(Items) /\ Told(h, m) \in Seq(Items)
    BY <1>1, PieceParts
  <2>. QED  BY <2>1
<1>. QED  BY <1>2 DEF Piece, Maps

LEMMA ShownType == Maps(Shown, Entries, Seq(Items))
<1>1. \A kind \in {"text", "call", "result"} : Q!BlocksOf({kind}) \subseteq Items
  BY DEF Q!BlocksOf, Items
<1>2. ASSUME NEW m \in Entries  PROVE Q!Blocks(m) \in Seq(Items)
  <2>1. m.text \in Nat /\ m.answers \in Nat \X Nat /\ m.calls \in Seq(Q!Call)
    BY DEF Entries, Q!InRole
  <2>2. Q!TextBlock(m) \in Seq(Items)
    <3>1. Q!Block("text", <<m.text, 0>>) \in Items
      BY <2>1, BlockIs DEF Items
    <3>. QED  BY <3>1 DEF Q!TextBlock
  <2>3. Q!CallBlocks(m) \in Seq(Items)
    <3>1. \A i \in 1..Len(m.calls) : Q!Block("call", m.calls[i].id) \in Items
      BY <2>1, IdIs, BlockIs DEF Items
    <3>2. DOMAIN m.calls = 1..Len(m.calls)
      BY <2>1
    <3>. QED  BY <2>1, <3>1, <3>2 DEF Q!CallBlocks
  <2>4. <<Q!Block("result", m.answers)>> \in Seq(Items)
    <3>1. Q!Block("result", m.answers) \in Items
      BY <2>1, BlockIs DEF Items
    <3>. QED  BY <3>1
  <2>. QED  BY <2>2, <2>3, <2>4 DEF Q!Blocks
<1>. QED  BY <1>2 DEF Shown, Maps

----------------------------------------------------------------------------
\* The repaired conversation, message by message.
Holders(h, m) == [i \in 1..Len(Orphans(h, m)) |-> Q!Result(Orphans(h, m)[i].id)]

LEMMA HoldersType ==
  ASSUME NEW h, NEW m \in Entries
  PROVE  /\ Holders(h, m) \in Seq(Entries) /\ Len(Holders(h, m)) = Len(Orphans(h, m))
         /\ \A i \in 1..Len(Holders(h, m)) :
              /\ Holders(h, m)[i].role = "tool"
              /\ Holders(h, m)[i].answers = Orphans(h, m)[i].id
<1>. DEFINE s == Orphans(h, m)
            f == Holders(h, m)
<1>1. s \in Seq(Q!Call) /\ Len(s) \in Nat
  BY WholeCalls
<1>2. f = [i \in 1..Len(s) |-> Q!Result(s[i].id)]
  BY DEF Holders
<1>. HIDE DEF s, f
<1>3. \A i \in 1..Len(s) : s[i].id \in Nat \X Nat
  BY <1>1, IdIs
<1>4. \A c \in Nat \X Nat : Q!Result(c) \in Entries /\ Q!Result(c).role = "tool" /\ Q!Result(c).answers = c
  <2>1. <<>> \in Seq(Q!Call)
    OBVIOUS
  <2>. QED  BY <2>1 DEF Q!Result, Q!Message, Entries, Q!InRole
<1>5. f = [i \in 1..Len(s) |-> f[i]]
  BY <1>2
<1>6. \A i \in 1..Len(s) : f[i] \in Entries /\ f[i].role = "tool" /\ f[i].answers = s[i].id
  BY <1>2, <1>3, <1>4
<1>7. f \in Seq(Entries) /\ Len(f) = Len(s)
  BY <1>1, <1>5, <1>6, ListOf
<1>. QED  BY <1>6, <1>7 DEF s, f

LEMMA RepairedIs ==
  ASSUME NEW h, NEW m \in Entries
  PROVE  Q!Repaired(h, m) =
           IF m.text = 0 /\ Q!FilteredCalls(m) = <<>> /\ ~m.reasoning THEN <<>>
           ELSE <<[m EXCEPT !.calls = Q!FilteredCalls(m)]>> \o Holders(h, m)
<1>1. DOMAIN Orphans(h, m) = 1..Len(Orphans(h, m))
  BY WholeCalls
<1>2. Q!Only(Q!FilteredCalls(m), [id : (Nat \X Nat) \ Q!Answered(h), fine : BOOLEAN]) = Orphans(h, m)
  BY OnlyIsOurs DEF Orphans
<1>. QED  BY <1>1, <1>2 DEF Q!Repaired, Holders

LEMMA RepairType ==
  ASSUME NEW h
  PROVE  Maps(Repair(h), Entries, Seq(Entries))
<1>1. ASSUME NEW m \in Entries  PROVE Q!Repaired(h, m) \in Seq(Entries)
  <2>1. Holders(h, m) \in Seq(Entries)
    BY HoldersType
  <2>2. [m EXCEPT !.calls = Q!FilteredCalls(m)] \in Entries
    BY WholeCalls DEF Entries, Q!InRole
  <2>3. \A x \in Entries : <<x>> \o Holders(h, m) \in Seq(Entries)
    <3>1. \A x \in Entries : <<x>> \in Seq(Entries)
      OBVIOUS
    <3>2. \A a, b \in Seq(Entries) : a \o b \in Seq(Entries)
      OBVIOUS
    <3>. QED  BY <2>1, <3>1, <3>2
  <2>. DEFINE kept == [m EXCEPT !.calls = Q!FilteredCalls(m)]
  <2>4. Q!Repaired(h, m) = <<>> \/ Q!Repaired(h, m) = <<kept>> \o Holders(h, m)
    BY RepairedIs
  <2>5. <<>> \in Seq(Entries) /\ kept \in Entries
    BY <2>2
  <2>. HIDE DEF kept
  <2>. QED  BY <2>3, <2>4, <2>5
<1>2. \A m \in Entries : <<m>> \in Seq(Entries) /\ <<>> \in Seq(Entries)
  OBVIOUS
<1>. QED  BY <1>1, <1>2 DEF Repair, Maps

LEMMA SanitizedIs ==
  ASSUME NEW h \in Seq(Entries)
  PROVE  /\ Q!sanitizeToolHistory(h) = Each(Repair(h), h)
         /\ Q!sanitizeToolHistory(h) \in Seq(Entries)
<1>. DEFINE lists == [i \in DOMAIN h |->
              CASE h[i].role = "assistant" -> Q!Repaired(h, h[i])
                [] h[i].role = "tool" /\ h[i].answers \notin Q!ValidIDs(h) -> <<>>
                [] OTHER -> <<h[i]>>]
<1>1. DOMAIN h = 1..Len(h) /\ \A i \in 1..Len(h) : h[i] \in Entries
  OBVIOUS
<1>2. lists = MapOf(Repair(h), h)
  BY <1>1 DEF MapOf, Repair
<1>3. Q!sanitizeToolHistory(h) = Q!FlattenSeq(lists)
  BY DEF Q!sanitizeToolHistory
<1>. HIDE DEF lists
<1>4. lists \in Seq(Seq(Entries))
  <2>1. MapOf(Repair(h), h) \in Seq(Seq(Entries))
    BY RepairType, MapType
  <2>. QED  BY <1>2, <2>1
<1>5. Q!FlattenSeq(lists) = JoinedUp(lists)
  BY <1>4, FlattenIsJoined
<1>6. JoinedUp(lists) \in Seq(Entries)
  BY <1>4, JoinedType
<1>. QED  BY <1>2, <1>3, <1>5, <1>6 DEF Each

\* What is shown of a repaired message is its piece.
LEMMA HoldersShown ==
  ASSUME NEW h, NEW m \in Entries, m.role # "tool"
  PROVE  Each(Shown, Holders(h, m)) = Told(h, m)
<1>. DEFINE s == Holders(h, m)
            is == [x \in Entries |-> Q!Block("result", x.answers)]
            one == [x \in Entries |-> <<is[x]>>]
<1>1. /\ s \in Seq(Entries) /\ Len(s) = Len(Orphans(h, m))
      /\ \A i \in 1..Len(s) : s[i].role = "tool" /\ s[i].answers = Orphans(h, m)[i].id
  BY HoldersType
<1>2. \A x \in Entries : x.answers \in Nat \X Nat
  BY DEF Entries, Q!InRole
<1>3. Maps(is, Entries, Items) /\ is \in [Entries -> Items]
  <2>1. \A x \in Entries : Q!Block("result", x.answers) \in Items
    BY <1>2, BlockIs DEF Items
  <2>. QED  BY <2>1 DEF Maps
<1>4. Maps(one, Entries, Seq(Items)) /\ \A x \in Entries : one[x] = <<is[x]>>
  <2>1. \A x \in Entries : one[x] = <<is[x]>> /\ is[x] \in Items
    BY <1>3
  <2>2. one = [x \in Entries |-> one[x]]
    OBVIOUS
  <2>. HIDE DEF one, is
  <2>. QED  BY <2>1, <2>2 DEF Maps
<1>5. \A i \in 1..Len(s) : s[i] \in Entries /\ Shown[s[i]] = one[s[i]]
  <2>. TAKE i \in 1..Len(s)
  <2>1. s[i] \in Entries /\ s[i].role = "tool"
    BY <1>1
  <2>. HIDE DEF s
  <2>. QED  BY <2>1 DEF Shown, Q!Blocks
<1>6. MapOf(is, s) = Told(h, m)
  <2>1. \A i \in 1..Len(s) : is[s[i]] = Q!Block("result", Orphans(h, m)[i].id)
    BY <1>1, <1>5
  <2>. HIDE DEF is, s
  <2>. QED  BY <1>1, <2>1 DEF MapOf, Told
<1>. HIDE DEF s, is, one
<1>7. MapOf(is, s) = Each(one, s)
  BY <1>1, <1>3, <1>4, MapIsEach
<1>8. Each(Shown, s) = Each(one, s)
  BY <1>1, <1>4, <1>5, ShownType, EachAgrees
<1>. QED  BY <1>6, <1>7, <1>8 DEF s

LEMMA RepairShown ==
  ASSUME NEW h, Conversed(h), NEW n \in 1..Len(h)
  PROVE  Each(Shown, Repair(h)[h[n]]) = Piece(h)[h[n]]
<1>. DEFINE m == h[n]
            F == Q!FilteredCalls(m)
<1>1. m \in Entries /\ Tells(h, n)
  BY DEF Conversed
<1>2. /\ Voice(m) \in Seq(Items) /\ Asks(m) \in Seq(Items) /\ Told(h, m) \in Seq(Items)
      /\ m.role \in {"system", "user", "assistant", "tool"} /\ F \in Seq(Q!Call)
      /\ Piece(h)[m] = (Voice(m) \o Asks(m)) \o Told(h, m)
  <2>1. \A kind \in {"text", "call", "result"} : Q!BlocksOf({kind}) \subseteq Items
    BY DEF Q!BlocksOf, Items
  <2>2. Voice(m) \in Seq(Items) /\ Asks(m) \in Seq(Items) /\ Told(h, m) \in Seq(Items)
    BY <1>1, <2>1, PieceParts
  <2>3. m.role \in {"system", "user", "assistant", "tool"} /\ F \in Seq(Q!Call)
    BY <1>1, WholeCalls DEF Entries, Q!InRole
  <2>. QED  BY <1>1, <2>2, <2>3 DEF Piece
<1>3. m.calls = <<>> => Voice(m) \o Asks(m) = Voice(m) /\ F = <<>> /\ (m.role # "tool" => Told(h, m) = <<>>)
  <2>. HAVE m.calls = <<>>
  <2>1. <<>> \in Seq(Q!Call)
    OBVIOUS
  <2>2. F = <<>>
    <3>1. \A keep : Only(m.calls, keep) = <<>>
      BY <2>1, OnlyOfNothing
    <3>. QED  BY <1>1, <3>1, WholeCalls
  <2>3. Orphans(h, m) = <<>>
    BY <2>1, <2>2, OnlyOfNothing DEF Orphans
  <2>4. Asks(m) = <<>>
    BY <2>2 DEF Asks
  <2>5. m.role # "tool" => Told(h, m) = <<>>
    BY <2>3 DEF Told
  <2>. QED  BY <1>2, <2>2, <2>4, <2>5
<1>. HIDE DEF m, F
<1>4. Shown[m] = IF m.role = "system" THEN <<>> ELSE Q!Blocks(m)
  BY <1>1 DEF Shown
<1>5. Each(Shown, <<m>>) = Shown[m] /\ Each(Shown, <<>>) = <<>>
  <2>1. Each(Shown, <<m>>) = Shown[m]
    BY <1>1, ShownType, EachOfOne
  <2>2. <<>> \in Seq(Entries)
    OBVIOUS
  <2>. QED  BY <2>1, <2>2, ShownType, EachOfNothing
<1>6. m.role # "assistant" =>
        Repair(h)[m] = IF m.role = "tool" /\ m.answers \notin Q!ValidIDs(h) THEN <<>> ELSE <<m>>
  BY <1>1 DEF Repair
<1>7. m.role = "assistant" => Repair(h)[m] = Q!Repaired(h, m)
  BY <1>1 DEF Repair
<1>8. CASE m.role = "system"
  <2>1. Voice(m) = <<>> /\ m.calls = <<>>
    BY <1>1, <1>8 DEF Voice, Tells, m
  <2>2. <<>> \o <<>> = <<>>
    OBVIOUS
  <2>. QED  BY <1>2, <1>3, <1>4, <1>5, <1>6, <1>8, <2>1, <2>2 DEF m
<1>9. CASE m.role = "user"
  <2>1. Voice(m) = Q!TextBlock(m) /\ m.calls = <<>>
    BY <1>1, <1>9 DEF Voice, Tells, m
  <2>2. Q!Blocks(m) = Q!TextBlock(m) \o Q!CallBlocks(m) /\ Q!CallBlocks(m) = <<>>
    BY <1>9, <2>1 DEF Q!Blocks, Q!CallBlocks
  <2>. QED  BY <1>2, <1>3, <1>4, <1>5, <1>6, <1>9, <2>1, <2>2 DEF m
<1>10. CASE m.role = "tool"
  <2>1. Voice(m) = <<>> /\ m.calls = <<>>
    BY <1>1, <1>10 DEF Voice, Tells, m
  <2>2. <<>> \o Told(h, m) = Told(h, m)
    BY <1>2
  <2>3. Q!Blocks(m) = <<Q!Block("result", m.answers)>>
    BY <1>10 DEF Q!Blocks
  <2>4. Told(h, m) = IF m.answers \in Q!ValidIDs(h) THEN <<Q!Block("result", m.answers)>> ELSE <<>>
    BY <1>10 DEF Told
  <2>. QED  BY <1>2, <1>3, <1>4, <1>5, <1>6, <1>10, <2>1, <2>2, <2>3, <2>4 DEF m
<1>11. CASE m.role = "assistant"
  <2>. DEFINE kept == [m EXCEPT !.calls = F]
  <2>0. Voice(m) = Q!TextBlock(m)
    BY <1>11 DEF Voice
  <2>1. kept \in Entries /\ kept.role = m.role /\ kept.text = m.text /\ kept.calls = F
    BY <1>1, <1>2 DEF Entries, Q!InRole
  <2>2. Q!Repaired(h, m) = IF m.text = 0 /\ F = <<>> /\ ~m.reasoning THEN <<>> ELSE <<kept>> \o Holders(h, m)
    BY <1>1, RepairedIs DEF F
  <2>. HIDE DEF kept
  <2>3. Shown[kept] = Voice(m) \o Asks(m)
    <3>1. DOMAIN F = 1..Len(F)
      BY <1>2
    <3>2. Q!TextBlock(kept) = Q!TextBlock(m) /\ Q!CallBlocks(kept) = Asks(m)
      BY <2>1, <3>1 DEF Q!TextBlock, Q!CallBlocks, Asks, F
    <3>. QED  BY <1>11, <2>0, <2>1, <3>2 DEF Shown, Q!Blocks
  <2>4. CASE m.text = 0 /\ F = <<>> /\ ~m.reasoning
    <3>1. Voice(m) = <<>>
      BY <2>0, <2>4 DEF Q!TextBlock
    <3>2. Asks(m) = <<>>
      BY <2>4 DEF Asks, F
    <3>3. Told(h, m) = <<>>
      <4>1. Orphans(h, m) = <<>>
        BY <1>2, <2>4, OnlyOfNothing DEF Orphans, F
      <4>. QED  BY <1>11, <4>1 DEF Told
    <3>4. (<<>> \o <<>>) \o <<>> = <<>>
      OBVIOUS
    <3>. QED  BY <1>2, <1>5, <1>7, <1>11, <2>2, <2>4, <3>1, <3>2, <3>3, <3>4 DEF m
  <2>5. CASE ~(m.text = 0 /\ F = <<>> /\ ~m.reasoning)
    <3>1. Holders(h, m) \in Seq(Entries)
      BY <1>1, HoldersType
    <3>2. Each(Shown, <<kept>> \o Holders(h, m)) = Shown[kept] \o Each(Shown, Holders(h, m))
      <4>1. \A x \in Entries : \A a \in Seq(Entries) :
              Each(Shown, <<x>> \o a) = Shown[x] \o Each(Shown, a)
        <5>1. EachLeads(Shown, Entries)
          BY ShownType, EachBehind
        <5>. QED  BY <5>1 DEF EachLeads
      <4>. QED  BY <2>1, <3>1, <4>1
    <3>3. Each(Shown, Holders(h, m)) = Told(h, m)
      BY <1>1, <1>11, HoldersShown
    <3>. QED  BY <1>2, <1>7, <1>11, <2>2, <2>3, <2>5, <3>2, <3>3 DEF m
  <2>. QED  BY <2>4, <2>5
<1>. QED  BY <1>2, <1>8, <1>9, <1>10, <1>11

LEMMA AllShown ==
  ASSUME NEW h, Conversed(h)
  PROVE  /\ Each(Shown, Q!sanitizeToolHistory(h)) = Each(Piece(h), h)
         /\ Each(Piece(h), h) \in Seq(Items)
<1>1. h \in Seq(Entries)
  BY DEF Conversed
<1>. DEFINE mid == [m \in Entries |-> Each(Shown, Repair(h)[m])]
<1>2. \A m \in Entries : Each(Shown, Repair(h)[m]) \in Seq(Items)
  <2>. TAKE m \in Entries
  <2>1. Repair(h)[m] \in Seq(Entries)
    BY RepairType DEF Maps
  <2>. QED  BY <2>1, ShownType, EachType
<1>3. Maps(mid, Entries, Seq(Items)) /\ \A m \in Entries : mid[m] = Each(Shown, Repair(h)[m])
  BY <1>2 DEF Maps
<1>4. \A i \in 1..Len(h) : mid[h[i]] = Piece(h)[h[i]]
  BY <1>1, RepairShown
<1>. HIDE DEF mid
<1>5. Each(Shown, Each(Repair(h), h)) = Each(mid, h)
  BY <1>1, <1>3, RepairType, ShownType, EachOfEach
<1>6. Each(mid, h) = Each(Piece(h), h)
  BY <1>1, <1>3, <1>4, PieceType, EachAgrees
<1>7. Each(Piece(h), h) \in Seq(Items)
  BY <1>1, PieceType, EachType
<1>. QED  BY <1>1, <1>5, <1>6, <1>7, SanitizedIs

----------------------------------------------------------------------------
\* What is sent beside the system text is what is shown of every message.
LEMMA OthersAre ==
  ASSUME NEW g \in Seq(Entries)
  PROVE  /\ Q!Others(g) \in Seq(Entries)
         /\ \A i \in 1..Len(Q!Others(g)) :
              /\ Q!Others(g)[i].role \in {"user", "assistant", "tool"}
              /\ \E k \in 1..Len(g) : g[k] = Q!Others(g)[i]
<1>. DEFINE keep == Q!InRole({"user", "assistant", "tool"})
<1>1. Q!Others(g) = Only(g, keep)
  BY OnlyIsOurs DEF Q!Others
<1>2. \A x \in keep : x.role \in {"user", "assistant", "tool"}
  BY DEF Q!InRole
<1>. HIDE DEF keep
<1>3. Only(g, keep) \in Seq(Entries)
  BY OnlyType
<1>4. \A i \in 1..Len(Only(g, keep)) :
        Only(g, keep)[i] \in keep /\ \E k \in 1..Len(g) : g[k] = Only(g, keep)[i]
  BY OnlyMembers
<1>. QED  BY <1>1, <1>2, <1>3, <1>4

LEMMA OthersShown ==
  ASSUME NEW g \in Seq(Entries)
  PROVE  Each(Shown, Q!Others(g)) = Each(Shown, g)
<1>. DEFINE keep == Q!InRole({"user", "assistant", "tool"})
            f == [x \in Entries |-> IF x \in keep THEN <<x>> ELSE <<>>]
<1>1. Q!Others(g) = Only(g, keep)
  BY OnlyIsOurs DEF Q!Others
<1>2. \A x \in Entries : x \notin keep => x.role = "system"
  BY DEF Entries, Q!InRole
<1>3. \A x \in keep : x.role # "system"
  BY DEF Q!InRole
<1>. HIDE DEF keep
<1>4. Maps(f, Entries, Seq(Entries)) /\ \A x \in Entries : f[x] = IF x \in keep THEN <<x>> ELSE <<>>
  <2>1. \A x \in Entries : <<x>> \in Seq(Entries) /\ <<>> \in Seq(Entries)
    OBVIOUS
  <2>. QED  BY <2>1 DEF Maps
<1>. HIDE DEF f
<1>5. Only(g, keep) = Each(f, g)
  BY <1>4, OnlyIsEach
<1>6. ASSUME NEW x \in Entries  PROVE Shown[x] = Each(Shown, f[x])
  <2>1. CASE x \in keep
    <3>1. Each(Shown, <<x>>) = Shown[x]
      BY ShownType, EachOfOne
    <3>. QED  BY <1>4, <2>1, <3>1
  <2>2. CASE x \notin keep
    <3>1. <<>> \in Seq(Entries)
      OBVIOUS
    <3>2. Each(Shown, <<>>) = <<>>
      BY <3>1, ShownType, EachOfNothing
    <3>3. Shown[x] = <<>>
      BY <1>2, <2>2 DEF Shown
    <3>. QED  BY <1>4, <2>2, <3>2, <3>3
  <2>. QED  BY <2>1, <2>2
<1>7. Each(Shown, Each(f, g)) = Each(Shown, g)
  BY <1>4, <1>6, ShownType, EachOfEach
<1>. QED  BY <1>1, <1>5, <1>7

LEMMA JoinedBlocks ==
  ASSUME NEW V, NEW f, Maps(f, Entries, Seq(V)), NEW ms \in Seq(Entries),
         NEW lists, lists = [i \in 1..Len(ms) |-> f[ms[i]]]
  PROVE  Q!FlattenSeq(lists) = Each(f, ms) /\ Each(f, ms) \in Seq(V)
<1>1. lists = MapOf(f, ms)
  BY DEF MapOf
<1>2. MapOf(f, ms) \in Seq(Seq(V))
  BY MapType
<1>3. Q!FlattenSeq(lists) = JoinedUp(lists)
  BY <1>1, <1>2, FlattenIsJoined
<1>4. Each(f, ms) \in Seq(V)
  BY EachType
<1>. QED  BY <1>1, <1>3, <1>4 DEF Each

LEMMA FlatIs ==
  ASSUME NEW f, Maps(f, Entries, Seq(Items)), NEW ms \in Seq(Entries),
         NEW r, DOMAIN r.messages = 1..Len(ms),
         \A i \in 1..Len(ms) : r.messages[i].blocks = f[ms[i]]
  PROVE  Q!Flat(r) = Each(f, ms)
<1>. DEFINE lists == [i \in DOMAIN r.messages |-> r.messages[i].blocks]
<1>1. lists = [i \in 1..Len(ms) |-> f[ms[i]]]
  OBVIOUS
<1>2. Q!Flat(r) = Only(Q!FlattenSeq(lists), Items)
  BY OnlyIsOurs DEF Q!Flat, Items
<1>. HIDE DEF lists
<1>3. Q!FlattenSeq(lists) = Each(f, ms) /\ Each(f, ms) \in Seq(Items)
  BY <1>1, JoinedBlocks
<1>4. Only(Each(f, ms), Items) = Each(f, ms)
  BY <1>3, OnlyOfAll
<1>. QED  BY <1>2, <1>3, <1>4

\* Gemini's results say no more than that they are results.
Strip == [b \in Items |-> IF b.is = "result" THEN Q!Block("result", Q!NoCall) ELSE b]
Bare ==
  [m \in Entries |-> CASE m.role = "system" -> <<>>
                       [] m.role = "tool" -> <<Q!Block("result", Q!NoCall)>>
                       [] OTHER -> Q!Blocks(m)]

LEMMA StripType == Maps(Strip, Items, Items)
<1>1. Q!NoCall \in Nat \X Nat
  BY DEF Q!NoCall
<1>2. Q!Block("result", Q!NoCall) \in Items
  BY <1>1, BlockIs DEF Items
<1>. QED  BY <1>2 DEF Strip, Maps

LEMMA BareIs ==
  /\ Maps(Bare, Entries, Seq(Items))
  /\ \A m \in Entries : Bare[m] = MapOf(Strip, Shown[m])
<1>1. Q!NoCall \in Nat \X Nat
  BY DEF Q!NoCall
<1>2. Q!Block("result", Q!NoCall) \in Items
  BY <1>1, BlockIs DEF Items
<1>3. \A m \in Entries : Shown[m] \in Seq(Items) /\ Shown[m] = IF m.role = "system" THEN <<>> ELSE Q!Blocks(m)
  BY ShownType DEF Maps, Shown
<1>4. ASSUME NEW m \in Entries  PROVE Bare[m] \in Seq(Items)
  <2>1. <<>> \in Seq(Items) /\ <<Q!Block("result", Q!NoCall)>> \in Seq(Items)
    BY <1>2
  <2>. QED  BY <1>3, <2>1 DEF Bare
<1>5. Maps(Bare, Entries, Seq(Items))
  <2>1. Bare = [m \in Entries |-> Bare[m]]
    BY DEF Bare
  <2>. QED  BY <1>4, <2>1 DEF Maps
<1>6. ASSUME NEW m \in Entries  PROVE Bare[m] = MapOf(Strip, Shown[m])
  <2>1. CASE m.role = "system"
    <3>1. Bare[m] = <<>> /\ Shown[m] = <<>>
      BY <1>3, <2>1 DEF Bare
    <3>. QED  BY <3>1 DEF MapOf
  <2>2. CASE m.role = "tool"
    <3>. DEFINE b == Q!Block("result", m.answers)
                s == Shown[m]
    <3>1. m.answers \in Nat \X Nat
      BY DEF Entries, Q!InRole
    <3>2. s = <<b>> /\ b \in Items /\ b.is = "result"
      <4>1. b \in Items
        BY <3>1, BlockIs DEF Items
      <4>2. b.is = "result"
        BY DEF Q!Block
      <4>. QED  BY <1>3, <2>2, <4>1, <4>2 DEF Q!Blocks
    <3>3. Strip[b] = Q!Block("result", Q!NoCall)
      BY <3>2 DEF Strip
    <3>4. Bare[m] = <<Strip[b]>>
      BY <2>2, <3>3 DEF Bare
    <3>. HIDE DEF b, s
    <3>5. MapOf(Strip, s) = <<Strip[b]>>
      BY <3>2 DEF MapOf
    <3>. QED  BY <3>4, <3>5 DEF s
  <2>3. CASE m.role \notin {"system", "tool"}
    <3>. DEFINE s == Shown[m]
    <3>1. s = Q!TextBlock(m) \o Q!CallBlocks(m) /\ Bare[m] = s /\ s \in Seq(Items)
      BY <1>3, <2>3 DEF Bare, Q!Blocks
    <3>2. \A i \in 1..Len(s) : s[i].is # "result"
      <4>. DEFINE speech == {x \in Items : x.is # "result"}
      <4>1. m.calls \in Seq(Q!Call)
        BY DEF Entries, Q!InRole
      <4>2. /\ Q!TextBlock(m) \in Seq(speech)
            /\ Q!CallBlocks(m) \in Seq(speech)
        <5>1. \A kind \in {"text", "call"}, id \in Nat \X Nat : Q!Block(kind, id) \in speech
          BY DEF Q!Block, Items, Q!BlocksOf
        <5>. HIDE DEF speech
        <5>2. Q!TextBlock(m) \in Seq(speech)
          <6>1. m.text \in Nat
            BY DEF Entries, Q!InRole
          <6>. QED  BY <5>1, <6>1 DEF Q!TextBlock
        <5>3. Q!CallBlocks(m) = [i \in 1..Len(m.calls) |-> Q!CallBlocks(m)[i]]
          BY <4>1 DEF Q!CallBlocks
        <5>4. \A i \in 1..Len(m.calls) : Q!CallBlocks(m)[i] \in speech
          <6>1. \A i \in 1..Len(m.calls) : m.calls[i].id \in Nat \X Nat
            BY <4>1, IdIs
          <6>2. \A i \in 1..Len(m.calls) : Q!CallBlocks(m)[i] = Q!Block("call", m.calls[i].id)
            BY <4>1 DEF Q!CallBlocks
          <6>. QED  BY <5>1, <6>1, <6>2
        <5>5. Q!CallBlocks(m) \in Seq(speech)
          <6>. DEFINE f == Q!CallBlocks(m)
                      N == Len(m.calls)
          <6>1. N \in Nat
            BY <4>1
          <6>2. f = [i \in 1..N |-> f[i]]
            BY <5>3
          <6>3. \A i \in 1..N : f[i] \in speech
            BY <5>4
          <6>. HIDE DEF f, N
          <6>4. f \in Seq(speech)
            BY <6>1, <6>2, <6>3, ListOf
          <6>. QED  BY <6>4 DEF f
        <5>. QED  BY <5>2, <5>5
      <4>3. s \in Seq(speech)
        <5>. HIDE DEF speech
        <5>. QED  BY <3>1, <4>2
      <4>. HIDE DEF s
      <4>. QED  BY <4>3
    <3>. HIDE DEF s
    <3>3. \A i \in 1..Len(s) : s[i] \in Items /\ Strip[s[i]] = s[i]
      BY <3>1, <3>2 DEF Strip
    <3>4. MapOf(Strip, s) = s
      <4>. DEFINE t == MapOf(Strip, s)
      <4>1. s \in Seq(Items)
        BY <3>1
      <4>2. t \in Seq(Items) /\ Len(t) = Len(s) /\ \A i \in 1..Len(s) : t[i] = Strip[s[i]]
        BY <4>1, StripType, MapType, MapPlaces
      <4>. HIDE DEF t
      <4>3. t = s
        BY <3>3, <4>1, <4>2
      <4>. QED  BY <4>3 DEF t
    <3>. QED  BY <3>1, <3>4 DEF s
  <2>. QED  BY <2>1, <2>2, <2>3
<1>. QED  BY <1>5, <1>6

Says(g) == \A k \in 1..Len(g) : g[k].role = "system" \/ Q!Blocks(g[k]) # <<>>
Full(r) == \A i \in DOMAIN r.messages : r.messages[i].blocks # <<>>

LEMMA OthersSay ==
  ASSUME NEW g \in Seq(Entries), Says(g)
  PROVE  /\ Q!Others(g) \in Seq(Entries) /\ DOMAIN Q!Others(g) = 1..Len(Q!Others(g))
         /\ \A i \in 1..Len(Q!Others(g)) :
              /\ Q!Others(g)[i] \in Entries /\ Q!Others(g)[i].role \in {"user", "assistant", "tool"}
              /\ Shown[Q!Others(g)[i]] = Q!Blocks(Q!Others(g)[i])
              /\ Q!Blocks(Q!Others(g)[i]) # <<>>
              /\ Bare[Q!Others(g)[i]] = IF Q!Others(g)[i].role = "tool" THEN <<Q!Block("result", Q!NoCall)>>
                                        ELSE Q!Blocks(Q!Others(g)[i])
<1>. DEFINE ms == Q!Others(g)
<1>1. /\ ms \in Seq(Entries)
      /\ \A i \in 1..Len(ms) : /\ ms[i].role \in {"user", "assistant", "tool"}
                               /\ \E k \in 1..Len(g) : g[k] = ms[i]
  BY OthersAre
<1>. HIDE DEF ms
<1>2. \A i \in 1..Len(ms) : ms[i] \in Entries
  BY <1>1
<1>3. ASSUME NEW i \in 1..Len(ms)
      PROVE  /\ ms[i].role \in {"user", "assistant", "tool"} /\ Q!Blocks(ms[i]) # <<>>
             /\ Shown[ms[i]] = Q!Blocks(ms[i])
             /\ Bare[ms[i]] = IF ms[i].role = "tool" THEN <<Q!Block("result", Q!NoCall)>> ELSE Q!Blocks(ms[i])
  <2>1. PICK m \in Entries : m = ms[i] /\ m.role \in {"user", "assistant", "tool"} /\ \E k \in 1..Len(g) : g[k] = m
    BY <1>1, <1>2
  <2>2. Q!Blocks(m) # <<>>
    BY <2>1 DEF Says
  <2>3. Shown[m] = Q!Blocks(m)
    BY <2>1 DEF Shown
  <2>4. Bare[m] = IF m.role = "tool" THEN <<Q!Block("result", Q!NoCall)>> ELSE Q!Blocks(m)
    BY <2>1 DEF Bare
  <2>. QED  BY <2>1, <2>2, <2>3, <2>4
<1>. QED  BY <1>1, <1>2, <1>3 DEF ms

LEMMA AnthropicSays ==
  ASSUME NEW g \in Seq(Entries), Says(g)
  PROVE  /\ Q!Flat(Q!buildAnthropicMessages(g)) = Each(Shown, g)
         /\ Full(Q!buildAnthropicMessages(g))
<1>. DEFINE ms == Q!Others(g)
            r == Q!buildAnthropicMessages(g)
<1>1. ms \in Seq(Entries) /\ DOMAIN ms = 1..Len(ms)
  BY OthersSay
<1>2. DOMAIN r.messages = 1..Len(ms) /\ \A i \in 1..Len(ms) : r.messages[i].blocks = Q!Blocks(ms[i])
  BY <1>1 DEF Q!buildAnthropicMessages, Q!Request, Q!Part
<1>. HIDE DEF r
<1>3. \A i \in 1..Len(ms) : r.messages[i].blocks = Shown[ms[i]] /\ r.messages[i].blocks # <<>>
  BY <1>2, OthersSay
<1>. HIDE DEF ms
<1>4. Q!Flat(r) = Each(Shown, ms)
  BY <1>1, <1>2, <1>3, ShownType, FlatIs
<1>5. Full(r)
  BY <1>2, <1>3 DEF Full
<1>. QED  BY <1>4, <1>5, OthersShown DEF ms, r

LEMMA OpenAISays ==
  ASSUME NEW g \in Seq(Entries), Says(g)
  PROVE  /\ Q!Flat(Q!normalizeOpenAICompatMessages(g)) = Each(Shown, g)
         /\ Full(Q!normalizeOpenAICompatMessages(g))
<1>. DEFINE ms == Q!Others(g)
            r == Q!normalizeOpenAICompatMessages(g)
<1>1. ms \in Seq(Entries) /\ DOMAIN ms = 1..Len(ms)
  BY OthersSay
<1>2. DOMAIN r.messages = 1..Len(ms) /\ \A i \in 1..Len(ms) : r.messages[i].blocks = Q!Blocks(ms[i])
  BY <1>1 DEF Q!normalizeOpenAICompatMessages, Q!Request, Q!Part
<1>. HIDE DEF r
<1>3. \A i \in 1..Len(ms) : r.messages[i].blocks = Shown[ms[i]] /\ r.messages[i].blocks # <<>>
  BY <1>2, OthersSay
<1>. HIDE DEF ms
<1>4. Q!Flat(r) = Each(Shown, ms)
  BY <1>1, <1>2, <1>3, ShownType, FlatIs
<1>5. Full(r)
  BY <1>2, <1>3 DEF Full
<1>. QED  BY <1>4, <1>5, OthersShown DEF ms, r

LEMMA GeminiSays ==
  ASSUME NEW g \in Seq(Entries), Says(g)
  PROVE  /\ Q!Flat(Q!buildGeminiContents(g)) = MapOf(Strip, Each(Shown, g))
         /\ Full(Q!buildGeminiContents(g))
<1>. DEFINE ms == Q!Others(g)
            r == Q!buildGeminiContents(g)
<1>1. ms \in Seq(Entries) /\ DOMAIN ms = 1..Len(ms)
  BY OthersSay
<1>2. /\ DOMAIN r.messages = 1..Len(ms)
      /\ \A i \in 1..Len(ms) : r.messages[i].blocks = IF ms[i].role = "tool" THEN <<Q!Block("result", Q!NoCall)>>
                                                     ELSE Q!Blocks(ms[i])
  BY <1>1 DEF Q!buildGeminiContents, Q!Request, Q!Part
<1>. HIDE DEF r
<1>3. \A i \in 1..Len(ms) : r.messages[i].blocks = Bare[ms[i]]
  BY <1>2, OthersSay
<1>4. \A i \in 1..Len(ms) : r.messages[i].blocks # <<>>
  <2>1. <<Q!Block("result", Q!NoCall)>> # <<>>
    OBVIOUS
  <2>. QED  BY <1>2, <2>1, OthersSay
<1>. HIDE DEF ms
<1>5. Q!Flat(r) = Each(Bare, ms)
  BY <1>1, <1>2, <1>3, BareIs, FlatIs
<1>6. Each(Bare, ms) = MapOf(Strip, Each(Shown, ms))
  BY <1>1, BareIs, ShownType, StripType, MapOfEach
<1>7. Full(r)
  BY <1>2, <1>4 DEF Full
<1>. QED  BY <1>5, <1>6, <1>7, OthersShown DEF ms, r

\* An item for each block, and one for the reasoning.
LEMMA ResponsesSays ==
  ASSUME NEW g \in Seq(Entries), Says(g)
  PROVE  /\ Q!Flat(Q!buildResponsesInput(g)) = Each(Shown, g)
         /\ Full(Q!buildResponsesInput(g))
<1>. DEFINE ms == Q!Others(g)
            r == Q!buildResponsesInput(g)
            thinks(m) == IF m.reasoning THEN <<Q!Block("reasoning", Q!NoCall)>> ELSE <<>>
            f == [m \in Entries |-> thinks(m) \o Shown[m]]
            lists == [i \in DOMAIN ms |-> thinks(ms[i]) \o Q!Blocks(ms[i])]
            items == Q!FlattenSeq(lists)
            one == [b \in Pieces |-> <<b>>]
<1>1. /\ ms \in Seq(Entries) /\ DOMAIN ms = 1..Len(ms)
      /\ \A i \in 1..Len(ms) : ms[i] \in Entries /\ Shown[ms[i]] = Q!Blocks(ms[i])
  BY OthersSay
<1>2. r.messages = [i \in DOMAIN items |-> Q!Part("item", <<items[i]>>)]
  BY DEF Q!buildResponsesInput, Q!Request
<1>3. Items \subseteq Pieces
  BY DEF Items, Pieces, Q!BlocksOf
<1>4. \A m \in Entries : thinks(m) \in Seq(Q!BlocksOf({"reasoning"}))
  <2>1. Q!NoCall \in Nat \X Nat
    BY DEF Q!NoCall
  <2>2. Q!Block("reasoning", Q!NoCall) \in Q!BlocksOf({"reasoning"})
    BY <2>1, BlockIs
  <2>3. \A b \in Q!BlocksOf({"reasoning"}) : <<b>> \in Seq(Q!BlocksOf({"reasoning"}))
    OBVIOUS
  <2>4. <<>> \in Seq(Q!BlocksOf({"reasoning"}))
    OBVIOUS
  <2>. QED  BY <2>2, <2>3, <2>4
<1>5. Q!BlocksOf({"reasoning"}) \subseteq Pieces /\ Q!BlocksOf({"reasoning"}) \cap Items = {}
  BY DEF Items, Pieces, Q!BlocksOf
<1>. HIDE DEF thinks
<1>6. \A m \in Entries : thinks(m) \in Seq(Pieces) /\ Shown[m] \in Seq(Items) /\ Shown[m] \in Seq(Pieces)
  <2>1. \A m \in Entries : Shown[m] \in Seq(Items)
    BY ShownType DEF Maps
  <2>. QED  BY <1>3, <1>4, <1>5, <2>1
<1>7. Maps(f, Entries, Seq(Pieces)) /\ \A m \in Entries : f[m] = thinks(m) \o Shown[m]
  BY <1>6 DEF Maps
<1>8. Maps(Shown, Entries, Seq(Pieces))
  <2>1. Shown = [m \in Entries |-> Shown[m]]
    BY DEF Shown
  <2>. QED  BY <1>6, <2>1 DEF Maps
<1>9. lists = [i \in 1..Len(ms) |-> f[ms[i]]]
  <2>1. \A i \in 1..Len(ms) : f[ms[i]] = thinks(ms[i]) \o Q!Blocks(ms[i])
    BY <1>1, <1>7
  <2>. QED  BY <1>1, <2>1
<1>. HIDE DEF lists, ms, f
<1>10. items = Each(f, ms) /\ items \in Seq(Pieces)
  <2>1. ms \in Seq(Entries) /\ Maps(f, Entries, Seq(Pieces))
    BY <1>1, <1>7
  <2>2. Q!FlattenSeq(lists) = Each(f, ms)
    BY <1>9, <2>1, JoinedBlocks
  <2>3. Each(f, ms) \in Seq(Pieces)
    BY <2>1, EachType
  <2>. QED  BY <2>2, <2>3
<1>11. Only(items, Items) = Each(Shown, ms)
  <2>1. \A m \in Entries : Only(f[m], Items) = Shown[m]
    <3>. TAKE m \in Entries
    <3>1. Only(thinks(m) \o Shown[m], Items) = Only(thinks(m), Items) \o Only(Shown[m], Items)
      BY <1>6, OnlyOfConcat
    <3>2. Only(thinks(m), Items) = <<>>
      BY <1>4, <1>5, OnlyOfNone
    <3>3. Only(Shown[m], Items) = Shown[m]
      BY <1>6, OnlyOfAll
    <3>4. <<>> \o Shown[m] = Shown[m]
      BY <1>6
    <3>. QED  BY <1>7, <3>1, <3>2, <3>3, <3>4
  <2>. QED  BY <1>1, <1>7, <1>8, <1>10, <2>1, OnlyOfEach
<1>. HIDE DEF items
<1>12. Maps(one, Pieces, Seq(Pieces)) /\ \A b \in Pieces : one[b] = IF b \in Pieces THEN <<b>> ELSE <<>>
  <2>1. \A b \in Pieces : <<b>> \in Seq(Pieces)
    OBVIOUS
  <2>. QED  BY <2>1 DEF Maps
<1>. HIDE DEF one
<1>13. Each(one, items) = items
  <2>1. Only(items, Pieces) = Each(one, items)
    BY <1>10, <1>12, OnlyIsEach
  <2>2. Only(items, Pieces) = items
    BY <1>10, OnlyOfAll
  <2>. QED  BY <2>1, <2>2
<1>14. /\ DOMAIN r.messages = 1..Len(items)
       /\ \A i \in 1..Len(items) : r.messages[i].blocks = <<items[i]>> /\ items[i] \in Pieces
  <2>1. DOMAIN items = 1..Len(items) /\ \A i \in 1..Len(items) : items[i] \in Pieces
    BY <1>10
  <2>. HIDE DEF r
  <2>. QED  BY <1>2, <2>1 DEF Q!Part
<1>. HIDE DEF r
<1>. DEFINE blocks == [i \in DOMAIN r.messages |-> r.messages[i].blocks]
<1>15. blocks = MapOf(one, items)
  <2>1. \A i \in 1..Len(items) : one[items[i]] = <<items[i]>>
    BY <1>12, <1>14
  <2>. QED  BY <1>14, <2>1 DEF MapOf
<1>16. Q!Flat(r) = Only(Q!FlattenSeq(blocks), Items)
  BY OnlyIsOurs DEF Q!Flat, Items
<1>. HIDE DEF blocks
<1>17. Q!FlattenSeq(blocks) = items
  <2>1. MapOf(one, items) \in Seq(Seq(Pieces))
    BY <1>10, <1>12, MapType
  <2>2. Q!FlattenSeq(blocks) = JoinedUp(blocks)
    BY <1>15, <2>1, FlattenIsJoined
  <2>. QED  BY <1>13, <1>15, <2>2 DEF Each
<1>18. Full(r)
  <2>1. \A b : <<b>> # <<>>
    OBVIOUS
  <2>. QED  BY <1>14, <2>1 DEF Full
<1>. QED  BY <1>11, <1>16, <1>17, <1>18, OthersShown DEF ms, r

----------------------------------------------------------------------------
\* No message is sent with nothing in it.
LEMMA SanitizedSays ==
  ASSUME NEW h, Conversed(h)
  PROVE  Says(Q!sanitizeToolHistory(h))
<1>. DEFINE loud == {m \in Entries : m.role = "system" \/ Q!Blocks(m) # <<>>}
            lists == MapOf(Repair(h), h)
<1>1. /\ h \in Seq(Entries) /\ lists \in [1..Len(h) -> Seq(Entries)] /\ Len(h) \in Nat
      /\ \A n \in 1..Len(h) : lists[n] = Repair(h)[h[n]]
  <2>1. h \in Seq(Entries) /\ Maps(Repair(h), Entries, Seq(Entries))
    BY RepairType DEF Conversed
  <2>. QED  BY <2>1 DEF MapOf, Maps
<1>. HIDE DEF lists
<1>2. ASSUME NEW n \in 1..Len(h)  PROVE lists[n] \in Seq(loud)
  <2>. DEFINE m == h[n]
              F == Q!FilteredCalls(m)
              kept == [m EXCEPT !.calls = F]
  <2>1. /\ m \in Entries /\ Tells(h, n) /\ m.role \in {"system", "user", "assistant", "tool"}
        /\ m.calls \in Seq(Q!Call) /\ m.text \in Nat
    <3>1. m \in Entries /\ Tells(h, n)
      BY <1>1 DEF Conversed
    <3>2. \A x \in Entries : /\ x.role \in {"system", "user", "assistant", "tool"}
                            /\ x.calls \in Seq(Q!Call) /\ x.text \in Nat
      BY DEF Entries, Q!InRole
    <3>. HIDE DEF m
    <3>. QED  BY <3>1, <3>2
  <2>2. \A x \in loud : <<x>> \in Seq(loud)
    OBVIOUS
  <2>3. \A x \in Entries : x.role = "tool" => x \in loud
    BY DEF Q!Blocks
  <2>4. \A x \in Entries : x.text # 0 /\ x.role # "tool" => x \in loud
    <3>. SUFFICES ASSUME NEW x \in Entries, x.text # 0, x.role # "tool"
                  PROVE  Q!Blocks(x) # <<>>
      OBVIOUS
    <3>1. Q!CallBlocks(x) = [i \in 1..Len(x.calls) |-> Q!CallBlocks(x)[i]] /\ Len(x.calls) \in Nat
      BY DEF Entries, Q!InRole, Q!CallBlocks
    <3>. DEFINE b == Q!Block("text", <<x.text, 0>>)
                s == Q!CallBlocks(x)
    <3>2. Q!Blocks(x) = <<b>> \o s
      BY DEF Q!Blocks, Q!TextBlock
    <3>. DEFINE all == {b} \cup {s[i] : i \in 1..Len(x.calls)}
    <3>3. s \in Seq(all)
      <4>. DEFINE N == Len(x.calls)
      <4>1. N \in Nat /\ s = [i \in 1..N |-> s[i]] /\ \A i \in 1..N : s[i] \in all
        BY <3>1
      <4>. HIDE DEF s, N, all
      <4>. QED  BY <4>1, ListOf
    <3>4. b \in all
      OBVIOUS
    <3>. HIDE DEF b, s, all
    <3>5. Len(<<b>> \o s) >= 1
      BY <3>3, <3>4
    <3>. QED  BY <3>2, <3>5
  <2>5. CASE m.role = "assistant"
    <3>1. kept \in Entries /\ kept.role = m.role /\ kept.text = m.text /\ kept.calls = F /\ F \in Seq(Q!Call)
      BY <2>1, WholeCalls DEF Entries, Q!InRole
    <3>2. lists[n] = <<>> \/ ((m.text # 0 \/ F # <<>> \/ m.reasoning) /\ lists[n] = <<kept>> \o Holders(h, m))
      <4>1. Q!Repaired(h, m) = IF m.text = 0 /\ F = <<>> /\ ~m.reasoning THEN <<>> ELSE <<kept>> \o Holders(h, m)
        BY <2>1, RepairedIs
      <4>2. lists[n] = Q!Repaired(h, m)
        BY <1>1, <2>1, <2>5 DEF Repair
      <4>. QED  BY <4>1, <4>2
    <3>3. m.text = 0 /\ m.reasoning => F # <<>>
      <4>. SUFFICES ASSUME m.text = 0, m.reasoning  PROVE F # <<>>
        OBVIOUS
      <4>. DEFINE keep == [id : Nat \X Nat, fine : {TRUE}]
                  s == m.calls
      <4>1. s # <<>> /\ \A k \in 1..Len(s) : s[k].fine
        BY <2>1, <2>5 DEF Tells
      <4>2. 1 \in 1..Len(s) /\ s[1] \in Q!Call
        BY <2>1, <4>1
      <4>3. s[1] \in keep
        BY <4>1, <4>2 DEF Q!Call
      <4>4. F = Only(s, keep) /\ s \in Seq(Q!Call)
        BY <2>1, WholeCalls
      <4>. HIDE DEF keep, s, F
      <4>5. \E i \in 1..Len(Only(s, keep)) : Only(s, keep)[i] = s[1]
        BY <4>2, <4>3, <4>4, OnlyMembers
      <4>6. Len(<<>>) = 0
        OBVIOUS
      <4>. QED  BY <4>4, <4>5, <4>6
    <3>4. F # <<>> => kept \in loud
      <4>. SUFFICES ASSUME F # <<>>  PROVE Q!Blocks(kept) # <<>>
        BY <3>1
      <4>1. Voice(kept) \in Seq(Items)
        <5>1. Q!BlocksOf({"text"}) \subseteq Items
          BY DEF Q!BlocksOf, Items
        <5>. QED  BY <3>1, <5>1, PieceParts
      <4>2. Q!CallBlocks(kept) = Asks(m) /\ Len(Asks(m)) = Len(F) /\ Asks(m) \in Seq(Items)
        <5>1. DOMAIN F = 1..Len(F) /\ Len(F) \in Nat
          BY <3>1
        <5>2. Q!CallBlocks(kept) = Asks(m) /\ Len(Asks(m)) = Len(F)
          BY <3>1, <5>1 DEF Q!CallBlocks, Asks
        <5>3. Q!BlocksOf({"call"}) \subseteq Items
          BY DEF Q!BlocksOf, Items
        <5>4. Asks(m) \in Seq(Q!BlocksOf({"call"}))
          BY <2>1, PieceParts
        <5>. HIDE DEF m
        <5>5. Asks(m) \in Seq(Items)
          BY <5>3, <5>4
        <5>. QED  BY <5>2, <5>5
      <4>3. Q!Blocks(kept) = Voice(kept) \o Asks(m)
        BY <2>5, <3>1, <4>2 DEF Q!Blocks, Voice
      <4>4. Len(F) >= 1
        BY <3>1
      <4>. HIDE DEF kept, F
      <4>5. Len(Voice(kept) \o Asks(m)) >= 1
        BY <4>1, <4>2, <4>4
      <4>. QED  BY <4>3, <4>5
    <3>5. m.text # 0 => kept \in loud
      BY <2>4, <2>5, <3>1
    <3>6. Holders(h, m) \in Seq(loud)
      <4>. DEFINE s == Holders(h, m)
      <4>1. s \in Seq(Entries) /\ \A i \in 1..Len(s) : s[i].role = "tool"
        BY <2>1, HoldersType
      <4>. HIDE DEF s, loud
      <4>2. \A i \in 1..Len(s) : s[i] \in loud
        BY <2>3, <4>1
      <4>3. s \in Seq(loud)
        BY <4>1, <4>2
      <4>. QED  BY <4>3 DEF s
    <3>. HIDE DEF loud, kept
    <3>7. kept \in loud => <<kept>> \o Holders(h, m) \in Seq(loud)
      BY <2>2, <3>6
    <3>8. <<>> \in Seq(loud)
      OBVIOUS
    <3>. QED  BY <3>2, <3>3, <3>4, <3>5, <3>7, <3>8
  <2>6. CASE m.role # "assistant"
    <3>1. lists[n] = <<>> \/ lists[n] = <<m>>
      BY <1>1, <2>1, <2>6 DEF Repair
    <3>2. m \in loud
      <4>1. m.role \in {"system", "user"} => m.text # 0
        BY <1>1, <2>1 DEF Tells
      <4>. QED  BY <2>1, <2>3, <2>4, <2>6, <4>1
    <3>3. <<>> \in Seq(loud)
      OBVIOUS
    <3>. QED  BY <2>2, <3>1, <3>2, <3>3
  <2>. QED  BY <2>5, <2>6
<1>3. lists \in Seq(Seq(loud))
  <2>1. lists = [n \in 1..Len(h) |-> lists[n]]
    BY <1>1
  <2>. DEFINE Loud == Seq(loud)
              N == Len(h)
  <2>2. N \in Nat /\ \A n \in 1..N : lists[n] \in Loud
    BY <1>1, <1>2
  <2>3. lists = [n \in 1..N |-> lists[n]]
    BY <2>1
  <2>. HIDE DEF Loud, N
  <2>4. lists \in Seq(Loud)
    BY <2>2, <2>3, ListOf
  <2>. QED  BY <2>4 DEF Loud
<1>4. Q!sanitizeToolHistory(h) = JoinedUp(lists)
  BY <1>1, SanitizedIs DEF Each, lists
<1>. DEFINE g == Q!sanitizeToolHistory(h)
<1>5. g \in Seq(loud)
  <2>1. JoinedUp(lists) \in Seq(loud)
    <3>. HIDE DEF loud
    <3>. QED  BY <1>3, JoinedType
  <2>. QED  BY <1>4, <2>1
<1>. HIDE DEF g
<1>6. \A k \in 1..Len(g) : g[k] \in loud
  BY <1>5
<1>. QED  BY <1>6 DEF Says, g

\* The system text is kept as it was.
LEMMA SystemsKept ==
  ASSUME NEW h, Conversed(h)
  PROVE  Q!Systems(Q!sanitizeToolHistory(h)) = Q!Systems(h)
<1>. DEFINE keep == Q!InRole({"system"})
            f == [x \in Entries |-> IF x \in keep THEN <<x>> ELSE <<>>]
<1>1. h \in Seq(Entries)
  BY DEF Conversed
<1>2. \A x \in Entries : x \in keep <=> x.role = "system"
  BY DEF Entries, Q!InRole
<1>. HIDE DEF keep
<1>3. Maps(f, Entries, Seq(Entries)) /\ \A x \in Entries : f[x] = IF x \in keep THEN <<x>> ELSE <<>>
  <2>1. \A x \in Entries : <<x>> \in Seq(Entries) /\ <<>> \in Seq(Entries)
    OBVIOUS
  <2>. QED  BY <2>1 DEF Maps
<1>. HIDE DEF f
<1>4. ASSUME NEW x \in Entries  PROVE f[x] = Only(Repair(h)[x], keep)
  <2>. DEFINE others == {m \in Entries : m.role # "system"}
  <2>1. others \cap keep = {}
    BY <1>2
  <2>2. \A m \in others : <<m>> \in Seq(others)
    OBVIOUS
  <2>3. <<>> \in Seq(others)
    OBVIOUS
  <2>4. x.role # "system" => Repair(h)[x] \in Seq(others)
    <3>. SUFFICES ASSUME x.role # "system"  PROVE Repair(h)[x] \in Seq(others)
      OBVIOUS
    <3>1. CASE x.role = "assistant"
      <4>. DEFINE kept == [x EXCEPT !.calls = Q!FilteredCalls(x)]
                  s == Holders(h, x)
      <4>1. kept \in others
        BY <3>1, WholeCalls DEF Entries, Q!InRole
      <4>2. s \in Seq(Entries) /\ \A i \in 1..Len(s) : s[i].role = "tool"
        BY HoldersType
      <4>3. Repair(h)[x] = <<>> \/ Repair(h)[x] = <<kept>> \o s
        BY <3>1, RepairedIs DEF Repair
      <4>. HIDE DEF kept, s
      <4>4. \A i \in 1..Len(s) : s[i] \in others
        BY <4>2
      <4>. HIDE DEF others
      <4>5. s \in Seq(others)
        BY <4>2, <4>4
      <4>6. <<kept>> \o s \in Seq(others)
        BY <2>2, <4>1, <4>5
      <4>. QED  BY <2>3, <4>3, <4>6
    <3>2. CASE x.role # "assistant"
      <4>1. Repair(h)[x] = <<>> \/ Repair(h)[x] = <<x>>
        BY <3>2 DEF Repair
      <4>2. x \in others
        OBVIOUS
      <4>. HIDE DEF others
      <4>. QED  BY <2>2, <2>3, <4>1, <4>2
    <3>. QED  BY <3>1, <3>2
  <2>. HIDE DEF others
  <2>5. CASE x.role # "system"
    <3>1. Only(Repair(h)[x], keep) = <<>>
      BY <2>1, <2>4, <2>5, OnlyOfNone
    <3>. QED  BY <1>2, <1>3, <2>5, <3>1
  <2>6. CASE x.role = "system"
    <3>1. Repair(h)[x] = <<x>>
      BY <2>6 DEF Repair
    <3>2. <<>> \in Seq(Entries) /\ Append(<<>>, x) = <<x>>
      OBVIOUS
    <3>3. Only(Append(<<>>, x), keep) = IF x \in keep THEN Append(Only(<<>>, keep), x) ELSE Only(<<>>, keep)
      BY <3>2, OnlyOfAppend
    <3>4. Only(<<>>, keep) = <<>>
      BY <3>2, OnlyOfNothing
    <3>. QED  BY <1>2, <1>3, <2>6, <3>1, <3>2, <3>3, <3>4
  <2>. QED  BY <2>5, <2>6
<1>5. Only(Each(Repair(h), h), keep) = Each(f, h)
  BY <1>1, <1>3, <1>4, RepairType, OnlyOfEach
<1>6. Only(h, keep) = Each(f, h)
  BY <1>1, <1>3, OnlyIsEach
<1>7. Q!sanitizeToolHistory(h) = Each(Repair(h), h)
  BY <1>1, SanitizedIs
<1>8. \A list : Q!Systems(list) = Only(list, keep)
  BY OnlyIsOurs DEF Q!Systems, keep
<1>. QED  BY <1>5, <1>6, <1>7, <1>8

LEMMA SystemSent ==
  ASSUME NEW h, Conversed(h), NEW g, g = Q!sanitizeToolHistory(h)
  PROVE  /\ Q!buildAnthropicMessages(g).system = Q!Texts(Q!Systems(h))
         /\ Q!buildGeminiContents(g).system = Q!Texts(Q!Systems(h))
         /\ Q!normalizeOpenAICompatMessages(g).system = Q!Texts(Q!Systems(h))
         /\ Q!buildResponsesInput(g).system = Q!Texts(Q!Systems(h))
<1>. DEFINE keep == Q!InRole({"system"})
            s == Q!Systems(g)
<1>1. s = Q!Systems(h)
  BY SystemsKept
<1>2. g \in Seq(Entries) /\ h \in Seq(Entries)
  BY SanitizedIs DEF Conversed
<1>3. s = Only(g, keep)
  BY OnlyIsOurs DEF Q!Systems
<1>4. s \in Seq(Entries)
  BY <1>2, <1>3, OnlyType
<1>5. ASSUME Len(s) = 1, g[1].role = "system"  PROVE <<g[1].text>> = Q!Texts(s)
  <2>1. g # <<>>
    <3>. SUFFICES ASSUME g = <<>>  PROVE FALSE
      OBVIOUS
    <3>1. Only(g, keep) = <<>>
      BY <1>2, OnlyOfNothing
    <3>2. Len(<<>>) # 1
      OBVIOUS
    <3>. HIDE DEF s
    <3>. QED  BY <1>3, <1>5, <3>1, <3>2
  <2>2. 1 \in 1..Len(g) /\ g[1] \in Entries
    BY <1>2, <2>1
  <2>3. g[1] \in keep
    BY <1>5, <2>2 DEF Entries, Q!InRole
  <2>4. \E i \in 1..Len(Only(g, keep)) : Only(g, keep)[i] = g[1]
    <3>. HIDE DEF keep
    <3>. QED  BY <1>2, <2>2, <2>3, OnlyMembers
  <2>. HIDE DEF s, keep
  <2>5. s[1] = g[1] /\ DOMAIN s = 1..1
    <3>1. \A i \in 1..1 : i = 1
      OBVIOUS
    <3>. QED  BY <1>3, <1>4, <1>5, <2>4, <3>1
  <2>. QED  BY <2>5 DEF Q!Texts
<1>. HIDE DEF s
<1>6. /\ Q!buildAnthropicMessages(g).system = Q!Texts(s)
      /\ Q!buildGeminiContents(g).system = Q!Texts(s)
      /\ Q!buildResponsesInput(g).system = Q!Texts(s)
  BY DEF Q!buildAnthropicMessages, Q!buildGeminiContents, Q!buildResponsesInput, Q!Request, Q!OneSystem, s
<1>7. Q!normalizeOpenAICompatMessages(g).system = Q!Texts(s)
  <2>1. Q!normalizeOpenAICompatMessages(g).system =
          IF Len(s) = 1 /\ g[1].role = "system" THEN <<g[1].text>> ELSE Q!Texts(s)
    BY DEF Q!normalizeOpenAICompatMessages, Q!Request, Q!OneSystem, s
  <2>. QED  BY <1>5, <2>1
<1>. QED  BY <1>1, <1>6, <1>7

----------------------------------------------------------------------------
\* The parts of a piece are the blocks of their kind.
LEMMA PieceKinds ==
  ASSUME NEW h, NEW m \in Entries
  PROVE  /\ Only(Piece(h)[m], Q!BlocksOf({"text"})) = Voice(m)
         /\ Only(Piece(h)[m], Q!BlocksOf({"call"})) = Asks(m)
         /\ Only(Piece(h)[m], Q!BlocksOf({"result"})) = Told(h, m)
<1>. DEFINE t == Q!BlocksOf({"text"})
            c == Q!BlocksOf({"call"})
            r == Q!BlocksOf({"result"})
            a == Voice(m)
            b == Asks(m)
            d == Told(h, m)
<1>1. /\ t \subseteq Items /\ c \subseteq Items /\ r \subseteq Items
      /\ t \cap c = {} /\ t \cap r = {} /\ c \cap r = {}
  BY DEF Q!BlocksOf, Items
<1>2. a \in Seq(t) /\ b \in Seq(c) /\ d \in Seq(r)
  BY PieceParts
<1>3. Piece(h)[m] = (a \o b) \o d
  BY DEF Piece
<1>. HIDE DEF t, c, r, a, b, d
<1>4. a \in Seq(Items) /\ b \in Seq(Items) /\ d \in Seq(Items) /\ a \o b \in Seq(Items)
  <2>1. a \in Seq(Items) /\ b \in Seq(Items) /\ d \in Seq(Items)
    BY <1>1, <1>2
  <2>. QED  BY <2>1
<1>5. \A keep : Only((a \o b) \o d, keep) = (Only(a, keep) \o Only(b, keep)) \o Only(d, keep)
  <2>. TAKE keep
  <2>1. Only((a \o b) \o d, keep) = Only(a \o b, keep) \o Only(d, keep)
    BY <1>4, OnlyOfConcat
  <2>2. Only(a \o b, keep) = Only(a, keep) \o Only(b, keep)
    BY <1>4, OnlyOfConcat
  <2>. QED  BY <2>1, <2>2
<1>6. Only(a, t) = a /\ Only(a, c) = <<>> /\ Only(a, r) = <<>>
  <2>1. Only(a, t) = a
    BY <1>2, OnlyOfAll
  <2>2. Only(a, c) = <<>>
    BY <1>1, <1>2, OnlyOfNone
  <2>3. Only(a, r) = <<>>
    BY <1>1, <1>2, OnlyOfNone
  <2>. QED  BY <2>1, <2>2, <2>3
<1>7. Only(b, c) = b /\ Only(b, t) = <<>> /\ Only(b, r) = <<>>
  <2>1. Only(b, c) = b
    BY <1>2, OnlyOfAll
  <2>2. Only(b, t) = <<>>
    BY <1>1, <1>2, OnlyOfNone
  <2>3. Only(b, r) = <<>>
    BY <1>1, <1>2, OnlyOfNone
  <2>. QED  BY <2>1, <2>2, <2>3
<1>8. Only(d, r) = d /\ Only(d, t) = <<>> /\ Only(d, c) = <<>>
  <2>1. Only(d, r) = d
    BY <1>2, OnlyOfAll
  <2>2. Only(d, t) = <<>>
    BY <1>1, <1>2, OnlyOfNone
  <2>3. Only(d, c) = <<>>
    BY <1>1, <1>2, OnlyOfNone
  <2>. QED  BY <2>1, <2>2, <2>3
<1>9. (a \o <<>>) \o <<>> = a /\ (<<>> \o b) \o <<>> = b /\ (<<>> \o <<>>) \o d = d
  BY <1>4
<1>. QED  BY <1>3, <1>5, <1>6, <1>7, <1>8, <1>9 DEF a, b, d, t, c, r

\* What was said is sent, in its order.
First == [b \in Items |-> b.of[1]]
Said == {m \in Q!InRole({"user", "assistant"}) : m.text # 0}

LEMMA TextsSent ==
  ASSUME NEW h, Conversed(h)
  PROVE  MapOf(First, Only(Each(Piece(h), h), Q!BlocksOf({"text"})))
           = Q!Texts(Q!Only(Q!Others(h), Said))
<1>. DEFINE keep == Q!InRole({"user", "assistant", "tool"})
            voices == [x \in Entries |-> Voice(x)]
            those == [x \in Entries |-> IF x \in Said THEN <<x>> ELSE <<>>]
            text == [x \in Entries |-> x.text]
            words == [x \in Entries |-> IF x \in Said THEN <<x.text>> ELSE <<>>]
<1>1. h \in Seq(Entries)
  BY DEF Conversed
<1>2. \A x \in Entries : x \in Said <=> x.role \in {"user", "assistant"} /\ x.text # 0
  BY DEF Said, Entries, Q!InRole
<1>3. \A x \in Entries : x.text \in Nat
  BY DEF Entries, Q!InRole
<1>4. Maps(voices, Entries, Seq(Items)) /\ \A x \in Entries : voices[x] = Voice(x)
  <2>1. \A x \in Entries : Voice(x) \in Seq(Items)
    <3>1. Q!BlocksOf({"text"}) \subseteq Items
      BY DEF Q!BlocksOf, Items
    <3>. QED  BY <3>1, PieceParts
  <2>. QED  BY <2>1 DEF Maps
<1>5. Maps(words, Entries, Seq(Nat)) /\ \A x \in Entries : words[x] = IF x \in Said THEN <<x.text>> ELSE <<>>
  <2>1. \A x \in Entries : <<x.text>> \in Seq(Nat) /\ <<>> \in Seq(Nat)
    BY <1>3
  <2>. QED  BY <2>1 DEF Maps
<1>6. Maps(those, Entries, Seq(Entries)) /\ \A x \in Entries : those[x] = IF x \in Said THEN <<x>> ELSE <<>>
  <2>1. \A x \in Entries : <<x>> \in Seq(Entries) /\ <<>> \in Seq(Entries)
    OBVIOUS
  <2>. QED  BY <2>1 DEF Maps
<1>7. Maps(text, Entries, Nat) /\ \A x \in Entries : text[x] = x.text
  BY <1>3 DEF Maps
<1>8. Maps(First, Items, Nat)
  BY DEF Maps, First, Items, Q!BlocksOf
<1>. HIDE DEF voices, words, those, text
<1>9. Only(Each(Piece(h), h), Q!BlocksOf({"text"})) = Each(voices, h)
  <2>1. \A x \in Entries : voices[x] = Only(Piece(h)[x], Q!BlocksOf({"text"}))
    BY <1>4, PieceKinds
  <2>. QED  BY <1>1, <1>4, <2>1, PieceType, OnlyOfEach
<1>10. \A x \in Entries : words[x] = MapOf(First, voices[x])
  <2>. TAKE x \in Entries
  <2>1. CASE x \in Said
    <3>. DEFINE b == Q!Block("text", <<x.text, 0>>)
                s == <<b>>
    <3>1. voices[x] = s
      BY <1>2, <1>4, <2>1 DEF Voice, Q!TextBlock
    <3>2. First[b] = x.text
      <4>1. b \in Items
        BY <1>3, BlockIs DEF Items
      <4>2. b.of = <<x.text, 0>>
        BY DEF Q!Block
      <4>. QED  BY <4>1, <4>2 DEF First
    <3>. HIDE DEF b
    <3>3. MapOf(First, s) = <<First[b]>>
      BY DEF MapOf
    <3>. QED  BY <1>5, <2>1, <3>1, <3>2, <3>3
  <2>2. CASE x \notin Said
    <3>1. voices[x] = <<>>
      BY <1>2, <1>4, <2>2 DEF Voice, Q!TextBlock
    <3>2. MapOf(First, <<>>) = <<>>
      BY DEF MapOf
    <3>. QED  BY <1>5, <2>2, <3>1, <3>2
  <2>. QED  BY <2>1, <2>2
<1>11. MapOf(First, Each(voices, h)) = Each(words, h)
  BY <1>1, <1>4, <1>5, <1>8, <1>10, MapOfEach
<1>12. Only(h, Said) = Each(those, h)
  BY <1>1, <1>6, OnlyIsEach
<1>13. Q!Only(Q!Others(h), Said) = Each(those, h)
  <2>1. Said \subseteq keep
    BY DEF Said, Q!InRole
  <2>2. Q!Only(Q!Others(h), Said) = Only(Only(h, keep), Said)
    BY OnlyIsOurs DEF Q!Others
  <2>. HIDE DEF keep
  <2>3. Only(h, Said) = Only(Only(h, keep), Said)
    BY <1>1, <2>1, OnlyOfOnly
  <2>. QED  BY <1>12, <2>2, <2>3
<1>14. MapOf(text, Each(those, h)) = Each(words, h)
  <2>1. \A x \in Entries : words[x] = MapOf(text, those[x])
    <3>. TAKE x \in Entries
    <3>1. MapOf(text, <<x>>) = <<text[x]>> /\ MapOf(text, <<>>) = <<>>
      BY DEF MapOf
    <3>. QED  BY <1>5, <1>6, <1>7, <3>1
  <2>. QED  BY <1>1, <1>5, <1>6, <1>7, <2>1, MapOfEach
<1>15. ASSUME NEW s \in Seq(Entries)  PROVE Q!Texts(s) = MapOf(text, s)
  <2>1. DOMAIN s = 1..Len(s) /\ \A i \in 1..Len(s) : s[i] \in Entries
    OBVIOUS
  <2>2. \A i \in 1..Len(s) : text[s[i]] = s[i].text
    BY <1>7, <2>1
  <2>. QED  BY <2>1, <2>2 DEF Q!Texts, MapOf
<1>16. Each(those, h) \in Seq(Entries)
  BY <1>1, <1>6, EachType
<1>. QED  BY <1>9, <1>11, <1>13, <1>14, <1>15, <1>16

\* And the whole calls.
Id == [b \in Items |-> b.of]
IdOf == [c \in Q!Call |-> c.id]
Wants(h) == Each([m \in Entries |-> Q!FilteredCalls(m)], h)

LEMMA CallsSent ==
  ASSUME NEW h, Conversed(h)
  PROVE  /\ MapOf(Id, Only(Each(Piece(h), h), Q!BlocksOf({"call"}))) = MapOf(IdOf, Wants(h))
         /\ Q!FlattenSeq([i \in DOMAIN h |-> Q!FilteredCalls(h[i])]) = Wants(h)
         /\ Wants(h) \in Seq(Q!Call)
<1>. DEFINE F == [m \in Entries |-> Q!FilteredCalls(m)]
            asks == [x \in Entries |-> Asks(x)]
            ids == [x \in Entries |-> MapOf(IdOf, F[x])]
<1>1. h \in Seq(Entries) /\ DOMAIN h = 1..Len(h)
  BY DEF Conversed
<1>2. Maps(F, Entries, Seq(Q!Call)) /\ \A x \in Entries : F[x] = Q!FilteredCalls(x) /\ F[x] \in Seq(Q!Call)
  BY WholeCalls DEF Maps
<1>. HIDE DEF F
<1>3. Maps(IdOf, Q!Call, Nat \X Nat) /\ Maps(Id, Items, Nat \X Nat)
  BY DEF Maps, IdOf, Id, Q!Call, Items, Q!BlocksOf
<1>4. Maps(asks, Entries, Seq(Items)) /\ \A x \in Entries : asks[x] = Asks(x)
  <2>1. \A x \in Entries : Asks(x) \in Seq(Items)
    <3>1. Q!BlocksOf({"call"}) \subseteq Items
      BY DEF Q!BlocksOf, Items
    <3>. QED  BY <3>1, PieceParts
  <2>. QED  BY <2>1 DEF Maps
<1>5. Maps(ids, Entries, Seq(Nat \X Nat)) /\ \A x \in Entries : ids[x] = MapOf(IdOf, F[x])
  <2>1. \A x \in Entries : MapOf(IdOf, F[x]) \in Seq(Nat \X Nat)
    BY <1>2, <1>3, MapType
  <2>. QED  BY <2>1 DEF Maps
<1>. HIDE DEF asks, ids
<1>6. Only(Each(Piece(h), h), Q!BlocksOf({"call"})) = Each(asks, h)
  <2>1. \A x \in Entries : asks[x] = Only(Piece(h)[x], Q!BlocksOf({"call"}))
    BY <1>4, PieceKinds
  <2>. QED  BY <1>1, <1>4, <2>1, PieceType, OnlyOfEach
<1>7. ASSUME NEW x \in Entries  PROVE ids[x] = MapOf(Id, asks[x])
  <2>. DEFINE s == F[x]
              t == asks[x]
  <2>1. /\ s \in Seq(Q!Call) /\ Len(s) \in Nat
        /\ t = [i \in 1..Len(s) |-> Q!Block("call", s[i].id)]
    BY <1>2, <1>4 DEF Asks
  <2>2. \A i \in 1..Len(s) : Id[Q!Block("call", s[i].id)] = s[i].id /\ IdOf[s[i]] = s[i].id
    <3>1. \A c \in Q!Call : IdOf[c] = c.id /\ c.id \in Nat \X Nat
      BY DEF IdOf, Q!Call
    <3>2. \A c \in Nat \X Nat : Q!Block("call", c) \in Items
      BY BlockIs DEF Items
    <3>3. \A c \in Nat \X Nat : Q!Block("call", c).of = c
      BY DEF Q!Block
    <3>4. \A c \in Nat \X Nat : Id[Q!Block("call", c)] = c
      BY <3>2, <3>3 DEF Id
    <3>5. \A i \in 1..Len(s) : s[i] \in Q!Call
      BY <2>1
    <3>. QED  BY <3>1, <3>4, <3>5
  <2>. HIDE DEF s, t
  <2>3. Len(t) = Len(s) /\ \A i \in 1..Len(s) : t[i] = Q!Block("call", s[i].id)
    BY <2>1
  <2>4. MapOf(Id, t) = MapOf(IdOf, s)
    BY <2>2, <2>3 DEF MapOf
  <2>. QED  BY <1>5, <2>4 DEF s, t
<1>8. MapOf(Id, Each(asks, h)) = Each(ids, h)
  BY <1>1, <1>3, <1>4, <1>5, <1>7, MapOfEach
<1>9. MapOf(IdOf, Each(F, h)) = Each(ids, h)
  BY <1>1, <1>2, <1>3, <1>5, MapOfEach
<1>10. Wants(h) = Each(F, h)
  BY DEF Wants, F
<1>11. Q!FlattenSeq([i \in DOMAIN h |-> Q!FilteredCalls(h[i])]) = Each(F, h) /\ Each(F, h) \in Seq(Q!Call)
  <2>. DEFINE lists == [i \in DOMAIN h |-> Q!FilteredCalls(h[i])]
  <2>1. lists = [i \in 1..Len(h) |-> F[h[i]]]
    BY <1>1, <1>2
  <2>. HIDE DEF lists
  <2>2. Q!FlattenSeq(lists) = Each(F, h)
    BY <1>1, <1>2, <2>1, JoinedBlocks
  <2>3. Each(F, h) \in Seq(Q!Call)
    BY <1>1, <1>2, EachType
  <2>. QED  BY <2>2, <2>3 DEF lists
<1>. QED  BY <1>6, <1>8, <1>9, <1>10, <1>11

----------------------------------------------------------------------------
\* The calls of the n-th message, and which of them have no result.
LEMMA CallsOf ==
  ASSUME NEW h, Conversed(h), NEW n \in 1..Len(h)
  PROVE  LET s == Q!FilteredCalls(h[n])
             o == Orphans(h, h[n])
         IN  /\ \A i \in 1..Len(s) : s[i].id \in {n} \X (Nat \ {0}) /\ s[i].id \in Q!ValidIDs(h)
             /\ \A i, j \in 1..Len(s) : s[i].id = s[j].id => i = j
             /\ \A i \in 1..Len(o) : o[i].id \notin Q!Answered(h) /\ \E k \in 1..Len(s) : s[k] = o[i]
             /\ \A i, j \in 1..Len(o) : o[i].id = o[j].id => i = j
             /\ \A k \in 1..Len(s) : s[k].id \in Q!Answered(h) \/ \E i \in 1..Len(o) : o[i] = s[k]
             /\ s # <<>> => h[n].role = "assistant"
<1>. DEFINE m == h[n]
            cs == m.calls
            whole == [id : Nat \X Nat, fine : {TRUE}]
            left == [id : (Nat \X Nat) \ Q!Answered(h), fine : BOOLEAN]
            s == Q!FilteredCalls(m)
            o == Orphans(h, m)
<1>1. m \in Entries /\ Tells(h, n) /\ n \in Nat /\ h \in Seq(Entries)
  BY DEF Conversed
<1>2. cs \in Seq(Q!Call) /\ m.role \in {"system", "user", "assistant", "tool"}
  <2>1. \A x \in Entries : x.calls \in Seq(Q!Call) /\ x.role \in {"system", "user", "assistant", "tool"}
    BY DEF Entries, Q!InRole
  <2>. HIDE DEF m
  <2>. QED  BY <1>1, <2>1
<1>3. s = Only(cs, whole) /\ o = Only(s, left) /\ s \in Seq(Q!Call) /\ o \in Seq(Q!Call)
  BY <1>1, WholeCalls DEF Orphans
<1>4. cs # <<>> => m.role = "assistant"
  BY <1>1, <1>2 DEF Tells
<1>5. \A k \in 1..Len(cs) : cs[k].id = <<n, k>>
  <2>1. Len(<<>>) = 0
    OBVIOUS
  <2>2. m.role = "assistant" => \A k \in 1..Len(cs) : cs[k].id = <<n, k>>
    BY <1>1 DEF Tells
  <2>3. cs = <<>> => 1..Len(cs) = {}
    BY <2>1
  <2>. QED  BY <1>4, <2>2, <2>3
<1>6. h[n] = m
  OBVIOUS
<1>. HIDE DEF m, cs, whole, s, o
<1>7. \A i \in 1..Len(s) : \E k \in 1..Len(cs) : cs[k] = s[i]
  <2>1. \A i \in 1..Len(Only(cs, whole)) : \E k \in 1..Len(cs) : cs[k] = Only(cs, whole)[i]
    BY <1>2, OnlyMembers
  <2>. QED  BY <1>3, <2>1
<1>8. \A i \in 1..Len(s) : s[i].id \in {n} \X (Nat \ {0})
  <2>. TAKE i \in 1..Len(s)
  <2>1. PICK k \in 1..Len(cs) : cs[k] = s[i]
    BY <1>7
  <2>2. k \in Nat \ {0} /\ s[i].id = <<n, k>>
    BY <1>2, <1>5, <2>1
  <2>. QED  BY <1>1, <2>2
<1>9. \A i \in 1..Len(s) : s[i].id \in Q!ValidIDs(h)
  <2>. TAKE i \in 1..Len(s)
  <2>1. DOMAIN h = 1..Len(h)
    BY <1>1
  <2>2. s[i] \in Q!Range(Q!FilteredCalls(h[n]))
    <3>1. i \in DOMAIN s
      BY <1>3
    <3>. QED  BY <3>1 DEF Q!Range, s, m
  <2>3. s[i].id \in {c.id : c \in Q!Range(Q!FilteredCalls(h[n]))}
    BY <2>2
  <2>. QED  BY <2>1, <2>3 DEF Q!ValidIDs
<1>10. \A i, j \in 1..Len(s) : s[i].id = s[j].id => i = j
  <2>1. \A i, j \in 1..Len(cs) : cs[i] = cs[j] => i = j
    BY <1>5
  <2>2. \A i, j \in 1..Len(Only(cs, whole)) : Only(cs, whole)[i] = Only(cs, whole)[j] => i = j
    BY <1>2, <2>1, OnlyDistinct
  <2>. TAKE i, j \in 1..Len(s)
  <2>. HAVE s[i].id = s[j].id
  <2>3. PICK k \in 1..Len(cs) : cs[k] = s[i]
    BY <1>7
  <2>4. PICK l \in 1..Len(cs) : cs[l] = s[j]
    BY <1>7
  <2>5. k = l
    BY <1>5, <2>3, <2>4
  <2>. QED  BY <1>3, <2>2, <2>3, <2>4, <2>5
<1>11. \A i \in 1..Len(o) : o[i] \in left /\ \E k \in 1..Len(s) : s[k] = o[i]
  <2>. HIDE DEF left
  <2>. QED  BY <1>3, OnlyMembers
<1>12. \A i \in 1..Len(o) : o[i].id \notin Q!Answered(h)
  BY <1>11
<1>13. \A i, j \in 1..Len(o) : o[i].id = o[j].id => i = j
  <2>1. \A i, j \in 1..Len(s) : s[i] = s[j] => i = j
    BY <1>10
  <2>2. \A i, j \in 1..Len(o) : o[i] = o[j] => i = j
    <3>. HIDE DEF left
    <3>1. \A i, j \in 1..Len(Only(s, left)) : Only(s, left)[i] = Only(s, left)[j] => i = j
      BY <1>3, <2>1, OnlyDistinct
    <3>. QED  BY <1>3, <3>1
  <2>. TAKE i, j \in 1..Len(o)
  <2>. HAVE o[i].id = o[j].id
  <2>3. PICK k \in 1..Len(s) : s[k] = o[i]
    BY <1>11
  <2>4. PICK l \in 1..Len(s) : s[l] = o[j]
    BY <1>11
  <2>5. k = l
    BY <1>10, <2>3, <2>4
  <2>. QED  BY <2>2, <2>3, <2>4, <2>5
<1>14. \A k \in 1..Len(s) : s[k].id \in Q!Answered(h) \/ \E i \in 1..Len(o) : o[i] = s[k]
  <2>. TAKE k \in 1..Len(s)
  <2>1. s[k] \in Q!Call
    BY <1>3
  <2>2. s[k].id \notin Q!Answered(h) => s[k] \in left
    BY <2>1 DEF Q!Call
  <2>. HIDE DEF left
  <2>3. \A l \in 1..Len(s) : s[l] \in left =>
          \E i \in 1..Len(Only(s, left)) : Only(s, left)[i] = s[l]
    <3>1. s \in Seq(Q!Call)
      BY <1>3
    <3>. QED  BY <3>1, OnlyMembers
  <2>. QED  BY <1>3, <2>2, <2>3
<1>15. s # <<>> => m.role = "assistant"
  <2>1. cs = <<>> => Only(cs, whole) = <<>>
    BY <1>2, OnlyOfNothing
  <2>. QED  BY <1>3, <1>4, <2>1
<1>. QED  BY <1>8, <1>9, <1>10, <1>11, <1>12, <1>13, <1>14, <1>15 DEF m, s, o

\* What a piece holds: nothing but its own message's, nothing twice, its text
\* before its calls, and a result for every call that has none elsewhere.
Home(h, n, b) ==
  /\ b.is = "text" => b.of = <<n, 0>>
  /\ b.is = "call" => b.of \in {n} \X (Nat \ {0})
  /\ b.is = "result" =>
       \/ h[n].role # "tool" /\ b.of \in {n} \X Nat /\ b.of \notin Q!Answered(h)
       \/ h[n].role = "tool" /\ b.of = h[n].answers
  /\ h[n].role = "tool" => b.is = "result"
Sound(h, n, p) ==
  /\ p \in Seq(Items) /\ Once(p)
  /\ \A i \in 1..Len(p) : Home(h, n, p[i])
  /\ \A i, j \in 1..Len(p) : i < j /\ p[i].is = "call" => p[j].is \in {"call", "result"}
  /\ \A i \in 1..Len(p) : p[i].is = "call" =>
       p[i].of \in Q!Answered(h) \/ \E j \in 1..Len(p) : i < j /\ p[j] = Q!Block("result", p[i].of)
  /\ \A i \in 1..Len(p) : p[i].is \in {"call", "result"} => p[i].of \in Q!ValidIDs(h)
  /\ h[n].role = "tool" /\ h[n].answers \in Q!ValidIDs(h) => p = <<Q!Block("result", h[n].answers)>>
  /\ \A k \in 1..Len(Q!FilteredCalls(h[n])) :
       \E i \in 1..Len(p) : p[i] = Q!Block("call", Q!FilteredCalls(h[n])[k].id)

LEMMA VoiceIs ==
  ASSUME NEW h, Conversed(h), NEW n \in 1..Len(h)
  PROVE  /\ Voice(h[n]) = <<>> \/ Voice(h[n]) = <<Q!Block("text", <<n, 0>>)>>
         /\ h[n].role = "tool" => Voice(h[n]) = <<>>
<1>1. h[n] \in Entries /\ Tells(h, n)
  BY DEF Conversed
<1>2. h[n].role \in {"user", "assistant"} => h[n].text \in {0, n}
  BY <1>1 DEF Tells
<1>. QED  BY <1>2 DEF Voice, Q!TextBlock

LEMMA ToolPiece ==
  ASSUME NEW h, Conversed(h), NEW n \in 1..Len(h), h[n].role = "tool"
  PROVE  Sound(h, n, Piece(h)[h[n]])
<1>. DEFINE p == Piece(h)[h[n]]
            b == Q!Block("result", h[n].answers)
            s == Q!FilteredCalls(h[n])
<1>1. h[n] \in Entries
  BY DEF Conversed
<1>2. s = <<>>
  <2>1. s # <<>> => h[n].role = "assistant"
    BY CallsOf
  <2>. QED  BY <2>1
<1>3. Voice(h[n]) = <<>> /\ Asks(h[n]) = <<>>
  BY <1>2 DEF Voice, Asks
<1>4. p = IF h[n].answers \in Q!ValidIDs(h) THEN <<b>> ELSE <<>>
  <2>1. p = (<<>> \o <<>>) \o Told(h, h[n])
    BY <1>1, <1>3 DEF Piece
  <2>2. Told(h, h[n]) = IF h[n].answers \in Q!ValidIDs(h) THEN <<b>> ELSE <<>>
    BY DEF Told
  <2>3. <<>> \o <<>> = <<>> /\ <<>> \o <<b>> = <<b>>
    OBVIOUS
  <2>. QED  BY <2>1, <2>2, <2>3
<1>5. b \in Items /\ b.is = "result" /\ b.of = h[n].answers
  <2>1. h[n].answers \in Nat \X Nat
    BY <1>1 DEF Entries, Q!InRole
  <2>2. b \in Items
    BY <2>1, BlockIs DEF Items
  <2>. QED  BY <2>2 DEF Q!Block
<1>. HIDE DEF b, s
<1>6. Home(h, n, b)
  BY <1>5 DEF Home
<1>7. Len(s) = 0
  BY <1>2
<1>. HIDE DEF p
<1>8. CASE h[n].answers \in Q!ValidIDs(h)
  <2>1. p = <<b>> /\ Len(p) = 1 /\ p[1] = b /\ p \in Seq(Items)
    BY <1>4, <1>5, <1>8
  <2>2. \A i \in 1..Len(p) : p[i] = b /\ i = 1
    BY <2>1
  <2>. QED  BY <1>5, <1>6, <1>7, <1>8, <2>1, <2>2 DEF Sound, Once, p, b, s
<1>9. CASE h[n].answers \notin Q!ValidIDs(h)
  <2>1. p = <<>> /\ Len(p) = 0 /\ p \in Seq(Items)
    BY <1>4, <1>9
  <2>. QED  BY <1>7, <1>9, <2>1 DEF Sound, Once, p, s
<1>. QED  BY <1>8, <1>9

LEMMA SpeakerPiece ==
  ASSUME NEW h, Conversed(h), NEW n \in 1..Len(h), h[n].role # "tool"
  PROVE  Sound(h, n, Piece(h)[h[n]])
<1>. DEFINE p == Piece(h)[h[n]]
            a == Voice(h[n])
            b == Asks(h[n])
            d == Told(h, h[n])
            s == Q!FilteredCalls(h[n])
            o == Orphans(h, h[n])
<1>1. /\ h[n] \in Entries /\ p \in Seq(Items) /\ p = (a \o b) \o d /\ n \in Nat
      /\ s \in Seq(Q!Call) /\ o \in Seq(Q!Call)
  <2>1. h[n] \in Entries /\ n \in Nat
    BY DEF Conversed
  <2>2. p \in Seq(Items)
    BY <2>1, PieceType DEF Maps
  <2>3. p = (a \o b) \o d
    BY <2>1 DEF Piece
  <2>. QED  BY <2>1, <2>2, <2>3, WholeCalls
<1>2. /\ b = [i \in 1..Len(s) |-> Q!Block("call", s[i].id)]
      /\ d = [i \in 1..Len(o) |-> Q!Block("result", o[i].id)]
  BY DEF Asks, Told
<1>3. a = <<>> \/ a = <<Q!Block("text", <<n, 0>>)>>
  BY VoiceIs
<1>4. /\ \A i \in 1..Len(s) : s[i].id \in {n} \X (Nat \ {0}) /\ s[i].id \in Q!ValidIDs(h)
      /\ \A i, j \in 1..Len(s) : s[i].id = s[j].id => i = j
      /\ \A i \in 1..Len(o) : o[i].id \notin Q!Answered(h) /\ \E k \in 1..Len(s) : s[k] = o[i]
      /\ \A i, j \in 1..Len(o) : o[i].id = o[j].id => i = j
      /\ \A k \in 1..Len(s) : s[k].id \in Q!Answered(h) \/ \E i \in 1..Len(o) : o[i] = s[k]
  BY CallsOf
<1>5. a \in Seq(Items) /\ b \in Seq(Items) /\ d \in Seq(Items)
  <2>1. \A kind \in {"text", "call", "result"} : Q!BlocksOf({kind}) \subseteq Items
    BY DEF Q!BlocksOf, Items
  <2>2. a \in Seq(Q!BlocksOf({"text"})) /\ b \in Seq(Q!BlocksOf({"call"})) /\ d \in Seq(Q!BlocksOf({"result"}))
    BY <1>1, PieceParts
  <2>. HIDE DEF a, b, d
  <2>. QED  BY <2>1, <2>2
<1>. HIDE DEF p, a, b, d, s, o
<1>. DEFINE la == Len(a)
            ls == Len(s)
            lo == Len(o)
<1>6. /\ la \in {0, 1} /\ ls \in Nat /\ lo \in Nat /\ Len(b) = ls /\ Len(d) = lo /\ Len(p) = (la + ls) + lo
      /\ \A i \in 1..la : p[i] = a[i]
      /\ \A i \in 1..ls : p[la + i] = b[i]
      /\ \A i \in 1..lo : p[(la + ls) + i] = d[i]
  <2>1. ls \in Nat /\ lo \in Nat /\ la \in Nat /\ Len(b) = ls /\ Len(d) = lo
    BY <1>1, <1>2, <1>5
  <2>2. la \in {0, 1}
    BY <1>3
  <2>. DEFINE q == a \o b
  <2>3. q \in Seq(Items) /\ Len(q) = la + ls /\ (\A i \in 1..la : q[i] = a[i]) /\ \A i \in 1..ls : q[la + i] = b[i]
    BY <1>5, <2>1
  <2>4. p = q \o d
    BY <1>1
  <2>. HIDE DEF q
  <2>5. Len(p) = Len(q) + lo /\ (\A i \in 1..Len(q) : p[i] = q[i]) /\ \A i \in 1..lo : p[Len(q) + i] = d[i]
    <3>1. \A u, v \in Seq(Items) :
            /\ Len(u \o v) = Len(u) + Len(v)
            /\ \A i \in 1..Len(u) : (u \o v)[i] = u[i]
            /\ \A i \in 1..Len(v) : (u \o v)[Len(u) + i] = v[i]
      OBVIOUS
    <3>2. /\ Len(q \o d) = Len(q) + Len(d)
          /\ \A i \in 1..Len(q) : (q \o d)[i] = q[i]
          /\ \A i \in 1..Len(d) : (q \o d)[Len(q) + i] = d[i]
      BY <1>5, <2>3, <3>1
    <3>. QED  BY <2>1, <2>4, <3>2
  <2>6. (\A i \in 1..la : i \in 1..Len(q)) /\ \A i \in 1..ls : la + i \in 1..Len(q)
    BY <2>1, <2>3
  <2>. QED  BY <2>1, <2>2, <2>3, <2>5, <2>6
<1>7. \A i \in 1..la : p[i] = Q!Block("text", <<n, 0>>) /\ i = 1
  <2>. TAKE i \in 1..la
  <2>1. p[i] = a[i] /\ i = 1
    BY <1>6
  <2>2. a # <<>>
    <3>1. Len(a) # 0
      BY <1>6
    <3>. QED  BY <3>1
  <2>3. a[1] = Q!Block("text", <<n, 0>>)
    BY <1>3, <2>2
  <2>. QED  BY <2>1, <2>3
<1>8. \A i \in 1..ls : p[la + i] = Q!Block("call", s[i].id)
  BY <1>2, <1>6
<1>9. \A i \in 1..lo : p[(la + ls) + i] = Q!Block("result", o[i].id)
  BY <1>2, <1>6
<1>. HIDE DEF la, ls, lo
<1>10. \A i \in 1..Len(p) :
         \/ i \in 1..la /\ i = 1 /\ p[i].is = "text" /\ p[i].of = <<n, 0>>
         \/ \E k \in 1..ls : i = la + k /\ p[i].is = "call" /\ p[i].of = s[k].id
         \/ \E k \in 1..lo : i = (la + ls) + k /\ p[i].is = "result" /\ p[i].of = o[k].id
  <2>. TAKE i \in 1..Len(p)
  <2>0. \A kind, of : Q!Block(kind, of).is = kind /\ Q!Block(kind, of).of = of
    BY DEF Q!Block
  <2>1. i \in 1..la \/ i - la \in 1..ls \/ i - (la + ls) \in 1..lo
    BY <1>6
  <2>2. CASE i \in 1..la
    BY <1>7, <2>0, <2>2
  <2>3. CASE i - la \in 1..ls
    <3>. DEFINE k == i - la
    <3>1. k \in 1..ls /\ i = la + k
      BY <1>6, <2>3
    <3>. HIDE DEF k
    <3>. QED  BY <1>8, <2>0, <3>1
  <2>4. CASE i - (la + ls) \in 1..lo
    <3>. DEFINE k == i - (la + ls)
    <3>1. k \in 1..lo /\ i = (la + ls) + k
      BY <1>6, <2>4
    <3>. HIDE DEF k
    <3>. QED  BY <1>9, <2>0, <3>1
  <2>. QED  BY <2>1, <2>2, <2>3, <2>4
<1>11. ASSUME NEW i \in 1..Len(p), NEW j \in 1..Len(p), p[i] = p[j]  PROVE i = j
  <2>1. p[i].is = p[j].is /\ p[i].of = p[j].of
    BY <1>11
  <2>2. CASE p[i].is = "text"
    BY <1>10, <2>1, <2>2
  <2>3. CASE p[i].is = "call"
    <3>1. PICK k \in 1..ls : i = la + k /\ p[i].of = s[k].id
      BY <1>10, <2>3
    <3>2. PICK l \in 1..ls : j = la + l /\ p[j].of = s[l].id
      BY <1>10, <2>1, <2>3
    <3>. QED  BY <1>4, <2>1, <3>1, <3>2 DEF ls
  <2>4. CASE p[i].is = "result"
    <3>1. PICK k \in 1..lo : i = (la + ls) + k /\ p[i].of = o[k].id
      BY <1>10, <2>4
    <3>2. PICK l \in 1..lo : j = (la + ls) + l /\ p[j].of = o[l].id
      BY <1>10, <2>1, <2>4
    <3>. QED  BY <1>4, <2>1, <3>1, <3>2 DEF lo
  <2>. QED  BY <1>10, <2>2, <2>3, <2>4
<1>12. ASSUME NEW i \in 1..Len(p)  PROVE Home(h, n, p[i])
  <2>1. p[i].is = "call" => p[i].of \in {n} \X (Nat \ {0})
    BY <1>4, <1>10 DEF ls
  <2>2. p[i].is = "result" => p[i].of \in {n} \X Nat /\ p[i].of \notin Q!Answered(h)
    <3>. SUFFICES ASSUME p[i].is = "result"  PROVE p[i].of \in {n} \X Nat /\ p[i].of \notin Q!Answered(h)
      OBVIOUS
    <3>1. PICK k \in 1..lo : p[i].of = o[k].id
      BY <1>10
    <3>2. o[k].id \notin Q!Answered(h) /\ \E l \in 1..Len(s) : s[l] = o[k]
      BY <1>4 DEF lo
    <3>. QED  BY <1>4, <3>1, <3>2
  <2>3. p[i].is = "text" => p[i].of = <<n, 0>>
    BY <1>10
  <2>. QED  BY <2>1, <2>2, <2>3 DEF Home
<1>13. ASSUME NEW i \in 1..Len(p), NEW j \in 1..Len(p), i < j, p[i].is = "call"
       PROVE  p[j].is \in {"call", "result"}
  <2>1. i > la
    BY <1>6, <1>10, <1>13
  <2>2. j \notin 1..la
    BY <1>6, <1>13, <2>1
  <2>. QED  BY <1>10, <2>2
<1>14. ASSUME NEW i \in 1..Len(p), p[i].is = "call"
       PROVE  p[i].of \in Q!Answered(h) \/ \E j \in 1..Len(p) : i < j /\ p[j] = Q!Block("result", p[i].of)
  <2>1. PICK k \in 1..ls : i = la + k /\ p[i].of = s[k].id
    BY <1>10, <1>14
  <2>2. s[k].id \in Q!Answered(h) \/ \E l \in 1..lo : o[l] = s[k]
    BY <1>4 DEF ls, lo
  <2>3. \A l \in 1..lo : (la + ls) + l \in 1..Len(p) /\ i < (la + ls) + l
    BY <1>6, <2>1
  <2>. QED  BY <1>9, <2>1, <2>2, <2>3
<1>15. ASSUME NEW i \in 1..Len(p), p[i].is \in {"call", "result"}  PROVE p[i].of \in Q!ValidIDs(h)
  <2>1. CASE p[i].is = "call"
    BY <1>4, <1>10, <2>1 DEF ls
  <2>2. CASE p[i].is = "result"
    <3>1. PICK k \in 1..lo : p[i].of = o[k].id
      BY <1>10, <2>2
    <3>2. \E l \in 1..Len(s) : s[l] = o[k]
      BY <1>4 DEF lo
    <3>. QED  BY <1>4, <3>1, <3>2
  <2>. QED  BY <1>15, <2>1, <2>2
<1>16. ASSUME NEW k \in 1..Len(s)  PROVE \E i \in 1..Len(p) : p[i] = Q!Block("call", s[k].id)
  <2>1. la + k \in 1..Len(p) /\ k \in 1..ls
    BY <1>6 DEF ls
  <2>. QED  BY <1>8, <2>1
<1>. QED  BY <1>1, <1>11, <1>12, <1>13, <1>14, <1>15, <1>16 DEF Sound, Once, p, s

----------------------------------------------------------------------------
\* The whole request: the pieces one behind the other.
LaidOut(h, lists, off, all) ==
  /\ lists \in Seq(Seq(Items)) /\ all \in Seq(Items) /\ Len(lists) = Len(h)
  /\ \A n \in 1..Len(h) : Sound(h, n, lists[n])
  /\ Offsets(off, lists) /\ Stands(off, lists, all)

LEMMA ItemsLaidOut ==
  ASSUME NEW h, Conversed(h)
  PROVE  \E lists, off : LaidOut(h, lists, off, Each(Piece(h), h))
<1>. DEFINE lists == MapOf(Piece(h), h)
<1>1. h \in Seq(Entries)
  BY DEF Conversed
<1>2. lists \in Seq(Seq(Items)) /\ JoinedUp(lists) = Each(Piece(h), h)
  BY <1>1, PieceType, MapType DEF Each
<1>3. Len(lists) = Len(h) /\ \A n \in 1..Len(h) : lists[n] = Piece(h)[h[n]]
  BY <1>1, MapPlaces
<1>4. Each(Piece(h), h) \in Seq(Items)
  BY <1>1, PieceType, EachType
<1>5. \A n \in 1..Len(h) : Sound(h, n, lists[n])
  <2>. TAKE n \in 1..Len(h)
  <2>1. Sound(h, n, Piece(h)[h[n]])
    BY ToolPiece, SpeakerPiece
  <2>. QED  BY <1>3, <2>1
<1>. HIDE DEF lists
<1>6. \E off : Offsets(off, lists) /\ Stands(off, lists, JoinedUp(lists))
  BY <1>2, JoinedPlaces
<1>. QED  BY <1>2, <1>3, <1>4, <1>5, <1>6 DEF LaidOut

Covers(lists, off, all, N) ==
  \A i \in 1..Len(all) : \E n \in 1..N : \E k \in 1..Len(lists[n]) :
    i = off[n - 1] + k /\ all[i] = lists[n][k]

LEMMA Layout ==
  ASSUME NEW h, NEW lists, NEW off, NEW all, LaidOut(h, lists, off, all)
  PROVE  /\ \A n \in 1..Len(h) : /\ off[n - 1] \in Nat /\ off[n] \in Nat /\ Len(lists[n]) \in Nat
                                 /\ off[n] = off[n - 1] + Len(lists[n]) /\ n \in Nat
         /\ \A n \in 1..Len(h) : \A k \in 1..Len(lists[n]) :
              off[n - 1] + k \in 1..Len(all) /\ all[off[n - 1] + k] = lists[n][k]
         /\ Covers(lists, off, all, Len(h))
         /\ \A m, n \in 1..Len(h) : m < n => off[m] <= off[n - 1]
<1>. DEFINE N == Len(h)
<1>1. /\ lists \in Seq(Seq(Items)) /\ Len(lists) = N /\ N \in Nat /\ Len(all) \in Nat
      /\ Offsets(off, lists) /\ Stands(off, lists, all)
  BY DEF LaidOut
<1>2. \A n \in 1..N : lists[n] \in Seq(Items)
  BY <1>1
<1>3. \A m \in 0..N : \A n \in m..N : off[m] <= off[n]
  BY <1>1, OffsetsRise
<1>4. /\ off \in [0..N -> Nat] /\ \A n \in 1..N : off[n] = off[n - 1] + Len(lists[n])
      /\ Len(all) = off[N]
      /\ \A n \in 1..N : \A k \in 1..Len(lists[n]) : all[off[n - 1] + k] = lists[n][k]
      /\ \A i \in 1..Len(all) : \E n \in 1..N : i - off[n - 1] \in 1..Len(lists[n])
  BY <1>1 DEF Offsets, Stands
<1>. HIDE DEF N
<1>5. \A n \in 1..N : /\ off[n - 1] \in Nat /\ off[n] \in Nat /\ Len(lists[n]) \in Nat
                      /\ off[n] = off[n - 1] + Len(lists[n]) /\ n \in Nat
  <2>. TAKE n \in 1..N
  <2>1. n - 1 \in 0..N /\ n \in 0..N /\ n \in Nat
    BY <1>1
  <2>2. Len(lists[n]) \in Nat
    BY <1>2
  <2>. QED  BY <1>4, <2>1, <2>2
<1>6. ASSUME NEW n \in 1..N, NEW k \in 1..Len(lists[n])
      PROVE  off[n - 1] + k \in 1..Len(all) /\ all[off[n - 1] + k] = lists[n][k]
  <2>1. off[n] <= off[N]
    BY <1>1, <1>3
  <2>2. off[n - 1] + k \in 1..Len(all)
    <3>1. /\ off[n - 1] \in Nat /\ Len(lists[n]) \in Nat
          /\ off[n] = off[n - 1] + Len(lists[n])
      BY <1>5
    <3>2. k \in Nat /\ 1 <= k /\ k <= Len(lists[n])
      BY <3>1
    <3>3. off[n - 1] + k <= Len(all)
      BY <1>1, <1>4, <2>1, <3>1, <3>2
    <3>. QED  BY <1>1, <3>1, <3>2, <3>3
  <2>. QED  BY <1>4, <2>2
<1>7. ASSUME NEW i \in 1..Len(all)
      PROVE  \E n \in 1..N : \E k \in 1..Len(lists[n]) : i = off[n - 1] + k /\ all[i] = lists[n][k]
  <2>1. PICK n \in 1..N : i - off[n - 1] \in 1..Len(lists[n])
    BY <1>4
  <2>2. off[n - 1] \in Nat
    BY <1>5
  <2>3. PICK k \in 1..Len(lists[n]) : k = i - off[n - 1]
    BY <2>1
  <2>4. i = off[n - 1] + k
    BY <1>1, <2>2, <2>3
  <2>5. all[off[n - 1] + k] = lists[n][k]
    BY <1>6
  <2>. QED  BY <2>4, <2>5
<1>8. ASSUME NEW m \in 1..N, NEW n \in 1..N, m < n  PROVE off[m] <= off[n - 1]
  <2>1. m \in 0..N /\ n - 1 \in m..N
    BY <1>1, <1>8
  <2>. QED  BY <1>3, <2>1
<1>. QED  BY <1>5, <1>6, <1>7, <1>8 DEF N, Covers

LEMMA OneHome ==
  ASSUME NEW h, Conversed(h), NEW m \in 1..Len(h), NEW n \in 1..Len(h),
         NEW b \in Items, Home(h, m, b), Home(h, n, b)
  PROVE  m = n
<1>1. b.is \in {"text", "call", "result"}
  BY DEF Items, Q!BlocksOf
<1>2. \A k \in 1..Len(h) : h[k].answers \in Q!Answered(h)
  <2>1. DOMAIN h = 1..Len(h)
    BY DEF Conversed
  <2>. QED  BY <2>1 DEF Q!Answered
<1>3. CASE b.is \in {"text", "call"}
  BY <1>3 DEF Home
<1>4. CASE b.is = "result"
  <2>1. CASE h[m].role # "tool" /\ h[n].role # "tool"
    BY <1>4, <2>1 DEF Home
  <2>2. CASE h[m].role = "tool" /\ h[n].role = "tool"
    <3>1. b.of = h[m].answers /\ b.of = h[n].answers
      BY <1>4, <2>2 DEF Home
    <3>2. PICK c \in 1..(m - 1) : h[m].answers = <<c, m - c>>
      BY <2>2 DEF Conversed, Tells, Replies
    <3>3. PICK d \in 1..(n - 1) : h[n].answers = <<d, n - d>>
      BY <2>2 DEF Conversed, Tells, Replies
    <3>4. <<c, m - c>> = <<d, n - d>>
      BY <3>1, <3>2, <3>3
    <3>5. m \in Nat /\ n \in Nat /\ c \in Nat /\ d \in Nat
      BY DEF Conversed
    <3>. QED  BY <3>4, <3>5
  <2>3. CASE h[m].role = "tool" /\ h[n].role # "tool"
    BY <1>2, <1>4, <2>3 DEF Home
  <2>4. CASE h[m].role # "tool" /\ h[n].role = "tool"
    BY <1>2, <1>4, <2>4 DEF Home
  <2>. QED  BY <2>1, <2>2, <2>3, <2>4
<1>. QED  BY <1>1, <1>3, <1>4

LEMMA AllOnce ==
  ASSUME NEW h, Conversed(h), NEW lists, NEW off, NEW all, LaidOut(h, lists, off, all)
  PROVE  Once(all)
<1>. SUFFICES ASSUME NEW i \in 1..Len(all), NEW j \in 1..Len(all), all[i] = all[j]
              PROVE  i = j
  BY DEF Once
<1>0. \A e \in 1..Len(all) : \E n \in 1..Len(h) : \E k \in 1..Len(lists[n]) :
        e = off[n - 1] + k /\ all[e] = lists[n][k]
  <2>1. Covers(lists, off, all, Len(h))
    BY Layout
  <2>. QED  BY <2>1 DEF Covers
<1>1. PICK m \in 1..Len(h) : \E k \in 1..Len(lists[m]) : i = off[m - 1] + k /\ all[i] = lists[m][k]
  BY <1>0
<1>2. PICK k \in 1..Len(lists[m]) : i = off[m - 1] + k /\ all[i] = lists[m][k]
  BY <1>1
<1>3. PICK n \in 1..Len(h) : \E l \in 1..Len(lists[n]) : j = off[n - 1] + l /\ all[j] = lists[n][l]
  BY <1>0
<1>4. PICK l \in 1..Len(lists[n]) : j = off[n - 1] + l /\ all[j] = lists[n][l]
  BY <1>3
<1>5. Sound(h, m, lists[m]) /\ Sound(h, n, lists[n]) /\ all[i] \in Items
  BY DEF LaidOut
<1>6. Home(h, m, lists[m][k]) /\ Home(h, n, lists[n][l])
  BY <1>5 DEF Sound
<1>7. m = n
  <2>1. lists[m][k] = all[i] /\ lists[n][l] = all[i]
    BY <1>2, <1>4
  <2>. QED  BY <1>5, <1>6, <2>1, OneHome
<1>8. lists[n][k] = lists[n][l] /\ k \in 1..Len(lists[n])
  BY <1>2, <1>4, <1>7
<1>9. k = l
  BY <1>4, <1>5, <1>8 DEF Sound, Once
<1>. QED  BY <1>2, <1>4, <1>7, <1>9

\* Each call has its result behind it, and nothing said in between.
Pairs(all) ==
  \A i \in 1..Len(all) : all[i].is = "call" =>
    \E j \in (i + 1)..Len(all) :
      /\ all[j].is = "result" /\ all[j].of = all[i].of
      /\ \A k \in (i + 1)..(j - 1) : all[k].is \in {"call", "result"}

LEMMA AllPaired ==
  ASSUME NEW h, Conversed(h), NEW lists, NEW off, NEW all, LaidOut(h, lists, off, all)
  PROVE  Pairs(all)
<1>. SUFFICES ASSUME NEW i \in 1..Len(all), all[i].is = "call"
              PROVE  \E j \in (i + 1)..Len(all) :
                       /\ all[j].is = "result" /\ all[j].of = all[i].of
                       /\ \A k \in (i + 1)..(j - 1) : all[k].is \in {"call", "result"}
  BY DEF Pairs
<1>g. Covers(lists, off, all, Len(h))
  BY Layout
<1>1. PICK n \in 1..Len(h) : \E k \in 1..Len(lists[n]) : i = off[n - 1] + k /\ all[i] = lists[n][k]
  BY <1>g DEF Covers
<1>a. \A m \in 1..Len(h) : /\ off[m - 1] \in Nat /\ off[m] \in Nat /\ Len(lists[m]) \in Nat
                           /\ off[m] = off[m - 1] + Len(lists[m]) /\ m \in Nat
  BY Layout
<1>b. \A m \in 1..Len(h) : \A k \in 1..Len(lists[m]) :
        off[m - 1] + k \in 1..Len(all) /\ all[off[m - 1] + k] = lists[m][k]
  BY Layout
<1>d. \A k, m \in 1..Len(h) : k < m => off[k] <= off[m - 1]
  BY Layout
<1>2. PICK c \in 1..Len(lists[n]) : i = off[n - 1] + c /\ all[i] = lists[n][c]
  BY <1>1
<1>. DEFINE p == lists[n]
<1>3. Sound(h, n, p)
  BY DEF LaidOut
<1>e. off[n - 1] \in Nat /\ off[n] = off[n - 1] + Len(p) /\ Len(p) \in Nat /\ n \in Nat /\ c \in Nat
  BY <1>a
<1>4. \A l \in 1..Len(p) : c < l => p[l].is \in {"call", "result"}
  BY <1>2, <1>3 DEF Sound
<1>5. all[i].of \in {n} \X (Nat \ {0})
  <2>1. Home(h, n, p[c])
    BY <1>3 DEF Sound
  <2>. QED  BY <1>2, <2>1 DEF Home
<1>6. \A kind, of : Q!Block(kind, of).is = kind /\ Q!Block(kind, of).of = of
  BY DEF Q!Block
<1>7. CASE \E l \in 1..Len(p) : c < l /\ p[l] = Q!Block("result", all[i].of)
  <2>1. PICK l \in 1..Len(p) : c < l /\ p[l] = Q!Block("result", all[i].of)
    BY <1>7
  <2>. DEFINE j == off[n - 1] + l
  <2>2. j \in 1..Len(all) /\ all[j] = p[l]
    BY <1>b
  <2>3. j \in (i + 1)..Len(all) /\ l \in Nat
    BY <1>2, <1>e, <2>1, <2>2
  <2>4. ASSUME NEW k \in (i + 1)..(j - 1)  PROVE all[k].is \in {"call", "result"}
    <3>. DEFINE e == k - off[n - 1]
    <3>1. e \in 1..Len(p) /\ c < e /\ k = off[n - 1] + e
      <4>1. PICK x \in Nat : x = off[n - 1]
        BY <1>e
      <4>2. k \in (x + c + 1)..(x + l - 1) /\ c \in Nat /\ l \in Nat /\ l <= Len(p) /\ Len(p) \in Nat
        <5>1. i = x + c /\ j = x + l
          BY <1>2, <4>1
        <5>2. k \in (i + 1)..(j - 1)
          OBVIOUS
        <5>. HIDE DEF j
        <5>3. k \in (x + c + 1)..(x + l - 1)
          BY <5>1, <5>2
        <5>. QED  BY <1>e, <2>3, <5>3
      <4>3. k - x \in 1..Len(p) /\ c < k - x /\ k = x + (k - x)
        BY <4>2
      <4>. QED  BY <4>1, <4>3
    <3>. HIDE DEF e
    <3>2. all[k] = p[e]
      BY <1>b, <3>1
    <3>. QED  BY <1>4, <3>1, <3>2
  <2>5. all[j].is = "result" /\ all[j].of = all[i].of
    BY <1>6, <2>1, <2>2
  <2>. QED  BY <2>3, <2>4, <2>5
<1>8. CASE all[i].of \in Q!Answered(h)
  <2>1. PICK q \in 1..Len(h) : h[q].answers = all[i].of
    <3>1. DOMAIN h = 1..Len(h)
      BY DEF Conversed
    <3>. QED  BY <1>8, <3>1 DEF Q!Answered
  <2>2. h[q].role = "tool"
    <3>1. Tells(h, q)
      BY DEF Conversed
    <3>2. all[i].of # Q!NoCall
      BY <1>5 DEF Q!NoCall
    <3>. QED  BY <2>1, <3>1, <3>2 DEF Tells
  <2>3. /\ n \in 1..(q - 1) /\ \A k \in (n + 1)..q : h[k].role = "tool"
    <3>1. PICK d \in 1..(q - 1) : Replies(h, d, q)
      BY <2>2 DEF Conversed, Tells
    <3>2. d = n
      BY <1>5, <2>1, <3>1 DEF Replies
    <3>. QED  BY <3>1, <3>2 DEF Replies
  <2>4. all[i].of \in Q!ValidIDs(h)
    BY <1>2, <1>3 DEF Sound
  <2>5. lists[q] = <<Q!Block("result", all[i].of)>>
    BY <2>1, <2>2, <2>4 DEF LaidOut, Sound
  <2>6. 1 \in 1..Len(lists[q]) /\ lists[q][1] = Q!Block("result", all[i].of)
    BY <2>5
  <2>. DEFINE j == off[q - 1] + 1
  <2>7. j \in 1..Len(all) /\ all[j] = lists[q][1] /\ off[q - 1] \in Nat /\ off[q] = j /\ q \in Nat
    <3>1. Len(lists[q]) = 1
      BY <2>5
    <3>. QED  BY <1>a, <1>b, <2>6, <3>1
  <2>8. off[n] <= off[q - 1]
    <3>1. n < q
      BY <1>e, <2>3, <2>7
    <3>. QED  BY <1>d, <3>1
  <2>. HIDE DEF j, p
  <2>9. i < j /\ j \in Nat /\ i \in Nat
    <3>1. i <= off[n]
      BY <1>2, <1>e DEF p
    <3>2. off[n] \in Nat
      BY <1>a
    <3>3. i \in Nat /\ j = off[q - 1] + 1
      BY <1>2, <1>e DEF j
    <3>. QED  BY <2>7, <2>8, <3>1, <3>2, <3>3
  <2>11. j \in (i + 1)..Len(all)
    BY <2>7, <2>9
  <2>12. ASSUME NEW k \in (i + 1)..(j - 1)  PROVE all[k].is \in {"call", "result"}
    <3>1. k \in 1..Len(all) /\ i < k /\ k < j /\ k \in Nat
      BY <2>7, <2>9
    <3>2. PICK m \in 1..Len(h) : \E e \in 1..Len(lists[m]) : k = off[m - 1] + e /\ all[k] = lists[m][e]
      BY <1>g, <3>1 DEF Covers
    <3>3. PICK e \in 1..Len(lists[m]) : k = off[m - 1] + e /\ all[k] = lists[m][e]
      BY <3>2
    <3>4. /\ off[m] = off[m - 1] + Len(lists[m]) /\ Len(lists[m]) \in Nat /\ m \in Nat
          /\ off[m] \in Nat /\ off[m - 1] \in Nat /\ e \in Nat /\ 1 <= e /\ e <= Len(lists[m])
      BY <1>a
    <3>5. Sound(h, m, lists[m])
      BY DEF LaidOut
    <3>6. ~(m < n)
      <4>. SUFFICES ASSUME m < n  PROVE FALSE
        OBVIOUS
      <4>1. off[m] <= off[n - 1]
        BY <1>d
      <4>2. off[n - 1] <= i
        BY <1>2, <1>e
      <4>3. k <= off[m]
        <5>1. k = off[m - 1] + e
          BY <3>3
        <5>2. \A x, y, z, w \in Nat : w = x + z /\ y <= z => x + y <= w
          OBVIOUS
        <5>3. off[m - 1] + e <= off[m]
          BY <3>4, <5>2
        <5>. QED  BY <5>1, <5>3
      <4>. QED  BY <1>e, <2>9, <3>1, <3>4, <4>1, <4>2, <4>3
    <3>7. ~(q < m)
      <4>. SUFFICES ASSUME q < m  PROVE FALSE
        OBVIOUS
      <4>1. off[q] <= off[m - 1]
        BY <1>d
      <4>. QED  BY <2>7, <2>9, <3>1, <3>3, <3>4, <4>1
    <3>8. CASE m = n
      <4>1. c < e
        <5>1. i = off[m - 1] + c /\ k = off[m - 1] + e
          BY <1>2, <3>3, <3>8
        <5>2. \A x, y, z \in Nat : x + y < x + z => y < z
          OBVIOUS
        <5>3. off[m - 1] + c < off[m - 1] + e
          BY <3>1, <5>1
        <5>. QED  BY <1>e, <3>4, <5>2, <5>3
      <4>. QED  BY <1>4, <3>3, <3>8, <4>1 DEF p
    <3>9. CASE m \in (n + 1)..q
      <4>1. Home(h, m, lists[m][e]) /\ h[m].role = "tool"
        BY <2>3, <3>5, <3>9 DEF Sound
      <4>. QED  BY <3>3, <4>1 DEF Home
    <3>. QED  BY <1>e, <2>7, <3>4, <3>6, <3>7, <3>8, <3>9
  <2>13. all[j].is = "result" /\ all[j].of = all[i].of
    BY <1>6, <2>6, <2>7
  <2>. QED  BY <2>11, <2>12, <2>13
<1>. QED  BY <1>2, <1>3, <1>7, <1>8 DEF Sound

LEMMA ResultsAsked ==
  ASSUME NEW h, Conversed(h), NEW lists, NEW off, NEW all, LaidOut(h, lists, off, all),
         NEW i \in 1..Len(all), all[i].is = "result"
  PROVE  \E k \in 1..Len(all) : all[k].is = "call" /\ all[k].of = all[i].of
<1>1. Covers(lists, off, all, Len(h))
  BY Layout
<1>2. PICK n \in 1..Len(h) : \E k \in 1..Len(lists[n]) : all[i] = lists[n][k]
  BY <1>1 DEF Covers
<1>3. all[i].of \in Q!ValidIDs(h)
  <2>1. Sound(h, n, lists[n])
    BY DEF LaidOut
  <2>. QED  BY <1>2, <2>1 DEF Sound
<1>4. PICK m \in 1..Len(h) : \E c \in Q!Range(Q!FilteredCalls(h[m])) : c.id = all[i].of
  <2>1. DOMAIN h = 1..Len(h)
    BY DEF Conversed
  <2>. QED  BY <1>3, <2>1 DEF Q!ValidIDs
<1>5. PICK k \in 1..Len(Q!FilteredCalls(h[m])) : Q!FilteredCalls(h[m])[k].id = all[i].of
  <2>1. h[m] \in Entries
    BY DEF Conversed
  <2>2. Q!FilteredCalls(h[m]) \in Seq(Q!Call)
    BY <2>1, WholeCalls
  <2>. QED  BY <1>4, <2>2 DEF Q!Range
<1>6. PICK e \in 1..Len(lists[m]) : lists[m][e] = Q!Block("call", all[i].of)
  <2>1. Sound(h, m, lists[m])
    BY DEF LaidOut
  <2>. QED  BY <1>5, <2>1 DEF Sound
<1>7. off[m - 1] + e \in 1..Len(all) /\ all[off[m - 1] + e] = lists[m][e]
  BY Layout
<1>8. \A kind, of : Q!Block(kind, of).is = kind /\ Q!Block(kind, of).of = of
  BY DEF Q!Block
<1>. QED  BY <1>6, <1>7, <1>8

\* As many results as calls.
LEMMA SameCount ==
  ASSUME NEW all \in Seq(Items), Once(all), Pairs(all),
         \A i \in 1..Len(all) : all[i].is = "result" =>
           \E k \in 1..Len(all) : all[k].is = "call" /\ all[k].of = all[i].of
  PROVE  Len(Only(all, Q!BlocksOf({"result"}))) = Len(Only(all, Q!BlocksOf({"call"})))
<1>. DEFINE asked == Only(all, Q!BlocksOf({"call"}))
            given == Only(all, Q!BlocksOf({"result"}))
            a == MapOf(Id, given)
            b == MapOf(Id, asked)
<1>1. \A x \in Items : /\ Id[x] = x.of /\ x = Q!Block(x.is, x.of)
                       /\ x \in Q!BlocksOf({"call"}) <=> x.is = "call"
                       /\ x \in Q!BlocksOf({"result"}) <=> x.is = "result"
  BY DEF Id, Items, Q!BlocksOf, Q!Block
<1>2. Maps(Id, Items, Nat \X Nat)
  BY DEF Maps, Id, Items, Q!BlocksOf
<1>3. asked \in Seq(Items) /\ given \in Seq(Items)
  BY OnlyType
<1>4. /\ \A i, j \in 1..Len(asked) : asked[i] = asked[j] => i = j
      /\ \A i, j \in 1..Len(given) : given[i] = given[j] => i = j
  <2>1. \A i, j \in 1..Len(all) : all[i] = all[j] => i = j
    BY DEF Once
  <2>. QED  BY <2>1, OnlyDistinct
<1>5. /\ \A i \in 1..Len(asked) : asked[i] \in Q!BlocksOf({"call"}) /\ \E k \in 1..Len(all) : all[k] = asked[i]
      /\ \A k \in 1..Len(all) : all[k] \in Q!BlocksOf({"call"}) => \E i \in 1..Len(asked) : asked[i] = all[k]
  BY OnlyMembers
<1>6. /\ \A i \in 1..Len(given) : given[i] \in Q!BlocksOf({"result"}) /\ \E k \in 1..Len(all) : all[k] = given[i]
      /\ \A k \in 1..Len(all) : all[k] \in Q!BlocksOf({"result"}) => \E i \in 1..Len(given) : given[i] = all[k]
  BY OnlyMembers
<1>. HIDE DEF asked, given
<1>7. /\ a \in Seq(Nat \X Nat) /\ Len(a) = Len(given) /\ \A i \in 1..Len(given) : a[i] = Id[given[i]]
      /\ b \in Seq(Nat \X Nat) /\ Len(b) = Len(asked) /\ \A i \in 1..Len(asked) : b[i] = Id[asked[i]]
  BY <1>2, <1>3, MapType, MapPlaces
<1>. HIDE DEF a, b
<1>8. \A k \in 1..Len(all) : all[k] \in Items
  OBVIOUS
<1>9. /\ \A i \in 1..Len(a) : given[i] \in Items /\ a[i] = given[i].of /\ given[i].is = "result"
      /\ \A i \in 1..Len(b) : asked[i] \in Items /\ b[i] = asked[i].of /\ asked[i].is = "call"
  <2>1. \A i \in 1..Len(given) : given[i] \in Items /\ given[i].is = "result" /\ Id[given[i]] = given[i].of
    <3>1. \A i \in 1..Len(given) : given[i] \in Items
      BY <1>3
    <3>. QED  BY <1>1, <1>6, <3>1
  <2>2. \A i \in 1..Len(asked) : asked[i] \in Items /\ asked[i].is = "call" /\ Id[asked[i]] = asked[i].of
    <3>1. \A i \in 1..Len(asked) : asked[i] \in Items
      BY <1>3
    <3>. QED  BY <1>1, <1>5, <3>1
  <2>. QED  BY <1>7, <2>1, <2>2
<1>10. \A i, j \in 1..Len(a) : a[i] = a[j] => i = j
  <2>. TAKE i, j \in 1..Len(a)
  <2>. HAVE a[i] = a[j]
  <2>1. given[i] = Q!Block("result", a[i]) /\ given[j] = Q!Block("result", a[j])
    BY <1>1, <1>9
  <2>. QED  BY <1>4, <1>7, <2>1
<1>11. \A i, j \in 1..Len(b) : b[i] = b[j] => i = j
  <2>. TAKE i, j \in 1..Len(b)
  <2>. HAVE b[i] = b[j]
  <2>1. asked[i] = Q!Block("call", b[i]) /\ asked[j] = Q!Block("call", b[j])
    BY <1>1, <1>9
  <2>. QED  BY <1>4, <1>7, <2>1
<1>12. \A i \in 1..Len(a) : \E j \in 1..Len(b) : b[j] = a[i]
  <2>. TAKE i \in 1..Len(a)
  <2>1. PICK k \in 1..Len(all) : all[k] = given[i]
    BY <1>6, <1>7
  <2>2. PICK l \in 1..Len(all) : all[l].is = "call" /\ all[l].of = a[i]
    BY <1>9, <2>1
  <2>3. PICK j \in 1..Len(asked) : asked[j] = all[l]
    BY <1>1, <1>5, <1>8, <2>2
  <2>4. j \in 1..Len(b)
    BY <1>7
  <2>5. b[j] = a[i]
    BY <1>9, <2>2, <2>3, <2>4
  <2>. QED  BY <2>4, <2>5
<1>13. \A j \in 1..Len(b) : \E i \in 1..Len(a) : a[i] = b[j]
  <2>. TAKE j \in 1..Len(b)
  <2>1. PICK k \in 1..Len(all) : all[k] = asked[j]
    BY <1>5, <1>7
  <2>2. PICK l \in (k + 1)..Len(all) : all[l].is = "result" /\ all[l].of = b[j]
    BY <1>9, <2>1 DEF Pairs
  <2>3. l \in 1..Len(all)
    OBVIOUS
  <2>4. PICK i \in 1..Len(given) : given[i] = all[l]
    BY <1>1, <1>6, <1>8, <2>2, <2>3
  <2>5. i \in 1..Len(a)
    BY <1>7
  <2>6. a[i] = b[j]
    BY <1>9, <2>2, <2>4, <2>5
  <2>. QED  BY <2>5, <2>6
<1>14. Len(a) = Len(b)
  <2>1. a \in Seq(Nat \X Nat) /\ b \in Seq(Nat \X Nat)
    BY <1>7
  <2>. QED  BY <1>10, <1>11, <1>12, <1>13, <2>1, SameLength
<1>. QED  BY <1>7, <1>14 DEF asked, given

----------------------------------------------------------------------------
\* Without their ids, the results are as many and stand where they stood.
LEMMA StripKeeps ==
  ASSUME NEW all \in Seq(Items)
  PROVE  /\ Only(MapOf(Strip, all), Q!BlocksOf({"text"})) = Only(all, Q!BlocksOf({"text"}))
         /\ Only(MapOf(Strip, all), Q!BlocksOf({"call"})) = Only(all, Q!BlocksOf({"call"}))
         /\ Len(Only(MapOf(Strip, all), Q!BlocksOf({"result"}))) = Len(Only(all, Q!BlocksOf({"result"})))
         /\ MapOf(Strip, all) \in Seq(Items)
<1>1. \A x \in Items : /\ Strip[x] \in Items /\ Strip[x].is = x.is
                       /\ x.is # "result" => Strip[x] = x
  <2>1. \A x \in Items : Strip[x] \in Items
    BY StripType DEF Maps
  <2>2. Q!Block("result", Q!NoCall).is = "result"
    BY DEF Q!Block
  <2>. QED  BY <2>1, <2>2 DEF Strip
<1>2. \A kind \in {"text", "call", "result"} : \A x \in Items : x \in Q!BlocksOf({kind}) <=> x.is = kind
  BY DEF Items, Q!BlocksOf
<1>3. ASSUME NEW kind \in {"text", "call", "result"}
      PROVE  /\ Only(MapOf(Strip, all), Q!BlocksOf({kind})) = MapOf(Strip, Only(all, Q!BlocksOf({kind})))
             /\ Len(MapOf(Strip, Only(all, Q!BlocksOf({kind})))) = Len(Only(all, Q!BlocksOf({kind})))
             /\ kind # "result" => MapOf(Strip, Only(all, Q!BlocksOf({kind}))) = Only(all, Q!BlocksOf({kind}))
  <2>. DEFINE keep == Q!BlocksOf({kind})
              s == Only(all, keep)
              t == MapOf(Strip, s)
  <2>1. \A x \in Items : Strip[x] \in keep <=> x \in keep
    BY <1>1, <1>2
  <2>2. \A x \in Items : x \in keep <=> x.is = kind
    BY <1>2
  <2>. HIDE DEF keep
  <2>3. Only(MapOf(Strip, all), keep) = MapOf(Strip, Only(all, keep))
    BY <2>1, StripType, OnlyOfMap
  <2>4. s \in Seq(Items)
    BY OnlyType
  <2>5. \A i \in 1..Len(s) : s[i] \in keep
    BY OnlyMembers
  <2>. HIDE DEF s
  <2>6. t \in Seq(Items) /\ Len(t) = Len(s) /\ \A i \in 1..Len(s) : t[i] = Strip[s[i]]
    BY <2>4, StripType, MapType, MapPlaces
  <2>. HIDE DEF t
  <2>7. kind # "result" => t = s
    <3>. HAVE kind # "result"
    <3>1. \A i \in 1..Len(s) : s[i] \in Items
      BY <2>4
    <3>2. \A i \in 1..Len(s) : t[i] = s[i]
      BY <1>1, <2>2, <2>5, <2>6, <3>1
    <3>. QED  BY <2>4, <2>6, <3>2
  <2>. QED  BY <2>3, <2>6, <2>7 DEF s, t, keep
<1>4. MapOf(Strip, all) \in Seq(Items)
  BY StripType, MapType
<1>. QED  BY <1>3, <1>4

LEMMA PairedShown ==
  ASSUME NEW all \in Seq(Items), Once(all), Pairs(all)
  PROVE  Q!Paired(all) /\ Q!Paired(MapOf(Strip, all))
<1>. DEFINE bare == MapOf(Strip, all)
<1>1. /\ bare \in Seq(Items) /\ Len(bare) = Len(all) /\ \A i \in 1..Len(all) : bare[i] = Strip[all[i]]
      /\ DOMAIN all = 1..Len(all) /\ DOMAIN bare = 1..Len(bare)
  BY StripType, MapType, MapPlaces
<1>. HIDE DEF bare
<1>2. \A i \in 1..Len(all) : /\ bare[i].is = all[i].is
                             /\ all[i].is = "result" => bare[i].of = Q!NoCall
  <2>1. Q!Block("result", Q!NoCall).is = "result" /\ Q!Block("result", Q!NoCall).of = Q!NoCall
    BY DEF Q!Block
  <2>2. \A x \in Items : Strip[x].is = x.is /\ (x.is = "result" => Strip[x].of = Q!NoCall)
    BY <2>1 DEF Strip
  <2>3. \A i \in 1..Len(all) : all[i] \in Items
    OBVIOUS
  <2>. QED  BY <1>1, <2>2, <2>3
<1>3. ASSUME NEW i \in 1..Len(all), all[i].is = "call"
      PROVE  \E j \in (i + 1)..Len(all) :
               /\ all[j].is = "result" /\ all[j].of = all[i].of /\ j \in 1..Len(all)
               /\ \A k \in (i + 1)..(j - 1) : k \in 1..Len(all) /\ all[k].is \in {"call", "result"}
  <2>1. PICK j \in (i + 1)..Len(all) :
               /\ all[j].is = "result" /\ all[j].of = all[i].of
               /\ \A k \in (i + 1)..(j - 1) : all[k].is \in {"call", "result"}
    BY <1>3 DEF Pairs
  <2>2. j \in 1..Len(all) /\ \A k \in (i + 1)..(j - 1) : k \in 1..Len(all)
    OBVIOUS
  <2>. QED  BY <2>1, <2>2
<1>4. Q!Paired(all)
  <2>. SUFFICES ASSUME NEW i \in 1..Len(all), all[i].is = "call"
                PROVE  \E j \in (i + 1)..Len(all) :
                         /\ all[j].is = "result" /\ all[j].of \in {all[i].of, Q!NoCall}
                         /\ \A k \in (i + 1)..(j - 1) : all[k].is \in {"call", "result"}
                         /\ \A k \in DOMAIN all \ {j} : all[k] = all[j] => all[j].of = Q!NoCall
    BY <1>1 DEF Q!Paired
  <2>1. PICK j \in (i + 1)..Len(all) :
               /\ all[j].is = "result" /\ all[j].of = all[i].of /\ j \in 1..Len(all)
               /\ \A k \in (i + 1)..(j - 1) : k \in 1..Len(all) /\ all[k].is \in {"call", "result"}
    BY <1>3
  <2>2. \A k \in DOMAIN all \ {j} : all[k] # all[j]
    BY <1>1, <2>1 DEF Once
  <2>. QED  BY <2>1, <2>2
<1>5. Q!Paired(bare)
  <2>. SUFFICES ASSUME NEW i \in 1..Len(all), bare[i].is = "call"
                PROVE  \E j \in (i + 1)..Len(bare) :
                         /\ bare[j].is = "result" /\ bare[j].of \in {bare[i].of, Q!NoCall}
                         /\ \A k \in (i + 1)..(j - 1) : bare[k].is \in {"call", "result"}
                         /\ \A k \in DOMAIN bare \ {j} : bare[k] = bare[j] => bare[j].of = Q!NoCall
    BY <1>1 DEF Q!Paired
  <2>1. PICK j \in (i + 1)..Len(all) :
               /\ all[j].is = "result" /\ all[j].of = all[i].of /\ j \in 1..Len(all)
               /\ \A k \in (i + 1)..(j - 1) : k \in 1..Len(all) /\ all[k].is \in {"call", "result"}
    BY <1>2, <1>3
  <2>2. bare[j].is = "result" /\ bare[j].of = Q!NoCall
    BY <1>2, <2>1
  <2>3. \A k \in (i + 1)..(j - 1) : bare[k].is \in {"call", "result"}
    BY <1>2, <2>1
  <2>. QED  BY <1>1, <2>2, <2>3
<1>. QED  BY <1>4, <1>5 DEF bare

----------------------------------------------------------------------------
\* So each of the four requests is the conversation.
LEMMA OneConversation ==
  ASSUME NEW h, Conversed(h), NEW r, NEW all, all = Each(Piece(h), h),
         Q!Flat(r) \in {all, MapOf(Strip, all)}, Full(r), r.system = Q!Texts(Q!Systems(h))
  PROVE  LET items == Q!Flat(r)
             whole == Q!FlattenSeq([i \in DOMAIN h |-> Q!FilteredCalls(h[i])])
         IN  /\ r.system = Q!Texts(Q!Systems(h))
             /\ [i \in DOMAIN Q!Of(items, "text") |-> Q!Of(items, "text")[i].of[1]]
                  = Q!Texts(Q!Only(Q!Others(h), Said))
             /\ [i \in DOMAIN Q!Of(items, "call") |-> Q!Of(items, "call")[i].of]
                  = [i \in DOMAIN whole |-> whole[i].id]
             /\ Q!Paired(items)
             /\ Len(Q!Of(items, "result")) = Len(whole)
             /\ \A i \in DOMAIN r.messages : r.messages[i].blocks # <<>>
<1>. DEFINE items == Q!Flat(r)
            whole == Q!FlattenSeq([i \in DOMAIN h |-> Q!FilteredCalls(h[i])])
            words == Only(all, Q!BlocksOf({"text"}))
            asked == Only(all, Q!BlocksOf({"call"}))
            given == Only(all, Q!BlocksOf({"result"}))
<1>1. PICK lists, off : LaidOut(h, lists, off, all)
  BY ItemsLaidOut
<1>2. all \in Seq(Items) /\ Once(all) /\ Pairs(all)
  BY <1>1, AllOnce, AllPaired DEF LaidOut
<1>3. \A i \in 1..Len(all) : all[i].is = "result" =>
        \E k \in 1..Len(all) : all[k].is = "call" /\ all[k].of = all[i].of
  BY <1>1, ResultsAsked
<1>4. Q!Of(items, "text") = words /\ Q!Of(items, "call") = asked /\ Len(Q!Of(items, "result")) = Len(given)
  <2>1. \A kind : Q!Of(items, kind) = Only(items, Q!BlocksOf({kind}))
    BY OnlyIsOurs DEF Q!Of
  <2>2. items = all \/ items = MapOf(Strip, all)
    OBVIOUS
  <2>. HIDE DEF items
  <2>. QED  BY <1>2, <2>1, <2>2, StripKeeps
<1>5. Q!Paired(items)
  BY <1>2, PairedShown
<1>6. words \in Seq(Items) /\ asked \in Seq(Items)
  BY <1>2, OnlyType
<1>7. MapOf(First, words) = Q!Texts(Q!Only(Q!Others(h), Said))
  BY TextsSent
<1>8. MapOf(Id, asked) = MapOf(IdOf, whole) /\ whole \in Seq(Q!Call)
  BY CallsSent
<1>9. Len(given) = Len(asked)
  BY <1>2, <1>3, SameCount
<1>. HIDE DEF items, whole, words, asked, given
<1>10. [i \in DOMAIN words |-> words[i].of[1]] = MapOf(First, words)
  <2>1. DOMAIN words = 1..Len(words) /\ \A i \in 1..Len(words) : words[i] \in Items
    BY <1>6
  <2>. QED  BY <2>1 DEF MapOf, First
<1>11. [i \in DOMAIN asked |-> asked[i].of] = MapOf(Id, asked)
  <2>1. DOMAIN asked = 1..Len(asked) /\ \A i \in 1..Len(asked) : asked[i] \in Items
    BY <1>6
  <2>. QED  BY <2>1 DEF MapOf, Id
<1>12. [i \in DOMAIN whole |-> whole[i].id] = MapOf(IdOf, whole)
  <2>1. DOMAIN whole = 1..Len(whole) /\ \A i \in 1..Len(whole) : whole[i] \in Q!Call
    BY <1>8
  <2>. QED  BY <2>1 DEF MapOf, IdOf
<1>13. Len(asked) = Len(whole)
  <2>1. Len(MapOf(Id, asked)) = Len(asked) /\ Len(MapOf(IdOf, whole)) = Len(whole)
    BY <1>6, <1>8, MapPlaces
  <2>. QED  BY <1>8, <2>1
<1>14. \A i \in DOMAIN r.messages : r.messages[i].blocks # <<>>
  BY DEF Full
<1>. QED  BY <1>4, <1>5, <1>7, <1>8, <1>9, <1>10, <1>11, <1>12, <1>13, <1>14 DEF items, whole

LEMMA EveryRequest ==
  ASSUME Conversed(conversation)
  PROVE  Q!SameConversation
<1>1. PICK h : h = conversation
  OBVIOUS
<1>2. PICK g : g = Q!sanitizeToolHistory(h)
  OBVIOUS
<1>3. PICK all : all = Each(Piece(h), h)
  OBVIOUS
<1>4. Conversed(h) /\ h \in Seq(Entries)
  BY <1>1 DEF Conversed
<1>5. g \in Seq(Entries) /\ Says(g) /\ Each(Shown, g) = all
  BY <1>2, <1>3, <1>4, SanitizedIs, SanitizedSays, AllShown
<1>6. ASSUME NEW r \in {Q!buildAnthropicMessages(g), Q!buildGeminiContents(g),
                        Q!normalizeOpenAICompatMessages(g), Q!buildResponsesInput(g)}
      PROVE  Q!Flat(r) \in {all, MapOf(Strip, all)} /\ Full(r) /\ r.system = Q!Texts(Q!Systems(h))
  <2>1. r.system = Q!Texts(Q!Systems(h))
    BY <1>2, <1>4, SystemSent
  <2>2. CASE r = Q!buildAnthropicMessages(g)
    BY <1>5, <2>1, <2>2, AnthropicSays
  <2>3. CASE r = Q!buildGeminiContents(g)
    BY <1>5, <2>1, <2>3, GeminiSays
  <2>4. CASE r = Q!normalizeOpenAICompatMessages(g)
    BY <1>5, <2>1, <2>4, OpenAISays
  <2>5. CASE r = Q!buildResponsesInput(g)
    BY <1>5, <2>1, <2>5, ResponsesSays
  <2>. QED  BY <2>2, <2>3, <2>4, <2>5
<1>7. Q!Sent = {Q!buildAnthropicMessages(g), Q!buildGeminiContents(g),
                Q!normalizeOpenAICompatMessages(g), Q!buildResponsesInput(g)}
  BY <1>1, <1>2 DEF Q!Sent
<1>. SUFFICES ASSUME NEW r \in Q!Sent
              PROVE  LET items == Q!Flat(r)
                     IN  /\ r.system = Q!Texts(Q!Systems(conversation))
                         /\ [i \in DOMAIN Q!Of(items, "text") |-> Q!Of(items, "text")[i].of[1]] = Q!Spoken
                         /\ [i \in DOMAIN Q!Of(items, "call") |-> Q!Of(items, "call")[i].of]
                              = [i \in DOMAIN Q!Made |-> Q!Made[i].id]
                         /\ Q!Paired(items)
                         /\ Len(Q!Of(items, "result")) = Len(Q!Made)
                         /\ \A i \in DOMAIN r.messages : r.messages[i].blocks # <<>>
  BY DEF Q!SameConversation
<1>8. Q!Flat(r) \in {all, MapOf(Strip, all)} /\ Full(r) /\ r.system = Q!Texts(Q!Systems(h))
  BY <1>6, <1>7
<1>9. Q!Made = Q!FlattenSeq([i \in DOMAIN h |-> Q!FilteredCalls(h[i])])
  BY <1>1 DEF Q!Made
<1>10. Q!Spoken = Q!Texts(Q!Only(Q!Others(h), Said))
  BY <1>1 DEF Q!Spoken, Said
<1>. QED  BY <1>1, <1>3, <1>4, <1>8, <1>9, <1>10, OneConversation

----------------------------------------------------------------------------
\* Whatever became of the conversation (a batch cut short by a crash, calls that
\* came garbled, system messages anywhere, however long it is), each of the four
\* providers is sent all of it: the system texts in one place, what was said in its
\* order, the calls that were whole, and behind each its one result before anything
\* else is said (sanitizeToolHistory, build...Messages, toolcalls.go).
THEOREM EveryProviderIsTold == Spec => []SameConversation
<1>. DEFINE Inv == part = "requests" => Conversed(conversation)
<1>1. Init => Inv
  <2>. SUFFICES ASSUME Q!Init  PROVE Conversed(conversation)
    BY DEF Init
  <2>1. PICK m : m = Q!Message("system", 1, <<>>, Q!NoCall)
    OBVIOUS
  <2>2. /\ m \in Entries /\ m.role = "system" /\ m.text = 1 /\ m.calls = <<>>
        /\ m.answers = Q!NoCall /\ m.reasoning = FALSE
    <3>1. <<>> \in Seq(Q!Call)
      OBVIOUS
    <3>. QED  BY <2>1, <3>1 DEF Entries, Q!InRole, Q!Message, Q!NoCall
  <2>3. conversation = <<m>> /\ Len(conversation) = 1 /\ conversation[1] = m
    BY <2>1 DEF Q!Init
  <2>4. Tells(conversation, 1)
    BY <2>2, <2>3 DEF Tells
  <2>. QED  BY <2>2, <2>3, <2>4 DEF Conversed
<1>2. Inv /\ [Next]_partsVars => Inv'
  <2>. SUFFICES ASSUME Conversed(conversation), part = "requests", [Next]_partsVars
                PROVE  Conversed(conversation')
    BY OneStep
  <2>1. Q!Next \/ UNCHANGED conversation
    BY OneStep
  <2>2. CASE Q!Next
    BY <2>2, ConversedStep, PartsAssumption
  <2>3. CASE UNCHANGED conversation
    BY <2>3
  <2>. QED  BY <2>1, <2>2, <2>3
<1>3. Inv => SameConversation
  BY EveryRequest DEF SameConversation
<1>. QED  BY <1>1, <1>2, <1>3, PTL DEF Spec
=============================================================================
