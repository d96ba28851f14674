----------------------------- MODULE AgentProof -----------------------------
(***************************************************************************)
(* Theorems about AgentLoop, for every budget, batch, number of messages   *)
(* and bound.  First, what sanitizeToolHistory makes of a history of the   *)
(* shape the loop gives it, however long and wherever it was cut: every    *)
(* valid call is answered right behind its message, and once.  Then the    *)
(* loop: a rewind undoes a whole run, tools that change something run      *)
(* alone, an answer covers what the user said, each step uses up the run,  *)
(* the history keeps the promise of Transcript, requests are well formed   *)
(* and carry the project context, and changes are verified or asked about. *)
(***************************************************************************)
EXTENDS AgentLoop, ListsProof

CallsOver(kinds) == [id : Nat \X Nat, kind : kinds]
MessagesOver(kinds, versions) ==
  [role : {"user", "assistant", "tool", "summary", "context"},
   calls : Seq(CallsOver(kinds)), answers : Nat \X Nat, version : versions]

\* A result stands in the block behind its call, as the call stands in its
\* message; results make no calls, and no two calls share their id.
Responds(messages, j, i) ==
  /\ i <= j + Len(messages[j].calls)
  /\ messages[i].answers = messages[j].calls[i - j].id
  /\ \A k \in (j + 1)..i : messages[k].role = "tool"
Placed(messages) ==
  \A i \in 1..Len(messages) : messages[i].role = "tool" =>
    messages[i].calls = <<>> /\ \E j \in 1..(i - 1) : Responds(messages, j, i)
IdsDiffer(messages) ==
  \A i, j \in 1..Len(messages) :
    \A k \in 1..Len(messages[i].calls), l \in 1..Len(messages[j].calls) :
      messages[i].calls[k].id = messages[j].calls[l].id => i = j /\ k = l
Blocks(messages) == Placed(messages) /\ IdsDiffer(messages)

----------------------------------------------------------------------------
\* Flattening adds one list after the other.
LEMMA Flattened ==
  ASSUME NEW U, NEW lists \in Seq(Seq(U))
  PROVE  \E g \in [0..Len(lists) -> Seq(U)] :
           /\ g[0] = <<>> /\ FlattenSeq(lists) = g[Len(lists)]
           /\ \A n \in 1..Len(lists) : g[n] = g[n - 1] \o lists[n]
<1>1. PICK g : /\ g \in [0..Len(lists) -> Seq(U)] /\ g[0] = <<>>
               /\ JoinedUp(lists) = g[Len(lists)]
               /\ \A n \in 1..Len(lists) : g[n] = g[n - 1] \o lists[n]
  BY JoinedSteps
<1>2. FlattenSeq(lists) = JoinedUp(lists)
  <2>1. CASE lists = <<>>
    <3>1. JoinedUp(lists) = <<>>
      BY <2>1, JoinedOfNothing
    <3>. QED  BY <2>1, <3>1 DEF FlattenSeq
  <2>2. CASE lists # <<>>
    <3>1. \E flat : FlatBy(flat, lists)
      BY <2>2, FlatExists
    <3>2. Len(lists) # 0
      BY <2>2
    <3>3. \E flat : FlatBy(flat, lists) /\ FlattenSeq(lists) = flat[Len(lists)]
      BY <3>1, <3>2 DEF FlattenSeq, FlatBy
    <3>. QED  BY <2>2, <3>3, FlatIsJoined
  <2>. QED  BY <2>1, <2>2
<1>. QED  BY <1>1, <1>2

----------------------------------------------------------------------------
\* The ids of a message's valid calls: which they are, and each once if no two
\* calls of the message share one.
Ids(m) == Range(IdsOf(FilteredCalls(m)))

LEMMA FilteredType ==
  ASSUME NEW kinds, NEW versions, NEW m \in MessagesOver(kinds, versions)
  PROVE  /\ FilteredCalls(m) \in Seq(CallsOver(kinds))
         /\ IdsOf(FilteredCalls(m)) \in Seq(Nat \X Nat)
         /\ Len(IdsOf(FilteredCalls(m))) = Len(FilteredCalls(m))
<1>1. m.calls \in Seq(CallsOver(kinds))
  BY DEF MessagesOver
<1>2. FilteredCalls(m) \in Seq(CallsOver(kinds))
  BY <1>1, OnlyType DEF FilteredCalls
<1>. DEFINE calls == FilteredCalls(m)
<1>. HIDE DEF calls
<1>3. calls \in Seq(CallsOver(kinds)) /\ DOMAIN calls = 1..Len(calls) /\ Len(calls) \in Nat
  BY <1>2 DEF calls
<1>4. \A i \in 1..Len(calls) : calls[i].id \in Nat \X Nat
  <2>1. \A i \in 1..Len(calls) : calls[i] \in CallsOver(kinds)
    BY <1>3
  <2>. QED  BY <2>1 DEF CallsOver
<1>5. IdsOf(calls) = [i \in 1..Len(calls) |-> calls[i].id]
  BY <1>3 DEF IdsOf
<1>6. IdsOf(calls) \in Seq(Nat \X Nat) /\ Len(IdsOf(calls)) = Len(calls)
  BY <1>3, <1>4, <1>5
<1>. QED  BY <1>2, <1>6 DEF calls

LEMMA FilteredAre ==
  ASSUME NEW kinds, NEW versions, NEW m \in MessagesOver(kinds, versions)
  PROVE  \A id : id \in Ids(m) <=>
                 \E k \in 1..Len(m.calls) : m.calls[k].id = id /\ Valid(m.calls[k])
<1>. DEFINE calls == FilteredCalls(m)
            keep == {c \in Range(m.calls) : Valid(c)}
<1>1. m.calls \in Seq(CallsOver(kinds))
  BY DEF MessagesOver
<1>2. \A k \in 1..Len(m.calls) : m.calls[k] \in keep <=> Valid(m.calls[k])
  BY <1>1 DEF Range
<1>3. calls = Only(m.calls, keep)
  BY DEF FilteredCalls
<1>4. calls \in Seq(CallsOver(kinds))
  BY FilteredType
<1>5. Ids(m) = {calls[i].id : i \in 1..Len(calls)}
  <2>1. DOMAIN calls = 1..Len(calls)
    BY <1>4
  <2>. HIDE DEF calls
  <2>2. Range(IdsOf(calls)) = {calls[i].id : i \in 1..Len(calls)}
    BY <2>1 DEF Range, IdsOf
  <2>. QED  BY <2>2 DEF Ids, calls
<1>. HIDE DEF calls, keep
<1>6. PICK at : Places(at, m.calls, keep)
  BY <1>1, OnlyPlaces
<1>7. /\ at \in [1..Len(calls) -> 1..Len(m.calls)]
      /\ \A i \in 1..Len(calls) : calls[i] = m.calls[at[i]] /\ calls[i] \in keep
      /\ \A k \in 1..Len(m.calls) : m.calls[k] \in keep => \E i \in 1..Len(calls) : at[i] = k
  BY <1>3, <1>6 DEF Places
<1>8. ASSUME NEW i \in 1..Len(calls)
      PROVE  \E k \in 1..Len(m.calls) : m.calls[k].id = calls[i].id /\ Valid(m.calls[k])
  <2>1. at[i] \in 1..Len(m.calls) /\ calls[i] = m.calls[at[i]] /\ calls[i] \in keep
    BY <1>7
  <2>. QED  BY <1>2, <2>1
<1>9. ASSUME NEW k \in 1..Len(m.calls), Valid(m.calls[k])
      PROVE  \E i \in 1..Len(calls) : m.calls[k].id = calls[i].id
  <2>1. PICK i \in 1..Len(calls) : at[i] = k
    BY <1>2, <1>7, <1>9
  <2>. QED  BY <1>7, <2>1
<1>10. TAKE id
<1>11. id \in Ids(m) <=> \E i \in 1..Len(calls) : calls[i].id = id
  BY <1>5
<1>12. ASSUME NEW i \in 1..Len(calls), calls[i].id = id
       PROVE  \E k \in 1..Len(m.calls) : m.calls[k].id = id /\ Valid(m.calls[k])
  BY <1>8, <1>12
<1>13. ASSUME NEW k \in 1..Len(m.calls), m.calls[k].id = id, Valid(m.calls[k])
       PROVE  \E i \in 1..Len(calls) : calls[i].id = id
  BY <1>9, <1>13
<1>. QED  BY <1>11, <1>12, <1>13

LEMMA FilteredDiffer ==
  ASSUME NEW kinds, NEW versions, NEW m \in MessagesOver(kinds, versions),
         \A k, l \in 1..Len(m.calls) : m.calls[k].id = m.calls[l].id => k = l
  PROVE  LET ids == IdsOf(FilteredCalls(m))
         IN  \A i, j \in 1..Len(ids) : ids[i] = ids[j] => i = j
<1>. DEFINE calls == FilteredCalls(m)
            keep == {c \in Range(m.calls) : Valid(c)}
<1>1. m.calls \in Seq(CallsOver(kinds))
  BY DEF MessagesOver
<1>2. PICK at : Places(at, m.calls, keep)
  BY <1>1, OnlyPlaces
<1>3. calls = Only(m.calls, keep)
  BY DEF FilteredCalls
<1>4. calls \in Seq(CallsOver(kinds)) /\ Len(IdsOf(calls)) = Len(calls)
  BY FilteredType
<1>. HIDE DEF calls, keep
<1>5. /\ at \in [1..Len(calls) -> 1..Len(m.calls)]
      /\ \A i, j \in 1..Len(calls) : i < j => at[i] < at[j]
      /\ \A i \in 1..Len(calls) : calls[i] = m.calls[at[i]]
  BY <1>2, <1>3 DEF Places
<1>6. \A i \in 1..Len(calls) : IdsOf(calls)[i] = calls[i].id
  BY <1>4 DEF IdsOf
<1>7. ASSUME NEW i \in 1..Len(calls), NEW j \in 1..Len(calls), IdsOf(calls)[i] = IdsOf(calls)[j]
      PROVE  i = j
  <2>1. m.calls[at[i]].id = m.calls[at[j]].id
    BY <1>5, <1>6, <1>7
  <2>2. at[i] = at[j] /\ at[i] \in Nat
    BY <1>5, <2>1
  <2>3. ~(i < j) /\ ~(j < i)
    BY <1>5, <2>2
  <2>. QED  BY <2>3
<1>. QED  BY <1>4, <1>7 DEF calls
----------------------------------------------------------------------------
\* The first b messages are well formed among themselves, whatever follows.
Block(messages, i) == i + 1 .. i + Len(messages[i].calls)
WellUpTo(messages, b) ==
  /\ \A i \in 1..b :
       /\ Block(messages, i) \subseteq 1..b
       /\ \A j \in Block(messages, i) : messages[j].role = "tool"
       /\ {messages[j].answers : j \in Block(messages, i)} = Range(IdsOf(messages[i].calls))
  /\ \A j \in 1..b : messages[j].role = "tool" => \E i \in 1..(j - 1) : j \in Block(messages, i)

\* What follows does not matter.
LEMMA SameStart ==
  ASSUME NEW b \in Int, NEW messages, WellUpTo(messages, b),
         NEW others, \A i \in 1..b : others[i] = messages[i]
  PROVE  WellUpTo(others, b)
<1>1. \A i \in 1..b : Block(messages, i) \subseteq 1..b
  BY DEF WellUpTo
<1>2. \A i \in 1..b : Block(others, i) = Block(messages, i)
  BY DEF Block
<1>3. ASSUME NEW i \in 1..b
      PROVE  /\ Block(others, i) \subseteq 1..b
             /\ \A j \in Block(others, i) : others[j].role = "tool"
             /\ {others[j].answers : j \in Block(others, i)} = Range(IdsOf(others[i].calls))
  <2>1. \A j \in Block(messages, i) : others[j] = messages[j]
    BY <1>1
  <2>2. {others[j].answers : j \in Block(others, i)}
          = {messages[j].answers : j \in Block(messages, i)}
    BY <1>2, <2>1
  <2>3. \A j \in Block(messages, i) : messages[j].role = "tool"
    BY DEF WellUpTo
  <2>4. {messages[j].answers : j \in Block(messages, i)} = Range(IdsOf(others[i].calls))
    BY DEF WellUpTo
  <2>. QED  BY <1>1, <1>2, <2>1, <2>2, <2>3, <2>4
<1>4. ASSUME NEW j \in 1..b, others[j].role = "tool"
      PROVE  \E i \in 1..(j - 1) : j \in Block(others, i)
  <2>1. messages[j].role = "tool"
    BY <1>4
  <2>2. PICK i \in 1..(j - 1) : j \in Block(messages, i)
    BY <2>1 DEF WellUpTo
  <2>3. i \in 1..b
    BY <2>2
  <2>. QED  BY <1>2, <2>2, <2>3
<1>. QED  BY <1>3, <1>4 DEF WellUpTo

\* What stands behind message q when the messages up to n have been treated:
\* one result each for its ids other than those in due.
Behind(messages, q, due) ==
  LET N == Len(messages)
      ids == IdsOf(messages[q].calls)
  IN  /\ q \in 1..N /\ messages[q].role # "tool" /\ WellUpTo(messages, q - 1)
      /\ \A j \in (q + 1)..N : messages[j].role = "tool" /\ messages[j].calls = <<>>
      /\ \A i, j \in (q + 1)..N : messages[i].answers = messages[j].answers => i = j
      /\ \A id : (\E j \in (q + 1)..N : messages[j].answers = id) <=> id \in Range(ids) \ due

\* With nothing due, the last call is answered in full.
LEMMA Closed ==
  ASSUME NEW kinds, NEW versions, NEW out \in Seq(MessagesOver(kinds, versions)),
         NEW q, Behind(out, q, {}),
         \A i, j \in 1..Len(IdsOf(out[q].calls)) :
           IdsOf(out[q].calls)[i] = IdsOf(out[q].calls)[j] => i = j
  PROVE  WellUpTo(out, Len(out))
<1>. DEFINE N == Len(out)
            ids == IdsOf(out[q].calls)
            C == Len(out[q].calls)
            tail == [j \in 1..(N - q) |-> out[q + j].answers]
<1>1. /\ N \in Nat /\ q \in 1..N /\ out[q].role # "tool" /\ WellUpTo(out, q - 1)
      /\ \A j \in (q + 1)..N : out[j].role = "tool" /\ out[j].calls = <<>>
      /\ \A i, j \in (q + 1)..N : out[i].answers = out[j].answers => i = j
      /\ \A id : (\E j \in (q + 1)..N : out[j].answers = id) <=> id \in Range(ids)
  BY DEF Behind
<1>2. out[q].calls \in Seq(CallsOver(kinds))
  <2>1. out[q] \in MessagesOver(kinds, versions)
    BY <1>1
  <2>. QED  BY <2>1 DEF MessagesOver
<1>3. ids \in Seq(Nat \X Nat) /\ Len(ids) = C /\ C \in Nat
  <2>. DEFINE calls == out[q].calls
  <2>1. \A i \in 1..Len(calls) : calls[i].id \in Nat \X Nat
    <3>1. \A i \in 1..Len(calls) : calls[i] \in CallsOver(kinds)
      BY <1>2
    <3>. QED  BY <3>1 DEF CallsOver
  <2>2. DOMAIN calls = 1..Len(calls) /\ Len(calls) \in Nat
    BY <1>2
  <2>. HIDE DEF calls
  <2>3. IdsOf(calls) \in Seq(Nat \X Nat) /\ Len(IdsOf(calls)) = Len(calls)
    BY <2>1, <2>2 DEF IdsOf
  <2>. QED  BY <2>2, <2>3 DEF calls
<1>. HIDE DEF ids, C, N
<1>4. \A id : id \in Range(ids) <=> \E i \in 1..C : ids[i] = id
  <2>1. DOMAIN ids = 1..C
    BY <1>3
  <2>. QED  BY <2>1 DEF Range
<1>5. \A j \in (q + 1)..N : out[j].answers \in Nat \X Nat
  <2>1. \A j \in 1..N : out[j] \in MessagesOver(kinds, versions)
    BY DEF N
  <2>2. \A j \in 1..N : out[j].answers \in Nat \X Nat
    BY <2>1 DEF MessagesOver
  <2>. QED  BY <1>1, <2>2
<1>6. /\ tail \in Seq(Nat \X Nat) /\ Len(tail) = N - q
      /\ \A j \in 1..(N - q) : tail[j] = out[q + j].answers /\ q + j \in (q + 1)..N
      /\ \A j \in (q + 1)..N : j - q \in 1..(N - q) /\ tail[j - q] = out[j].answers
  <2>1. \A j \in 1..(N - q) : q + j \in (q + 1)..N
    BY <1>1
  <2>2. \A j \in (q + 1)..N : j - q \in 1..(N - q) /\ q + (j - q) = j
    BY <1>1
  <2>3. N - q \in Nat /\ tail = [j \in 1..(N - q) |-> out[q + j].answers]
    BY <1>1
  <2>4. \A j \in 1..(N - q) : out[q + j].answers \in Nat \X Nat
    BY <1>5, <2>1
  <2>. HIDE DEF tail
  <2>5. tail \in Seq(Nat \X Nat) /\ Len(tail) = N - q
    BY <2>3, <2>4
  <2>6. \A j \in 1..(N - q) : tail[j] = out[q + j].answers
    BY <2>3
  <2>7. \A j \in (q + 1)..N : tail[j - q] = out[j].answers
    <3>. TAKE j \in (q + 1)..N
    <3>1. tail[j - q] = out[q + (j - q)].answers
      BY <2>2, <2>6
    <3>. QED  BY <2>2, <3>1
  <2>. QED  BY <2>1, <2>2, <2>5, <2>6, <2>7
<1>. HIDE DEF tail
<1>7. \A i, j \in 1..Len(tail) : tail[i] = tail[j] => i = j
  <2>. TAKE i, j \in 1..Len(tail)
  <2>. HAVE tail[i] = tail[j]
  <2>1. q + i = q + j
    BY <1>1, <1>6
  <2>. QED  BY <1>1, <2>1
<1>8. \A i \in 1..Len(tail) : \E j \in 1..Len(ids) : ids[j] = tail[i]
  BY <1>1, <1>3, <1>4, <1>6
<1>9. \A j \in 1..Len(ids) : \E i \in 1..Len(tail) : tail[i] = ids[j]
  <2>. TAKE j \in 1..Len(ids)
  <2>1. PICK k \in (q + 1)..N : out[k].answers = ids[j]
    BY <1>1, <1>3, <1>4
  <2>. QED  BY <1>6, <2>1
<1>10. Len(tail) = Len(ids)
  <2>. DEFINE Pairs == Nat \X Nat
  <2>1. tail \in Seq(Pairs) /\ ids \in Seq(Pairs)
    BY <1>3, <1>6
  <2>. HIDE DEF Pairs
  <2>2. \A i, j \in 1..Len(ids) : ids[i] = ids[j] => i = j
    BY DEF ids
  <2>. QED  BY <1>7, <1>8, <1>9, <2>1, <2>2, SameLength
<1>11. N = q + C
  BY <1>1, <1>3, <1>6, <1>10
<1>12. Block(out, q) = (q + 1)..N
  BY <1>11 DEF Block, C
<1>13. {out[j].answers : j \in Block(out, q)} = Range(ids)
  BY <1>1, <1>12
<1>14. \A j \in (q + 1)..N :
         Block(out, j) = {} /\ {out[k].answers : k \in Block(out, j)} = Range(IdsOf(out[j].calls))
  <2>. TAKE j \in (q + 1)..N
  <2>1. out[j].calls = <<>> /\ j \in Nat
    BY <1>1
  <2>2. Block(out, j) = {}
    BY <2>1 DEF Block
  <2>3. Range(IdsOf(<<>>)) = {}
    BY DEF Range, IdsOf
  <2>. QED  BY <2>1, <2>2, <2>3
<1>15. ASSUME NEW i \in 1..N
       PROVE  /\ Block(out, i) \subseteq 1..N
              /\ \A j \in Block(out, i) : out[j].role = "tool"
              /\ {out[j].answers : j \in Block(out, i)} = Range(IdsOf(out[i].calls))
  <2>1. CASE i < q
    <3>1. i \in 1..(q - 1) /\ 1..(q - 1) \subseteq 1..N
      BY <1>1, <2>1
    <3>. QED  BY <1>1, <3>1 DEF WellUpTo
  <2>2. CASE i = q
    BY <1>1, <1>12, <1>13, <2>2 DEF ids
  <2>3. CASE i > q
    <3>1. i \in (q + 1)..N
      BY <1>1, <2>3
    <3>. QED  BY <1>14, <3>1
  <2>. QED  BY <1>1, <2>1, <2>2, <2>3
<1>16. ASSUME NEW j \in 1..N, out[j].role = "tool"
       PROVE  \E i \in 1..(j - 1) : j \in Block(out, i)
  <2>1. CASE j < q
    <3>1. j \in 1..(q - 1)
      BY <1>1, <2>1
    <3>. QED  BY <1>1, <1>16, <3>1 DEF WellUpTo
  <2>2. CASE j > q
    <3>1. j \in (q + 1)..N /\ q \in 1..(j - 1)
      BY <1>1, <2>2
    <3>. QED  BY <1>12, <3>1
  <2>. QED  BY <1>1, <1>16, <2>1, <2>2
<1>. QED  BY <1>15, <1>16 DEF WellUpTo, N

\* A result for one of the ids that are due takes it off them.
LEMMA Delivered ==
  ASSUME NEW kinds, NEW versions, NEW out \in Seq(MessagesOver(kinds, versions)),
         NEW m \in MessagesOver(kinds, versions), NEW q, NEW due, Behind(out, q, due),
         m.role = "tool", m.calls = <<>>, m.answers \in due,
         m.answers \in Range(IdsOf(out[q].calls))
  PROVE  Behind(Append(out, m), q, due \ {m.answers})
<1>. DEFINE more == Append(out, m)
            N == Len(out)
<1>1. /\ N \in Nat /\ q \in 1..N /\ out[q].role # "tool" /\ WellUpTo(out, q - 1)
      /\ \A j \in (q + 1)..N : out[j].role = "tool" /\ out[j].calls = <<>>
      /\ \A i, j \in (q + 1)..N : out[i].answers = out[j].answers => i = j
      /\ \A id : (\E j \in (q + 1)..N : out[j].answers = id)
                  <=> id \in Range(IdsOf(out[q].calls)) \ due
  BY DEF Behind
<1>2. /\ Len(more) = N + 1 /\ more[N + 1] = m
      /\ \A i \in 1..N : more[i] = out[i]
  OBVIOUS
<1>. HIDE DEF more, N
<1>3. WellUpTo(more, q - 1)
  <2>1. WellUpTo(out, q - 1) /\ q - 1 \in Int /\ \A i \in 1..(q - 1) : more[i] = out[i]
    BY <1>1, <1>2
  <2>. QED  BY <2>1, SameStart
<1>4. \A j \in (q + 1)..(N + 1) : j = N + 1 \/ j \in (q + 1)..N
  BY <1>1
<1>5. \A j \in (q + 1)..N : more[j] = out[j]
  BY <1>1, <1>2
<1>6. \A j \in (q + 1)..N : out[j].answers # m.answers
  BY <1>1
<1>7. \A j \in (q + 1)..(N + 1) : more[j].role = "tool" /\ more[j].calls = <<>>
  BY <1>1, <1>2, <1>4, <1>5
<1>8. \A i, j \in (q + 1)..(N + 1) : more[i].answers = more[j].answers => i = j
  BY <1>1, <1>2, <1>4, <1>5, <1>6
<1>9. more[q] = out[q] /\ N + 1 \in (q + 1)..(N + 1) /\ (q + 1)..N \subseteq (q + 1)..(N + 1)
      /\ q \in 1..(N + 1)
  BY <1>1, <1>2
<1>10. ASSUME NEW id
       PROVE  (\E j \in (q + 1)..(N + 1) : more[j].answers = id)
                <=> id \in Range(IdsOf(more[q].calls)) \ (due \ {m.answers})
  <2>1. (\E j \in (q + 1)..(N + 1) : more[j].answers = id)
          <=> id = m.answers \/ \E j \in (q + 1)..N : out[j].answers = id
    BY <1>2, <1>4, <1>5, <1>9
  <2>. QED  BY <1>1, <1>9, <2>1
<1>11. q \in 1..(N + 1) /\ more[q].role # "tool" /\ Len(more) = N + 1
  BY <1>1, <1>2, <1>9
<1>12. Behind(more, q, due \ {m.answers})
  BY <1>3, <1>7, <1>8, <1>10, <1>11 DEF Behind
<1>. QED  BY <1>12 DEF more

----------------------------------------------------------------------------
\* What is still to come of the results, when the messages up to n are treated.
Due(messages, n) ==
  {messages[k].answers : k \in {k \in (n + 1)..Len(messages) : messages[k].role = "tool"}}

\* No two messages have calls of the same id, and no two results answer one.
LEMMA IdsApart ==
  ASSUME NEW kinds, NEW versions, NEW messages \in Seq(MessagesOver(kinds, versions)),
         Blocks(messages), NEW c \in 1..Len(messages), NEW d \in 1..Len(messages),
         NEW id \in Ids(messages[c]), id \in Ids(messages[d])
  PROVE  c = d
<1>1. messages[c] \in MessagesOver(kinds, versions) /\ messages[d] \in MessagesOver(kinds, versions)
  OBVIOUS
<1>2. PICK k \in 1..Len(messages[c].calls) : messages[c].calls[k].id = id
  BY <1>1, FilteredAre
<1>3. PICK l \in 1..Len(messages[d].calls) : messages[d].calls[l].id = id
  BY <1>1, FilteredAre
<1>. QED  BY <1>2, <1>3 DEF Blocks, IdsDiffer

\* In other words: a call is known by its id.
LEMMA SameCall ==
  ASSUME NEW messages, Blocks(messages),
         NEW x \in 1..Len(messages), NEW y \in 1..Len(messages),
         NEW k \in 1..Len(messages[x].calls), NEW l \in 1..Len(messages[y].calls),
         messages[x].calls[k].id = messages[y].calls[l].id
  PROVE  x = y /\ k = l
BY DEF Blocks, IdsDiffer

\* A result's call is one of the calls of the message it responds to.
LEMMA RespondsTo ==
  ASSUME NEW kinds, NEW versions, NEW messages \in Seq(MessagesOver(kinds, versions)),
         NEW i \in 1..Len(messages), NEW j \in 1..(i - 1), Responds(messages, j, i)
  PROVE  j \in 1..Len(messages) /\ i - j \in 1..Len(messages[j].calls)
<1>1. j \in 1..Len(messages)
  OBVIOUS
<1>2. Len(messages[j].calls) \in Nat
  <2>1. messages[j] \in MessagesOver(kinds, versions)
    BY <1>1
  <2>2. messages[j].calls \in Seq(CallsOver(kinds))
    BY <2>1 DEF MessagesOver
  <2>. QED  BY <2>2
<1>3. i <= j + Len(messages[j].calls)
  BY DEF Responds
<1>. QED  BY <1>1, <1>2, <1>3

LEMMA AnswersOnce ==
  ASSUME NEW kinds, NEW versions, NEW messages \in Seq(MessagesOver(kinds, versions)),
         Blocks(messages), NEW i \in 1..Len(messages), NEW j \in 1..Len(messages),
         messages[i].role = "tool", messages[j].role = "tool",
         messages[i].answers = messages[j].answers
  PROVE  i = j
<1>1. PICK a \in 1..(i - 1) : Responds(messages, a, i)
  BY DEF Blocks, Placed
<1>2. PICK b \in 1..(j - 1) : Responds(messages, b, j)
  BY DEF Blocks, Placed
<1>. DEFINE k == i - a
            l == j - b
<1>3. /\ a \in 1..Len(messages) /\ k \in 1..Len(messages[a].calls)
      /\ b \in 1..Len(messages) /\ l \in 1..Len(messages[b].calls)
  BY <1>1, <1>2, RespondsTo
<1>4. messages[a].calls[k].id = messages[b].calls[l].id
  BY <1>1, <1>2 DEF Responds
<1>5. a = b /\ k = l
  <2>. HIDE DEF k, l
  <2>1. /\ a \in 1..Len(messages) /\ k \in 1..Len(messages[a].calls)
        /\ b \in 1..Len(messages) /\ l \in 1..Len(messages[b].calls)
        /\ messages[a].calls[k].id = messages[b].calls[l].id
    BY <1>3, <1>4
  <2>2. a = b
    BY <2>1, SameCall, Zenon
  <2>3. k = l
    BY <2>1, SameCall
  <2>. QED  BY <2>2, <2>3
<1>. QED  BY <1>5

\* A result of one of the message's calls stands behind it, with only results between.
LEMMA AnswersBehind ==
  ASSUME NEW kinds, NEW versions, NEW messages \in Seq(MessagesOver(kinds, versions)),
         Blocks(messages), NEW i \in 1..Len(messages), NEW c \in 1..Len(messages),
         messages[i].role = "tool", messages[i].answers \in Ids(messages[c])
  PROVE  c < i /\ \A k \in (c + 1)..i : messages[k].role = "tool"
<1>1. PICK a \in 1..(i - 1) : Responds(messages, a, i)
  BY DEF Blocks, Placed
<1>2. messages[c] \in MessagesOver(kinds, versions) /\ messages[a] \in MessagesOver(kinds, versions)
  OBVIOUS
<1>3. PICK k \in 1..Len(messages[c].calls) : messages[c].calls[k].id = messages[i].answers
  BY <1>2, FilteredAre
<1>. DEFINE l == i - a
<1>4. a \in 1..Len(messages) /\ l \in 1..Len(messages[a].calls)
  BY <1>1, RespondsTo
<1>5. messages[a].calls[l].id = messages[c].calls[k].id
  BY <1>1, <1>3 DEF Responds
<1>6. a = c
  <2>. HIDE DEF l
  <2>. QED  BY <1>3, <1>4, <1>5, SameCall, Zenon
<1>. QED  BY <1>1, <1>6 DEF Responds

LEMMA ValidAre ==
  ASSUME NEW U, NEW messages \in Seq(U), NEW n \in 0..Len(messages)
  PROVE  /\ \A id : id \in ValidIDs(messages) <=>
                     \E i \in 1..Len(messages) : id \in Ids(messages[i])
         /\ \A id : id \in ValidIDs(SubSeq(messages, 1, n)) <=>
                     \E i \in 1..n : id \in Ids(messages[i])
<1>1. \A id : id \in ValidIDs(messages) <=>
               \E i \in 1..Len(messages) : id \in Ids(messages[i])
  BY DEF ValidIDs, Ids
<1>. DEFINE some == SubSeq(messages, 1, n)
<1>2. DOMAIN some = 1..n /\ \A i \in 1..n : some[i] = messages[i]
  OBVIOUS
<1>. HIDE DEF some
<1>3. \A id : id \in ValidIDs(some) <=> \E i \in 1..n : id \in Ids(messages[i])
  BY <1>2 DEF ValidIDs, Ids
<1>. QED  BY <1>1, <1>3 DEF some

\* The orphans: each id of the message that no result to come answers, once.
LEMMA OrphansAre ==
  ASSUME NEW kinds, NEW versions, NEW messages \in Seq(MessagesOver(kinds, versions)),
         Blocks(messages), NEW c \in 1..Len(messages)
  PROVE  LET orphans == Orphans(messages, c)
         IN  /\ orphans \in Seq(Nat \X Nat)
             /\ \A i, j \in 1..Len(orphans) : orphans[i] = orphans[j] => i = j
             /\ \A id : (\E i \in 1..Len(orphans) : orphans[i] = id) <=>
                         id \in Ids(messages[c]) \ Due(messages, c)
<1>. DEFINE m == messages[c]
            ids == IdsOf(FilteredCalls(m))
            keep == Range(ids) \ (Answered(messages) \cup ValidIDs(SubSeq(messages, 1, c - 1)))
            orphans == Only(ids, keep)
<1>0. messages[c] \in MessagesOver(kinds, versions)
  OBVIOUS
<1>1. Orphans(messages, c) = orphans
  BY DEF Orphans
<1>2. ids \in Seq(Nat \X Nat)
  BY <1>0, FilteredType
<1>3. \A i, j \in 1..Len(ids) : ids[i] = ids[j] => i = j
  <2>1. \A k, l \in 1..Len(m.calls) : m.calls[k].id = m.calls[l].id => k = l
    BY DEF Blocks, IdsDiffer
  <2>. QED  BY <1>0, <2>1, FilteredDiffer
<1>4. \A id : id \in Ids(messages[c]) <=> \E i \in 1..Len(ids) : ids[i] = id
  BY <1>2 DEF Ids, Range
<1>5. ASSUME NEW id \in Ids(messages[c])
      PROVE  id \in keep <=> id \notin Due(messages, c)
  <2>1. id \in Range(ids)
    BY <1>5 DEF Ids
  <2>2. id \notin ValidIDs(SubSeq(messages, 1, c - 1))
    <3>1. c - 1 \in 0..Len(messages) /\ \A d \in 1..(c - 1) : d # c /\ d \in 1..Len(messages)
      OBVIOUS
    <3>2. \A d \in 1..(c - 1) : id \notin Ids(messages[d])
      BY <1>5, <3>1, IdsApart
    <3>. QED  BY <3>1, <3>2, ValidAre
  <2>3. id \in ValidIDs(messages)
    <3>1. Len(messages) \in 0..Len(messages)
      OBVIOUS
    <3>. QED  BY <1>5, <3>1, ValidAre
  <2>4. id \in Answered(messages) <=>
          \E i \in 1..Len(messages) : messages[i].role = "tool" /\ messages[i].answers = id
    <3>1. DOMAIN messages = 1..Len(messages)
      OBVIOUS
    <3>. QED  BY <2>3, <3>1 DEF Answered
  <2>5. \A i \in 1..Len(messages) :
          messages[i].role = "tool" /\ messages[i].answers = id => i \in (c + 1)..Len(messages)
    BY <1>5, AnswersBehind
  <2>6. id \in Due(messages, c) <=>
          \E i \in (c + 1)..Len(messages) : messages[i].role = "tool" /\ messages[i].answers = id
    BY DEF Due
  <2>7. (c + 1)..Len(messages) \subseteq 1..Len(messages)
    OBVIOUS
  <2>8. id \in Answered(messages) <=> id \in Due(messages, c)
    BY <2>4, <2>5, <2>6, <2>7
  <2>. QED  BY <2>1, <2>2, <2>8
<1>. HIDE DEF ids, keep, m
<1>6. orphans \in Seq(Nat \X Nat)
  BY <1>2, OnlyType
<1>7. \A i, j \in 1..Len(orphans) : orphans[i] = orphans[j] => i = j
  BY <1>2, <1>3, OnlyDistinct
<1>8. /\ \A i \in 1..Len(orphans) : orphans[i] \in keep /\ \E k \in 1..Len(ids) : ids[k] = orphans[i]
      /\ \A k \in 1..Len(ids) : ids[k] \in keep => \E i \in 1..Len(orphans) : orphans[i] = ids[k]
  BY <1>2, OnlyMembers
<1>. HIDE DEF orphans
<1>9. ASSUME NEW id
      PROVE  (\E i \in 1..Len(orphans) : orphans[i] = id) <=>
               id \in Ids(messages[c]) \ Due(messages, c)
  <2>1. ASSUME NEW i \in 1..Len(orphans), orphans[i] = id
        PROVE  id \in Ids(messages[c]) \ Due(messages, c)
    <3>1. id \in keep /\ id \in Ids(messages[c])
      BY <1>4, <1>8, <2>1
    <3>. QED  BY <1>5, <3>1
  <2>2. ASSUME id \in Ids(messages[c]), id \notin Due(messages, c)
        PROVE  \E i \in 1..Len(orphans) : orphans[i] = id
    <3>1. id \in keep
      BY <1>5, <2>2
    <3>. QED  BY <1>4, <1>8, <2>2, <3>1
  <2>. QED  BY <2>1, <2>2
<1>. QED  BY <1>1, <1>6, <1>7, <1>9

----------------------------------------------------------------------------
LEMMA RepairedType ==
  ASSUME NEW kinds, NEW versions, 0 \in versions,
         NEW messages \in Seq(MessagesOver(kinds, versions)),
         Blocks(messages), NEW c \in 1..Len(messages)
  PROVE  Repaired(messages, c) \in Seq(MessagesOver(kinds, versions))
<1>. DEFINE m == messages[c]
            orphans == Orphans(messages, c)
            holders == [k \in DOMAIN orphans |-> Result(orphans[k])]
            head == [m EXCEPT !.calls = FilteredCalls(m)]
<1>1. m \in MessagesOver(kinds, versions)
  OBVIOUS
<1>2. FilteredCalls(m) \in Seq(CallsOver(kinds))
  BY <1>1, FilteredType
<1>3. head \in MessagesOver(kinds, versions)
  <2>. HIDE DEF m
  <2>. QED  BY <1>1, <1>2 DEF MessagesOver
<1>4. orphans \in Seq(Nat \X Nat)
  BY OrphansAre
<1>. HIDE DEF orphans
<1>5. \A k \in 1..Len(orphans) : Result(orphans[k]) \in MessagesOver(kinds, versions)
  <2>. TAKE k \in 1..Len(orphans)
  <2>1. orphans[k] \in Nat \X Nat
    BY <1>4
  <2>2. <<>> \in Seq(CallsOver(kinds))
    OBVIOUS
  <2>. QED  BY <2>1, <2>2 DEF MessagesOver, Result, Message
<1>6. holders \in Seq(MessagesOver(kinds, versions))
  <2>1. Len(orphans) \in Nat /\ holders = [k \in 1..Len(orphans) |-> Result(orphans[k])]
    BY <1>4
  <2>. HIDE DEF holders
  <2>. QED  BY <1>5, <2>1
<1>. HIDE DEF holders, head
<1>7. <<head>> \o holders \in Seq(MessagesOver(kinds, versions))
  BY <1>3, <1>6
<1>8. <<m>> \in Seq(MessagesOver(kinds, versions)) /\ <<>> \in Seq(MessagesOver(kinds, versions))
  BY <1>1
<1>. QED  BY <1>7, <1>8 DEF Repaired, orphans, holders, head

\* A message that is no result opens a block, with its orphans answered.
Joined(all, front, list) == all = front \o list

LEMMA Opens ==
  ASSUME NEW kinds, NEW versions, 0 \in versions,
         NEW messages \in Seq(MessagesOver(kinds, versions)),
         Blocks(messages), NEW c \in 1..Len(messages), messages[c].role # "tool",
         NEW out \in Seq(MessagesOver(kinds, versions)), WellUpTo(out, Len(out)),
         NEW more, Joined(more, out, Repaired(messages, c))
  PROVE  /\ Behind(more, Len(out) + 1, Due(messages, c))
         /\ more[Len(out) + 1].calls = FilteredCalls(messages[c])
<1>. DEFINE m == messages[c]
            orphans == Orphans(messages, c)
            holders == [k \in DOMAIN orphans |-> Result(orphans[k])]
            head == [m EXCEPT !.calls = FilteredCalls(m)]
            N == Len(out)
            K == Len(orphans)
            all == out \o Repaired(messages, c)
<1>1. /\ orphans \in Seq(Nat \X Nat)
      /\ \A i, j \in 1..K : orphans[i] = orphans[j] => i = j
      /\ \A id : (\E i \in 1..K : orphans[i] = id) <=> id \in Ids(m) \ Due(messages, c)
  BY OrphansAre
<1>2. Repaired(messages, c) = <<head>> \o holders
  BY DEF Repaired
<1>3. Repaired(messages, c) \in Seq(MessagesOver(kinds, versions))
  BY RepairedType
<1>4. head.role # "tool" /\ head.calls = FilteredCalls(m)
  <2>1. m \in MessagesOver(kinds, versions)
    OBVIOUS
  <2>. HIDE DEF m
  <2>. QED  BY <2>1 DEF MessagesOver, m
<1>. HIDE DEF orphans
<1>5. /\ K \in Nat /\ holders = [k \in 1..K |-> Result(orphans[k])]
      /\ \A k \in 1..K : /\ holders[k].role = "tool" /\ holders[k].calls = <<>>
                        /\ holders[k].answers = orphans[k]
  BY <1>1 DEF Result, Message
<1>. HIDE DEF head, m
<1>6. /\ N \in Nat /\ Len(all) = N + 1 + K
      /\ \A i \in 1..N : all[i] = out[i]
      /\ all[N + 1] = head
      /\ \A k \in 1..K : all[N + 1 + k] = holders[k]
  <2>. DEFINE tail == <<head>> \o holders
  <2>0. \A k \in 1..K : Result(orphans[k]) \in {Result(orphans[l]) : l \in 1..K}
    OBVIOUS
  <2>1. holders \in Seq({Result(orphans[k]) : k \in 1..K}) /\ Len(holders) = K
    <3>. HIDE DEF holders
    <3>. QED  BY <1>5, <2>0
  <2>. HIDE DEF holders, K
  <2>2. Len(tail) = 1 + K /\ tail[1] = head /\ \A k \in 1..K : tail[1 + k] = holders[k]
    BY <1>5, <2>1
  <2>3. tail \in Seq(MessagesOver(kinds, versions))
    BY <1>2, <1>3
  <2>. HIDE DEF tail
  <2>4. all = out \o tail
    BY <1>2 DEF tail
  <2>5. /\ N \in Nat /\ Len(out \o tail) = N + Len(tail)
        /\ \A i \in 1..N : (out \o tail)[i] = out[i]
        /\ \A k \in 1..Len(tail) : (out \o tail)[N + k] = tail[k]
    BY <2>3
  <2>6. 1 \in 1..Len(tail) /\ \A k \in 1..K : 1 + k \in 1..Len(tail) /\ N + (1 + k) = N + 1 + k
    BY <1>5, <2>2, <2>5
  <2>7. \A k \in 1..K : all[N + 1 + k] = holders[k]
    <3>. TAKE k \in 1..K
    <3>1. (out \o tail)[N + (1 + k)] = tail[1 + k]
      BY <2>5, <2>6
    <3>. QED  BY <2>2, <2>4, <2>6, <3>1
  <2>8. Len(all) = N + 1 + K
    BY <1>5, <2>2, <2>4, <2>5
  <2>9. all[N + 1] = head
    BY <2>2, <2>4, <2>5, <2>6
  <2>. QED  BY <2>4, <2>5, <2>7, <2>8, <2>9
<1>. HIDE DEF all, N, holders, K
<1>7. WellUpTo(all, (N + 1) - 1)
  <2>0. WellUpTo(out, N)
    BY DEF N
  <2>1. WellUpTo(all, N)
    BY <1>6, <2>0, SameStart
  <2>2. (N + 1) - 1 = N
    BY <1>6
  <2>. QED  BY <2>1, <2>2
<1>8. \A j \in (N + 1 + 1)..(N + 1 + K) : j - (N + 1) \in 1..K /\ all[j] = holders[j - (N + 1)]
  <2>. TAKE j \in (N + 1 + 1)..(N + 1 + K)
  <2>1. j - (N + 1) \in 1..K /\ N + 1 + (j - (N + 1)) = j
    BY <1>5, <1>6
  <2>. QED  BY <1>6, <2>1
<1>9. \A k \in 1..K : N + 1 + k \in (N + 1 + 1)..(N + 1 + K)
  BY <1>5, <1>6
<1>10. \A j \in (N + 1 + 1)..(N + 1 + K) :
         /\ all[j].role = "tool" /\ all[j].calls = <<>>
         /\ all[j].answers = orphans[j - (N + 1)]
  <2>. TAKE j \in (N + 1 + 1)..(N + 1 + K)
  <2>1. j - (N + 1) \in 1..K /\ all[j] = holders[j - (N + 1)]
    BY <1>8
  <2>. DEFINE k == j - (N + 1)
  <2>. HIDE DEF k
  <2>2. k \in 1..K => /\ holders[k].role = "tool" /\ holders[k].calls = <<>>
                      /\ holders[k].answers = orphans[k]
    BY <1>5
  <2>. QED  BY <2>1, <2>2 DEF k
<1>11. \A i, j \in (N + 1 + 1)..(N + 1 + K) : all[i].answers = all[j].answers => i = j
  <2>. TAKE i, j \in (N + 1 + 1)..(N + 1 + K)
  <2>. HAVE all[i].answers = all[j].answers
  <2>1. orphans[i - (N + 1)] = orphans[j - (N + 1)]
    BY <1>10
  <2>2. i - (N + 1) = j - (N + 1)
    BY <1>1, <1>8, <2>1
  <2>. QED  BY <1>6, <2>2
<1>12. ASSUME NEW id
       PROVE  (\E j \in (N + 1 + 1)..(N + 1 + K) : all[j].answers = id)
                <=> id \in Ids(m) \ Due(messages, c)
  <2>1. ASSUME NEW j \in (N + 1 + 1)..(N + 1 + K), all[j].answers = id
        PROVE  \E i \in 1..K : orphans[i] = id
    BY <1>8, <1>10, <2>1
  <2>2. ASSUME NEW i \in 1..K, orphans[i] = id
        PROVE  \E j \in (N + 1 + 1)..(N + 1 + K) : all[j].answers = id
    <3>1. all[N + 1 + i].answers = id
      BY <1>5, <1>6, <2>2
    <3>. QED  BY <1>9, <3>1
  <2>. QED  BY <1>1, <2>1, <2>2
<1>13. all[N + 1].role # "tool" /\ all[N + 1].calls = FilteredCalls(m)
  BY <1>4, <1>6
<1>14. Range(IdsOf(all[N + 1].calls)) = Ids(m)
  BY <1>13 DEF Ids
<1>15. N + 1 \in 1..Len(all)
  BY <1>5, <1>6
<1>16. Behind(all, N + 1, Due(messages, c))
  BY <1>6, <1>7, <1>10, <1>11, <1>12, <1>13, <1>14, <1>15 DEF Behind
<1>. QED  BY <1>13, <1>16 DEF all, N, m, Joined

\* What has become of the messages up to n, when the last call of them was c's.
Opened(messages, n, out, c, q) ==
  /\ c \in 1..n /\ messages[c].role # "tool"
  /\ \A k \in (c + 1)..n : messages[k].role = "tool"
  /\ Behind(out, q, Due(messages, n)) /\ out[q].calls = FilteredCalls(messages[c])

\* When no result follows, nothing is due for that call.
LEMMA NothingDue ==
  ASSUME NEW kinds, NEW versions, NEW messages \in Seq(MessagesOver(kinds, versions)),
         Blocks(messages), NEW n \in 1..Len(messages),
         n = Len(messages) \/ messages[n + 1].role # "tool",
         NEW out \in Seq(MessagesOver(kinds, versions)), NEW c, NEW q,
         Opened(messages, n, out, c, q)
  PROVE  WellUpTo(out, Len(out))
<1>1. /\ c \in 1..n /\ c \in 1..Len(messages)
      /\ Behind(out, q, Due(messages, n)) /\ out[q].calls = FilteredCalls(messages[c])
  BY DEF Opened
<1>2. Range(IdsOf(out[q].calls)) = Ids(messages[c])
  BY <1>1 DEF Ids
<1>3. ASSUME NEW k \in (n + 1)..Len(messages), messages[k].role = "tool"
      PROVE  messages[k].answers \notin Ids(messages[c])
  <2>. SUFFICES ASSUME messages[k].answers \in Ids(messages[c]) PROVE FALSE
    OBVIOUS
  <2>1. k \in 1..Len(messages)
    BY <1>1
  <2>2. \A l \in (c + 1)..k : messages[l].role = "tool"
    BY <1>1, <1>3, <2>1, AnswersBehind
  <2>3. n + 1 \in (c + 1)..k /\ n # Len(messages)
    BY <1>1
  <2>. QED  BY <2>2, <2>3
<1>4. Range(IdsOf(out[q].calls)) \ Due(messages, n) = Range(IdsOf(out[q].calls)) \ {}
  <2>1. \A id \in Due(messages, n) : id \notin Ids(messages[c])
    BY <1>3 DEF Due
  <2>. QED  BY <1>2, <2>1
<1>5. Behind(out, q, {})
  BY <1>1, <1>4 DEF Behind
<1>6. messages[c] \in MessagesOver(kinds, versions)
  BY <1>1
<1>7. \A k, l \in 1..Len(messages[c].calls) :
        messages[c].calls[k].id = messages[c].calls[l].id => k = l
  BY <1>1 DEF Blocks, IdsDiffer
<1>8. \A i, j \in 1..Len(IdsOf(out[q].calls)) :
        IdsOf(out[q].calls)[i] = IdsOf(out[q].calls)[j] => i = j
  <2>1. LET ids == IdsOf(FilteredCalls(messages[c]))
        IN  \A i, j \in 1..Len(ids) : ids[i] = ids[j] => i = j
    BY <1>6, <1>7, FilteredDiffer
  <2>. QED  BY <1>1, <2>1
<1>. QED  BY <1>5, <1>8, Closed

\* The next message is a result: of that call, and kept if the call is valid.
LEMMA Continues ==
  ASSUME NEW kinds, NEW versions, NEW messages \in Seq(MessagesOver(kinds, versions)),
         Blocks(messages), NEW n \in 1..(Len(messages) - 1), messages[n + 1].role = "tool",
         NEW out \in Seq(MessagesOver(kinds, versions)), NEW c, NEW q,
         Opened(messages, n, out, c, q)
  PROVE  Opened(messages, n + 1, out \o Repaired(messages, n + 1), c, q)
<1>. DEFINE i == n + 1
            m == messages[i]
            id == m.answers
            N == Len(messages)
<1>1. /\ c \in 1..n /\ c \in 1..N /\ messages[c].role # "tool" /\ i \in 1..N /\ N \in Nat
      /\ \A k \in (c + 1)..n : messages[k].role = "tool"
      /\ Behind(out, q, Due(messages, n)) /\ out[q].calls = FilteredCalls(messages[c])
  BY DEF Opened
<1>2. m \in MessagesOver(kinds, versions) /\ m.role = "tool" /\ m.calls = <<>>
  BY <1>1 DEF Blocks, Placed
<1>3. PICK j \in 1..(i - 1) : Responds(messages, j, i)
  BY <1>1, <1>2 DEF Blocks, Placed
<1>4. j = c
  <2>1. ~ (j < c)
    <3>. SUFFICES ASSUME j < c PROVE FALSE
      OBVIOUS
    <3>1. c \in (j + 1)..i
      BY <1>1, <1>3
    <3>. QED  BY <1>1, <1>3, <3>1 DEF Responds
  <2>2. ~ (c < j)
    <3>. SUFFICES ASSUME c < j PROVE FALSE
      OBVIOUS
    <3>1. j \in (c + 1)..n /\ j \in 1..N
      BY <1>1, <1>3
    <3>2. messages[j].calls = <<>>
      BY <1>1, <3>1 DEF Blocks, Placed
    <3>3. Len(messages[j].calls) = 0
      BY <3>2
    <3>. QED  BY <1>3, <3>3 DEF Responds
  <2>. QED  BY <1>1, <1>3, <2>1, <2>2
<1>5. id \in ValidIDs(messages) <=> id \in Ids(messages[c])
  <2>1. id \in ValidIDs(messages) <=> \E d \in 1..N : id \in Ids(messages[d])
    <3>1. N \in 0..N
      BY <1>1
    <3>. QED  BY <3>1, ValidAre
  <2>2. ASSUME NEW d \in 1..N, id \in Ids(messages[d])
        PROVE  d = c
    <3>1. d < i /\ \A k \in (d + 1)..i : messages[k].role = "tool"
      BY <1>1, <1>2, <2>2, AnswersBehind
    <3>2. ~ (d < c)
      <4>. SUFFICES ASSUME d < c PROVE FALSE
        OBVIOUS
      <4>1. c \in (d + 1)..i
        BY <1>1
      <4>. QED  BY <1>1, <3>1, <4>1
    <3>3. ~ (c < d)
      <4>. SUFFICES ASSUME c < d PROVE FALSE
        OBVIOUS
      <4>1. d \in (c + 1)..n
        BY <1>1, <3>1
      <4>2. messages[d].calls = <<>>
        BY <1>1, <4>1 DEF Blocks, Placed
      <4>3. messages[d] \in MessagesOver(kinds, versions) /\ Len(messages[d].calls) = 0
        BY <4>2
      <4>. QED  BY <2>2, <4>3, FilteredAre
    <3>. QED  BY <1>1, <3>2, <3>3
  <2>. QED  BY <1>1, <2>1, <2>2
<1>6. Due(messages, n + 1) = Due(messages, n) \ {id}
  <2>1. \A k \in (n + 1)..N : k = i \/ k \in (i + 1)..N
    BY <1>1
  <2>2. \A k \in (i + 1)..N : messages[k].role = "tool" => messages[k].answers # id
    <3>. TAKE k \in (i + 1)..N
    <3>. HAVE messages[k].role = "tool"
    <3>1. k \in 1..N /\ k # i
      BY <1>1
    <3>. QED  BY <1>1, <1>2, <3>1, AnswersOnce
  <2>3. (i + 1)..N \subseteq (n + 1)..N
    BY <1>1
  <2>. QED  BY <2>1, <2>2, <2>3 DEF Due
<1>7. id \in Due(messages, n)
  <2>1. i \in (n + 1)..N
    BY <1>1
  <2>. QED  BY <1>2, <2>1 DEF Due
<1>8. Range(IdsOf(out[q].calls)) = Ids(messages[c])
  BY <1>1 DEF Ids
<1>9. \A k \in (c + 1)..(n + 1) : messages[k].role = "tool"
  <2>1. \A k \in (c + 1)..(n + 1) : k = i \/ k \in (c + 1)..n
    BY <1>1
  <2>. QED  BY <1>1, <1>2, <2>1
<1>10. q \in 1..Len(out)
  BY <1>1 DEF Behind
<1>. HIDE DEF id
<1>11. CASE id \in Ids(messages[c])
  <2>1. Repaired(messages, i) = <<m>>
    BY <1>2, <1>5, <1>11 DEF Repaired, id
  <2>. HIDE DEF m
  <2>2. out \o <<m>> = Append(out, m) /\ Append(out, m)[q] = out[q]
    BY <1>2, <1>10
  <2>3. Behind(Append(out, m), q, Due(messages, n) \ {id})
    BY <1>1, <1>2, <1>7, <1>8, <1>11, Delivered DEF id
  <2>4. c \in 1..(n + 1)
    BY <1>1
  <2>5. out \o Repaired(messages, n + 1) = Append(out, m)
    BY <2>1, <2>2
  <2>. HIDE DEF i
  <2>6. Opened(messages, n + 1, Append(out, m), c, q)
    BY <1>1, <1>6, <1>9, <2>2, <2>3, <2>4 DEF Opened
  <2>. QED  BY <2>5, <2>6
<1>12. CASE id \notin Ids(messages[c])
  <2>1. Repaired(messages, i) = <<>>
    BY <1>2, <1>5, <1>12 DEF Repaired, id
  <2>2. out \o <<>> = out
    OBVIOUS
  <2>3. Range(IdsOf(out[q].calls)) \ Due(messages, n)
          = Range(IdsOf(out[q].calls)) \ Due(messages, n + 1)
    BY <1>6, <1>8, <1>12
  <2>4. Behind(out, q, Due(messages, n + 1))
    BY <1>1, <2>3 DEF Behind
  <2>5. c \in 1..(n + 1)
    BY <1>1
  <2>6. Opened(messages, n + 1, out, c, q)
    BY <1>1, <1>9, <2>4, <2>5 DEF Opened
  <2>. QED  BY <2>1, <2>2, <2>6
<1>. QED  BY <1>11, <1>12

\* sanitizeToolHistory leaves every history of this shape well formed.
THEOREM SanitizedAreWellFormed ==
  ASSUME NEW kinds, NEW versions, 0 \in versions,
         NEW messages \in Seq(MessagesOver(kinds, versions)), Blocks(messages)
  PROVE  WellFormed(Sanitize(messages))
<1>. DEFINE U == MessagesOver(kinds, versions)
            lists == [i \in DOMAIN messages |-> Repaired(messages, i)]
            N == Len(messages)
<1>1. N \in Nat /\ DOMAIN messages = 1..N
  OBVIOUS
<1>2. lists \in Seq(Seq(U)) /\ Len(lists) = N /\ \A n \in 1..N : lists[n] = Repaired(messages, n)
  <2>1. \A n \in 1..N : Repaired(messages, n) \in Seq(U)
    BY RepairedType
  <2>. QED  BY <1>1, <2>1
<1>3. PICK g \in [0..N -> Seq(U)] :
        /\ g[0] = <<>> /\ FlattenSeq(lists) = g[N]
        /\ \A n \in 1..N : g[n] = g[n - 1] \o lists[n]
  <2>. HIDE DEF lists, U, N
  <2>. QED  BY <1>2, Flattened
<1>. DEFINE good == {n \in 0..N : n = 0 \/ \E c, q : Opened(messages, n, g[n], c, q)}
<1>4. \A n \in 0..N : g[n] \in Seq(U)
  OBVIOUS
<1>. HIDE DEF U
<1>5. \A n \in good : n = N \/ messages[n + 1].role # "tool" => WellUpTo(g[n], Len(g[n]))
  <2>. TAKE n \in good
  <2>. HAVE n = N \/ messages[n + 1].role # "tool"
  <2>1. CASE n = 0
    <3>1. Len(g[0]) = 0 /\ 1..0 = {}
      BY <1>3
    <3>. QED  BY <2>1, <3>1 DEF WellUpTo
  <2>2. CASE n # 0
    <3>1. PICK c, q : Opened(messages, n, g[n], c, q)
      BY <2>2
    <3>2. n \in 1..N /\ g[n] \in Seq(U)
      BY <1>4, <2>2
    <3>. QED  BY <3>1, <3>2, NothingDue DEF U
  <2>. QED  BY <2>1, <2>2
<1>6. ASSUME NEW n \in 0..(N - 1), n \in good
      PROVE  n + 1 \in good
  <2>0. n + 1 \in 1..N /\ n + 1 \in 0..N /\ n \in 0..N /\ (n + 1) - 1 = n
    BY <1>1
  <2>1. /\ n + 1 \in 1..N /\ n + 1 \in 0..N
        /\ g[n + 1] = g[n] \o Repaired(messages, n + 1) /\ g[n] \in Seq(U)
    <3>1. lists[n + 1] = Repaired(messages, n + 1)
      BY <1>2, <2>0
    <3>. HIDE DEF lists
    <3>2. g[n + 1] = g[n] \o lists[n + 1]
      BY <1>3, <2>0
    <3>. QED  BY <1>4, <2>0, <3>1, <3>2
  <2>2. CASE messages[n + 1].role = "tool"
    <3>1. n # 0
      <4>. SUFFICES ASSUME n = 0 PROVE FALSE
        OBVIOUS
      <4>1. \E j \in 1..0 : TRUE
        BY <2>1, <2>2 DEF Blocks, Placed
      <4>. QED  BY <4>1
    <3>2. PICK c, q : Opened(messages, n, g[n], c, q)
      BY <1>6, <3>1
    <3>3. n \in 1..(N - 1)
      BY <1>1, <3>1
    <3>4. Opened(messages, n + 1, g[n + 1], c, q)
      BY <2>1, <2>2, <3>2, <3>3, Continues DEF U
    <3>. QED  BY <2>1, <3>4
  <2>3. CASE messages[n + 1].role # "tool"
    <3>1. WellUpTo(g[n], Len(g[n]))
      BY <1>5, <1>6, <2>3
    <3>2. /\ Behind(g[n + 1], Len(g[n]) + 1, Due(messages, n + 1))
          /\ g[n + 1][Len(g[n]) + 1].calls = FilteredCalls(messages[n + 1])
      <4>. DEFINE out == g[n]
                  c == n + 1
      <4>1. out \in Seq(MessagesOver(kinds, versions)) /\ WellUpTo(out, Len(out))
            /\ c \in 1..Len(messages) /\ messages[c].role # "tool"
        BY <2>1, <2>3, <3>1 DEF U
      <4>2. Joined(g[n + 1], out, Repaired(messages, c))
        BY <2>1 DEF Joined
      <4>. HIDE DEF out, c
      <4>3. /\ Behind(g[n + 1], Len(out) + 1, Due(messages, c))
            /\ g[n + 1][Len(out) + 1].calls = FilteredCalls(messages[c])
        BY <4>1, <4>2, Opens
      <4>. QED  BY <4>3 DEF out, c
    <3>3. n + 1 \in 1..(n + 1) /\ (n + 1 + 1)..(n + 1) = {}
      OBVIOUS
    <3>4. Opened(messages, n + 1, g[n + 1], n + 1, Len(g[n]) + 1)
      BY <2>3, <3>2, <3>3 DEF Opened
    <3>. QED  BY <2>1, <3>4
  <2>. QED  BY <2>2, <2>3
<1>7. 0 \in good
  BY <1>1
<1>8. N \in good
  <2>1. \A n \in 0..N : n \in good
    <3>. HIDE DEF good, N
    <3>. QED  BY <1>1, <1>6, <1>7, Climb
  <2>. QED  BY <1>1, <2>1
<1>9. WellUpTo(Sanitize(messages), Len(Sanitize(messages)))
  <2>1. Sanitize(messages) = g[N]
    BY <1>3 DEF Sanitize
  <2>2. WellUpTo(g[N], Len(g[N]))
    BY <1>5, <1>8
  <2>. QED  BY <2>1, <2>2
<1>. QED  BY <1>9 DEF WellUpTo, WellFormed, Block

----------------------------------------------------------------------------
\* The rest is made of different messages of a list.
MadeOf(rest, messages, at) ==
  /\ at \in [1..Len(rest) -> 1..Len(messages)]
  /\ \A i, j \in 1..Len(rest) : at[i] = at[j] => i = j
  /\ \A i \in 1..Len(rest) : rest[i] = messages[at[i]]

\* Of calls that differ, some differ.
LEMMA SomeDiffer ==
  ASSUME NEW kinds, NEW versions, NEW messages \in Seq(MessagesOver(kinds, versions)),
         IdsDiffer(messages), NEW rest \in Seq(MessagesOver(kinds, versions)),
         NEW at, MadeOf(rest, messages, at)
  PROVE  IdsDiffer(rest)
<1>0. /\ at \in [1..Len(rest) -> 1..Len(messages)]
      /\ \A i, j \in 1..Len(rest) : at[i] = at[j] => i = j
      /\ \A i \in 1..Len(rest) : rest[i] = messages[at[i]]
  BY DEF MadeOf
<1>. SUFFICES ASSUME NEW i \in 1..Len(rest), NEW j \in 1..Len(rest),
                     NEW k \in 1..Len(rest[i].calls), NEW l \in 1..Len(rest[j].calls),
                     rest[i].calls[k].id = rest[j].calls[l].id
              PROVE  i = j /\ k = l
  BY DEF IdsDiffer
<1>1. PICK x \in 1..Len(messages) : x = at[i] /\ rest[i] = messages[x]
  BY <1>0
<1>2. PICK y \in 1..Len(messages) : y = at[j] /\ rest[j] = messages[y]
  BY <1>0
<1>3. /\ k \in 1..Len(messages[x].calls) /\ l \in 1..Len(messages[y].calls)
      /\ messages[x].calls[k].id = messages[y].calls[l].id
  BY <1>1, <1>2
<1>4. x = y /\ k = l
  BY <1>3 DEF IdsDiffer
<1>5. at[i] = at[j]
  BY <1>1, <1>2, <1>4
<1>. QED  BY <1>0, <1>4, <1>5

\* What is left of a history that lost messages, the first of the rest being no
\* result, keeps that shape: behind its first messages, which are none, comes
\* what follows after as many as are lost.
LEMMA CutBlocks ==
  ASSUME NEW kinds, NEW versions, NEW messages \in Seq(MessagesOver(kinds, versions)),
         Blocks(messages), NEW lead \in Nat, NEW lost \in Nat,
         NEW rest \in Seq(MessagesOver(kinds, versions)),
         lead + lost <= Len(messages), Len(rest) = Len(messages) - lost,
         \A i \in 1..Len(rest) : rest[i] = messages[IF i <= lead THEN i ELSE i + lost],
         \A i \in 1..Len(rest) : i <= lead + 1 => rest[i].role # "tool"
  PROVE  Blocks(rest)
<1>. DEFINE N == Len(messages)
            R == Len(rest)
            from(i) == IF i <= lead THEN i ELSE i + lost
<1>1. N \in Nat /\ R \in Nat /\ R = N - lost
  OBVIOUS
<1>. HIDE DEF N, R
<1>2. \A i \in 1..R : from(i) \in 1..N
  BY <1>1 DEF N
<1>3. \A i, j \in 1..R : from(i) = from(j) => i = j
  BY <1>1
<1>4. \A i \in 1..R : rest[i] = messages[from(i)]
  BY DEF R
<1>5. IdsDiffer(rest)
  <2>. DEFINE at == [i \in 1..Len(rest) |-> from(i)]
  <2>1. at \in [1..Len(rest) -> 1..Len(messages)] /\ \A i \in 1..Len(rest) : at[i] = from(i)
    BY <1>2 DEF N, R
  <2>. HIDE DEF from, at
  <2>2. MadeOf(rest, messages, at)
    <3>1. \A i, j \in 1..Len(rest) : at[i] = at[j] => i = j
      BY <1>3, <2>1 DEF R
    <3>2. \A i \in 1..Len(rest) : rest[i] = messages[at[i]]
      BY <1>4, <2>1 DEF R
    <3>. QED  BY <2>1, <3>1, <3>2 DEF MadeOf
  <2>3. IdsDiffer(messages)
    BY DEF Blocks
  <2>. QED  BY <2>2, <2>3, SomeDiffer
<1>6. ASSUME NEW i \in 1..R, rest[i].role = "tool"
      PROVE  rest[i].calls = <<>> /\ \E j \in 1..(i - 1) : Responds(rest, j, i)
  <2>1. lead + 1 < i /\ from(i) = i + lost /\ lead + 1 \in 1..R
    BY <1>1, <1>6 DEF R
  <2>2. i + lost \in 1..N /\ rest[i] = messages[i + lost]
    BY <1>2, <1>4, <2>1
  <2>3. PICK j \in 1..(i + lost - 1) : Responds(messages, j, i + lost)
    BY <1>6, <2>2 DEF Blocks, Placed, N
  <2>4. /\ i + lost <= j + Len(messages[j].calls)
        /\ messages[i + lost].answers = messages[j].calls[i + lost - j].id
        /\ \A k \in (j + 1)..(i + lost) : messages[k].role = "tool"
    BY <2>3 DEF Responds
  <2>5. lead + 1 + lost <= j
    <3>1. from(lead + 1) = lead + 1 + lost /\ rest[lead + 1].role # "tool"
      BY <2>1 DEF R
    <3>2. messages[lead + 1 + lost].role # "tool"
      BY <1>4, <2>1, <3>1
    <3>3. lead + 1 + lost <= i + lost
      BY <1>1, <2>1
    <3>4. ~ (lead + 1 + lost \in (j + 1)..(i + lost))
      BY <2>4, <3>2
    <3>. QED  BY <3>3, <3>4
  <2>. DEFINE h == j - lost
  <2>6. h \in 1..(i - 1) /\ h \in 1..R /\ from(h) = j /\ h + lost = j
    BY <1>1, <2>5
  <2>7. rest[h] = messages[j]
    BY <1>4, <2>6
  <2>8. i + lost - j = i - h
    BY <1>1, <2>6
  <2>9. \A k \in (h + 1)..i : rest[k].role = "tool"
    <3>. TAKE k \in (h + 1)..i
    <3>1. k \in 1..R /\ from(k) = k + lost /\ k + lost \in (j + 1)..(i + lost)
      BY <1>1, <2>5
    <3>. QED  BY <1>4, <2>4, <3>1
  <2>10. Len(messages[j].calls) \in Nat
    <3>1. messages[j] \in MessagesOver(kinds, versions)
      BY <1>1, <2>2 DEF N
    <3>2. messages[j].calls \in Seq(CallsOver(kinds))
      BY <3>1 DEF MessagesOver
    <3>. QED  BY <3>2
  <2>11. i <= h + Len(messages[j].calls)
    BY <1>1, <2>4, <2>6, <2>10
  <2>. HIDE DEF h
  <2>12. Responds(rest, h, i)
    BY <2>2, <2>4, <2>7, <2>8, <2>9, <2>11 DEF Responds
  <2>13. rest[i].calls = <<>>
    BY <1>6, <2>2 DEF Blocks, Placed, N
  <2>. QED  BY <2>6, <2>12, <2>13
<1>. QED  BY <1>5, <1>6 DEF Blocks, Placed, R

\* EffectiveHistory begins with the first message or with a summary.
LEMMA EffectiveBlocks ==
  ASSUME NEW kinds, NEW versions, NEW messages \in Seq(MessagesOver(kinds, versions)),
         Blocks(messages)
  PROVE  EffectiveHistory(messages) \in Seq(MessagesOver(kinds, versions))
         /\ Blocks(EffectiveHistory(messages))
<1>. DEFINE found == {i \in 1..Len(messages) : messages[i].role = "summary"}
            marker == IF found # {} THEN Max(found) ELSE 0
            rest == SubSeq(messages, marker, Len(messages))
<1>1. found \in SUBSET (1..Len(messages)) /\ Len(messages) \in Nat
  OBVIOUS
<1>2. \A i \in found : messages[i].role = "summary"
  OBVIOUS
<1>3. EffectiveHistory(messages) = IF marker = 0 THEN messages ELSE rest
  BY DEF EffectiveHistory, SelectLastInSeq
<1>4. CASE found = {}
  BY <1>3, <1>4
<1>5. CASE found # {}
  <2>. HIDE DEF found
  <2>1. \E i \in found : \A j \in found : i >= j
    BY <1>1, <1>5, GreatestMember
  <2>2. Max(found) \in found
    BY <2>1 DEF Max
  <2>3. marker \in 1..Len(messages) /\ messages[marker].role = "summary"
    BY <1>1, <1>2, <1>5, <2>2
  <2>. HIDE DEF marker
  <2>4. marker # 0
    BY <2>3
  <2>. DEFINE lost == marker - 1
              zero == 0
  <2>5. lost \in Nat /\ zero \in Nat /\ zero + lost <= Len(messages)
    BY <1>1, <2>3
  <2>6. /\ rest \in Seq(MessagesOver(kinds, versions)) /\ Len(rest) = Len(messages) - lost
        /\ \A i \in 1..Len(rest) : rest[i] = messages[i + lost]
    BY <1>1, <2>3
  <2>7. \A i \in 1..Len(rest) : i <= zero + 1 => rest[i].role # "tool"
    <3>1. \A i \in 1..Len(rest) : i <= 1 => i + lost = marker
      BY <2>3
    <3>. HIDE DEF rest, lost
    <3>. QED  BY <2>3, <2>6, <3>1
  <2>8. \A i \in 1..Len(rest) : rest[i] = messages[IF i <= zero THEN i ELSE i + lost]
    <3>1. \A i \in 1..Len(rest) : ~ (i <= zero)
      OBVIOUS
    <3>. HIDE DEF rest, lost, zero
    <3>. QED  BY <2>6, <3>1
  <2>9. Blocks(rest)
    <3>. HIDE DEF rest, lost, zero
    <3>. QED  BY <2>5, <2>6, <2>7, <2>8, CutBlocks
  <2>. HIDE DEF rest
  <2>. QED  BY <1>3, <2>4, <2>6, <2>9
<1>. QED  BY <1>4, <1>5

\* EmergencyPrune keeps the summary that leads, and begins anew with a user.
LEMMA PrunedBlocks ==
  ASSUME NEW kinds, NEW versions, NEW messages \in Seq(MessagesOver(kinds, versions)),
         Blocks(messages), NEW cut \in Cuts(messages)
  PROVE  EmergencyPrune(messages, cut) \in Seq(MessagesOver(kinds, versions))
         /\ Blocks(EmergencyPrune(messages, cut))
<1>. DEFINE lead == Lead(messages)
            lost == cut - 1 - lead
            front == SubSeq(messages, 1, lead)
            tail == SubSeq(messages, cut, Len(messages))
            rest == front \o tail
            N == Len(messages)
<1>1. /\ lead \in {0, 1} /\ (lead = 1 => N # 0 /\ messages[1].role = "summary")
      /\ N \in Nat /\ cut \in 1..N /\ cut > lead /\ messages[cut].role = "user"
  BY DEF Lead, Cuts
<1>. HIDE DEF lead
<1>2. lost \in Nat /\ lead \in Nat /\ lead + lost <= N /\ lead <= N
  BY <1>1
<1>3. /\ front \in Seq(MessagesOver(kinds, versions)) /\ Len(front) = lead
      /\ \A i \in 1..lead : front[i] = messages[i]
  BY <1>1, <1>2
<1>4. /\ tail \in Seq(MessagesOver(kinds, versions)) /\ Len(tail) = N - cut + 1
      /\ \A i \in 1..Len(tail) : tail[i] = messages[cut + i - 1]
  BY <1>1
<1>. HIDE DEF front, tail, N
<1>5. /\ rest \in Seq(MessagesOver(kinds, versions)) /\ Len(rest) = lead + Len(tail)
      /\ \A i \in 1..lead : rest[i] = front[i]
      /\ \A i \in (lead + 1)..(lead + Len(tail)) : rest[i] = tail[i - lead]
  <2>1. front \in Seq(MessagesOver(kinds, versions)) /\ tail \in Seq(MessagesOver(kinds, versions))
    BY <1>3, <1>4
  <2>2. rest \in Seq(MessagesOver(kinds, versions)) /\ Len(rest) = Len(front) + Len(tail)
    BY <2>1
  <2>3. \A i \in 1..Len(front) : rest[i] = front[i]
    BY <2>1
  <2>4. \A i \in (Len(front) + 1)..(Len(front) + Len(tail)) : rest[i] = tail[i - Len(front)]
    BY <2>1
  <2>. HIDE DEF rest
  <2>. QED  BY <1>3, <2>2, <2>3, <2>4
<1>. HIDE DEF rest
<1>6. Len(rest) = N - lost
  BY <1>1, <1>4, <1>5
<1>7. \A i \in 1..Len(rest) : rest[i] = messages[IF i <= lead THEN i ELSE i + lost]
  <2>. TAKE i \in 1..Len(rest)
  <2>1. CASE i <= lead
    BY <1>2, <1>3, <1>5, <2>1
  <2>2. CASE ~ (i <= lead)
    <3>1. i \in (lead + 1)..(lead + Len(tail)) /\ i - lead \in 1..Len(tail)
      BY <1>1, <1>2, <1>4, <1>5, <2>2
    <3>2. cut + (i - lead) - 1 = i + lost
      BY <1>1, <1>2, <3>1
    <3>3. tail[i - lead] = messages[i + lost]
      BY <1>4, <3>1, <3>2
    <3>. QED  BY <1>5, <2>2, <3>1, <3>3
  <2>. QED  BY <2>1, <2>2
<1>8. \A i \in 1..Len(rest) : i <= lead + 1 => rest[i].role # "tool"
  <2>. TAKE i \in 1..Len(rest)
  <2>. HAVE i <= lead + 1
  <2>1. CASE i <= lead
    <3>1. i = 1 /\ lead = 1
      BY <1>1, <2>1
    <3>. QED  BY <1>1, <1>7, <3>1
  <2>2. CASE i = lead + 1
    <3>1. i + lost = cut /\ ~ (i <= lead)
      BY <1>1, <1>2, <2>2
    <3>. QED  BY <1>1, <1>7, <3>1
  <2>. QED  BY <1>1, <2>1, <2>2
<1>9. Blocks(rest)
  <2>. HIDE DEF lost
  <2>. QED  BY <1>2, <1>5, <1>6, <1>7, <1>8, CutBlocks DEF N
<1>. QED  BY <1>5, <1>9 DEF EmergencyPrune, rest, front, tail, lead

----------------------------------------------------------------------------
\* What is started waited for its turn: everything before it has finished or
\* belongs to the same read-only stretch.  Outside a batch nothing is started.
Stretches ==
  /\ DOMAIN batch \subseteq Nat \ {0} /\ started \subseteq DOMAIN batch
  /\ pc \notin {"running", "stopping"} => started = {}
  /\ \A j \in started : \A i \in 1..(j - 1) :
       i \in finished \/ (i \in started /\ Together(i, j))

\* The checkpoint of a run was taken on an untouched workspace, before any
\* batch that changes something runs.
Checkpoints ==
  /\ dirty => checkpointed
  /\ ~undoes
  /\ pc = "running" /\ Mutates(batch) => checkpointed

\* The actions that touch none of these variables but pc, or that reset all.
Elsewhere ==
  \/ Run \/ Drain \/ DrainFails \/ Exhausted \/ Compacts \/ Keeps \/ PrunesInEmergency
  \/ Fails \/ RoundFails \/ RepliesNothing \/ GateTrips \/ Answers \/ StaysSilent
  \/ Steered \/ Returns \/ StagnationStop \/ Crash

\* They leave the batch alone or close it, and forget the checkpoint only
\* together with what it was for.
LEMMA ElsewhereKeeps ==
  ASSUME Elsewhere
  PROVE  /\ pc' \notin {"batch", "running", "stopping"}
         /\ \/ batch' = <<>> /\ started' = {} /\ finished' = {}
            \/ UNCHANGED <<batch, started, finished>> /\ pc \notin {"running", "stopping"}
         /\ \/ dirty' = FALSE /\ undoes' = FALSE
            \/ UNCHANGED <<checkpointed, dirty, undoes>>
<1>1. CASE Run
  BY <1>1 DEF Run, Resting, Fresh, batchVars
<1>2. CASE Drain
  BY <1>2 DEF Drain, flagVars, batchVars
<1>3. CASE DrainFails \/ Exhausted \/ Fails \/ Crash
  BY <1>3 DEF DrainFails, Exhausted, Fails, Crash, Gone, Fresh, NoBatchOpen
<1>4. CASE Compacts
  BY <1>4 DEF Compacts, NextTurn, batchVars, ghostVars
<1>5. CASE Keeps
  <2>1. pc = "plan" /\ pc' = "call" /\ UNCHANGED <<flagVars, batchVars, dirty, undoes>>
    BY <1>5 DEF Keeps, Ready
  <2> QED BY <2>1 DEF flagVars, batchVars
<1>6. CASE PrunesInEmergency
  <2>1. pc = "plan" /\ pc' = "call" /\ UNCHANGED <<flagVars, batchVars, dirty, undoes>>
    BY <1>6 DEF PrunesInEmergency, Ready
  <2> QED BY <2>1 DEF flagVars, batchVars
<1>7. CASE RoundFails
  BY <1>7 DEF RoundFails, flagVars, batchVars, ghostVars
<1>8. CASE RepliesNothing \/ GateTrips
  BY <1>8 DEF RepliesNothing, GateTrips, NextTurn, batchVars, ghostVars
<1>9. CASE Answers \/ StaysSilent
  BY <1>9 DEF Answers, StaysSilent, Persists, batchVars, ghostVars
<1>10. CASE Steered \/ Returns
  BY <1>10 DEF Steered, Returns, NextTurn, flagVars, batchVars, ghostVars
<1>11. CASE StagnationStop
  BY <1>11 DEF StagnationStop, NoBatchOpen, flagVars, ghostVars
<1> QED
  BY <1>1, <1>2, <1>3, <1>4, <1>5, <1>6, <1>7, <1>8, <1>9, <1>10, <1>11 DEF Elsewhere

----------------------------------------------------------------------------
\* No step of runLoop, nor a crash, spoils the checkpoint.
LEMMA CheckpointsStep ==
  ASSUME Checkpoints, [Next]_vars, Stretches
  PROVE  Checkpoints'
<1>1. CASE Elsewhere
  <2>1. pc' # "running"
    BY <1>1, ElsewhereKeeps
  <2>2. (~dirty' /\ ~undoes') \/ UNCHANGED <<checkpointed, dirty, undoes>>
    BY <1>1, ElsewhereKeeps
  <2> QED BY <2>1, <2>2 DEF Checkpoints
<1>2. ASSUME NEW kinds \in Batches, NEW scheme \in Schemes, CallsTools(kinds, scheme)
      PROVE  Checkpoints'
  BY <1>2 DEF CallsTools, Checkpoints, ghostVars
<1>3. CASE Begin
  BY <1>3 DEF Begin, Checkpoints, Mutates, batchVars
<1>4. CASE StartCall
  <2>1. PICK j \in DOMAIN batch : dirty' = (dirty \/ batch[j].kind \notin ReadOnly)
    BY <1>4 DEF StartCall
  <2>2. /\ pc = "running"
        /\ UNCHANGED <<pc, batch, checkpointed, undoes>>
    BY <1>4 DEF StartCall, flagVars
  <2> QED BY <2>1, <2>2 DEF Checkpoints, Mutates
<1>5. CASE FinishCall
  BY <1>5 DEF FinishCall, Checkpoints, Mutates, flagVars, ghostVars
<1>6. CASE StoreResult
  <2>1. pc = "running" /\ UNCHANGED <<checkpointed, dirty, undoes>>
    BY <1>6 DEF StoreResult, ghostVars
  <2>2. pc' # "running" \/ UNCHANGED <<pc, batch>>
    BY <1>6 DEF StoreResult, NextTurn
  <2> QED BY <2>1, <2>2 DEF Checkpoints, Mutates
<1>7. CASE QueueSteering \/ UNCHANGED vars
  BY <1>7 DEF QueueSteering, Checkpoints, Mutates, vars, flagVars, batchVars, ghostVars
<1> QED
  BY <1>1, <1>2, <1>3, <1>4, <1>5, <1>6, <1>7 DEF Next, RunStep, Elsewhere

\* No step lets a call overtake one it has to wait for (runToolBatch).
LEMMA StretchesStep ==
  ASSUME Stretches, [Next]_vars
  PROVE  Stretches'
<1>1. CASE Elsewhere
  BY <1>1, ElsewhereKeeps DEF Stretches, Together
<1>2. ASSUME NEW kinds \in Batches, NEW scheme \in Schemes, CallsTools(kinds, scheme)
      PROVE  Stretches'
  <2>1. DOMAIN kinds \subseteq Nat \ {0}
    BY BatchAssumption
  <2>2. pc = "call" /\ pc' = "batch" /\ DOMAIN batch' = DOMAIN kinds /\ started' = started
    BY <1>2 DEF CallsTools
  <2> QED BY <2>1, <2>2 DEF Stretches
<1>3. CASE Begin
  BY <1>3 DEF Begin, Stretches, batchVars
<1>4. CASE StartCall
  <2>1. PICK j \in DOMAIN batch \ started : MayStart(j) /\ started' = started \cup {j}
    BY <1>4 DEF StartCall
  <2>2. pc = "running" /\ UNCHANGED <<pc, batch, finished>>
    BY <1>4 DEF StartCall
  <2> QED BY <2>1, <2>2 DEF Stretches, MayStart, Together
<1>5. CASE FinishCall
  <2>1. pc = "running" /\ finished \subseteq finished' /\ UNCHANGED <<pc, batch, started>>
    BY <1>5 DEF FinishCall
  <2> QED BY <2>1 DEF Stretches, Together
<1>6. CASE StoreResult
  <2>1. \/ UNCHANGED <<finished, batch, started>> /\ pc' \in {"running", "stopping"}
        \/ batch' = <<>> /\ started' = {}
    BY <1>6 DEF StoreResult, NoBatchOpen
  <2> QED BY <2>1 DEF Stretches, Together
<1>7. CASE QueueSteering \/ UNCHANGED vars
  BY <1>7 DEF QueueSteering, Stretches, Together, vars, batchVars
<1> QED
  BY <1>1, <1>2, <1>3, <1>4, <1>5, <1>6, <1>7 DEF Next, RunStep, Elsewhere

\* Both hold in every reachable state of the agent loop.
LEMMA Invariance == Spec => [](Stretches /\ Checkpoints)
<1>1. Init => Stretches /\ Checkpoints
  BY DEF Init, Stretches, Checkpoints
<1>2. Stretches /\ Checkpoints /\ [Next]_vars => (Stretches /\ Checkpoints)'
  BY StretchesStep, CheckpointsStep
<1> QED
  BY <1>1, <1>2, PTL DEF Spec

\* Whatever a run does, and however often it compacts, fails or is steered,
\* its one checkpoint precedes its first change: rewinding undoes the run.
THEOREM RewindIsComplete == Spec => []RewindUndoesRun
<1>1. Checkpoints => RewindUndoesRun
  BY DEF Checkpoints, RewindUndoesRun
<1> QED
  BY <1>1, Invariance, PTL

\* In every batch, whatever its stretches and their limit, a call that may
\* change something is under way only while no other call is.
THEOREM MutatorsRunAlone == Spec => []MutatorsAlone
<1>1. Stretches => MutatorsAlone
  <2> SUFFICES ASSUME Stretches, NEW i \in started \ finished, batch[i].kind \notin ReadOnly,
                      NEW j \in started \ finished, j # i
               PROVE  FALSE
    BY DEF MutatorsAlone
  <2>1. i \in Nat /\ j \in Nat /\ (i < j \/ j < i)
    BY DEF Stretches
  <2>2. CASE i < j
    BY <2>1, <2>2 DEF Stretches, Together
  <2>3. CASE j < i
    BY <2>1, <2>3 DEF Stretches, Together
  <2> QED BY <2>1, <2>2, <2>3
<1> QED
  BY <1>1, Invariance, PTL
----------------------------------------------------------------------------
\* What the variables hold.
Asked == CallsOver(Kinds)
Messages == MessagesOver(Kinds, Versions \cup {0, Min(Versions)})
Types ==
  /\ hist \in Seq(Messages) /\ version \in Versions \cup {0, Min(Versions)}
  /\ queue \in Nat /\ turn \in Nat /\ round \in Nat /\ seen \in Nat
  /\ batch \in Seq(Asked) /\ stored \in Nat

\* The batch being executed: its results are stored from the first on, and one
\* is missing while it runs.
Batching ==
  /\ started \subseteq DOMAIN batch /\ finished \subseteq started
  /\ pc \notin {"batch", "running", "stopping"} => batch = <<>>
  /\ pc \notin {"running", "stopping"} => stored = 0 /\ started = {}
  /\ pc \in {"batch", "running"} => stored < Len(batch)

LEMMA Kept ==
  /\ User \in Messages /\ Text \in Messages /\ Summary \in Messages
  /\ \A calls \in Seq(Asked) : Calling(calls) \in Messages
  /\ \A id \in Nat \X Nat : Result(id) \in Messages
  /\ \A v \in Versions \cup {0, Min(Versions)} : Breadcrumb(v) \in Messages
BY DEF User, Text, Summary, Calling, Result, Breadcrumb, Message, NoCall, Messages, MessagesOver, CallsOver, Asked

\* The steering messages that n steps of QueueSteering left.
LEMMA Steering ==
  ASSUME NEW n \in Nat, hist \in Seq(Messages)
  PROVE  /\ hist \o [i \in 1..n |-> User] \in Seq(Messages)
         /\ Len(hist \o [i \in 1..n |-> User]) = Len(hist) + n
<1>1. [i \in 1..n |-> User] \in Seq(Messages) /\ Len([i \in 1..n |-> User]) = n
  BY Kept
<1> QED BY <1>1

LEMMA TypesElsewhere ==
  ASSUME Types, Elsewhere \/ QueueSteering \/ UNCHANGED vars
  PROVE  Types'
<1> USE DEF Types
<1>1. CASE Run
  BY <1>1, Kept DEF Run, Fresh, envVars, callVars, batchVars
<1>2. CASE Drain
  <2>1. hist' \in Seq(Messages)
    BY <1>2, Steering DEF Drain
  <2> QED BY <1>2, <2>1 DEF Drain, callVars, batchVars
<1>3. CASE DrainFails
  <2>1. PICK n \in 0..(queue - 1) : hist' = hist \o [i \in 1..n |-> User]
    BY <1>3 DEF DrainFails
  <2>2. n \in Nat
    OBVIOUS
  <2>3. hist' \in Seq(Messages)
    BY <2>1, <2>2, Steering
  <2> QED BY <1>3, <2>3 DEF DrainFails, Gone, Fresh, NoCallOpen, NoBatchOpen
<1>4. CASE Exhausted \/ Fails \/ Crash
  <2>1. UNCHANGED <<hist, version>> /\ queue' \in Nat
    BY <1>4 DEF Exhausted, Fails, Crash, envVars
  <2>2. Gone
    BY <1>4 DEF Exhausted, Fails, Crash
  <2> QED BY <2>1, <2>2 DEF Gone, Fresh, NoCallOpen, NoBatchOpen
<1>5. CASE Compacts
  BY <1>5, Kept DEF Compacts, NextTurn, envVars, callVars, batchVars, ghostVars
<1>6. ASSUME NEW request, Ready(request)
      PROVE  Types'
  <2>1. version' \in Versions \cup {0, Min(Versions)}
    BY <1>6 DEF Ready, Load
  <2>2. hist' \in Seq(Messages)
    BY <1>6, <2>1, Kept DEF Ready
  <2> QED BY <1>6, <2>1, <2>2 DEF Ready, batchVars
<1>7. CASE Keeps \/ PrunesInEmergency
  BY <1>7, <1>6 DEF Keeps, PrunesInEmergency
<1>8. CASE RoundFails
  BY <1>8 DEF RoundFails, envVars, batchVars, ghostVars
<1>9. CASE RepliesNothing
  BY <1>9 DEF RepliesNothing, NextTurn, NoCallOpen, envVars, batchVars, ghostVars
<1>10. CASE GateTrips
  BY <1>10, Kept DEF GateTrips, NextTurn, NoCallOpen, envVars, batchVars, ghostVars
<1>11. CASE Answers \/ StaysSilent
  <2>1. /\ hist' = Append(hist, Text) /\ NoCallOpen
        /\ UNCHANGED <<envVars, turn, batchVars, ghostVars>>
    BY <1>11 DEF Answers, StaysSilent, Persists
  <2>2. hist' \in Seq(Messages)
    BY <2>1, Kept
  <2> QED BY <2>1, <2>2 DEF NoCallOpen, envVars, batchVars, ghostVars
<1>12. CASE Steered
  <2>1. hist' \in Seq(Messages)
    BY <1>12, Steering DEF Steered
  <2> QED BY <1>12, <2>1 DEF Steered, NextTurn, callVars, batchVars, ghostVars
<1>13. CASE Returns \/ UNCHANGED vars
  BY <1>13 DEF Returns, vars, envVars, callVars, batchVars, ghostVars
<1>14. CASE StagnationStop
  BY <1>14, Kept DEF StagnationStop, NoBatchOpen, envVars, callVars, ghostVars
<1>15. CASE QueueSteering
  BY <1>15 DEF QueueSteering, callVars, batchVars, ghostVars
<1> QED
  BY <1>1, <1>2, <1>3, <1>4, <1>5, <1>7, <1>8, <1>9, <1>10, <1>11, <1>12, <1>13, <1>14, <1>15
  DEF Elsewhere

\* The calls of a batch, and the message that makes them.
LEMMA AskedFor ==
  ASSUME Types, NEW kinds \in Batches, NEW scheme \in Schemes, CallsTools(kinds, scheme)
  PROVE  /\ batch' \in Seq(Asked) /\ Len(batch') = Len(kinds) /\ Len(kinds) > 0
         /\ hist' = Append(hist, Calling(batch'))
<1> DEFINE Id(i) == IF scheme = "fresh" THEN <<Len(hist) + 1, i>> ELSE <<0, i>>
           calls == [i \in DOMAIN kinds |-> [id |-> Id(i), kind |-> kinds[i]]]
<1>1. kinds \in Seq(Kinds) /\ Len(kinds) > 0
  BY BatchAssumption
<1>2. Len(hist) \in Nat
  BY DEF Types
<1>3. \A i \in DOMAIN kinds : Id(i) \in Nat \X Nat /\ kinds[i] \in Kinds
  BY <1>1, <1>2
<1>4. \A i \in DOMAIN kinds : [id |-> Id(i), kind |-> kinds[i]] \in Asked
  BY <1>3 DEF Asked, CallsOver
<1>5. calls \in Seq(Asked) /\ Len(calls) = Len(kinds)
  <2> HIDE DEF Id
  <2> QED BY <1>1, <1>4
<1>6. batch' = calls /\ hist' = Append(hist, Calling(calls))
  BY DEF CallsTools
<1> QED BY <1>1, <1>5, <1>6

\* What it leaves alone and where it goes.
LEMMA StoreMoves ==
  ASSUME StoreResult
  PROVE  /\ pc = "running" /\ finished = DOMAIN batch
         /\ hist' = Append(hist, Result(batch[stored + 1].id))
         /\ UNCHANGED <<envVars, callVars, seen>>
         /\ \/ /\ pc' = "stopping" /\ stored' = stored + 1
               /\ UNCHANGED <<turn, batch, started, finished>>
            \/ stored + 1 = Len(batch) /\ NextTurn /\ NoBatchOpen
            \/ /\ stored + 1 # Len(batch) /\ stored' = stored + 1
               /\ UNCHANGED <<pc, turn, batch, started, finished>>
BY DEF StoreResult, ghostVars

LEMMA TypesStep ==
  ASSUME Types, Batching, [Next]_vars
  PROVE  Types'
<1>1. CASE Elsewhere \/ QueueSteering \/ UNCHANGED vars
  BY <1>1, TypesElsewhere
<1>2. ASSUME NEW kinds \in Batches, NEW scheme \in Schemes, CallsTools(kinds, scheme)
      PROVE  Types'
  <2>1. batch' \in Seq(Asked) /\ hist' = Append(hist, Calling(batch'))
    BY <1>2, AskedFor
  <2>2. Calling(batch') \in Messages
    BY <2>1, Kept
  <2>3. hist' \in Seq(Messages)
    BY <2>1, <2>2 DEF Types
  <2> QED BY <1>2, <2>1, <2>3 DEF Types, CallsTools, NoCallOpen, envVars, ghostVars
<1>3. CASE Begin
  BY <1>3 DEF Begin, Types, envVars, callVars, batchVars
<1>4. CASE StartCall \/ FinishCall
  BY <1>4 DEF StartCall, FinishCall, Types, envVars, callVars, ghostVars
<1>5. CASE StoreResult
  <2>1. stored + 1 \in DOMAIN batch
    BY <1>5, StoreMoves DEF Types, Batching
  <2>2. batch[stored + 1] \in Asked
    BY <2>1 DEF Types
  <2>3. Result(batch[stored + 1].id) \in Messages
    BY <2>2, Kept DEF Asked, CallsOver
  <2>4. hist' \in Seq(Messages)
    BY <1>5, <2>3, StoreMoves DEF Types
  <2>5. batch' \in Seq(Asked) /\ turn' \in Nat /\ stored' \in Nat
    <3>1. stored + 1 \in Nat /\ turn + 1 \in Nat /\ <<>> \in Seq(Asked)
      BY DEF Types
    <3>2. /\ batch' = batch \/ batch' = <<>>
          /\ turn' = turn \/ turn' = turn + 1
          /\ stored' = stored + 1 \/ stored' = 0
      BY <1>5, StoreMoves DEF NextTurn, NoBatchOpen
    <3>3. batch' \in Seq(Asked)
      BY <3>1, <3>2 DEF Types
    <3>4. turn' \in Nat
      BY <3>1, <3>2 DEF Types
    <3>5. stored' \in Nat
      BY <3>1, <3>2 DEF Types
    <3> QED BY <3>3, <3>4, <3>5
  <2>6. UNCHANGED <<queue, version, round, seen>>
    BY <1>5, StoreMoves DEF envVars, callVars
  <2> QED BY <2>4, <2>5, <2>6 DEF Types
<1> QED
  BY <1>1, <1>2, <1>3, <1>4, <1>5 DEF Next, RunStep, Elsewhere

\* Calls start and finish within their batch, results follow in its order.
LEMMA BatchingStep ==
  ASSUME Types, Batching, [Next]_vars
  PROVE  Batching'
<1>1. CASE Elsewhere
  <2>1. CASE Run \/ Drain \/ Compacts \/ RoundFails \/ RepliesNothing \/ GateTrips \/ Answers
             \/ StaysSilent \/ Steered \/ Returns
    BY <2>1 DEF Batching, Run, Drain, Compacts, RoundFails, RepliesNothing, GateTrips, Answers,
                StaysSilent, Steered, Returns, NextTurn, Persists, Resting, batchVars
  <2>2. CASE Keeps \/ PrunesInEmergency
    BY <2>2 DEF Batching, Keeps, PrunesInEmergency, Ready, batchVars
  <2>3. CASE DrainFails \/ Exhausted \/ Fails \/ StagnationStop \/ Crash
    BY <2>3 DEF Batching, DrainFails, Exhausted, Fails, StagnationStop, Crash, Gone, NoBatchOpen
  <2> QED BY <1>1, <2>1, <2>2, <2>3 DEF Elsewhere
<1>2. ASSUME NEW kinds \in Batches, NEW scheme \in Schemes, CallsTools(kinds, scheme)
      PROVE  Batching'
  <2>1. Len(batch') > 0
    BY <1>2, AskedFor
  <2>2. pc = "call" /\ pc' = "batch" /\ UNCHANGED <<started, finished, stored>>
    BY <1>2 DEF CallsTools
  <2> QED BY <2>1, <2>2 DEF Batching
<1>3. CASE Begin
  BY <1>3 DEF Begin, Batching, batchVars
<1>4. CASE StartCall \/ FinishCall
  BY <1>4 DEF StartCall, FinishCall, Batching
<1>5. CASE StoreResult
  BY <1>5, StoreMoves DEF Batching, Types, NextTurn, NoBatchOpen
<1>6. CASE QueueSteering \/ UNCHANGED vars
  BY <1>6 DEF QueueSteering, Batching, vars, batchVars
<1> QED
  BY <1>1, <1>2, <1>3, <1>4, <1>5, <1>6 DEF Next, RunStep, Elsewhere

LEMMA Typed == Spec => [](Types /\ Batching)
<1>1. Init => Types /\ Batching
  BY DEF Init, Types, Batching
<1>2. Types /\ Batching /\ [Next]_vars => (Types /\ Batching)'
  BY TypesStep, BatchingStep
<1> QED
  BY <1>1, <1>2, PTL DEF Spec
----------------------------------------------------------------------------
\* From the request on, what the user said is in it.
Covered ==
  pc \notin {"idle", "head", "failed", "blocked"} =>
    \A i \in (seen + 1)..Len(hist) : hist[i].role # "user"

\* Messages that are nobody's saying cover as much.
LEMMA CoveredByMore ==
  ASSUME Types, NEW m, m.role # "user", hist' = Append(hist, m), seen' = seen,
         \A i \in (seen + 1)..Len(hist) : hist[i].role # "user"
  PROVE  \A i \in (seen' + 1)..Len(hist') : hist'[i].role # "user"
<1> SUFFICES ASSUME NEW i \in (seen + 1)..Len(hist')
             PROVE  hist'[i].role # "user"
  OBVIOUS
<1>1. Len(hist') = Len(hist) + 1 /\ i \in Nat /\ Len(hist) \in Nat
  BY DEF Types
<1>2. CASE i = Len(hist) + 1
  BY <1>2 DEF Types
<1>3. CASE i \in (seen + 1)..Len(hist)
  BY <1>3 DEF Types
<1> QED BY <1>1, <1>2, <1>3 DEF Types

LEMMA Spoken ==
  /\ Text.role # "user"
  /\ \A calls : Calling(calls).role # "user"
  /\ \A id : Result(id).role # "user"
  /\ \A v : Breadcrumb(v).role # "user"
BY DEF Text, Calling, Result, Breadcrumb, Message

LEMMA CoveredStep ==
  ASSUME Types, Covered, [Next]_vars
  PROVE  Covered'
<1>1. CASE Drain
  BY <1>1 DEF Drain, Covered, Types
<1>2. CASE Run \/ Compacts \/ RepliesNothing \/ GateTrips \/ Steered
           \/ DrainFails \/ Exhausted \/ Fails \/ StagnationStop \/ Crash
  BY <1>2 DEF Covered, Run, Compacts, RepliesNothing, GateTrips, Steered, DrainFails,
              Exhausted, Fails, StagnationStop, Crash, NextTurn
<1>3. CASE Keeps \/ PrunesInEmergency
  <2>1. /\ pc = "plan" /\ seen' = seen
        /\ hist' = hist \/ \E v : hist' = Append(hist, Breadcrumb(v))
    BY <1>3 DEF Keeps, PrunesInEmergency, Ready
  <2> QED BY <2>1, CoveredByMore, Spoken DEF Covered
<1>4. CASE RoundFails \/ Returns \/ Begin \/ StartCall \/ FinishCall
  BY <1>4 DEF Covered, RoundFails, Returns, Begin, StartCall, FinishCall, ghostVars
<1>5. CASE Answers \/ StaysSilent
  <2>1. pc = "call" /\ hist' = Append(hist, Text) /\ seen' = seen
    BY <1>5 DEF Answers, StaysSilent, Persists, ghostVars
  <2> QED BY <2>1, CoveredByMore, Spoken DEF Covered
<1>6. ASSUME NEW kinds \in Batches, NEW scheme \in Schemes, CallsTools(kinds, scheme)
      PROVE  Covered'
  <2>1. pc = "call" /\ seen' = seen
    BY <1>6 DEF CallsTools, ghostVars
  <2>2. hist' = Append(hist, Calling(batch'))
    BY <1>6, AskedFor
  <2> QED BY <2>1, <2>2, CoveredByMore, Spoken DEF Covered
<1>7. CASE StoreResult
  BY <1>7, StoreMoves, CoveredByMore, Spoken DEF Covered
<1>8. CASE QueueSteering \/ UNCHANGED vars
  BY <1>8 DEF Covered, QueueSteering, vars, ghostVars
<1> QED
  BY <1>1, <1>2, <1>3, <1>4, <1>5, <1>6, <1>7, <1>8 DEF Next, RunStep

\* However users steer, and whatever a run retries, compacts or prunes, it
\* returns no answer before each of their messages was part of a request.
THEOREM AnswersCoverUsers == Spec => []AnswerCoversUsers
<1>1. Init => Covered
  BY DEF Init, Covered
<1>2. Types /\ Covered /\ [Next]_vars => Covered'
  BY CoveredStep
<1>3. Covered => AnswerCoversUsers
  BY DEF Covered, AnswerCoversUsers
<1> QED
  BY <1>1, <1>2, <1>3, Typed, PTL DEF Spec

----------------------------------------------------------------------------
\* The calls started, or finished, are finitely many, and one more adds one.
LEMMA HowMany ==
  ASSUME NEW n \in Nat, NEW Done \in SUBSET (1..n)
  PROVE  IsFiniteSet(Done) /\ Cardinality(Done) \in Nat
<1>1. IsFiniteSet(1..n)
  BY FS_Interval
<1>2. IsFiniteSet(Done)
  BY <1>1, FS_Subset
<1> QED BY <1>2, FS_CardinalityType

LEMMA OneMore ==
  ASSUME NEW n \in Nat, NEW Done \in SUBSET (1..n), NEW j \in (1..n) \ Done
  PROVE  Cardinality(Done \cup {j}) = Cardinality(Done) + 1
BY HowMany, FS_AddElement

\* Every step of a run, for every budget, batch and number of rounds, uses up
\* its turn or what is left of it.
LEMMA EveryStepDown ==
  ASSUME Types, Batching, RunStep
  PROVE  \/ turn' > turn \/ Phase' < Phase
         \/ (Phase' = Phase /\ Effort' < Effort)
<1>1. CASE Drain \/ Exhausted
  BY <1>1 DEF Drain, Exhausted, Phase
<1>2. CASE DrainFails \/ Fails
  BY <1>2 DEF DrainFails, Fails, Phase
<1>3. CASE Compacts \/ RepliesNothing \/ GateTrips \/ Steered
  BY <1>3 DEF Compacts, RepliesNothing, GateTrips, Steered, NextTurn, Types
<1>4. CASE Keeps \/ PrunesInEmergency
  BY <1>4 DEF Keeps, PrunesInEmergency, Ready, Phase
<1>5. CASE RoundFails
  <2>1. pc = "call" /\ pc' = "call" /\ round' = round + 1
    BY <1>5 DEF RoundFails
  <2>2. Rounds \in Nat /\ round \in Nat
    BY BudgetAssumption DEF Types
  <2> QED BY <2>1, <2>2 DEF Phase, Effort
<1>6. CASE Answers \/ StaysSilent
  BY <1>6 DEF Answers, StaysSilent, Persists, Phase
<1>7. CASE Returns
  BY <1>7 DEF Returns, Phase
<1>8. ASSUME NEW kinds \in Batches, NEW scheme \in Schemes, CallsTools(kinds, scheme)
      PROVE  Phase' < Phase
  BY <1>8 DEF CallsTools, Phase
<1>9. CASE Begin
  BY <1>9 DEF Begin, Phase
<1>10. CASE StartCall
  <2>1. PICK j \in DOMAIN batch \ started : started' = started \cup {j}
    BY <1>10 DEF StartCall
  <2>2. pc = "running" /\ UNCHANGED <<pc, batch, finished, stored>>
    BY <1>10 DEF StartCall
  <2>3. Len(batch) \in Nat /\ DOMAIN batch = 1..Len(batch) /\ stored \in Nat
    BY DEF Types
  <2>4. Cardinality(started) \in Nat /\ Cardinality(started') = Cardinality(started) + 1
    BY <2>1, <2>3, OneMore, HowMany DEF Batching
  <2>5. Cardinality(finished) \in Nat
    BY <2>3, HowMany DEF Batching
  <2> QED BY <2>2, <2>3, <2>4, <2>5 DEF Phase, Effort
<1>11. CASE FinishCall
  <2>1. PICK j \in started \ finished : finished' = finished \cup {j}
    BY <1>11 DEF FinishCall
  <2>2. pc = "running" /\ UNCHANGED <<pc, batch, started, stored>>
    BY <1>11 DEF FinishCall
  <2>3. Len(batch) \in Nat /\ DOMAIN batch = 1..Len(batch) /\ stored \in Nat
    BY DEF Types
  <2>4. Cardinality(finished) \in Nat /\ Cardinality(finished') = Cardinality(finished) + 1
    BY <2>1, <2>3, OneMore, HowMany DEF Batching
  <2>5. Cardinality(started) \in Nat
    BY <2>3, HowMany DEF Batching
  <2> QED BY <2>2, <2>3, <2>4, <2>5 DEF Phase, Effort
<1>12. CASE StoreResult
  <2>1. CASE pc' = "stopping" \/ NextTurn
    BY <1>12, <2>1, StoreMoves DEF Phase, NextTurn, Types
  <2>2. CASE UNCHANGED <<pc, batch, started, finished>> /\ stored' = stored + 1
    <3>1. Len(batch) \in Nat /\ DOMAIN batch = 1..Len(batch) /\ stored \in Nat
      BY DEF Types
    <3>2. Cardinality(started) \in Nat /\ Cardinality(finished) \in Nat
      BY <3>1, HowMany DEF Batching
    <3>3. pc = "running"
      BY <1>12, StoreMoves
    <3> QED BY <2>2, <3>1, <3>2, <3>3 DEF Phase, Effort
  <2> QED BY <1>12, <2>1, <2>2, StoreMoves
<1>13. CASE StagnationStop
  BY <1>13 DEF StagnationStop, Phase
<1> QED
  BY <1>1, <1>2, <1>3, <1>4, <1>5, <1>6, <1>7, <1>8, <1>9, <1>10, <1>11, <1>12, <1>13
  DEF RunStep

\* So no compaction, retry, nudge, tool or result is free, whatever the model,
\* the gateway and the store do.
THEOREM RunsUseUpTheirBudget == Spec => RunsDown
<1>1. Types /\ Batching /\ [Next]_vars =>
        [RunStep => \/ turn' > turn \/ Phase' < Phase
                    \/ (Phase' = Phase /\ Effort' < Effort)]_vars
  BY EveryStepDown
<1> QED
  BY <1>1, Typed, PTL DEF Spec, RunsDown
----------------------------------------------------------------------------
\* No batch is open: nothing is owed a result.
AtRest == pc \notin {"batch", "running", "stopping"}

\* Appending one message that is no result and makes no calls.
LEMMA SaysOne ==
  ASSUME Types, AtRest', NEW m \in Messages, m.role # "tool", m.calls = <<>>,
         hist' = Append(hist, m)
  PROVE  T!Say
<1>1. Len(hist') = Len(hist) + 1 /\ Len(hist) \in Nat /\ hist' \in Seq(Messages)
  BY DEF Types
<1>2. SubSeq(hist, 1, Len(hist)) = SubSeq(hist', 1, Len(hist))
  BY <1>1 DEF Types
<1>3. \A i \in (Len(hist) + 1)..Len(hist') : i = Len(hist) + 1 /\ hist'[i] = m
  BY <1>1 DEF Types
<1> QED BY <1>1, <1>2, <1>3 DEF T!Say, T!IsStrictPrefix, T!IsPrefix, AtRest

\* Appending what the users said meanwhile, which may be nothing.
LEMMA SaysUsers ==
  ASSUME Types, AtRest', NEW n \in Nat, hist' = hist \o [i \in 1..n |-> User]
  PROVE  T!Say \/ UNCHANGED hist
<1> DEFINE more == [i \in 1..n |-> User]
<1>1. more \in Seq(Messages) /\ Len(more) = n /\ \A i \in 1..n : more[i] = User
  BY Kept
<1> HIDE DEF more
<1>2. hist' = hist \o more
  BY DEF more
<1>3. Len(hist') = Len(hist) + n /\ Len(hist) \in Nat
  BY <1>1, <1>2 DEF Types
<1>4. CASE n = 0
  BY <1>1, <1>2, <1>4 DEF Types
<1>5. CASE n # 0
  <2>1. SubSeq(hist, 1, Len(hist)) = SubSeq(hist', 1, Len(hist))
    BY <1>1, <1>2, <1>3 DEF Types
  <2>2. \A i \in (Len(hist) + 1)..Len(hist') : hist'[i] = User
    BY <1>1, <1>2, <1>3 DEF Types
  <2>3. User.role # "tool" /\ User.calls = <<>>
    BY DEF User, Message
  <2> QED BY <1>3, <1>5, <2>1, <2>2, <2>3 DEF T!Say, T!IsStrictPrefix, T!IsPrefix, AtRest
<1> QED BY <1>4, <1>5

\* The history stays, and no batch is open any more.
LEMMA Quiet ==
  ASSUME AtRest', UNCHANGED hist
  PROVE  T!Abandon
BY DEF AtRest, T!Abandon

\* The next result of a batch is the one its head is owed.
LEMMA AnswersNext ==
  ASSUME Types, Batching, StoreResult
  PROVE  T!Answer
<1> DEFINE ids == IdsOf(batch)
           owed == SubSeq(ids, stored + 1, Len(batch))
<1>1. /\ Len(batch) \in Nat /\ stored \in Nat /\ stored < Len(batch)
      /\ pc = "running"
  BY StoreMoves DEF Types, Batching
<1>2. ids \in Seq(Nat \X Nat) /\ Len(ids) = Len(batch)
  <2>1. \A i \in DOMAIN batch : batch[i] \in Asked
    BY DEF Types
  <2>2. DOMAIN batch = 1..Len(batch) /\ Len(batch) \in Nat
    BY DEF Types
  <2>3. \A i \in DOMAIN batch : batch[i].id \in Nat \X Nat
    BY <2>1 DEF Asked, CallsOver
  <2> QED BY <2>2, <2>3 DEF IdsOf
<1>3. ids[stored + 1] = batch[stored + 1].id
  BY <1>1 DEF IdsOf, Types
<1> HIDE DEF ids
<1>4. owed # <<>> /\ Head(owed) = ids[stored + 1]
  <2>1. Len(owed) = Len(batch) - stored /\ owed[1] = ids[stored + 1]
    BY <1>1, <1>2
  <2>2. owed \in Seq(Nat \X Nat) /\ Len(owed) > 0
    BY <1>1, <1>2, <2>1
  <2> HIDE DEF owed
  <2> QED BY <2>1, <2>2
<1>5. Tail(owed) = SubSeq(ids, stored + 2, Len(batch))
  BY <1>1, <1>2
<1>6. hist' = Append(hist, T!Result(Head(owed)))
  BY <1>3, <1>4, StoreMoves DEF Result, Message, T!Result, T!Message
<1>7. CASE stored + 1 = Len(batch) /\ NextTurn
  BY <1>1, <1>2, <1>4, <1>5, <1>6, <1>7 DEF T!Answer, NextTurn, ids
<1>8. CASE pc' \in {"running", "stopping"} /\ stored' = stored + 1 /\ UNCHANGED batch
  <2>1. IdsOf(batch') = ids
    BY <1>8 DEF ids
  <2>2. SubSeq(IdsOf(batch'), stored' + 1, Len(batch')) = Tail(owed)
    <3>1. stored' + 1 = stored + 2 /\ batch' = batch
      BY <1>1, <1>8
    <3> HIDE DEF owed
    <3> QED BY <1>5, <2>1, <3>1
  <2> QED BY <1>1, <1>4, <1>6, <1>8, <2>2 DEF T!Answer, ids
<1> QED BY <1>1, <1>7, <1>8, StoreMoves

\* The calls of a new batch are all owed a result.
LEMMA AsksAll ==
  ASSUME Types, Batching, NEW kinds \in Batches, NEW scheme \in Schemes, CallsTools(kinds, scheme)
  PROVE  T!Ask
<1>1. batch' \in Seq(Asked) /\ hist' = Append(hist, Calling(batch'))
  BY AskedFor
<1>2. pc' = "batch" /\ stored' = 0
  BY DEF CallsTools, Batching
<1>3. Calling(batch') \in Messages /\ Calling(batch').role = "assistant"
      /\ Calling(batch').calls = batch'
  BY <1>1, Kept DEF Calling, Message
<1>4. Len(hist') = Len(hist) + 1 /\ hist'[Len(hist')] = Calling(batch')
  BY <1>1, <1>3 DEF Types
<1> DEFINE ids == IdsOf(batch')
<1>5. ids \in Seq(Nat \X Nat) /\ Len(ids) = Len(batch')
  <2>1. \A i \in DOMAIN batch' : batch'[i] \in Asked
    BY <1>1
  <2>2. DOMAIN batch' = 1..Len(batch') /\ Len(batch') \in Nat
    BY <1>1
  <2>3. \A i \in DOMAIN batch' : batch'[i].id \in Nat \X Nat
    BY <2>1 DEF Asked, CallsOver
  <2> QED BY <2>2, <2>3 DEF IdsOf
<1>6. ids = T!IdsOf(batch')
  BY DEF IdsOf, T!IdsOf
<1> HIDE DEF ids
<1>7. SubSeq(ids, 1, Len(batch')) = ids
  BY <1>5
<1>8. SubSeq(IdsOf(batch'), stored' + 1, Len(batch')) = T!IdsOf(batch')
  BY <1>2, <1>6, <1>7 DEF ids
<1> QED BY <1>1, <1>2, <1>3, <1>4, <1>8 DEF T!Ask, T!Last

\* What the transcript's open batch is here.
Owed == IF pc \in {"batch", "running", "stopping"}
        THEN SubSeq(IdsOf(batch), stored + 1, Len(batch)) ELSE <<>>

\* Each step of the loop is one that the transcript promises, or leaves it alone.
LEMMA TranscriptStep ==
  ASSUME Types, Batching, [Next]_vars
  PROVE  [T!Next]_<<hist, Owed>>
<1>1. CASE Run
  BY <1>1, SaysOne, Kept DEF Run, AtRest, User, Message, T!Next
<1>2. CASE Drain \/ Steered
  <2>1. hist' = hist \o [i \in 1..queue |-> User] /\ AtRest'
    BY <1>2 DEF Drain, Steered, NextTurn, AtRest
  <2> QED BY <2>1, SaysUsers, Quiet DEF T!Next, Types
<1>3. CASE DrainFails
  <2>1. PICK n \in 0..(queue - 1) : hist' = hist \o [i \in 1..n |-> User]
    BY <1>3 DEF DrainFails
  <2>2. n \in Nat
    OBVIOUS
  <2>3. AtRest'
    BY <1>3 DEF DrainFails, AtRest
  <2> QED BY <2>1, <2>2, <2>3, SaysUsers, Quiet DEF T!Next
<1>4. CASE Exhausted \/ Fails \/ Crash \/ RoundFails \/ RepliesNothing \/ Returns
  <2>1. UNCHANGED hist /\ AtRest'
    BY <1>4 DEF Exhausted, Fails, Crash, RoundFails, RepliesNothing, Returns, NextTurn, AtRest
  <2> QED BY <2>1, Quiet DEF T!Next
<1>5. CASE Compacts
  BY <1>5, SaysOne, Kept DEF Compacts, NextTurn, AtRest, Summary, Message, T!Next
<1>6. CASE Keeps \/ PrunesInEmergency
  <2>1. /\ AtRest' /\ version' \in Versions \cup {0, Min(Versions)}
        /\ hist' = hist \/ hist' = Append(hist, Breadcrumb(version'))
    BY <1>6 DEF Keeps, PrunesInEmergency, Ready, Load, AtRest, Types
  <2>2. Breadcrumb(version').role # "tool" /\ Breadcrumb(version').calls = <<>>
    BY DEF Breadcrumb, Message
  <2> QED BY <2>1, <2>2, SaysOne, Quiet, Kept DEF T!Next
<1>7. CASE GateTrips \/ Answers \/ StaysSilent \/ StagnationStop
  <2>1. AtRest' /\ hist' = Append(hist, Text)
    BY <1>7 DEF GateTrips, Answers, StaysSilent, StagnationStop, Persists, NextTurn, AtRest
  <2>2. Text.role # "tool" /\ Text.calls = <<>>
    BY DEF Text, Message
  <2> QED BY <2>1, <2>2, SaysOne, Kept DEF T!Next
<1>8. ASSUME NEW kinds \in Batches, NEW scheme \in Schemes, CallsTools(kinds, scheme)
      PROVE  T!Next
  BY <1>8, AsksAll DEF T!Next
<1>9. CASE Begin \/ StartCall \/ FinishCall
  <2>1. pc \in {"batch", "running"} /\ pc' = "running" /\ UNCHANGED <<hist, batch, stored>>
    BY <1>9 DEF Begin, StartCall, FinishCall, batchVars
  <2> QED BY <2>1 DEF Owed
<1>10. CASE StoreResult
  BY <1>10, AnswersNext DEF T!Next
<1>11. CASE QueueSteering \/ UNCHANGED vars
  BY <1>11 DEF QueueSteering, vars, batchVars, Owed
<1> QED
  BY <1>1, <1>2, <1>3, <1>4, <1>5, <1>6, <1>7, <1>8, <1>9, <1>10, <1>11 DEF Next, RunStep

\* The agent loop keeps the transcript's promise whatever crashes, fails, is
\* steered or stagnates: a session's history only grows, and a result is only
\* ever appended for the first open call of the batch before it.
THEOREM KeepsTranscript == Spec => TranscriptSpec
<1>1. Init => T!Init
  BY DEF Init, T!Init
<1>2. Types /\ Batching /\ [Next]_vars => [T!Next]_<<hist, Owed>>
  BY TranscriptStep
<1> QED
  BY <1>1, <1>2, Typed, PTL DEF Spec, TranscriptSpec, T!Spec, Owed

----------------------------------------------------------------------------
\* A file's version is a number that says something, as 0 would not.
LEMMA VersionsArePositive == Min(Versions) \in Versions
<1>1. \E v \in Versions : \A w \in Versions : v <= w
  BY VersionAssumption, LeastMember
<1>. QED  BY <1>1 DEF Min

Versioned == version \in Versions

LEMMA VersionedStep ==
  ASSUME Versioned, [Next]_vars
  PROVE  Versioned'
<1>1. CASE Keeps \/ PrunesInEmergency
  <2>1. Load
    BY <1>1 DEF Keeps, PrunesInEmergency, Ready
  <2>. QED  BY <2>1 DEF Load, Versioned
<1>2. CASE ~(Keeps \/ PrunesInEmergency)
  <2>1. UNCHANGED version
    BY <1>2 DEF Next, RunStep, vars, envVars, Run, Drain, DrainFails, Exhausted, Compacts, Fails,
       RoundFails, RepliesNothing, GateTrips, Answers, StaysSilent, Persists, Steered, Returns,
       CallsTools, Begin, StartCall, FinishCall, StoreResult, StagnationStop, QueueSteering, Crash
  <2>. QED  BY <2>1 DEF Versioned
<1>. QED  BY <1>1, <1>2

\* A request over the whole effective history carries the project context as
\* it is, in its preamble or as the latest breadcrumb of the history.
LEMMA KeepsCarries ==
  ASSUME Versioned', Keeps
  PROVE  Carried' = version'
<1>1. inject' = IF NeedsFreshInjection(view', version') THEN version' ELSE 0
  BY DEF Keeps, Ready
<1>2. NeedsFreshInjection(view', version') =
        (LastBreadcrumb(view') = 0 \/ view'[LastBreadcrumb(view')].version # version')
  BY DEF NeedsFreshInjection
<1>3. version' > 0
  BY VersionAssumption DEF Versioned
<1>4. Carried' = IF inject' > 0 THEN inject'
                 ELSE IF LastBreadcrumb(view') = 0 THEN 0 ELSE view'[LastBreadcrumb(view')].version
  BY DEF Carried
<1>5. CASE NeedsFreshInjection(view', version')
  <2>1. inject' = version' /\ inject' > 0
    BY <1>1, <1>3, <1>5
  <2>. QED  BY <1>4, <2>1
<1>6. CASE ~NeedsFreshInjection(view', version')
  <2>1. ~(inject' > 0)
    BY <1>1, <1>6
  <2>. QED  BY <1>2, <1>4, <1>6, <2>1
<1>. QED  BY <1>5, <1>6

\* For every set of versions and however often the file changes between calls.
THEOREM RequestsCarryContext == Spec => ContextCurrent
<1>1. Init => Versioned
  BY VersionsArePositive DEF Init, Versioned
<1>2. Versioned /\ [Next]_vars => Versioned'
  BY VersionedStep
<1>3. Versioned' /\ [Next]_vars => [Keeps => Carried' = version']_vars
  BY KeepsCarries
<1>. QED  BY <1>1, <1>2, <1>3, PTL DEF Spec, ContextCurrent
----------------------------------------------------------------------------
\* Between two messages some call changed a source, and no call after it in
\* the same or a later message verified anything.
Armed(messages, from, upto) ==
  \E i \in from..upto : \E k \in DOMAIN messages[i].calls :
    /\ messages[i].calls[k].kind \in Arms
    /\ \A j \in i..upto : \A l \in DOMAIN messages[j].calls :
         messages[j].calls[l].kind \in Verifies => j = i /\ l < k

\* A run's tracker knows of every such change in its messages, but for the
\* batch it has not seen yet.
Tracked ==
  pc \notin {"idle", "failed"} =>
    /\ first \in 1..Len(hist)
    /\ pc = "batch" => hist[Len(hist)].calls = batch
    /\ Armed(hist, first, IF pc = "batch" THEN Len(hist) - 1 ELSE Len(hist)) => pending

\* The nudge a run used was part of a request, or will be of its next; a run
\* answers over an unverified change only after it, or on its last turn.
Nudges ==
  /\ nudgeUsed => nudged \/ nudgePending
  /\ pc = "call" /\ nudgePending => nudged
  /\ pc \in {"answered", "ok"} /\ pending => nudged \/ NearBudget

\* What a batch makes of the tracker: it is armed by a change without a later
\* verification, and stays armed without any.
LEMMA ObserveArms ==
  ASSUME NEW calls \in Seq(Asked),
         \/ \E k \in DOMAIN calls :
              /\ calls[k].kind \in Arms
              /\ \A l \in DOMAIN calls : calls[l].kind \in Verifies => l < k
         \/ pending /\ \A l \in DOMAIN calls : calls[l].kind \notin Verifies
  PROVE  Observe(calls)
<1>. DEFINE found == {i \in 1..Len(calls) : calls[i].kind \in Verifies \cup Arms}
<1>1. found \in SUBSET (1..Len(calls)) /\ Len(calls) \in Nat /\ DOMAIN calls = 1..Len(calls)
  OBVIOUS
<1>2. \A i \in 1..Len(calls) : i \in found <=> calls[i].kind \in Verifies \cup Arms
  OBVIOUS
<1>3. Observe(calls) = IF (IF found # {} THEN Max(found) ELSE 0) = 0 THEN pending
                       ELSE calls[IF found # {} THEN Max(found) ELSE 0].kind \in Arms
  BY DEF Observe, SelectLastInSeq
<1>. HIDE DEF found
<1>4. CASE found = {}
  BY <1>1, <1>2, <1>3, <1>4
<1>5. CASE found # {}
  <2>1. \E i \in found : \A j \in found : i >= j
    BY <1>1, <1>5, GreatestMember
  <2>2. Max(found) \in found /\ \A j \in found : Max(found) >= j
    BY <2>1 DEF Max
  <2>3. PICK last \in found : last = Max(found) /\ \A j \in found : last >= j
    BY <2>2
  <2>4. last \in 1..Len(calls) /\ last # 0 /\ Observe(calls) = (calls[last].kind \in Arms)
    BY <1>1, <1>3, <1>5, <2>3
  <2>5. calls[last].kind \notin Verifies
    BY <1>1, <1>2, <2>3, <2>4
  <2>. QED  BY <1>2, <2>3, <2>4, <2>5
<1>. QED  BY <1>4, <1>5

\* The history grows by messages that make no calls, or not at all.
Mute ==
  /\ Len(hist) <= Len(hist')
  /\ \A i \in 1..Len(hist) : hist'[i] = hist[i]
  /\ \A i \in (Len(hist) + 1)..Len(hist') : hist'[i].calls = <<>>

LEMMA MuteOne ==
  ASSUME Types, NEW m \in Messages, m.calls = <<>>, hist' = Append(hist, m)
  PROVE  Mute /\ Len(hist') = Len(hist) + 1
BY DEF Types, Mute

LEMMA MuteUsers ==
  ASSUME Types, NEW n \in Nat, hist' = hist \o [i \in 1..n |-> User]
  PROVE  Mute
<1>. DEFINE more == [i \in 1..n |-> User]
<1>1. more \in Seq(Messages) /\ Len(more) = n /\ \A i \in 1..n : more[i] = User
  BY Kept
<1>. HIDE DEF more
<1>2. hist' = hist \o more
  BY DEF more
<1>3. User.calls = <<>>
  BY DEF User, Message
<1>. QED  BY <1>1, <1>2, <1>3 DEF Types, Mute

LEMMA MuteNobody == ASSUME Types, UNCHANGED hist PROVE Mute
BY DEF Types, Mute

\* Then no change is new to the tracker.
LEMMA MuteArmsNothing ==
  ASSUME Types, Mute, NEW from \in Nat \ {0}, Len(hist') \in Nat,
         Armed(hist', from, Len(hist'))
  PROVE  Armed(hist, from, Len(hist))
<1>1. PICK i \in from..Len(hist') : \E k \in DOMAIN hist'[i].calls :
        /\ hist'[i].calls[k].kind \in Arms
        /\ \A j \in i..Len(hist') : \A l \in DOMAIN hist'[j].calls :
             hist'[j].calls[l].kind \in Verifies => j = i /\ l < k
  BY DEF Armed
<1>2. Len(hist) \in Nat
  BY DEF Types
<1>3. i \in 1..Len(hist)
  <2>1. CASE i \in (Len(hist) + 1)..Len(hist')
    <3>1. hist'[i].calls = <<>>
      BY <2>1 DEF Mute
    <3>2. DOMAIN hist'[i].calls = {}
      BY <3>1
    <3>. QED  BY <1>1, <3>2
  <2>. QED  BY <1>2, <2>1
<1>4. hist'[i] = hist[i] /\ i \in from..Len(hist)
  BY <1>2, <1>3 DEF Mute
<1>5. \A j \in i..Len(hist) : j \in i..Len(hist') /\ hist'[j] = hist[j]
  BY <1>2, <1>3 DEF Mute
<1>. QED  BY <1>1, <1>4, <1>5 DEF Armed
\* The steps within a run that call no tools and leave the tracker alone.
LEMMA MuteSteps ==
  ASSUME Types, Batching,
         \/ Drain \/ Compacts \/ Keeps \/ PrunesInEmergency \/ RoundFails \/ RepliesNothing
         \/ GateTrips \/ Answers \/ StaysSilent \/ Steered \/ Returns
         \/ StartCall \/ FinishCall \/ StoreResult \/ StagnationStop
  PROVE  /\ Mute /\ UNCHANGED <<first, pending>>
         /\ pc \notin {"idle", "failed", "batch"} /\ pc' # "batch"
<1>1. CASE Drain \/ Steered
  <2>1. hist' = hist \o [i \in 1..queue |-> User] /\ queue \in Nat
    BY <1>1 DEF Drain, Steered, Types
  <2>2. Mute
    BY <2>1, MuteUsers
  <2>. QED  BY <1>1, <2>2 DEF Drain, Steered, NextTurn, flagVars, ghostVars
<1>2. CASE Compacts
  <2>1. Mute
    BY <1>2, MuteOne, Kept DEF Compacts, Summary, Message
  <2>. QED  BY <1>2, <2>1 DEF Compacts, NextTurn, ghostVars
<1>3. CASE Keeps \/ PrunesInEmergency
  <2>1. /\ pc = "plan" /\ pc' = "call" /\ UNCHANGED <<first, pending>>
        /\ version' \in Versions \cup {0, Min(Versions)}
        /\ hist' = hist \/ hist' = Append(hist, Breadcrumb(version'))
    BY <1>3 DEF Keeps, PrunesInEmergency, Ready, Load, flagVars, Types
  <2>2. Mute
    BY <2>1, MuteOne, MuteNobody, Kept DEF Breadcrumb, Message
  <2>. QED  BY <2>1, <2>2
<1>4. CASE RoundFails \/ RepliesNothing \/ Returns
  <2>1. UNCHANGED <<hist, first, pending>> /\ pc \in {"call", "answered", "silenced"}
        /\ pc' # "batch"
    BY <1>4 DEF RoundFails, RepliesNothing, Returns, NextTurn, flagVars, ghostVars
  <2>. QED  BY <2>1, MuteNobody
<1>5. CASE GateTrips \/ Answers \/ StaysSilent \/ StagnationStop
  <2>1. /\ hist' = Append(hist, Text) /\ UNCHANGED <<first, pending>>
        /\ pc \in {"call", "stopping"} /\ pc' # "batch"
    BY <1>5 DEF GateTrips, Answers, StaysSilent, Persists, StagnationStop, NextTurn, flagVars,
       ghostVars
  <2>2. Mute
    BY <2>1, MuteOne, Kept DEF Text, Message
  <2>. QED  BY <2>1, <2>2
<1>6. CASE StartCall \/ FinishCall
  <2>1. UNCHANGED <<hist, first, pending, pc>> /\ pc = "running"
    BY <1>6 DEF StartCall, FinishCall, flagVars, ghostVars
  <2>. QED  BY <2>1, MuteNobody
<1>7. CASE StoreResult
  <2>1. stored + 1 \in DOMAIN batch
    BY <1>7, StoreMoves DEF Types, Batching
  <2>2. batch[stored + 1].id \in Nat \X Nat
    <3>1. batch[stored + 1] \in Asked
      BY <2>1 DEF Types
    <3>. QED  BY <3>1 DEF Asked, CallsOver
  <2>3. Mute
    BY <1>7, <2>2, StoreMoves, MuteOne, Kept DEF Result, Message
  <2>4. UNCHANGED <<first, pending>> /\ pc = "running" /\ pc' # "batch"
    BY <1>7 DEF StoreResult, NextTurn, ghostVars
  <2>. QED  BY <2>3, <2>4
<1>. QED  BY <1>1, <1>2, <1>3, <1>4, <1>5, <1>6, <1>7

LEMMA TrackedStep ==
  ASSUME Types, Types', Batching, Tracked, [Next]_vars
  PROVE  Tracked'
<1>0. Len(hist) \in Nat /\ Len(hist') \in Nat
  BY DEF Types
<1>1. CASE Run
  <2>1. pc' = "head" /\ first' = Len(hist) + 1 /\ Len(hist') = Len(hist) + 1
        /\ hist'[Len(hist) + 1] = User
    BY <1>1 DEF Run, Types
  <2>2. ~Armed(hist', first', Len(hist'))
    <3>1. DOMAIN User.calls = {}
      BY DEF User, Message
    <3>. QED  BY <1>0, <2>1, <3>1 DEF Armed
  <2>. QED  BY <1>0, <2>1, <2>2 DEF Tracked
<1>2. CASE DrainFails \/ Exhausted \/ Fails \/ Crash
  BY <1>2 DEF DrainFails, Exhausted, Fails, Crash, Tracked
<1>3. CASE \/ Drain \/ Compacts \/ Keeps \/ PrunesInEmergency \/ RoundFails \/ RepliesNothing
           \/ GateTrips \/ Answers \/ StaysSilent \/ Steered \/ Returns
           \/ StartCall \/ FinishCall \/ StoreResult \/ StagnationStop
  <2>1. /\ Mute /\ UNCHANGED <<first, pending>>
        /\ pc \notin {"idle", "failed", "batch"} /\ pc' # "batch"
    BY <1>3, MuteSteps
  <2>2. first \in 1..Len(hist) /\ first \in Nat \ {0} /\ (Armed(hist, first, Len(hist)) => pending)
    BY <1>0, <2>1 DEF Tracked
  <2>3. first' \in 1..Len(hist')
    BY <1>0, <2>1, <2>2 DEF Mute
  <2>4. Armed(hist', first, Len(hist')) => Armed(hist, first, Len(hist))
    BY <1>0, <2>1, <2>2, MuteArmsNothing
  <2>. QED  BY <2>1, <2>2, <2>3, <2>4 DEF Tracked
<1>4. ASSUME NEW kinds \in Batches, NEW scheme \in Schemes, CallsTools(kinds, scheme)
      PROVE  Tracked'
  <2>1. batch' \in Seq(Asked) /\ hist' = Append(hist, Calling(batch'))
    BY <1>4, AskedFor
  <2>2. pc = "call" /\ pc' = "batch" /\ UNCHANGED <<first, pending>>
    BY <1>4 DEF CallsTools, ghostVars
  <2>3. Len(hist') = Len(hist) + 1 /\ hist'[Len(hist) + 1] = Calling(batch')
        /\ \A i \in 1..Len(hist) : hist'[i] = hist[i]
    BY <2>1 DEF Types
  <2>4. first \in 1..Len(hist) /\ (Armed(hist, first, Len(hist)) => pending)
    BY <2>2 DEF Tracked
  <2>5. Armed(hist', first, Len(hist)) => Armed(hist, first, Len(hist))
    <3>1. \A i \in first..Len(hist) : \A j \in i..Len(hist) : hist'[j] = hist[j]
      BY <1>0, <2>3, <2>4
    <3>2. \A i \in first..Len(hist) : hist'[i] = hist[i]
      BY <1>0, <2>3, <2>4
    <3>. QED  BY <3>1, <3>2 DEF Armed
  <2>6. Calling(batch').calls = batch'
    BY DEF Calling, Message
  <2>7. Len(hist') - 1 = Len(hist) /\ first' \in 1..Len(hist')
    BY <1>0, <2>2, <2>3, <2>4
  <2>. QED  BY <2>2, <2>3, <2>4, <2>5, <2>6, <2>7 DEF Tracked
<1>5. CASE Begin
  <2>1. /\ pc = "batch" /\ pc' = "running" /\ UNCHANGED <<hist, first>>
        /\ pending' = Observe(batch)
    BY <1>5 DEF Begin
  <2>. DEFINE n == Len(hist)
  <2>2. /\ n \in Nat \ {0} /\ hist[n].calls = batch /\ first \in 1..n
        /\ Armed(hist, first, n - 1) => pending
    BY <1>0, <2>1 DEF Tracked
  <2>3. ASSUME Armed(hist, first, n) PROVE pending'
    <3>1. PICK i \in first..n : \E k \in DOMAIN hist[i].calls :
            /\ hist[i].calls[k].kind \in Arms
            /\ \A j \in i..n : \A l \in DOMAIN hist[j].calls :
                 hist[j].calls[l].kind \in Verifies => j = i /\ l < k
      BY <2>3 DEF Armed
    <3>2. i \in Nat /\ n \in i..n
      BY <2>2
    <3>3. CASE i = n
      <4>1. \E k \in DOMAIN batch : batch[k].kind \in Arms
              /\ \A l \in DOMAIN batch : batch[l].kind \in Verifies => l < k
        BY <2>2, <3>1, <3>2, <3>3
      <4>. QED  BY <2>1, <4>1, ObserveArms DEF Types
    <3>4. CASE i # n
      <4>1. \A l \in DOMAIN batch : batch[l].kind \notin Verifies
        BY <2>2, <3>1, <3>2, <3>4
      <4>2. i \in first..(n - 1) /\ \A j \in i..(n - 1) : j \in i..n
        BY <2>2, <3>4
      <4>3. Armed(hist, first, n - 1)
        BY <3>1, <4>2 DEF Armed
      <4>. QED  BY <2>1, <2>2, <4>1, <4>3, ObserveArms DEF Types
    <3>. QED  BY <3>3, <3>4
  <2>. QED  BY <2>1, <2>2, <2>3 DEF Tracked
<1>6. CASE QueueSteering \/ UNCHANGED vars
  BY <1>6 DEF QueueSteering, vars, flagVars, batchVars, ghostVars, Tracked
<1>. QED  BY <1>1, <1>2, <1>3, <1>4, <1>5, <1>6 DEF Next, RunStep

LEMMA NudgesStep ==
  ASSUME Nudges, [Next]_vars
  PROVE  Nudges'
<1>. USE DEF Nudges
<1>1. CASE Run
  BY <1>1 DEF Run, Fresh
<1>2. CASE DrainFails \/ Exhausted \/ Fails \/ Crash
  BY <1>2 DEF DrainFails, Exhausted, Fails, Crash, Gone, Fresh
<1>3. CASE Drain \/ Compacts \/ Steered
  BY <1>3 DEF Drain, Compacts, Steered, NextTurn, flagVars, ghostVars
<1>4. CASE Keeps \/ PrunesInEmergency
  <2>1. pc' = "call" /\ nudged' = (nudged \/ nudgePending)
        /\ UNCHANGED <<nudgeUsed, nudgePending>>
    BY <1>4 DEF Keeps, PrunesInEmergency, Ready, flagVars
  <2>. QED  BY <2>1
<1>5. CASE RoundFails
  BY <1>5 DEF RoundFails, flagVars, ghostVars
<1>6. CASE RepliesNothing \/ GateTrips
  BY <1>6 DEF RepliesNothing, GateTrips, NextTurn, ghostVars
<1>7. CASE Answers
  BY <1>7 DEF Answers, Persists, Gated, NearBudget, ghostVars
<1>8. CASE StaysSilent
  BY <1>8 DEF StaysSilent, Persists, ghostVars
<1>9. CASE Returns
  BY <1>9 DEF Returns, NearBudget, flagVars, ghostVars
<1>10. ASSUME NEW kinds \in Batches, NEW scheme \in Schemes, CallsTools(kinds, scheme)
       PROVE  Nudges'
  BY <1>10 DEF CallsTools, ghostVars
<1>11. CASE Begin
  BY <1>11 DEF Begin
<1>12. CASE StartCall \/ FinishCall
  BY <1>12 DEF StartCall, FinishCall, flagVars, ghostVars
<1>13. CASE StoreResult
  <2>1. pc' # "call" /\ pc' \notin {"answered", "ok"} /\ UNCHANGED <<nudgeUsed, nudgePending, nudged>>
    BY <1>13 DEF StoreResult, NextTurn, ghostVars
  <2>. QED  BY <2>1
<1>14. CASE StagnationStop
  BY <1>14 DEF StagnationStop, flagVars, ghostVars
<1>15. CASE QueueSteering \/ UNCHANGED vars
  BY <1>15 DEF QueueSteering, vars, NearBudget, flagVars, ghostVars
<1>. QED
  BY <1>1, <1>2, <1>3, <1>4, <1>5, <1>6, <1>7, <1>8, <1>9, <1>10, <1>11, <1>12, <1>13, <1>14,
     <1>15 DEF Next, RunStep

\* What a run's own messages leave unverified is what the tracker is armed by.
LEMMA UnverifiedIsArmed ==
  ASSUME Types, first \in 1..Len(hist), Unverified(SubSeq(hist, first, Len(hist)))
  PROVE  Armed(hist, first, Len(hist))
<1>. DEFINE own == SubSeq(hist, first, Len(hist))
<1>1. /\ Len(hist) \in Nat /\ first \in Nat \ {0}
      /\ Len(own) = Len(hist) - first + 1 /\ DOMAIN own = 1..Len(own)
      /\ \A i \in 1..Len(own) : own[i] = hist[first + i - 1]
  BY DEF Types
<1>2. PICK i \in DOMAIN own : \E k \in DOMAIN own[i].calls :
        /\ own[i].calls[k].kind \in Arms
        /\ \A j \in i..Len(own) : \A l \in DOMAIN own[j].calls :
             own[j].calls[l].kind \in Verifies => j = i /\ l < k
  BY DEF Unverified
<1>. HIDE DEF own
<1>. DEFINE at == first + i - 1
<1>3. at \in first..Len(hist) /\ own[i] = hist[at] /\ i \in Nat
  BY <1>1
<1>4. ASSUME NEW j \in at..Len(hist)
      PROVE  /\ j - first + 1 \in i..Len(own) /\ own[j - first + 1] = hist[j]
             /\ j - first + 1 = i => j = at
  <2>1. j - first + 1 \in 1..Len(own) /\ first + (j - first + 1) - 1 = j
    BY <1>1, <1>3
  <2>2. own[j - first + 1] = hist[first + (j - first + 1) - 1]
    BY <1>1, <2>1
  <2>. QED  BY <1>1, <1>3, <2>1, <2>2
<1>5. PICK k \in DOMAIN own[i].calls :
        /\ own[i].calls[k].kind \in Arms
        /\ \A j \in i..Len(own) : \A l \in DOMAIN own[j].calls :
             own[j].calls[l].kind \in Verifies => j = i /\ l < k
  BY <1>2
<1>6. ASSUME NEW j \in at..Len(hist), NEW l \in DOMAIN hist[j].calls,
             hist[j].calls[l].kind \in Verifies
      PROVE  j = at /\ l < k
  BY <1>4, <1>5, <1>6
<1>. HIDE DEF at
<1>. QED  BY <1>3, <1>5, <1>6 DEF Armed

\* For every budget and batch of calls, and whatever is compacted, retried,
\* steered or lost to errors on the way: an answer over an unverified change
\* comes after the model was asked to verify it, or on the last turn.
THEOREM AnswersAreVerifiedOrNudged == Spec => []VerifiedOrNudged
<1>1. Init => Tracked /\ Nudges
  BY DEF Init, Tracked, Nudges
<1>2. Types /\ Types' /\ Batching /\ Tracked /\ Nudges /\ [Next]_vars => Tracked' /\ Nudges'
  BY TrackedStep, NudgesStep
<1>3. Types /\ Tracked /\ Nudges => VerifiedOrNudged
  BY UnverifiedIsArmed DEF Tracked, Nudges, VerifiedOrNudged
<1>. QED  BY <1>1, <1>2, <1>3, Typed, PTL DEF Spec
----------------------------------------------------------------------------
\* The history as the requests find it: results stand behind their calls, and
\* what is owed is the end of the last message's calls, with the results of
\* the others behind it.
Lined(messages, owed) ==
  /\ Placed(messages)
  /\ owed # <<>> => \E c \in 1..Len(messages) :
       /\ Len(messages) <= c + Len(messages[c].calls)
       /\ \A k \in 1..Len(owed) : owed[k] = messages[c].calls[Len(messages) - c + k].id
       /\ Len(owed) = Len(messages[c].calls) - (Len(messages) - c)
       /\ \A k \in (c + 1)..Len(messages) : messages[k].role = "tool"

\* Messages are added behind, results where they belong.
LEMMA PlacedByMore ==
  ASSUME NEW messages \in Seq(Messages), Placed(messages), NEW more \in Seq(Messages),
         Len(messages) <= Len(more), \A i \in 1..Len(messages) : more[i] = messages[i],
         \A i \in (Len(messages) + 1)..Len(more) : more[i].role = "tool" =>
           more[i].calls = <<>> /\ \E j \in 1..(i - 1) : Responds(more, j, i)
  PROVE  Placed(more)
<1>. SUFFICES ASSUME NEW i \in 1..Len(more), more[i].role = "tool"
              PROVE  more[i].calls = <<>> /\ \E j \in 1..(i - 1) : Responds(more, j, i)
  BY DEF Placed
<1>1. CASE i \in 1..Len(messages)
  <2>1. more[i] = messages[i]
    BY <1>1
  <2>2. PICK j \in 1..(i - 1) : Responds(messages, j, i)
    BY <1>1, <2>1 DEF Placed
  <2>3. more[j] = messages[j] /\ \A k \in (j + 1)..i : more[k] = messages[k]
    BY <1>1
  <2>4. Responds(more, j, i)
    BY <2>1, <2>2, <2>3 DEF Responds
  <2>5. more[i].calls = <<>>
    BY <1>1, <2>1 DEF Placed
  <2>. QED  BY <2>4, <2>5
<1>2. CASE i \in (Len(messages) + 1)..Len(more)
  BY <1>2
<1>. QED  BY <1>1, <1>2

LEMMA LinedAsk ==
  ASSUME NEW messages \in Seq(Messages), Placed(messages), NEW m \in Messages, m.role # "tool"
  PROVE  Lined(Append(messages, m), IdsOf(m.calls))
<1>. DEFINE N == Len(messages)
            more == Append(messages, m)
            calls == m.calls
            owed == IdsOf(calls)
            c == N + 1
<1>1. /\ N \in Nat /\ c = N + 1 /\ more \in Seq(Messages) /\ Len(more) = c /\ more[c] = m
      /\ \A i \in 1..N : more[i] = messages[i]
  OBVIOUS
<1>2. calls \in Seq(CallsOver(Kinds))
  BY DEF Messages, MessagesOver
<1>3. DOMAIN calls = 1..Len(calls) /\ Len(calls) \in Nat
  BY <1>2
<1>. HIDE DEF more, calls, c
<1>4. Len(owed) = Len(calls) /\ \A k \in 1..Len(calls) : owed[k] = calls[k].id
  <2>1. owed = [k \in 1..Len(calls) |-> calls[k].id]
    BY <1>3 DEF IdsOf
  <2>2. \A k \in 1..Len(calls) : calls[k].id \in Nat \X Nat
    <3>1. \A k \in 1..Len(calls) : calls[k] \in CallsOver(Kinds)
      BY <1>2
    <3>. QED  BY <3>1 DEF CallsOver
  <2>3. owed \in Seq(Nat \X Nat)
    BY <1>3, <2>1, <2>2
  <2>. QED  BY <1>3, <2>1, <2>3
<1>. HIDE DEF owed
<1>5. Placed(more)
  <2>1. \A i \in (N + 1)..Len(more) : i = c
    BY <1>1
  <2>2. \A i \in (N + 1)..Len(more) : more[i].role # "tool"
    BY <1>1, <2>1
  <2>3. N <= Len(more)
    BY <1>1
  <2>. QED  BY <1>1, <2>2, <2>3, PlacedByMore
<1>. HIDE DEF N
<1>6. c \in 1..c /\ c - c = 0 /\ c \in Nat /\ (c + 1)..c = {}
  BY <1>1
<1>7. more[c].calls = calls
  BY <1>1 DEF calls
<1>8. \A k \in 1..Len(owed) : owed[k] = more[c].calls[Len(more) - c + k].id
  <2>. TAKE k \in 1..Len(owed)
  <2>1. Len(more) - c + k = k /\ owed[k] = calls[k].id
    BY <1>1, <1>3, <1>4, <1>6
  <2>. QED  BY <1>7, <2>1
<1>9. Len(more) <= c + Len(calls) /\ Len(owed) = Len(calls) - (Len(more) - c)
  BY <1>1, <1>3, <1>4
<1>10. c \in 1..Len(more) /\ \A k \in (c + 1)..Len(more) : more[k].role = "tool"
  BY <1>1, <1>6
<1>11. Lined(more, owed)
  BY <1>5, <1>7, <1>8, <1>9, <1>10 DEF Lined
<1>. QED  BY <1>11 DEF more, owed, calls

LEMMA LinedAnswer ==
  ASSUME NEW messages \in Seq(Messages), NEW owed \in Seq(Nat \X Nat), owed # <<>>,
         Lined(messages, owed), NEW m \in Messages, m = Result(Head(owed))
  PROVE  Lined(Append(messages, m), Tail(owed))
<1>. DEFINE N == Len(messages)
            more == Append(messages, m)
            next == N + 1
            still == Tail(owed)
<1>1. /\ N \in Nat /\ next = N + 1 /\ more \in Seq(Messages) /\ Len(more) = next
      /\ more[next] = m /\ \A i \in 1..N : more[i] = messages[i]
  OBVIOUS
<1>2. m.role = "tool" /\ m.calls = <<>> /\ m.answers = owed[1]
  BY DEF Result, Message
<1>3. /\ Len(owed) \in Nat \ {0} /\ Len(still) = Len(owed) - 1
      /\ \A k \in 1..Len(still) : still[k] = owed[k + 1] /\ k + 1 \in 1..Len(owed)
  OBVIOUS
<1>4. PICK c \in 1..N :
        /\ N <= c + Len(messages[c].calls)
        /\ \A k \in 1..Len(owed) : owed[k] = messages[c].calls[N - c + k].id
        /\ Len(owed) = Len(messages[c].calls) - (N - c)
        /\ \A k \in (c + 1)..N : messages[k].role = "tool"
  BY DEF Lined
<1>5. Len(messages[c].calls) \in Nat
  <2>1. messages[c] \in Messages
    OBVIOUS
  <2>2. messages[c].calls \in Seq(CallsOver(Kinds))
    BY <2>1 DEF Messages, MessagesOver
  <2>. QED  BY <2>2
<1>. DEFINE calls == messages[c].calls
<1>. HIDE DEF more, next, still
<1>6. more[c] = messages[c] /\ more[c].calls = calls
  BY <1>1
<1>. HIDE DEF N, calls
<1>7. \A k \in (c + 1)..next : more[k].role = "tool"
  <2>. TAKE k \in (c + 1)..next
  <2>1. k = next \/ (k \in (c + 1)..N /\ k \in 1..N)
    BY <1>1
  <2>2. CASE k = next
    BY <1>1, <1>2, <2>2
  <2>3. CASE k \in (c + 1)..N /\ k \in 1..N
    BY <1>1, <1>4, <2>3
  <2>. QED  BY <2>1, <2>2, <2>3
<1>8. /\ N <= c + Len(calls) /\ Len(owed) = Len(calls) - (N - c) /\ Len(calls) \in Nat
      /\ \A k \in 1..Len(owed) : owed[k] = calls[N - c + k].id
  BY <1>4, <1>5 DEF calls
<1>9. next <= c + Len(calls) /\ c \in 1..(next - 1) /\ Len(still) = Len(calls) - (next - c)
  BY <1>1, <1>3, <1>8
<1>10. m.answers = calls[next - c].id
  <2>1. owed[1] = calls[N - c + 1].id
    BY <1>3, <1>8
  <2>2. N - c + 1 = next - c
    BY <1>1
  <2>. QED  BY <1>2, <2>1, <2>2
<1>11. Responds(more, c, next)
  BY <1>1, <1>6, <1>7, <1>9, <1>10 DEF Responds
<1>12. Placed(more)
  <2>1. \A i \in (N + 1)..Len(more) : i = next
    BY <1>1
  <2>2. \E j \in 1..(next - 1) : Responds(more, j, next)
    BY <1>9, <1>11
  <2>3. more[next].calls = <<>>
    BY <1>1, <1>2
  <2>4. \A i \in (N + 1)..Len(more) : more[i].role = "tool" =>
          more[i].calls = <<>> /\ \E j \in 1..(i - 1) : Responds(more, j, i)
    BY <2>1, <2>2, <2>3
  <2>5. N <= Len(more) /\ Placed(messages)
    BY <1>1 DEF Lined
  <2>. QED  BY <1>1, <2>4, <2>5, PlacedByMore DEF N
<1>13. \A k \in 1..Len(still) : still[k] = more[c].calls[Len(more) - c + k].id
  <2>. TAKE k \in 1..Len(still)
  <2>1. still[k] = calls[N - c + (k + 1)].id
    BY <1>3, <1>8
  <2>2. N - c + (k + 1) = Len(more) - c + k
    BY <1>1, <1>3
  <2>. QED  BY <1>6, <2>1, <2>2
<1>14. /\ c \in 1..Len(more) /\ Len(more) <= c + Len(calls)
       /\ Len(still) = Len(calls) - (Len(more) - c)
       /\ \A k \in (c + 1)..Len(more) : more[k].role = "tool"
  BY <1>1, <1>7, <1>9
<1>15. Lined(more, still)
  BY <1>6, <1>12, <1>13, <1>14 DEF Lined
<1>. QED  BY <1>15 DEF more, still

LEMMA LinedStep ==
  ASSUME Types, Types', Owed \in Seq(Nat \X Nat), Lined(hist, Owed), [T!Next]_<<hist, Owed>>
  PROVE  Lined(hist', Owed')
<1>0. hist \in Seq(Messages) /\ hist' \in Seq(Messages) /\ Len(hist) \in Nat /\ Placed(hist)
  BY DEF Types, Lined
<1>1. CASE T!Say
  <2>. DEFINE N == Len(hist)
  <2>1. /\ SubSeq(hist, 1, N) = SubSeq(hist', 1, N) /\ N <= Len(hist')
        /\ \A i \in (N + 1)..Len(hist') : hist'[i].role # "tool"
    BY <1>0, <1>1 DEF T!Say, T!IsStrictPrefix, T!IsPrefix
  <2>2. Owed' = <<>>
    BY <1>1 DEF T!Say, Owed
  <2>3. \A i \in 1..N : hist'[i] = hist[i]
    <3>. TAKE i \in 1..N
    <3>1. SubSeq(hist, 1, N)[i] = hist[i] /\ SubSeq(hist', 1, N)[i] = hist'[i]
      BY <1>0, <2>1
    <3>. QED  BY <2>1, <3>1
  <2>4. Placed(hist')
    BY <1>0, <2>1, <2>3, PlacedByMore
  <2>. QED  BY <2>2, <2>4 DEF Lined
<1>2. CASE T!Ask
  <2>1. PICK m \in Messages : /\ hist' = Append(hist, m) /\ m.role = "assistant"
                              /\ Owed' = IdsOf(m.calls)
    <3>1. Len(hist') = Len(hist) + 1
      BY <1>2 DEF T!Ask
    <3>2. T!Last(hist') \in Messages
      BY <1>0, <3>1 DEF T!Last
    <3>. QED  BY <1>2, <3>2 DEF T!Ask, T!IdsOf, IdsOf, Owed
  <2>. QED  BY <1>0, <2>1, LinedAsk
<1>3. CASE T!Answer
  <2>1. Owed # <<>> /\ Owed' = Tail(Owed) /\ hist' = Append(hist, Result(Head(Owed)))
    BY <1>3 DEF T!Answer, T!Result, T!Message, Result, Message, Owed
  <2>2. Head(Owed) \in Nat \X Nat
    BY <2>1
  <2>3. Result(Head(Owed)) \in Messages
    BY <2>2, Kept
  <2>. QED  BY <1>0, <2>1, <2>3, LinedAnswer
<1>4. CASE T!Abandon
  BY <1>0, <1>4 DEF T!Abandon, Owed, Lined
<1>5. CASE UNCHANGED <<hist, Owed>>
  BY <1>5
<1>. QED  BY <1>1, <1>2, <1>3, <1>4, <1>5 DEF T!Next

\* Every call is known by the place of its message and its own in it.
Numbered(messages) ==
  \A j \in 1..Len(messages) : \A k \in 1..Len(messages[j].calls) :
    messages[j].calls[k].id = <<j, k>>

LEMMA NumberedDiffer ==
  ASSUME NEW messages, Numbered(messages)
  PROVE  IdsDiffer(messages)
<1>. SUFFICES ASSUME NEW i \in 1..Len(messages), NEW j \in 1..Len(messages),
                     NEW k \in 1..Len(messages[i].calls), NEW l \in 1..Len(messages[j].calls),
                     messages[i].calls[k].id = messages[j].calls[l].id
              PROVE  i = j /\ k = l
  BY DEF IdsDiffer
<1>1. messages[i].calls[k].id = <<i, k>> /\ messages[j].calls[l].id = <<j, l>>
  BY DEF Numbered
<1>2. <<i, k>> = <<j, l>>
  BY <1>1
<1>. QED  BY <1>2

LEMMA NumberedMute ==
  ASSUME Types, Mute, Len(hist') \in Nat, Numbered(hist)
  PROVE  Numbered(hist')
<1>. SUFFICES ASSUME NEW j \in 1..Len(hist'), NEW k \in 1..Len(hist'[j].calls)
              PROVE  hist'[j].calls[k].id = <<j, k>>
  BY DEF Numbered
<1>1. Len(hist) \in Nat
  BY DEF Types
<1>2. CASE j \in 1..Len(hist)
  <2>1. hist'[j] = hist[j]
    BY <1>2 DEF Mute
  <2>. QED  BY <1>2, <2>1 DEF Numbered
<1>3. CASE j \in (Len(hist) + 1)..Len(hist')
  <2>1. hist'[j].calls = <<>>
    BY <1>3 DEF Mute
  <2>2. Len(hist'[j].calls) = 0
    BY <2>1
  <2>. QED  BY <2>2
<1>. QED  BY <1>1, <1>2, <1>3

\* Under fresh ids no step spoils that.
LEMMA NumberedStep ==
  ASSUME Types, Types', Batching, Schemes \subseteq {"fresh"}, Numbered(hist), [Next]_vars
  PROVE  Numbered(hist')
<1>0. Len(hist) \in Nat /\ Len(hist') \in Nat
  BY DEF Types
<1>1. CASE Run
  <2>1. Mute
    BY <1>1, MuteOne, Kept DEF Run, User, Message
  <2>. QED  BY <1>0, <2>1, NumberedMute
<1>2. CASE DrainFails
  <2>1. PICK n \in 0..(queue - 1) : hist' = hist \o [i \in 1..n |-> User]
    BY <1>2 DEF DrainFails
  <2>2. n \in Nat
    OBVIOUS
  <2>3. Mute
    BY <2>1, <2>2, MuteUsers
  <2>. QED  BY <1>0, <2>3, NumberedMute
<1>3. CASE Exhausted \/ Fails \/ Crash \/ Begin \/ QueueSteering \/ UNCHANGED vars
  <2>1. UNCHANGED hist
    BY <1>3 DEF Exhausted, Fails, Crash, Begin, QueueSteering, vars
  <2>. QED  BY <2>1
<1>4. CASE \/ Drain \/ Compacts \/ Keeps \/ PrunesInEmergency \/ RoundFails \/ RepliesNothing
           \/ GateTrips \/ Answers \/ StaysSilent \/ Steered \/ Returns
           \/ StartCall \/ FinishCall \/ StoreResult \/ StagnationStop
  <2>1. Mute
    BY <1>4, MuteSteps
  <2>. QED  BY <1>0, <2>1, NumberedMute
<1>5. ASSUME NEW kinds \in Batches, NEW scheme \in Schemes, CallsTools(kinds, scheme)
      PROVE  Numbered(hist')
  <2>1. batch' \in Seq(Asked) /\ hist' = Append(hist, Calling(batch')) /\ Len(batch') = Len(kinds)
    BY <1>5, AskedFor
  <2>2. kinds \in Seq(Kinds) /\ scheme = "fresh"
    BY BatchAssumption
  <2>3. batch' = [i \in DOMAIN kinds |-> [id |-> <<Len(hist) + 1, i>>, kind |-> kinds[i]]]
    BY <1>5, <2>2 DEF CallsTools
  <2>4. \A k \in 1..Len(batch') : batch'[k].id = <<Len(hist) + 1, k>>
    <3>1. DOMAIN kinds = 1..Len(kinds)
      BY <2>2
    <3>. QED  BY <2>1, <2>3, <3>1
  <2>5. Calling(batch').calls = batch'
    BY DEF Calling, Message
  <2>6. /\ Len(hist') = Len(hist) + 1 /\ hist'[Len(hist) + 1] = Calling(batch')
        /\ \A i \in 1..Len(hist) : hist'[i] = hist[i]
    BY <2>1 DEF Types
  <2>7. ASSUME NEW j \in 1..Len(hist'), NEW k \in 1..Len(hist'[j].calls)
        PROVE  hist'[j].calls[k].id = <<j, k>>
    <3>1. CASE j = Len(hist) + 1
      <4>1. hist'[j].calls = batch'
        BY <2>5, <2>6, <3>1
      <4>. QED  BY <2>4, <3>1, <4>1
    <3>2. CASE j \in 1..Len(hist)
      <4>1. hist'[j] = hist[j]
        BY <2>6, <3>2
      <4>. QED  BY <3>2, <4>1 DEF Numbered
    <3>. QED  BY <1>0, <2>6, <3>1, <3>2
  <2>. QED  BY <2>7 DEF Numbered
<1>. QED  BY <1>1, <1>2, <1>3, <1>4, <1>5 DEF Next, RunStep

LEMMA OwedType ==
  ASSUME Types, Batching
  PROVE  Owed \in Seq(Nat \X Nat)
<1>1. \A i \in 1..Len(batch) : batch[i].id \in Nat \X Nat
  <2>1. \A i \in 1..Len(batch) : batch[i] \in CallsOver(Kinds)
    BY DEF Types, Asked
  <2>. QED  BY <2>1 DEF CallsOver
<1>2. DOMAIN batch = 1..Len(batch) /\ Len(batch) \in Nat /\ stored \in Nat
  BY DEF Types
<1>3. IdsOf(batch) = [i \in 1..Len(batch) |-> batch[i].id]
  BY <1>2 DEF IdsOf
<1>4. IdsOf(batch) \in Seq(Nat \X Nat) /\ Len(IdsOf(batch)) = Len(batch)
  BY <1>1, <1>2, <1>3
<1>5. \A list \in Seq(Nat \X Nat) : SubSeq(list, stored + 1, Len(list)) \in Seq(Nat \X Nat)
  BY <1>2
<1>. QED  BY <1>4, <1>5 DEF Owed

\* What a request carries has the history's shape.
Shown == pc = "call" => view \in Seq(Messages) /\ Blocks(view)

LEMMA ShownStep ==
  ASSUME Types, Shown, Blocks(hist), [Next]_vars
  PROVE  Shown'
<1>1. CASE Keeps \/ PrunesInEmergency
  <2>. DEFINE effective == EffectiveHistory(hist)
  <2>1. effective \in Seq(Messages) /\ Blocks(effective)
    BY EffectiveBlocks DEF Types, Messages
  <2>2. CASE Keeps
    BY <2>1, <2>2 DEF Keeps, Ready, Shown
  <2>3. CASE PrunesInEmergency
    <3>1. PICK cut \in Cuts(effective) : Ready(EmergencyPrune(effective, cut))
      BY <2>3 DEF PrunesInEmergency
    <3>. HIDE DEF effective
    <3>2. EmergencyPrune(effective, cut) \in Seq(Messages) /\ Blocks(EmergencyPrune(effective, cut))
      BY <2>1, PrunedBlocks DEF Messages
    <3>3. view' = EmergencyPrune(effective, cut)
      BY <3>1 DEF Ready
    <3>. QED  BY <3>2, <3>3 DEF Shown
  <2>. QED  BY <1>1, <2>2, <2>3
<1>2. CASE RoundFails \/ QueueSteering \/ UNCHANGED vars
  BY <1>2 DEF RoundFails, QueueSteering, vars, callVars, Shown
<1>3. CASE Run \/ Drain \/ DrainFails \/ Exhausted \/ Compacts \/ Fails \/ RepliesNothing
           \/ GateTrips \/ Answers \/ StaysSilent \/ Steered \/ Returns \/ StagnationStop \/ Crash
  <2>1. pc' # "call"
    BY <1>3 DEF Run, Drain, DrainFails, Exhausted, Compacts, Fails, RepliesNothing, GateTrips,
       Answers, StaysSilent, Persists, Steered, Returns, StagnationStop, Crash, NextTurn
  <2>. QED  BY <2>1 DEF Shown
<1>4. CASE Begin \/ StartCall \/ FinishCall \/ StoreResult
  <2>1. pc' # "call"
    BY <1>4, StoreMoves DEF Begin, StartCall, FinishCall, NextTurn
  <2>. QED  BY <2>1 DEF Shown
<1>5. ASSUME NEW kinds \in Batches, NEW scheme \in Schemes, CallsTools(kinds, scheme)
      PROVE  Shown'
  <2>1. pc' # "call"
    BY <1>5 DEF CallsTools
  <2>. QED  BY <2>1 DEF Shown
<1>. QED  BY <1>1, <1>2, <1>3, <1>4, <1>5 DEF Next, RunStep

\* Under fresh ids, whatever crashes, stops and errors left in the history,
\* however it was compacted and wherever it was pruned, every request that a
\* provider's sanitizeToolHistory builds from it answers each of its calls
\* right behind them and holds no result without its call.
THEOREM RequestsAreWellFormed ==
  ASSUME Schemes \subseteq {"fresh"}
  PROVE  Spec => []RequestsWellFormed
<1>. DEFINE Inv == Lined(hist, Owed) /\ Numbered(hist) /\ Shown
<1>1. Init => Inv
  <2>. SUFFICES ASSUME Init PROVE Inv
    OBVIOUS
  <2>1. hist = <<>> /\ Owed = <<>> /\ pc # "call"
    BY DEF Init, Owed
  <2>2. Len(hist) = 0 /\ 1..0 = {}
    BY <2>1
  <2>. QED  BY <2>1, <2>2 DEF Lined, Placed, Numbered, Shown
<1>2. Types /\ Types' /\ Batching /\ Inv /\ [Next]_vars => Inv'
  <2>. SUFFICES ASSUME Types, Types', Batching, Inv, [Next]_vars PROVE Inv'
    OBVIOUS
  <2>1. Lined(hist', Owed')
    BY LinedStep, OwedType, TranscriptStep
  <2>2. Numbered(hist')
    BY NumberedStep
  <2>3. Blocks(hist)
    BY NumberedDiffer DEF Blocks, Lined
  <2>4. Shown'
    BY <2>3, ShownStep
  <2>. QED  BY <2>1, <2>2, <2>4
<1>3. Inv => RequestsWellFormed
  <2>. SUFFICES ASSUME pc = "call", view \in Seq(Messages), Blocks(view)
                PROVE  WellFormed(Sanitize(view))
    BY DEF RequestsWellFormed, Shown
  <2>. QED  BY SanitizedAreWellFormed DEF Messages
<1>. HIDE DEF Inv
<1>. QED  BY <1>1, <1>2, <1>3, Typed, PTL DEF Spec

=============================================================================
