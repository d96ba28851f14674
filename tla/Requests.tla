------------------------------ MODULE Requests ------------------------------
(***************************************************************************)
(* What each provider is sent of one conversation: the repair of its tool  *)
(* calls (provider/toolcalls.go) and the translation into the provider's   *)
(* own form (buildAnthropicMessages, buildGeminiContents,                  *)
(* normalizeOpenAICompatMessages, buildResponsesInput).  The conversation  *)
(* is any the agent can have kept: batches cut short by a crash, calls a   *)
(* provider garbled, system messages anywhere.                             *)
(*                                                                         *)
(* A message has a text (its place in the history; 0 for none), calls, and *)
(* for a tool's result the call it answers.  The ids of calls differ; that *)
(* some providers give them twice is AgentLoop's.  Images, tool schemas    *)
(* and thought signatures are left out.                                    *)
(***************************************************************************)
EXTENDS Naturals, SequencesExt, Lists

CONSTANTS
  MaxMessages,
  MaxBatch      \* tool calls of one message

RequestsAssumption == MaxMessages \in Nat /\ MaxBatch \in Nat

VARIABLE history

Call == [id : Nat \X Nat, fine : BOOLEAN]
InRole(roles) ==
  [role : roles, text : Nat, calls : Seq(Call), answers : Nat \X Nat, reasoning : BOOLEAN]
NoCall == <<0, 0>>
Message(role, text, calls, answers) ==
  [role |-> role, text |-> text, calls |-> calls, answers |-> answers, reasoning |-> FALSE]
Result(call) == Message("tool", 0, <<>>, call)

Init == history = <<Message("system", 1, <<>>, NoCall)>>

(***************************************************************************)
(* The history grows.  Only the responses adapter keeps reasoning, and it  *)
(* hands on no garbled call.                                               *)
(***************************************************************************)
Place == Len(history) + 1
MayGrow == Place <= MaxMessages

AppendMessage(m) == MayGrow /\ history' = Append(history, m)

\* The user, or a breadcrumb or nudge of the agent.
Says == \E role \in {"user", "system"} : AppendMessage(Message(role, Place, <<>>, NoCall))

Answers ==
  \E r \in BOOLEAN :
    AppendMessage([Message("assistant", Place, <<>>, NoCall) EXCEPT !.reasoning = r])

CallsTools ==
  \E n \in 1..MaxBatch, text \in {0, Place}, r \in BOOLEAN :
    \E fine \in [1..n -> BOOLEAN] :
      LET calls == [i \in 1..n |-> [id |-> <<Place, i>>, fine |-> fine[i]]]
      IN  /\ r => \A i \in 1..n : fine[i]
          /\ AppendMessage([Message("assistant", text, calls, NoCall) EXCEPT !.reasoning = r])

\* The results of a batch in its order; a crash leaves the rest out for ever.
Returns ==
  LET caller == SelectLastInSeq(history, LAMBDA m : m.role # "tool")
      next == Place - caller
  IN  /\ next <= Len(history[caller].calls)
      /\ AppendMessage(Result(history[caller].calls[next].id))

Next == Says \/ Answers \/ CallsTools \/ Returns

Spec == Init /\ [][Next]_history

(***************************************************************************)
(* sanitizeToolHistory, before every translation.                          *)
(***************************************************************************)
FilteredCalls(m) == Only(m.calls, [id : Nat \X Nat, fine : {TRUE}])
ValidIDs(h) == UNION {{c.id : c \in Range(FilteredCalls(h[i]))} : i \in DOMAIN h}
Answered(h) == {h[i].answers : i \in DOMAIN h}

Repaired(h, m) ==
  LET calls == FilteredCalls(m)
      orphans == Only(calls, [id : (Nat \X Nat) \ Answered(h), fine : BOOLEAN])
  IN  IF m.text = 0 /\ calls = <<>> /\ ~m.reasoning THEN <<>>
      ELSE <<[m EXCEPT !.calls = calls]>> \o [i \in DOMAIN orphans |-> Result(orphans[i].id)]

sanitizeToolHistory(h) ==
  FlattenSeq([i \in DOMAIN h |->
    CASE h[i].role = "assistant" -> Repaired(h, h[i])
      [] h[i].role = "tool" /\ h[i].answers \notin ValidIDs(h) -> <<>>
      [] OTHER -> <<h[i]>>])

(***************************************************************************)
(* The translations: the system text, as the texts it is made of, and the  *)
(* messages, each a role and its blocks.                                   *)
(***************************************************************************)
Block(is, of) == [is |-> is, of |-> of]
TextBlock(m) == IF m.text = 0 THEN <<>> ELSE <<Block("text", <<m.text, 0>>)>>
CallBlocks(m) == [i \in DOMAIN m.calls |-> Block("call", m.calls[i].id)]
Blocks(m) ==
  IF m.role = "tool" THEN <<Block("result", m.answers)>> ELSE TextBlock(m) \o CallBlocks(m)

Systems(h) == Only(h, InRole({"system"}))
Others(h) == Only(h, InRole({"user", "assistant", "tool"}))
Texts(ms) == [i \in DOMAIN ms |-> ms[i].text]

\* Slip: a later system message takes the place of the ones before.
LastSystem(h) == IF Systems(h) = <<>> THEN <<>> ELSE <<Last(Systems(h)).text>>
\* One system field: what several messages say is put together.
OneSystem(h) == Texts(Systems(h))

Request(system, messages) == [system |-> system, messages |-> messages]
Part(role, blocks) == [role |-> role, blocks |-> blocks]

buildAnthropicMessages(h) ==
  LET ms == Others(h)
  IN  Request(OneSystem(h),
        [i \in DOMAIN ms |-> Part(IF ms[i].role = "assistant" THEN "assistant" ELSE "user",
                                  Blocks(ms[i]))])

\* A result carries the name of its tool and no id.
buildGeminiContents(h) ==
  LET ms == Others(h)
  IN  Request(OneSystem(h),
        [i \in DOMAIN ms |-> Part(IF ms[i].role = "assistant" THEN "model" ELSE "user",
                                  IF ms[i].role = "tool" THEN <<Block("result", NoCall)>>
                                  ELSE Blocks(ms[i]))])

\* The one leading message stays as it is; any other are merged into it.
normalizeOpenAICompatMessages(h) ==
  LET ms == Others(h)
  IN  Request(IF Len(Systems(h)) = 1 /\ h[1].role = "system" THEN <<h[1].text>> ELSE OneSystem(h),
        [i \in DOMAIN ms |-> Part(ms[i].role, Blocks(ms[i]))])

\* A list of items, of which reasoning comes first.
buildResponsesInput(h) ==
  LET ItemsOf(m) == (IF m.reasoning THEN <<Block("reasoning", NoCall)>> ELSE <<>>) \o Blocks(m)
      items == FlattenSeq([i \in DOMAIN Others(h) |-> ItemsOf(Others(h)[i])])
  IN  Request(OneSystem(h), [i \in DOMAIN items |-> Part("item", <<items[i]>>)])

Sent ==
  LET h == sanitizeToolHistory(history)
  IN  {buildAnthropicMessages(h), buildGeminiContents(h),
       normalizeOpenAICompatMessages(h), buildResponsesInput(h)}

-----------------------------------------------------------------------------

BlocksOf(kinds) == [is : kinds, of : Nat \X Nat]
Flat(r) ==
  Only(FlattenSeq([i \in DOMAIN r.messages |-> r.messages[i].blocks]),
       BlocksOf({"text", "call", "result"}))
Of(items, is) == Only(items, BlocksOf({is}))

Spoken == Texts(Only(Others(history), {m \in InRole({"user", "assistant"}) : m.text # 0}))
Made == FlattenSeq([i \in DOMAIN history |-> FilteredCalls(history[i])])

\* Each call has one result behind it, before anything else is said; without
\* ids, as many results as calls.
Paired(items) ==
  \A i \in DOMAIN items : items[i].is = "call" =>
    \E j \in (i + 1)..Len(items) :
      /\ items[j].is = "result" /\ items[j].of \in {items[i].of, NoCall}
      /\ \A k \in (i + 1)..(j - 1) : items[k].is \in {"call", "result"}
      /\ \A k \in DOMAIN items \ {j} : items[k] = items[j] => items[j].of = NoCall

\* Whatever became of the conversation, every provider is sent all of it: the
\* system texts in one place, what was said in its order, the calls that were
\* whole in theirs, each with one result before anything else is said, no
\* result alone, and no message with nothing in it (sanitizeToolHistory, the four
\* translations; "each tool_call immediately followed by its result").
SameConversation ==
  \A r \in Sent :
    LET items == Flat(r)
    IN  /\ r.system = Texts(Systems(history))
        /\ [i \in DOMAIN Of(items, "text") |-> Of(items, "text")[i].of[1]] = Spoken
        /\ [i \in DOMAIN Of(items, "call") |-> Of(items, "call")[i].of] = [i \in DOMAIN Made |-> Made[i].id]
        /\ Paired(items)
        /\ Len(Of(items, "result")) = Len(Made)
        /\ \A i \in DOMAIN r.messages : r.messages[i].blocks # <<>>
=============================================================================
