------------------------------ MODULE History ------------------------------
(***************************************************************************)
(* The history of a session as the model is shown it: what survives a      *)
(* compaction (compaction.EffectiveHistory), an emergency prune            *)
(* (compaction.EmergencyPrune), and what a provider adapter makes of it    *)
(* (sanitizeToolHistory in provider/toolcalls.go).                         *)
(*                                                                         *)
(* Abstraction: a message is its role, the tool calls it makes, the call   *)
(* it answers, and for a breadcrumb of the project context the version of  *)
(* AGENTS.md it carries.  Content, images and memory are left out (memory  *)
(* is treated exactly as the project context), so PruneForModel, which     *)
(* only shortens old tool results, changes nothing here.                   *)
(***************************************************************************)
EXTENDS Naturals, Sequences, FiniteSets, SequencesExt, Lists

NoCall == <<0, 0>>

Message(role, calls, answers, version) ==
  [role |-> role, calls |-> calls, answers |-> answers, version |-> version]
User == Message("user", <<>>, NoCall, 0)
Text == Message("assistant", <<>>, NoCall, 0)
Calling(calls) == Message("assistant", calls, NoCall, 0)
Result(id) == Message("tool", <<>>, id, 0)
Summary == Message("summary", <<>>, NoCall, 0)
Breadcrumb(version) == Message("context", <<>>, NoCall, version)

IdsOf(calls) == [i \in DOMAIN calls |-> calls[i].id]

\* Everything from the most recent compaction summary onward.
EffectiveHistory(all) ==
  LET marker == SelectLastInSeq(all, LAMBDA m : m.role = "summary")
  IN  IF marker = 0 THEN all ELSE SubSeq(all, marker, Len(all))

\* EmergencyPrune keeps the leading summary and cuts at a user message.
Lead(effective) ==
  IF effective # <<>> /\ Head(effective).role = "summary" THEN 1 ELSE 0
Cuts(effective) ==
  {i \in DOMAIN effective : i > Lead(effective) /\ effective[i].role = "user"}
EmergencyPrune(effective, cut) ==
  SubSeq(effective, 1, Lead(effective)) \o SubSeq(effective, cut, Len(effective))

\* Slip: any breadcrumb will do, also an outdated one.
NeedsAnyInjection(effective, version) == \A i \in DOMAIN effective : effective[i].role # "context"
LastBreadcrumb(messages) == SelectLastInSeq(messages, LAMBDA m : m.role = "context")

\* needsFreshInjection: the last breadcrumb is not this version.
NeedsFreshInjection(effective, version) ==
  LET last == LastBreadcrumb(effective)
  IN  last = 0 \/ effective[last].version # version

----------------------------------------------------------------------------
\* validToolCallArguments: "garbled" stands for a call whose arguments are no
\* JSON object.
Valid(call) == call.kind # "garbled"
FilteredCalls(m) == Only(m.calls, {c \in Range(m.calls) : Valid(c)})
ValidIDs(messages) ==
  UNION {Range(IdsOf(FilteredCalls(messages[i]))) : i \in DOMAIN messages}
Answered(messages) ==
  {messages[i].answers : i \in {j \in DOMAIN messages : messages[j].role = "tool"}}
    \cap ValidIDs(messages)

\* Slip: an orphaned call is left as it is.
RepairNothing(messages, i) == <<>>
\* The calls of a message that are given placeholder results: no result has
\* their id, and they are the first of that id, which is answered from then on.
Orphans(messages, i) ==
  LET ids == IdsOf(FilteredCalls(messages[i]))
  IN  Only(ids, Range(ids) \ (Answered(messages) \cup ValidIDs(SubSeq(messages, 1, i - 1))))

\* What becomes of one message: a result of no valid call is left out, any other
\* message keeps its valid calls, each orphan followed by its placeholder.
Repaired(messages, i) ==
  LET m == messages[i]
      orphans == Orphans(messages, i)
  IN  IF m.role = "tool" THEN IF m.answers \in ValidIDs(messages) THEN <<m>> ELSE <<>>
      ELSE <<[m EXCEPT !.calls = FilteredCalls(m)]>>
             \o [k \in DOMAIN orphans |-> Result(orphans[k])]

Sanitize(messages) == FlattenSeq([i \in DOMAIN messages |-> Repaired(messages, i)])

\* What every provider demands: the calls of an assistant message are answered
\* by the results right behind it, each once, and no result stands alone.
WellFormed(messages) ==
  LET N == Len(messages)
      Block(i) == i + 1 .. i + Len(messages[i].calls)
  IN  /\ \A i \in 1..N :
           /\ Block(i) \subseteq 1..N
           /\ \A j \in Block(i) : messages[j].role = "tool"
           /\ {messages[j].answers : j \in Block(i)} = Range(IdsOf(messages[i].calls))
      /\ \A j \in 1..N : messages[j].role = "tool" => \E i \in 1..(j - 1) : j \in Block(i)
=============================================================================
