----------------------------- MODULE Transcript -----------------------------
(***************************************************************************)
(* What the agent loop promises of a session's durable history: it only    *)
(* grows, and a tool result is appended only as the answer to the next     *)
(* open call of the batch right before it.  A batch may be abandoned, by a *)
(* crash or an error, which leaves its open calls without results.         *)
(***************************************************************************)
EXTENDS History

VARIABLES hist,  \* the messages of the session, in the store's order
          open   \* ids of the last batch that have no result yet

Init == hist = <<>> /\ open = <<>>

\* Messages that make no calls and answer none.
Say == /\ IsStrictPrefix(hist, hist')
       /\ \A i \in (Len(hist) + 1)..Len(hist') :
            hist'[i].role # "tool" /\ hist'[i].calls = <<>>
       /\ open' = <<>>

Ask == /\ Len(hist') = Len(hist) + 1
       /\ hist' = Append(hist, Last(hist'))
       /\ Last(hist').role = "assistant"
       /\ open' = IdsOf(Last(hist').calls)

Answer == /\ open # <<>>
          /\ hist' = Append(hist, Result(Head(open)))
          /\ open' = Tail(open)

Abandon == open' = <<>> /\ UNCHANGED hist

Next == Say \/ Ask \/ Answer \/ Abandon

Spec == Init /\ [][Next]_<<hist, open>>
=============================================================================
