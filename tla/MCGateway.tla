----------------------------- MODULE MCGateway -----------------------------
(***************************************************************************)
(* Instance of Gateway for TLC: one run's two requests, a streamed one any *)
(* provider can serve and a buffered one that only the second can.         *)
(***************************************************************************)
EXTENDS Gateway, TLC

CONSTANTS r1, r2, p1, p2, k1

MCRequests == {r1, r2}
MCCombo == <<p1, p2>>
MCStreams == {r1}
MCCapable == r1 :> {p1, p2} @@ r2 :> {p2}
MCRunOf == [r \in MCRequests |-> k1]
=============================================================================
