------------------------------ MODULE MCAgent ------------------------------
(***************************************************************************)
(* Instances of AgentLoop for TLC.  The batches hold a parallel stretch,   *)
(* a change before and after its verification, and a call whose arguments  *)
(* no provider accepts.                                                    *)
(***************************************************************************)
EXTENDS AgentLoop

MCBatches == {<<"poll", "poll", "edit">>, <<"garbled", "diagnose">>}
MoreBatches == MCBatches \cup {<<"bash", "edit", "read">>, <<"note">>}
=============================================================================
