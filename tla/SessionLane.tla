---------------------------- MODULE SessionLane ----------------------------
(***************************************************************************)
(* What the turn registry promises (the comment on turnRegistry.start):    *)
(* one turn per session, always.  A session is held by at most one turn,   *)
(* a turn holds one session once, and only its own end releases it.        *)
(***************************************************************************)
CONSTANTS Sessions, Turns, None

VARIABLES holder,  \* session -> the turn running in it, or None
          begun,   \* turns that have started
          over     \* turns that have ended

Init == /\ holder = [s \in Sessions |-> None]
        /\ begun = {}
        /\ over = {}

Begin(s, t) == /\ holder[s] = None
               /\ t \notin begun
               /\ holder' = [holder EXCEPT ![s] = t]
               /\ begun' = begun \cup {t}
               /\ UNCHANGED over

End(s) == /\ holder[s] # None
          /\ holder' = [holder EXCEPT ![s] = None]
          /\ over' = over \cup {holder[s]}
          /\ UNCHANGED begun

Next == \E s \in Sessions : End(s) \/ \E t \in Turns : Begin(s, t)

Spec == Init /\ [][Next]_<<holder, begun, over>>
=============================================================================
