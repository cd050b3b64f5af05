---------------------------- MODULE CounterPool ----------------------------
(***************************************************************************)
(* What the DRBD counters of a cluster promise: a value has one user at a  *)
(* time, whatever the value is.                                            *)
(***************************************************************************)

CONSTANTS Users, Values, Nothing

VARIABLE holds   \* holds[u]: the value u has, or Nothing

Take(u) == /\ holds[u] = Nothing
           /\ \E v \in Values : /\ \A x \in Users : holds[x] # v
                                /\ holds' = [holds EXCEPT ![u] = v]

GiveBack(u) == /\ holds[u] # Nothing
               /\ holds' = [holds EXCEPT ![u] = Nothing]

Init == holds = [u \in Users |-> Nothing]
Next == \E u \in Users : Take(u) \/ GiveBack(u)
Spec == Init /\ [][Next]_holds

=============================================================================
