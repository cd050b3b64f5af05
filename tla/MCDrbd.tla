------------------------------- MODULE MCDrbd -------------------------------
(* Values for the constants of Drbd.                                       *)
EXTENDS Drbd, TLC

CONSTANTS n1, n2, Removes, Outages, Swallows, Kills

MCBudget == [remove |-> Removes, outage |-> Outages, swallow |-> Swallows,
             kill |-> Kills]

\* Every pair of nodes, also twice the same one.
AllPlaces == [Sides -> Nodes]

Symmetry == Permutations(Disks) \cup Permutations(Workers) \cup Permutations(Webs)
              \cup Permutations(Nodes)

\* Bounds: nodes drop out while there is one disk, and nothing is killed then.
Requested == {d \in Disks : \E w \in Webs : web[w].d = d}
Bounded == spent'["outage"] > 0 => /\ spent'["kill"] = 0
                                   /\ Cardinality(live' \cup removed' \cup Requested') <= 1

MCSpec == Init /\ [][Next /\ Bounded]_vars

=============================================================================
