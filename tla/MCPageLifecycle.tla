--------------------------- MODULE MCPageLifecycle ---------------------------
(* PageLifecycle for TLC: the host never skips a sequence number, which the *)
(* code does not distinguish from the next one.                             *)
EXTENDS PageLifecycle, TLC

MCNext ==
    \/ Tick
    \/ \E o \in Observation : o.seq <= page.latest.seq + 1 /\ Observe(o)

MCSpec == Init /\ [][MCNext]_vars

Symmetric == Permutations(Responses) \cup Permutations(Results)
=============================================================================
