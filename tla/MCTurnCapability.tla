-------------------------- MODULE MCTurnCapability --------------------------
(* Small instances of the turn capability broker.                          *)
EXTENDS TurnCapability

CONSTANTS r1, r2, s1, q1

OneRegistration == {r1}
TwoRegistrations == {r1, r2}
OneLocal == {s1}
OneRequest == {q1}

(* <<compactionEpoch, generation>>: each component moves on its own *)
OneEpoch == {<<1, 1>>}
BothEpochs == {<<1, 1>>, <<1, 2>>, <<2, 1>>}

ShortTtl == {1}
LongTtl == {2}
BothTtls == {1, 2}
=============================================================================
