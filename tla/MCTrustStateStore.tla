------------------------- MODULE MCTrustStateStore -------------------------
(* The genesis s1, a successor t2 that raises the floor, t3 that would      *)
(* lower it again, and a replacement u2 of t2 with its successor u3.  The   *)
(* recovery r1 leads from t2 to u2; r2 would lead from u3 back to u2 under  *)
(* the sequence of r1.                                                      *)
EXTENDS TrustStateStore, TLC

State(id, revision, minimum, previous, revoked, from, until) ==
    [id |-> id, revision |-> revision, minimum |-> minimum, previous |-> previous,
     level |-> revision, revoked |-> revoked, from |-> from, until |-> until]

MCStates ==
    {State("s1", 1, 1, None, {}, 0, 2),
     State("t2", 2, 2, "s1", {"k"}, 0, 1),
     State("t3", 3, 1, "t2", {"k"}, 0, 2),
     State("u2", 2, 2, "s1", {"k"}, 0, 2),
     State("u3", 3, 2, "u2", {"k"}, 0, 2)}

Recovery(id, damaged, replacement, sequence, minimum, maximum, expires) ==
    [id |-> id, damaged |-> damaged, replacement |-> replacement,
     sequence |-> sequence, minimum |-> minimum, maximum |-> maximum,
     expires |-> expires]

MCRecoveries ==
    {Recovery("r1", "t2", "u2", 1, 2, 3, 1),
     Recovery("r2", "u3", "u2", 1, 1, 3, 1)}

MCGenesis == CHOOSE s \in MCStates : s.id = "s1"

MCSymmetry == Permutations(Administrators)
=============================================================================
