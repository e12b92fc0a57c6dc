------------------------------ MODULE MCLegion ------------------------------
(***************************************************************************)
(* Instances of Legion for TLC.  Either every process runs under an id of  *)
(* its own (one host per worker class) or one class runs on two hosts; the *)
(* capability k1 has two workers.                                          *)
(***************************************************************************)
EXTENDS Legion, TLC

CONSTANTS c1, c2, p1, p2, i1, i2, k1, k2

IdEach     == p1 :> i1 @@ p2 :> i2
IdShared   == p1 :> i1 @@ p2 :> i1
BuildMixed == p1 :> {k1, k2} @@ p2 :> {k1}
BuildSame  == p1 :> {k1} @@ p2 :> {k1}

\* Bound: calls of all callers together.
FewCalls == \A c, d \in Callers : c # d => seq[c] + seq[d] <= MaxCalls

CallerSymmetry == Permutations(Callers)
=============================================================================
