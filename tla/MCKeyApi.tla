------------------------------ MODULE MCKeyApi ------------------------------
(***************************************************************************)
(* The key handlers with two requests in progress, and with one.           *)
(***************************************************************************)
EXTENDS KeyApi, TLC

CONSTANTS k1, k2, k3

MCKeyIds == {k1, k2, k3}
MCTwoIds == {k1, k2}

\* ObjectIds are not compared with anything but each other.
Symm == Permutations(KeyIds)
=============================================================================
