--------------------------- MODULE MCEncryptedCache ---------------------------
(* EncryptedCache with three runs and two builds of different sizes.         *)
EXTENDS EncryptedCache, TLC

CONSTANTS r1, r2, r3, b1, b2

MCRun == {r1, r2, r3}
MCBuild == {b1, b2}
MCSize == (b1 :> 2) @@ (b2 :> 3)
Runs == Permutations(MCRun)
=============================================================================
