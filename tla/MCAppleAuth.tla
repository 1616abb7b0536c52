----------------------------- MODULE MCAppleAuth -----------------------------
(* AppleAuth with two installation screens, two sign-in screens and two      *)
(* requests of version pickers.                                              *)
EXTENDS AppleAuth

CONSTANTS i1, i2, r1, r2, l1, l2

MCInstall == {i1, i2}
MCRefresh == {r1, r2}
MCList == {l1, l2}
=============================================================================
