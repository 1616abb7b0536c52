---------------------------- MODULE MCDecryptRun ----------------------------
(* DecryptRun with the flag combinations TLC explores: every keep policy,   *)
(* every route and every value of each flag, not their full product.        *)
EXTENDS DecryptRun

Plain ==
  [keep |-> "desktop", route |-> "source", fresh |-> FALSE, uninstall |-> "default",
   noCleanup |-> FALSE, strip |-> TRUE, noVerify |-> FALSE]

MCOptions ==
  { Plain,
    [Plain EXCEPT !.keep = "device", !.fresh = TRUE],
    [Plain EXCEPT !.keep = "both", !.uninstall = "force", !.noVerify = TRUE, !.strip = FALSE],
    [Plain EXCEPT !.keep = "device", !.uninstall = "no", !.noCleanup = TRUE],
    [Plain EXCEPT !.route = "installed", !.keep = "device"],
    [Plain EXCEPT !.route = "installed", !.uninstall = "force"],
    [Plain EXCEPT !.route = "storekit", !.keep = "both", !.uninstall = "force"] }
=============================================================================
