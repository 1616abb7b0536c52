------------------------------ MODULE OutputIPA ------------------------------
(***************************************************************************)
(* What a decryption promises about the IPA it reports as complete: every   *)
(* entry is one whole version of its file.  With the source IPA at hand     *)
(* ("execs") it is the version the device held in its staging copy, or the  *)
(* one of the source; without ("zip") it is the staged one or no entry.     *)
(* Otherwise the run fails and says so.                                     *)
(***************************************************************************)
CONSTANTS
  Entry,    \* entry names
  Version,  \* the contents an entry can have; "none" is no entry
  Source    \* Source[e]: the version the source IPA and the installed bundle have

VARIABLES
  route,    \* "execs" or "zip"
  held,     \* the staging copy on the device
  status,   \* "running", "complete" or "failed"
  ipa       \* the IPA reported as complete

vars == <<route, held, status, ipa>>

Init ==
  /\ route \in {"execs", "zip"}
  /\ held = Source
  /\ status = "running"
  /\ ipa = [e \in Entry |-> "none"]

\* The device decrypts, or fails to decrypt, one file of its staging copy.
Rewrite(e) ==
  /\ status # "complete"
  /\ \E v \in Version : held' = [held EXCEPT ![e] = v]
  /\ UNCHANGED <<route, status, ipa>>

Complete ==
  /\ status = "running"
  /\ status' = "complete"
  /\ \E S \in SUBSET Entry :
       ipa' = [e \in Entry |-> IF e \in S THEN held[e]
                               ELSE IF route = "execs" THEN Source[e] ELSE "none"]
  /\ UNCHANGED <<route, held>>

Fail ==
  /\ status = "running"
  /\ status' = "failed"
  /\ UNCHANGED <<route, held, ipa>>

Next == (\E e \in Entry : Rewrite(e)) \/ Complete \/ Fail

Spec == Init /\ [][Next]_vars
=============================================================================
