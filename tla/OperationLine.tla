---------------------------- MODULE OperationLine ----------------------------
(***************************************************************************)
(* What the app's runner promises those who ask for an Apple operation: one *)
(* helper process at a time, for whoever has waited longest, and one answer *)
(* to every request, in the order they were made.                           *)
(***************************************************************************)
EXTENDS Sequences

CONSTANT Op      \* the operations that may be asked for

VARIABLES
  asked,    \* operations whose requester waits for the answer
  line,     \* the same operations, the one asked for first in front
  helpers   \* operations with a helper process

vars == <<asked, line, helpers>>

Init == asked = {} /\ line = <<>> /\ helpers = {}

\* The helper belongs to the front of the line.
Front(l) == IF l = <<>> THEN {} ELSE {Head(l)}

Ask(op) ==
  /\ op \notin asked
  /\ asked' = asked \cup {op}
  /\ line' = Append(line, op)
  /\ helpers' = Front(line')

Answer ==
  /\ line # <<>>
  /\ asked' = asked \ {Head(line)}
  /\ line' = Tail(line)
  /\ helpers' = Front(line')

Next == (\E op \in Op : Ask(op)) \/ Answer

Spec == Init /\ [][Next]_vars
=============================================================================
