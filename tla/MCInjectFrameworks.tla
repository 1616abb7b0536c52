------------------------- MODULE MCInjectFrameworks -------------------------
(* InjectFrameworks with small bundles: every answer for three frameworks,  *)
(* and one deterministic bundle of fourteen for the size of the pool.       *)
EXTENDS InjectFrameworks

Bundle(n, key, deps, answers) ==
  [count |-> n, key |-> key, deps |-> deps, ready |-> {}, preloaded |-> {},
   answers |-> [f \in 1..n |-> answers]]

Own(n) == [f \in 1..n |-> f]
Chain(n) == [f \in 1..n |-> IF f < n THEN {f + 1} ELSE {}]

SmallKey == 1..5
SmallScenarios ==
  { \* the first needs the second, the second the third: the worst directory order
    Bundle(3, Own(3), Chain(3), Answer),
    \* a cycle, with an external dependency (key 4) that never blocks
    Bundle(3, Own(3), [f \in 1..3 |-> IF f = 3 THEN {3, 4} ELSE {3 - f}], Answer),
    \* two frameworks of the same Dir/Basename, and a third that needs that name
    Bundle(3, <<1, 1, 2>>, <<{2}, {}, {1}>>, Answer),
    \* one plaintext already, one dependency mapped by the target itself
    [Bundle(3, Own(3), <<{2}, {3}, {4}>>, Answer)
       EXCEPT !.ready = {2}, !.preloaded = {3, 4}],
    \* independent ones, so that a late answer meets a later call of the same pass
    Bundle(4, Own(4), <<{4}, {}, {}, {}>>, Answer \ {"unstaged"}),
    \* one whose dlopen never returns in time
    Bundle(2, Own(2), <<{}, {}>>, {"hangs"}) }

\* A dump that fails (say, on a full disk) after a dlopen that succeeded.
LeftoverScenarios == { Bundle(2, Own(2), Chain(2), {"loads", "undumpable", "fails"}) }

\* Seven frameworks, each needing the next, then seven that never load.
LargeKey == 1..14
LargeScenarios ==
  { [Bundle(14, Own(14), [f \in 1..14 |-> IF f < 7 THEN {f + 1} ELSE {}], {"loads"})
       EXCEPT !.answers = [f \in 1..14 |-> IF f > 7 THEN {"fails"} ELSE {"loads"}]] }
=============================================================================
