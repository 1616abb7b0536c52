--------------------------- MODULE MCVersionsScreen ---------------------------
(* A table of three versions: one worker and two channels of one place each   *)
(* just hold them all.  With one version more the screen could get stuck.     *)
EXTENDS VersionsScreen

MCLimits == {-1, 0, 1}

\* Newest first: steps of each kind monotonicVersionFill tells apart, equal neighbours, a
\* blank, and versions out of order.
MCHistories ==
  { <<<<2, 3, 1>>, <<2, 3, 0>>, <<2, 1, 4>>>>,
    <<<<2, 5, 3>>, <<2, 2, 0>>, <<2, 1, 0>>>>,
    <<<<2, 1, 9>>, <<2, 1, 4>>, <<2, 0, 6>>>>,
    <<<<2, 6, 0>>, <<2, 6, 0>>, <<2, 1, 0>>>>,
    <<<<3, 0, 2>>, <<2, 0, 7>>, <<>>>>,
    <<<<2, 1, 0>>, <<2, 5, 7>>, <<2, 0, 6>>>> }
===============================================================================
