------------------------ MODULE InjectFrameworksProofs ------------------------
(* Theorems about InjectFrameworks, for every set of scenarios and bounds.  *)
EXTENDS InjectFrameworks, FiniteSetTheorems, TLAPS

\* A scenario's parts have the sets they are declared with.
LEMMA ScenarioParts ==
  ASSUME sc \in Scenarios
  PROVE  /\ sc.count \in Nat
         /\ sc.key \in [Frameworks -> Key]
         /\ sc.deps \in [Frameworks -> SUBSET Key]
         /\ sc.ready \subseteq Frameworks
         /\ sc.preloaded \subseteq Key
BY ScenarioAssumption DEF IsScenario, Frameworks

\* The size asked of the thread pool is a number.
LEMMA PoolTargetNat ==
  ASSUME sc \in Scenarios
  PROVE  PoolTarget \in Nat
<1>1. IsFiniteSet(Frameworks)
  BY ScenarioParts, FS_Interval DEF Frameworks
<1>2. IsFiniteSet(Candidates)
  BY <1>1, FS_Subset DEF Candidates
<1>3. Cardinality(Candidates) \in Nat
  BY <1>2, FS_CardinalityType
<1> QED
  BY <1>3, BoundsAssumption DEF PoolTarget

-----------------------------------------------------------------------------
(* Type correctness.                                                        *)

\* The initial states have the declared types.
LEMMA InitType == Init => TypeOK
<1> SUFFICES ASSUME Init PROVE TypeOK
  OBVIOUS
<1>1. sc \in Scenarios
  BY DEF Init
<1>2. PoolTarget \in Nat
  BY <1>1, PoolTargetNat
<1> QED
  BY <1>1, <1>2, ScenarioParts, BoundsAssumption DEF Init, TypeOK, Frameworks

\* Every step of the helper and of the target keeps them.
LEMMA StepType == TypeOK /\ [Next]_vars => TypeOK'
<1> SUFFICES ASSUME TypeOK, [Next]_vars PROVE TypeOK'
  OBVIOUS
<1> USE DEF TypeOK, Frameworks, Calls
<1>a. /\ sc.count \in Nat
      /\ sc.key \in [Frameworks -> Key]
      /\ PoolTarget \in Nat
  BY ScenarioParts, PoolTargetNat
<1>b. sc' = sc /\ PoolTarget' = PoolTarget
  <2>1. sc' = sc
    BY DEF Next, Helper, Target, vars, Skipped, SpawnPool, PassOver, SkipDecrypted,
           Exhaust, StageFails, Dlopen, Fails, Loads, GiveUp, StaleAnswer, NoBase, Dump,
           NextPass, LastPass, Report, AbandonedMaps, AbandonedReturns, Advance
  <2> QED
    BY <2>1 DEF PoolTarget, Candidates
<1>c. \A c \in Calls : Abandon(c) \in [Calls -> Nat]
  BY DEF Abandon
<1>1. CASE Skipped
  BY <1>a, <1>b, <1>1 DEF Skipped, book, target, history
<1>2. CASE SpawnPool
  <2>1. created' \in 0..PoolTarget' /\ pool' \in 0..created'
    BY <1>a, <1>b, <1>2 DEF SpawnPool
  <2>2. inflight' \in [Calls -> Nat]
    <3>1. Abandon(0) \in [Calls -> Nat]
      BY <1>c
    <3> QED
      BY <1>2, <3>1 DEF SpawnPool
  <2> QED
    BY <1>a, <1>b, <1>2, <2>1, <2>2 DEF SpawnPool, book, history
<1>3. CASE PassOver
  <2>1. pc' = "scan" /\ i \in 1..sc.count /\ i' = i + 1
    BY <1>3 DEF PassOver, Scanning, Advance
  <2>2. UNCHANGED <<stop, pass, created, report, book, pool, target, history>>
    BY <1>3 DEF PassOver, Advance
  <2>3. i' \in 1..(sc.count + 1)
    BY <1>a, <2>1
  <2> QED
    BY <1>a, <1>b, <2>1, <2>2, <2>3 DEF book, target, history
<1>4. CASE SkipDecrypted
  <2>1. keys' \subseteq Key /\ flagged' \subseteq 1..sc.count
    BY <1>a, <1>4 DEF SkipDecrypted, Ready, Scanning, Flag
  <2> QED
    BY <1>a, <1>b, <1>4, <2>1 DEF SkipDecrypted, Ready, Scanning, Advance, target
<1>5. CASE Exhaust
  BY <1>a, <1>b, <1>5 DEF Exhaust, book, target, history
<1>6. CASE StageFails
  BY <1>a, <1>b, <1>6 DEF StageFails, TakeThread, Ready, Scanning, Advance, book, target
<1>7. CASE Dlopen
  BY <1>a, <1>b, <1>7 DEF Dlopen, TakeThread, Ready, Scanning, book, target
<1>8. CASE Fails
  BY <1>a, <1>b, <1>8 DEF Fails, Advance, book, target, history
<1>9. CASE Loads
  <2>1. images' \subseteq 1..sc.count
    BY <1>9 DEF Loads, MappedWith
  <2> QED
    BY <1>a, <1>b, <1>9, <2>1 DEF Loads, book, history
<1>10. CASE GiveUp
  <2>1. inflight' \in [Calls -> Nat]
    BY <1>c, <1>10 DEF GiveUp
  <2> QED
    BY <1>a, <1>b, <1>10, <2>1 DEF GiveUp, Advance, book, history
<1>11. CASE StaleAnswer
  <2>1. inflight' \in [Calls -> Nat] /\ port' \in Nat
    BY <1>c, <1>11 DEF StaleAnswer
  <2>2. pc' \in {"scan", "locate"} /\ stop' = stop /\ pass' = pass /\ report' = report
        /\ created' = created /\ i' \in 1..(sc.count + 1)
        /\ (pc' = "locate" => i' \in 1..sc.count)
    BY <1>a, <1>11 DEF StaleAnswer, Advance
  <2> QED
    BY <1>a, <1>b, <1>11, <2>1, <2>2 DEF StaleAnswer, book, history
<1>12. CASE NoBase
  BY <1>a, <1>b, <1>12 DEF NoBase, Advance, book, target, history
<1>13. CASE Dump
  <2>1. keys' \subseteq Key /\ flagged' \subseteq 1..sc.count
    BY <1>a, <1>13 DEF Dump, Flag
  <2>2. \/ dst' = dst \cup {i} /\ fresh' = fresh + 1 /\ uncounted' = uncounted
        \/ dst' = dst /\ fresh' = fresh /\ uncounted' = uncounted \cup {i}
    BY <1>13, Zenon DEF Dump
  <2>3. i \in 1..sc.count
    BY <1>13 DEF Dump
  <2>4. dst' \subseteq 1..sc.count /\ fresh' \in Nat /\ uncounted' \subseteq 1..sc.count
    <3>1. fresh + 1 \in Nat /\ dst \cup {i} \subseteq 1..sc.count
      BY <2>3
    <3>2. uncounted \cup {i} \subseteq 1..sc.count
      BY <2>3
    <3>3. dst \subseteq 1..sc.count /\ fresh \in Nat /\ uncounted \subseteq 1..sc.count
      OBVIOUS
    <3> QED
      BY ONLY <2>2, <3>1, <3>2, <3>3
  <2>5. Advance /\ UNCHANGED <<pool, target, visited, tried>>
    BY <1>13 DEF Dump
  <2> QED
    BY <1>a, <1>b, <2>1, <2>3, <2>4, <2>5 DEF Advance, target
<1>14. CASE NextPass
  BY <1>a, <1>b, <1>14, BoundsAssumption DEF NextPass, target
<1>15. CASE LastPass
  BY <1>a, <1>b, <1>15 DEF LastPass, book, target, history
<1>16. CASE Report
  BY <1>a, <1>b, <1>16 DEF Report, book, target, history
<1>17. CASE Target
  <2>1. CASE \E f \in Frameworks : AbandonedMaps(f)
    <3>1. images' \subseteq 1..sc.count
      BY <2>1 DEF AbandonedMaps, MappedWith
    <3> QED
      BY <1>a, <1>b, <2>1, <3>1 DEF AbandonedMaps, loop, book, history
  <2>2. CASE \E c \in Calls : AbandonedReturns(c)
    <3>1. inflight' \in [Calls -> Nat] /\ port' \in Nat
      BY <2>2 DEF AbandonedReturns
    <3>2. UNCHANGED <<loop, book, created, pool, images, report, history>>
      BY <2>2 DEF AbandonedReturns
    <3> QED
      BY <1>a, <1>b, <3>1, <3>2 DEF loop, book, history
  <2> QED
    BY <1>17, <2>1, <2>2 DEF Target
<1>18. CASE UNCHANGED vars
  BY <1>a, <1>b, <1>18 DEF vars, loop, book, target, history
<1> QED
  BY <1>1, <1>2, <1>3, <1>4, <1>5, <1>6, <1>7, <1>8, <1>9, <1>10, <1>11, <1>12,
     <1>13, <1>14, <1>15, <1>16, <1>17, <1>18 DEF Next, Helper

\* TypeOK: loop counters, pool and sets keep their ranges whatever the target does.
THEOREM TypeCorrect == Spec => []TypeOK
  BY InitType, StepType, PTL DEF Spec

-----------------------------------------------------------------------------
(* Every action leaves most of the state alone.  Frames names the two ways   *)
(* a step can matter to the invariants below: it flags framework i, or it    *)
(* spends a thread on it.                                                   *)

Grows ==
  /\ sc' = sc
  /\ keys \subseteq keys'
  /\ images \subseteq images'

\* The scenario is fixed; loaded keys and mapped images are never taken back.
LEMMA StepGrows == [Next]_vars => Grows
BY DEF Grows, Next, Helper, Target, vars, loop, book, target, history, Skipped, SpawnPool,
       PassOver, SkipDecrypted, Exhaust, StageFails, Dlopen, TakeThread, Fails, Loads,
       GiveUp, StaleAnswer, NoBase, Dump, NextPass, LastPass, Report, AbandonedMaps,
       AbandonedReturns, Advance, Flag, Ready, Scanning

\* Hence what once was unblocked stays unblocked.
LEMMA UnblockedStays ==
  ASSUME Grows, NEW f, Blocking(f) = {}
  PROVE  Blocking(f)' = {}
BY DEF Grows, Blocking, BundleKeys, Frameworks

\* Only SkipDecrypted and Dump touch the flags and the destination files.
LEMMA FlagFrame ==
  ASSUME [Next]_vars, ~SkipDecrypted, ~Dump
  PROVE  UNCHANGED <<flagged, dst, keys>>
BY DEF Next, Helper, Target, vars, loop, book, target, history, Skipped, SpawnPool,
       PassOver, Exhaust, StageFails, Dlopen, TakeThread, Fails, Loads,
       GiveUp, StaleAnswer, NoBase, NextPass, LastPass, Report, AbandonedMaps,
       AbandonedReturns, Advance

\* Only StageFails, Dlopen and NextPass touch the record of attempts.
LEMMA VisitFrame ==
  ASSUME [Next]_vars, ~StageFails, ~Dlopen, ~NextPass
  PROVE  UNCHANGED <<visited, tried>>
BY DEF Next, Helper, Target, vars, loop, book, target, history, Skipped, SpawnPool,
       PassOver, SkipDecrypted, Exhaust, Fails, Loads,
       GiveUp, StaleAnswer, NoBase, Dump, LastPass, Report, AbandonedMaps,
       AbandonedReturns, Advance

-----------------------------------------------------------------------------
(* What is flagged is mapped.                                               *)

\* A step that is neither SkipDecrypted nor Dump only adds images; SkipDecrypted needs
\* a plaintext destination, and Dump looks the image up first.
LEMMA StepMapped == LoadedIsMapped /\ [Next]_vars => LoadedIsMapped'
<1> SUFFICES ASSUME LoadedIsMapped, [Next]_vars PROVE LoadedIsMapped'
  OBVIOUS
<1>1. Grows
  BY StepGrows
<1>2. CASE SkipDecrypted
  BY <1>1, <1>2 DEF SkipDecrypted, Flag, LoadedIsMapped, Grows
<1>3. CASE Dump
  BY <1>1, <1>3 DEF Dump, Flag, LoadedIsMapped, Grows
<1>4. CASE ~SkipDecrypted /\ ~Dump
  <2>1. UNCHANGED <<flagged, dst>>
    BY <1>4, FlagFrame
  <2> QED
    BY <1>1, <2>1 DEF LoadedIsMapped, Grows
<1> QED
  BY <1>2, <1>3, <1>4

\* LoadedIsMapped: no late answer of an abandoned dlopen makes inject.c record a
\* framework, or patch a file, for an image that dyld does not list.
THEOREM FlaggedAreMapped == Spec => []LoadedIsMapped
<1>1. Init => LoadedIsMapped
  BY DEF Init, LoadedIsMapped
<1> QED
  BY <1>1, StepMapped, PTL DEF Spec

-----------------------------------------------------------------------------
(* Attempts respect the bundle's dependency order.                          *)

\* A thread is taken only for an unblocked framework, and keys are never lost.
LEMMA StepRespects == AttemptsRespectDeps /\ [Next]_vars => AttemptsRespectDeps'
<1> SUFFICES ASSUME AttemptsRespectDeps, [Next]_vars PROVE AttemptsRespectDeps'
  OBVIOUS
<1>1. Grows
  BY StepGrows
<1>2. ASSUME NEW f \in visited \cup tried PROVE Blocking(f)' = {}
  <2>1. Blocking(f) = {}
    BY DEF AttemptsRespectDeps
  <2> QED
    BY <1>1, <2>1, UnblockedStays
<1>3. CASE StageFails \/ Dlopen
  <2>1. Blocking(i) = {}
    BY <1>3 DEF StageFails, Dlopen, TakeThread, Ready
  <2>3. visited' \cup tried' \subseteq visited \cup tried \cup {i}
    BY <1>3 DEF StageFails, Dlopen, TakeThread
  <2>4. ASSUME NEW f \in visited' \cup tried' PROVE Blocking(f)' = {}
    <3>1. CASE f \in visited \cup tried
      BY <1>2, <3>1
    <3>2. CASE f = i
      <4>1. Blocking(f) = {}
        BY <2>1, <3>2
      <4> QED
        BY <1>1, <4>1, UnblockedStays
    <3> QED
      BY <2>3, <3>1, <3>2
  <2> QED
    BY <2>4 DEF AttemptsRespectDeps
<1>4. CASE NextPass
  <2>1. visited' \cup tried' \subseteq visited \cup tried
    BY <1>4 DEF NextPass
  <2> QED
    BY <1>2, <2>1 DEF AttemptsRespectDeps
<1>5. CASE ~StageFails /\ ~Dlopen /\ ~NextPass
  <2>1. UNCHANGED <<visited, tried>>
    BY <1>5, VisitFrame
  <2> QED
    BY <1>2, <2>1 DEF AttemptsRespectDeps
<1> QED
  BY <1>3, <1>4, <1>5

\* AttemptsRespectDeps: no dlopen runs before the bundle frameworks it links to are
\* recorded as loaded, in any pass.
THEOREM DependenciesFirst == Spec => []AttemptsRespectDeps
<1>1. Init => AttemptsRespectDeps
  BY DEF Init, AttemptsRespectDeps
<1> QED
  BY <1>1, StepRespects, PTL DEF Spec

-----------------------------------------------------------------------------
(* A pass that flags nothing is a fixpoint.                                 *)

Settled(f) == f \in flagged \/ f \in visited \/ Blocking(f) # {}

\* DryPassIsFixpoint is not inductive: it speaks of the end of the loop only.  While
\* a pass has recorded nothing, the frameworks behind the index are settled, the one
\* in hand has its thread, and the loop ends dry only behind the last framework.
Sweep ==
  /\ pc \in {"call", "locate"} => i \in visited
  /\ fresh = 0 /\ uncounted = {} => \A f \in Frameworks : f < i => Settled(f)
  /\ stop = "dry" => fresh = 0 /\ i \notin Frameworks /\ pc \in {"report", "done"}

\* Steps that leave the keys, the flags and the visits alone settle what they settled.
LEMMA SettledStays ==
  ASSUME sc' = sc, keys' = keys, flagged' = flagged, visited \subseteq visited',
         NEW f, Settled(f)
  PROVE  Settled(f)'
BY DEF Settled, Blocking, BundleKeys, Frameworks

Still == UNCHANGED <<sc, keys, flagged, fresh, uncounted>>

\* A step to the next framework that leaves the current one settled keeps Sweep.
LEMMA AdvanceSweeps ==
  ASSUME TypeOK, Sweep, Advance, Still, stop # "dry", i \in Frameworks,
         visited \subseteq visited', Settled(i)
  PROVE  Sweep'
<1>1. pc' = "scan" /\ i' = i + 1 /\ stop' # "dry" /\ sc' = sc
  BY DEF Advance
<1>2. Frameworks' = Frameworks /\ Frameworks \subseteq Nat /\ i \in Nat
  BY <1>1 DEF Frameworks, TypeOK
<1>3. ASSUME fresh = 0, uncounted = {}, NEW f \in Frameworks, f < i + 1
      PROVE  Settled(f)'
  <2>1. f < i \/ f = i
    BY <1>2, <1>3
  <2>2. Settled(f)
    BY <1>3, <2>1 DEF Sweep
  <2> QED
    BY <1>1, <2>2, SettledStays DEF Still
<1> QED
  BY <1>1, <1>2, <1>3 DEF Sweep, Still

\* The loop has not ended while the helper is in it.
LEMMA NotDry == Sweep /\ pc \notin {"report", "done"} => stop # "dry"
BY DEF Sweep
\* Sweep is kept by every step.
LEMMA StepSweeps == TypeOK /\ Sweep /\ [Next]_vars => Sweep'
<1> SUFFICES ASSUME TypeOK, Sweep, [Next]_vars PROVE Sweep'
  OBVIOUS
<1> USE NotDry
<1>1. CASE Skipped
  <2>1. Still /\ visited' = visited /\ i' = i /\ stop' = stop /\ pc' = "done" /\ stop # "dry"
    BY <1>1 DEF Skipped, Still, book, history
  <2> QED
    BY <2>1, SettledStays DEF Sweep, Still, Frameworks
<1>2. CASE SpawnPool
  <2>1. Still /\ visited' = visited /\ i' = i /\ stop' = stop /\ pc' = "scan" /\ stop # "dry"
    BY <1>2 DEF SpawnPool, Still, book, history
  <2> QED
    BY <2>1, SettledStays DEF Sweep, Still, Frameworks
<1>3. CASE PassOver
  <2>1. Advance /\ Still /\ visited' = visited /\ stop # "dry" /\ i \in Frameworks /\ Settled(i)
    BY <1>3 DEF PassOver, Scanning, Advance, Still, book, history, Settled
  <2> QED
    BY <2>1, AdvanceSweeps
<1>4. CASE SkipDecrypted
  BY <1>4 DEF SkipDecrypted, Ready, Scanning, Advance, Sweep
<1>5. CASE Exhaust
  <2>1. Still /\ visited' = visited /\ i' = i /\ stop' = "exhausted" /\ pc' = "report"
    BY <1>5 DEF Exhaust, Still, book, history
  <2> QED
    BY <2>1, SettledStays DEF Sweep, Still, Frameworks
<1>6. CASE StageFails
  <2>1. Advance /\ Still /\ stop # "dry" /\ i \in Frameworks /\ visited' = visited \cup {i}
    BY <1>6 DEF StageFails, TakeThread, Ready, Scanning, Advance, Still, book
  <2>2. Advance /\ Still /\ i' = i + 1 /\ pc' = "scan" /\ stop' # "dry"
    BY <2>1 DEF Advance
  <2>3. ASSUME fresh = 0, uncounted = {}, NEW f \in Frameworks, f < i + 1
        PROVE  Settled(f)'
    <3>1. f < i \/ f = i
      BY <2>3 DEF TypeOK, Frameworks
    <3>2. CASE f = i
      BY <2>1, <3>2 DEF Settled
    <3>3. CASE f < i
      BY <2>1, <2>3, <3>3, SettledStays DEF Sweep, Still
    <3> QED
      BY <3>1, <3>2, <3>3
  <2> QED
    BY <2>1, <2>2, <2>3 DEF Sweep, Still, Frameworks
<1>7. CASE Dlopen
  <2>1. Still /\ visited' = visited \cup {i} /\ i' = i /\ stop' = stop /\ pc' = "call"
        /\ stop # "dry"
    BY <1>7 DEF Dlopen, TakeThread, Ready, Scanning, Still, book
  <2> QED
    BY <2>1, SettledStays DEF Sweep, Still, Frameworks
<1>8. CASE Fails \/ GiveUp \/ NoBase
  <2>1. Advance /\ Still /\ visited' = visited /\ stop # "dry" /\ i \in Frameworks /\ Settled(i)
    BY <1>8 DEF Fails, GiveUp, NoBase, Advance, Still, book, history, Settled, Sweep, TypeOK
  <2> QED
    BY <2>1, AdvanceSweeps
<1>9. CASE Loads
  <2>1. Still /\ visited' = visited /\ i' = i /\ stop' = stop /\ stop # "dry" /\ i \in visited
    BY <1>9 DEF Loads, Still, book, history, Sweep
  <2> QED
    BY <2>1, SettledStays DEF Sweep, Still, Frameworks
<1>10. CASE StaleAnswer
  <2>1. Still /\ visited' = visited /\ stop # "dry" /\ i \in visited /\ i \in Frameworks
    BY <1>10 DEF StaleAnswer, Advance, Still, book, history, Sweep, TypeOK
  <2>2. CASE Advance
    BY <2>1, <2>2, AdvanceSweeps DEF Settled
  <2>3. CASE pc' = "locate" /\ UNCHANGED <<sc, stop, pass, i, created, report>>
    BY <2>1, <2>3, SettledStays DEF Sweep, Still, Frameworks
  <2> QED
    BY <1>10, <2>2, <2>3 DEF StaleAnswer
<1>11. CASE Dump
  <2>1. pc' = "scan" /\ stop' # "dry" /\ (fresh' # 0 \/ uncounted' # {})
    BY <1>11 DEF Dump, Advance, TypeOK
  <2> QED
    BY <2>1 DEF Sweep
<1>12. CASE NextPass
  <2>1. pc' = "scan" /\ stop' # "dry" /\ i' = 1 /\ Frameworks' \subseteq Nat \ {0}
    BY <1>12 DEF NextPass, PassEnded, Frameworks
  <2>2. \A f \in Frameworks' : ~(f < 1)
    BY <2>1
  <2> QED
    BY <2>1, <2>2 DEF Sweep
<1>13. CASE LastPass
  <2>1. Still /\ visited' = visited /\ i' = i /\ pc' = "report" /\ i \notin Frameworks
        /\ (stop' = "dry" => fresh = 0)
    BY <1>13 DEF LastPass, PassEnded, Still, book, history
  <2> QED
    BY <2>1, SettledStays DEF Sweep, Still, Frameworks
<1>14. CASE Report
  <2>1. Still /\ visited' = visited /\ i' = i /\ pc' = "done" /\ stop' = stop
    BY <1>14 DEF Report, Still, book, history
  <2> QED
    BY <2>1, SettledStays DEF Sweep, Still, Frameworks
<1>15. CASE Target \/ UNCHANGED vars
  <2>1. Still /\ visited' = visited /\ i' = i /\ pc' = pc /\ stop' = stop
    BY <1>15 DEF Target, AbandonedMaps, AbandonedReturns, Still, vars, loop, book, history
  <2> QED
    BY <2>1, SettledStays DEF Sweep, Still, Frameworks
<1> QED
  BY <1>1, <1>2, <1>3, <1>4, <1>5, <1>6, <1>7, <1>8, <1>9, <1>10, <1>11, <1>12,
     <1>13, <1>14, <1>15 DEF Next, Helper

\* Behind the end of a loop that stopped dry every framework is settled.
LEMMA SweepIsEnough == TypeOK /\ Sweep => DryPassIsFixpoint
<1> SUFFICES ASSUME TypeOK, Sweep, stop = "dry", uncounted = {}, NEW f \in Frameworks
             PROVE  Settled(f)
  BY DEF DryPassIsFixpoint, Settled
<1>1. i \notin Frameworks /\ fresh = 0
  BY DEF Sweep
<1>2. f < i
  BY <1>1, ScenarioParts DEF TypeOK, Frameworks
<1> QED
  BY <1>1, <1>2 DEF Sweep

\* DryPassIsFixpoint: when the pass loop stops because a pass flagged nothing, no
\* framework that could still have been loaded was left without an attempt in it.
THEOREM DryPassLeavesNothing == Spec => []DryPassIsFixpoint
<1>1. Init => Sweep
  BY DEF Init, Sweep, Frameworks
<1> QED
  BY <1>1, InitType, StepType, StepSweeps, SweepIsEnough, PTL DEF Spec

-----------------------------------------------------------------------------
(* Every framework left over by such a pass has its reason.                 *)

\* Where no framework was flagged without counting, the claim of inject.c that its
\* leftovers were tried holds, but for those whose path could not be staged.
LeftoversExplained ==
  stop = "dry" /\ uncounted = {} =>
    \A f \in Frameworks :
      report[f] = "failed" => f \in tried \/ "unstaged" \in sc.answers[f]

\* A thread is spent on dlopen or on a path that was not staged; the report is made once,
\* when the books are closed.
Reasons ==
  /\ \A f \in visited : f \in tried \/ "unstaged" \in sc.answers[f]
  /\ \A f \in Frameworks :
       report[f] = "failed" => pc = "done" /\ f \notin flagged /\ Blocking(f) = {}

\* Only Report writes the report, and after it neither the keys nor the flags change.
LEMMA ReportFrame ==
  ASSUME [Next]_vars, ~Report
  PROVE  /\ UNCHANGED <<sc, report>>
         /\ pc = "done" => UNCHANGED <<pc, keys, flagged>>
BY DEF Next, Helper, Target, vars, loop, book, target, history, Skipped, SpawnPool,
       PassOver, SkipDecrypted, Exhaust, StageFails, Dlopen, TakeThread, Fails, Loads,
       GiveUp, StaleAnswer, NoBase, Dump, NextPass, LastPass, AbandonedMaps,
       AbandonedReturns, Advance, Ready, Scanning, PassEnded

\* What was tried stays tried, and only StageFails takes a thread without trying.
LEMMA StepTried ==
  ASSUME [Next]_vars
  PROVE  /\ tried \subseteq tried'
         /\ visited' \subseteq visited \cup tried' \/ StageFails
BY DEF Next, Helper, Target, vars, loop, book, target, history, Skipped, SpawnPool,
       PassOver, SkipDecrypted, Exhaust, Dlopen, TakeThread, Fails, Loads, StageFails,
       GiveUp, StaleAnswer, NoBase, Dump, NextPass, LastPass, Report, AbandonedMaps,
       AbandonedReturns, Advance

\* Reasons is kept by every step.
LEMMA StepReasons == TypeOK /\ Reasons /\ [Next]_vars => Reasons'
<1> SUFFICES ASSUME TypeOK, Reasons, [Next]_vars PROVE Reasons'
  OBVIOUS
<1>1. sc' = sc /\ Frameworks' = Frameworks
  BY StepGrows DEF Grows, Frameworks
<1>2. ASSUME NEW f \in visited' PROVE f \in tried' \/ "unstaged" \in sc.answers[f]
  <2>1. CASE f \in visited
    BY <2>1, StepTried DEF Reasons
  <2>2. CASE f \notin visited /\ StageFails
    BY <1>2, <2>2 DEF StageFails, TakeThread
  <2>3. CASE f \notin visited /\ ~StageFails
    BY <1>2, <2>3, StepTried
  <2> QED
    BY <2>1, <2>2, <2>3
<1>3. ASSUME NEW f \in Frameworks, report'[f] = "failed"
      PROVE  pc' = "done" /\ f \notin flagged' /\ Blocking(f)' = {}
  <2>1. CASE Report
    <3>1. pc' = "done" /\ UNCHANGED <<sc, keys, flagged>>
      BY <2>1 DEF Report, book
    <3>2. report'[f] = IF f \in flagged THEN "none"
                       ELSE IF Blocking(f) # {} THEN "unsatisfied" ELSE "failed"
      BY <2>1 DEF Report
    <3>3. f \notin flagged /\ Blocking(f) = {}
      BY <1>3, <3>2
    <3> QED
      BY <3>1, <3>3 DEF Blocking, BundleKeys, Frameworks
  <2>2. CASE ~Report
    <3>1. pc = "done" /\ f \notin flagged /\ Blocking(f) = {}
      BY <1>3, <2>2, ReportFrame DEF Reasons
    <3>2. UNCHANGED <<sc, pc, keys, flagged>>
      BY <2>2, <3>1, ReportFrame
    <3> QED
      BY <3>1, <3>2 DEF Blocking, BundleKeys, Frameworks
  <2> QED
    BY <2>1, <2>2
<1> QED
  BY <1>1, <1>2, <1>3 DEF Reasons

\* What is reported as failed was settled by the pass, so a thread was taken for it.
LEMMA ReasonsAreEnough == Reasons /\ DryPassIsFixpoint => LeftoversExplained
BY DEF Reasons, DryPassIsFixpoint, LeftoversExplained

\* LeftoversExplained: a loop that a pass without progress ends leaves no loadable framework
\* that dlopen was not called for, save where flagging went uncounted or staging failed.
\* (LeftoversWereTried, without these two exceptions, is what the code does not keep.)
THEOREM LeftoversAreExplained == Spec => []LeftoversExplained
<1>1. Init => Reasons
  BY DEF Init, Reasons
<1> QED
  BY <1>1, InitType, StepType, StepReasons, DryPassLeavesNothing, ReasonsAreEnough, PTL
     DEF Spec

-----------------------------------------------------------------------------
(* How many threads the passes can use up.                                  *)

C   == Cardinality(Candidates)
Old == (Candidates \cap flagged) \ visited

\* Every pass but the first follows one that loaded a candidate, and a candidate that is
\* loaded takes no thread in later passes: so at most C threads are taken in the first
\* pass, C - 1 in the second, and so on.
AttemptsAddUp == stop = "exhausted" => 2 * created < C * (C + 1)

\* The books of a pass: whom it took a thread for, who was loaded before it, what is spent.
Ledger ==
  /\ pc = "start" => visited = {} /\ stop = "no"
  /\ sc.ready \subseteq dst /\ dst \subseteq flagged \cup sc.ready
  /\ visited \subseteq Candidates
  /\ \A f \in visited : f <= i
  /\ pc = "scan" => i \notin visited
  /\ pc \in {"call", "locate"} => i \in visited /\ i \notin flagged
  /\ fresh > 0 => visited \cap flagged # {}
  /\ pass <= Cardinality(Old)
  /\ 2 * (created - pool) <= pass * (2 * C - pass + 1) + 2 * Cardinality(visited)

\* Sums over the passes: one more pass, and the last thread of the last one.
LEMMA PassSums ==
  ASSUME NEW c \in Nat, NEW p \in Nat, p <= c
  PROVE  /\ (p + 1) * (2 * c - p) = p * (2 * c - p + 1) + 2 * (c - p)
         /\ p * (2 * c - p + 1) <= c * (c + 1)
<1>1. (p + 1) * (2 * c - p) = p * (2 * c - p + 1) + 2 * (c - p)
  OBVIOUS
<1>2. PICK d \in Nat : c = p + d
  <2>1. c - p \in Nat /\ c = p + (c - p)
    OBVIOUS
  <2> QED
    BY <2>1
<1>3. c * (c + 1) = p * (2 * c - p + 1) + d * (d + 1)
  BY <1>2
<1>4. d * (d + 1) >= 0
  OBVIOUS
<1>5. p * (2 * c - p + 1) \in Int /\ c * (c + 1) \in Int /\ d * (d + 1) \in Int
  OBVIOUS
<1> QED
  BY <1>1, <1>3, <1>4, <1>5

\* There are finitely many candidates.
LEMMA CandidatesFinite ==
  ASSUME TypeOK
  PROVE  IsFiniteSet(Candidates) /\ C \in Nat
<1>1. IsFiniteSet(Frameworks)
  BY ScenarioParts, FS_Interval DEF TypeOK, Frameworks
<1>2. IsFiniteSet(Candidates)
  BY <1>1, FS_Subset DEF Candidates
<1> QED
  BY <1>2, FS_CardinalityType DEF C

\* Of two disjoint sets of candidates the sizes add up to C at most.
LEMMA DisjointCandidates ==
  ASSUME TypeOK, NEW S \in SUBSET Candidates, NEW T \in SUBSET Candidates, S \cap T = {}
  PROVE  /\ IsFiniteSet(Candidates) /\ IsFiniteSet(S) /\ IsFiniteSet(T)
         /\ C \in Nat /\ Cardinality(S) \in Nat /\ Cardinality(T) \in Nat
         /\ Cardinality(S) + Cardinality(T) <= C
<1>2. IsFiniteSet(Candidates)
  BY CandidatesFinite
<1>3. IsFiniteSet(S) /\ IsFiniteSet(T) /\ S \cup T \subseteq Candidates
  BY <1>2, FS_Subset
<1>4. Cardinality(S \cup T) = Cardinality(S) + Cardinality(T) - Cardinality(S \cap T)
  BY <1>3, FS_Union
<1>5. Cardinality(S \cap T) = 0
  BY FS_EmptySet
<1>6. Cardinality(S \cup T) <= C
  BY <1>2, <1>3, FS_Subset DEF C
<1>7. C \in Nat /\ Cardinality(S) \in Nat /\ Cardinality(T) \in Nat
  BY <1>2, <1>3, FS_CardinalityType DEF C
<1> QED
  BY <1>2, <1>3, <1>4, <1>5, <1>6, <1>7

\* The threads of this pass and the candidates loaded before it are different ones.
LEMMA LedgerSizes ==
  ASSUME TypeOK, Ledger
  PROVE  /\ IsFiniteSet(Candidates) /\ IsFiniteSet(visited) /\ IsFiniteSet(Old)
         /\ C \in Nat /\ Cardinality(visited) \in Nat /\ Cardinality(Old) \in Nat
         /\ Cardinality(visited) + Cardinality(Old) <= C
         /\ pass \in Nat /\ pass <= C
<1>1. visited \in SUBSET Candidates /\ Old \in SUBSET Candidates /\ visited \cap Old = {}
  BY DEF Ledger, Old
<1>2. pass \in Nat
  BY BoundsAssumption DEF TypeOK
<1> QED
  BY <1>1, <1>2, DisjointCandidates DEF Ledger

\* A framework in hand that is neither visited nor flagged is one more candidate.
LEMMA RoomForOneMore ==
  ASSUME TypeOK, Ledger, i \in Candidates, i \notin visited, i \notin flagged
  PROVE  Cardinality(visited) + Cardinality(Old) + 1 <= C
<1>1. visited \cup {i} \in SUBSET Candidates /\ Old \in SUBSET Candidates
  BY DEF Ledger, Old
<1>2. (visited \cup {i}) \cap Old = {}
  BY DEF Old
<1>3. Cardinality(visited \cup {i}) + Cardinality(Old) <= C
  BY <1>1, <1>2, DisjointCandidates
<1>4. Cardinality(visited \cup {i}) = Cardinality(visited) + 1
  BY LedgerSizes, FS_AddElement
<1>5. Cardinality(visited) \in Nat /\ Cardinality(Old) \in Nat /\ C \in Nat
  BY LedgerSizes
<1> QED
  BY <1>3, <1>4, <1>5

Books == UNCHANGED <<sc, flagged, dst, fresh, pass, created, pool, visited>>

\* A step that leaves the books alone keeps Ledger if it goes on with the framework in hand,
\* with the next one, or with none.
LEMMA BooksStay ==
  ASSUME TypeOK, Ledger, Books,
         \/ pc' = "scan" /\ i' = i + 1
         \/ pc' \in {"call", "locate"} /\ pc \in {"call", "locate"} /\ i' = i
         \/ pc' = pc /\ i' = i /\ stop' = stop
         \/ pc' \in {"report", "done"} /\ i' = i
  PROVE  Ledger'
<1>1. Old' = Old /\ C' = C /\ Candidates' = Candidates
  BY DEF Books, Old, C, Candidates, Frameworks
<1>2. i \in Nat /\ \A f \in visited : f \in Nat
  BY LedgerSizes, ScenarioParts DEF TypeOK, Ledger, Candidates, Frameworks
<1>3. \A f \in visited : f <= i'
  BY <1>2 DEF Ledger
<1>4. pc' = "scan" => i' \notin visited
  BY <1>2 DEF Ledger
<1>5. pc' \in {"call", "locate"} => i' \in visited /\ i' \notin flagged
  BY DEF Ledger
<1>6. pc' = "start" => visited = {} /\ stop' = "no"
  BY DEF Ledger
<1> QED
  BY <1>1, <1>3, <1>4, <1>5, <1>6 DEF Ledger, Books

\* A thread for the framework in hand is one more of this pass, and one less in the pool.
LEMMA ThreadTaken ==
  ASSUME TypeOK, Ledger, Ready, i \notin dst, pool > 0,
         pool' = pool - 1, visited' = visited \cup {i},
         UNCHANGED <<sc, flagged, dst, fresh, pass, created>>,
         \/ pc' = "scan" /\ i' = i + 1
         \/ pc' = "call" /\ i' = i
  PROVE  Ledger'
<1>1. i \in Frameworks /\ pc = "scan" /\ i \notin flagged /\ i \notin visited
  BY DEF Ready, Scanning, Ledger
<1>2. i \in Candidates
  BY <1>1 DEF Ledger, Candidates
<1>3. Old' = Old /\ C' = C /\ Candidates' = Candidates
  BY <1>1 DEF Old, C, Candidates, Frameworks
<1>4. Cardinality(visited') = Cardinality(visited) + 1
  BY <1>1, LedgerSizes, FS_AddElement
<1>5. i \in Nat /\ \A f \in visited : f \in Nat
  BY ScenarioParts DEF TypeOK, Ledger, Candidates, Frameworks
<1>6. \A f \in visited' : f <= i'
  BY <1>5 DEF Ledger
<1>7. pc' = "scan" => i' \notin visited'
  <2>1. \A f \in visited' : f <= i
    BY <1>5 DEF Ledger
  <2> QED
    BY <1>5, <2>1
<1>8. 2 * (created' - pool') <= pass' * (2 * C' - pass' + 1) + 2 * Cardinality(visited')
  <2>1. 2 * (created - pool) <= pass * (2 * C - pass + 1) + 2 * Cardinality(visited)
    BY DEF Ledger
  <2>2. created \in Int /\ pool \in Int /\ Cardinality(visited) \in Int
    BY LedgerSizes, PoolTargetNat DEF TypeOK
  <2>3. pass * (2 * C - pass + 1) \in Int
    BY LedgerSizes
  <2>4. 2 * (created' - pool') = 2 * (created - pool) + 2
    BY <2>2
  <2> HIDE DEF C
  <2> QED
    BY <1>3, <1>4, <2>1, <2>2, <2>3, <2>4
<1>9. visited' \subseteq Candidates /\ (fresh > 0 => visited' \cap flagged # {})
  BY <1>2 DEF Ledger
<1> QED
  BY <1>1, <1>3, <1>6, <1>7, <1>8, <1>9 DEF Ledger

\* Flagging the framework in hand moves nobody into Old: it was plaintext from the start, or
\* this pass took a thread for it.
LEMMA FlagKeepsOld ==
  ASSUME Ledger, flagged' = flagged \cup {i}, i \in sc.ready \/ i \in visited,
         UNCHANGED <<sc, visited>>
  PROVE  Old' = Old /\ C' = C /\ Candidates' = Candidates
BY DEF Old, C, Candidates, Frameworks

\* A pass that loaded a candidate hands it over to the next one.
LEMMA PassClosed ==
  ASSUME TypeOK, Ledger, NextPass
  PROVE  Ledger'
<1>1. /\ fresh > 0 /\ pass' = pass + 1 /\ i' = 1 /\ fresh' = 0 /\ visited' = {} /\ pc = "scan"
      /\ UNCHANGED <<sc, pc, flagged, dst, created, pool>>
  BY DEF NextPass, PassEnded
<1>2. Candidates' = Candidates /\ C' = C /\ Old' = Candidates \cap flagged
  BY <1>1 DEF Candidates, C, Old, Frameworks
<1>3. PICK f \in visited : f \in flagged
  BY <1>1 DEF Ledger
<1>4. f \notin Old /\ Old \cup {f} \subseteq Candidates \cap flagged
  BY <1>3 DEF Old, Ledger
<1>5. Cardinality(Old \cup {f}) = Cardinality(Old) + 1 /\ IsFiniteSet(Old \cup {f})
  BY <1>4, LedgerSizes, FS_AddElement
<1>6. IsFiniteSet(Candidates \cap flagged)
  BY LedgerSizes, FS_Subset
<1>7. Cardinality(Old \cup {f}) <= Cardinality(Candidates \cap flagged)
  BY <1>4, <1>6, FS_Subset
<1>8. Cardinality(Candidates \cap flagged) \in Nat
  BY <1>6, FS_CardinalityType
<1>9. pass' <= Cardinality(Old')
  BY <1>1, <1>2, <1>5, <1>7, <1>8, LedgerSizes DEF Ledger
<1>10. 2 * (created' - pool') <= pass' * (2 * C' - pass' + 1) + 2 * Cardinality(visited')
  <2>1. 2 * (created - pool) <= pass * (2 * C - pass + 1) + 2 * Cardinality(visited)
    BY DEF Ledger
  <2>2. Cardinality(visited) <= C - pass /\ Cardinality(visited) \in Nat
    BY LedgerSizes DEF Ledger
  <2>3. C \in Nat /\ pass \in Nat /\ pass <= C
    BY LedgerSizes
  <2>4. (pass + 1) * (2 * C - pass) = pass * (2 * C - pass + 1) + 2 * (C - pass)
    BY <2>3, PassSums
  <2>5. pass' * (2 * C' - pass' + 1) = (pass + 1) * (2 * C - pass)
    BY <1>1, <1>2, <2>3
  <2>6. Cardinality(visited') = 0
    BY <1>1, FS_EmptySet
  <2>7. created' - pool' = created - pool /\ created - pool \in Int
    BY <1>1, PoolTargetNat DEF TypeOK
  <2>8. pass * (2 * C - pass + 1) \in Int
    BY <2>3
  <2>9. 2 * (created - pool) <= (pass + 1) * (2 * C - pass)
    BY <2>1, <2>2, <2>3, <2>4, <2>7, <2>8
  <2>10. (pass + 1) * (2 * C - pass) \in Int
    BY <2>3
  <2> QED
    BY <2>5, <2>6, <2>7, <2>9, <2>10
<1> QED
  BY <1>1, <1>2, <1>9, <1>10 DEF Ledger

\* The books are kept by every step.
LEMMA StepLedger == TypeOK /\ Ledger /\ [Next]_vars => Ledger'
<1> SUFFICES ASSUME TypeOK, Ledger, [Next]_vars PROVE Ledger'
  OBVIOUS
<1>1. CASE Skipped
  <2>1. Books /\ pc' = "done" /\ i' = i
    BY <1>1 DEF Skipped, Books, book, history
  <2> QED
    BY <2>1, BooksStay
<1>2. CASE SpawnPool
  <2>1. /\ created' = pool' /\ pc' = "scan" /\ i' = i /\ visited = {} /\ created' \in Nat
        /\ UNCHANGED <<sc, flagged, dst, fresh, pass, visited>>
    BY <1>2, PoolTargetNat DEF SpawnPool, Ledger, TypeOK, book, history
  <2>2. Old' = Old /\ C' = C /\ Candidates' = Candidates
    BY <2>1 DEF Old, C, Candidates, Frameworks
  <2>3. pass * (2 * C - pass + 1) >= 0 /\ Cardinality(visited) \in Nat
    <3>1. pass \in Nat /\ C \in Nat /\ 2 * C - pass + 1 \in Nat
      BY LedgerSizes
    <3> QED
      BY <3>1, LedgerSizes
  <2>4. 2 * (created' - pool') = 0 /\ pass * (2 * C - pass + 1) \in Int
    <3>1. 2 * (created' - pool') = 0
      <4>1. \A n \in Nat : 2 * (n - n) = 0
        OBVIOUS
      <4>2. created' \in Nat /\ pool' = created'
        BY <2>1
      <4> QED
        BY ONLY <4>1, <4>2, Zenon
    <3>2. pass \in Int /\ C \in Int
      BY LedgerSizes
    <3> QED
      BY <3>1, <3>2
  <2>5. 2 * (created' - pool') <= pass * (2 * C - pass + 1) + 2 * Cardinality(visited)
    BY <2>3, <2>4
  <2> QED
    BY <2>1, <2>2, <2>5 DEF Ledger
<1>3. CASE PassOver
  <2>1. Books /\ pc' = "scan" /\ i' = i + 1
    BY <1>3 DEF PassOver, Advance, Books, book, history
  <2> QED
    BY <2>1, BooksStay
<1>4. CASE SkipDecrypted
  <2>1. /\ i \in dst /\ i \notin flagged /\ flagged' = flagged \cup {i} /\ pc = "scan"
        /\ pc' = "scan" /\ i' = i + 1
        /\ UNCHANGED <<sc, fresh, dst, pass, created, pool, visited>>
    BY <1>4 DEF SkipDecrypted, Ready, Scanning, Flag, Advance
  <2>2. i \in sc.ready
    BY <2>1 DEF Ledger
  <2>3. Old' = Old /\ C' = C /\ Candidates' = Candidates
    BY <2>1, <2>2, FlagKeepsOld
  <2>4. (\A f \in visited : f <= i') /\ i' \notin visited
    <3>1. i \in Nat /\ \A f \in visited : f \in Nat
      BY ScenarioParts DEF TypeOK, Ledger, Candidates, Frameworks
    <3> QED
      BY <2>1, <3>1 DEF Ledger
  <2> QED
    BY <2>1, <2>3, <2>4 DEF Ledger
<1>5. CASE Exhaust
  <2>1. Books /\ pc' = "report" /\ i' = i
    BY <1>5 DEF Exhaust, Books, book, history
  <2> QED
    BY <2>1, BooksStay
<1>6. CASE StageFails
  <2>1. /\ Ready /\ i \notin dst /\ pool > 0 /\ pool' = pool - 1 /\ visited' = visited \cup {i}
        /\ pc' = "scan" /\ i' = i + 1 /\ UNCHANGED <<sc, flagged, dst, fresh, pass, created>>
    BY <1>6 DEF StageFails, TakeThread, Advance, book
  <2> QED
    BY <2>1, ThreadTaken
<1>7. CASE Dlopen
  <2>1. /\ Ready /\ i \notin dst /\ pool > 0 /\ pool' = pool - 1 /\ visited' = visited \cup {i}
        /\ pc' = "call" /\ i' = i /\ UNCHANGED <<sc, flagged, dst, fresh, pass, created>>
    BY <1>7 DEF Dlopen, TakeThread, book
  <2> QED
    BY <2>1, ThreadTaken
<1>8. CASE Fails \/ GiveUp \/ NoBase
  <2>1. Books /\ pc' = "scan" /\ i' = i + 1
    BY <1>8 DEF Fails, GiveUp, NoBase, Advance, Books, book, history
  <2> QED
    BY <2>1, BooksStay
<1>9. CASE Loads
  <2>1. Books /\ pc = "call" /\ pc' = "locate" /\ i' = i
    BY <1>9 DEF Loads, Books, book, history
  <2> QED
    BY <2>1, BooksStay
<1>10. CASE StaleAnswer
  <2>1. Books /\ pc = "call"
        /\ \/ pc' = "scan" /\ i' = i + 1
           \/ pc' = "locate" /\ i' = i
    BY <1>10 DEF StaleAnswer, Advance, Books, book, history
  <2> QED
    BY <2>1, BooksStay
<1>11. CASE Dump
  <2>1. /\ pc = "locate" /\ flagged' = flagged \cup {i} /\ pc' = "scan" /\ i' = i + 1
        /\ UNCHANGED <<sc, pass, created, pool, visited>>
        /\ dst' = dst \cup {i} \/ dst' = dst
    BY <1>11 DEF Dump, Flag, Advance
  <2>2. i \in visited /\ visited \cap flagged' # {}
    BY <2>1 DEF Ledger
  <2>3. Old' = Old /\ C' = C /\ Candidates' = Candidates
    BY <2>1, <2>2, FlagKeepsOld
  <2>4. (\A f \in visited : f <= i') /\ i' \notin visited
    <3>1. i \in Nat /\ \A f \in visited : f \in Nat
      BY ScenarioParts DEF TypeOK, Ledger, Candidates, Frameworks
    <3> QED
      BY <2>1, <3>1 DEF Ledger
  <2>5. sc.ready \subseteq dst' /\ dst' \subseteq flagged' \cup sc.ready
    BY <2>1 DEF Ledger
  <2> QED
    BY <2>1, <2>2, <2>3, <2>4, <2>5 DEF Ledger
<1>12. CASE NextPass
  BY <1>12, PassClosed
<1>13. CASE LastPass
  <2>1. Books /\ pc' = "report" /\ i' = i
    BY <1>13 DEF LastPass, Books, book, history
  <2> QED
    BY <2>1, BooksStay
<1>14. CASE Report
  <2>1. Books /\ pc' = "done" /\ i' = i
    BY <1>14 DEF Report, Books, book, history
  <2> QED
    BY <2>1, BooksStay
<1>15. CASE Target \/ UNCHANGED vars
  <2>1. Books /\ pc' = pc /\ i' = i /\ stop' = stop
    BY <1>15 DEF Target, AbandonedMaps, AbandonedReturns, Books, vars, loop, book, history
  <2> QED
    BY <2>1, BooksStay
<1> QED
  BY <1>1, <1>2, <1>3, <1>4, <1>5, <1>6, <1>7, <1>8, <1>9, <1>10, <1>11, <1>12,
     <1>13, <1>14, <1>15 DEF Next, Helper

\* The pool of created threads is used up only in mid-pass, with a candidate in hand that the
\* pass has not visited.
LEMMA ExhaustAddsUp ==
  ASSUME TypeOK, Ledger, Exhaust
  PROVE  2 * created < C * (C + 1)
<1>1. i \in Candidates /\ i \notin visited /\ i \notin flagged /\ pool = 0
  BY DEF Exhaust, Ready, Scanning, Ledger, Candidates
<1>2. Cardinality(visited) + Cardinality(Old) + 1 <= C
  BY <1>1, RoomForOneMore
<1>3. /\ C \in Nat /\ pass \in Nat /\ Cardinality(visited) \in Nat
      /\ Cardinality(Old) \in Nat /\ pass <= Cardinality(Old)
  BY LedgerSizes DEF Ledger
<1>4. Cardinality(visited) <= C - pass - 1 /\ pass + 1 <= C
  BY <1>2, <1>3
<1>5. 2 * created <= pass * (2 * C - pass + 1) + 2 * Cardinality(visited)
  BY <1>1, PoolTargetNat DEF Ledger, TypeOK
<1>6. (pass + 1) * (2 * C - pass) = pass * (2 * C - pass + 1) + 2 * (C - pass)
  BY <1>3, <1>4, PassSums
<1>7. (pass + 1) * (2 * C - (pass + 1) + 1) <= C * (C + 1)
  BY <1>3, <1>4, PassSums
<1>8. 2 * C - (pass + 1) + 1 = 2 * C - pass
  BY <1>3
<1>9. /\ pass * (2 * C - pass + 1) \in Int /\ (pass + 1) * (2 * C - pass) \in Int
      /\ C * (C + 1) \in Int /\ created \in Int
  BY <1>3, PoolTargetNat DEF TypeOK
<1>10. (pass + 1) * (2 * C - pass) <= C * (C + 1)
  BY <1>7, <1>8
<1> QED
  BY <1>3, <1>4, <1>5, <1>6, <1>9, <1>10

\* The bound holds when the loop ends so, and stays.
LEMMA StepAddsUp == TypeOK /\ Ledger /\ AttemptsAddUp /\ [Next]_vars => AttemptsAddUp'
<1> SUFFICES ASSUME TypeOK, Ledger, AttemptsAddUp, [Next]_vars, stop' = "exhausted"
             PROVE  (2 * created < C * (C + 1))'
  BY DEF AttemptsAddUp
<1>1. sc' = sc /\ C' = C
  BY StepGrows DEF Grows, C, Candidates, Frameworks
<1>2. CASE Exhaust
  <2>1. created' = created
    BY <1>2 DEF Exhaust
  <2> QED
    BY <1>1, <1>2, <2>1, ExhaustAddsUp
<1>3. CASE ~Exhaust
  <2>1. stop = "exhausted" /\ created' = created
    BY <1>3 DEF Next, Helper, Target, vars, loop, Skipped, SpawnPool, PassOver,
         SkipDecrypted, StageFails, Dlopen, Fails, Loads, GiveUp, StaleAnswer, NoBase, Dump,
         NextPass, LastPass, Report, AbandonedMaps, AbandonedReturns, Advance, Ledger
  <2> QED
    BY <1>1, <2>1 DEF AttemptsAddUp
<1> QED
  BY <1>2, <1>3

\* AttemptsAddUp: inject.c runs out of pool threads only if it made fewer than C(C+1)/2 of
\* them for C frameworks to load, however the dlopens fail, hang or answer late.
THEOREM ExhaustionBound == Spec => []AttemptsAddUp
<1>1. Init => AttemptsAddUp
  BY DEF Init, AttemptsAddUp
<1>2. Init => Ledger
  <2> SUFFICES ASSUME Init PROVE Ledger
    OBVIOUS
  <2>1. TypeOK
    BY InitType
  <2>2. visited = {} /\ Old = {} /\ pass = 0 /\ created = 0 /\ pool = 0 /\ flagged = {}
    BY DEF Init, Old
  <2>3. Cardinality(visited) = 0 /\ Cardinality(Old) = 0
    BY <2>2, FS_EmptySet
  <2>4. C \in Nat
    BY <2>1, CandidatesFinite
  <2>5. 2 * (created - pool) <= pass * (2 * C - pass + 1) + 2 * Cardinality(visited)
    BY <2>2, <2>3, <2>4
  <2> QED
    BY <2>2, <2>3, <2>5 DEF Init, Ledger
<1> QED
  BY <1>1, <1>2, InitType, StepType, StepLedger, StepAddsUp, PTL DEF Spec

\* With the figures of the code (32 spare threads, 800 at most) nine frameworks need no more
\* than a full pool has.
LEMMA NineFit ==
  ASSUME PoolSlack = 32, PoolCap = 800, TypeOK, AttemptsAddUp, C <= 9
  PROVE  FullPoolSuffices
<1> SUFFICES ASSUME stop = "exhausted" PROVE created < PoolTarget
  BY DEF FullPoolSuffices
<1>1. C \in Nat
  BY CandidatesFinite
<1>2. 2 * created < C * (C + 1) /\ created \in Nat
  BY PoolTargetNat DEF AttemptsAddUp, TypeOK
<1>3. C \in {0, 1, 2, 3, 4, 5, 6, 7, 8, 9}
  BY <1>1
<1>4. C * (C + 1) <= 4 * C + 64
  BY <1>3
<1>5. PoolTarget = 2 * C + 32
  BY <1>1 DEF PoolTarget, C
<1>6. C * (C + 1) \in Int
  BY <1>1
<1> HIDE DEF C
<1> QED
  BY <1>1, <1>2, <1>4, <1>5, <1>6

\* FullPoolSuffices holds of every bundle with at most nine frameworks to load (the run
\* inject_pool shows one of fourteen for which it does not).
THEOREM NineFrameworksFit ==
  PoolSlack = 32 /\ PoolCap = 800 => (Spec => [](C <= 9 => FullPoolSuffices))
<1> SUFFICES ASSUME PoolSlack = 32, PoolCap = 800
             PROVE  Spec => [](C <= 9 => FullPoolSuffices)
  OBVIOUS
<1>1. TypeOK /\ AttemptsAddUp => (C <= 9 => FullPoolSuffices)
  BY NineFit
<1> QED
  BY <1>1, TypeCorrect, ExhaustionBound, PTL

-----------------------------------------------------------------------------
(* The helper winds down.                                                   *)

\* Steps within the attempt at one framework, at most three.
Stage == CASE pc = "start" -> 3 [] pc = "scan" -> 2 [] pc = "call" -> 1 [] OTHER -> 0

\* Steps the helper can still make: the rest of this attempt, of this pass and of the passes.
StepsLeft ==
  CASE pc = "done"   -> 0
    [] pc = "report" -> 1
    [] OTHER -> 2 + (MaxPasses - 1 - pass) * (3 * sc.count + 1) + 3 * (sc.count + 1 - i) + Stage

\* Whatever the target answers or leaves unanswered, every step of the helper brings it
\* nearer to its end, and no step of the target sets it back.
WindsDown ==
  /\ [](StepsLeft \in Nat)
  /\ [][/\ Helper => StepsLeft' < StepsLeft
        /\ Target => StepsLeft' = StepsLeft]_vars

\* StepsLeft is a natural number: it cannot fall forever.
LEMMA StepsLeftNat ==
  ASSUME TypeOK
  PROVE  StepsLeft \in Nat
<1>1. sc.count \in Nat /\ MaxPasses \in Nat /\ pass \in Nat /\ pass <= MaxPasses - 1
  BY ScenarioParts, BoundsAssumption DEF TypeOK
<1>2. MaxPasses - 1 - pass \in Nat /\ 3 * sc.count + 1 \in Nat
  BY <1>1
<1>3. (MaxPasses - 1 - pass) * (3 * sc.count + 1) \in Nat
  BY <1>2
<1>4. 3 * (sc.count + 1 - i) \in Nat
  BY <1>1 DEF TypeOK
<1>5. Stage \in Nat
  BY DEF Stage
<1> QED
  BY <1>3, <1>4, <1>5 DEF StepsLeft

\* In the loop StepsLeft is two more than what the passes, frameworks and stages add up to.
LEMMA InTheLoop ==
  ASSUME TypeOK, pc \notin {"report", "done"}
  PROVE  /\ StepsLeft = 2 + (MaxPasses - 1 - pass) * (3 * sc.count + 1)
                          + 3 * (sc.count + 1 - i) + Stage
         /\ StepsLeft >= 2
         /\ (MaxPasses - 1 - pass) * (3 * sc.count + 1) \in Nat
         /\ sc.count \in Nat /\ i \in Nat /\ i <= sc.count + 1
<1>1. sc.count \in Nat /\ MaxPasses \in Nat /\ pass \in Nat /\ pass <= MaxPasses - 1
  BY ScenarioParts, BoundsAssumption DEF TypeOK
<1>2. MaxPasses - 1 - pass \in Nat /\ 3 * sc.count + 1 \in Nat
  BY <1>1
<1>3. (MaxPasses - 1 - pass) * (3 * sc.count + 1) \in Nat
  BY <1>2
<1>4. i \in Nat /\ i <= sc.count + 1 /\ 3 * (sc.count + 1 - i) \in Nat
  BY <1>1 DEF TypeOK
<1>5. Stage \in Nat
  BY DEF Stage
<1>6. StepsLeft = 2 + (MaxPasses - 1 - pass) * (3 * sc.count + 1) + 3 * (sc.count + 1 - i) + Stage
  BY DEF StepsLeft
<1> QED
  BY <1>1, <1>3, <1>4, <1>5, <1>6

\* Of an attempt a step is made, or the next framework's turn comes.
LEMMA AttemptShortens ==
  ASSUME TypeOK, TypeOK', UNCHANGED <<sc, pass>>,
         pc \notin {"report", "done"}, pc' \notin {"report", "done"},
         \/ i' = i /\ Stage' < Stage
         \/ i' = i + 1 /\ pc' = "scan"
  PROVE  StepsLeft' < StepsLeft
<1>1. PICK w \in Nat : w = (MaxPasses - 1 - pass) * (3 * sc.count + 1)
  BY InTheLoop
<1>2. /\ StepsLeft = 2 + w + 3 * (sc.count + 1 - i) + Stage
      /\ sc.count \in Nat /\ i \in Nat
  BY <1>1, InTheLoop
<1>3. StepsLeft' = 2 + w + 3 * (sc.count + 1 - i') + Stage'
  BY <1>1 DEF StepsLeft
<1>4. Stage \in 0..3 /\ Stage' \in 0..3
  BY DEF Stage
<1>5. CASE i' = i /\ Stage' < Stage
  BY <1>2, <1>3, <1>4, <1>5
<1>6. CASE i' = i + 1 /\ pc' = "scan"
  <2>1. Stage' = 2
    BY <1>6 DEF Stage
  <2> QED
    BY <1>2, <1>3, <1>4, <1>6, <2>1
<1> QED
  BY <1>5, <1>6

\* The next pass has one pass less before it, however far its own index has to go.
LEMMA PassShortens ==
  ASSUME TypeOK, TypeOK', NextPass
  PROVE  StepsLeft' < StepsLeft
<1>1. /\ pc = "scan" /\ pc' = "scan" /\ i \notin Frameworks /\ i' = 1 /\ pass' = pass + 1
      /\ pass + 1 < MaxPasses /\ sc' = sc
  BY DEF NextPass, PassEnded
<1>2. sc.count \in Nat /\ MaxPasses \in Nat /\ pass \in Nat /\ i = sc.count + 1
  BY <1>1, ScenarioParts, BoundsAssumption DEF TypeOK, Frameworks
<1>3. PICK m \in Nat : m = MaxPasses - 1 - (pass + 1)
  BY <1>1, <1>2
<1>4. PICK w \in Nat : w = 3 * sc.count + 1
  BY <1>2
<1>5. MaxPasses - 1 - pass = m + 1 /\ MaxPasses - 1 - pass' = m
  BY <1>1, <1>2, <1>3
<1>6. StepsLeft = 2 + (m + 1) * w + 3 * (sc.count + 1 - i) + Stage
  BY <1>1, <1>4, <1>5 DEF StepsLeft
<1>7. StepsLeft' = 2 + m * w + 3 * (sc.count + 1 - i') + Stage'
  BY <1>1, <1>4, <1>5 DEF StepsLeft
<1>8. Stage = 2 /\ Stage' = 2
  BY <1>1 DEF Stage
<1>9. StepsLeft = 4 + (m + 1) * w
  BY <1>2, <1>6, <1>8
<1>10. StepsLeft' = 4 + m * w + 3 * sc.count
  <2>1. sc.count + 1 - i' = sc.count
    BY <1>1, <1>2
  <2> QED
    BY <1>2, <1>7, <1>8, <2>1
<1>11. (m + 1) * w = m * w + w /\ m * w \in Nat
  OBVIOUS
<1> QED
  BY <1>2, <1>4, <1>9, <1>10, <1>11

\* Every step of the helper shortens what is left.
LEMMA HelperShortens ==
  ASSUME TypeOK, TypeOK', [Next]_vars, Helper
  PROVE  StepsLeft' < StepsLeft
<1>1. sc' = sc
  BY StepGrows DEF Grows
<1>2. CASE Skipped
  <2>1. pc = "start" /\ pc' = "done"
    BY <1>2 DEF Skipped
  <2>2. StepsLeft >= 2 /\ StepsLeft' = 0
    BY <2>1, InTheLoop DEF StepsLeft
  <2> QED
    BY <2>2, StepsLeftNat
<1>3. CASE Exhaust \/ LastPass
  <2>1. pc = "scan" /\ pc' = "report"
    BY <1>3 DEF Exhaust, Ready, Scanning, LastPass, PassEnded
  <2>2. StepsLeft >= 2 /\ StepsLeft' = 1
    BY <2>1, InTheLoop DEF StepsLeft
  <2> QED
    BY <2>2, StepsLeftNat
<1>4. CASE Report
  <2>1. StepsLeft = 1 /\ StepsLeft' = 0
    BY <1>4 DEF Report, StepsLeft
  <2> QED
    BY <2>1
<1>5. CASE SpawnPool \/ Dlopen \/ Loads
  <2>1. /\ i' = i /\ pass' = pass
        /\ \/ pc = "start" /\ pc' = "scan"
           \/ pc = "scan" /\ pc' = "call"
           \/ pc = "call" /\ pc' = "locate"
    BY <1>5 DEF SpawnPool, Dlopen, TakeThread, Ready, Scanning, Loads
  <2>2. Stage' < Stage
    BY <2>1 DEF Stage
  <2> QED
    BY <1>1, <2>1, <2>2, AttemptShortens
<1>6. CASE PassOver \/ SkipDecrypted \/ StageFails \/ Fails \/ GiveUp \/ NoBase \/ Dump
  <2>1. /\ i' = i + 1 /\ pass' = pass /\ pc' = "scan"
        /\ pc \in {"scan", "call", "locate"}
    BY <1>6 DEF PassOver, SkipDecrypted, StageFails, TakeThread, Ready, Scanning, Fails,
         GiveUp, NoBase, Dump, Advance
  <2> QED
    BY <1>1, <2>1, AttemptShortens
<1>7. CASE StaleAnswer
  <2>1. /\ pass' = pass /\ pc = "call"
        /\ \/ i' = i + 1 /\ pc' = "scan"
           \/ i' = i /\ pc' = "locate"
    BY <1>7 DEF StaleAnswer, Advance
  <2>2. pc' = "locate" => Stage' < Stage
    BY <2>1 DEF Stage
  <2> QED
    BY <1>1, <2>1, <2>2, AttemptShortens
<1>8. CASE NextPass
  BY <1>8, PassShortens
<1> QED
  BY <1>2, <1>3, <1>4, <1>5, <1>6, <1>7, <1>8 DEF Helper

\* WindsDown: after at most as many steps as StepsLeft counts at the start the helper is done,
\* whatever hangs in the target (the safety core of Terminates).
THEOREM HelperWindsDown == Spec => WindsDown
<1>1. TypeOK => StepsLeft \in Nat
  BY StepsLeftNat
<1>2. TypeOK /\ TypeOK' /\ [Next]_vars =>
        /\ Helper => StepsLeft' < StepsLeft
        /\ Target => StepsLeft' = StepsLeft
  <2> SUFFICES ASSUME TypeOK, TypeOK', [Next]_vars
               PROVE  /\ Helper => StepsLeft' < StepsLeft
                      /\ Target => StepsLeft' = StepsLeft
    OBVIOUS
  <2>1. Helper => StepsLeft' < StepsLeft
    BY HelperShortens
  <2>2. Target => StepsLeft' = StepsLeft
    BY DEF Target, AbandonedMaps, AbandonedReturns, loop, StepsLeft, Stage
  <2> QED
    BY <2>1, <2>2
<1>3. Spec => []TypeOK
  BY TypeCorrect
<1> QED
  BY <1>1, <1>2, <1>3, PTL DEF Spec, WindsDown
=============================================================================
