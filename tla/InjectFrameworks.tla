--------------------------- MODULE InjectFrameworks ---------------------------
(***************************************************************************)
(* inject_missing_frameworks (helper/inject.c): make the suspended target   *)
(* dlopen every encrypted bundle framework dyld did not map by itself, in   *)
(* dependency order over several passes, one never-reused pool thread per   *)
(* attempt, and dump each image that then appears in dyld's list.           *)
(*                                                                          *)
(* A dlopen that misses its 3 s budget is abandoned, not cancelled: its     *)
(* thread runs on, may map the image later, and its sentinel exception then *)
(* lies in the one exception port every call shares.  The next target_call  *)
(* takes it for its own answer (inject.c does not compare threads).         *)
(***************************************************************************)
EXTENDS Naturals, FiniteSets

CONSTANTS
  Key,         \* path keys: the last two components of a path or dependency
  Scenarios,   \* the bundles and targets the helper may meet
  MaxPasses,   \* 16 in the code
  PoolSlack,   \* 32 in the code
  PoolCap      \* 800 in the code

\* What may come of handing framework f to a pool thread.
Answer == {"loads", "undumpable", "fails", "hangs", "unstaged"}

\* count frameworks in directory order; deps: keys of LC_LOAD_DYLIB entries; ready:
\* already plaintext at the destination; preloaded: keys of images dyld had mapped.
IsScenario(s) ==
  /\ DOMAIN s = {"count", "key", "deps", "ready", "preloaded", "answers"}
  /\ s.count \in Nat
  /\ s.key \in [1..s.count -> Key]
  /\ s.deps \in [1..s.count -> SUBSET Key]
  /\ s.ready \subseteq 1..s.count
  /\ s.preloaded \subseteq Key
  /\ s.answers \in [1..s.count -> SUBSET Answer]

ASSUME ScenarioAssumption == \A s \in Scenarios : IsScenario(s)
ASSUME BoundsAssumption ==
  /\ MaxPasses \in Nat \ {0}
  /\ PoolSlack \in Nat \ {0}
  /\ PoolCap \in Nat \ {0}

VARIABLES
  sc,        \* the scenario; never changes
  pc,        \* start, scan, call, locate, report, done
  stop,      \* why the pass loop ended: no, dry, exhausted, cap
  pass, i,   \* loop counters: pass number and framework index
  flagged,   \* frameworks with fw->loaded = 1
  keys,      \* the keyset `loaded`
  fresh,     \* loaded_this_pass
  created,   \* threads tp_init made
  pool,      \* threads not yet handed out
  images,    \* bundle frameworks in the target's image list
  dst,       \* frameworks whose destination file is plaintext
  inflight,  \* abandoned calls under way, by framework; 0 is pthread_create
  port,      \* unread sentinel exceptions of abandoned threads
  report,    \* the straggler warning emitted for each framework
  visited,   \* history: frameworks a thread was taken for in this pass
  uncounted, \* history: frameworks flagged in this pass without counting in fresh
  tried      \* history: frameworks dlopen was ever called for

loop    == <<pc, stop, pass, i>>
target  == <<images, inflight, port>>
book    == <<flagged, keys, fresh, dst>>
history == <<visited, uncounted, tried>>
vars == <<sc, loop, book, created, pool, target, report, history>>

Frameworks == 1..sc.count
Calls      == {0} \cup Frameworks
BundleKeys == {sc.key[f] : f \in Frameworks}
Candidates == Frameworks \ sc.ready

PoolTarget ==
  LET wanted == 2 * Cardinality(Candidates) + PoolSlack
  IN IF wanted > PoolCap THEN PoolCap ELSE wanted

\* Only an unloaded bundle framework other than f itself blocks f.
Blocking(f) == {k \in sc.deps[f] : k # sc.key[f] /\ k \in BundleKeys /\ k \notin keys}

\* The bundle images dyld maps when it loads f.
MappedWith(f) == {f} \cup {g \in Frameworks : sc.key[g] \in sc.deps[f]}

CanLoad(f) == {"loads", "undumpable"} \cap sc.answers[f] # {}

Init ==
  /\ sc \in Scenarios
  /\ pc = "start" /\ stop = "no" /\ pass = 0 /\ i = 1
  /\ flagged = {} /\ keys = sc.preloaded /\ fresh = 0 /\ dst = sc.ready
  /\ created = 0 /\ pool = 0
  /\ images = {} /\ inflight = [c \in Calls |-> 0] /\ port = 0
  /\ report = [f \in Frameworks |-> "none"]
  /\ visited = {} /\ uncounted = {} /\ tried = {}

-----------------------------------------------------------------------------
(* Before the passes.                                                       *)

\* Not plain arm64, no dlopen, no bootstrap thread, no pool, or nothing to do.
Skipped ==
  /\ pc = "start"
  /\ pc' = "done"
  /\ UNCHANGED <<sc, stop, pass, i, book, created, pool, target, report, history>>

\* A call that is not waited for any longer goes on.
Abandon(c) == [inflight EXCEPT ![c] = inflight[c] + 1]

\* tp_init: pthread_create until the target size or the first failure, which may be a call
\* that did not answer in time.  (The pool is read off as the difference of two thread
\* lists: a thread the target happens to start meanwhile would count too and is left out.)
SpawnPool ==
  /\ pc = "start"
  /\ Candidates # {}
  /\ created' \in 1..PoolTarget
  /\ pool' = created'
  /\ inflight' \in IF created' < PoolTarget THEN {inflight, Abandon(0)} ELSE {inflight}
  /\ pc' = "scan"
  /\ UNCHANGED <<sc, stop, pass, i, book, images, port, report, history>>

-----------------------------------------------------------------------------
(* One pass over the frameworks.                                            *)

\* Go on with the next framework; what the step says of pool, history and target
\* comes from the action.
Advance == pc' = "scan" /\ i' = i + 1 /\ UNCHANGED <<sc, stop, pass, created, report>>

Scanning == pc = "scan" /\ i \in Frameworks

\* Mutant: lets a framework go ahead of the bundle frameworks it needs.
MutReady == Scanning /\ i \notin flagged

Ready    == Scanning /\ i \notin flagged /\ Blocking(i) = {}

PassOver ==
  /\ Scanning
  /\ i \in flagged \/ Blocking(i) # {}
  /\ Advance
  /\ UNCHANGED <<book, pool, target, history>>

Flag == flagged' = flagged \cup {i} /\ keys' = keys \cup {sc.key[i]}

SkipDecrypted ==
  /\ Ready
  /\ i \in dst
  /\ Flag
  /\ Advance
  /\ uncounted' = uncounted \cup {i}
  /\ UNCHANGED <<fresh, dst, pool, target, visited, tried>>

Exhaust ==
  /\ Ready
  /\ i \notin dst
  /\ pool = 0
  /\ pc' = "report"
  /\ stop' = "exhausted"
  /\ UNCHANGED <<sc, pass, i, book, created, pool, target, report, history>>

TakeThread ==
  /\ Ready
  /\ i \notin dst
  /\ pool > 0
  /\ pool' = pool - 1
  /\ visited' = visited \cup {i}

\* mach_vm_allocate or mach_vm_write of the path failed; the thread is spent.
StageFails ==
  /\ TakeThread
  /\ "unstaged" \in sc.answers[i]
  /\ Advance
  /\ UNCHANGED <<book, target, uncounted, tried>>

Dlopen ==
  /\ TakeThread
  /\ pc' = "call"
  /\ tried' = tried \cup {i}
  /\ UNCHANGED <<sc, stop, pass, i, book, created, target, report, uncounted>>

-----------------------------------------------------------------------------
(* target_call: what mach_msg on the shared exception port brings.          *)

\* dlopen returned NULL, or the thread could not be hijacked in the first place (then
\* nothing is read from the port, whatever lies there).
Fails ==
  /\ pc = "call"
  /\ "fails" \in sc.answers[i]
  /\ Advance
  /\ UNCHANGED <<book, pool, target, history>>

Loads ==
  /\ pc = "call"
  /\ port = 0
  /\ CanLoad(i)
  /\ pc' = "locate"
  /\ images' = images \cup MappedWith(i)
  /\ UNCHANGED <<sc, stop, pass, i, book, created, pool, inflight, port, report, history>>

\* Mutant: waits for the answer without a timeout.
MutGiveUp == FALSE /\ UNCHANGED vars

\* The timeout, or an exception of another thread of the target: rc = -1, while
\* the dlopen goes on.
GiveUp ==
  /\ pc = "call"
  /\ "hangs" \in sc.answers[i]
  /\ inflight' = Abandon(i)
  /\ Advance
  /\ UNCHANGED <<book, pool, images, port, history>>

\* A sentinel some abandoned thread left: rc = 0, and x0 of this call's thread, in
\* the middle of its own dlopen, is read as the handle: any value.
StaleAnswer ==
  /\ pc = "call"
  /\ port > 0
  /\ port' = port - 1
  /\ inflight' = Abandon(i)
  /\ \/ Advance
     \/ pc' = "locate" /\ UNCHANGED <<sc, stop, pass, i, created, report>>
  /\ UNCHANGED <<book, pool, images, history>>

\* No base for the path in dyld's list: not loaded after all.
NoBase ==
  /\ pc = "locate"
  /\ i \notin images
  /\ Advance
  /\ UNCHANGED <<book, pool, target, history>>

\* Mutant: trusts a non-zero handle instead of looking for the image.
MutDump ==
  /\ pc = "locate"
  /\ Flag
  /\ dst' = dst \cup {i} /\ fresh' = fresh + 1 /\ UNCHANGED uncounted
  /\ Advance
  /\ UNCHANGED <<pool, target, visited, tried>>

Dump ==
  /\ pc = "locate"
  /\ i \in images
  /\ Flag
  /\ \/ /\ "loads" \in sc.answers[i] \/ "undumpable" \notin sc.answers[i]
        /\ dst' = dst \cup {i}
        /\ fresh' = fresh + 1
        /\ UNCHANGED uncounted
     \/ /\ "undumpable" \in sc.answers[i]
        /\ uncounted' = uncounted \cup {i}
        /\ UNCHANGED <<dst, fresh>>
  /\ Advance
  /\ UNCHANGED <<pool, target, visited, tried>>

-----------------------------------------------------------------------------
(* Between passes, and the end.                                             *)

PassEnded == pc = "scan" /\ i \notin Frameworks

\* Mutant: the pass cap is off by one.
MutNextPass ==
  /\ PassEnded
  /\ fresh > 0
  /\ pass < MaxPasses
  /\ pass' = pass + 1
  /\ i' = 1
  /\ fresh' = 0
  /\ visited' = {}
  /\ uncounted' = {}
  /\ UNCHANGED <<sc, pc, stop, flagged, keys, dst, created, pool, target, report, tried>>

NextPass ==
  /\ PassEnded
  /\ fresh > 0
  /\ pass + 1 < MaxPasses
  /\ pass' = pass + 1
  /\ i' = 1
  /\ fresh' = 0
  /\ visited' = {}
  /\ uncounted' = {}
  /\ UNCHANGED <<sc, pc, stop, flagged, keys, dst, created, pool, target, report, tried>>

\* Mutant: stops at the first pass that met a framework it could not load.
MutLastPass ==
  /\ PassEnded
  /\ flagged # Frameworks
  /\ pc' = "report"
  /\ stop' = "dry"
  /\ UNCHANGED <<sc, pass, i, book, created, pool, target, report, history>>

LastPass ==
  /\ PassEnded
  /\ fresh = 0 \/ pass + 1 = MaxPasses
  /\ pc' = "report"
  /\ stop' = IF fresh = 0 THEN "dry" ELSE "cap"
  /\ UNCHANGED <<sc, pass, i, book, created, pool, target, report, history>>

Report ==
  /\ pc = "report"
  /\ report' = [f \in Frameworks |-> IF f \in flagged THEN "none"
                                     ELSE IF Blocking(f) # {} THEN "unsatisfied"
                                     ELSE "failed"]
  /\ pc' = "done"
  /\ UNCHANGED <<sc, stop, pass, i, book, created, pool, target, history>>

-----------------------------------------------------------------------------
(* The target, until decrypt_bundle terminates it.                          *)

AbandonedMaps(f) ==
  /\ pc # "done"
  /\ inflight[f] > 0
  /\ CanLoad(f)
  /\ images' = images \cup MappedWith(f)
  /\ UNCHANGED <<sc, loop, book, created, pool, inflight, port, report, history>>

AbandonedReturns(c) ==
  /\ pc # "done"
  /\ inflight[c] > 0
  /\ inflight' = [inflight EXCEPT ![c] = inflight[c] - 1]
  /\ port' = port + 1
  /\ UNCHANGED <<sc, loop, book, created, pool, images, report, history>>

Target ==
  \/ \E f \in Frameworks : AbandonedMaps(f)
  \/ \E c \in Calls : AbandonedReturns(c)

Helper ==
  \/ Skipped \/ SpawnPool \/ PassOver \/ SkipDecrypted \/ Exhaust \/ StageFails
  \/ Dlopen \/ Fails \/ Loads \/ GiveUp \/ StaleAnswer \/ NoBase \/ Dump
  \/ NextPass \/ LastPass \/ Report

Ended == pc = "done"
Next == Helper \/ Target \/ (Ended /\ UNCHANGED vars)

Spec == Init /\ [][Next]_vars

\* The helper is one thread and every wait in it has a timeout.
FairSpec == Spec /\ WF_vars(Helper)

-----------------------------------------------------------------------------
TypeOK ==
  /\ sc \in Scenarios
  /\ pc \in {"start", "scan", "call", "locate", "report", "done"}
  /\ stop \in {"no", "dry", "exhausted", "cap"}
  /\ pass \in 0..(MaxPasses - 1)
  /\ i \in 1..(sc.count + 1)
  /\ pc \in {"call", "locate"} => i \in Frameworks
  /\ flagged \subseteq Frameworks
  /\ keys \subseteq Key
  /\ fresh \in Nat
  /\ created \in 0..PoolTarget /\ pool \in 0..created
  /\ images \subseteq Frameworks
  /\ dst \subseteq Frameworks
  /\ inflight \in [Calls -> Nat]
  /\ port \in Nat
  /\ report \in [Frameworks -> {"none", "unsatisfied", "failed"}]
  /\ visited \subseteq Frameworks /\ uncounted \subseteq Frameworks /\ tried \subseteq Frameworks

\* A framework counts as loaded, and its destination as decrypted, only if dyld
\* really mapped it (or it was plaintext before): an abandoned call's late answer,
\* read as success by a later call, can never stand for an image that is not there.
LoadedIsMapped == flagged \cup dst \subseteq images \cup sc.ready

\* No thread is spent on a framework while a bundle framework it needs is missing.
AttemptsRespectDeps == \A f \in visited \cup tried : Blocking(f) = {}

\* A pass that flags nothing left no unblocked framework untouched: when the loop
\* ends on it, whatever is missing was handed a thread in that very pass or waits
\* for a bundle framework that is missing too.
DryPassIsFixpoint ==
  stop = "dry" /\ uncounted = {} =>
    \A f \in Frameworks : f \in flagged \/ f \in visited \/ Blocking(f) # {}

\* inject.c: "pass N picks up frameworks whose deps were loaded in pass N-1. Loop
\* exits early when a pass loads nothing new".  So an unblocked framework left over
\* by that exit has been handed to dlopen, as its "dlopen returned NULL or hung" says.
LeftoversWereTried ==
  stop = "dry" => \A f \in Frameworks : report[f] = "failed" => f \in tried

\* inject.c: "the pool has to cover the worst-case sum of attempts across topo
\* passes": a pool that could be built in full is never exhausted.
FullPoolSuffices == stop = "exhausted" => created < PoolTarget

\* Whatever hangs in the target, the helper comes to an end.
Terminates == <>Ended
=============================================================================
