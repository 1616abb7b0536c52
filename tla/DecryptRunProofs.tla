-------------------------- MODULE DecryptRunProofs --------------------------
(***************************************************************************)
(* The invariants of DecryptRun proved for every set of flag combinations.  *)
(***************************************************************************)
EXTENDS DecryptRun, TLAPS

FinishKeeps ==
  /\ UNCHANGED <<opt, pc, sg, proc, sigints, known, stack, fns>>
  /\ at' \in [Runner -> Nat] /\ \A q \in Runner : at'[q] <= Len(fns'[q])
  /\ outcome' \in [Cleanup -> {"pending", "done", "failed"}]

(* Type correctness: every step of the handler, of a drain and of the       *)
(* environment stays within the declared values.  HandlerMoves is what a    *)
(* step of the handler keeps: it writes only its own variables.             *)
HandlerMoves ==
  /\ pc' \in Label /\ UNCHANGED sys
  /\ host' \in HostType
  /\ device' \in DeviceType
  /\ known' \subseteq Fact
  /\ stack' \in Seq(Cleanup)

Quiet == UNCHANGED <<host, device, known, stack>>

\* What the handler may do to the state keeps every type.
LEMMA MovesType == TypeOK /\ HandlerMoves => TypeOK'
  BY DEF TypeOK, HandlerMoves, sys

\* A step that only moves the handler on is one of its moves.
LEMMA QuietMoves ==
  ASSUME TypeOK, pc' \in Label, UNCHANGED sys, Quiet
  PROVE  HandlerMoves
  BY DEF TypeOK, HandlerMoves, Quiet

\* A step between two labels touches nothing of the operating system.
LEMMA MainMoves ==
  ASSUME NEW from, NEW to \in Label, Main(from, to)
  PROVE  pc' \in Label /\ UNCHANGED sys
  BY DEF Main

\* So is returning with an error, which begins the drain.
LEMMA GiveUpMoves ==
  ASSUME TypeOK, NEW from, GiveUp(from) \/ RemoteGiveUp(from)
  PROVE  HandlerMoves
<1>1. GiveUp(from)
  BY DEF RemoteGiveUp
<1>2. Quiet /\ Main(from, "stop")
  BY <1>1 DEF GiveUp, Quiet
<1> QED
  BY <1>2, QuietMoves, MainMoves DEF Label

\* So is a remote call, whether it succeeds, fails or stalls.
LEMMA RemoteMoves ==
  ASSUME TypeOK, NEW from, NEW to \in Label, RemoteStep(from, to)
  PROVE  HandlerMoves
<1>1. CASE RemoteGiveUp(from)
  BY <1>1, GiveUpMoves
<1>2. CASE Main(from, to) /\ Quiet
  BY <1>2, QuietMoves, MainMoves
<1> QED
  BY <1>1, <1>2 DEF RemoteStep, Quiet

\* Every statement of the handler is such a move.
LEMMA HandlerType == TypeOK /\ Handler => TypeOK'
<1> SUFFICES ASSUME TypeOK, Handler PROVE HandlerMoves
  BY MovesType
<1>1. CASE RegisterUninstall
  <2>1. PICK to \in Label : Main("connected", to)
    BY <1>1 DEF RegisterUninstall, Label
  <2>2. host' \in HostType /\ device' \in DeviceType
    BY <1>1 DEF RegisterUninstall, TypeOK
  <2>3. known' \subseteq Fact /\ stack' \in Seq(Cleanup)
    BY <1>1 DEF RegisterUninstall, TypeOK, Push, Cleanup
  <2> QED
    BY <2>1, <2>2, <2>3, MainMoves DEF HandlerMoves
<1>2. CASE Probe
  BY <1>2, RemoteMoves DEF Probe, Label
<1>3. CASE ChooseInstalled
  BY <1>3, RemoteMoves DEF ChooseInstalled, Label
<1>4. CASE ChooseStoreKit
  BY <1>4, RemoteMoves DEF ChooseStoreKit, Label
<1>5. CASE ChooseSource
  <2>1. CASE GiveUp("choose") \/ RemoteGiveUp("choose")
    BY <2>1, GiveUpMoves
  <2>2. ASSUME ~GiveUp("choose"), ~RemoteGiveUp("choose") PROVE HandlerMoves
    <3>1. Main("choose", "patch") /\ known' = known \cup {"source"}
          /\ UNCHANGED <<host, device, stack>>
      BY <1>5, <2>2 DEF ChooseSource
    <3>2. "patch" \in Label /\ known' \subseteq Fact
      BY <3>1 DEF Label, TypeOK, Fact
    <3> QED
      BY <3>1, <3>2, MainMoves DEF HandlerMoves, TypeOK
  <2> QED
    BY <2>1, <2>2
<1>6. CASE StoreKitInstall
  <2>1. PICK to \in Label : Main("storekit", to)
    BY <1>6 DEF StoreKitInstall, Label
  <2>2. host' \in HostType /\ device' \in DeviceType
    BY <1>6 DEF StoreKitInstall, TypeOK, DeviceType, File
  <2>3. known' \subseteq Fact /\ stack' \in Seq(Cleanup)
    BY <1>6 DEF StoreKitInstall, TypeOK
  <2> QED
    BY <2>1, <2>2, <2>3, MainMoves DEF HandlerMoves
<1>7. CASE PatchBegin
  <2>1. CASE GiveUp("patch") \/ RemoteGiveUp("patch")
    BY <2>1, GiveUpMoves
  <2>2. ASSUME ~GiveUp("patch"), ~RemoteGiveUp("patch") PROVE HandlerMoves
    <3>1. PICK to \in Label : Main("patch", to)
      BY <1>7, <2>2 DEF PatchBegin, Label
    <3>2. host' \in HostType /\ device' \in DeviceType
      BY <1>7, <2>2 DEF PatchBegin, TypeOK, HostType, File
    <3>3. known' \subseteq Fact /\ stack' \in Seq(Cleanup)
      BY <1>7, <2>2 DEF PatchBegin, TypeOK
    <3> QED
      BY <3>1, <3>2, <3>3, MainMoves DEF HandlerMoves
  <2> QED
    BY <2>1, <2>2
<1>8. CASE PatchEnd
  <2>1. PICK to \in Label : Main("patching", to)
    BY <1>8 DEF PatchEnd, Label
  <2>2. host' \in HostType /\ device' \in DeviceType
    BY <1>8 DEF PatchEnd, TypeOK, HostType, File
  <2>3. known' \subseteq Fact /\ stack' \in Seq(Cleanup)
    BY <1>8 DEF PatchEnd, TypeOK, Fact
  <2> QED
    BY <2>1, <2>2, <2>3, MainMoves DEF HandlerMoves
<1>9. CASE RegisterPatched
  <2>1. PICK to \in Label : Main("pushPatched", to)
    BY <1>9 DEF RegisterPatched, Label
  <2>2. host' \in HostType /\ device' \in DeviceType
    BY <1>9 DEF RegisterPatched, TypeOK
  <2>3. known' \subseteq Fact /\ stack' \in Seq(Cleanup)
    BY <1>9 DEF RegisterPatched, TypeOK, Push, Cleanup
  <2> QED
    BY <2>1, <2>2, <2>3, MainMoves DEF HandlerMoves
<1>10. CASE Plan
  BY <1>10, RemoteMoves DEF Plan, Label
<1>11. CASE RegisterStaging
  <2>1. PICK to \in Label : Main("pushStaging", to)
    BY <1>11 DEF RegisterStaging, Label
  <2>2. host' \in HostType /\ device' \in DeviceType
    BY <1>11 DEF RegisterStaging, TypeOK
  <2>3. known' \subseteq Fact /\ stack' \in Seq(Cleanup)
    BY <1>11 DEF RegisterStaging, TypeOK, Push, Cleanup
  <2> QED
    BY <2>1, <2>2, <2>3, MainMoves DEF HandlerMoves
<1>12. CASE EnsureInstalled
  <2>1. CASE GiveUp("ensure") \/ RemoteGiveUp("ensure")
    BY <2>1, GiveUpMoves
  <2>2. ASSUME ~GiveUp("ensure"), ~RemoteGiveUp("ensure") PROVE HandlerMoves
    <3>1. PICK to \in Label : Main("ensure", to) /\ Quiet
      BY <1>12, <2>2 DEF EnsureInstalled, Label, Quiet
    <3> QED
      BY <3>1, QuietMoves, MainMoves
  <2> QED
    BY <2>1, <2>2
<1>13. CASE UploadBegin
  <2>1. CASE GiveUp("upload") \/ RemoteGiveUp("upload")
    BY <2>1, GiveUpMoves
  <2>2. ASSUME ~GiveUp("upload"), ~RemoteGiveUp("upload") PROVE HandlerMoves
    <3>1. PICK to \in Label : Main("upload", to)
      BY <1>13, <2>2 DEF UploadBegin, Label
    <3>2. host' \in HostType /\ device' \in DeviceType
      BY <1>13, <2>2 DEF UploadBegin, TypeOK, DeviceType, File
    <3>3. known' \subseteq Fact /\ stack' \in Seq(Cleanup)
      BY <1>13, <2>2 DEF UploadBegin, TypeOK
    <3> QED
      BY <3>1, <3>2, <3>3, MainMoves DEF HandlerMoves
  <2> QED
    BY <2>1, <2>2
<1>14. CASE UploadEnd
  <2>1. PICK to \in Label : Main("uploading", to)
    BY <1>14 DEF UploadEnd, Label
  <2>2. host' \in HostType /\ device' \in DeviceType
    BY <1>14 DEF UploadEnd, TypeOK, DeviceType, File
  <2>3. known' \subseteq Fact /\ stack' \in Seq(Cleanup)
    BY <1>14 DEF UploadEnd, TypeOK
  <2> QED
    BY <2>1, <2>2, <2>3, MainMoves DEF HandlerMoves
<1>15. CASE Install
  <2>1. PICK to \in Label : Main("install", to)
    BY <1>15 DEF Install, Label
  <2>2. host' \in HostType /\ device' \in DeviceType
    BY <1>15 DEF Install, TypeOK, DeviceType, File
  <2>3. known' \subseteq Fact /\ stack' \in Seq(Cleanup)
    BY <1>15 DEF Install, TypeOK
  <2> QED
    BY <2>1, <2>2, <2>3, MainMoves DEF HandlerMoves
<1>16. CASE Rescan
  <2>1. CASE GiveUp("rescan") \/ RemoteGiveUp("rescan")
    BY <2>1, GiveUpMoves
  <2>2. ASSUME ~GiveUp("rescan"), ~RemoteGiveUp("rescan") PROVE HandlerMoves
    <3>1. PICK to \in Label : Main("rescan", to)
      BY <1>16, <2>2 DEF Rescan, Label
    <3>2. host' \in HostType /\ device' \in DeviceType
      BY <1>16, <2>2 DEF Rescan, TypeOK
    <3>3. known' \subseteq Fact /\ stack' \in Seq(Cleanup)
      BY <1>16, <2>2 DEF Rescan, TypeOK, Fact
    <3> QED
      BY <3>1, <3>2, <3>3, MainMoves DEF HandlerMoves
  <2> QED
    BY <2>1, <2>2
<1>17. CASE DecideUninstall
  <2>1. PICK to \in Label : Main("wantUninstall", to)
    BY <1>17 DEF DecideUninstall, Label
  <2>2. host' \in HostType /\ device' \in DeviceType
    BY <1>17 DEF DecideUninstall, TypeOK
  <2>3. known' \subseteq Fact /\ stack' \in Seq(Cleanup)
    BY <1>17 DEF DecideUninstall, TypeOK, Fact
  <2> QED
    BY <2>1, <2>2, <2>3, MainMoves DEF HandlerMoves
<1>18. CASE NameUninstallPath
  <2>1. PICK to \in Label : Main("pathUninstall", to)
    BY <1>18 DEF NameUninstallPath, Label
  <2>2. host' \in HostType /\ device' \in DeviceType
    BY <1>18 DEF NameUninstallPath, TypeOK
  <2>3. known' \subseteq Fact /\ stack' \in Seq(Cleanup)
    BY <1>18 DEF NameUninstallPath, TypeOK, Fact
  <2> QED
    BY <2>1, <2>2, <2>3, MainMoves DEF HandlerMoves
<1>19. CASE WorkingPath
  <2>1. CASE GiveUp("workpath") \/ RemoteGiveUp("workpath")
    BY <2>1, GiveUpMoves
  <2>2. ASSUME ~GiveUp("workpath"), ~RemoteGiveUp("workpath") PROVE HandlerMoves
    <3>1. PICK to \in Label : Main("workpath", to)
      BY <1>19, <2>2 DEF WorkingPath, Label
    <3>2. host' \in HostType /\ device' \in DeviceType
      BY <1>19, <2>2 DEF WorkingPath, TypeOK, HostType, File
    <3>3. known' \subseteq Fact /\ stack' \in Seq(Cleanup)
      BY <1>19, <2>2 DEF WorkingPath, TypeOK
    <3> QED
      BY <3>1, <3>2, <3>3, MainMoves DEF HandlerMoves
  <2> QED
    BY <2>1, <2>2
<1>20. CASE RegisterProvisional
  <2>1. PICK to \in Label : Main("pushProvisional", to)
    BY <1>20 DEF RegisterProvisional, Label
  <2>2. host' \in HostType /\ device' \in DeviceType
    BY <1>20 DEF RegisterProvisional, TypeOK
  <2>3. known' \subseteq Fact /\ stack' \in Seq(Cleanup)
    <3>1. UNCHANGED <<known, stack>> \/ (stack' = Append(stack, "provisional") /\ known' = known \cup {"armed"})
      BY <1>20, Zenon DEF RegisterProvisional, Push
    <3>2. Append(stack, "provisional") \in Seq(Cleanup)
      BY DEF TypeOK, Cleanup
    <3> QED
      BY <3>1, <3>2 DEF TypeOK, Fact
  <2> QED
    BY <2>1, <2>2, <2>3, MainMoves DEF HandlerMoves
<1>21. CASE MakeDirs
  <2>3. CASE RemoteStep("mkdir", "open")
    BY <2>3, RemoteMoves DEF Label
  <2>1. CASE GiveUp("mkdir") \/ RemoteGiveUp("mkdir")
    BY <2>1, GiveUpMoves
  <2>2. ASSUME ~GiveUp("mkdir"), ~RemoteGiveUp("mkdir"), ~RemoteStep("mkdir", "open") PROVE HandlerMoves
    <3>1. PICK to \in Label : Main("mkdir", to) /\ Quiet
      BY <1>21, <2>2 DEF MakeDirs, Label, Quiet
    <3> QED
      BY <3>1, QuietMoves, MainMoves
  <2> QED
    BY <2>1, <2>2, <2>3
<1>22. CASE OpenOutput
  <2>1. CASE GiveUp("open") \/ RemoteGiveUp("open")
    BY <2>1, GiveUpMoves
  <2>2. ASSUME ~GiveUp("open"), ~RemoteGiveUp("open") PROVE HandlerMoves
    <3>1. PICK to \in Label : Main("open", to)
      BY <1>22, <2>2 DEF OpenOutput, Label
    <3>2. host' \in HostType /\ device' \in DeviceType
      BY <1>22, <2>2 DEF OpenOutput, TypeOK, HostType, File
    <3>3. known' \subseteq Fact /\ stack' \in Seq(Cleanup)
      BY <1>22, <2>2 DEF OpenOutput, TypeOK
    <3> QED
      BY <3>1, <3>2, <3>3, MainMoves DEF HandlerMoves
  <2> QED
    BY <2>1, <2>2
<1>23. CASE RegisterOutput
  <2>1. PICK to \in Label : Main("pushOutput", to)
    BY <1>23 DEF RegisterOutput, Label
  <2>2. host' \in HostType /\ device' \in DeviceType
    BY <1>23 DEF RegisterOutput, TypeOK
  <2>3. known' \subseteq Fact /\ stack' \in Seq(Cleanup)
    BY <1>23 DEF RegisterOutput, TypeOK, Push, Cleanup
  <2> QED
    BY <2>1, <2>2, <2>3, MainMoves DEF HandlerMoves
<1>24. CASE DisarmProvisional
  <2>1. PICK to \in Label : Main("disarm", to)
    BY <1>24 DEF DisarmProvisional, Label
  <2>2. host' \in HostType /\ device' \in DeviceType
    BY <1>24 DEF DisarmProvisional, TypeOK
  <2>3. known' \subseteq Fact /\ stack' \in Seq(Cleanup)
    BY <1>24 DEF DisarmProvisional, TypeOK, Fact
  <2> QED
    BY <2>1, <2>2, <2>3, MainMoves DEF HandlerMoves
<1>25. CASE Stream
  <2>1. CASE GiveUp("stream") \/ RemoteGiveUp("stream")
    BY <2>1, GiveUpMoves
  <2>2. ASSUME ~GiveUp("stream"), ~RemoteGiveUp("stream") PROVE HandlerMoves
    <3>1. PICK to \in Label : Main("stream", to)
      BY <1>25, <2>2 DEF Stream, Label
    <3>2. host' \in HostType /\ device' \in DeviceType
      BY <1>25, <2>2 DEF Stream, TypeOK, HostType, File
    <3>3. known' \subseteq Fact /\ stack' \in Seq(Cleanup)
      BY <1>25, <2>2 DEF Stream, TypeOK
    <3> QED
      BY <3>1, <3>2, <3>3, MainMoves DEF HandlerMoves
  <2> QED
    BY <2>1, <2>2
<1>26. CASE SyncOutput
  <2>1. CASE GiveUp("sync") \/ RemoteGiveUp("sync")
    BY <2>1, GiveUpMoves
  <2>2. ASSUME ~GiveUp("sync"), ~RemoteGiveUp("sync") PROVE HandlerMoves
    <3>1. PICK to \in Label : Main("sync", to) /\ Quiet
      BY <1>26, <2>2 DEF SyncOutput, Label, Quiet
    <3> QED
      BY <3>1, QuietMoves, MainMoves
  <2> QED
    BY <2>1, <2>2
<1>27. CASE MarkComplete
  <2>1. PICK to \in Label : Main("complete", to)
    BY <1>27 DEF MarkComplete, Label
  <2>2. host' \in HostType /\ device' \in DeviceType
    BY <1>27 DEF MarkComplete, TypeOK
  <2>3. known' \subseteq Fact /\ stack' \in Seq(Cleanup)
    BY <1>27 DEF MarkComplete, TypeOK, Fact
  <2> QED
    BY <2>1, <2>2, <2>3, MainMoves DEF HandlerMoves
<1>28. CASE CleanBegin
  <2>1. CASE GiveUp("clean") \/ RemoteGiveUp("clean")
    BY <2>1, GiveUpMoves
  <2>2. ASSUME ~GiveUp("clean"), ~RemoteGiveUp("clean") PROVE HandlerMoves
    <3>1. PICK to \in Label : Main("clean", to)
      BY <1>28, <2>2 DEF CleanBegin, Label
    <3>2. host' \in HostType /\ device' \in DeviceType
      BY <1>28, <2>2 DEF CleanBegin, TypeOK, HostType, File
    <3>3. known' \subseteq Fact /\ stack' \in Seq(Cleanup)
      BY <1>28, <2>2 DEF CleanBegin, TypeOK
    <3> QED
      BY <3>1, <3>2, <3>3, MainMoves DEF HandlerMoves
  <2> QED
    BY <2>1, <2>2
<1>29. CASE CleanEnd
  <2>1. PICK to \in Label : Main("cleaning", to)
    BY <1>29 DEF CleanEnd, Label
  <2>2. host' \in HostType /\ device' \in DeviceType
    BY <1>29 DEF CleanEnd, TypeOK, HostType, File
  <2>3. known' \subseteq Fact /\ stack' \in Seq(Cleanup)
    BY <1>29 DEF CleanEnd, TypeOK, Fact
  <2> QED
    BY <2>1, <2>2, <2>3, MainMoves DEF HandlerMoves
<1>30. CASE Verify
  <2>1. CASE GiveUp("verify") \/ RemoteGiveUp("verify")
    BY <2>1, GiveUpMoves
  <2>2. ASSUME ~GiveUp("verify"), ~RemoteGiveUp("verify") PROVE HandlerMoves
    <3>1. PICK to \in Label : Main("verify", to) /\ Quiet
      BY <1>30, <2>2 DEF Verify, Label, Quiet
    <3> QED
      BY <3>1, QuietMoves, MainMoves
  <2> QED
    BY <2>1, <2>2
<1>31. CASE DeliverBegin
  <2>1. CASE GiveUp("deliver") \/ RemoteGiveUp("deliver")
    BY <2>1, GiveUpMoves
  <2>2. ASSUME ~GiveUp("deliver"), ~RemoteGiveUp("deliver") PROVE HandlerMoves
    <3>1. PICK to \in Label : Main("deliver", to)
      BY <1>31, <2>2 DEF DeliverBegin, Label
    <3>2. host' \in HostType /\ device' \in DeviceType
      BY <1>31, <2>2 DEF DeliverBegin, TypeOK, DeviceType, File
    <3>3. known' \subseteq Fact /\ stack' \in Seq(Cleanup)
      BY <1>31, <2>2 DEF DeliverBegin, TypeOK
    <3> QED
      BY <3>1, <3>2, <3>3, MainMoves DEF HandlerMoves
  <2> QED
    BY <2>1, <2>2
<1>32. CASE DeliverEnd
  <2>1. PICK to \in Label : Main("delivering", to)
    BY <1>32 DEF DeliverEnd, Label
  <2>2. host' \in HostType /\ device' \in DeviceType
    BY <1>32 DEF DeliverEnd, TypeOK, DeviceType, File
  <2>3. known' \subseteq Fact /\ stack' \in Seq(Cleanup)
    BY <1>32 DEF DeliverEnd, TypeOK
  <2> QED
    BY <2>1, <2>2, <2>3, MainMoves DEF HandlerMoves
<1>33. CASE MarkDelivered
  <2>1. PICK to \in Label : Main("delivered", to)
    BY <1>33 DEF MarkDelivered, Label
  <2>2. host' \in HostType /\ device' \in DeviceType
    BY <1>33 DEF MarkDelivered, TypeOK
  <2>3. known' \subseteq Fact /\ stack' \in Seq(Cleanup)
    BY <1>33 DEF MarkDelivered, TypeOK, Fact
  <2> QED
    BY <2>1, <2>2, <2>3, MainMoves DEF HandlerMoves
<1>34. CASE StopNotify
  <2>1. PICK to \in Label : Main("stop", to) /\ Quiet
    BY <1>34 DEF StopNotify, Label, Quiet
  <2> QED
    BY <2>1, QuietMoves, MainMoves
<1>35. CASE CopyStops \/ StoppedCopyEnds
  <2>1. PICK from, to \in Label : Main(from, to) /\ Quiet
    BY <1>35 DEF CopyStops, StoppedCopyEnds, GiveUp, Label, Quiet
  <2> QED
    BY <2>1, QuietMoves, MainMoves
<1> QED
  BY <1>1, <1>2, <1>3, <1>4, <1>5, <1>6, <1>7, <1>8, <1>9, <1>10, <1>11, <1>12, <1>13, <1>14,
     <1>15, <1>16, <1>17, <1>18, <1>19, <1>20, <1>21, <1>22, <1>23, <1>24, <1>25, <1>26, <1>27,
     <1>28, <1>29, <1>30, <1>31, <1>32, <1>33, <1>34, <1>35 DEF Handler

(* A cleanup that returns leaves every other runner's list alone.           *)
LEMMA FinishType ==
  ASSUME TypeOK, NEW r \in Runner, at[r] > 0, NEW x \in {"done", "failed"}, Finish(r, x)
  PROVE  FinishKeeps /\ fns[r][at[r]] \in Cleanup
<1>1. fns[r][at[r]] \in Cleanup
  BY DEF TypeOK
<1>2. at' \in [Runner -> Nat] /\ \A q \in Runner : at'[q] <= Len(fns'[q])
  BY DEF TypeOK, Finish
<1> QED
  BY <1>1, <1>2 DEF Finish, TypeOK, Current, FinishKeeps

(* Every cleanup step stays within the declared values.                     *)
LEMMA CleanupType == ASSUME TypeOK, NEW r \in Runner, CleanupStep(r) PROVE TypeOK'
<1> USE DEF HostType, DeviceType, Fact, File, Reachable, CallFails
<1>1. CASE CloseSession(r)
  <2>1. device' \in DeviceType /\ UNCHANGED <<host, peek>> /\ at[r] > 0 /\ Finish(r, "done")
    BY <1>1 DEF CloseSession, Running, TypeOK
  <2>9. FinishKeeps BY <2>1, FinishType
  <2> QED BY <2>9, <2>1 DEF TypeOK, FinishKeeps
<1>2. CASE RunUninstall(r)
  <2>1. device' \in DeviceType /\ UNCHANGED <<host, peek>> /\ at[r] > 0
    BY <1>2 DEF RunUninstall, Running, TypeOK
  <2>2. PICK x \in {"done", "failed"} : Finish(r, x)
    BY <1>2 DEF RunUninstall
  <2>9. FinishKeeps BY <2>1, <2>2, FinishType
  <2> QED BY <2>9, <2>1, <2>2 DEF TypeOK, FinishKeeps
<1>3. CASE RemovePatched(r)
  <2>1. host' \in HostType /\ UNCHANGED <<device, peek>> /\ at[r] > 0 /\ Finish(r, "done")
    BY <1>3 DEF RemovePatched, Running, TypeOK
  <2>9. FinishKeeps BY <2>1, FinishType
  <2> QED BY <2>9, <2>1 DEF TypeOK, FinishKeeps
<1>4. CASE RemoveStaging(r)
  <2>1. device' \in DeviceType /\ UNCHANGED <<host, peek>> /\ at[r] > 0
    BY <1>4 DEF RemoveStaging, Running, TypeOK
  <2>2. PICK x \in {"done", "failed"} : Finish(r, x)
    BY <1>4 DEF RemoveStaging
  <2>9. FinishKeeps BY <2>1, <2>2, FinishType
  <2> QED BY <2>9, <2>1, <2>2 DEF TypeOK, FinishKeeps
<1>5. CASE RemoveProvisional(r)
  <2>1. host' \in HostType /\ known' \subseteq Fact
    BY <1>5 DEF RemoveProvisional, TypeOK
  <2>2. at' \in [Runner -> Nat] /\ \A q \in Runner : at'[q] <= Len(fns'[q])
    BY <1>5 DEF RemoveProvisional, Running, TypeOK
  <2>3. outcome' \in [Cleanup -> {"pending", "done", "failed"}]
    BY <1>5 DEF RemoveProvisional, TypeOK
  <2> QED BY <1>5, <2>1, <2>2, <2>3 DEF RemoveProvisional, TypeOK
<1>6. CASE CloseOutput(r)
  <2>1. host' \in HostType
    BY <1>6 DEF CloseOutput, TypeOK
  <2>2. peek' \in [Runner -> {"none", "abandon", "keep", "dispose"}]
    BY <1>6 DEF CloseOutput, TypeOK
  <2> QED BY <1>6, <2>1, <2>2 DEF CloseOutput, TypeOK
<1>7. CASE SettleOutput(r)
  <2>1. host' \in HostType /\ at[r] > 0 /\ Finish(r, "done") /\ UNCHANGED device
    BY <1>7 DEF SettleOutput, Running, TypeOK
  <2>2. peek' \in [Runner -> {"none", "abandon", "keep", "dispose"}]
    BY <1>7 DEF SettleOutput, TypeOK
  <2>9. FinishKeeps BY <2>1, <2>2, FinishType
  <2> QED BY <2>9, <2>1, <2>2 DEF TypeOK, FinishKeeps
<1> QED
  BY <1>1, <1>2, <1>3, <1>4, <1>5, <1>6, <1>7 DEF CleanupStep

(* cleanupStack.run's swap hands the whole list over.                       *)
LEMMA TakeType ==
  ASSUME TypeOK, NEW r \in Runner, Take(r)
  PROVE  /\ stack' \in Seq(Cleanup) /\ fns' \in [Runner -> Seq(Cleanup)]
         /\ at' \in [Runner -> Nat] /\ \A q \in Runner : at'[q] <= Len(fns'[q])
BY DEF TypeOK, Take

(* Every step of the system stays within the declared values.               *)
LEMMA NextType == TypeOK /\ [Next]_vars => TypeOK'
<1> SUFFICES ASSUME TypeOK, [Next]_vars PROVE TypeOK'
  OBVIOUS
<1>1. CASE Handler
  BY <1>1, HandlerType
<1>2. CASE MainTakes
  <2>1. Take("main") BY <1>2 DEF MainTakes
  <2> QED BY <1>2, <2>1, TakeType DEF MainTakes, TypeOK, Label, Runner
<1>3. CASE SignalTakes
  <2>1. Take("signal") BY <1>3 DEF SignalTakes
  <2> QED BY <1>3, <2>1, TakeType DEF SignalTakes, TypeOK, Runner
<1>4. ASSUME NEW r \in Runner, CleanupStep(r) PROVE TypeOK'
  BY <1>4, CleanupType
<1>5. CASE MainExits
  BY <1>5 DEF MainExits, TypeOK, Label
<1>6. CASE SignalReset \/ SignalExits
  BY <1>6 DEF SignalReset, SignalExits, TypeOK
<1>7. CASE Interrupt
  BY <1>7 DEF Interrupt, TypeOK
<1>8. CASE Network
  <2>1. device' \in DeviceType
    BY <1>8 DEF Network, TypeOK, DeviceType
  <2> QED BY <1>8, <2>1 DEF Network, TypeOK
<1>9. CASE UNCHANGED vars
  BY <1>9 DEF vars, TypeOK
<1> QED
  BY <1>1, <1>2, <1>3, <1>4, <1>5, <1>6, <1>7, <1>8, <1>9
     DEF Next, MainNext, SignalNext, Runner

(* Every reachable state has the declared types.                            *)
THEOREM TypeCorrect == Spec => []TypeOK
<1>1. Init => TypeOK
  BY DEF Init, TypeOK, HostType, DeviceType, File, Fact, Label, Cleanup, Runner
<1> QED
  BY <1>1, NextType, PTL DEF Spec

-----------------------------------------------------------------------------
(* The cleanup stack.  StackInv strengthens NoCleanupTwice and CloseIsLast   *)
(* with what the handler's order of pushes gives: a cleanup that main has    *)
(* not come to yet is registered nowhere, and "session" is only ever first.  *)

BeforePatched == {"connected", "probe", "choose", "patch", "patching", "pushPatched"}
BeforeStaging == BeforePatched \cup {"plan", "pushStaging"}
BeforeProvisional ==
  BeforeStaging \cup
  {"storekit", "ensure", "upload", "uploading", "install", "rescan", "wantUninstall",
   "pathUninstall", "workpath", "pushProvisional"}
BeforeOutput == BeforeProvisional \cup {"mkdir", "open", "pushOutput"}

\* Where main still has the push of c ahead of it.
Before(c) ==
  {l \in BeforeOutput :
     \/ c = "uninstall"   /\ l = "connected"
     \/ c = "patched"     /\ l \in BeforePatched
     \/ c = "staging"     /\ l \in BeforeStaging
     \/ c = "provisional" /\ l \in BeforeProvisional
     \/ c = "output"}

Registered ==
  Items(stack) \cup Todo("main") \cup Todo("signal") \cup {c \in Cleanup : outcome[c] # "pending"}

StackInv ==
  /\ NoCleanupTwice
  /\ CloseIsLast
  /\ \A c \in Cleanup : pc \in Before(c) => c \notin Registered
  /\ \A i \in 1..Len(stack) : stack[i] = "session" => i = 1

\* What a step of the handler does to the stack, the session and the app.
HandlerEffect ==
  /\ UNCHANGED sys
  /\ device'.session = device.session /\ device'.app \in {device.app, "ours"}
  /\ \A c \in Cleanup : pc' \in Before(c) => pc \in Before(c)
  /\ \/ UNCHANGED stack
     \/ \E c \in Cleanup :
          c # "session" /\ pc \in Before(c) /\ pc' \notin Before(c) /\ stack' = Append(stack, c)

(* A handler step leaves the stack alone or pushes one cleanup that was not  *)
(* registered before.                                                       *)
LEMMA HandlerKeepsStack == TypeOK /\ Handler => HandlerEffect
<1> SUFFICES ASSUME TypeOK, Handler PROVE HandlerEffect
  OBVIOUS
<1>0. device \in DeviceType
  BY DEF TypeOK
<1> USE <1>0 DEF DeviceType, HandlerEffect, Main, GiveUp, RemoteGiveUp, RemoteStep, Push, Cleanup,
                 Before, BeforeOutput, BeforeProvisional, BeforeStaging, BeforePatched
<1>1. CASE RegisterUninstall
  BY <1>1 DEF RegisterUninstall
<1>2. CASE Probe
  BY <1>2 DEF Probe
<1>3. CASE ChooseInstalled
  BY <1>3 DEF ChooseInstalled
<1>4. CASE ChooseStoreKit
  BY <1>4 DEF ChooseStoreKit
<1>5. CASE ChooseSource
  BY <1>5 DEF ChooseSource
<1>6. CASE StoreKitInstall
  BY <1>6 DEF StoreKitInstall
<1>7. CASE PatchBegin
  BY <1>7 DEF PatchBegin
<1>8. CASE PatchEnd
  BY <1>8 DEF PatchEnd
<1>9. CASE RegisterPatched
  BY <1>9 DEF RegisterPatched
<1>10. CASE Plan
  BY <1>10 DEF Plan
<1>11. CASE RegisterStaging
  BY <1>11 DEF RegisterStaging
<1>12. CASE EnsureInstalled
  BY <1>12 DEF EnsureInstalled
<1>13. CASE UploadBegin
  BY <1>13 DEF UploadBegin
<1>14. CASE UploadEnd
  BY <1>14 DEF UploadEnd
<1>15. CASE Install
  BY <1>15 DEF Install
<1>16. CASE Rescan
  BY <1>16 DEF Rescan
<1>17. CASE DecideUninstall
  BY <1>17 DEF DecideUninstall
<1>18. CASE NameUninstallPath
  BY <1>18 DEF NameUninstallPath
<1>19. CASE WorkingPath
  BY <1>19 DEF WorkingPath
<1>20. CASE RegisterProvisional
  BY <1>20 DEF RegisterProvisional
<1>21. CASE MakeDirs
  BY <1>21 DEF MakeDirs
<1>22. CASE OpenOutput
  BY <1>22 DEF OpenOutput
<1>23. CASE RegisterOutput
  BY <1>23 DEF RegisterOutput
<1>24. CASE DisarmProvisional
  BY <1>24 DEF DisarmProvisional
<1>25. CASE Stream
  BY <1>25 DEF Stream
<1>26. CASE SyncOutput
  BY <1>26 DEF SyncOutput
<1>27. CASE MarkComplete
  BY <1>27 DEF MarkComplete
<1>28. CASE CleanBegin
  BY <1>28 DEF CleanBegin
<1>29. CASE CleanEnd
  BY <1>29 DEF CleanEnd
<1>30. CASE Verify
  BY <1>30 DEF Verify
<1>31. CASE DeliverBegin
  BY <1>31 DEF DeliverBegin
<1>32. CASE DeliverEnd
  BY <1>32 DEF DeliverEnd
<1>33. CASE MarkDelivered
  BY <1>33 DEF MarkDelivered
<1>34. CASE StopNotify
  BY <1>34 DEF StopNotify
<1>35. CASE CopyStops \/ StoppedCopyEnds
  BY <1>35 DEF CopyStops, StoppedCopyEnds
<1> QED
  BY <1>1, <1>2, <1>3, <1>4, <1>5, <1>6, <1>7, <1>8, <1>9, <1>10, <1>11, <1>12, <1>13, <1>14,
     <1>15, <1>16, <1>17, <1>18, <1>19, <1>20, <1>21, <1>22, <1>23, <1>24, <1>25, <1>26, <1>27,
     <1>28, <1>29, <1>30, <1>31, <1>32, <1>33, <1>34, <1>35 DEF Handler


\* What a finished cleanup does to the shared structures.
CleanupEffect(r) ==
  \/ UNCHANGED <<pc, stack, fns, at, outcome, device>>
  \/ /\ UNCHANGED <<pc, stack, fns>>
     /\ at[r] > 0
     /\ at' = [at EXCEPT ![r] = @ - 1]
     /\ \E x \in {"done", "failed"} : outcome' = [outcome EXCEPT ![fns[r][at[r]]] = x]
     /\ \/ device'.session = device.session
        \/ fns[r][at[r]] = "session" /\ outcome' = [outcome EXCEPT !["session"] = "done"]

(* A cleanup step finishes the current item of one runner, or none.         *)
LEMMA CleanupKeepsStack ==
  ASSUME TypeOK, NEW r \in Runner, CleanupStep(r) PROVE CleanupEffect(r)
<1> USE DEF CleanupEffect, Running, Finish, Current, DeviceType
<1>0. device \in DeviceType
  BY DEF TypeOK
<1>1. CASE CloseSession(r)
  BY <1>1 DEF CloseSession
<1>2. CASE RunUninstall(r)
  <2>1. device'.session = device.session
    BY <1>0, <1>2 DEF RunUninstall
  <2> QED BY <1>2, <2>1 DEF RunUninstall
<1>3. CASE RemovePatched(r)
  BY <1>3 DEF RemovePatched
<1>4. CASE RemoveStaging(r)
  <2>1. device'.session = device.session
    BY <1>0, <1>4 DEF RemoveStaging
  <2> QED BY <1>4, <2>1 DEF RemoveStaging
<1>5. CASE RemoveProvisional(r)
  BY <1>5 DEF RemoveProvisional
<1>6. CASE CloseOutput(r)
  BY <1>6 DEF CloseOutput
<1>7. CASE SettleOutput(r)
  BY <1>7 DEF SettleOutput
<1> QED
  BY <1>1, <1>2, <1>3, <1>4, <1>5, <1>6, <1>7 DEF CleanupStep

(* A step that touches neither the stack nor the drains keeps StackInv.      *)
LEMMA StackFrame ==
  ASSUME StackInv, UNCHANGED <<stack, fns, at, outcome>>,
         \A d \in Cleanup : pc' \in Before(d) => pc \in Before(d),
         device'.session = "closed" => device.session = "closed"
  PROVE  StackInv'
<1>1. Items(stack') = Items(stack) /\ \A r \in Runner : Todo(r)' = Todo(r)
  BY DEF Items, Todo
<1>2. Registered' = Registered
  BY <1>1 DEF Registered, Runner
<1>3. NoCleanupTwice'
  <2>1. \A i, j \in 1..Len(stack') : stack'[i] = stack'[j] => i = j
    BY DEF StackInv, NoCleanupTwice
  <2>2. \A r \in Runner : \A i, j \in 1..at'[r] : fns'[r][i] = fns'[r][j] => i = j
    BY DEF StackInv, NoCleanupTwice
  <2>3. \A r \in Runner : Items(stack') \cap Todo(r)' = {}
    BY <1>1 DEF StackInv, NoCleanupTwice
  <2>4. Todo("main")' \cap Todo("signal")' = {}
    BY <1>1 DEF StackInv, NoCleanupTwice, Runner
  <2>5. \A d \in Cleanup : outcome'[d] # "pending" =>
          d \notin Items(stack') \cup Todo("main")' \cup Todo("signal")'
    BY <1>1 DEF StackInv, NoCleanupTwice, Runner
  <2> QED BY <2>1, <2>2, <2>3, <2>4, <2>5 DEF NoCleanupTwice
<1>4. CloseIsLast'
  BY DEF StackInv, CloseIsLast
<1> QED
  BY <1>2, <1>3, <1>4 DEF StackInv

(* cleanupStack.push of something not registered yet.                       *)
LEMMA PushKeepsInv ==
  ASSUME TypeOK, StackInv, NEW c \in Cleanup, c # "session", pc \in Before(c),
         pc' \notin Before(c), stack' = Append(stack, c), UNCHANGED sys,
         \A d \in Cleanup : pc' \in Before(d) => pc \in Before(d),
         device'.session = device.session
  PROVE  StackInv'
<1>0. /\ stack \in Seq(Cleanup) /\ Len(stack) \in Nat /\ Len(stack') = Len(stack) + 1
      /\ \A i \in 1..Len(stack) : stack'[i] = stack[i]
      /\ stack'[Len(stack) + 1] = c
  BY DEF TypeOK
<1>1. c \notin Registered
  BY DEF StackInv
<1>2. Items(stack') = Items(stack) \cup {c}
  BY <1>0 DEF Items
<1>3. Todo("main")' = Todo("main") /\ Todo("signal")' = Todo("signal") /\ outcome' = outcome
  BY DEF sys, Todo
<1>4. Registered' = Registered \cup {c}
  BY <1>2, <1>3 DEF Registered
<1>5. \A i \in 1..Len(stack) : stack[i] # c
  BY <1>1, <1>0 DEF Registered, Items
<1>6. \A i, j \in 1..Len(stack') : stack'[i] = stack'[j] => i = j
  BY <1>0, <1>5 DEF StackInv, NoCleanupTwice
<1>7. NoCleanupTwice'
  <2>1. \A r \in Runner : \A i, j \in 1..at'[r] : fns'[r][i] = fns'[r][j] => i = j
    BY DEF sys, StackInv, NoCleanupTwice
  <2>2. \A r \in Runner : Items(stack') \cap Todo(r)' = {}
    BY <1>1, <1>2, <1>3 DEF StackInv, NoCleanupTwice, Registered, Runner
  <2>3. \A d \in Cleanup : outcome'[d] # "pending" =>
          d \notin Items(stack') \cup Todo("main")' \cup Todo("signal")'
    BY <1>1, <1>2, <1>3 DEF StackInv, NoCleanupTwice, Registered
  <2>4. Todo("main")' \cap Todo("signal")' = {}
    BY <1>3 DEF StackInv, NoCleanupTwice
  <2> QED BY <1>6, <2>1, <2>2, <2>3, <2>4 DEF NoCleanupTwice, Items
<1>8. \A d \in Cleanup : pc' \in Before(d) => d \notin Registered'
  BY <1>4 DEF StackInv
<1>9. \A i \in 1..Len(stack') : stack'[i] = "session" => i = 1
  BY <1>0 DEF StackInv
<1>10. CloseIsLast'
  BY DEF sys, StackInv, CloseIsLast
<1> QED
  BY <1>7, <1>8, <1>9, <1>10 DEF StackInv, Before

(* cleanupStack.run's swap, by either goroutine.                            *)
LEMMA TakeKeepsInv ==
  ASSUME TypeOK, StackInv, NEW r \in Runner, Take(r), UNCHANGED <<device, outcome>>,
         pc' = pc \/ (pc = "swap" /\ pc' = "drain")
  PROVE  StackInv'
<1>0. /\ stack \in Seq(Cleanup) /\ Len(stack) \in Nat
      /\ stack' = <<>> /\ Len(stack') = 0
      /\ fns'[r] = stack /\ at'[r] = Len(stack)
      /\ \A q \in Runner \ {r} : fns'[q] = fns[q] /\ at'[q] = at[q]
  BY DEF TypeOK, Take
<1>1. Items(stack') = {} /\ Todo(r)' = Items(stack)
  BY <1>0 DEF Items, Todo
<1>2. \A q \in Runner \ {r} : Todo(q)' = Todo(q)
  BY <1>0 DEF Todo
<1>3. Registered' \subseteq Registered
  BY <1>1, <1>2 DEF Registered, Runner
<1>4. NoCleanupTwice'
  <2>1. \A i, j \in 1..Len(stack') : stack'[i] = stack'[j] => i = j
    BY <1>0
  <2>2. \A q \in Runner : \A i, j \in 1..at'[q] : fns'[q][i] = fns'[q][j] => i = j
    BY <1>0 DEF StackInv, NoCleanupTwice
  <2>3. Todo("main")' \cap Todo("signal")' = {}
    BY <1>1, <1>2 DEF StackInv, NoCleanupTwice, Runner
  <2>4. \A d \in Cleanup : outcome'[d] # "pending" =>
          d \notin Items(stack') \cup Todo("main")' \cup Todo("signal")'
    BY <1>1, <1>2 DEF StackInv, NoCleanupTwice, Runner
  <2> QED BY <1>1, <2>1, <2>2, <2>3, <2>4 DEF NoCleanupTwice
<1>5. \A d \in Cleanup : pc' \in Before(d) => d \notin Registered'
  BY <1>3 DEF StackInv, Before, BeforeOutput, BeforeProvisional, BeforeStaging, BeforePatched
<1>6. CloseIsLast'
  BY <1>0 DEF StackInv, CloseIsLast
<1> QED
  BY <1>0, <1>4, <1>5, <1>6 DEF StackInv, Before

(* Finishing the current item.                                              *)
LEMMA CleanupKeepsInv ==
  ASSUME TypeOK, StackInv, NEW r \in Runner, CleanupEffect(r) PROVE StackInv'
<1>1. CASE UNCHANGED <<pc, stack, fns, at, outcome, device>>
  BY <1>1, StackFrame
<1>2. CASE ~ UNCHANGED <<pc, stack, fns, at, outcome, device>>
  <2> DEFINE c == fns[r][at[r]]
  <2>0. /\ UNCHANGED <<pc, stack, fns>> /\ at[r] > 0
        /\ at' = [at EXCEPT ![r] = @ - 1]
        /\ \E x \in {"done", "failed"} : outcome' = [outcome EXCEPT ![c] = x]
        /\ \/ device'.session = device.session
           \/ c = "session" /\ outcome' = [outcome EXCEPT !["session"] = "done"]
    BY <1>2 DEF CleanupEffect
  <2>1. c \in Cleanup /\ c \in Todo(r)
    BY <2>0 DEF TypeOK, Todo
  <2>2. at'[r] = at[r] - 1 /\ \A q \in Runner \ {r} : at'[q] = at[q]
    BY <2>0 DEF TypeOK
  <2>3. Todo(r)' = Todo(r) \ {c} /\ \A q \in Runner \ {r} : Todo(q)' = Todo(q)
    BY <2>0, <2>2 DEF Todo, TypeOK, StackInv, NoCleanupTwice
  <2>4. /\ outcome'[c] # "pending"
        /\ \A d \in Cleanup \ {c} : outcome'[d] = outcome[d]
    BY <2>0, <2>1 DEF TypeOK
  <2>5. Registered' = Registered
    BY <2>0, <2>1, <2>3, <2>4 DEF Registered, Runner, Items
  <2> HIDE DEF c
  <2>6. NoCleanupTwice'
    <3>1. \A q \in Runner : \A i, j \in 1..at'[q] : fns'[q][i] = fns'[q][j] => i = j
      BY <2>0, <2>2 DEF StackInv, NoCleanupTwice, TypeOK
    <3>2. Todo("main")' \cap Todo("signal")' = {}
      BY <2>3 DEF StackInv, NoCleanupTwice, Runner
    <3>3. \A q \in Runner : Items(stack') \cap Todo(q)' = {}
      BY <2>0, <2>3 DEF StackInv, NoCleanupTwice, Runner, Items
    <3>4. \A d \in Cleanup : outcome'[d] # "pending" =>
            d \notin Items(stack') \cup Todo("main")' \cup Todo("signal")'
      BY <2>0, <2>1, <2>3, <2>4 DEF StackInv, NoCleanupTwice, Runner, Items
    <3>5. \A i, j \in 1..Len(stack') : stack'[i] = stack'[j] => i = j
      BY <2>0 DEF StackInv, NoCleanupTwice
    <3> QED BY <3>1, <3>2, <3>3, <3>4, <3>5 DEF NoCleanupTwice
  <2>7. CloseIsLast'
    <3>1. \A q \in Runner : \A i \in 1..at'[q] : fns'[q][i] = "session" => i = 1
      BY <2>0, <2>2 DEF StackInv, CloseIsLast, TypeOK
    <3>2. device'.session = "closed" => outcome'["session"] = "done"
      <4>1. CASE c = "session" /\ outcome' = [outcome EXCEPT !["session"] = "done"]
        BY <4>1 DEF TypeOK, Cleanup
      <4>2. CASE device'.session = device.session /\ device.session = "closed"
        <5>1. outcome["session"] = "done"
          BY <4>2 DEF StackInv, CloseIsLast
        <5>2. c # "session"
          BY <5>1, <2>1 DEF StackInv, NoCleanupTwice, Runner
        <5> QED BY <5>1, <5>2, <2>4 DEF Cleanup
      <4> QED BY <4>1, <4>2, <2>0
    <3> QED BY <3>1, <3>2 DEF CloseIsLast
  <2> QED BY <2>0, <2>5, <2>6, <2>7 DEF StackInv, Before
<1> QED BY <1>1, <1>2

(* StackInv is inductive relative to TypeOK.                                *)
LEMMA StackStep == TypeOK /\ StackInv /\ [Next]_vars => StackInv'
<1> SUFFICES ASSUME TypeOK, StackInv, [Next]_vars PROVE StackInv'
  OBVIOUS
<1>1. CASE Handler
  <2>1. HandlerEffect
    BY <1>1, HandlerKeepsStack
  <2>2. CASE UNCHANGED stack
    BY <2>1, <2>2, StackFrame DEF HandlerEffect, sys
  <2>3. ASSUME NEW c \in Cleanup, c # "session", pc \in Before(c), pc' \notin Before(c),
               stack' = Append(stack, c)
        PROVE  StackInv'
    <3> QED BY <2>1, <2>3, PushKeepsInv DEF HandlerEffect
  <2> QED BY <2>1, <2>2, <2>3 DEF HandlerEffect
<1>2. CASE MainTakes
  <2> QED BY <1>2, TakeKeepsInv DEF MainTakes, Runner
<1>3. CASE SignalTakes
  <2> QED BY <1>3, TakeKeepsInv DEF SignalTakes, Runner
<1>4. ASSUME NEW r \in Runner, CleanupStep(r) PROVE StackInv'
  <2> QED BY <1>4, CleanupKeepsStack, CleanupKeepsInv
<1>5. CASE MainExits
  <2>1. \A d \in Cleanup : pc' \notin Before(d)
    BY <1>5 DEF MainExits, Before, BeforeOutput, BeforeProvisional, BeforeStaging, BeforePatched
  <2> QED BY <1>5, <2>1, StackFrame DEF MainExits
<1>6. CASE SignalReset \/ SignalExits \/ Interrupt
  BY <1>6, StackFrame DEF SignalReset, SignalExits, Interrupt
<1>7. CASE Network
  <2>1. device'.session = "closed" => device.session = "closed"
    BY <1>7 DEF Network, TypeOK, DeviceType
  <2> QED BY <1>7, <2>1, StackFrame DEF Network
<1>8. CASE UNCHANGED vars
  BY <1>8, StackFrame DEF vars
<1> QED
  BY <1>1, <1>2, <1>3, <1>4, <1>5, <1>6, <1>7, <1>8
     DEF Next, MainNext, SignalNext, Runner

(* It holds when the session's cleanup has just been pushed.                *)
LEMMA StackInit == Init => StackInv
<1> SUFFICES ASSUME Init PROVE StackInv
  OBVIOUS
<1>1. /\ Len(stack) = 1 /\ stack[1] = "session" /\ \A r \in Runner : at[r] = 0
      /\ \A c \in Cleanup : outcome[c] = "pending"
      /\ pc = "connected" /\ device.session = "open"
  BY DEF Init
<1>2. Items(stack) = {"session"} /\ \A r \in Runner : Todo(r) = {}
  BY <1>1 DEF Items, Todo
<1>3. Registered = {"session"}
  BY <1>1, <1>2 DEF Registered, Runner
<1> QED
  BY <1>1, <1>2, <1>3 DEF StackInv, NoCleanupTwice, CloseIsLast, Before, Runner, Cleanup

(* Whatever the interleaving of pushes and of the two drains, no registered *)
(* cleanup is ever held, or run, twice.                                     *)
THEOREM CleanupsRunOnce == Spec => []NoCleanupTwice
<1>1. StackInv => NoCleanupTwice
  BY DEF StackInv
<1> QED
  BY <1>1, TypeCorrect, StackInit, StackStep, PTL DEF Spec

(* The goroutine that holds the session's cleanup closes it last.           *)
THEOREM SessionClosesLast == Spec => []CloseIsLast
<1>1. StackInv => CloseIsLast
  BY DEF StackInv
<1> QED
  BY <1>1, TypeCorrect, StackInit, StackStep, PTL DEF Spec

-----------------------------------------------------------------------------
(* The files and the app.  DataInv says what each unlocked variable promises *)
(* from the moment main assigns it, wherever main and the drains are.        *)

Ending       == {"stop", "swap", "drain", "exited"}
Delivering   == {"deliver", "delivering", "delivered"}
AfterMark    == {"clean", "cleaning", "verify"} \cup Delivering \cup Ending
Waived       == opt.noVerify = TRUE

\* "completed" is set only over a file the stream has finished, which nothing
\* but the output closures and CleanupIPA touches afterwards.
OutputInv ==
  /\ "completed" \in known => host.out # "partial" /\ pc \in AfterMark
  /\ pc \in {"sync", "complete"} \cup (AfterMark \ Ending) => host.out # "partial"
  /\ \A r \in Runner : peek[r] \in {"keep", "dispose"} => "completed" \in known
  /\ ReleasedOutputNotPartial

\* The device copy is whole only past verification.
CopyInv ==
  /\ device.copy = "whole" => pc \in {"delivered"} \cup Ending
  /\ pc = "delivered" \/ "delivered" \in known => device.copy = "whole"
  /\ pc \in Delivering => host.code = "decrypted" \/ Waived
  /\ device.copy = "whole" => host.code = "decrypted" \/ Waived
  /\ \A r \in Runner : peek[r] = "dispose" => device.copy = "whole"

\* The uninstall closure is told to remove only what the flags and the install allow.
UninstallInv ==
  /\ "want" \in known =>
       opt.uninstall # "no" /\ (opt.uninstall = "force" \/ "installed" \in known)
  /\ "installed" \in known \/ pc = "rescan" => device.app # "theirs"

DataInv == OutputInv /\ CopyInv /\ UninstallInv

(* The handler keeps DataInv: one case per action.                          *)
LEMMA HandlerKeepsData == TypeOK /\ StackInv /\ DataInv /\ Handler => DataInv'
<1> SUFFICES ASSUME TypeOK, StackInv, DataInv, Handler PROVE DataInv'
  OBVIOUS
<1>0. device \in DeviceType /\ host \in HostType
  BY DEF TypeOK
<1>e. pc \in {"workpath", "open"} => outcome["output"] # "done"
  BY DEF StackInv, Before, BeforeOutput, BeforeProvisional, BeforeStaging, BeforePatched,
     Registered, Cleanup
<1> USE <1>0, <1>e DEF DeviceType, HostType, File, DataInv, OutputInv, CopyInv, UninstallInv,
        ReleasedOutputNotPartial, Waived, Ending, Delivering, AfterMark,
        Main, GiveUp, RemoteGiveUp, RemoteStep, Reachable, CallFails, sys, Push
<1>1. CASE RegisterUninstall
  BY <1>1 DEF RegisterUninstall
<1>2. CASE Probe
  BY <1>2 DEF Probe
<1>3. CASE ChooseInstalled
  BY <1>3 DEF ChooseInstalled
<1>4. CASE ChooseStoreKit
  BY <1>4 DEF ChooseStoreKit
<1>5. CASE ChooseSource
  BY <1>5 DEF ChooseSource
<1>6. CASE StoreKitInstall
  BY <1>6 DEF StoreKitInstall
<1>7. CASE PatchBegin
  BY <1>7 DEF PatchBegin
<1>8. CASE PatchEnd
  BY <1>8 DEF PatchEnd
<1>9. CASE RegisterPatched
  BY <1>9 DEF RegisterPatched
<1>10. CASE Plan
  BY <1>10 DEF Plan
<1>11. CASE RegisterStaging
  BY <1>11 DEF RegisterStaging
<1>12. CASE EnsureInstalled
  BY <1>12 DEF EnsureInstalled
<1>13. CASE UploadBegin
  BY <1>13 DEF UploadBegin
<1>14. CASE UploadEnd
  BY <1>14 DEF UploadEnd
<1>15. CASE Install
  BY <1>15 DEF Install
<1>16. CASE Rescan
  BY <1>16 DEF Rescan
<1>17. CASE DecideUninstall
  BY <1>17 DEF DecideUninstall
<1>18. CASE NameUninstallPath
  BY <1>18 DEF NameUninstallPath
<1>19. CASE WorkingPath
  BY <1>19 DEF WorkingPath
<1>20. CASE RegisterProvisional
  BY <1>20 DEF RegisterProvisional
<1>21. CASE MakeDirs
  BY <1>21 DEF MakeDirs
<1>22. CASE OpenOutput
  BY <1>22 DEF OpenOutput
<1>23. CASE RegisterOutput
  BY <1>23 DEF RegisterOutput
<1>24. CASE DisarmProvisional
  BY <1>24 DEF DisarmProvisional
<1>25. CASE Stream
  <2>1. OutputInv'
    BY <1>25 DEF Stream
  <2>2. CopyInv'
    BY <1>25 DEF Stream
  <2>3. UninstallInv'
    BY <1>25 DEF Stream
  <2> QED
    BY ONLY <2>1, <2>2, <2>3 DEF DataInv
<1>26. CASE SyncOutput
  BY <1>26 DEF SyncOutput
<1>27. CASE MarkComplete
  BY <1>27 DEF MarkComplete
<1>28. CASE CleanBegin
  <2>1. OutputInv'
    BY <1>28 DEF CleanBegin
  <2>2. CopyInv'
    BY <1>28 DEF CleanBegin
  <2>3. UninstallInv'
    BY <1>28 DEF CleanBegin
  <2> QED
    BY ONLY <2>1, <2>2, <2>3 DEF DataInv
<1>29. CASE CleanEnd
  <2>1. OutputInv'
    BY <1>29 DEF CleanEnd
  <2>2. CopyInv'
    BY <1>29 DEF CleanEnd
  <2>3. UninstallInv'
    BY <1>29 DEF CleanEnd
  <2> QED
    BY ONLY <2>1, <2>2, <2>3 DEF DataInv
<1>30. CASE Verify
  BY <1>30 DEF Verify
<1>31. CASE DeliverBegin
  BY <1>31 DEF DeliverBegin
<1>32. CASE DeliverEnd
  BY <1>32 DEF DeliverEnd
<1>33. CASE MarkDelivered
  BY <1>33 DEF MarkDelivered
<1>34. CASE StopNotify
  BY <1>34 DEF StopNotify
<1>35. CASE CopyStops \/ StoppedCopyEnds
  BY <1>35 DEF CopyStops, StoppedCopyEnds
<1> QED
  BY <1>1, <1>2, <1>3, <1>4, <1>5, <1>6, <1>7, <1>8, <1>9, <1>10, <1>11, <1>12, <1>13, <1>14,
     <1>15, <1>16, <1>17, <1>18, <1>19, <1>20, <1>21, <1>22, <1>23, <1>24, <1>25, <1>26, <1>27,
     <1>28, <1>29, <1>30, <1>31, <1>32, <1>33, <1>34, <1>35 DEF Handler

(* The closures of either goroutine keep DataInv.                           *)
LEMMA CleanupKeepsData ==
  ASSUME TypeOK, StackInv, DataInv, NEW r \in Runner, CleanupStep(r) PROVE DataInv'
<1>0. /\ device \in DeviceType /\ host \in HostType
      /\ outcome \in [Cleanup -> {"pending", "done", "failed"}]
      /\ peek \in [Runner -> {"none", "abandon", "keep", "dispose"}]
  BY DEF TypeOK
<1> USE <1>0 DEF DeviceType, HostType, File, DataInv, OutputInv, CopyInv, UninstallInv, Cleanup,
        ReleasedOutputNotPartial, Waived, Running, Finish, Current, AfterMark, Ending, Delivering
<1>1. CASE CloseSession(r)
  BY <1>1 DEF CloseSession
<1>2. CASE RunUninstall(r)
  BY <1>2 DEF RunUninstall
<1>3. CASE RemovePatched(r)
  BY <1>3 DEF RemovePatched
<1>4. CASE RemoveStaging(r)
  BY <1>4 DEF RemoveStaging
<1>5. CASE RemoveProvisional(r)
  BY <1>5 DEF RemoveProvisional
<1>6. CASE CloseOutput(r)
  BY <1>6 DEF CloseOutput
<1>7. CASE SettleOutput(r)
  BY <1>7 DEF SettleOutput
<1> QED
  BY <1>1, <1>2, <1>3, <1>4, <1>5, <1>6, <1>7 DEF CleanupStep

(* DataInv is inductive relative to TypeOK and StackInv.                    *)
LEMMA DataStep == TypeOK /\ StackInv /\ DataInv /\ [Next]_vars => DataInv'
<1> SUFFICES ASSUME TypeOK, StackInv, DataInv, [Next]_vars PROVE DataInv'
  OBVIOUS
<1> USE DEF DataInv, OutputInv, CopyInv, UninstallInv, ReleasedOutputNotPartial, Waived,
            AfterMark, Ending, Delivering
<1>1. CASE Handler
  BY <1>1, HandlerKeepsData
<1>2. CASE MainTakes \/ MainExits
  BY <1>2 DEF MainTakes, MainExits
<1>3. CASE SignalReset \/ SignalTakes \/ SignalExits \/ Interrupt
  BY <1>3 DEF SignalReset, SignalTakes, SignalExits, Interrupt
<1>4. ASSUME NEW r \in Runner, CleanupStep(r) PROVE DataInv'
  BY <1>4, CleanupKeepsData
<1>5. CASE Network
  <2>1. device'.app = device.app /\ device'.copy = device.copy
    BY <1>5 DEF Network, TypeOK, DeviceType
  <2> QED BY <1>5, <2>1 DEF Network
<1>6. CASE UNCHANGED vars
  BY <1>6 DEF vars
<1> QED
  BY <1>1, <1>2, <1>3, <1>4, <1>5, <1>6 DEF Next, MainNext, SignalNext, Runner

(* The three invariants together.                                           *)
LEMMA DataAlways == Spec => [](TypeOK /\ StackInv /\ DataInv)
<1>1. Init => DataInv
  BY DEF Init, DataInv, OutputInv, CopyInv, UninstallInv, ReleasedOutputNotPartial, AfterMark,
         Ending, Delivering, Cleanup, Runner
<1> QED
  BY <1>1, TypeCorrect, StackInit, StackStep, DataStep, PTL DEF Spec

(* Once its closure has run, on either goroutine, the output name holds no  *)
(* half-written IPA, although main may still be in the middle of the run.   *)
THEOREM NoPartialOutput == Spec => []ReleasedOutputNotPartial
<1>1. DataInv => ReleasedOutputNotPartial
  BY DEF DataInv, OutputInv
<1> QED
  BY <1>1, DataAlways, PTL

(* A whole IPA on the device was verified, or verification was waived.      *)
THEOREM DeviceCopyVerified == Spec => []DeviceCopySound
<1>1. DataInv => DeviceCopySound
  BY DEF DataInv, CopyInv, DeviceCopySound, Waived
<1> QED
  BY <1>1, DataAlways, PTL

(* No step removes an app from the device that this run did not put there,  *)
(* unless --force-uninstall asked for it.                                   *)
THEOREM OnlyOursUninstalled == Spec => UninstallOnlyOurs
<1> DEFINE Allowed == device.app # "absent" /\ device'.app = "absent" =>
                        /\ opt.uninstall # "no"
                        /\ opt.uninstall = "force" \/ device.app = "ours"
<1>1. ASSUME TypeOK, DataInv, Next PROVE Allowed
  <2>0. device \in DeviceType
    BY <1>1 DEF TypeOK
  <2>1. CASE \E r \in Runner : RunUninstall(r)
    BY <1>1, <2>0, <2>1 DEF RunUninstall, DataInv, UninstallInv, DeviceType
  <2>2. ASSUME NEW r \in Runner, CleanupStep(r), ~ RunUninstall(r)
        PROVE  device'.app = device.app
    BY <2>0, <2>2 DEF CleanupStep, CloseSession, RemovePatched, RemoveStaging,
       RemoveProvisional, CloseOutput, SettleOutput, DeviceType
  <2>3. CASE Handler
    <3>1. HandlerEffect
      BY <1>1, <2>3, HandlerKeepsStack
    <3> QED BY <3>1 DEF HandlerEffect
  <2>4. CASE ~ Handler /\ ~ (\E r \in Runner : CleanupStep(r))
    <3>1. device'.app = device.app
      BY <1>1, <2>0, <2>4 DEF Next, MainNext, SignalNext, MainTakes, MainExits, SignalReset,
         SignalTakes, SignalExits, Interrupt, Network, vars, Runner, DeviceType
    <3> QED BY <3>1
  <2> QED BY <2>1, <2>2, <2>3, <2>4
<1>2. TypeOK /\ DataInv /\ [Next]_vars => [Allowed]_vars
  BY <1>1
<1> QED
  BY <1>2, DataAlways, PTL DEF Spec, UninstallOnlyOurs
-----------------------------------------------------------------------------
(* The run nobody interrupts.  Only main runs cleanups, after the last push; *)
(* so what is still to be cleaned up has its cleanup on the stack or in      *)
(* main's list.                                                              *)

Finishing == {"drain", "exited"}
Due == Items(stack) \cup Todo("main")

MainAlone ==
  /\ sg = "idle"
  /\ proc \in {"running", "exit0"}
  /\ proc = "exit0" => pc = "exited" /\ at["main"] = 0
  /\ pc \in Finishing => stack = <<>>
  /\ pc \notin Finishing => at["main"] = 0 /\ peek["main"] = "none"

\* The output file, step by step.
OutputWhole ==
  /\ pc \in BeforeProvisional \ {"pushProvisional"} => host.out = "absent"
  /\ pc \in {"pushProvisional", "mkdir", "open"} /\ KeepDesktop => host.out = "absent"
  /\ pc \in {"pushOutput", "disarm", "stream", "stopped"} => host.out = "partial"
  /\ pc \in {"sync", "complete"} \cup (AfterMark \ Ending) => host.out = "whole"
  /\ pc = "complete" => "armed" \notin known
  /\ pc \in {"stream", "sync"} => "armed" \notin known
  /\ "completed" \in known =>
       /\ "armed" \notin known
       /\ host.out = "whole" \/ (pc \in Finishing /\ device.copy = "whole")
  /\ peek["main"] = "abandon" => "completed" \notin known
  /\ peek["main"] = "keep" => KeepDesktop \/ "delivered" \notin known

\* Whatever is left behind has its cleanup still to come - but the rewrite of an IPA
\* that could not be renamed.
CleanupDue ==
  /\ pc \notin {"connected"} \cup Finishing => "uninstall" \in Due
  /\ pc \in {"ensure", "upload", "uploading"} => "staging" \in Due
  /\ pc \in {"disarm", "stream", "stopped", "sync", "complete"} \cup (AfterMark \ Ending) =>
       "output" \in Due
  /\ host.patched # "absent" =>
       /\ pc \in {"patching", "pushPatched"} \/ "patched" \in Due
       /\ pc = "patching" \/ "patched" \in known
  /\ device.staging # "absent" =>
       opt.noCleanup \/ "staging" \in Due \/ outcome["staging"] = "failed"
  /\ {"want", "path"} \subseteq known =>
       device.app = "absent" \/ "uninstall" \in Due \/ outcome["uninstall"] = "failed"
  /\ host.out = "partial" =>
       \/ pc \in {"pushProvisional", "pushOutput"}
       \/ "output" \in Due
       \/ "provisional" \in Due /\ "armed" \in known
  /\ ~KeepDesktop /\ "delivered" \in known => host.out = "absent" \/ "output" \in Due
  /\ pc # "cleaning" => host.tmp = IF "unrenamed" \in known THEN "whole" ELSE "absent"
  /\ "unrenamed" \in known => pc \in Ending

CleanInv == ~Interrupted => MainAlone /\ OutputWhole /\ CleanupDue

\* A step of the handler: before the drain, and it forgets no cleanup.
LEMMA HandlerKeepsDue ==
  TypeOK /\ Handler => /\ proc = "running" /\ UNCHANGED sys
                       /\ pc \notin Finishing /\ pc' \notin Finishing
                       /\ Due \subseteq Due'
<1> SUFFICES ASSUME TypeOK, Handler PROVE /\ proc = "running" /\ pc \notin Finishing
                                          /\ pc' \notin Finishing /\ Due \subseteq Due'
  BY HandlerKeepsStack DEF HandlerEffect
<1>1. Due \subseteq Due'
  <2>1. UNCHANGED <<fns, at>>
    BY HandlerKeepsStack DEF HandlerEffect, sys
  <2>2. Items(stack) \subseteq Items(stack')
    <3>1. CASE stack' = stack
      BY <3>1
    <3>2. ASSUME NEW c \in Cleanup, stack' = Append(stack, c) PROVE Items(stack) \subseteq Items(stack')
      BY <3>2 DEF Items, TypeOK
    <3> QED
      BY <3>1, <3>2, HandlerKeepsStack DEF HandlerEffect
  <2>3. Todo("main")' = Todo("main")
    BY <2>1 DEF Todo
  <2> QED
    BY <2>2, <2>3 DEF Due
<1>2. proc = "running" /\ pc \notin Finishing /\ pc' \notin Finishing
  BY DEF Handler, Finishing, Main, GiveUp, RemoteGiveUp, RemoteStep, RegisterUninstall, Probe,
     ChooseInstalled, ChooseStoreKit, ChooseSource, StoreKitInstall, PatchBegin, PatchEnd,
     RegisterPatched, Plan, RegisterStaging, EnsureInstalled, UploadBegin, UploadEnd, Install,
     Rescan, DecideUninstall, NameUninstallPath, WorkingPath, RegisterProvisional, MakeDirs,
     OpenOutput, RegisterOutput, DisarmProvisional, Stream, CopyStops, StoppedCopyEnds,
     SyncOutput, MarkComplete, CleanBegin, CleanEnd, Verify, DeliverBegin, DeliverEnd, MarkDelivered, StopNotify
<1> QED
  BY <1>1, <1>2

\* What a push registers is due.
LEMMA PushIsDue ==
  ASSUME TypeOK, NEW c \in Cleanup, Push(c), UNCHANGED sys PROVE c \in Due'
<1>1. stack' = Append(stack, c) /\ stack \in Seq(Cleanup)
  BY DEF Push, TypeOK
<1>2. Len(stack') = Len(stack) + 1 /\ stack'[Len(stack) + 1] = c /\ Len(stack) \in Nat
  BY <1>1
<1>3. Len(stack) + 1 \in 1..Len(stack')
  BY <1>2
<1> QED
  BY <1>2, <1>3 DEF Due, Items

\* The handler keeps the output whole from the end of the stream on.
LEMMA HandlerKeepsOutput ==
  ASSUME TypeOK, MainAlone, OutputWhole, OutputInv, Handler PROVE OutputWhole'
<1>0. host \in HostType /\ pc \notin Finishing /\ peek["main"] = "none" /\ UNCHANGED sys
  BY HandlerKeepsDue DEF TypeOK, MainAlone
<1>k. UNCHANGED opt
  BY <1>0 DEF sys
<1> USE <1>0, <1>k DEF HostType, File, OutputWhole, OutputInv, Finishing, Ending, AfterMark,
    Delivering,
        BeforeProvisional, BeforeStaging, BeforePatched, KeepDesktop,
        Main, GiveUp, RemoteGiveUp, RemoteStep, sys
<1>1. CASE RegisterUninstall \/ RegisterPatched \/ RegisterStaging
  BY <1>1 DEF RegisterUninstall, RegisterPatched, RegisterStaging
<1>2. CASE Probe \/ Plan
  BY <1>2 DEF Probe, Plan
<1>3. CASE ChooseInstalled \/ ChooseStoreKit
  BY <1>3 DEF ChooseInstalled, ChooseStoreKit
<1>4. CASE ChooseSource
  BY <1>4 DEF ChooseSource
<1>5. CASE EnsureInstalled \/ MakeDirs
  BY <1>5 DEF EnsureInstalled, MakeDirs
<1>6. CASE StoreKitInstall
  BY <1>6 DEF StoreKitInstall
<1>7. CASE Install
  BY <1>7 DEF Install
<1>8. CASE PatchBegin
  BY <1>8 DEF PatchBegin
<1>9. CASE PatchEnd
  BY <1>9 DEF PatchEnd
<1>10. CASE UploadBegin
  BY <1>10 DEF UploadBegin
<1>11. CASE UploadEnd
  BY <1>11 DEF UploadEnd
<1>12. CASE Rescan
  BY <1>12 DEF Rescan
<1>13. CASE DecideUninstall \/ NameUninstallPath
  BY <1>13 DEF DecideUninstall, NameUninstallPath
<1>14. CASE WorkingPath
  BY <1>14 DEF WorkingPath
<1>15. CASE RegisterProvisional
  BY <1>15 DEF RegisterProvisional
<1>16. CASE OpenOutput
  BY <1>16 DEF OpenOutput
<1>17. CASE RegisterOutput
  BY <1>17 DEF RegisterOutput
<1>18. CASE DisarmProvisional
  BY <1>18 DEF DisarmProvisional
<1>19. CASE Stream
  BY <1>19 DEF Stream
<1>20. CASE SyncOutput \/ StopNotify
  BY <1>20 DEF SyncOutput, StopNotify
<1>21. CASE MarkComplete
  BY <1>21 DEF MarkComplete
<1>22. CASE CleanBegin
  BY <1>22 DEF CleanBegin
<1>23. CASE CleanEnd
  BY <1>23 DEF CleanEnd
<1>24. CASE Verify
  BY <1>24 DEF Verify
<1>25. CASE DeliverBegin
  BY <1>25 DEF DeliverBegin
<1>26. CASE DeliverEnd
  BY <1>26 DEF DeliverEnd
<1>27. CASE MarkDelivered
  BY <1>27 DEF MarkDelivered
<1>28. CASE CopyStops \/ StoppedCopyEnds
  BY <1>28 DEF CopyStops, StoppedCopyEnds
<1> QED
  BY <1>1, <1>2, <1>3, <1>4, <1>5, <1>6, <1>7, <1>8, <1>9, <1>10, <1>11, <1>12, <1>13, <1>14,
     <1>15, <1>16, <1>17, <1>18, <1>19, <1>20, <1>21, <1>22, <1>23, <1>24, <1>25, <1>26,
     <1>27, <1>28 DEF Handler

\* The handler leaves nothing behind whose cleanup is not due.
LEMMA HandlerCleansUp ==
  ASSUME TypeOK, MainAlone, OutputWhole, OutputInv, CopyInv, CleanupDue, Handler PROVE CleanupDue'
<1>0. /\ host \in HostType /\ device \in DeviceType
      /\ pc \notin Finishing /\ pc' \notin Finishing /\ Due \subseteq Due' /\ UNCHANGED sys
  BY HandlerKeepsDue DEF TypeOK
<1>k. UNCHANGED <<opt, outcome>>
  BY <1>0 DEF sys
<1>p. \A c \in Cleanup : Push(c) => c \in Due'
  BY <1>0, PushIsDue
<1> USE <1>0, <1>k, <1>p DEF HostType, DeviceType, File, Cleanup, OutputWhole, OutputInv,
    CopyInv, CleanupDue,
        Finishing, Ending, AfterMark, Delivering, BeforeProvisional, BeforeStaging, BeforePatched,
        KeepDesktop, Reachable, Main, GiveUp, RemoteGiveUp, RemoteStep
<1>1. CASE RegisterUninstall \/ RegisterPatched \/ RegisterStaging
  BY <1>1 DEF RegisterUninstall, RegisterPatched, RegisterStaging
<1>2. CASE Probe \/ Plan
  BY <1>2 DEF Probe, Plan
<1>3. CASE ChooseInstalled \/ ChooseStoreKit
  BY <1>3 DEF ChooseInstalled, ChooseStoreKit
<1>4. CASE ChooseSource
  BY <1>4 DEF ChooseSource
<1>5. CASE EnsureInstalled \/ MakeDirs
  BY <1>5 DEF EnsureInstalled, MakeDirs
<1>6. CASE StoreKitInstall
  BY <1>6 DEF StoreKitInstall
<1>7. CASE Install
  BY <1>7 DEF Install
<1>8. CASE PatchBegin
  BY <1>8 DEF PatchBegin
<1>9. CASE PatchEnd
  BY <1>9 DEF PatchEnd
<1>10. CASE UploadBegin
  BY <1>10 DEF UploadBegin
<1>11. CASE UploadEnd
  BY <1>11 DEF UploadEnd
<1>12. CASE Rescan
  BY <1>12 DEF Rescan
<1>13. CASE DecideUninstall \/ NameUninstallPath
  BY <1>13 DEF DecideUninstall, NameUninstallPath
<1>14. CASE WorkingPath
  BY <1>14 DEF WorkingPath
<1>15. CASE RegisterProvisional
  BY <1>15 DEF RegisterProvisional
<1>16. CASE OpenOutput
  BY <1>16 DEF OpenOutput
<1>17. CASE RegisterOutput
  BY <1>17 DEF RegisterOutput
<1>18. CASE DisarmProvisional
  BY <1>18 DEF DisarmProvisional
<1>19. CASE Stream
  BY <1>19 DEF Stream
<1>20. CASE SyncOutput \/ StopNotify
  BY <1>20 DEF SyncOutput, StopNotify
<1>21. CASE MarkComplete
  BY <1>21 DEF MarkComplete
<1>22. CASE CleanBegin
  BY <1>22 DEF CleanBegin
<1>23. CASE CleanEnd
  BY <1>23 DEF CleanEnd
<1>24. CASE Verify
  BY <1>24 DEF Verify
<1>25. CASE DeliverBegin
  BY <1>25 DEF DeliverBegin
<1>26. CASE DeliverEnd
  BY <1>26 DEF DeliverEnd
<1>27. CASE MarkDelivered
  BY <1>27 DEF MarkDelivered
<1>28. CASE CopyStops \/ StoppedCopyEnds
  BY <1>28 DEF CopyStops, StoppedCopyEnds
<1> QED
  BY <1>1, <1>2, <1>3, <1>4, <1>5, <1>6, <1>7, <1>8, <1>9, <1>10, <1>11, <1>12, <1>13, <1>14,
     <1>15, <1>16, <1>17, <1>18, <1>19, <1>20, <1>21, <1>22, <1>23, <1>24, <1>25, <1>26,
     <1>27, <1>28 DEF Handler

\* Main finishes a cleanup: all else stays due.
LEMMA FinishKeepsDue ==
  ASSUME TypeOK, UNCHANGED <<stack, fns>>, at["main"] > 0, at' = [at EXCEPT !["main"] = @ - 1]
  PROVE  \A c \in Due : c \in Due' \/ c = Current("main")
<1>1. Items(stack') = Items(stack)
  BY DEF Items
<1>2. at["main"] \in Nat /\ at'["main"] = at["main"] - 1
  BY DEF TypeOK, Runner
<1>3. ASSUME NEW c \in Todo("main"), c # Current("main") PROVE c \in Todo("main")'
  <2>1. PICK i \in 1..at["main"] : c = fns["main"][i]
    BY DEF Todo
  <2>2. i \in 1..at'["main"]
    BY <1>2, <1>3, <2>1 DEF Current
  <2> QED
    BY <2>1, <2>2 DEF Todo
<1> QED
  BY <1>1, <1>3 DEF Due

\* Each closure removes what it is about, or records that it could not.
LEMMA CleanupKeepsClean ==
  ASSUME TypeOK, MainAlone, OutputWhole, CleanupDue, OutputInv, CopyInv, CleanupStep("main")
  PROVE  MainAlone' /\ OutputWhole' /\ CleanupDue'
<1>0. /\ device \in DeviceType /\ host \in HostType
      /\ outcome \in [Cleanup -> {"pending", "done", "failed"}]
      /\ peek \in [Runner -> {"none", "abandon", "keep", "dispose"}] /\ at \in [Runner -> Nat]
  BY DEF TypeOK
<1>1. pc = "drain" /\ proc = "running" /\ at["main"] > 0
  BY DEF CleanupStep, CloseSession, RunUninstall, RemovePatched, RemoveStaging, RemoveProvisional,
     CloseOutput, SettleOutput, Running, Draining
<1>2. UNCHANGED <<opt, pc, sg, proc, stack, fns>>
  BY DEF CleanupStep, CloseSession, RunUninstall, RemovePatched, RemoveStaging, RemoveProvisional,
     CloseOutput, SettleOutput, Finish
<1>3. MainAlone'
  BY <1>1, <1>2 DEF MainAlone, Finishing
<1>4. at' = [at EXCEPT !["main"] = @ - 1] => \A c \in Due : c \in Due' \/ c = Current("main")
  BY <1>1, <1>2, FinishKeepsDue
<1> USE <1>0, <1>1, <1>2, <1>4 DEF DeviceType, HostType, File, Cleanup, Runner, OutputWhole,
    CleanupDue,
        OutputInv, CopyInv, KeepDesktop, Finishing, BeforeProvisional, BeforeStaging, BeforePatched,
        AfterMark, Ending, Delivering, Running, Finish
<1>5. CASE CloseSession("main")
  BY <1>3, <1>5 DEF CloseSession
<1>6. CASE RunUninstall("main")
  BY <1>3, <1>6 DEF RunUninstall
<1>7. CASE RemovePatched("main")
  BY <1>3, <1>7 DEF RemovePatched
<1>8. CASE RemoveStaging("main")
  BY <1>3, <1>8 DEF RemoveStaging
<1>9. CASE RemoveProvisional("main")
  BY <1>3, <1>9 DEF RemoveProvisional
<1>10. CASE CloseOutput("main")
  <2>1. Due' = Due
    BY <1>10 DEF CloseOutput, Due, Todo
  <2> QED
    BY <1>3, <1>10, <2>1 DEF CloseOutput
<1>11. CASE SettleOutput("main")
  BY <1>3, <1>11 DEF SettleOutput
<1> QED
  BY <1>5, <1>6, <1>7, <1>8, <1>9, <1>10, <1>11 DEF CleanupStep

\* Main takes the whole list: nothing that was due is lost.
LEMMA TakeKeepsClean ==
  ASSUME TypeOK, MainAlone, OutputWhole, CleanupDue, MainTakes
  PROVE  MainAlone' /\ OutputWhole' /\ CleanupDue'
<1>1. /\ pc = "swap" /\ pc' = "drain" /\ proc = "running" /\ stack' = <<>>
      /\ UNCHANGED <<opt, sg, proc, host, device, known, peek, outcome>>
  BY DEF MainTakes, Take
<1>2. fns'["main"] = stack /\ at'["main"] = Len(stack) /\ at["main"] = 0
  BY <1>1 DEF MainTakes, Take, TypeOK, Runner, MainAlone, Finishing
<1>3. Due' = Due
  BY <1>1, <1>2 DEF Due, Items, Todo
<1>4. MainAlone'
  BY <1>1 DEF MainAlone, Finishing
<1>5. OutputWhole'
  BY <1>1 DEF OutputWhole, MainAlone, KeepDesktop, Finishing, BeforeProvisional, BeforeStaging,
     BeforePatched, AfterMark, Ending, Delivering
<1>6. CleanupDue'
  BY <1>1, <1>3 DEF CleanupDue, KeepDesktop, Finishing, AfterMark, Ending, Delivering
<1> QED
  BY <1>4, <1>5, <1>6

\* A run not interrupted after a step was not interrupted before it.
LEMMA InterruptsStay == TypeOK /\ [Next]_vars /\ ~Interrupted' => ~Interrupted
<1> SUFFICES ASSUME TypeOK, [Next]_vars PROVE sigints' = sigints \/ sigints' = sigints + 1
  BY DEF Interrupted, TypeOK
<1>1. CASE Handler
  BY <1>1, HandlerKeepsDue DEF sys
<1>2. ASSUME NEW r \in Runner, CleanupStep(r) PROVE sigints' = sigints
  BY <1>2 DEF CleanupStep, CloseSession, RunUninstall, RemovePatched, RemoveStaging,
     RemoveProvisional, CloseOutput, SettleOutput, Finish
<1>3. CASE MainTakes \/ MainExits \/ SignalReset \/ SignalTakes \/ SignalExits \/ Network
  BY <1>3 DEF MainTakes, MainExits, SignalReset, SignalTakes, SignalExits, Network
<1>4. CASE Interrupt \/ UNCHANGED vars
  BY <1>4 DEF Interrupt, vars
<1> QED
  BY <1>1, <1>2, <1>3, <1>4 DEF Next, MainNext, SignalNext, Runner

(* CleanInv is inductive relative to TypeOK and DataInv.                    *)
LEMMA CleanStep == TypeOK /\ DataInv /\ CleanInv /\ [Next]_vars => CleanInv'
<1> SUFFICES ASSUME TypeOK, DataInv, CleanInv, [Next]_vars, ~Interrupted'
             PROVE  MainAlone' /\ OutputWhole' /\ CleanupDue'
  BY DEF CleanInv
<1>1. OutputInv /\ CopyInv
  BY DEF DataInv
<1>2. MainAlone /\ OutputWhole /\ CleanupDue
  BY InterruptsStay DEF CleanInv
<1>3. CASE Handler
  <2>1. MainAlone'
    BY <1>2, <1>3, HandlerKeepsDue DEF MainAlone, sys
  <2> QED
    BY <1>1, <1>2, <1>3, <2>1, HandlerKeepsOutput, HandlerCleansUp
<1>4. CASE MainTakes
  BY <1>2, <1>4, TakeKeepsClean
<1>5. CASE CleanupStep("main")
  BY <1>1, <1>2, <1>5, CleanupKeepsClean
<1>6. CASE MainExits
  <2>1. /\ pc = "drain" /\ pc' = "exited" /\ proc' = "exit0" /\ at["main"] = 0
        /\ UNCHANGED <<opt, sg, host, device, known, stack, fns, at, peek, outcome>>
    BY <1>6 DEF MainExits
  <2>2. Due' = Due
    BY <2>1 DEF Due, Items, Todo
  <2> QED
    BY <1>2, <2>1, <2>2 DEF MainAlone, OutputWhole, CleanupDue, KeepDesktop, Finishing,
       BeforeProvisional, BeforeStaging, BeforePatched, AfterMark, Ending, Delivering
<1>7. CASE SignalNext \/ Interrupt
  BY <1>2, <1>7 DEF MainAlone, TypeOK, Interrupted, SignalNext, SignalReset, SignalTakes,
     SignalExits, Interrupt,
     CleanupStep, CloseSession, RunUninstall, RemovePatched, RemoveStaging, RemoveProvisional,
     CloseOutput, SettleOutput, Running, Draining
<1>8. CASE Network \/ UNCHANGED vars
  <2>1. /\ UNCHANGED <<opt, pc, sg, proc, host, known, stack, fns, at, peek, outcome>>
        /\ device'.app = device.app /\ device'.staging = device.staging /\ device'.copy = device.copy
    BY <1>8 DEF Network, vars, TypeOK, DeviceType
  <2>2. Due' = Due
    BY <2>1 DEF Due, Items, Todo
  <2> QED
    BY <1>2, <2>1, <2>2 DEF MainAlone, OutputWhole, CleanupDue, KeepDesktop
<1> QED
  BY <1>3, <1>4, <1>5, <1>6, <1>7, <1>8 DEF Next, MainNext

\* It holds when nothing has been made yet.
LEMMA CleanInit == Init => CleanInv
<1> SUFFICES ASSUME Init PROVE MainAlone /\ OutputWhole /\ CleanupDue
  BY DEF CleanInv
<1>1. /\ pc = "connected" /\ sg = "idle" /\ proc = "running" /\ known = {}
      /\ host.out = "absent" /\ host.patched = "absent" /\ host.tmp = "absent"
      /\ device.staging = "absent"
      /\ at["main"] = 0 /\ peek["main"] = "none"
  BY DEF Init, Runner
<1> QED
  BY <1>1 DEF MainAlone, OutputWhole, CleanupDue, KeepDesktop, Finishing, AfterMark, Ending,
     Delivering

(* A run nobody interrupts keeps its complete IPA somewhere, and ends with   *)
(* no scratch file but the ones the property names: on the device where the  *)
(* removal failed, and the rewrite whose rename failed.                      *)
THEOREM CleanWhenUninterrupted == Spec => []UninterruptedRunIsClean
<1>1. TypeOK /\ CleanInv => UninterruptedRunIsClean
  <2> SUFFICES ASSUME TypeOK, ~Interrupted, MainAlone, OutputWhole, CleanupDue
               PROVE  UninterruptedRunIsClean
    BY DEF CleanInv, UninterruptedRunIsClean
  <2>1. proc = "exit0" => Due = {} /\ pc = "exited" /\ stack = <<>>
    BY DEF MainAlone, Finishing, Due, Items, Todo
  <2> QED
    BY <2>1 DEF UninterruptedRunIsClean, OutputWhole, CleanupDue, Finishing
<1> QED
  BY <1>1, DataAlways, CleanInit, CleanStep, PTL DEF Spec

-----------------------------------------------------------------------------
(* --force-uninstall, where the program decides about it.                   *)

\* Only the StoreKit route skips decideUninstall; on the others the flag is honoured.
ForceHonouredElsewhere == opt.route # "storekit" => ForceUninstallHonoured

\* From the working output on, the handler has decided and knows what to uninstall.
Working ==
  {"workpath", "pushProvisional", "mkdir", "open", "pushOutput", "disarm", "stream", "stopped",
   "sync", "complete"}

Decided ==
  opt.route # "storekit" /\ opt.uninstall = "force" =>
    /\ pc # "storekit"
    /\ pc = "pathUninstall" => "want" \in known
    /\ pc \in Working \/ "completed" \in known => {"want", "path"} \subseteq known

\* How a step of the handler gets to a label of the decision, and what it forgets.
HandlerDecides ==
  /\ opt' = opt
  /\ known \ {"armed"} \subseteq known'
  /\ "completed" \in known' => "completed" \in known \/ pc = "complete"
  /\ pc' = "storekit" => opt.route = "storekit"
  /\ pc' = "pathUninstall" => (opt.uninstall = "force" => "want" \in known')
  /\ pc' \in Working =>
       \/ pc \in Working \cup {"storekit"}
       \/ pc = "pathUninstall" /\ "path" \in known'

\* Every step of the handler is like that.
LEMMA HandlerIsDecided == Handler => HandlerDecides
<1> SUFFICES ASSUME Handler PROVE HandlerDecides
  OBVIOUS
<1> USE DEF HandlerDecides, Working, Main, sys, GiveUp, RemoteGiveUp, RemoteStep
<1>1. CASE \/ RegisterUninstall \/ Probe \/ ChooseInstalled \/ ChooseStoreKit \/ ChooseSource
           \/ StoreKitInstall \/ PatchBegin \/ PatchEnd \/ RegisterPatched \/ Plan
  BY <1>1 DEF RegisterUninstall, Probe, ChooseInstalled, ChooseStoreKit, ChooseSource,
     StoreKitInstall, PatchBegin, PatchEnd, RegisterPatched, Plan
<1>2. CASE \/ RegisterStaging \/ EnsureInstalled \/ UploadBegin \/ UploadEnd \/ Install
           \/ Rescan \/ DecideUninstall \/ NameUninstallPath
  BY <1>2 DEF RegisterStaging, EnsureInstalled, UploadBegin, UploadEnd, Install, Rescan,
     DecideUninstall, NameUninstallPath
<1>3. CASE \/ WorkingPath \/ RegisterProvisional \/ MakeDirs \/ OpenOutput \/ RegisterOutput
           \/ DisarmProvisional \/ Stream \/ CopyStops \/ StoppedCopyEnds \/ SyncOutput
           \/ MarkComplete
  BY <1>3 DEF WorkingPath, RegisterProvisional, MakeDirs, OpenOutput, RegisterOutput,
     DisarmProvisional, Stream, CopyStops, StoppedCopyEnds, SyncOutput, MarkComplete
<1>4. CASE \/ CleanBegin \/ CleanEnd \/ Verify \/ DeliverBegin \/ DeliverEnd \/ MarkDelivered
           \/ StopNotify
  BY <1>4 DEF CleanBegin, CleanEnd, Verify, DeliverBegin, DeliverEnd, MarkDelivered, StopNotify
<1> QED
  BY <1>1, <1>2, <1>3, <1>4 DEF Handler

\* The decision is kept: the drains and the environment forget nothing of it.
LEMMA DecidedStep == TypeOK /\ Decided /\ [Next]_vars => Decided'
<1> SUFFICES ASSUME TypeOK, Decided, [Next]_vars PROVE Decided'
  OBVIOUS
<1>1. CASE Handler
  <2>1. HandlerDecides
    BY <1>1, HandlerIsDecided
  <2>2. SUFFICES ASSUME opt.route # "storekit", opt.uninstall = "force"
                 PROVE  /\ pc' # "storekit"
                        /\ pc' = "pathUninstall" => "want" \in known'
                        /\ pc' \in Working \/ "completed" \in known' =>
                             {"want", "path"} \subseteq known'
    BY <2>1 DEF Decided, HandlerDecides
  <2>3. pc # "storekit" /\ (pc = "pathUninstall" => "want" \in known)
        /\ (pc \in Working \/ "completed" \in known => {"want", "path"} \subseteq known)
    BY <2>2 DEF Decided
  <2>4. pc' # "storekit" /\ (pc' = "pathUninstall" => "want" \in known')
    BY <2>1, <2>2 DEF HandlerDecides
  <2>5. {"want", "path"} \subseteq known => {"want", "path"} \subseteq known'
    BY <2>1 DEF HandlerDecides
  <2>6. "completed" \in known' => {"want", "path"} \subseteq known
    BY <2>1, <2>3 DEF HandlerDecides, Working
  <2>7. pc' \in Working => {"want", "path"} \subseteq known'
    <3>1. CASE pc \in Working
      BY <2>3, <2>5, <3>1
    <3>2. CASE pc = "pathUninstall" /\ "path" \in known'
      BY <2>1, <2>3, <3>2 DEF HandlerDecides
    <3> QED
      BY <2>1, <2>3, <3>1, <3>2 DEF HandlerDecides
  <2> QED
    BY <2>4, <2>5, <2>6, <2>7
<1>2. CASE ~Handler
  <2>1. opt' = opt /\ known' \in {known, known \ {"armed"}}
        /\ (pc' = pc \/ pc' \in {"drain", "exited"})
    BY <1>2 DEF Next, MainNext, SignalNext, MainTakes, MainExits, SignalReset, SignalTakes,
       SignalExits, Interrupt, Network, vars, CleanupStep, CloseSession, RunUninstall,
       RemovePatched, RemoveStaging, RemoveProvisional, CloseOutput, SettleOutput, Finish
  <2> QED
    BY <2>1 DEF Decided, Working
<1> QED
  BY <1>1, <1>2

\* ForceHonouredElsewhere: after a whole run nobody interrupts, --force-uninstall has removed
\* the app, or tried to, unless the App Store installed it through StoreKit - the case in
\* which the run decrypt_force shows ForceUninstallHonoured violated.
THEOREM ForceHonouredOffStoreKit == Spec => []ForceHonouredElsewhere
<1>1. Init => Decided
  BY DEF Init, Decided, Working
<1>2. Decided /\ UninterruptedRunIsClean => ForceHonouredElsewhere
  BY DEF Decided, UninterruptedRunIsClean, ForceHonouredElsewhere, ForceUninstallHonoured
<1> QED
  BY <1>1, <1>2, DecidedStep, TypeCorrect, CleanWhenUninterrupted, PTL DEF Spec
=============================================================================
