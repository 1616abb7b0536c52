----------------------------- MODULE DecryptRun -----------------------------
(***************************************************************************)
(* One `ipadecrypt decrypt` process: decryptHandler and runDecryptOnBundle  *)
(* (cmd/ipadecrypt/decrypt.go), the cleanup stack they register on, and the *)
(* goroutine that answers SIGINT/SIGTERM by draining the same stack and     *)
(* calling os.Exit(130).                                                    *)
(*                                                                          *)
(* Two goroutines are interleaved: "main" walks the handler, "signal" wakes *)
(* up on the first interrupt.  They share the stack (under its mutex), the  *)
(* SSH session, the output file and the unlocked booleans the cleanup       *)
(* closures read.  File contents are abstracted to how complete they are.   *)
(***************************************************************************)
EXTENDS Naturals, Sequences, FiniteSets

CONSTANT Options    \* the flag combinations the process may be started with

Cleanup == {"session", "uninstall", "patched", "staging", "provisional", "output"}
Runner  == {"main", "signal"}

\* The flags and the saved keep policy that decide the run's control flow.
OptionType ==
  [keep: {"desktop", "device", "both"},        \* config.OutputKeep*
   route: {"source", "installed", "storekit"}, \* which build is decrypted
   fresh: BOOLEAN,                             \* --from-appstore
   uninstall: {"default", "force", "no"},      \* --force-/--no-uninstall
   noCleanup: BOOLEAN, strip: BOOLEAN, noVerify: BOOLEAN]

ASSUME OptionsAssumption == Options \subseteq OptionType

VARIABLES
  opt,      \* the chosen flags; never change
  pc,       \* where the main goroutine is
  sg,       \* the signal goroutine: idle, caught, reset, drain
  proc,     \* running, exit0, exit130, killed
  sigints,  \* interrupts delivered so far (counted up to 2)
  host,     \* the files on this machine and the output file descriptor
  device,   \* the SSH session and what the device holds
  known,    \* the facts the handler's local variables hold for closures and later code
  stack,    \* cleanupStack.fns
  fns, at,  \* per runner: the list it took in run() and the next index
  peek,     \* per runner: what the output closure decided after reading completed
  outcome   \* history: what became of each registered cleanup

sys  == <<opt, sg, proc, sigints, fns, at, peek, outcome>>
vars == <<opt, pc, sg, proc, sigints, host, device, known, stack, fns, at, peek, outcome>>

File == {"absent", "partial", "whole"}
HostType ==
  [patched: File, out: File, tmp: File,
   fd: {"none", "open", "closed"}, code: {"none", "encrypted", "decrypted"}]
DeviceType ==
  [session: {"open", "stalled", "lost", "closed"},
   app: {"absent", "theirs", "ours"}, staging: File, copy: File]
\* want, path: uninstall and uninstallBundlePath are set; installed: this run
\* installed or replaced the app; armed: the provisional cleanup; patched: a patched
\* IPA is uploaded; completed, delivered: localOutputComplete and -Delivered; source:
\* srcIPAPath is set.  History: unrenamed, the cleaned IPA could not be renamed.
Fact ==
  {"want", "path", "installed", "armed", "patched", "completed", "delivered", "source",
   "unrenamed"}

Label ==
  {"connected", "probe", "choose", "storekit", "patch", "patching", "pushPatched",
   "plan", "pushStaging", "ensure", "upload", "uploading", "install", "rescan",
   "wantUninstall", "pathUninstall", "workpath", "pushProvisional", "mkdir", "open",
   "pushOutput", "disarm", "stream", "stopped", "sync", "complete", "clean", "cleaning",
   "verify", "deliver", "delivering", "delivered", "stop", "swap", "drain", "exited"}

KeepDesktop == opt.keep \in {"desktop", "both"}
KeepDevice  == opt.keep \in {"device", "both"}

Init ==
  /\ opt \in Options
  /\ pc = "connected"
  /\ sg = "idle"
  /\ proc = "running"
  /\ sigints = 0
  /\ host = [patched |-> "absent", out |-> "absent", tmp |-> "absent",
             fd |-> "none", code |-> "none"]
  /\ \E a \in {"absent", "theirs"} :
       device = [session |-> "open", app |-> a, staging |-> "absent", copy |-> "absent"]
  /\ known = {}
  /\ stack = <<"session">>
  /\ fns = [r \in Runner |-> <<>>]
  /\ at = [r \in Runner |-> 0]
  /\ peek = [r \in Runner |-> "none"]
  /\ outcome = [c \in Cleanup |-> "pending"]

-----------------------------------------------------------------------------
(* Helpers of the main goroutine.                                           *)

Main(from, to) ==
  /\ proc = "running"
  /\ pc = from
  /\ pc' = to
  /\ UNCHANGED sys

\* Mutant: registers at the wrong end of the list.
MutPush(c) == stack' = <<c>> \o stack

Push(c) == stack' = Append(stack, c)

\* Local work of the handler that may fail: `return` leads to the deferred calls.
GiveUp(from) == Main(from, "stop") /\ UNCHANGED <<host, device, known, stack>>

Reachable == device.session = "open"
\* A remote call on a stalled connection does not return; on a lost or closed
\* one it fails, and it may fail for its own reasons on an open one.
CallFails == device.session # "stalled"

RemoteGiveUp(from) == CallFails /\ GiveUp(from)
RemoteStep(from, to) ==
  \/ Reachable /\ Main(from, to) /\ UNCHANGED <<host, device, known, stack>>
  \/ RemoteGiveUp(from)

-----------------------------------------------------------------------------
(* decryptHandler: reach the device and put the right build on it.          *)

RegisterUninstall ==
  /\ Main("connected", "probe")
  /\ Push("uninstall")
  /\ UNCHANGED <<host, device, known>>

Probe == RemoteStep("probe", "choose")

\* Which build: --use-installed / menu entry 0, StoreKit, or a source IPA, acquired
\* (local file, cache or download) before "patch".  Here the handler waits for the
\* user at its menus and for the App Store's answers, both without a limit.
ChooseInstalled ==
  /\ opt.route = "installed"
  /\ device.app # "absent"
  /\ RemoteStep("choose", "wantUninstall")

ChooseStoreKit == opt.route = "storekit" /\ RemoteStep("choose", "storekit")

ChooseSource ==
  /\ opt.route = "source" \/ (opt.route = "installed" /\ device.app = "absent")
  /\ \/ /\ Main("choose", "patch")
        /\ known' = known \cup {"source"}
        /\ UNCHANGED <<host, device, stack>>
     \/ GiveUp("choose")

\* runStoreKitInstall, then re-resolve the bundle and ensure the helper.  The App
\* Store may have replaced the app, or not, whether the run succeeds or gives up.
StoreKitInstall ==
  /\ CallFails
  /\ UNCHANGED <<host, known, stack>>
  /\ \E a \in {device.app, "ours"} :
       /\ device' = [device EXCEPT !.app = a]
       /\ \/ Reachable /\ a # "absent" /\ Main("storekit", "workpath")
          \/ Main("storekit", "stop")

\* patchSourceForDevice writes a fresh temporary IPA and deletes it again when
\* patching failed or changed nothing.
PatchBegin ==
  \/ /\ Main("patch", "patching")
     /\ host' = [host EXCEPT !.patched = "partial"]
     /\ UNCHANGED <<device, known, stack>>
  \/ GiveUp("patch")

PatchEnd ==
  /\ UNCHANGED <<device, stack>>
  /\ \/ /\ Main("patching", "pushPatched")
        /\ host' = [host EXCEPT !.patched = "whole"]
        /\ known' = known \cup {"patched"}
     \/ /\ Main("patching", "pushPatched") \/ Main("patching", "stop")
        /\ host' = [host EXCEPT !.patched = "absent"]
        /\ UNCHANGED known

RegisterPatched ==
  /\ Main("pushPatched", "plan")
  /\ Push("patched")
  /\ UNCHANGED <<host, device, known>>

\* buildInstallPlan: helper, appinst, and a scan for the installed bundle.
Plan == RemoteStep("plan", "pushStaging")

RegisterStaging ==
  /\ Main("pushStaging", "ensure")
  /\ Push("staging")
  /\ UNCHANGED <<host, device, known>>

\* ensureInstalledBundle: an installed app whose main executable hashes like the
\* IPA's is reused unless --from-appstore; otherwise the IPA is installed over it.
EnsureInstalled ==
  \/ /\ Reachable
     /\ \/ /\ device.app # "absent"
           /\ ~opt.fresh
           /\ Main("ensure", "wantUninstall")
        \/ Main("ensure", "upload")
     /\ UNCHANGED <<host, device, known, stack>>
  \/ RemoteGiveUp("ensure")

\* dev.Upload to the staging path; a failed copy is removed if the session lives.
UploadBegin ==
  \/ /\ Reachable
     /\ "patched" \in known => host.patched # "absent"
     /\ Main("upload", "uploading")
     /\ device' = [device EXCEPT !.staging = "partial"]
     /\ UNCHANGED <<host, known, stack>>
  \/ RemoteGiveUp("upload")

UploadEnd ==
  /\ CallFails
  /\ UNCHANGED <<host, known, stack>>
  /\ \/ /\ Reachable
        /\ Main("uploading", "install")
        /\ device' = [device EXCEPT !.staging = "whole"]
     \/ /\ Main("uploading", "stop")
        /\ device' = [device EXCEPT !.staging = IF Reachable THEN "absent" ELSE @]

\* appinst, with its sudo fallback.  A call that reports failure may still have
\* installed the app (the connection died after the command was sent).
Install ==
  /\ CallFails
  /\ UNCHANGED <<host, known, stack>>
  /\ \/ /\ Reachable
        /\ Main("install", "rescan")
        /\ device' = [device EXCEPT !.app = "ours"]
     \/ /\ Main("install", "stop")
        /\ \E a \in {device.app, "ours"} : device' = [device EXCEPT !.app = a]

Rescan ==
  \/ /\ Reachable
     /\ device.app # "absent"
     /\ Main("rescan", "wantUninstall")
     /\ known' = known \cup {"installed"}
     /\ UNCHANGED <<host, device, stack>>
  \/ RemoteGiveUp("rescan")

\* Mutant: forgets who installed the app.
MutDecideUninstall ==
  /\ Main("wantUninstall", "pathUninstall")
  /\ known' = IF opt.uninstall # "no" THEN known \cup {"want"} ELSE known
  /\ UNCHANGED <<host, device, stack>>

\* decideUninstall; the closure reads both variables, assigned one at a time.
DecideUninstall ==
  /\ Main("wantUninstall", "pathUninstall")
  /\ known' = IF \/ opt.uninstall = "force"
                 \/ opt.uninstall # "no" /\ "installed" \in known
              THEN known \cup {"want"} ELSE known
  /\ UNCHANGED <<host, device, stack>>

NameUninstallPath ==
  /\ Main("pathUninstall", "workpath")
  /\ known' = known \cup {"path"}
  /\ UNCHANGED <<host, device, stack>>

-----------------------------------------------------------------------------
(* runDecryptOnBundle.                                                      *)

\* decryptWorkingOutputPath: the final name, or a fresh (empty) temporary file.
WorkingPath ==
  \/ /\ Main("workpath", "pushProvisional")
     /\ host' = [host EXCEPT !.out = IF KeepDesktop THEN @ ELSE "partial"]
     /\ UNCHANGED <<device, known, stack>>
  \/ GiveUp("workpath")

RegisterProvisional ==
  /\ Main("pushProvisional", "mkdir")
  /\ UNCHANGED <<host, device>>
  /\ IF KeepDesktop
     THEN UNCHANGED <<known, stack>>
     ELSE Push("provisional") /\ known' = known \cup {"armed"}

MakeDirs ==
  IF KeepDevice
  THEN RemoteStep("mkdir", "open")
  ELSE \/ Main("mkdir", "open") /\ UNCHANGED <<host, device, known, stack>>
       \/ GiveUp("mkdir")

\* O_CREATE|O_TRUNC on the final name.
OpenOutput ==
  \/ /\ Main("open", "pushOutput")
     /\ host' = [host EXCEPT !.out = "partial", !.fd = "open"]
     /\ UNCHANGED <<device, known, stack>>
  \/ GiveUp("open")

RegisterOutput ==
  /\ Main("pushOutput", "disarm")
  /\ Push("output")
  /\ UNCHANGED <<host, device, known>>

\* Mutant: the provisional cleanup stays armed after the hand-off.
MutDisarmProvisional == Main("disarm", "stream") /\ UNCHANGED <<host, device, known, stack>>

DisarmProvisional ==
  /\ Main("disarm", "stream")
  /\ known' = known \ {"armed"}
  /\ UNCHANGED <<host, device, stack>>

\* Assemble + RunHelperExecs, or RunHelper: the helper's stream ends with the
\* whole IPA in the file.  Whether every Mach-O in it is really decrypted is
\* only found out by verify.  Unlinked output is written to no name.  A local write
\* that fails ends Assemble's run too: RunHelperExecs drains what is left.
Stream ==
  \/ /\ Reachable
     /\ host.fd = "open"
     /\ Main("stream", "sync")
     /\ \E c \in {"encrypted", "decrypted"} :
          host' = [host EXCEPT !.out = IF @ = "absent" THEN @ ELSE "whole", !.code = c]
     /\ UNCHANGED <<device, known, stack>>
  \/ RemoteGiveUp("stream")

\* RunHelper has no such drain: when a local write fails, the copy of the helper's
\* output ends and sess.Run waits for a helper that nobody reads from ...
CopyStops ==
  /\ "source" \notin known
  /\ Reachable
  /\ Main("stream", "stopped")
  /\ UNCHANGED <<host, device, known, stack>>

\* ... until the connection ends (a helper with nothing left to write ends by itself,
\* which is Stream giving up).
StoppedCopyEnds == device.session \in {"lost", "closed"} /\ GiveUp("stopped")

SyncOutput ==
  \/ host.fd = "open" /\ Main("sync", "complete") /\ UNCHANGED <<host, device, known, stack>>
  \/ GiveUp("sync")

MarkComplete ==
  /\ Main("complete", "clean")
  /\ known' = known \cup {"completed"}
  /\ UNCHANGED <<host, device, stack>>

\* CleanupIPA rewrites through outLocal + ".tmp" and renames; nothing to strip
\* (or both keep flags) leaves the file alone.
CleanBegin ==
  \/ /\ opt.strip => host.out # "absent"
     /\ Main("clean", "verify")
     /\ UNCHANGED <<host, device, known, stack>>
  \/ /\ opt.strip
     /\ host.out # "absent"
     /\ Main("clean", "cleaning")
     /\ host' = [host EXCEPT !.tmp = "partial"]
     /\ UNCHANGED <<device, known, stack>>
  \/ opt.strip /\ GiveUp("clean")

CleanEnd ==
  /\ UNCHANGED <<device, stack>>
  /\ \/ /\ Main("cleaning", "verify")
        /\ host' = [host EXCEPT !.out = "whole", !.tmp = "absent"]
        /\ UNCHANGED known
     \/ /\ Main("cleaning", "stop")       \* a copy error removes the rewrite,
        /\ host' = [host EXCEPT !.tmp = "absent"]
        /\ UNCHANGED known
     \/ /\ Main("cleaning", "stop")       \* a rename error leaves it
        /\ host' = [host EXCEPT !.tmp = "whole"]
        /\ known' = known \cup {"unrenamed"}

\* Mutant: a failed verification is reported but not returned on.
MutVerify == Main("verify", "deliver") /\ UNCHANGED <<host, device, known, stack>>

Verify ==
  \/ /\ opt.noVerify \/ (host.out = "whole" /\ host.code = "decrypted")
     /\ Main("verify", "deliver")
     /\ UNCHANGED <<host, device, known, stack>>
  \/ ~opt.noVerify /\ GiveUp("verify")

\* Device copy: opened locally, then dev.Upload straight to the final name.
DeliverBegin ==
  \/ (~KeepDevice \/ host.out = "absent") /\ GiveUp("deliver")
  \/ /\ KeepDevice
     /\ \/ /\ Reachable
           /\ host.out = "whole"
           /\ Main("deliver", "delivering")
           /\ device' = [device EXCEPT !.copy = "partial"]
           /\ UNCHANGED <<host, known, stack>>
        \/ RemoteGiveUp("deliver")

DeliverEnd ==
  /\ CallFails
  /\ UNCHANGED <<host, known, stack>>
  /\ \/ /\ Reachable
        /\ \/ Main("delivering", "delivered")
           \/ Main("delivering", "stop")     \* closing the local file failed
        /\ device' = [device EXCEPT !.copy = "whole"]
     \/ /\ Main("delivering", "stop")
        /\ device' = [device EXCEPT !.copy = IF Reachable THEN "absent" ELSE @]

MarkDelivered ==
  /\ Main("delivered", "stop")
  /\ known' = known \cup {"delivered"}
  /\ UNCHANGED <<host, device, stack>>

-----------------------------------------------------------------------------
(* cleanupStack.run, executed by either goroutine.                          *)

\* Mutant: starts one past the end.
MutTakePastEnd(r) ==
  /\ fns' = [fns EXCEPT ![r] = stack]
  /\ at' = [at EXCEPT ![r] = Len(stack) + 1]
  /\ stack' = <<>>

\* Mutant: does not reset c.fns.
MutTakeKeeps(r) ==
  /\ fns' = [fns EXCEPT ![r] = stack]
  /\ at' = [at EXCEPT ![r] = Len(stack)]
  /\ UNCHANGED stack

\* fns := c.fns; c.fns = nil, under the mutex.
Take(r) ==
  /\ fns' = [fns EXCEPT ![r] = stack]
  /\ at' = [at EXCEPT ![r] = Len(stack)]
  /\ stack' = <<>>

Current(r) == fns[r][at[r]]

Draining(r) == proc = "running" /\ IF r = "main" THEN pc = "drain" ELSE sg = "drain"

\* fns[i]() returned with result x; go on to i-1.
Finish(r, x) ==
  /\ at' = [at EXCEPT ![r] = @ - 1]
  /\ outcome' = [outcome EXCEPT ![Current(r)] = x]
  /\ UNCHANGED <<opt, pc, sg, proc, sigints, known, stack, fns>>

Running(r, c) == Draining(r) /\ at[r] > 0 /\ Current(r) = c

CloseSession(r) ==
  /\ Running(r, "session")
  /\ device' = [device EXCEPT !.session = "closed"]
  /\ Finish(r, "done")
  /\ UNCHANGED <<host, peek>>

\* Mutant: keeps waiting for a session that may never come back.
MutRunUninstall(r) ==
  /\ Running(r, "uninstall")
  /\ Reachable
  /\ device' = [device EXCEPT !.app = IF {"want", "path"} \subseteq known THEN "absent" ELSE @]
  /\ Finish(r, "done")
  /\ UNCHANGED <<host, peek>>

RunUninstall(r) ==
  /\ Running(r, "uninstall")
  /\ UNCHANGED <<host, peek>>
  /\ \/ /\ ~({"want", "path"} \subseteq known)
        /\ Finish(r, "done")
        /\ UNCHANGED device
     \/ /\ {"want", "path"} \subseteq known
        /\ \/ /\ Reachable
              /\ device' = [device EXCEPT !.app = "absent"]
              /\ Finish(r, "done")
           \/ /\ CallFails
              /\ Finish(r, "failed")
              /\ \E a \in {device.app, "absent"} : device' = [device EXCEPT !.app = a]

RemovePatched(r) ==
  /\ Running(r, "patched")
  /\ host' = [host EXCEPT !.patched = IF "patched" \in known THEN "absent" ELSE @]
  /\ Finish(r, "done")
  /\ UNCHANGED <<device, peek>>

RemoveStaging(r) ==
  /\ Running(r, "staging")
  /\ UNCHANGED <<host, peek>>
  /\ \/ opt.noCleanup /\ Finish(r, "done") /\ UNCHANGED device
     \/ /\ ~opt.noCleanup
        /\ \/ /\ Reachable
              /\ device' = [device EXCEPT !.staging = "absent"]
              /\ Finish(r, "done")
           \/ CallFails /\ Finish(r, "failed") /\ UNCHANGED device

RemoveProvisional(r) ==
  /\ Running(r, "provisional")
  /\ at' = [at EXCEPT ![r] = @ - 1]
  /\ outcome' = [outcome EXCEPT !["provisional"] = "done"]
  /\ host' = [host EXCEPT !.out = IF "armed" \in known THEN "absent" ELSE @]
  /\ known' = known \ {"armed"}
  /\ UNCHANGED <<opt, pc, sg, proc, sigints, device, stack, fns, peek>>

\* Mutant: never abandons a partial output.
MutCloseOutput(r) ==
  /\ Running(r, "output")
  /\ peek[r] = "none"
  /\ host' = [host EXCEPT !.fd = "closed"]
  /\ peek' = [peek EXCEPT ![r] = IF "delivered" \in known THEN "dispose" ELSE "keep"]
  /\ UNCHANGED <<opt, pc, sg, proc, sigints, device, known, stack, fns, at, outcome>>

\* The output closure: close, read the unlocked flags ...
CloseOutput(r) ==
  /\ Running(r, "output")
  /\ peek[r] = "none"
  /\ host' = [host EXCEPT !.fd = "closed"]
  /\ peek' = [peek EXCEPT ![r] = IF "completed" \notin known THEN "abandon"
                                 ELSE IF ~KeepDesktop /\ "delivered" \in known THEN "dispose"
                                 ELSE "keep"]
  /\ UNCHANGED <<opt, pc, sg, proc, sigints, device, known, stack, fns, at, outcome>>

\* ... and act on what was read.
SettleOutput(r) ==
  /\ Running(r, "output")
  /\ peek[r] # "none"
  /\ host' = [host EXCEPT !.out = IF peek[r] = "keep" THEN @ ELSE "absent"]
  /\ peek' = [peek EXCEPT ![r] = "none"]
  /\ Finish(r, "done")
  /\ UNCHANGED device

CleanupStep(r) ==
  \/ CloseSession(r) \/ RunUninstall(r) \/ RemovePatched(r) \/ RemoveStaging(r)
  \/ RemoveProvisional(r) \/ CloseOutput(r) \/ SettleOutput(r)

-----------------------------------------------------------------------------
(* Deferred calls of the handler, the signal goroutine, the environment.    *)

\* defer signal.Stop runs first (it was deferred last) ...
StopNotify == Main("stop", "swap") /\ UNCHANGED <<host, device, known, stack>>

\* ... then defer cleanups.run ...
MainTakes ==
  /\ proc = "running"
  /\ pc = "swap"
  /\ pc' = "drain"
  /\ Take("main")
  /\ UNCHANGED <<opt, sg, proc, sigints, host, device, known, peek, outcome>>

\* ... and the process ends when the handler has returned.
MainExits ==
  /\ proc = "running"
  /\ pc = "drain"
  /\ at["main"] = 0
  /\ pc' = "exited"
  /\ proc' = "exit0"
  /\ UNCHANGED <<opt, sg, sigints, host, device, known, stack, fns, at, peek, outcome>>

SignalReset ==
  /\ proc = "running"
  /\ sg = "caught"
  /\ sg' = "reset"
  /\ UNCHANGED <<opt, pc, proc, sigints, host, device, known, stack, fns, at, peek, outcome>>

SignalTakes ==
  /\ proc = "running"
  /\ sg = "reset"
  /\ sg' = "drain"
  /\ Take("signal")
  /\ UNCHANGED <<opt, pc, proc, sigints, host, device, known, peek, outcome>>

SignalExits ==
  /\ proc = "running"
  /\ sg = "drain"
  /\ at["signal"] = 0
  /\ proc' = "exit130"
  /\ UNCHANGED <<opt, pc, sg, sigints, host, device, known, stack, fns, at, peek, outcome>>

\* SIGINT: caught while signal.Notify is in force, swallowed by the full channel
\* until signal.Reset, fatal after Reset and after main's signal.Stop.
Interrupt ==
  LET notified == pc \notin {"swap", "drain", "exited"} /\ sg \in {"idle", "caught"}
  IN /\ proc = "running"
     /\ sigints < 2
     /\ sigints' = sigints + 1
     /\ sg' = IF notified THEN "caught" ELSE sg
     /\ proc' = IF notified THEN proc ELSE "killed"
     /\ UNCHANGED <<opt, pc, host, device, known, stack, fns, at, peek, outcome>>

\* The network: a session may stall, come back, or be lost.
Network ==
  /\ proc = "running"
  /\ \E s \in CASE device.session = "open" -> {"stalled", "lost"}
                [] device.session = "stalled" -> {"open", "lost"}
                [] OTHER -> {} :
       device' = [device EXCEPT !.session = s]
  /\ UNCHANGED <<opt, pc, sg, proc, sigints, host, known, stack, fns, at, peek, outcome>>

-----------------------------------------------------------------------------
Handler ==
  \/ RegisterUninstall \/ Probe \/ ChooseInstalled \/ ChooseStoreKit \/ ChooseSource
  \/ StoreKitInstall \/ PatchBegin \/ PatchEnd \/ RegisterPatched \/ Plan
  \/ RegisterStaging \/ EnsureInstalled \/ UploadBegin \/ UploadEnd \/ Install
  \/ Rescan \/ DecideUninstall \/ NameUninstallPath \/ WorkingPath
  \/ RegisterProvisional \/ MakeDirs \/ OpenOutput \/ RegisterOutput
  \/ DisarmProvisional \/ Stream \/ CopyStops \/ StoppedCopyEnds \/ SyncOutput \/ MarkComplete
  \/ CleanBegin \/ CleanEnd \/ Verify \/ DeliverBegin \/ DeliverEnd \/ MarkDelivered \/ StopNotify

MainNext   == Handler \/ MainTakes \/ CleanupStep("main") \/ MainExits
SignalNext == SignalReset \/ SignalTakes \/ CleanupStep("signal") \/ SignalExits
Ended      == proc # "running"

Next ==
  \/ MainNext \/ SignalNext \/ Interrupt \/ Network
  \/ Ended /\ UNCHANGED vars      \* a finished process: not a deadlock

Spec == Init /\ [][Next]_vars

\* Both goroutines are scheduled; nobody has to interrupt, no network has to heal, and
\* neither the user nor the App Store has to answer at "choose".
FairSpec == Spec /\ WF_vars(pc # "choose" /\ MainNext) /\ WF_vars(SignalNext)

-----------------------------------------------------------------------------
TypeOK ==
  /\ opt \in Options
  /\ pc \in Label
  /\ sg \in {"idle", "caught", "reset", "drain"}
  /\ proc \in {"running", "exit0", "exit130", "killed"}
  /\ sigints \in 0..2
  /\ host \in HostType
  /\ device \in DeviceType
  /\ known \subseteq Fact
  /\ stack \in Seq(Cleanup)
  /\ fns \in [Runner -> Seq(Cleanup)]
  /\ at \in [Runner -> Nat]
  /\ \A r \in Runner : at[r] <= Len(fns[r])
  /\ peek \in [Runner -> {"none", "abandon", "keep", "dispose"}]
  /\ outcome \in [Cleanup -> {"pending", "done", "failed"}]

Interrupted == sigints > 0

Items(s) == {s[i] : i \in 1..Len(s)}
\* What runner r has taken and not yet finished.
Todo(r) == {fns[r][i] : i \in 1..at[r]}

\* However the two drains and the pushes interleave, a cleanup is on the stack, in
\* one runner's hands, or finished - in exactly one of these places, and once.
NoCleanupTwice ==
  /\ \A i, j \in 1..Len(stack) : stack[i] = stack[j] => i = j
  /\ \A r \in Runner : \A i, j \in 1..at[r] : fns[r][i] = fns[r][j] => i = j
  /\ \A r \in Runner : Items(stack) \cap Todo(r) = {}
  /\ Todo("main") \cap Todo("signal") = {}
  /\ \A c \in Cleanup : outcome[c] # "pending" =>
       c \notin Items(stack) \cup Todo("main") \cup Todo("signal")

\* "dev.Close pushed first so it runs LAST": the runner that will close the
\* session closes it after all else it took, so its remote steps have one.
CloseIsLast ==
  /\ \A r \in Runner : \A i \in 1..at[r] : fns[r][i] = "session" => i = 1
  /\ device.session = "closed" => outcome["session"] = "done"

\* Once the output closure has run, no half-written IPA is left under the output
\* name - also when it ran on the signal goroutine while main was still streaming,
\* cleaning or verifying.
ReleasedOutputNotPartial == outcome["output"] = "done" => host.out # "partial"

\* An IPA on the device under its final name is the verified one (or the user
\* waived verification); the temporary working copy is given up only for it.
DeviceCopySound ==
  /\ device.copy = "whole" => host.code = "decrypted" \/ opt.noVerify
  /\ \A r \in Runner : peek[r] = "dispose" => device.copy = "whole"

\* Only an app this run put on the device is removed, or one the user forced, and
\* none with --no-uninstall, whichever goroutine runs the closure and whenever it
\* reads the handler's variables.
UninstallOnlyOurs ==
  [][ device.app # "absent" /\ device'.app = "absent" =>
        /\ opt.uninstall # "no"
        /\ opt.uninstall = "force" \/ device.app = "ours" ]_vars

\* A run nobody interrupts: once complete the IPA exists somewhere, whatever fails
\* later, and when the process has ended no scratch file of it is left behind - but
\* what could not be removed from the device, and, where the rename of the cleaned
\* IPA failed, the whole rewrite next to it (pipeline/patch.go removes it on every
\* other error).
UninterruptedRunIsClean ==
  ~Interrupted =>
    /\ "completed" \in known => host.out = "whole" \/ device.copy = "whole"
    /\ proc = "exit0" =>
         /\ stack = <<>>
         /\ host.out # "partial" /\ host.patched = "absent"
         /\ host.tmp = IF "unrenamed" \in known THEN "whole" ELSE "absent"
         /\ ~KeepDesktop /\ "delivered" \in known => host.out = "absent"
         /\ device.staging = "absent" \/ opt.noCleanup \/ outcome["staging"] = "failed"
         /\ {"want", "path"} \subseteq known =>
              device.app = "absent" \/ outcome["uninstall"] = "failed"

\* decrypt.go says of the stack: "Idempotent: a second run() is a no-op so the
\* deferred run after signal-driven run is harmless".  Harmless would mean that the
\* process does not end normally under a drain the signal goroutine has begun.
DeferredRunIsHarmless == proc = "exit0" => at["signal"] = 0

\* --force-uninstall: "always uninstall the app after decryption, even if it was
\* already installed when we started" (unless the removal itself failed).
ForceUninstallHonoured ==
  proc = "exit0" /\ ~Interrupted /\ "completed" \in known /\ opt.uninstall = "force" =>
    device.app = "absent" \/ outcome["uninstall"] = "failed"

\* The process ends: neither drain waits for the other, and a lost or closed session
\* makes remote calls fail.  Three things can hold it: a connection that stalls again
\* and again (no remote call in client.go has a timeout), a user or an App Store that
\* never answers at "choose" (nor has appstore/client.go one), and a helper nobody
\* reads from.  An interrupt ends the process in the last two.
Terminates ==
  \/ <>Ended
  \/ []<>(device.session = "stalled")
  \/ <>[](pc \in {"choose", "stopped"} /\ ~Interrupted)
=============================================================================
