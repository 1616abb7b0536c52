------------------------------ MODULE AppleAuth ------------------------------
(***************************************************************************)
(* The Apple operations of the app: the queue of helper processes (app/     *)
(* Services/IDAppStoreHelperRunner.m), and the sign-in button, the progress *)
(* screens and the sign-in alerts that the home screen ties to them (app/   *)
(* Views/IDHomeViewController.m, app/Models/IDAppleAuthState.c).            *)
(*                                                                          *)
(* All of it runs on the main queue, so an action is one block: a tap, a    *)
(* timer, or the completion of a helper with all it calls.  A helper that   *)
(* cannot be spawned completes inside the call that asked for it, which is  *)
(* Failed right after the request.  While an alert is shown UIKit takes no  *)
(* tap elsewhere and no gesture.                                            *)
(***************************************************************************)
EXTENDS Naturals, Sequences

CONSTANTS
  Install,   \* progress screens of App Store installations
  Refresh,   \* progress screens of the sign-in button
  List,      \* requests of version pickers
  Saved,     \* the check of the saved sign-in
  None       \* nobody

Screen == Install \cup Refresh
Queued == Screen \cup List     \* operations that spawnAuthWithArguments queues

ASSUME AuthAssumption ==
  /\ Install \cap Refresh = {} /\ Screen \cap List = {}
  /\ Saved \notin Queued /\ None \notin Queued /\ None # Saved

VARIABLES
  auth,      \* authState: what the button shows
  owner,     \* the operation whose generation is the current authGeneration
  visible,   \* the home screen is on top
  polling,   \* a poll with the current authIdlePollToken is scheduled
  screen,    \* per progress screen: what it is waiting for
  running,   \* IDAuthHelperRunning
  pending,   \* IDPendingAuthOperations
  procs,     \* helpers spawned and not completed, --verify-ipa apart
  last       \* IDLastAuthResult

queue == <<running, pending, procs>>
vars  == <<auth, owner, visible, polling, screen, queue, last>>

AuthState == {"checking", "verified", "required", "unknown"}
ScreenState == {"free", "working", "prompt", "stuck", "decrypt", "verify"}

StateFor(result) ==
  CASE result = "success"       -> "verified"
    [] result = "auth-required" -> "required"
    [] OTHER                    -> "unknown"

Init ==
  /\ auth = "unknown" /\ owner = None
  /\ visible = FALSE /\ polling = FALSE
  /\ screen = [s \in Screen |-> "free"]
  /\ running = FALSE /\ pending = <<>> /\ procs = {}
  /\ last = "none"

\* hasActiveOperation: IDActiveAppStoreHelperCount > 0.
Active == procs # {} \/ \E s \in Screen : screen[s] = "verify"
Prompting == \E s \in Screen : screen[s] = "prompt"
IsQueued(op) == op \in procs \/ \E i \in 1..Len(pending) : pending[i] = op

Show(s, what) == screen' = [screen EXCEPT ![s] = what]

-----------------------------------------------------------------------------
(* The queue of IDAppStoreHelperRunner.                                     *)

\* Mutant: forgets to claim the helper.
MutEnqueue(op) ==
  IF running
  THEN pending' = Append(pending, op) /\ UNCHANGED <<running, procs>>
  ELSE procs' = procs \cup {op} /\ UNCHANGED <<running, pending>>

Enqueue(op) ==
  IF running
  THEN pending' = Append(pending, op) /\ UNCHANGED <<running, procs>>
  ELSE running' = TRUE /\ procs' = procs \cup {op} /\ UNCHANGED pending

\* finishAuthOperation, after the completion of op.
Finish(op) ==
  IF pending = <<>>
  THEN procs' = procs \ {op} /\ running' = FALSE /\ UNCHANGED pending
  ELSE /\ procs' = (procs \ {op}) \cup {Head(pending)}
       /\ pending' = Tail(pending)
       /\ UNCHANGED running

-----------------------------------------------------------------------------
(* The button and its polling.                                              *)

\* refreshSavedAppleAuthStateWhenIdle, with the current token.
WhenIdle ==
  \/ /\ Active
     /\ auth' = "checking" /\ polling' = TRUE
     /\ UNCHANGED <<owner, queue>>
  \/ /\ ~Active /\ last # "none"
     /\ auth' = StateFor(last) /\ owner' = None /\ polling' = FALSE
     /\ UNCHANGED queue
  \/ /\ ~Active /\ last = "none"
     /\ auth' = "checking" /\ owner' = Saved /\ polling' = FALSE
     /\ procs' = procs \cup {Saved}
     /\ UNCHANGED <<running, pending>>

\* viewWillAppear: the user goes back to the home screen, or begins to.
Appear ==
  /\ ~visible /\ ~Prompting
  /\ visible' = TRUE
  /\ WhenIdle
  /\ UNCHANGED <<screen, last>>

\* Another screen comes on top again, or a new one that asks for nothing.
Cover ==
  /\ visible /\ ~Prompting
  /\ visible' = FALSE
  /\ UNCHANGED <<auth, owner, polling, screen, queue, last>>

PollFires ==
  /\ polling
  /\ \/ visible /\ WhenIdle
     \/ ~visible /\ polling' = FALSE /\ UNCHANGED <<auth, owner, queue>>
  /\ UNCHANGED <<visible, screen, last>>

\* Mutant: shows the result whatever was begun meanwhile.
MutSavedChecked ==
  /\ Saved \in procs
  /\ procs' = procs \ {Saved}
  /\ auth' \in {"verified", "required", "unknown"}
  /\ UNCHANGED <<owner, visible, polling, screen, running, pending, last>>

\* The completion block of refreshSavedAppleAuthState.
SavedChecked ==
  /\ Saved \in procs
  /\ procs' = procs \ {Saved}
  /\ IF owner = Saved THEN auth' \in {"verified", "required", "unknown"} ELSE auth' = auth
  /\ UNCHANGED <<owner, visible, polling, screen, running, pending, last>>

-----------------------------------------------------------------------------
(* Requests: runAppStoreHelperForBundleID, runAppleAuthRefreshWithEmail and *)
(* the version pickers.                                                     *)

Begin(s) ==
  /\ polling' = FALSE
  /\ owner' = s /\ auth' = "checking"
  /\ Enqueue(s)
  /\ Show(s, "working")
  /\ UNCHANGED last

RequestInstall(s) ==
  /\ s \in Install /\ screen[s] = "free" /\ ~Prompting
  /\ visible' = FALSE
  /\ Begin(s)

RequestRefresh(s) ==
  /\ s \in Refresh /\ screen[s] = "free" /\ ~Prompting
  /\ visible /\ auth # "checking"
  /\ visible' = FALSE
  /\ Begin(s)

RequestList(l) ==
  /\ ~IsQueued(l) /\ ~Prompting
  /\ visible' = FALSE
  /\ Enqueue(l)
  /\ UNCHANGED <<auth, owner, polling, screen, last>>

ListDone(l) ==
  /\ l \in procs
  /\ last' \in {"success", "auth-required", "inconclusive"}
  /\ Finish(l)
  /\ UNCHANGED <<auth, owner, visible, polling, screen>>

\* setAppleAuthState:forGeneration:.
SetFor(s, state) == auth' = IF owner = s THEN state ELSE auth

\* Mutant: leaves the button alone when the installed path is missing.
MutSucceeded(s) ==
  /\ s \in procs
  /\ last' = "success" /\ polling' = FALSE
  /\ \/ SetFor(s, "verified") /\ Show(s, "free")
     \/ s \in Install /\ SetFor(s, "verified") /\ Show(s, "decrypt")
     \/ s \in Install /\ UNCHANGED auth /\ Show(s, "free")
  /\ Finish(s)
  /\ UNCHANGED <<owner, visible>>

\* Exit 0; an installation also needs the path of the installed bundle.
Succeeded(s) ==
  /\ s \in procs
  /\ last' = "success" /\ polling' = FALSE
  /\ \/ SetFor(s, "verified") /\ Show(s, "free")
     \/ s \in Install /\ SetFor(s, "verified") /\ Show(s, "decrypt")
     \/ s \in Install /\ SetFor(s, "unknown") /\ Show(s, "free")
  /\ Finish(s)
  /\ UNCHANGED <<owner, visible>>

\* Mutant: lets a poll that is scheduled fire under the alert.
MutAuthNeeded(s) ==
  /\ s \in procs
  /\ last' = "auth-required"
  /\ IF owner = s THEN auth' = "required" /\ Show(s, "prompt")
                  ELSE UNCHANGED auth /\ Show(s, "free")
  /\ Finish(s)
  /\ UNCHANGED <<owner, visible, polling>>

\* Exit 20 or 21: an alert asks for the credentials or the code, unless superseded.
AuthNeeded(s) ==
  /\ s \in procs
  /\ last' = "auth-required" /\ polling' = FALSE
  /\ IF owner = s THEN auth' = "required" /\ Show(s, "prompt")
                  ELSE UNCHANGED auth /\ Show(s, "free")
  /\ Finish(s)
  /\ UNCHANGED <<owner, visible>>

\* Mutant: returns without handing the helper on.
MutFailed(s) ==
  /\ s \in procs
  /\ last' = "inconclusive" /\ polling' = FALSE
  /\ SetFor(s, "unknown") /\ Show(s, "free")
  /\ procs' = procs \ {s}
  /\ UNCHANGED <<owner, visible, running, pending>>

\* Any other exit, a signal, or no helper at all.
Failed(s) ==
  /\ s \in procs
  /\ last' = "inconclusive" /\ polling' = FALSE
  /\ SetFor(s, "unknown") /\ Show(s, "free")
  /\ Finish(s)
  /\ UNCHANGED <<owner, visible>>

-----------------------------------------------------------------------------
(* The alert's two buttons do nothing for a generation that is not current: *)
(* the progress screen then waits for ever.                                 *)

Continue(s) ==
  /\ screen[s] = "prompt"
  /\ UNCHANGED visible
  /\ \/ owner = s /\ Begin(s)
     \/ owner # s /\ Show(s, "stuck") /\ UNCHANGED <<auth, owner, polling, queue, last>>

Cancel(s) ==
  /\ screen[s] = "prompt"
  /\ \/ owner = s /\ Show(s, "free") /\ auth' = IF s \in Refresh THEN "required" ELSE auth
     \/ owner # s /\ Show(s, "stuck") /\ UNCHANGED auth
  /\ UNCHANGED <<owner, visible, polling, queue, last>>

-----------------------------------------------------------------------------
(* Decryption, and the verification that is an App Store helper too.        *)

DecryptInstalled(s) ==
  /\ s \in Install /\ screen[s] = "free" /\ visible /\ ~Prompting
  /\ visible' = FALSE
  /\ Show(s, "decrypt")
  /\ UNCHANGED <<auth, owner, polling, queue, last>>

Decrypted(s) ==
  /\ screen[s] = "decrypt"
  /\ Show(s, "verify") \/ Show(s, "free")
  /\ UNCHANGED <<auth, owner, visible, polling, queue, last>>

Verified(s) ==
  /\ screen[s] = "verify"
  /\ Show(s, "free")
  /\ UNCHANGED <<auth, owner, visible, polling, queue, last>>

-----------------------------------------------------------------------------
Answered(s) == Succeeded(s) \/ AuthNeeded(s) \/ Failed(s)
Request(s) == RequestInstall(s) \/ RequestRefresh(s)
OnScreen(s) ==
  Request(s) \/ Answered(s) \/ Continue(s) \/ Cancel(s) \/ DecryptInstalled(s)
    \/ Decrypted(s) \/ Verified(s)

Next ==
  \/ Appear \/ Cover \/ PollFires \/ SavedChecked
  \/ \E s \in Screen : OnScreen(s)
  \/ \E l \in List : RequestList(l) \/ ListDone(l)

\* Helpers end and the timer fires; the user need not do anything.
Fairness ==
  /\ WF_vars(PollFires) /\ WF_vars(SavedChecked)
  /\ \A s \in Screen : WF_vars(Answered(s)) /\ WF_vars(Decrypted(s)) /\ WF_vars(Verified(s))
  /\ \A l \in List : WF_vars(ListDone(l))

Spec == Init /\ [][Next]_vars /\ Fairness

-----------------------------------------------------------------------------
TypeOK ==
  /\ auth \in AuthState
  /\ owner \in Screen \cup {Saved, None}
  /\ visible \in BOOLEAN /\ polling \in BOOLEAN
  /\ screen \in [Screen -> ScreenState]
  /\ running \in BOOLEAN
  /\ pending \in Seq(Queued)
  /\ procs \subseteq Queued \cup {Saved}
  /\ last \in {"none", "success", "auth-required", "inconclusive"}

\* One queued helper runs at a time, the flag says whether one does, nothing waits
\* while none does, nothing waits twice, and a progress screen shows a request at work
\* exactly as long as its operation runs or waits.
QueueSound ==
  /\ \A a, b \in procs \ {Saved} : a = b
  /\ running <=> procs \ {Saved} # {}
  /\ ~running => pending = <<>>
  /\ \A i, j \in 1..Len(pending) : pending[i] = pending[j] => i = j
  /\ \A i \in 1..Len(pending) : pending[i] \notin procs
  /\ \A s \in Screen : screen[s] = "working" <=> IsQueued(s)

\* The line of operations: the one with the helper, then those that wait for it.
Helpers == procs \ {Saved}
InLine ==
  IF Helpers = {} THEN pending ELSE <<CHOOSE op \in Helpers : TRUE>> \o pending
Waiting == {s \in Screen : screen[s] = "working"} \cup {l \in List : IsQueued(l)}

Promise == INSTANCE OperationLine WITH
  Op <- Queued, asked <- Waiting, line <- InLine, helpers <- Helpers

\* The runner keeps its promise: requests are answered in the order they were made, each of
\* them once, whatever alert, cancelled screen, poll or saved check comes in between.
Implements == Promise!Spec

\* As long as a sign-in alert is shown its generation stays the current one, whatever
\* completes or fires behind it: both its buttons work, no screen waits for ever, and
\* no second alert is put on top of it.
PromptStaysCurrent ==
  \A s \in Screen : screen[s] # "stuck" /\ (screen[s] = "prompt" => owner = s)

\* A late result - of the saved check, of an earlier request - never shows while the
\* newest request is still queued or running: the button says "checking" and is disabled.
CheckingWhileWorking ==
  \A s \in Screen : owner = s /\ screen[s] = "working" => auth = "checking"

\* Every request leaves the queue with an answer, however many others come in.
EveryRequestAnswered == \A s \in Screen : screen[s] = "working" ~> screen[s] # "working"

\* The button does not stay disabled on a home screen that stays on top, although polls
\* are cancelled and results dropped.
ButtonSettles == visible /\ auth = "checking" ~> ~visible \/ auth # "checking"
=============================================================================
