------------------------------ MODULE LocalState ------------------------------
(***************************************************************************)
(* What the program keeps on this machine: config.json (internal/config/    *)
(* config.go) and its own executable (internal/updater/self_update.go), as  *)
(* the commands change them: auth (cmd/ipadecrypt/auth.go), those that ask  *)
(* Apple for something (internal/appstoreworkflow/auth.go), and update      *)
(* (cmd/ipadecrypt/update.go).                                              *)
(*                                                                          *)
(* Each Process runs one command after another; two processes run side by   *)
(* side if the user has two terminals.  All commands but update start an    *)
(* update check beside the command (internal/updater/updater.go).  It       *)
(* shares the configuration in memory with the command, without a lock, and *)
(* saves it too. Every save goes through the same config.json.tmp.  A       *)
(* process may be killed at any step; the files stay as they are.           *)
(***************************************************************************)
EXTENDS Naturals

CONSTANTS
  Process,   \* processes at a time
  Checking,  \* those with update checks: a release build on a terminal, not disabled
  MaxEpoch,  \* bound: Apple lets tokens expire MaxEpoch - 1 times
  MaxStarts  \* bound: commands started

ASSUME LocalAssumption == Checking \subseteq Process /\ MaxEpoch \in Nat \ {0} /\ MaxStarts \in Nat

\* Mutant: one attempt less.
MutRetries == 2

\* Attempts of withAuth.
Retries == 3

\* The Apple part of the configuration.  A token is the epoch of its issue, 0 for none.
Apple  == [password : {"none", "good", "typo"}, token : 0..MaxEpoch]
Nobody == [password |-> "none", token |-> 0]

\* A file is missing, cut off, an executable that runs, or a configuration; a configuration
\* of version 1 keeps the account in another place of the document.
Name == {"config", "config.tmp", "exe", "exe.new", "exe.bak", "exe.rollback"}
File == [kind : {"missing", "cut", "program", "config"}, apple : Apple, version : {1, 2}]
Plain(k)  == [kind |-> k, apple |-> Nobody, version |-> 2]
Config(a) == [kind |-> "config", apple |-> a, version |-> 2]

VARIABLES
  starts,     \* commands started so far
  cmd, step,  \* per process: the command and what it does
  mem,        \* cfg.Apple, in memory
  tries,      \* attempts withAuth has made
  since,      \* history: the epoch in which the operation began
  spent,      \* history: the operation ended with "exhausted retries"
  check,      \* the update check
  newer,      \* it found a newer release
  save,       \* per writer: how far its Save is
  buf,        \* ... and the document it marshalled
  shared,     \* history: two saves were under way at the same time
  file,       \* the files
  fd,         \* per writer: the name of the file it has open
  clash,      \* history: two updates or rollbacks were under way at the same time
  epoch,      \* tokens of this epoch are the ones Apple accepts
  owned,      \* the Apple ID has a licence for the app
  misled      \* history: the operation was told of a remedy that does not help

command == <<starts, cmd, step, mem, tries, since, spent>>
checks  == <<check, newer>>
saving  == <<save, buf, shared>>
disk    == <<file, fd>>
apple   == <<epoch, owned, misled>>
vars    == <<command, checks, saving, disk, clash, apple>>

Command == {"auth", "auth --reset", "bootstrap", "bootstrap --reset", "fetch", "keep",
            "update", "rollback"}
Thread  == {"main", "check"}
Writer  == Process \X Thread

Replacing == {"stage", "fill", "mode", "unback", "backup", "swap", "undo",
              "stat", "aside", "restore", "putback", "tidy"}
Step == {"off", "migrated", "begin", "clear", "reset", "prompt", "login", "signed",
         "device", "probed", "kept", "accepted", "attempt", "reauth", "again", "purchase",
         "relogin", "repay", "pay",
         "wait", "notice", "latest", "over"} \cup Replacing

Init ==
  /\ starts = 0
  /\ cmd = [p \in Process |-> "fetch"] /\ step = [p \in Process |-> "off"]
  /\ mem = [p \in Process |-> Nobody] /\ tries = [p \in Process |-> 0]
  /\ since = [p \in Process |-> 0] /\ spent = [p \in Process |-> FALSE]
  /\ check = [p \in Process |-> "off"] /\ newer = [p \in Process |-> FALSE]
  /\ save = [w \in Writer |-> "idle"] /\ buf = [w \in Writer |-> Nobody]
  /\ fd = [w \in Writer |-> "none"]
  /\ shared = FALSE /\ clash = FALSE
  /\ epoch = 1 /\ owned \in BOOLEAN /\ misled = [p \in Process |-> FALSE]
  /\ \E c \in {Plain("missing")} \cup
              {[Config([password |-> "good", token |-> 1]) EXCEPT !.version = v] : v \in {1, 2}} :
       file = [n \in Name |-> CASE n = "config" -> c [] n = "exe" -> Plain("program")
                                [] OTHER -> Plain("missing")]

---------------------------------------------------------------------------
(* The file system: a rename takes those who have the file open along.      *)

Renamed(f, x, y) == [f EXCEPT ![y] = f[x], ![x] = Plain("missing")]
Moved(x, y) ==
  [w \in Writer |-> IF fd[w] = x THEN y ELSE IF fd[w] = y THEN "gone" ELSE fd[w]]
Rename(x, y) == file' = Renamed(file, x, y) /\ fd' = Moved(x, y)
Remove(x) ==
  /\ file' = [file EXCEPT ![x] = Plain("missing")]
  /\ fd' = [w \in Writer |-> IF fd[w] = x THEN "gone" ELSE fd[w]]

---------------------------------------------------------------------------
(* Config.Save, in a writer of its own; whoever called it waits for its end. *)

Main(p) == <<p, "main">>

Underway(w) == save[w] \in {"open", "write", "rename"}

Marshal(w) ==
  /\ save[w] = "marshal"
  /\ save' = [save EXCEPT ![w] = "open"]
  /\ buf' = [buf EXCEPT ![w] = mem[w[1]]]
  /\ shared' = (shared \/ \E o \in Writer \ {w} : Underway(o))
  /\ UNCHANGED <<command, checks, disk, clash, apple>>

\* Mutant: the document is written in place.
MutOpenTmp(w) ==
  /\ save[w] = "open"
  /\ file' = [file EXCEPT !["config"] = Plain("cut")]
  /\ fd' = [fd EXCEPT ![w] = "config"]
  /\ save' = [save EXCEPT ![w] = "write"]
  /\ UNCHANGED <<command, checks, buf, shared, clash, apple>>

\* Opening with O_TRUNC empties the file another save may be writing.
OpenTmp(w) ==
  /\ save[w] = "open"
  /\ file' = [file EXCEPT !["config.tmp"] = Plain("cut")]
  /\ fd' = [fd EXCEPT ![w] = "config.tmp"]
  /\ save' = [save EXCEPT ![w] = "write"]
  /\ UNCHANGED <<command, checks, buf, shared, clash, apple>>

\* Over the document of another save the shorter of the two leaves a tail of the longer.
WriteTmp(w) ==
  /\ save[w] = "write"
  /\ LET n == fd[w]
         doc == Config(buf[w])
     IN IF n = "gone" THEN UNCHANGED file
        ELSE file' \in {[file EXCEPT ![n] = c] :
                          c \in IF file[n].kind = "cut" THEN {doc} ELSE {doc, Plain("cut")}}
  /\ save' = [save EXCEPT ![w] = "rename"] /\ buf' = [buf EXCEPT ![w] = Nobody]
  /\ fd' = [fd EXCEPT ![w] = "none"]
  /\ UNCHANGED <<command, checks, shared, clash, apple>>

RenameTmp(w) ==
  /\ save[w] = "rename" /\ file["config.tmp"].kind # "missing"
  /\ Rename("config.tmp", "config")
  /\ save' = [save EXCEPT ![w] = "ok"]
  /\ UNCHANGED <<command, checks, buf, shared, clash, apple>>

\* Mutant: an error ends the save, but is not reported.
MutSaveFails(w) ==
  /\ Underway(w)
  /\ save' = [save EXCEPT ![w] = "ok"] /\ buf' = [buf EXCEPT ![w] = Nobody]
  /\ fd' = [fd EXCEPT ![w] = "none"]
  /\ UNCHANGED <<command, checks, shared, file, clash, apple>>

\* An error at any of these steps ends the save; what is in config.json.tmp stays.
SaveFails(w) ==
  /\ Underway(w)
  /\ save' = [save EXCEPT ![w] = "failed"] /\ buf' = [buf EXCEPT ![w] = Nobody]
  /\ fd' = [fd EXCEPT ![w] = "none"]
  /\ UNCHANGED <<command, checks, shared, file, clash, apple>>

Save(w) == Marshal(w) \/ OpenTmp(w) \/ WriteTmp(w) \/ RenameTmp(w) \/ SaveFails(w)

---------------------------------------------------------------------------
(* The update check of the command, and Wait at the command's end *)

\* Check: the cached release is fresh, or the request fails or is late; or Apple's
\* answer is noted and saved.
Ask(p) ==
  /\ check[p] = "asking"
  /\ \/ /\ check' = [check EXCEPT ![p] = "done"]
        /\ newer' \in {[newer EXCEPT ![p] = b] : b \in BOOLEAN}
        /\ UNCHANGED save
     \/ /\ check' = [check EXCEPT ![p] = "saving"]
        /\ save' = [save EXCEPT ![<<p, "check">>] = "marshal"]
        /\ UNCHANGED newer
  /\ UNCHANGED <<command, buf, shared, disk, clash, apple>>

\* The outcome of the save is ignored.
Asked(p) ==
  /\ check[p] = "saving" /\ save[<<p, "check">>] \in {"ok", "failed"}
  /\ check' = [check EXCEPT ![p] = "done"]
  /\ newer' \in {[newer EXCEPT ![p] = b] : b \in BOOLEAN}
  /\ save' = [save EXCEPT ![<<p, "check">>] = "idle"]
  /\ UNCHANGED <<command, buf, shared, disk, clash, apple>>

\* A step of the command that changes neither files nor marks.
Quiet == UNCHANGED <<starts, cmd, checks, buf, shared, disk, clash>>
Goto(p, s) == step' = [step EXCEPT ![p] = s]
\* ... to step s, which waits for a save.
SaveAt(p, s) == Goto(p, s) /\ save' = [save EXCEPT ![Main(p)] = "marshal"]
\* The save step s waits for has ended, with the outcome o.
Saved(p, s, o) ==
  /\ step[p] = s /\ save[Main(p)] = o
  /\ save' = [save EXCEPT ![Main(p)] = "idle"]

\* The notice of a newer release is printed at most once in a while, and saved.
Wait(p) ==
  /\ step[p] = "wait" /\ check[p] \in {"off", "done"}
  /\ \/ newer[p] /\ SaveAt(p, "notice")
     \/ Goto(p, "over") /\ UNCHANGED save
  /\ Quiet /\ UNCHANGED <<mem, tries, since, spent, apple>>

Noticed(p) ==
  /\ \E o \in {"ok", "failed"} : Saved(p, "notice", o)
  /\ Goto(p, "over")
  /\ Quiet /\ UNCHANGED <<mem, tries, since, spent, apple>>

---------------------------------------------------------------------------
(* Starting a command *)

\* loadConfigOrDefault: without a file the configuration is empty.
ReadConfig == IF file["config"].kind = "missing" THEN Nobody ELSE file["config"].apple

\* A new process reads the configuration; one it cannot parse ends it, one of version 1 is
\* saved in the new form first.  A command cannot be started without the executable.
Start(p) ==
  /\ step[p] = "off" /\ file["exe"].kind = "program" /\ file["config"].kind # "cut"
  /\ starts < MaxStarts /\ starts' = starts + 1
  /\ cmd' \in {[cmd EXCEPT ![p] = c] : c \in Command}
  /\ mem' = [mem EXCEPT ![p] = ReadConfig]
  /\ tries' = [tries EXCEPT ![p] = 0] /\ spent' = [spent EXCEPT ![p] = FALSE]
  /\ since' = [since EXCEPT ![p] = epoch] /\ misled' = [misled EXCEPT ![p] = FALSE]
  /\ IF file["config"].version = 1 THEN SaveAt(p, "migrated")
                                   ELSE Goto(p, "begin") /\ UNCHANGED save
  /\ UNCHANGED <<checks, buf, shared, disk, clash, epoch, owned>>

Migrated(p) ==
  /\ \/ Saved(p, "migrated", "ok") /\ Goto(p, "begin")
     \/ Saved(p, "migrated", "failed") /\ Goto(p, "over")
  /\ Quiet /\ UNCHANGED <<mem, tries, since, spent, apple>>

AuthBegins(p) ==
  /\ \/ cmd[p] \in {"auth --reset", "bootstrap --reset"} /\ Goto(p, "clear")
     \/ cmd[p] \in {"auth", "bootstrap"} /\ Goto(p, "prompt")
  /\ UNCHANGED save

\* A fetch stops when nobody has signed in.  versions, a fetch, saves that its warning was
\* accepted, or stops when it was not.
FetchBegins(p) ==
  /\ cmd[p] = "fetch"
  /\ \/ mem[p].password # "none" /\ Goto(p, "attempt") /\ UNCHANGED save
     \/ mem[p].password # "none" /\ SaveAt(p, "accepted")
     \/ Goto(p, "wait") /\ UNCHANGED save

\* keep sets the policy and saves, or only shows it.
KeepBegins(p) ==
  /\ cmd[p] = "keep"
  /\ \/ SaveAt(p, "kept")
     \/ Goto(p, "over") /\ UNCHANGED save

\* update saves the newest release it learnt of, if it got an answer; --check is over then.
UpdateBegins(p) ==
  \/ cmd[p] = "update" /\ SaveAt(p, "latest")
  \/ cmd[p] = "update" /\ Goto(p, "over") /\ UNCHANGED save
  \/ cmd[p] = "rollback" /\ Goto(p, "stat") /\ UNCHANGED save

\* updater.Start comes first, in all commands but these three.
Begin(p) ==
  /\ step[p] = "begin"
  /\ AuthBegins(p) \/ FetchBegins(p) \/ KeepBegins(p) \/ UpdateBegins(p)
  /\ check' = [check EXCEPT ![p] =
       IF p \in Checking /\ cmd[p] \notin {"keep", "update", "rollback"} THEN "asking" ELSE "off"]
  /\ clash' = (clash \/ (cmd[p] = "rollback" /\ \E q \in Process : step[q] \in Replacing))
  /\ UNCHANGED <<starts, cmd, mem, tries, since, spent, newer, buf, shared, disk, apple>>

---------------------------------------------------------------------------
(* auth, and bootstrap, which goes on to the device *)

\* The update check may marshal the fields while they are cleared.
Clear(p) ==
  /\ step[p] = "clear"
  /\ \/ /\ mem[p] # Nobody
        /\ mem' \in {[mem EXCEPT ![p].password = "none"], [mem EXCEPT ![p].token = 0]}
        /\ UNCHANGED <<step, save>>
     \/ mem[p] = Nobody /\ SaveAt(p, "reset") /\ UNCHANGED mem
  /\ Quiet /\ UNCHANGED <<tries, since, spent, apple>>

Reset(p) ==
  /\ \/ Saved(p, "reset", "ok") /\ Goto(p, "prompt")
     \/ Saved(p, "reset", "failed") /\ Goto(p, "wait")
  /\ Quiet /\ UNCHANGED <<mem, tries, since, spent, apple>>

\* authenticateApple asks only for what is not known.
Prompt(p) ==
  /\ step[p] = "prompt"
  /\ \/ mem[p].password # "none" /\ Goto(p, "login") /\ UNCHANGED mem
     \/ /\ mem[p].password = "none" /\ Goto(p, "login")
        /\ \E t \in {"good", "typo"} : mem' = [mem EXCEPT ![p].password = t]
     \/ mem[p].password = "none" /\ Goto(p, "wait") /\ UNCHANGED mem
  /\ Quiet /\ UNCHANGED <<tries, since, spent, save, apple>>

\* interpretLogin: Apple accepts no other password.
Accepted(p) == mem[p].password = "good"

\* Client.Login, if Apple answers and the code is right.
SignIn(p) == Accepted(p) /\ mem' = [mem EXCEPT ![p].token = epoch]

\* A storefront of no known country stops the command before it saves.
Login(p) ==
  /\ step[p] = "login"
  /\ \/ SignIn(p) /\ SaveAt(p, "signed")
     \/ SignIn(p) /\ Goto(p, "wait") /\ UNCHANGED save
     \/ Goto(p, "wait") /\ UNCHANGED <<mem, save>>
  /\ Quiet /\ UNCHANGED <<tries, since, spent, apple>>

Signed(p) ==
  /\ \/ Saved(p, "signed", "ok")
        /\ Goto(p, IF cmd[p] \in {"auth", "auth --reset"} THEN "wait" ELSE "device")
     \/ Saved(p, "signed", "failed") /\ Goto(p, "wait")
  /\ Quiet /\ UNCHANGED <<mem, tries, since, spent, apple>>

\* The answers about the device are saved once it was reached and probed.
Device(p) ==
  /\ step[p] = "device"
  /\ \/ SaveAt(p, "probed")
     \/ Goto(p, "wait") /\ UNCHANGED save
  /\ Quiet /\ UNCHANGED <<mem, tries, since, spent, apple>>

\* A save whose outcome matters only to the command.
Settled(p) ==
  /\ \/ \E o \in {"ok", "failed"} : Saved(p, "probed", o) /\ Goto(p, "wait")
     \/ \E o \in {"ok", "failed"} : Saved(p, "kept", o) /\ Goto(p, "over")
     \/ Saved(p, "accepted", "ok") /\ Goto(p, "attempt")
     \/ Saved(p, "accepted", "failed") /\ Goto(p, "wait")
  /\ Quiet /\ UNCHANGED <<mem, tries, since, spent, apple>>

---------------------------------------------------------------------------
(* WithAuthAccount, around one request to Apple *)

\* volumeDownload and Purchase: Apple looks at the token first.
Expired(p)    == mem[p].token # epoch
Unlicensed(p) == ~Expired(p) /\ ~owned

\* ErrPasswordTokenExpired, which stands for other answers too, whatever the token: sign in
\* again, verify the device, the licence exists (a download), the password changed (a purchase).
Refused(p) == misled' = [misled EXCEPT ![p] = misled[p] \/ ~Expired(p)]

Attempt(p) ==
  /\ step[p] = "attempt" /\ tries[p] < Retries
  /\ tries' = [tries EXCEPT ![p] = tries[p] + 1]
  /\ \/ Refused(p) /\ Goto(p, "reauth")
     \/ Unlicensed(p) /\ Goto(p, "purchase") /\ UNCHANGED misled
     \/ Goto(p, "wait") /\ UNCHANGED misled     \* the answer, or another error
  /\ Quiet /\ UNCHANGED <<mem, since, spent, save, epoch, owned>>

Exhausted(p) ==
  /\ step[p] = "attempt" /\ tries[p] = Retries
  /\ spent' = [spent EXCEPT ![p] = TRUE]
  /\ Goto(p, "wait")
  /\ Quiet /\ UNCHANGED <<mem, tries, since, save, apple>>

\* Reauth and LoginAndSave, from the loop or from AcquireLicense.
Reauth(p) ==
  /\ \/ step[p] = "reauth" /\ SignIn(p) /\ SaveAt(p, "again")
     \/ step[p] = "relogin" /\ SignIn(p) /\ SaveAt(p, "repay")
     \/ step[p] \in {"reauth", "relogin"} /\ Goto(p, "wait") /\ UNCHANGED <<mem, save>>
  /\ Quiet /\ UNCHANGED <<tries, since, spent, apple>>

Reauthed(p) ==
  /\ \/ Saved(p, "again", "ok") /\ Goto(p, "attempt")
     \/ Saved(p, "repay", "ok") /\ Goto(p, "pay")
     \/ \E s \in {"again", "repay"} : Saved(p, s, "failed") /\ Goto(p, "wait")
  /\ Quiet /\ UNCHANGED <<mem, tries, since, spent, apple>>

\* Purchase: the licence is new or existed already, as a status of 500 is taken to say
\* although it says nothing of a licence.
Licensed(p) ==
  \/ ~Expired(p) /\ owned' = TRUE /\ UNCHANGED misled
  \/ misled' = [misled EXCEPT ![p] = misled[p] \/ ~owned] /\ UNCHANGED owned

\* AcquireLicenseWithAccount: an expired token is renewed once.
Purchase(p) ==
  /\ step[p] \in {"purchase", "pay"}
  /\ \/ Licensed(p) /\ Goto(p, "attempt")
     \/ Refused(p) /\ step[p] = "purchase" /\ Goto(p, "relogin") /\ UNCHANGED owned
     \/ Goto(p, "wait") /\ UNCHANGED <<owned, misled>>     \* another error
  /\ Quiet /\ UNCHANGED <<mem, tries, since, spent, save, epoch>>

---------------------------------------------------------------------------
(* update: SelfUpdate and replaceExecutable *)

\* The release is not newer, or a download fails or does not match its checksum; or the
\* executable is replaced.
Latest(p) ==
  /\ \E o \in {"ok", "failed"} : Saved(p, "latest", o)
  /\ \/ Goto(p, "over") /\ UNCHANGED clash
     \/ Goto(p, "stage") /\ clash' = (clash \/ \E q \in Process : step[q] \in Replacing)
  /\ UNCHANGED <<starts, cmd, mem, tries, since, spent, checks, buf, shared, disk, apple>>

\* A step of replaceExecutable or rollbackExecutable.
Replace(p, s) ==
  /\ step[p] = s
  /\ UNCHANGED <<starts, cmd, mem, tries, since, spent, checks, saving, clash, apple>>

Stage(p) ==
  /\ Replace(p, "stage")
  /\ \/ /\ file["exe"].kind # "missing" /\ Goto(p, "fill")
        /\ file' = [file EXCEPT !["exe.new"] = Plain("cut")]
        /\ fd' = [fd EXCEPT ![Main(p)] = "exe.new"]
     \/ Goto(p, "over") /\ UNCHANGED disk

Fill(p) ==
  /\ Replace(p, "fill")
  /\ fd' = [fd EXCEPT ![Main(p)] = "none"]
  /\ \/ /\ Goto(p, "mode")
        /\ file' = IF fd[Main(p)] = "gone" THEN file
                   ELSE [file EXCEPT ![fd[Main(p)]] = Plain("program")]
     \/ Goto(p, "over") /\ UNCHANGED file

Mode(p) ==
  /\ Replace(p, "mode")
  /\ \/ Goto(p, "unback") /\ UNCHANGED disk
     \/ Goto(p, "over") /\ Remove("exe.new")

\* The old backup is removed before there is a new one.
Unback(p) == Replace(p, "unback") /\ Goto(p, "backup") /\ Remove("exe.bak")

\* Mutant: the executable is removed, not kept as the backup.
MutBackup(p) ==
  /\ Replace(p, "backup")
  /\ \/ file["exe"].kind # "missing" /\ Goto(p, "swap") /\ Remove("exe")
     \/ Goto(p, "over") /\ Remove("exe.new")

Backup(p) ==
  /\ Replace(p, "backup")
  /\ \/ file["exe"].kind # "missing" /\ Goto(p, "swap") /\ Rename("exe", "exe.bak")
     \/ Goto(p, "over") /\ Remove("exe.new")

Swap(p) ==
  /\ Replace(p, "swap")
  /\ \/ file["exe.new"].kind # "missing" /\ Goto(p, "over") /\ Rename("exe.new", "exe")
     \/ Goto(p, "undo") /\ UNCHANGED disk

Undo(p) ==
  /\ Replace(p, "undo") /\ Goto(p, "over")
  /\ \/ file["exe.bak"].kind # "missing" /\ Rename("exe.bak", "exe")
     \/ UNCHANGED disk

---------------------------------------------------------------------------
(* update --rollback: rollbackExecutable *)

Stat(p) ==
  /\ Replace(p, "stat")
  /\ \/ file["exe.bak"].kind # "missing" /\ Goto(p, "aside") /\ Remove("exe.rollback")
     \/ Goto(p, "over") /\ UNCHANGED disk

Aside(p) ==
  /\ Replace(p, "aside")
  /\ \/ /\ Goto(p, "restore")
        /\ IF file["exe"].kind = "missing" THEN UNCHANGED disk ELSE Rename("exe", "exe.rollback")
     \/ Goto(p, "over") /\ UNCHANGED disk

Restore(p) ==
  /\ Replace(p, "restore")
  /\ \/ file["exe.bak"].kind # "missing" /\ Goto(p, "tidy") /\ Rename("exe.bak", "exe")
     \/ Goto(p, "putback") /\ UNCHANGED disk

Putback(p) ==
  /\ Replace(p, "putback") /\ Goto(p, "over")
  /\ \/ file["exe.rollback"].kind # "missing" /\ Rename("exe.rollback", "exe")
     \/ UNCHANGED disk

Tidy(p) == Replace(p, "tidy") /\ Goto(p, "over") /\ Remove("exe.rollback")

---------------------------------------------------------------------------
\* The process is over, at its end, by Ctrl-C or by a crash, and its memory with it.  What it has
\* written stays: the machine itself does not fail.
Leave(p) ==
  /\ step[p] # "off"
  /\ step' = [step EXCEPT ![p] = "off"] /\ cmd' = [cmd EXCEPT ![p] = "fetch"]
  /\ mem' = [mem EXCEPT ![p] = Nobody] /\ tries' = [tries EXCEPT ![p] = 0]
  /\ since' = [since EXCEPT ![p] = 0] /\ spent' = [spent EXCEPT ![p] = FALSE]
  /\ misled' = [misled EXCEPT ![p] = FALSE]
  /\ check' = [check EXCEPT ![p] = "off"] /\ newer' = [newer EXCEPT ![p] = FALSE]
  /\ save' = [w \in Writer |-> IF w[1] = p THEN "idle" ELSE save[w]]
  /\ buf' = [w \in Writer |-> IF w[1] = p THEN Nobody ELSE buf[w]]
  /\ fd' = [w \in Writer |-> IF w[1] = p THEN "none" ELSE fd[w]]
  /\ UNCHANGED <<starts, shared, file, clash, epoch, owned>>

\* Apple stops accepting the tokens it has issued.
Expire ==
  /\ epoch < MaxEpoch
  /\ epoch' = epoch + 1
  /\ UNCHANGED <<command, checks, saving, disk, clash, owned, misled>>

Auth(p)     == Clear(p) \/ Reset(p) \/ Prompt(p) \/ Login(p) \/ Signed(p)
               \/ Device(p) \/ Settled(p)
Fetch(p)    == Attempt(p) \/ Exhausted(p) \/ Reauth(p) \/ Reauthed(p) \/ Purchase(p)
Update(p)   == Latest(p) \/ Stage(p) \/ Fill(p) \/ Mode(p) \/ Unback(p) \/ Backup(p)
               \/ Swap(p) \/ Undo(p)
Rollback(p) == Stat(p) \/ Aside(p) \/ Restore(p) \/ Putback(p) \/ Tidy(p)
Life(p)     == Start(p) \/ Migrated(p) \/ Begin(p) \/ Wait(p) \/ Noticed(p) \/ Leave(p)

Next ==
  \/ \E p \in Process : Life(p) \/ Auth(p) \/ Fetch(p) \/ Update(p) \/ Rollback(p)
                        \/ Ask(p) \/ Asked(p)
  \/ \E w \in Writer : Save(w)
  \/ Expire

Spec == Init /\ [][Next]_vars

---------------------------------------------------------------------------
(* What the program promises *)

Writing(w) == save[w] \in {"write", "rename"}

\* The state is well typed.
TypeOK ==
  /\ starts \in 0..MaxStarts
  /\ cmd \in [Process -> Command] /\ step \in [Process -> Step]
  /\ mem \in [Process -> Apple] /\ tries \in [Process -> 0..Retries]
  /\ since \in [Process -> 0..MaxEpoch] /\ spent \in [Process -> BOOLEAN]
  /\ check \in [Process -> {"off", "asking", "saving", "done"}]
  /\ newer \in [Process -> BOOLEAN]
  /\ save \in [Writer -> {"idle", "marshal", "open", "write", "rename", "ok", "failed"}]
  /\ buf \in [Writer -> Apple] /\ shared \in BOOLEAN
  /\ file \in [Name -> File] /\ fd \in [Writer -> Name \cup {"none", "gone"}]
  /\ clash \in BOOLEAN
  /\ epoch \in 1..MaxEpoch /\ owned \in BOOLEAN /\ misled \in [Process -> BOOLEAN]

\* However saves fail and whenever processes are killed, config.json is a whole document,
\* as long as no two saves were under way at the same time.
ConfigWhole == ~shared => file["config"].kind \in {"missing", "config"}

\* When Save reports success to a command, config.json holds what the command has in memory,
\* as long as no two saves were under way at the same time: the command changes nothing while
\* it waits, and what it writes reaches the file.
SaveReachesDisk ==
  [][\A p \in Process : ~shared /\ save[Main(p)] # "ok" /\ save'[Main(p)] = "ok"
                           => file'["config"] = Config(mem[p])]_vars

\* However update and rollback fail and whenever they are killed, the executable runs or
\* its backup does, as long as no two of them were under way at the same time.
ExecutableKept ==
  ~clash => \/ file["exe"].kind = "program"
            \/ file["exe"].kind = "missing" /\ file["exe.bak"].kind = "program"

\* Three attempts are enough for one new sign-in and one licence: withAuth gives up after
\* following its last remedy only if Apple let a token expire during the operation, or if an
\* answer was taken for an expired token that was current, or for a licence that was not there.
RemediesSuffice == \A p \in Process : spent[p] => epoch # since[p] \/ misled[p]

===============================================================================
