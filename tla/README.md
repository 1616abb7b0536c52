# ipadecrypt: models and proofs

TLA+ modules of the parts of ipadecrypt in which order, interruption and concurrency
decide whether the result is right, the TLC configurations that check them on small
instances, and TLAPS proofs of the safety properties that matter most. Paths below are
relative to the root of the repository.

## 1. The system

ipadecrypt takes an App Store application, installs it on a jailbroken device, lets the
device decrypt it and returns a decrypted IPA. A Go command line drives the device over
SSH; a C helper on the device does the decryption; an app on the device does the same
without a computer.

| Part | Code | State | Operations | Works with |
|---|---|---|---|---|
| Decrypt command | `cmd/ipadecrypt/decrypt.go`, `internal/device/client.go`, `ops.go`, `internal/pipeline/patch.go` | cleanup stack, flags shared with closures, output file, SSH session, files and app on the device | one run from probe to delivery; a second goroutine drains the stack on SIGINT/SIGTERM | cache, device helper, pipeline |
| Encrypted IPA cache | `internal/appstore/download.go`, `cmd/ipadecrypt/decrypt.go` (fetchRemoteEncryptedSource), `cmd/ipadecrypt-appstore-helper/main.go` (fetchEncrypted) | `<bundle>_<version>.ipa` and its `.tmp` | look up, resume, restart, patch, remove | any number of processes share the two files |
| App Store client and workflow | `internal/appstore/*.go`, `internal/appstoreworkflow/auth.go` | account, token, cookies | login, purchase, download ticket, version list; re-authentication, licence, retry | cache, configuration |
| Framework injection | `helper/inject.c` | pass counters, loaded set, thread pool; image list and exception port of the target | passes of dlopen calls in a suspended target, dump, report | target process |
| Device decryption | `helper/decrypt.c`, `dump.c`, `spawn.c`, `exc.c`, `dyld_patch.c`, `macho.c` ... | staging copy of the bundle, spawned target | spawn, dump, patch, kill | injection, stream |
| Frame stream, assembly, verification | `helper/helper.c`, `internal/device/ops.go`, `internal/pipeline/assemble.go`, `verify.go`, `internal/macho` | framed files on a pipe, zip being written | send, receive, assemble, compare | decrypt command |
| Local state | `internal/config`, `internal/updater`, `cmd/ipadecrypt/auth.go`, `update.go`, `keep.go` | config.json and its `.tmp`, the executable with its `.new`, `.bak` and `.rollback` | save, migrate, check for updates, swap the executable, roll back | all commands |
| Versions table | `cmd/ipadecrypt/versions_tui.go`, `versions.go` | rows, selection, two channels, two workers, the cache of answers on disk | fetch, enqueue, pick, save, drain | App Store workflow, decrypt command |
| StoreKit and alert automation | `helper/appdl.m`, `helper/ipadecryptautoalert/Tweak.x`, `app/Services/IDAutoalertArmer.m`, `IDStoreKitDownloader.m` | arm sentinel file | arm, confirm, disarm, wait for the install | SpringBoard, decrypt command, app |
| Daemon and its client | `cmd/ipadecryptd/main.go`, `app/Services/IDHelperRunner.m` | connection, child process, pipes | start a decryption, relay its events | app, device helper |
| App: Apple operations | `app/Services/IDAppStoreHelperRunner.m`, `app/Views/IDHomeViewController.m`, `app/Models/IDAppleAuthState.c` | queue of helper processes, sign-in button, generations, poll, progress screens | request, queue, complete, prompt, poll | on-device App Store helper |
| Other commands, screens, build scripts | see `PROJECT.json` | - | - | - |

Where it is hard, and what correct means there:

* **Decrypt command.** Two goroutines share a stack of closures and unlocked booleans; an
  interrupt may come between any two statements, a remote call may fail or never return.
  Correct: each cleanup once and in order; no half-written IPA under a final name; nothing
  removed that the run did not put there; a run nobody interrupts leaves its IPA somewhere
  and no scratch file, unless the rename at `pipeline/patch.go:479` fails, which alone of
  that function's errors leaves `outLocal.tmp`; the process ends.
* **Cache.** Nothing locks the files, nothing tidies them after an error, the key is not
  unique per build, and the final file is written in place. Correct: what is resumed is the
  beginning of the build, what is served is one whole build.
* **App Store workflow.** A bounded number of attempts mixes expired tokens and missing
  licences, and several answers that are neither are taken for one of them; the account is
  saved in between. Correct: the attempts are enough for one of each.
* **Injection.** A dlopen that misses its time is abandoned and answers later on the port
  of another call; dependencies come in any order; threads are spent. Correct: what counts
  as loaded is mapped, dependencies first, no framework given up that could have loaded.
* **Stream.** It may be cut anywhere; it is parsed while the session still runs. Correct:
  what is accepted is what was sent, and an incomplete IPA never passes verification.
* **Local state.** Crashes between two renames, two writers of one temporary file in one
  process. Correct: there is always an executable and a readable configuration.
* **Versions table.** One goroutine sends on one bounded channel and receives from another;
  the workers do the reverse. Correct: no version is asked for twice at a time or lost, an
  answer saved stays unless a later run cannot read the file, a picker returns what was
  picked, and nobody waits for ever, as long as there is room for all rows.
* **StoreKit.** A sentinel that outlives its run confirms alerts nobody asked for. Correct:
  armed only while its run waits.
* **Daemon.** Two pipes, one reader each, one writer. Correct: the helper never blocks for
  ever and its exit is reported.
* **App.** Screens come and go while helpers run one at a time and answer late. Correct:
  every request is answered, no late answer is shown, no screen or button hangs.

`PROJECT.json` lists every component with its status, and every hazard at its line with the
properties that would catch it.

## 2. Modules

| Module | Models | Uses |
|---|---|---|
| `DecryptRun` | one decrypt process | - |
| `MCDecryptRun` | flag combinations for TLC | `DecryptRun` |
| `DecryptRunProofs` | proofs | `DecryptRun` |
| `InjectFrameworks`, `MCInjectFrameworks`, `InjectFrameworksProofs` | the injection passes | |
| `EncryptedCache`, `MCEncryptedCache`, `EncryptedCacheProofs` | the cache under one file name | |
| `OperationLine` | what the app's runner promises those who ask: the abstract specification | |
| `AppleAuth`, `MCAppleAuth`, `AppleAuthProofs` | the app's Apple operations | implements `OperationLine` |
| `OutputIPA` | what a decryption promises about its IPA: the abstract specification | |
| `FrameStream`, `MCFrameStream`, `FrameStreamProofs` | from the installed bundle to the verified IPA | implements `OutputIPA` |
| `VersionsScreen`, `MCVersionsScreen`, `VersionsScreenProofs` | the versions table, its workers and its cache | |
| `LocalState`, `MCLocalState`, `LocalStateProofs` | configuration, executable, update check, sign-in and the retries around a request | |

Conventions: an action is a stretch of code that no other actor can see the middle of; its
name is the function's or says what the stretch does. Operators named `Mut...` are the
same definition with one plausible mistake; no specification uses them, they show that a
property can fail. `map` in `PROJECT.json` gives the lines of each definition.

### 2.1 DecryptRun

`pc` walks `decryptHandler` and `runDecryptOnBundle`; `sg` walks the signal goroutine
(caught, reset of the handler, drain, `os.Exit(130)`). `stack`, `fns` and `at` are
`cleanupStack.fns` and the two local copies that `run()` walks backwards. `known` is the
set of handler variables that are true (`uninstall`, `localOutputComplete`, ...), read by
the closures whenever they happen to run. `host` and `device` hold each file as absent,
partial or whole, the output descriptor, the session and whose app is installed. Each
statement that registers a cleanup, or sets a variable a closure reads, is a step of its
own, because an interrupt can fall before and after it. `peek` splits the output closure:
it reads `completed` first and acts on it later. The environment delivers up to two
interrupts (the second kills the process, the handler having been reset) and makes the
connection stall, recover or be lost.

Its `Stream` step leaves a whole output or stops with a part of one: `FrameStream` is what
happens within it, and `OutputIPA` what it may count on. `CopyStops` is the case that
`FrameStream` calls `"stopped"`: without a source IPA `RunHelper` hands the output writer to
`sess.Run` itself, so when a local write fails nobody reads any more, and `sess.Run` returns
only when the helper has nothing left to write or the connection ends (`StoppedCopyEnds`).

Abstractions: file contents are degrees of completeness plus whether the code in the IPA is
encrypted; which version is picked is nondeterministic; terminal output is left out.

### 2.2 InjectFrameworks

`pass`, `i`, `flagged`, `keys`, `fresh`, `pool` are the loop's variables in
`inject_missing_frameworks`; `images`, `inflight`, `port` are the target: what dyld has
mapped, which abandoned threads still run, how many sentinel exceptions lie unread. A
framework is its index in directory order with a key (last two path components, so that two
may be equal) and the keys it needs. For each call the target answers in one of the ways
the scenario allows: loads, loads but cannot be dumped, fails, hangs, cannot be staged.
`GiveUp` is the 3 s timeout, `AbandonedMaps` and `AbandonedReturns` what the abandoned
thread does afterwards, `StaleAnswer` the later call that reads its exception. `inflight`
counts the abandoned calls of each framework, which may be several over the passes; its entry
0 is the `pthread_create` with which the pool stopped growing, if that timed out.

Left out: how dyld's symbols and locks are found, and a thread that starts in the target,
by itself or by that last `pthread_create`, before the pool is read off.

### 2.3 EncryptedCache

Each `Run` is one process asking once; a retry is another run. `inode[r]` is the temporary
file that run created, `tmp` says whose inode the name `.tmp` points to, `fd` what each run
has open: a run may write to a file whose name is gone or has been given to another. A file
is a sequence of blocks tagged with build and number; block 0 is the appended metadata,
sinfs and zip directory. `Continue` is 206, `StartOver` 200 (truncating only if the file
was not empty when opened, as the code does); 416 and every other status is `Stop`.
`PatchBlock` reads an entry to its end, so its CRC is checked against the directory. `torn`
and `overlap` are history variables that the properties use as premises.

Abstractions: the CDN serves the same bytes for a build every time; two tickets for one
build carry the same sinfs and metadata; a served file is not read further.

Known limits of the code that the model shows and no property denies: a run stopped while
it patches leaves a partial file that later runs serve (`torn`); a `.tmp` that is already
complete makes the server answer 416 for ever, since the code sends the range and takes no
such answer; and two runs of *different* builds at once may mix (`NeverMixed` is about runs
one after the other).

### 2.4 AppleAuth and OperationLine

All of this code runs on the main queue, so each block is one action: a tap
(`RequestInstall`, `RequestRefresh`, `Continue`, `Cancel`), a timer (`PollFires`), an
appearance (`Appear`, `Cover`), a helper's completion with everything it calls
(`Succeeded`, `AuthNeeded`, `Failed`, `ListDone`, `SavedChecked`, `Verified`). `running`,
`pending`, `last` are the runner's static variables and `procs` the helpers that make up
its active count. Generations are not counted: `owner` names the operation whose generation
is the current one, or nobody's after the idle poll took one for a known result. Poll
tokens likewise: `polling` says that a poll with the current token is scheduled; a stale
one does nothing.

`OperationLine` is the runner as its callers see it: a set of requesters who wait, the line
they stand in, and the helpers that run. Whoever asks goes to the end of the line, the answer
is the front's, and exactly the front has a helper. Refinement mapping: `asked` is `Waiting`
(the screens that are working and the picker requests not yet answered), `helpers` is
`Helpers` (`procs` without the check of the saved state, which does not queue), `line` is
`InLine` (the one helper's operation, then `pending`). So a request is never overtaken, lost,
answered twice, or run beside another.

Assumptions about UIKit: an alert, once presented, takes all input until answered, and an
alert that is presented is shown. (If another sheet happens to be up UIKit drops the alert;
the model does not have sheets.) The picker's own alert is not modelled.

### 2.5 FrameStream and OutputIPA

`OutputIPA` has four variables: the route, the staging copy on the device, the run's status
and the IPA reported as complete. Its `Complete` picks a set of entries; those are the
staged files as they are, the others come from the source IPA, or are absent when there is
none. Its `Fail` reports a failure. Nothing else is promised, and in particular not that
every file was decrypted: that is what `CleanRunDecrypts` and `VerifiedNotEncrypted` are for.

`FrameStream` is three actors and two places for loss. The helper: `CopyTree`, `Spawn`,
`FirstDump` / `NoMainImage`, `Settle`, `DumpImage` and `DumpAppex` are the stretches of
`run_decrypt`, `decrypt_bundle` and `decrypt_appexes`; `version` is what each file of the
staging copy holds and `linked` which files still share their inode with the installed
bundle; `SendHeader`, `SendBody`, `FilesSent` are the walk that writes to stdout, `rc` its
result, `RemoveStaging` the end. The session: `pipe` is stdout on its way, at most `Window`
writes; `Cut` loses the end of it, `SessionEnds` is the return of `RunSudoStream` in its
goroutine. The host: `ReadHeader`, `ReadBody`, `BodyEndsShort`, `HandlerFails` are
`parseFrames` with the handler of `Assemble`, `Drain` the discarding copy, `RunReturns` the
evaluation of `runErr`, `parseErr` and the status, `Fill` the rest of `Assemble`;
`CopyBytes`, `CopyFails`, `CopyReturns` are `RunHelper`; `Verify` is the verdict. Refinement
mapping: the status is complete once `host` is `"complete"` or `"verified"`, the IPA is
`entries` from then on.

A frame is a header and `BodyLen` pieces; a reader out of step takes a piece for a header
and may accept it, with a name nobody has (`Stray`), or reject it. A write that fails leaves
a file cut off at one of four places that the readers tell apart: before the magic is
complete, within the load commands, within the crypt region, after it. A dump of which only
some pages differ from the installed file is `"mixed"`: `dump.c:90` compares the region as a
whole, so the helper reports it as done. If `unlink` fails, which `write_output` does not
look at, `open` truncates the installed file through the link (`WriteThrough`, apart from
`Create`); a write through a link that is cut off is modelled with one place of the cut.
Only Mach-Os that can be encrypted are modelled; the excluded entries (`SC_Info`, watch
apps, ...), the events on stderr and the bytes of the zip format are not. Whether `link(2)`
works is part of the initial state; where it does not, every Mach-O has one link and is
framed.

What the model shows of the code beside its properties:

* On the route without a source IPA a local disk that is full stops the copy out of the
  session. Nobody drains stdout there, as `RunHelperExecs` does (`ops.go:750`): once the
  window is full, the helper and the host wait for each other for ever. `RunEnds` excepts
  exactly that (`host = "stopped"`).
* `--skip-appex` leaves the extensions in `PlugIns/` and in `Extensions/` encrypted
  (`decrypt.c:265`), and `Verify` exempts `PlugIns/` only (`verify.go:189`): such a run of an
  app with `Extensions/*.appex` ends with "still encrypted". `CleanRunDecrypts` says so.
* `Verify` accepts a file that was cut off after its crypt region, skips one cut within its
  load commands, and slices beyond the end of one cut in between (`verify.go:157`), unless
  `--extra-verify` compares it with the source.
* Without a source, a file whose destination could not be opened again after the `unlink`
  is missing from the IPA, and no step notices.
* A `"mixed"` file passes `Verify`, which looks at the flag and for a region of zeroes;
  `VerifiedNotEncrypted` is about files that are as shipped.
* A file written through its link is a link still. With a source IPA the filter holds it
  back, the encrypted one of the source takes its place and `Verify` refuses the result;
  without one it is packed like any other, and nothing tells that the installed app has
  changed (`InstalledUntouched` promises acceptance on the frames' route only).
* A directory that cannot be opened is left out of the walk with all that is in it
  (`helper.c:83`, `decrypt.c:444`; `Unreadable`).

### 2.6 VersionsScreen

`ui` says what the goroutine of `runVersionsUI` does: the eager fetch of the newest rows,
the `select` loop, a send on `queue` that may have to wait (`Send`, apart from `Enqueue`
because the channel is bounded), the drain after q or d (`"closing"`), and the return. A key
is one action (`MoveKey`, `EnterKey`, `SpaceKey`, `DoneKey`, `QuitKey`), and so is an
applied result with the save of the cache that follows it (`Receive`); the save may fail.
Each worker takes an id (`Take`), is answered (`Answer`: well, or with any error), hands the
answer over (`Deliver`) and ends when the queue is closed and empty (`Leave`). `cache` is
`cache.Versions` in memory and `disk` the file. `Reopen` is the next run of the screen, after
a return or a kill at any step, from what is on disk, or from an empty map when the file
cannot be read or parsed (`unread`).

`Guess` and `Fill` are `rebuildPredictions` and `monotonicVersionFill`, recursion free:
`PathAt` gives the k-th version of the descent that the code builds in a slice. A version is
`<<major, minor, patch>>`, which is what `parseSemver3` makes of the string, or blank;
`HistoryAssumption` says that a history gives each row one of these, in any order.

Left out: the drawing, the filter of the terminal's escape sequences, the spinner's timer.

What the model shows beside its properties:

* `enqueue` sends on `queue` from the goroutine that alone receives from `results`
  (`versions_tui.go:270`). With more than 260 rows asked for (256 in the queue, two results,
  two workers) the screen and the workers wait for each other for ever; the terminal is in
  raw mode, so Ctrl-C is a byte that nobody reads. `RoomForAll` is the exact bound, and
  `NeverStuck` is proved below it.
* Leaving the screen closes the queue but does not empty it: q waits until every id already
  queued was asked of Apple.
* When the workers are gone, the drain's `select` may see the closed channel before the
  last answers (`versions_tui.go:236`): as many as `results` holds are dropped and not
  cached, so `CacheGrows` is about what was saved, and `PendingAnswered` allows a return.
  `OneRequest` says that nothing else is left unanswered then.
* A run that could not read the cache file starts from an empty map (`versions.go:154`), and
  its first save puts the small document in the place of the old one, whatever was in it.
  `CacheGrows` excepts such a run.

### 2.7 LocalState

Each process runs one command after another; `step` is where the command is, `check` where
the update check beside it is, and `save` where each of the two is in `Config.Save`:
`Marshal`, `OpenTmp`, `WriteTmp`, `RenameTmp`, with `SaveFails` at any of them. `file` holds
the six names, each missing, cut off, a program or a configuration; `fd` says which name a
writer has open, and a rename takes along those who have the file open, as the file system
does. `Leave` ends a process at any step, by its own end or a kill, and keeps the files. The
machine itself does not fail: `Save` syncs what it has written before it renames
(`config.go:239`), `replaceExecutable` does not (`self_update.go:217`), so that after a power
cut the new executable may be cut off although the steps were taken in order.

The commands: `auth` and `bootstrap` with and without `--reset` (`Clear`, `Prompt`, `Login`,
`Device`), `fetch` for those that ask Apple for something, `keep`, `update` (`Stage`, `Fill`,
`Mode`, `Unback`, `Backup`, `Swap`, `Undo`: `replaceExecutable`) and `update --rollback`
(`Stat`, `Aside`, `Restore`, `Putback`, `Tidy`). A fetch is `withAuth` around one request:
`Attempt`, `Reauth`, `Purchase`, `Exhausted`. A token is the epoch in which it was issued and
`Expire` begins a new one, at any time, so the order of the checks (token, then licence) is
the code's and Apple's. `Refused` is `ErrPasswordTokenExpired`, which Apple's answer gives for
an expired token, and also when it asks to sign in or to verify the device, says that the
licence exists (`download.go:182`) or that the password has changed (`purchase.go:76`),
whatever the token is. `Licensed` is a purchase taken for one that succeeded, with a licence or,
after a status of 500 (`purchase.go:87`), without.

`shared`, `clash`, `since`, `spent` and `misled` are history variables: two saves under way at
once, two exchanges of the executable at once, the epoch in which an operation began, that it
ended with "exhausted retries", and that an answer was taken for an expired token that was
current or for a licence that was not there. The first two are premises of `ConfigWhole`,
`SaveReachesDisk` and `ExecutableKept`, because without them the promises do not hold: there is
no lock.

What the model shows beside its properties:

* The command and its update check save through one `config.json.tmp`. If both saves
  overlap, a cut-off document can be renamed to `config.json`, and every later command stops
  while reading it. `ConfigWhole` excepts exactly that.
* `Save` writes the whole document from memory. With two processes, one that read the file
  before `auth --reset` of the other, which `main.go:89` describes as "forget saved Apple ID
  credentials", writes the credentials back.
* A password mistyped stays in memory after the login failed, and the notice or the update
  check may save it.
* All three attempts can be spent with a token that is current and no licence: on purchases
  that a status of 500 makes look successful, or on signing in again because the device has
  to be verified. `RemediesSuffice` names these answers (`misled`) beside an expiry.

Left out: two-factor codes and storefronts, the fields of the configuration other than the
account, checksums and archive formats of a release, and that the two fetch workers of the
versions table share one configuration (one request of a command at a time).

## 3. What the runs show

| Run | Instance | Shows |
|---|---|---|
| `decrypt_run` | seven flag combinations covering every route, keep policy and flag value; two interrupts; all failures | `NoCleanupTwice`, `CloseIsLast`, `ReleasedOutputNotPartial`, `DeviceCopySound`, `UninterruptedRunIsClean`, `UninstallOnlyOurs`, `Terminates` |
| `decrypt_deferred` | the same | a counterexample to `DeferredRunIsHarmless` |
| `decrypt_force` | the same | a counterexample to `ForceUninstallHonoured` |
| `inject_frameworks` | six bundles of two to four frameworks, three passes, pools of one to seven threads, calls of the pool's creation and of every pass that answer late | `LoadedIsMapped`, `AttemptsRespectDeps`, `DryPassIsFixpoint`, `Terminates` |
| `inject_leftovers` | two frameworks, the code's own limits | a counterexample to `LeftoversWereTried` |
| `inject_pool` | fourteen frameworks, the code's own limits | a counterexample to `FullPoolSuffices` |
| `encrypted_cache` | three runs, two builds of two and three blocks; runs are symmetric | `ResumesPrefix`, `SettledWhole`, `NeverMixed`, `CachedStays` |
| `apple_auth` | two installation screens, two sign-in screens, two picker requests | `Implements`: the refinement of `OperationLine`; `PromptStaysCurrent`, `CheckingWhileWorking`, `EveryRequestAnswered`, `ButtonSettles` |
| `frame_stream` | one main executable, framework, plug-in and extension, all encrypted; both routes, all options; two failures | `InstalledUntouched`, `PlainStays`, `VerifiedNotEncrypted`, `CleanRunDecrypts`, `RunEnds`, and `Implements`: the refinement of `OutputIPA` |
| `frame_filter` | the same | a counterexample to `SentIsDecrypted` |
| `versions_screen` | three rows, one worker, one place in each channel, two eager rows; no, one or any number of picks; a cache file that cannot be read; six histories of version numbers | `OneRequest`, `PickHonoured`, `ColumnDescends`, `CacheGrows`, `PendingAnswered` |
| `local_state` | one process with its update check beside it, three commands of any kind, two epochs of tokens | `ConfigWhole`, `ExecutableKept`, `RemediesSuffice`, `SaveReachesDisk` |

Every run that passes also checks the module's `TypeOK`, except `apple_auth` and
`local_state`, whose `TypeOK` is proved (`TypeCorrect` of `AppleAuthProofs` and of
`LocalStateProofs`). `CHECK_DEADLOCK FALSE` stands where the
system may stop: a run that ended, a target that hangs, a user who presses no key, an app
that is idle, a bound on commands that is used up.

**Bounds.** *DecryptRun*: the process takes each step once, so nothing grows; flags that do
not interact are not multiplied. Two interrupts are enough because the second one ends the
process. *InjectFrameworks*: three frameworks make the shortest chain that needs three
passes in the worst order, and a cycle; four independent ones let a late answer meet a later
call of the same pass; `MaxPasses`, `PoolSlack` and `PoolCap` are lowered so that the cap
and an empty pool are reached. *EncryptedCache*: with two builds of different sizes an
offset can lie inside one and past the end of the other; three runs let one create, one
resume, and one take over a name that has been removed. *AppleAuth*: one operation runs
while up to five wait, with two candidates for an alert. A screen is used again after it has
been answered, so histories are unbounded. *FrameStream*: two writes per frame and two in
the window let a frame lie in the window whole, in halves, and across a cut; with bodies of
two pieces and a window of three the same properties hold on 3.9 million states. `MaxFaults`
= 2 lets a second thing fail in the course of the first (a read that fails and then a lost
connection; a dump cut off and then a file left out; a file written through and then another
failure); the theorems of section 5 hold for any number. *VersionsScreen*: three rows leave
one that is fetched only on demand, between and below fetched ones; with one worker and
channels of one place there are exactly as many places as rows, so that `PendingAnswered` is
checked at the bound (`RoomForAll`) below which it holds and at which every place can be
full; what is true of two workers side by side is in the theorems of section 5, which are
about any number; a run may be reopened any number of times. `FillDescends` covers every two
versions of the histories and every gap up to six rows. *LocalState*: three commands are
enough for an update, a rollback and a command that finds what they left, or for a sign-in,
a reset and a fetch; two epochs give one expiry in the middle of an operation. The command
and its update check already overlap; with two processes the state space is out of reach of
a short run, and the theorems of section 5 hold for any number.

**Fairness.** *DecryptRun*: `WF(MainNext)` and `WF(SignalNext)`: the Go runtime schedules
both goroutines. No interrupt has to come and no connection has to heal. Nothing is assumed
at `"choose"`, where the menus wait for the user and the requests to the App Store have no
time limit (`appstore/client.go:31`); the wait for a StoreKit installation has one
(`appdl.m:157`, `decrypt.go:1476`). `Terminates` excepts a connection that stalls again and
again, because no remote call has a timeout, and, as long as nobody interrupts, a process that
waits at `"choose"` or in the stopped copy for ever.
*InjectFrameworks*: `WF(Helper)`: one thread, each of whose waits has a timeout; nothing is
assumed of the target. *AppleAuth*: a helper started ends and the 100 ms timer fires; the
user need not do anything. *FrameStream*: `WF(Helper)`, `WF(SessionEnds)`, `WF(Host)`: a
process on the device, a goroutine and main; a failure never has to happen.
*VersionsScreen*: weak fairness for what the screen does by itself and for the workers'
takes and exits; strong fairness for `Receive`, because Go's `select` picks at random among
what is ready, and for `Deliver`, because waiters on a channel are served in order. No key
has to be pressed, and Apple need not answer: that every request ends is a premise of
`PendingAnswered` (`RequestsEnd`), because the `http.Client` at
`internal/appstore/client.go:31` has no timeout. *EncryptedCache* and *LocalState* state
safety only.

## 4. Disagreements with the text of the code

1. `decrypt.go:1611` calls the deferred second `run()` harmless. `run()` empties the stack
   before it calls anything, so a main goroutine that returns while the signal goroutine is
   draining finds nothing, returns, and the process ends under the drain: staging, app or
   working copy stay behind (`decrypt_deferred`).
2. `main.go:129` says that `--force-uninstall` always removes the app. The StoreKit routes
   never set the variables the closure reads (`decrypt_force`).
3. `inject.c:760` and `:928`: a framework that was mapped but not dumped is marked loaded
   without counting as progress. The loop then stops before its dependents are tried, and
   reports that dlopen failed for them (`inject_leftovers`).
4. `inject.c:715` says that the pool covers the worst-case sum of attempts. It does not, for
   a chain in the worst order beside frameworks that fail in every pass (`inject_pool`).
5. `helper.c:61` says that the frames are the Mach-Os "we actually decrypted" and that one
   link identifies them. `write_output` breaks the link before it writes: a dump whose write
   fails is a cut-off file with one link, is sent, replaces the source's file in the IPA, and
   the helper exits with 0 (`frame_filter`).

## 5. What is proved

For all values of the constants that satisfy the named assumptions. `PROJECT.json` lists
the theorems; each says what it is about in a comment.

**DecryptRunProofs** (from `OptionsAssumption`: any set of flag combinations).
`TypeCorrect` is inductive by itself. `StackInv` strengthens `NoCleanupTwice` and
`CloseIsLast`: a cleanup whose registration main has not reached (`Before(c)`) is nowhere,
and `"session"` can only be the first entry of the stack. Without the first, a push could
repeat an entry; without the second, the order of a list that is taken later is unknown.
The proof splits a step into what the handler, `Take` and a cleanup can do to stack and
session (`HandlerEffect`, `CleanupEffect`). `DataInv` = `OutputInv`, `CopyInv`,
`UninstallInv`: where `pc` must be when the output is complete, when the device copy is
whole, and when the uninstall variables are set; it gives `NoPartialOutput`,
`DeviceCopyVerified` and, as an action property, `OnlyOursUninstalled`. `CleanInv` is about
a run that nobody interrupts: only main runs cleanups in it (`MainAlone`), whatever main
leaves behind at a step has its cleanup in main's list or on the stack (`CleanupDue`), and
the output file is what `pc` says (`OutputWhole`), and the rewrite next to it is there after
a failed rename and only then; it gives `UninterruptedRunIsClean`, with that exception.
`ForceHonouredOffStoreKit` is the part of `ForceUninstallHonoured` that does hold, on every
route but StoreKit's; its invariant `Decided` says that from the working output on the handler
has set the variables the closure will read.

**InjectFrameworksProofs** (from `ScenarioAssumption`, `BoundsAssumption`: any bundles,
pass cap and pool size). The type invariant; `FlaggedAreMapped` (every flagged framework is
in the image list, also when a stale exception was read as an answer);
`DependenciesFirst`; `DryPassLeavesNothing`, which needs that up to the present index every
framework was visited, is flagged or is blocked, and that `fresh` counts the flags of the
pass.

Then what is true beside the two counterexamples. `LeftoversAreExplained`: after a dry pass,
if no framework was flagged uncounted, one reported as failed was tried, or its path could not
be staged. `ExhaustionBound`: the pool runs dry only if 2·created < C(C+1), C being the number
of frameworks to load. `Ledger` keeps the books: every pass but the first follows one that
loaded a candidate, and a loaded one takes no thread again, so at most C, C−1, C−2, ...
threads are taken. `NineFrameworksFit` puts in the code's own reserve of 32 and cap of 800:
with up to nine frameworks the comment at `inject.c:715` is right. `HelperWindsDown` is the
safety core of `Terminates`: a natural number, `StepsLeft`, falls with every step of the
helper, and no step of the target changes it.

**EncryptedCacheProofs** (from `CacheAssumption`: any number of runs and builds, any
sizes). `CachedIsWhole` is about any number of processes working on one build at once. Its
invariant `SettledInv` says: temporary files hold only holes and blocks of the build
(`OneSource`), so the directory read at their end is the build's; and every block of the
IPA is good or is still *behind* some run that is patching (`Covered`). The second half is
what survives another run's truncation: the run that truncates is behind everything.
`ResumesPrefix`, `NeverMixed` and, as an action property, `CachedStays` are about runs one
after the other, of any builds. Their invariant `InTurn` says what the one active run
(`OneActive`, `OthersRest`) knows of the two files (`Knows`): while it downloads there is no
IPA, its offset is the length of the file it resumes, and that file ends like its build when
the server has nothing left to send; while it patches, the IPA is the beginning of its build.
So no step can leave a complete IPA that is not whole (`CompleteIsWhole`).

**AppleAuthProofs** (from `AuthAssumption`: any number of screens and picker requests).
`IInv` adds to the module's invariants that a poll is never scheduled under an alert
(`AlertAlone`): a poll that fired there would take the generation away and leave both
buttons dead. `EnqueueAdds` and `FinishRemoves` state what the two queue methods do to the
set of operations in the queue; `WorkIsActive` links the queue to the active count, so that
the idle poll cannot take the generation of a request at work. `Refines` proves that
`AppleAuth` implements `OperationLine`: those who wait are those in the queue (`QueueSound`,
which is a theorem of its own, `QueueIsSound`, and in the runs is implied by the refinement),
`Enqueue` is `Ask`, `Finish` is `Answer`, and every other handler leaves the line as it is.

**FrameStreamProofs** (from `FrameAssumption`: any bundle, frame length, window and number
of failures). `InstalledSafe` has an invariant of three parts. `Damage`: an installed file
that has changed is a link still, was encrypted and was asked for, because a dump is tried
of no other (`DumpWanted`). `NoDamage`: without a failure none has changed. `Filtered`: of a
file that is a link no frame is on the wire, in the reader's hand or in the IPA, so that
Assemble takes the source's version, which is encrypted; and that one Verify refuses.
`DecryptedStays` needs `Pending`: each loop's remaining files have not been dumped by an
earlier one. `Refines` proves that `FrameStream` implements `OutputIPA`. Its invariant
`StreamInv` says that as long as the helper's `rc` is 0, the connection is up and nobody
killed the helper, the writes on the wire are a `Chain`: they lead, each allowed after the
one before, from the reader's place in a frame to the sender's (`StreamOK`); and that
success is only ever reported of a helper that finished so and was read to its end
(`EndOK`). So a reader who sees success never took a piece for a header, and what it stored
is what the staging copy still holds (`Kept`), which no longer changes. `ChainAppend` and
`ChainTail` are the two facts about sequences that everything rests on.
`AcceptedIsDecrypted` needs only that what Verify leaves out (`Exempt`) was not asked for.
`FaultlessDecrypts` adds to `StreamInv` what is true as long as nothing has failed
(`CleanInv`): each loop has decrypted what it has left behind (`CleanStaging`), neither side
has seen an error (`CleanSession`), and every file that is to be sent is still to come in
the walk, on the wire, in the reader's hand or stored (`CleanSent`, `InHand`). So Assemble
fills from the source only what no dump has changed. `FilterSendsDumps` is what the one-link
filter does tell (`frame_filter` shows what it does not): where links can be made, a file
that is sent was reported as dumped, or a dump of it was cut short by a failure
(`DumpedOrLinked`).

**VersionsScreenProofs** (from `ScreenAssumption` and `HistoryAssumption`: any number of
rows and workers, any capacities, any histories). `RequestedOnce` shows that an id is in
exactly one of four places; each action moves it to the next. That nothing but unread answers
is left at the return needs that a worker leaves an empty queue only, and the screen returns
after the last of them (`LeftLast`, `AllLeft`). `PicksHonoured` needs that with a limit of one
no two rows are selected (`OneAtMost`). The action property `CacheNeverShrinks` needs that the
file is a subset of the memory while the process lives, unless it could not be read
(`DiskCached`). `NeverStuck` follows by
counting: were all waiting, the four places would be full and, being disjoint, hold more
rows than there are. `ColumnAlwaysDescends` is about what the guesses compute: `Newer` is a
strict total order, the descent between two versions is decreasing (`PathDescends`), the
places that a gap samples on it are different ones when it is long enough (`QuotientStep`),
and a guessed row lies between the nearest fetched ones. A nearest one exists because the
natural numbers are well founded (`LeastNatural`; the library's induction theorems take an
operator and cannot be used).

**LocalStateProofs** (from `LocalAssumption`: any number of processes, with or without
update checks, any number of commands and epochs). `ConfigStaysWhole`: a command saves only
at a step that waits for it (`InTurn`), so as long as no two saves overlapped, at most one
writer is under way, and `config.json.tmp` is whole when it renames it (`Alone`); no step on
the executable touches the two names (`ExchangeStill`). `ExecutableStays`: no save has a
name of the executable open (`WritesConfig`), and `Exchanging` says for each step of an
exchange which of the names hold a program: there is always one in place or in the backup.
`ThreeAttempts`: within one epoch, and as long as no answer was taken for what it is not
(`misled`), the first attempt may cost a sign-in, the second a licence, and the third needs
neither (`Soon`); what other processes do cannot take the licence away. `SavesReachDisk`: a
save reported to a command has put that command's configuration on the disk, unless saves
overlapped. `Documented` follows the document from the memory through the buffer into the
temporary file; it stands because the command changes nothing while it waits and, by
`Alone`, nobody else writes to that file.

**Only model-checked.** Liveness (`Terminates` twice, `EveryRequestAnswered`,
`ButtonSettles`, `RunEnds`, `PendingAnswered`): fairness and ENABLED are outside the prover's
reach. Every invariant and every action property of the passing runs, and both refinements,
are proved.

## 6. What is not modelled

* **Data conversion and plain I/O**: the Mach calls of the device helper, zip and Mach-O
  encodings, plist edits, HTTP formats, terminal drawing and the app's table views.
* **App Store look-ups and search**: requests without state; what a sign-in, a purchase and
  a ticket do to the account is in `LocalState`.
* **The on-device App Store helper** has no module of its own: it takes one operation from its
  flags, calls the packages that `LocalState` and `EncryptedCache` model, installs with
  `appinst`, prints `@evt` lines on stdout and ends with an exit status. Its part in the cache
  is in `EncryptedCache`, and the order in which the app runs it is `AppleAuth`.
* **StoreKit and the alert tweak**: which alert SpringBoard shows while the sentinel is fresh
  is decided outside this repository; what the code promises of the sentinel is an age limit,
  one comparison.
* **Daemon**: what order its events come in is up to the kernel's pipes; the code of its own
  is two copying loops and an exit status.
* **`EnsureHelper`**: a file under the hashed name counts as the helper. An interrupted upload
  leaves a partial one, which no later step notices; there is no promise to state.
* **Doctor, bootstrap's device checks, packaging**: queries, package installation over SSH,
  build scripts.

`PROJECT.json` gives the reason with every component, and with every hazard no property
covers.

## 7. Further work

A lock around `Config.Save`, with which `ConfigWhole` and `SaveReachesDisk` would need no
premise, could be stated next.
