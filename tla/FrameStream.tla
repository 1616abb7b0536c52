----------------------------- MODULE FrameStream -----------------------------
(***************************************************************************)
(* From the installed bundle to the decrypted IPA.  On the device,          *)
(* run_decrypt (helper/helper.c) makes a staging copy out of hard links,    *)
(* decrypt_bundle and decrypt_appexes (helper/decrypt.c) replace files of   *)
(* it by dumps, and the result leaves on stdout: framed Mach-Os             *)
(* (--execs-only) or a whole zip.  On the host, RunHelperExecs or RunHelper *)
(* (internal/device/ops.go) reads it while the session runs in another      *)
(* goroutine, Assemble (internal/pipeline/assemble.go) completes the IPA,   *)
(* and Verify (internal/pipeline/verify.go) looks at it.                    *)
(*                                                                          *)
(* Only the Mach-Os that can be encrypted are modelled, none of them under  *)
(* an excluded path, and of the contents only what the readers tell apart.  *)
(* How frameworks are brought into the target is InjectFrameworks.          *)
(***************************************************************************)
EXTENDS Naturals, Sequences

CONSTANTS
  Main,        \* the app's executable
  Framework,   \* frameworks and dylibs of the app
  PlugIn,      \* executables of PlugIns/*.appex ...
  Extension,   \* ... and of Extensions/*.appex
  Encrypted,   \* the files FairPlay encrypts
  Stray,       \* a name read out of bytes that are no header
  BodyLen,     \* writes a file body takes
  Window,      \* writes the session buffers
  MaxFaults    \* bound: failures in one run

Appex == PlugIn \cup Extension
File  == {Main} \cup Framework \cup Appex
Entry == File \cup {Stray}

ASSUME FrameAssumption ==
  /\ Main \notin Framework \cup Appex
  /\ Framework \cap Appex = {} /\ PlugIn \cap Extension = {}
  /\ Encrypted \subseteq File
  /\ Stray \notin File
  /\ BodyLen \in Nat \ {0} /\ Window \in Nat \ {0} /\ MaxFaults \in Nat

\* What is in a file: as shipped, decrypted, marked as decrypted with some pages that are
\* not, or cut off by a failed write before the magic is complete, within the load
\* commands, within the crypt region or after it.
Truncated == {"stub", "header", "body", "tail"}
Version   == {"none", "cipher", "clear", "plain", "mixed"} \cup Truncated
Garbled   == "garbled"    \* bytes of several files, or fewer than announced

\* The writes on stdout: the header of a file, the i-th piece of its body, the end of the
\* zip; or what is left of a header.
Header(f)   == <<"head", f, 0>>
Piece(f, i) == <<"data", f, i>>
ZipEnd      == <<"end", Stray, 0>>
Torn        == <<"part", Stray, 0>>
Unit        == {"head", "data", "end", "part"} \X Entry \X (0..BodyLen)

Source == [e \in Entry |->
             IF e = Stray THEN "none" ELSE IF e \in Encrypted THEN "cipher" ELSE "clear"]

VARIABLES
  opt,        \* route, --skip-appex, --extra-verify, and whether link(2) works
  version,    \* the staging copy
  linked,     \* its files that are still hard links into the installed bundle
  installed,  \* the installed bundle
  staged,     \* the staging directory exists
  helper,     \* where the helper is
  traced,     \* the main target was spawned by ptrace
  todo,       \* files of the current loop that are still to come
  sending,    \* the file being written to stdout and the writes left
  rc,         \* emit_machos_recursive or run_zip has failed
  exit,       \* the helper's exit status
  pipe,       \* stdout on its way to the reader
  cut,        \* the connection is lost
  outcome,    \* what RunSudoStream returned; "none" while the session runs
  host,       \* where the host's reader is
  cur,        \* the frame being read: its name, the writes left, all its own so far
  entries,    \* entries of the output IPA
  parseErr,   \* parseFrames has failed
  verdict,    \* of Verify
  faults      \* failures so far

staging == <<version, linked, installed>>
device  == <<staging, staged, helper, traced, todo, sending, rc, exit>>
wire    == <<pipe, cut, outcome>>
reader  == <<host, cur, entries, parseErr, verdict>>
vars    == <<opt, device, wire, reader, faults>>

Execs   == opt.route = "execs"
Idle    == [file |-> Stray, left |-> 0]
NoFrame == [file |-> Stray, left |-> 0, own |-> TRUE]

NoFault == UNCHANGED faults
Fault   == faults < MaxFaults /\ faults' = faults + 1

Init ==
  /\ opt \in [route : {"execs", "zip"}, skipAppex : BOOLEAN, extra : BOOLEAN, links : BOOLEAN]
  /\ opt.extra => Execs
  /\ version = Source /\ installed = Source
  /\ linked = IF opt.links THEN File ELSE {}
  /\ staged = FALSE
  /\ helper = "stage" /\ traced = FALSE /\ todo = {} /\ sending = Idle
  /\ rc = 0 /\ exit = "none"
  /\ pipe = <<>> /\ cut = FALSE /\ outcome = "none"
  /\ host = IF Execs THEN "frame" ELSE "copy"
  /\ cur = NoFrame
  /\ entries = [e \in Entry |-> "none"]
  /\ parseErr = FALSE /\ verdict = "none" /\ faults = 0

-----------------------------------------------------------------------------
(* The staging copy and the dumps.                                          *)

\* write_output: the name is free, and the file is created anew ...
Create(f, v) ==
  /\ linked' = linked \ {f}
  /\ version' = [version EXCEPT ![f] = v]
  /\ UNCHANGED installed

\* ... or open truncates what is there, which the staging copy shares with the installed
\* bundle.
WriteThrough(f, v) ==
  /\ f \in linked /\ UNCHANGED linked
  /\ version' = [version EXCEPT ![f] = v]
  /\ installed' = [installed EXCEPT ![f] = v]

MutWriteOutput(f, v) == IF f \in linked THEN WriteThrough(f, v) ELSE Create(f, v)   \* no unlink

\* The destination is unlinked first; what unlink returns is not looked at (Dump).
WriteOutput(f, v) == Create(f, v)

\* dump_image: done; nothing readable in the target, or a failed open; a region of which
\* only a part differs from the one on disk; a failed write; a failed unlink, or both (cut
\* off in one place only: no reader can tell how a file got there).
Dump(f) ==
  \/ NoFault /\ WriteOutput(f, "plain")
  \/ Fault /\ UNCHANGED staging
  \/ Fault /\ \E v \in Truncated \cup {"none", "mixed"} : WriteOutput(f, v)
  \/ Fault /\ \E v \in {"plain", "body"} : WriteThrough(f, v)

Steps(here, there) == helper = here /\ helper' = there

CopyTree ==
  /\ staged' = TRUE
  /\ \/ NoFault /\ Steps("stage", "spawn") /\ rc' = 0
     \/ Fault /\ Steps("stage", "remove") /\ rc' = 1
  /\ UNCHANGED <<opt, staging, traced, todo, sending, exit, wire, reader>>

MutAppexTodo == IF opt.skipAppex THEN {} ELSE PlugIn \cap Encrypted   \* one directory

AppexTodo == IF opt.skipAppex THEN {} ELSE Appex \cap Encrypted

\* SBS launches the app suspended; ptrace is the fallback; without a target the bundle
\* is given up, and decrypt_appexes comes next.
Spawn ==
  /\ \/ NoFault /\ Steps("spawn", "first") /\ traced' = FALSE /\ UNCHANGED todo
     \/ Fault /\ Steps("spawn", "first") /\ traced' = TRUE /\ UNCHANGED todo
     \/ Fault /\ Steps("spawn", "appexes") /\ todo' = AppexTodo /\ UNCHANGED traced
  /\ UNCHANGED <<opt, staging, staged, sending, rc, exit, wire, reader>>

\* main_dumped
MainDumped == version[Main] \in {"plain", "mixed", "clear"}

\* A dump reads the installed file, and is tried of one that is encrypted.
DumpMain ==
  IF ~MainDumped /\ installed[Main] = "cipher" THEN Dump(Main) ELSE NoFault /\ UNCHANGED staging

\* A traced target ends here: nothing is retried and no framework is looked at.
AfterFirst ==
  IF traced THEN Steps("first", "appexes") /\ todo' = AppexTodo
  ELSE Steps("first", "settle") /\ UNCHANGED todo

FirstDump ==
  /\ DumpMain
  /\ AfterFirst
  /\ UNCHANGED <<opt, staged, traced, sending, rc, exit, wire, reader>>

\* target_find_main_base or target_read_runtime_image fails: main_base stays 0 and the
\* retry is not tried either.
NoMainImage ==
  /\ Fault
  /\ IF traced THEN Steps("first", "appexes") /\ todo' = AppexTodo
     ELSE Steps("first", "images") /\ todo' = Framework \cap Encrypted
  /\ UNCHANGED <<opt, staging, staged, traced, sending, rc, exit, wire, reader>>

MutSettle ==   \* the retry does not ask whether the first attempt worked
  /\ Steps("settle", "images")
  /\ todo' = Framework \cap Encrypted
  /\ Dump(Main)
  /\ UNCHANGED <<opt, staged, traced, sending, rc, exit, wire, reader>>

\* spawn_run_and_suspend, and the second attempt at the main executable.
Settle ==
  /\ Steps("settle", "images")
  /\ todo' = Framework \cap Encrypted
  /\ DumpMain
  /\ UNCHANGED <<opt, staged, traced, sending, rc, exit, wire, reader>>

\* An image dyld has mapped, or one that inject_missing_frameworks maps.
DumpImage(f) ==
  /\ helper = "images" /\ f \in todo
  /\ Dump(f)
  /\ todo' = todo \ {f}
  /\ UNCHANGED <<opt, staged, helper, traced, sending, rc, exit, wire, reader>>

BundleDone ==
  /\ todo = {} /\ todo' = AppexTodo
  /\ Steps("images", "appexes") /\ NoFault
  /\ UNCHANGED <<opt, staging, staged, traced, sending, rc, exit, wire, reader>>

\* decrypt_bundle for an appex: always ptrace, one attempt.
DumpAppex(f) ==
  /\ helper = "appexes" /\ f \in todo
  /\ Dump(f)
  /\ todo' = todo \ {f}
  /\ UNCHANGED <<opt, staged, helper, traced, sending, rc, exit, wire, reader>>

AppexesDone ==
  /\ todo = {} /\ todo' = File
  /\ Steps("appexes", "send") /\ NoFault
  /\ UNCHANGED <<opt, staging, staged, traced, sending, rc, exit, wire, reader>>

-----------------------------------------------------------------------------
(* Sending: emit_machos_recursive, or run_zip.                              *)

\* A frame is a Mach-O with one link; the zip takes every file there is.
Sent(f) == IF Execs THEN version[f] \notin {"none", "stub"} /\ f \notin linked
           ELSE version[f] # "none"

Room == ~cut /\ Len(pipe) < Window

Between == helper = "send" /\ sending.left = 0

SkipFile(f) ==
  /\ Between /\ f \in todo /\ ~Sent(f) /\ NoFault
  /\ todo' = todo \ {f}
  /\ UNCHANGED <<opt, staging, staged, helper, traced, sending, rc, exit, wire, reader>>

\* A directory or a file in it cannot be opened or read: left out without a word.
Unreadable ==
  /\ Between /\ Fault
  /\ \E lost \in (SUBSET todo) \ {{}} : todo' = todo \ lost
  /\ UNCHANGED <<opt, staging, staged, helper, traced, sending, rc, exit, wire, reader>>

\* emit_macho_frame cannot open it: remembered, and the walk goes on.
OpenFails(f) ==
  /\ Between /\ Execs /\ f \in todo /\ Sent(f) /\ Fault
  /\ todo' = todo \ {f} /\ rc' = 1
  /\ UNCHANGED <<opt, staging, staged, helper, traced, sending, exit, wire, reader>>

SendHeader(f) ==
  /\ Between /\ f \in todo /\ Sent(f) /\ Room /\ NoFault
  /\ pipe' = Append(pipe, Header(f))
  /\ sending' = [file |-> f, left |-> BodyLen]
  /\ todo' = todo \ {f}
  /\ UNCHANGED <<opt, staging, staged, helper, traced, rc, exit, cut, outcome, reader>>

SendBody ==
  /\ helper = "send" /\ sending.left > 0 /\ Room /\ NoFault
  /\ pipe' = Append(pipe, Piece(sending.file, BodyLen - sending.left + 1))
  /\ sending' = IF sending.left = 1 THEN Idle ELSE [sending EXCEPT !.left = @ - 1]
  /\ UNCHANGED <<opt, staging, staged, helper, traced, todo, rc, exit, cut, outcome, reader>>

\* After a failure the frames of the other files still follow; the zip is given up.
Remaining(s) == IF Execs THEN s ELSE {}

ReadFails ==
  /\ helper = "send" /\ sending.left > 0 /\ Fault
  /\ sending' = Idle /\ rc' = 1 /\ todo' = Remaining(todo)
  /\ UNCHANGED <<opt, staging, staged, helper, traced, exit, wire, reader>>

\* EPIPE: SIGPIPE is ignored, so that the staging directory is still removed.
BrokenPipe ==
  /\ helper = "send" /\ cut /\ NoFault
  /\ rc' = 1
  /\ \/ sending.left > 0 /\ todo' = Remaining(todo)
     \/ sending.left = 0 /\ \E f \in todo : Sent(f) /\ todo' = Remaining(todo \ {f})
  /\ sending' = Idle
  /\ UNCHANGED <<opt, staging, staged, helper, traced, exit, wire, reader>>

\* The zip's central directory is its last write.
FilesSent ==
  /\ Between /\ todo = {} /\ NoFault
  /\ helper' = "remove"
  /\ IF Execs \/ rc = 1 THEN UNCHANGED <<pipe, rc>>
     ELSE \/ cut /\ rc' = 1 /\ UNCHANGED pipe
          \/ Room /\ pipe' = Append(pipe, ZipEnd) /\ UNCHANGED rc
  /\ UNCHANGED <<opt, staging, staged, traced, todo, sending, exit, cut, outcome, reader>>

\* fs_rm_rf, then the exit status.
RemoveStaging ==
  /\ Steps("remove", "exited") /\ NoFault
  /\ staged' = FALSE
  /\ exit' = IF rc = 0 THEN "zero" ELSE "nonzero"
  /\ UNCHANGED <<opt, staging, traced, todo, sending, rc, wire, reader>>

\* The kernel ends the helper.
Killed ==
  /\ helper # "exited" /\ Fault
  /\ helper' = "exited" /\ exit' = "killed"
  /\ UNCHANGED <<opt, staging, staged, traced, todo, sending, rc, wire, reader>>

-----------------------------------------------------------------------------
(* The session.                                                             *)

\* The connection is lost, with it the end of what was under way, in the middle of a
\* header if need be.
Cut ==
  /\ ~cut /\ outcome = "none" /\ Fault
  /\ cut' = TRUE
  /\ \E k \in 0..Len(pipe) :
       \/ pipe' = SubSeq(pipe, 1, k)
       \/ /\ k < Len(pipe) /\ pipe[k + 1][1] = "head"
          /\ pipe' = Append(SubSeq(pipe, 1, k), Torn)
  /\ UNCHANGED <<opt, device, outcome, reader>>

\* RunSudoStream returns once the command is over and stdout has been copied, or the
\* copying has failed; then the writing end of the host's pipe is closed.
SessionEnds ==
  /\ outcome = "none" /\ NoFault
  /\ cut \/ helper = "exited"
  /\ pipe = <<>> \/ host = "stopped"
  /\ outcome' = IF cut \/ host = "stopped" THEN "error"
                ELSE IF exit = "zero" THEN "zero" ELSE "nonzero"
  /\ UNCHANGED <<opt, device, pipe, cut, reader>>

-----------------------------------------------------------------------------
(* The host: parseFrames, the drain, Assemble; or io.Copy into the file.    *)

AtEnd == pipe = <<>> /\ outcome # "none"
Next1 == Head(pipe)
Take == pipe # <<>> /\ pipe' = Tail(pipe) /\ UNCHANGED <<cut, outcome>>

Begins(f) == cur' = [file |-> f, left |-> BodyLen, own |-> f # Stray]

\* Bytes that are no header either make an impossible length or name and announce
\* something.
ReadHeader ==
  /\ host = "frame" /\ Take /\ NoFault
  /\ \/ /\ Next1[1] = "head" /\ Begins(Next1[2])
        /\ host' = "body" /\ UNCHANGED parseErr
     \/ /\ Next1[1] = "data" /\ Begins(Stray)
        /\ host' = "body" /\ UNCHANGED parseErr
     \/ /\ Next1[1] \in {"data", "part"}
        /\ host' = "drain" /\ parseErr' = TRUE /\ UNCHANGED cur
  /\ UNCHANGED <<opt, device, entries, verdict>>

\* One more piece of the entry, which is written to the output as it comes.
Own == cur.own /\ Next1 = Piece(cur.file, BodyLen - cur.left + 1)
Content(own) == IF own THEN version[cur.file] ELSE Garbled
Store(own) == entries' = [entries EXCEPT ![cur.file] = Content(own)] /\ cur' = NoFrame
More == cur' = [cur EXCEPT !.left = @ - 1, !.own = Own] /\ UNCHANGED entries

MutReadBody ==   \* the handler is given the stream instead of a LimitReader
  /\ host = "body" /\ Take /\ NoFault
  /\ More
  /\ UNCHANGED <<opt, device, host, parseErr, verdict>>

ReadBody ==
  /\ host = "body" /\ Take /\ NoFault
  /\ IF cur.left > 1 THEN More /\ UNCHANGED host ELSE Store(Own) /\ host' = "frame"
  /\ UNCHANGED <<opt, device, parseErr, verdict>>

\* The stream ends within a body: the LimitReader just ends, and so does the entry.
BodyEndsShort ==
  /\ host = "body" /\ AtEnd /\ NoFault
  /\ host' = "frame"
  /\ Store(FALSE)
  /\ UNCHANGED <<opt, device, wire, parseErr, verdict>>

\* The handler cannot write to the output file.
HandlerFails ==
  /\ host = "body" /\ Fault
  /\ host' = "drain" /\ parseErr' = TRUE /\ cur' = NoFrame
  /\ UNCHANGED <<opt, device, wire, entries, verdict>>

MutDrain ==   \* after the session instead of before
  /\ host = "drain" /\ outcome # "none" /\ Take /\ NoFault
  /\ UNCHANGED <<opt, device, reader>>

\* io.Copy(io.Discard, pr), so that the session can complete.
Drain ==
  /\ host = "drain" /\ Take /\ NoFault
  /\ UNCHANGED <<opt, device, reader>>

MutSucceeded == outcome # "error" /\ ~parseErr   \* the exit status is not looked at

\* runErr, then parseErr, then the exit status.
Succeeded == outcome = "zero" /\ ~parseErr

RunReturns ==
  /\ host \in {"frame", "drain"} /\ AtEnd /\ NoFault
  /\ host' = IF Succeeded THEN "fill" ELSE "failed"
  /\ UNCHANGED <<opt, device, wire, cur, entries, parseErr, verdict>>

\* RunHelper: the bytes of the zip go into the file as they come.
CopyBytes ==
  /\ host = "copy" /\ Take /\ NoFault
  /\ \/ /\ Next1[1] = "head" /\ Begins(Next1[2]) /\ UNCHANGED entries
     \/ /\ Next1[1] = "data"
        /\ IF cur.left > 1 THEN More ELSE Store(Own)
     \/ Next1[1] \in {"end", "part"} /\ UNCHANGED <<cur, entries>>
  /\ UNCHANGED <<opt, device, host, parseErr, verdict>>

\* The file cannot be written: the session stops copying, and nobody drains it.
CopyFails ==
  /\ host = "copy" /\ pipe # <<>> /\ Fault
  /\ host' = "stopped"
  /\ UNCHANGED <<opt, device, wire, cur, entries, parseErr, verdict>>

CopyReturns ==
  /\ host \in {"copy", "stopped"} /\ outcome # "none" /\ NoFault
  /\ host' = IF Succeeded THEN "fill" ELSE "failed"
  /\ UNCHANGED <<opt, device, wire, cur, entries, parseErr, verdict>>

\* Assemble takes what was not substituted from the source; then Close and Sync.
Fill ==
  /\ host = "fill"
  /\ \/ /\ NoFault /\ host' = "complete"
        /\ entries' = IF Execs
                      THEN [e \in Entry |-> IF entries[e] = "none" THEN Source[e] ELSE entries[e]]
                      ELSE entries
     \/ Fault /\ host' = "failed" /\ UNCHANGED entries
  /\ UNCHANGED <<opt, device, wire, cur, parseErr, verdict>>

-----------------------------------------------------------------------------
(* Verify.                                                                  *)

MutExempt(f) == f \in PlugIn   \* with or without --skip-appex

Exempt(f) == opt.skipAppex /\ f \in PlugIn

Scanned == {f \in File : ~Exempt(f) /\ entries[f] \notin {"none", "stub"}}
Flagged(f) == entries[f] = "cipher" \/ (opt.extra /\ entries[f] \in {"body", "tail"})

\* cryptZeroed slices beyond the end of a file that stops within its crypt region, which
\* panics unless the buffer happens to be that large; with the source at hand the sizes
\* are compared instead.
Panics(f) == ~opt.extra /\ entries[f] = "body"

Verify ==
  /\ host = "complete" /\ NoFault
  /\ host' = "verified"
  /\ \/ (\E f \in Scanned : Panics(f)) /\ verdict' = "panic"
     \/ verdict' = IF \E f \in Scanned : Flagged(f) THEN "flagged" ELSE "ok"
  /\ UNCHANGED <<opt, device, wire, cur, entries, parseErr>>

-----------------------------------------------------------------------------

Helper ==
  \/ CopyTree \/ Spawn \/ FirstDump \/ NoMainImage \/ Settle \/ BundleDone \/ AppexesDone
  \/ Unreadable \/ SendBody \/ ReadFails \/ BrokenPipe \/ FilesSent \/ RemoveStaging
  \/ \E f \in File :
       \/ DumpImage(f) \/ DumpAppex(f)
       \/ SkipFile(f) \/ OpenFails(f) \/ SendHeader(f)

Host ==
  \/ ReadHeader \/ ReadBody \/ BodyEndsShort \/ HandlerFails \/ Drain \/ RunReturns
  \/ CopyBytes \/ CopyFails \/ CopyReturns \/ Fill \/ Verify

Next == Helper \/ Killed \/ Cut \/ SessionEnds \/ Host

\* The helper, the session's goroutine and main each go on; nothing has to fail.
Fairness == WF_vars(Helper) /\ WF_vars(SessionEnds) /\ WF_vars(Host)

Spec == Init /\ [][Next]_vars /\ Fairness

-----------------------------------------------------------------------------
(* Properties.                                                              *)

\* The variables stay within their ranges; no frame is read or written beyond its end.
TypeOK ==
  /\ opt \in [route : {"execs", "zip"}, skipAppex : BOOLEAN, extra : BOOLEAN, links : BOOLEAN]
  /\ version \in [Entry -> Version] /\ installed \in [Entry -> Version]
  /\ linked \subseteq File /\ todo \subseteq File
  /\ staged \in BOOLEAN /\ traced \in BOOLEAN
  /\ helper \in {"stage", "spawn", "first", "settle", "images", "appexes", "send", "remove",
                 "exited"}
  /\ sending \in [file : Entry, left : 0..BodyLen]
  /\ rc \in {0, 1} /\ exit \in {"none", "zero", "nonzero", "killed"}
  /\ pipe \in Seq(Unit) /\ Len(pipe) <= Window
  /\ cut \in BOOLEAN /\ outcome \in {"none", "zero", "nonzero", "error"}
  /\ host \in {"frame", "body", "drain", "copy", "stopped", "fill", "complete", "verified",
               "failed"}
  /\ cur \in [file : Entry, left : 0..BodyLen, own : BOOLEAN]
  /\ entries \in [Entry -> Version \cup {Garbled}]
  /\ parseErr \in BOOLEAN /\ verdict \in {"none", "ok", "flagged", "panic"}
  /\ faults \in 0..MaxFaults

\* However the device, the connection and the local disk fail, an IPA that counts as
\* complete has only whole entries, each the staged or the source's version of its own
\* file, and the staging copy no longer changes; otherwise the run fails (Assemble,
\* RunHelperExecs, RunHelper and their callers).
Delivered == host \in {"complete", "verified"}
Promise == INSTANCE OutputIPA WITH
  route <- opt.route,
  held <- version,
  status <- IF Delivered THEN "complete" ELSE IF host = "failed" THEN "failed" ELSE "running",
  ipa <- IF Delivered THEN entries ELSE [e \in Entry |-> "none"]
Implements == Promise!Spec

\* The staging copy is made of links to the files of the installed app.  A dump changes
\* one of them only if unlink failed (write_output ignores that); the file is a link still,
\* so that the one-link filter holds it back, the source's version takes its place, and
\* Verify refuses the IPA: on the frames' route such damage does not pass for a success.
InstalledUntouched ==
  /\ faults = 0 => installed = Source
  /\ \A f \in File : installed[f] # Source[f] => f \in linked /\ version[f] = installed[f]
  /\ Execs /\ verdict = "ok" => installed = Source

\* No later dump, nor the retry after the target has run, spoils a file that has been
\* decrypted (decrypt_bundle).
PlainStays == [][\A f \in File : version[f] = "plain" => version'[f] = "plain"]_vars

\* What Verify lets pass is not encrypted, wherever on the way from the target to the
\* output file a dump, a link or a frame was lost.
Requested == IF opt.skipAppex THEN File \ Appex ELSE File
VerifiedNotEncrypted == verdict = "ok" => \A f \in Requested : entries[f] # "cipher"

\* A run in which nothing fails decrypts what it was asked to.  Verify accepts the result
\* unless extensions are left out and there is one in Extensions/, which Verify knows
\* nothing of: it exempts PlugIns/ only.
LeftOut == Extension \cap Encrypted # {} /\ opt.skipAppex
CleanRunDecrypts ==
  verdict # "none" /\ faults = 0 =>
    /\ \A f \in Requested \cap Encrypted : entries[f] = "plain"
    /\ verdict = IF LeftOut THEN "flagged" ELSE "ok"

\* The helper and the host both come to an end and the staging directory is removed,
\* unless the kernel killed the helper, or the zip could not be written to the local file.
\* Then nobody reads stdout any more, and the helper and the host wait for each other.
RunEnds ==
  <>(\/ host = "stopped"
     \/ host \in {"failed", "verified"} /\ helper = "exited" /\ (staged => exit = "killed"))

\* What emit_machos_recursive sends are the files that have been decrypted, its filter
\* (one link) "identifies decrypted files": even where all links could be made.  A dump
\* that was reported as done counts, whatever it holds.
SentIsDecrypted ==
  Execs /\ opt.links /\ sending.left > 0 => version[sending.file] \in {"plain", "mixed"}
=============================================================================
