---------------------------- MODULE EncryptedCache ----------------------------
(***************************************************************************)
(* The cache of encrypted IPAs under one file name: fetchRemoteEncrypted-   *)
(* Source (cmd/ipadecrypt/decrypt.go), fetchEncrypted (cmd/ipadecrypt-      *)
(* appstore-helper/main.go), and CompleteDownload with fetchToFile and      *)
(* applyPatches (internal/appstore/download.go).                            *)
(*                                                                          *)
(* Each Run is one process that asks for the IPA once; a retry is another   *)
(* Run.  Nothing locks the two files, <name>.ipa and <name>.ipa.tmp, and    *)
(* nothing tidies them up after an error.  The name holds a bundle id and   *)
(* a display version, so several Builds may share it.                       *)
(***************************************************************************)
EXTENDS Naturals, Sequences

CONSTANTS
  Run,    \* processes, each asking once
  Build,  \* the builds that share the file name
  Size,   \* Size[b]: blocks of build b as the CDN serves it
  None    \* no file, no run

ASSUME CacheAssumption ==
  /\ Size \in [Build -> Nat \ {0}]
  /\ None \notin Run \cup Build

\* A file is a sequence of blocks.  Block <<b, i>> is the i-th of build b, counted from
\* 1; block 0 is what applyPatches appends: metadata, sinfs and the new directory.
Block == Build \X Nat
Hole  == <<None, 0>>
File  == Seq(Block \cup {Hole})

VARIABLES
  step,    \* where each run is
  build,   \* the build its ticket is for
  inode,   \* per run: the temporary file it created, if it created one
  tmp,     \* whose inode <name>.ipa.tmp names, or None
  fd,      \* per run: the inode it has open, as download or as zip
  from,    \* per run: resumeFrom, then the blocks of the build the body is past
  pos,     \* per run: next offset, in the download and then in the patched file
  dir,     \* per run: the build whose zip directory it has read
  exists,  \* <name>.ipa exists ...
  out,     \* ... with these blocks
  torn,    \* history: some run stopped while it was writing <name>.ipa
  overlap  \* history: two runs were active at the same time

fetch   == <<build, inode, tmp, fd, from, pos, dir>>
cached  == <<exists, out>>
vars    == <<step, fetch, cached, torn, overlap>>

Step ==
  {"new", "check", "prepare", "recheck", "open", "request", "write", "unzip", "patch",
   "remove", "served", "stopped"}
Over == {"served", "stopped"}
Active(r) == step[r] \notin Over \cup {"new"}

\* write(2) at offset n - 1: what lies between the end of the file and it is a hole.
Put(f, n, x) ==
  [i \in 1..(IF n > Len(f) THEN n ELSE Len(f)) |->
     IF i = n THEN x ELSE IF i <= Len(f) THEN f[i] ELSE Hole]

\* zip.OpenReader finds the directory of build b at the end of f.
EndsAs(f, b) == Len(f) = Size[b] /\ f[Len(f)] = <<b, Size[b]>>

Init ==
  /\ step = [r \in Run |-> "new"]
  /\ build \in [Run -> Build]
  /\ inode = [r \in Run |-> <<>>]
  /\ tmp = None
  /\ fd = [r \in Run |-> None]
  /\ from = [r \in Run |-> 0]
  /\ pos = [r \in Run |-> 0]
  /\ dir = [r \in Run |-> build[r]]
  /\ exists = FALSE /\ out = <<>>
  /\ torn = FALSE /\ overlap = FALSE

Go(r, here, there) == step[r] = here /\ step' = [step EXCEPT ![r] = there]

-----------------------------------------------------------------------------
(* fetchRemoteEncryptedSource.                                              *)

\* Without an external version id the lookup's version is tried first.
Begin(r) ==
  /\ Go(r, "new", "check") \/ Go(r, "new", "prepare")
  /\ overlap' = (overlap \/ \E q \in Run : Active(q))
  /\ UNCHANGED <<fetch, cached, torn>>

Check(r) ==
  /\ Go(r, "check", IF exists THEN "served" ELSE "prepare")
  /\ UNCHANGED <<fetch, cached, torn, overlap>>

\* PrepareDownload returned a ticket.
Prepare(r) == Go(r, "prepare", "recheck") /\ UNCHANGED <<fetch, cached, torn, overlap>>

\* Mutant: takes the file for missing once a ticket was bought.
MutRecheck(r) == Go(r, "recheck", "open") /\ UNCHANGED <<fetch, cached, torn, overlap>>

Recheck(r) ==
  /\ Go(r, "recheck", IF exists THEN "served" ELSE "open")
  /\ UNCHANGED <<fetch, cached, torn, overlap>>

-----------------------------------------------------------------------------
(* fetchToFile.                                                             *)

OpenTmp(r) ==
  /\ Go(r, "open", "request")
  /\ tmp' = IF tmp = None THEN r ELSE tmp
  /\ fd' = [fd EXCEPT ![r] = tmp']
  /\ from' = [from EXCEPT ![r] = Len(inode[tmp'])]
  /\ UNCHANGED <<build, inode, pos, dir, cached, torn, overlap>>

\* Mutant: does not seek; writes the rest of the body at the start of the file.
MutContinue(r) ==
  /\ Go(r, "request", "write")
  /\ from[r] \in 1..(Size[build[r]] - 1)
  /\ pos' = [pos EXCEPT ![r] = 0]
  /\ UNCHANGED <<build, inode, tmp, fd, from, dir, cached, torn, overlap>>

\* Mutant: takes an answer past the end of the build for a continuation, too.
MutContinuePastEnd(r) ==
  /\ Go(r, "request", "write")
  /\ from[r] > 0
  /\ pos' = [pos EXCEPT ![r] = from[r]]
  /\ UNCHANGED <<build, inode, tmp, fd, from, dir, cached, torn, overlap>>

\* 206: the rest of the build the ticket is for, whatever the file holds.  (Past the
\* end of it the server answers 416, which is one of the ways to Stop.)
Continue(r) ==
  /\ Go(r, "request", "write")
  /\ from[r] \in 1..(Size[build[r]] - 1)
  /\ pos' = [pos EXCEPT ![r] = from[r]]
  /\ UNCHANGED <<build, inode, tmp, fd, from, dir, cached, torn, overlap>>

\* 200: the whole build; the file is emptied only if it was not empty when opened.
StartOver(r) ==
  /\ Go(r, "request", "write")
  /\ inode' = IF from[r] > 0 THEN [inode EXCEPT ![fd[r]] = <<>>] ELSE inode
  /\ pos' = [pos EXCEPT ![r] = 0]
  /\ from' = [from EXCEPT ![r] = 0]
  /\ UNCHANGED <<build, tmp, fd, dir, cached, torn, overlap>>

WriteBlock(r) ==
  /\ step[r] = "write"
  /\ from[r] < Size[build[r]]
  /\ inode' = [inode EXCEPT ![fd[r]] = Put(@, pos[r] + 1, <<build[r], from[r] + 1>>)]
  /\ pos' = [pos EXCEPT ![r] = @ + 1]
  /\ from' = [from EXCEPT ![r] = @ + 1]
  /\ UNCHANGED <<step, build, tmp, fd, dir, cached, torn, overlap>>

Fetched(r) ==
  /\ Go(r, "write", "unzip")
  /\ from[r] = Size[build[r]]
  /\ UNCHANGED <<fetch, cached, torn, overlap>>

-----------------------------------------------------------------------------
(* applyPatches, and the removal of the temporary file.                     *)

\* Both files are opened by name: tmp may be another run's by now, or gone.
OpenBoth(r) ==
  /\ Go(r, "unzip", "patch")
  /\ tmp # None
  /\ fd' = [fd EXCEPT ![r] = tmp]
  /\ \E b \in Build : EndsAs(inode[tmp], b) /\ dir' = [dir EXCEPT ![r] = b]
  /\ exists' = TRUE
  /\ out' = <<>>
  /\ pos' = [pos EXCEPT ![r] = 0]
  /\ UNCHANGED <<build, inode, tmp, from, torn, overlap>>

\* Mutant: copies the compressed bytes as they are, without their checksum.
MutPatchBlock(r) ==
  LET n == pos[r] + 1
  IN /\ step[r] = "patch"
     /\ n <= Size[dir[r]]
     /\ n <= Len(inode[fd[r]])
     /\ out' = Put(out, n, inode[fd[r]][n])
     /\ pos' = [pos EXCEPT ![r] = n]
     /\ UNCHANGED <<step, build, inode, tmp, fd, from, dir, exists, torn, overlap>>

\* copyZipEntry: reading an entry to its end checks its CRC against the directory.
PatchBlock(r) ==
  LET n == pos[r] + 1
  IN /\ step[r] = "patch"
     /\ n <= Size[dir[r]]
     /\ n <= Len(inode[fd[r]]) /\ inode[fd[r]][n] = <<dir[r], n>>
     /\ out' = Put(out, n, <<dir[r], n>>)
     /\ pos' = [pos EXCEPT ![r] = n]
     /\ UNCHANGED <<step, build, inode, tmp, fd, from, dir, exists, torn, overlap>>

\* Mutant: the directory is never written (zw.Close forgotten).
MutPatchEnd(r) ==
  /\ Go(r, "patch", "remove")
  /\ pos[r] = Size[dir[r]]
  /\ UNCHANGED <<fetch, cached, torn, overlap>>

\* Metadata and sinfs (taken to be the same in every ticket for one build), then the
\* directory.
PatchEnd(r) ==
  /\ Go(r, "patch", "remove")
  /\ pos[r] = Size[dir[r]]
  /\ out' = Put(out, pos[r] + 1, <<build[r], 0>>)
  /\ UNCHANGED <<fetch, exists, torn, overlap>>

\* os.Remove(tmp), again by name.
RemoveTmp(r) ==
  /\ Go(r, "remove", "served")
  /\ tmp # None
  /\ tmp' = None
  /\ UNCHANGED <<build, inode, fd, from, pos, dir, cached, torn, overlap>>

\* Any error return, or a crash: neither removes or completes a file.
Stop(r) ==
  /\ Active(r)
  /\ step' = [step EXCEPT ![r] = "stopped"]
  /\ torn' = (torn \/ step[r] = "patch")
  /\ UNCHANGED <<fetch, cached, overlap>>

-----------------------------------------------------------------------------
Move(r) ==
  \/ Begin(r) \/ Check(r) \/ Prepare(r) \/ Recheck(r) \/ OpenTmp(r) \/ Continue(r)
  \/ StartOver(r) \/ WriteBlock(r) \/ Fetched(r) \/ OpenBoth(r) \/ PatchBlock(r)
  \/ PatchEnd(r) \/ RemoveTmp(r) \/ Stop(r)

Ended == \A r \in Run : step[r] \in Over
Next == (\E r \in Run : Move(r)) \/ (Ended /\ UNCHANGED vars)

Spec == Init /\ [][Next]_vars

-----------------------------------------------------------------------------
TypeOK ==
  /\ step \in [Run -> Step]
  /\ build \in [Run -> Build] /\ dir \in [Run -> Build]
  /\ inode \in [Run -> File]
  /\ tmp \in Run \cup {None}
  /\ fd \in [Run -> Run \cup {None}]
  /\ \A r \in Run : step[r] \in {"request", "write", "patch"} => fd[r] \in Run
  /\ from \in [Run -> Nat]
  /\ pos \in [Run -> Nat]
  /\ \A r \in Run : step[r] = "write" => from[r] <= Size[build[r]]
  /\ \A r \in Run : step[r] = "patch" => pos[r] <= Size[dir[r]]
  /\ exists \in BOOLEAN /\ out \in File
  /\ torn \in BOOLEAN /\ overlap \in BOOLEAN

Whole(b) == out = [i \in 1..(Size[b] + 1) |-> IF i <= Size[b] THEN <<b, i>> ELSE <<b, 0>>]
Completed == out # <<>> /\ out[Len(out)][2] = 0
OneBuild == \A q, r \in Run : build[q] = build[r]

\* What a run may resume is the beginning of the build, block for block: runs that
\* were cut off anywhere, one after the other, add up to the download.
ResumesPrefix ==
  OneBuild /\ ~overlap /\ tmp # None =>
    \A r \in Run : /\ Len(inode[tmp]) <= Size[build[r]]
                   /\ \A i \in 1..Len(inode[tmp]) : inode[tmp][i] = <<build[r], i>>

\* Several processes may download, truncate and patch the same build into the same
\* two files at once: when none of them is writing the IPA any more and none stopped
\* in the middle of that, the cached IPA is whole.
SettledWhole ==
  OneBuild /\ ~torn /\ (\A r \in Run : step[r] # "patch") /\ exists =>
    \A r \in Run : Whole(build[r])

\* Builds that share a display version share both files, yet one run after another
\* never completes an IPA from blocks of one and the sinfs or blocks of another.
NeverMixed == ~overlap /\ Completed => \E b \in Build : Whole(b)

\* One run after another, a whole cached IPA is never written again - also not by a
\* run that asks for a named version and learns of the file only from its ticket.
CachedStays ==
  [][ ~overlap' /\ (\E b \in Build : Whole(b)) => out' = out ]_vars
=============================================================================
