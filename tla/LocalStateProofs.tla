--------------------------- MODULE LocalStateProofs ---------------------------
(***************************************************************************)
(* The files on this machine, for any number of processes and commands, and   *)
(* however often Apple lets tokens expire.                                    *)
(***************************************************************************)
EXTENDS LocalState, TLAPS

---------------------------------------------------------------------------
(* Kinds of steps *)

\* The steps of a command other than those on the executable.
Advance(p) ==
  \/ Start(p) \/ Migrated(p) \/ Begin(p) \/ Wait(p) \/ Noticed(p)
  \/ Auth(p) \/ Fetch(p) \/ Latest(p)
\* The steps on the executable.
Exchange(p) ==
  \/ Stage(p) \/ Fill(p) \/ Mode(p) \/ Unback(p) \/ Backup(p) \/ Swap(p) \/ Undo(p)
  \/ Rollback(p)
Beside(p) == Ask(p) \/ Asked(p)

\* Every step is of one of these kinds.
LEMMA Kinds ==
  ASSUME [Next]_vars
  PROVE  \/ \E p \in Process : Advance(p)
         \/ \E p \in Process : Exchange(p)
         \/ \E p \in Process : Beside(p)
         \/ \E p \in Process : Leave(p)
         \/ \E w \in Writer : Save(w)
         \/ Expire
         \/ UNCHANGED vars
  BY DEF Next, Life, Update, Advance, Exchange, Beside

---------------------------------------------------------------------------
(* Type correctness *)

Plainly ==
  /\ starts \in 0..MaxStarts
  /\ tries \in [Process -> 0..Retries] /\ since \in [Process -> 0..MaxEpoch]
  /\ epoch \in 1..MaxEpoch
StepType  == cmd \in [Process -> Command] /\ step \in [Process -> Step]
FlagType  == spent \in [Process -> BOOLEAN] /\ newer \in [Process -> BOOLEAN]
             /\ misled \in [Process -> BOOLEAN]
MarkType  == shared \in BOOLEAN /\ clash \in BOOLEAN /\ owned \in BOOLEAN
CheckType == check \in [Process -> {"off", "asking", "saving", "done"}]
SaveType  == save \in [Writer -> {"idle", "marshal", "open", "write", "rename", "ok", "failed"}]
AppleType == mem \in [Process -> Apple] /\ buf \in [Writer -> Apple]
FileType  == file \in [Name -> File]
FdType    == fd \in [Writer -> Name \cup {"none", "gone"}]

\* The type invariant, in parts that one kind of step disturbs at a time.
LEMMA TypeParts ==
  TypeOK <=> /\ Plainly /\ StepType /\ FlagType /\ MarkType /\ CheckType
             /\ SaveType /\ AppleType /\ FileType /\ FdType
  BY DEF TypeOK, Plainly, StepType, FlagType, MarkType, CheckType, SaveType, AppleType, FileType,
         FdType

\* A process has two writers: its command and its update check.
LEMMA WriterFacts ==
  ASSUME NEW p \in Process
  PROVE  Main(p) \in Writer /\ <<p, "check">> \in Writer
  BY DEF Main, Writer, Thread

\* The empty account is one.
LEMMA NobodyIsApple == Nobody \in Apple
  BY LocalAssumption DEF Nobody, Apple

\* The numbers.
LEMMA PlainlyTyped == ASSUME TypeOK, [Next]_vars PROVE Plainly'
<1> USE TypeParts, LocalAssumption
<1>1. ASSUME NEW p \in Process, Start(p) PROVE Plainly'
  BY <1>1 DEF Start, Plainly, apple, Retries
<1>2. ASSUME NEW p \in Process, Attempt(p) PROVE Plainly'
  BY <1>2 DEF Attempt, Quiet, Plainly, apple, Retries
<1>3. ASSUME NEW p \in Process, Leave(p) PROVE Plainly'
  BY <1>3 DEF Leave, Plainly, apple, Retries
<1>4. CASE Expire
  BY <1>4 DEF Expire, Plainly, command
<1>5. CASE UNCHANGED <<starts, tries, since, epoch>>
  BY <1>5 DEF Plainly
<1>6. ASSUME NEW p \in Process, Exchange(p) PROVE UNCHANGED <<starts, tries, since, epoch>>
  BY <1>6 DEF Exchange, Rollback, Stage, Fill, Mode, Unback, Backup, Swap, Undo, Stat, Aside,
     Restore, Putback, Tidy, Replace, apple
<1>7. ASSUME NEW p \in Process, Beside(p) PROVE UNCHANGED <<starts, tries, since, epoch>>
  BY <1>7 DEF Beside, Ask, Asked, command, apple
<1>8. ASSUME NEW w \in Writer, Save(w) PROVE UNCHANGED <<starts, tries, since, epoch>>
  BY <1>8 DEF Save, Marshal, OpenTmp, WriteTmp, RenameTmp, SaveFails, command, apple
<1>9. ASSUME NEW p \in Process, Advance(p), ~Start(p), ~Attempt(p)
      PROVE  UNCHANGED <<starts, tries, since, epoch>>
  BY <1>9 DEF Advance, Auth, Fetch, Migrated, Begin, Wait, Noticed, Clear, Reset, Prompt, Login,
     Signed, Device, Settled, Exhausted, Reauth, Reauthed, Purchase, Latest, Quiet, apple
<1>10. UNCHANGED vars => UNCHANGED <<starts, tries, since, epoch>>
  BY DEF vars, command, apple
<1> QED
  BY <1>1, <1>2, <1>3, <1>4, <1>5, <1>6, <1>7, <1>8, <1>9, <1>10, Kinds

\* What each kind of step does to step, and leaves alone.
LEMMA AdvanceStep ==
  ASSUME NEW p \in Process, Advance(p) PROVE (\E s \in Step : Goto(p, s)) \/ UNCHANGED step
<1>1. CASE Start(p) \/ Migrated(p) \/ Begin(p)
  BY <1>1 DEF Start, Migrated, Begin, AuthBegins, FetchBegins, KeepBegins, UpdateBegins, SaveAt,
     Step, Replacing
<1>2. CASE Wait(p) \/ Noticed(p) \/ Latest(p)
  BY <1>2 DEF Wait, Noticed, Latest, SaveAt, Step, Replacing
<1>3. CASE Auth(p)
  <2>1. CASE Clear(p) \/ Reset(p) \/ Prompt(p) BY <2>1 DEF Clear, Reset, Prompt, SaveAt, Step
  <2>2. CASE Login(p) \/ Device(p) \/ Settled(p) BY <2>2 DEF Login, Device, Settled, SaveAt, Step
  <2>3. CASE Signed(p)
    <3>1. \A s : s \in {"wait", "device"} => s \in Step BY DEF Step
    <3> QED BY <2>3, <3>1 DEF Signed
  <2> QED BY <1>3, <2>1, <2>2, <2>3 DEF Auth
<1>4. CASE Fetch(p)
  BY <1>4 DEF Fetch, Attempt, Exhausted, Reauth, Reauthed, Purchase, SaveAt, Step
<1> QED BY <1>1, <1>2, <1>3, <1>4 DEF Advance

\* Steps on the executable leave the command's memory, the saves and Apple alone.
LEMMA ExchangeStep ==
  ASSUME NEW p \in Process, Exchange(p)
  PROVE  /\ \E s \in Replacing \cup {"over"} : Goto(p, s)
         /\ UNCHANGED <<starts, cmd, mem, tries, since, spent, checks, saving, clash, apple>>
         /\ step[p] \in Replacing
<1>1. CASE Stage(p) \/ Fill(p) \/ Mode(p) \/ Unback(p)
  BY <1>1 DEF Stage, Fill, Mode, Unback, Replace, Replacing
<1>2. CASE Backup(p) \/ Swap(p) \/ Undo(p) \/ Stat(p)
  BY <1>2 DEF Backup, Swap, Undo, Stat, Replace, Replacing
<1>3. CASE Aside(p) \/ Restore(p) \/ Putback(p) \/ Tidy(p)
  BY <1>3 DEF Aside, Restore, Putback, Tidy, Replace, Replacing
<1> QED BY <1>1, <1>2, <1>3 DEF Exchange, Rollback

\* The update check touches neither the command nor the files.
LEMMA BesideStep ==
  ASSUME NEW p \in Process, Beside(p)
  PROVE  UNCHANGED <<command, buf, shared, disk, clash, apple>>
  BY DEF Beside, Ask, Asked

\* A save touches neither the command nor the update check.
LEMMA SaveStep ==
  ASSUME NEW w \in Writer, Save(w)
  PROVE  UNCHANGED <<command, checks, clash, apple>>
  BY DEF Save, Marshal, OpenTmp, WriteTmp, RenameTmp, SaveFails

\* Commands go from one step to another.
LEMMA StepTyped == ASSUME TypeOK, [Next]_vars PROVE StepType'
<1> USE TypeParts
<1>a. Replacing \cup {"over"} \subseteq Step BY DEF Step
<1>1. step' \in [Process -> Step]
  <2>1. ASSUME NEW p \in Process, Leave(p) PROVE step' \in [Process -> Step]
    BY <2>1 DEF Leave, StepType, Step
  <2>2. ASSUME NEW p \in Process, NEW s \in Step, Goto(p, s) PROVE step' \in [Process -> Step]
    BY <2>2 DEF Goto, StepType
  <2>3. UNCHANGED step => step' \in [Process -> Step] BY DEF StepType
  <2> QED
    BY <1>a, <2>1, <2>2, <2>3, Kinds, AdvanceStep, ExchangeStep, BesideStep, SaveStep
    DEF Expire, vars, command
<1>2. cmd' \in [Process -> Command]
  <2>1. ASSUME NEW p \in Process, Leave(p) PROVE cmd' \in [Process -> Command]
    BY <2>1 DEF Leave, StepType, Command
  <2>2. ASSUME NEW p \in Process, Start(p) PROVE cmd' \in [Process -> Command]
    BY <2>2 DEF Start, StepType
  <2>3. ASSUME NEW p \in Process, Advance(p), ~Start(p) PROVE UNCHANGED cmd
    BY <2>3 DEF Advance, Auth, Fetch, Migrated, Begin, Wait, Noticed, Clear, Reset, Prompt, Login,
       Signed, Device, Settled, Attempt, Exhausted, Reauth, Reauthed, Purchase, Latest, Quiet
  <2>4. UNCHANGED cmd => cmd' \in [Process -> Command] BY DEF StepType
  <2> QED
    BY <2>1, <2>2, <2>3, <2>4, Kinds, ExchangeStep, BesideStep, SaveStep DEF Expire, vars, command
<1> QED BY <1>1, <1>2 DEF StepType

\* The two flags of a process.
LEMMA FlagTyped == ASSUME TypeOK, [Next]_vars PROVE FlagType'
<1> USE TypeParts
<1>1. spent' \in [Process -> BOOLEAN]
  <2>1. ASSUME NEW p \in Process, Start(p) \/ Exhausted(p) \/ Leave(p)
        PROVE  spent' \in [Process -> BOOLEAN]
    BY <2>1, Zenon DEF Start, Exhausted, Leave, FlagType
  <2>2. ASSUME NEW p \in Process, Advance(p), ~Start(p), ~Exhausted(p) PROVE UNCHANGED spent
    BY <2>2 DEF Advance, Auth, Fetch, Migrated, Begin, Wait, Noticed, Clear, Reset, Prompt, Login,
       Signed, Device, Settled, Attempt, Reauth, Reauthed, Purchase, Latest, Quiet
  <2>3. UNCHANGED spent => spent' \in [Process -> BOOLEAN] BY DEF FlagType
  <2> QED
    BY <2>1, <2>2, <2>3, Kinds, ExchangeStep, BesideStep, SaveStep DEF Expire, vars, command
<1>2. newer' \in [Process -> BOOLEAN]
  <2>1. ASSUME NEW p \in Process, Leave(p) \/ Ask(p) \/ Asked(p)
        PROVE  newer' \in [Process -> BOOLEAN]
    BY <2>1 DEF Leave, Ask, Asked, FlagType
  <2>2. ASSUME NEW p \in Process, Advance(p) PROVE UNCHANGED newer
    BY <2>2 DEF Advance, Auth, Fetch, Start, Migrated, Begin, Wait, Noticed, Clear, Reset, Prompt,
       Login, Signed, Device, Settled, Attempt, Exhausted, Reauth, Reauthed, Purchase, Latest,
       Quiet, checks
  <2>3. UNCHANGED newer => newer' \in [Process -> BOOLEAN] BY DEF FlagType
  <2> QED
    BY <2>1, <2>2, <2>3, Kinds, ExchangeStep, SaveStep DEF Expire, Beside, vars, checks
<1>3. misled' \in [Process -> BOOLEAN]
  <2>1. ASSUME NEW p \in Process, Start(p) \/ Leave(p) \/ Attempt(p) \/ Purchase(p)
        PROVE  misled' \in [Process -> BOOLEAN]
    <3>1. misled \in [Process -> BOOLEAN] /\ owned \in BOOLEAN BY DEF FlagType, MarkType
    <3>2. CASE \E b \in BOOLEAN : misled' = [misled EXCEPT ![p] = b] BY <3>1, <3>2, Zenon
    <3>3. CASE UNCHANGED misled BY <3>1, <3>3
    <3>4. Start(p) \/ Leave(p) => misled' = [misled EXCEPT ![p] = FALSE] BY DEF Start, Leave
    <3>5. Refused(p) => misled' = [misled EXCEPT ![p] = misled[p] \/ ~Expired(p)]
      BY DEF Refused
    <3>6. Attempt(p) \/ Purchase(p) => \/ UNCHANGED misled \/ Refused(p)
                                       \/ misled' = [misled EXCEPT ![p] = misled[p] \/ ~owned]
      BY Zenon DEF Attempt, Purchase, Licensed
    <3>7. (misled[p] \/ ~Expired(p)) \in BOOLEAN /\ (misled[p] \/ ~owned) \in BOOLEAN
      OBVIOUS
    <3> QED BY <2>1, <3>2, <3>3, <3>4, <3>5, <3>6, <3>7
  <2>2. ASSUME NEW p \in Process, Advance(p), ~Start(p), ~Attempt(p), ~Purchase(p)
        PROVE  UNCHANGED misled
    BY <2>2 DEF Advance, Auth, Fetch, Migrated, Begin, Wait, Noticed, Clear, Reset, Prompt,
       Login, Signed, Device, Settled, Exhausted, Reauth, Reauthed, Latest, Quiet, apple
  <2>3. UNCHANGED misled => misled' \in [Process -> BOOLEAN] BY DEF FlagType
  <2> QED
    BY <2>1, <2>2, <2>3, Kinds, ExchangeStep, BesideStep, SaveStep DEF Expire, vars, apple
<1> QED BY <1>1, <1>2, <1>3 DEF FlagType

\* The history marks and the licence.
LEMMA MarkTyped == ASSUME TypeOK, [Next]_vars PROVE MarkType'
<1> USE TypeParts
<1>1. shared' \in BOOLEAN
  <2>1. ASSUME NEW w \in Writer, Save(w) PROVE shared' \in BOOLEAN
    BY <2>1 DEF Save, Marshal, OpenTmp, WriteTmp, RenameTmp, SaveFails, MarkType
  <2>2. ASSUME NEW p \in Process, Advance(p) PROVE UNCHANGED shared
    BY <2>2 DEF Advance, Auth, Fetch, Start, Migrated, Begin, Wait, Noticed, Clear, Reset, Prompt,
       Login, Signed, Device, Settled, Attempt, Exhausted, Reauth, Reauthed, Purchase, Latest,
       Quiet
  <2>3. UNCHANGED shared => shared' \in BOOLEAN BY DEF MarkType
  <2> QED
    BY <2>1, <2>2, <2>3, Kinds, ExchangeStep, BesideStep DEF Leave, Expire, vars, saving
<1>2. clash' \in BOOLEAN
  <2>1. ASSUME NEW p \in Process, Begin(p) \/ Latest(p) PROVE clash' \in BOOLEAN
    BY <2>1 DEF Begin, Latest, MarkType
  <2>2. ASSUME NEW p \in Process, Advance(p), ~Begin(p), ~Latest(p) PROVE UNCHANGED clash
    BY <2>2 DEF Advance, Auth, Fetch, Start, Migrated, Wait, Noticed, Clear, Reset, Prompt,
       Login, Signed, Device, Settled, Attempt, Exhausted, Reauth, Reauthed, Purchase, Quiet
  <2>3. UNCHANGED clash => clash' \in BOOLEAN BY DEF MarkType
  <2> QED
    BY <2>1, <2>2, <2>3, Kinds, ExchangeStep, BesideStep, SaveStep DEF Leave, Expire, vars
<1>3. owned' \in BOOLEAN
  <2>1. ASSUME NEW p \in Process, Purchase(p) PROVE owned' \in BOOLEAN
    BY <2>1, Zenon DEF Purchase, Licensed, MarkType
  <2>2. ASSUME NEW p \in Process, Advance(p), ~Purchase(p) PROVE UNCHANGED owned
    BY <2>2 DEF Advance, Auth, Fetch, Start, Migrated, Begin, Wait, Noticed, Clear, Reset, Prompt,
       Login, Signed, Device, Settled, Attempt, Exhausted, Reauth, Reauthed, Latest, Quiet, apple
  <2>3. UNCHANGED owned => owned' \in BOOLEAN BY DEF MarkType
  <2> QED
    BY <2>1, <2>2, <2>3, Kinds, ExchangeStep, BesideStep, SaveStep DEF Leave, Expire, vars, apple
<1> QED BY <1>1, <1>2, <1>3 DEF MarkType

\* The update check's place.
LEMMA CheckTyped == ASSUME TypeOK, [Next]_vars PROVE CheckType'
<1> USE TypeParts
<1>1. ASSUME NEW p \in Process, Begin(p) PROVE CheckType' BY <1>1 DEF Begin, CheckType
<1>2. ASSUME NEW p \in Process, Beside(p) PROVE CheckType'
  BY <1>2 DEF Beside, Ask, Asked, CheckType
<1>3. ASSUME NEW p \in Process, Leave(p) PROVE CheckType' BY <1>3 DEF Leave, CheckType
<1>4. ASSUME NEW p \in Process, Advance(p), ~Begin(p) PROVE UNCHANGED check
  BY <1>4 DEF Advance, Auth, Fetch, Start, Migrated, Wait, Noticed, Clear, Reset, Prompt,
     Login, Signed, Device, Settled, Attempt, Exhausted, Reauth, Reauthed, Purchase, Latest,
     Quiet, checks
<1>5. UNCHANGED check => CheckType' BY DEF CheckType
<1> QED BY <1>1, <1>2, <1>3, <1>4, <1>5, Kinds, ExchangeStep, SaveStep DEF Expire, vars, checks

\* What a step of a command does to the save it makes.
LEMMA AdvanceSaves ==
  ASSUME NEW p \in Process, Advance(p)
  PROVE  /\ UNCHANGED <<buf, shared, disk>>
         /\ \/ UNCHANGED save
            \/ \E s \in {"idle", "marshal"} : save' = [save EXCEPT ![Main(p)] = s]
<1>1. CASE Start(p) \/ Migrated(p) \/ Begin(p)
  BY <1>1 DEF Start, Migrated, Begin, AuthBegins, FetchBegins, KeepBegins, UpdateBegins, SaveAt,
     Saved, Quiet, disk
<1>2. CASE Wait(p) \/ Noticed(p) \/ Latest(p)
  BY <1>2 DEF Wait, Noticed, Latest, SaveAt, Saved, Quiet, disk
<1>3. CASE Auth(p)
  BY <1>3 DEF Auth, Clear, Reset, Prompt, Login, Signed, Device, Settled, SaveAt, Saved, Quiet, disk
<1>4. CASE Fetch(p)
  BY <1>4 DEF Fetch, Attempt, Exhausted, Reauth, Reauthed, Purchase, SaveAt, Saved, Quiet, disk
<1> QED BY <1>1, <1>2, <1>3, <1>4 DEF Advance

\* How far each save is.
LEMMA SaveTyped == ASSUME TypeOK, [Next]_vars PROVE SaveType'
<1> USE TypeParts
<1>1. ASSUME NEW p \in Process, Advance(p) PROVE SaveType'
  BY <1>1, AdvanceSaves, WriterFacts DEF SaveType
<1>2. ASSUME NEW p \in Process, Beside(p) PROVE SaveType'
  BY <1>2, WriterFacts DEF Beside, Ask, Asked, SaveType
<1>3. ASSUME NEW p \in Process, Leave(p) PROVE SaveType' BY <1>3 DEF Leave, SaveType
<1>4. ASSUME NEW w \in Writer, Save(w) PROVE SaveType'
  BY <1>4 DEF Save, Marshal, OpenTmp, WriteTmp, RenameTmp, SaveFails, SaveType
<1>5. UNCHANGED save => SaveType' BY DEF SaveType
<1> QED BY <1>1, <1>2, <1>3, <1>4, <1>5, Kinds, ExchangeStep DEF Expire, vars, saving

\* A new token or password leaves an account.
LEMMA SignedIsApple ==
  ASSUME NEW a \in Apple, NEW e \in 0..MaxEpoch, NEW c \in {"none", "good", "typo"}
  PROVE  [a EXCEPT !.token = e] \in Apple /\ [a EXCEPT !.password = c] \in Apple
  BY DEF Apple

\* ... also in the memory of one of several processes.
LEMMA PasswordTyped ==
  ASSUME NEW f \in [Process -> Apple], NEW p \in Process, NEW e \in 0..MaxEpoch,
         NEW c \in {"none", "good", "typo"}
  PROVE  /\ [f EXCEPT ![p].token = e] \in [Process -> Apple]
         /\ [f EXCEPT ![p].password = c] \in [Process -> Apple]
<1>1. [f[p] EXCEPT !.token = e] \in Apple /\ [f[p] EXCEPT !.password = c] \in Apple
  BY SignedIsApple
<1> QED BY <1>1

\* What is in memory is an account: read, typed in, cleared or signed in.
LEMMA MemTyped == ASSUME TypeOK, [Next]_vars PROVE mem' \in [Process -> Apple]
<1> USE TypeParts
<1>a. mem \in [Process -> Apple] BY DEF AppleType
<1>b. epoch \in 0..MaxEpoch /\ 0 \in 0..MaxEpoch BY LocalAssumption DEF Plainly
<1>1. ASSUME NEW p \in Process, Start(p) PROVE mem' \in [Process -> Apple]
  <2>1. "config" \in Name BY DEF Name
  <2>2. file["config"].apple \in Apple BY <2>1 DEF FileType, File
  <2>3. ReadConfig \in Apple BY <2>2, NobodyIsApple DEF ReadConfig
  <2> QED BY <1>a, <1>1, <2>3 DEF Start
<1>2. ASSUME NEW p \in Process, SignIn(p) PROVE mem' \in [Process -> Apple]
  BY <1>a, <1>b, <1>2, PasswordTyped DEF SignIn
<1>3. ASSUME NEW p \in Process, Login(p) \/ Reauth(p) PROVE mem' \in [Process -> Apple]
  BY <1>a, <1>2, <1>3 DEF Login, Reauth
<1>4. ASSUME NEW p \in Process, Clear(p) \/ Prompt(p) PROVE mem' \in [Process -> Apple]
  <2>1. \A c \in {"none", "good", "typo"} : [mem EXCEPT ![p].password = c] \in [Process -> Apple]
    BY <1>a, <1>b, PasswordTyped
  <2>2. [mem EXCEPT ![p].token = 0] \in [Process -> Apple] BY <1>a, <1>b, PasswordTyped
  <2>3. UNCHANGED mem => mem' \in [Process -> Apple] BY <1>a
  <2>4. CASE Clear(p) BY <2>1, <2>2, <2>3, <2>4, Zenon DEF Clear
  <2>5. CASE Prompt(p) BY <2>1, <2>3, <2>5, Zenon DEF Prompt
  <2> QED BY <1>4, <2>4, <2>5
<1>5. ASSUME NEW p \in Process, Leave(p) PROVE mem' \in [Process -> Apple]
  BY <1>a, <1>5, NobodyIsApple DEF Leave
<1>6. ASSUME NEW p \in Process, Advance(p), ~Start(p), ~Login(p), ~Reauth(p), ~Clear(p),
             ~Prompt(p)
      PROVE  UNCHANGED mem
  BY <1>6 DEF Advance, Auth, Fetch, Migrated, Begin, Wait, Noticed, Reset, Signed, Device, Settled,
     Attempt, Exhausted, Reauthed, Purchase, Latest
<1>7. UNCHANGED mem => mem' \in [Process -> Apple] BY <1>a
<1> QED
  BY <1>1, <1>3, <1>4, <1>5, <1>6, <1>7, Kinds, ExchangeStep, BesideStep, SaveStep
  DEF Expire, vars, command

\* So is what a save has marshalled.
LEMMA AppleTyped == ASSUME TypeOK, [Next]_vars PROVE AppleType'
<1> USE TypeParts
<1>a. buf \in [Writer -> Apple] /\ mem \in [Process -> Apple] BY DEF AppleType
<1>1. ASSUME NEW p \in Process, Leave(p) PROVE buf' \in [Writer -> Apple]
  BY <1>a, <1>1, NobodyIsApple DEF Leave
<1>2. ASSUME NEW w \in Writer, Save(w) PROVE buf' \in [Writer -> Apple]
  <2>1. w[1] \in Process BY DEF Writer
  <2>2. mem[w[1]] \in Apple BY <1>a, <2>1
  <2> QED
    BY <1>a, <1>2, <2>2, NobodyIsApple
    DEF Save, Marshal, OpenTmp, WriteTmp, RenameTmp, SaveFails
<1>3. UNCHANGED buf => buf' \in [Writer -> Apple] BY <1>a
<1>4. buf' \in [Writer -> Apple]
  BY <1>1, <1>2, <1>3, Kinds, AdvanceSaves, ExchangeStep, BesideStep DEF Expire, vars, saving
<1> QED BY <1>4, MemTyped DEF AppleType

---------------------------------------------------------------------------
(* Files *)

LEMMA FileFacts ==
  /\ \A k \in {"missing", "cut", "program"} : Plain(k) \in File /\ Plain(k).kind = k
  /\ \A a \in Apple : Config(a) \in File /\ Config(a).kind = "config"
  BY NobodyIsApple DEF Plain, Config, File

\* What a rename and a removal leave.
LEMMA RenamedFiles ==
  ASSUME NEW f \in [Name -> File], NEW x \in Name, NEW y \in Name \ {x}
  PROVE  /\ Renamed(f, x, y) \in [Name -> File]
         /\ Renamed(f, x, y)[y] = f[x] /\ Renamed(f, x, y)[x] = Plain("missing")
         /\ \A n \in Name \ {x, y} : Renamed(f, x, y)[n] = f[n]
  BY FileFacts DEF Renamed

\* Every file is one: saves, exchanges and renames leave files under the six names.
LEMMA FileTyped == ASSUME TypeOK, [Next]_vars PROVE FileType'
<1> USE TypeParts
<1>n. Name = {"config", "config.tmp", "exe", "exe.new", "exe.bak", "exe.rollback"} BY DEF Name
<1>a. file \in [Name -> File] BY DEF FileType
<1>b. \A x, y \in Name : x # y /\ Rename(x, y) => FileType'
  BY <1>a, RenamedFiles DEF Rename, FileType
<1>c. \A x \in Name : Remove(x) => FileType'
  BY <1>a, FileFacts DEF Remove, FileType
<1>d. UNCHANGED file => FileType' BY DEF FileType
<1>1. ASSUME NEW w \in Writer, Save(w) PROVE FileType'
  <2>1. CASE OpenTmp(w) BY <1>a, <1>n, <2>1, FileFacts DEF OpenTmp, FileType
  <2>2. CASE WriteTmp(w)
    <3>1. fd[w] \in Name \cup {"none", "gone"} BY DEF FdType
    <3>2. buf[w] \in Apple BY DEF AppleType
    <3>3. PICK c \in {Config(buf[w]), Plain("cut")} :
            UNCHANGED file \/ file' = [file EXCEPT ![fd[w]] = c]
      BY <2>2 DEF WriteTmp
    <3>4. c \in File BY <3>2, FileFacts
    <3> QED BY <1>a, <3>3, <3>4 DEF FileType
  <2>3. CASE RenameTmp(w) BY <1>b, <1>n, <2>3 DEF RenameTmp
  <2>4. CASE Marshal(w) \/ SaveFails(w) BY <1>d, <2>4 DEF Marshal, SaveFails, disk
  <2> QED BY <1>1, <2>1, <2>2, <2>3, <2>4 DEF Save
<1>2. ASSUME NEW p \in Process, Exchange(p) PROVE FileType'
  <2>1. CASE Stage(p) BY <1>a, <1>d, <1>n, <2>1, FileFacts DEF Stage, FileType, disk
  <2>2. CASE Fill(p) BY <1>a, <1>d, <1>n, <2>2, FileFacts DEF Fill, FileType
  <2>3. CASE Mode(p) \/ Unback(p) \/ Backup(p)
    BY <1>b, <1>c, <1>d, <1>n, <2>3 DEF Mode, Unback, Backup, disk
  <2>4. CASE Swap(p) \/ Undo(p) BY <1>b, <1>d, <1>n, <2>4 DEF Swap, Undo, disk
  <2>5. CASE Rollback(p)
    BY <1>b, <1>c, <1>d, <1>n, <2>5 DEF Rollback, Stat, Aside, Restore, Putback, Tidy, disk
  <2> QED BY <1>2, <2>1, <2>2, <2>3, <2>4, <2>5 DEF Exchange
<1> QED
  BY <1>d, <1>1, <1>2, Kinds, AdvanceSaves, BesideStep DEF Leave, Expire, vars, disk

\* What a writer has open has one of the six names, or none any more.
LEMMA FdTyped == ASSUME TypeOK, [Next]_vars PROVE FdType'
<1> USE TypeParts
<1>n. Name = {"config", "config.tmp", "exe", "exe.new", "exe.bak", "exe.rollback"} BY DEF Name
<1>a. fd \in [Writer -> Name \cup {"none", "gone"}] BY DEF FdType
<1>b. \A x, y \in Name : Rename(x, y) => FdType' BY <1>a DEF Rename, Moved, FdType
<1>c. \A x \in Name : Remove(x) => FdType' BY <1>a DEF Remove, FdType
<1>d. UNCHANGED fd => FdType' BY DEF FdType
<1>1. ASSUME NEW w \in Writer, Save(w) PROVE FdType'
  <2>1. CASE OpenTmp(w) \/ WriteTmp(w) \/ SaveFails(w)
    BY <1>a, <1>n, <2>1 DEF OpenTmp, WriteTmp, SaveFails, FdType
  <2>2. CASE RenameTmp(w) BY <1>b, <1>n, <2>2 DEF RenameTmp
  <2>3. CASE Marshal(w) BY <1>d, <2>3 DEF Marshal, disk
  <2> QED BY <1>1, <2>1, <2>2, <2>3 DEF Save
<1>2. ASSUME NEW p \in Process, Exchange(p) PROVE FdType'
  <2>1. CASE Stage(p) BY <1>a, <1>d, <1>n, <2>1, WriterFacts DEF Stage, FdType, disk
  <2>2. CASE Fill(p) BY <1>a, <2>2, WriterFacts DEF Fill, FdType
  <2>3. CASE Mode(p) \/ Unback(p) \/ Backup(p)
    BY <1>b, <1>c, <1>d, <1>n, <2>3 DEF Mode, Unback, Backup, disk
  <2>4. CASE Swap(p) \/ Undo(p) BY <1>b, <1>d, <1>n, <2>4 DEF Swap, Undo, disk
  <2>5. CASE Rollback(p)
    BY <1>b, <1>c, <1>d, <1>n, <2>5 DEF Rollback, Stat, Aside, Restore, Putback, Tidy, disk
  <2> QED BY <1>2, <2>1, <2>2, <2>3, <2>4, <2>5 DEF Exchange
<1>3. ASSUME NEW p \in Process, Leave(p) PROVE FdType' BY <1>a, <1>3 DEF Leave, FdType
<1> QED
  BY <1>d, <1>1, <1>2, <1>3, Kinds, AdvanceSaves, BesideStep DEF Expire, vars, disk

\* The files a run of the model begins with.
LEMMA FirstFiles ==
  ASSUME Init
  PROVE  /\ file \in [Name -> File]
         /\ file["exe"] = Plain("program") /\ file["config"].kind \in {"missing", "config"}
         /\ \A n \in Name \ {"exe", "config"} : file[n] = Plain("missing")
<1> DEFINE a == [password |-> "good", token |-> 1]
<1>1. a \in Apple BY LocalAssumption DEF Apple
<1>2. ASSUME NEW v \in {1, 2}
      PROVE  /\ [Config(a) EXCEPT !.version = v] \in File
             /\ [Config(a) EXCEPT !.version = v].kind = "config"
  BY <1>1, <1>2 DEF Config, File
<1>3. PICK c \in {Plain("missing")} \cup {[Config(a) EXCEPT !.version = v] : v \in {1, 2}} :
        file = [n \in Name |-> CASE n = "config" -> c [] n = "exe" -> Plain("program")
                                 [] OTHER -> Plain("missing")]
  BY DEF Init
<1> HIDE DEF a
<1>4. c \in File /\ c.kind \in {"missing", "config"} BY <1>2, FileFacts
<1>5. Plain("program") \in File /\ Plain("missing") \in File BY FileFacts
<1>6. "exe" \in Name /\ "config" \in Name BY DEF Name
<1> QED BY <1>3, <1>4, <1>5, <1>6

\* The first states are well typed.
LEMMA InitTyped == ASSUME Init PROVE TypeOK
<1> USE LocalAssumption
<1>1. Plainly BY DEF Init, Plainly, Retries
<1>2. StepType BY DEF Init, StepType, Command, Step
<1>3. FlagType BY DEF Init, FlagType
<1>4. MarkType BY DEF Init, MarkType
<1>5. CheckType BY DEF Init, CheckType
<1>6. SaveType BY DEF Init, SaveType
<1>7. AppleType BY NobodyIsApple DEF Init, AppleType
<1>8. FileType BY FirstFiles DEF FileType
<1>9. FdType BY DEF Init, FdType
<1> QED BY <1>1, <1>2, <1>3, <1>4, <1>5, <1>6, <1>7, <1>8, <1>9, TypeParts

\* The parts together: TypeOK is inductive.
LEMMA TypeStep == ASSUME TypeOK, [Next]_vars PROVE TypeOK'
  BY PlainlyTyped, StepTyped, FlagTyped, MarkTyped, CheckTyped, SaveTyped, AppleTyped, FileTyped,
     FdTyped, TypeParts, PTL

\* Every variable keeps its type: the commands, the update checks, the saves and the files.
THEOREM TypeCorrect == Spec => []TypeOK
  BY InitTyped, TypeStep, PTL DEF Spec

---------------------------------------------------------------------------
(* Who saves when *)

\* The steps in which a command waits for its save.
SaveSteps == {"migrated", "reset", "signed", "probed", "kept", "accepted", "again", "repay",
              "notice", "latest"}

\* A save of the command is made only while the command waits for it, and one of the update
\* check only while the check does; the check begins with the command.
InTurn ==
  /\ \A p \in Process : step[p] \notin SaveSteps => save[Main(p)] = "idle"
  /\ \A p \in Process : check[p] # "saving" => save[<<p, "check">>] = "idle"
  /\ \A p \in Process : step[p] \in {"off", "migrated", "begin"} => check[p] = "off"

\* Where a step of a command leads, and what it does to the command's save.
LEMMA AdvanceTurns ==
  ASSUME NEW p \in Process, Advance(p)
  PROVE  /\ step[p] \notin Replacing
         /\ \/ /\ UNCHANGED save /\ step[p] \notin SaveSteps
               /\ UNCHANGED step \/ \E s \in Step \ (SaveSteps \cup {"off"}) : Goto(p, s)
            \/ /\ step[p] \notin SaveSteps
               /\ save' = [save EXCEPT ![Main(p)] = "marshal"]
               /\ \E s \in SaveSteps : Goto(p, s)
            \/ /\ save[Main(p)] \in {"ok", "failed"} /\ step[p] \in SaveSteps
               /\ save' = [save EXCEPT ![Main(p)] = "idle"]
               /\ \E s \in Step \ (SaveSteps \cup {"off"}) : Goto(p, s)
<1>1. CASE Start(p) BY <1>1 DEF Start, SaveAt, SaveSteps, Step, Replacing
<1>2. CASE Migrated(p) BY <1>2 DEF Migrated, Saved, SaveSteps, Step, Replacing
<1>3. CASE Begin(p)
  BY <1>3 DEF Begin, AuthBegins, FetchBegins, KeepBegins, UpdateBegins, SaveAt, SaveSteps, Step,
     Replacing
<1>4. CASE Wait(p) \/ Noticed(p)
  BY <1>4 DEF Wait, Noticed, SaveAt, Saved, SaveSteps, Step, Replacing
<1>5. CASE Latest(p) BY <1>5 DEF Latest, Saved, SaveSteps, Step, Replacing
<1>6. CASE Auth(p)
  <2>1. CASE Clear(p) BY <2>1 DEF Clear, SaveAt, SaveSteps, Step, Replacing
  <2>2. CASE Reset(p) BY <2>2 DEF Reset, Saved, SaveSteps, Step, Replacing
  <2>3. CASE Prompt(p) \/ Login(p) \/ Device(p)
    BY <2>3 DEF Prompt, Login, Device, SaveAt, SaveSteps, Step, Replacing
  <2>4. CASE Signed(p)
    <3>1. \E s \in {"wait", "device"} : Goto(p, s) BY <2>4 DEF Signed
    <3>2. \A s \in {"wait", "device"} : s \in Step \ (SaveSteps \cup {"off"})
      BY DEF Step, SaveSteps
    <3> QED BY <2>4, <3>1, <3>2 DEF Signed, Saved, SaveSteps, Replacing
  <2>5. CASE Settled(p) BY <2>5 DEF Settled, Saved, SaveSteps, Step, Replacing
  <2> QED BY <1>6, <2>1, <2>2, <2>3, <2>4, <2>5 DEF Auth
<1>7. CASE Fetch(p)
  <2>1. CASE Attempt(p) \/ Exhausted(p) \/ Purchase(p)
    BY <2>1 DEF Attempt, Exhausted, Purchase, SaveSteps, Step, Replacing
  <2>2. CASE Reauth(p) BY <2>2 DEF Reauth, SaveAt, SaveSteps, Step, Replacing
  <2>3. CASE Reauthed(p) BY <2>3 DEF Reauthed, Saved, SaveSteps, Step, Replacing
  <2> QED BY <1>7, <2>1, <2>2, <2>3 DEF Fetch
<1> QED BY <1>1, <1>2, <1>3, <1>4, <1>5, <1>6, <1>7 DEF Advance

\* The update check is started with the command and only then.
LEMMA AdvanceChecks ==
  ASSUME NEW p \in Process, Advance(p), StepType
  PROVE  /\ \/ UNCHANGED check
            \/ /\ step[p] = "begin"
               /\ \E c \in {"asking", "off"} : check' = [check EXCEPT ![p] = c]
         /\ step'[p] \in {"off", "migrated", "begin"}
              => step[p] \in {"off", "migrated", "begin"} /\ UNCHANGED check
<1>1. CASE Start(p) BY <1>1 DEF Start, SaveAt, Goto, StepType, checks
<1>2. CASE Migrated(p) BY <1>2 DEF Migrated, Saved, Goto, Quiet, StepType, checks
<1>3. CASE Begin(p)
  BY <1>3 DEF Begin, AuthBegins, FetchBegins, KeepBegins, UpdateBegins, SaveAt, Goto, StepType
<1>4. CASE Wait(p) \/ Noticed(p)
  BY <1>4 DEF Wait, Noticed, SaveAt, Saved, Goto, Quiet, StepType, checks
<1>5. CASE Latest(p) BY <1>5 DEF Latest, Saved, Goto, StepType, checks
<1>6. CASE Auth(p)
  <2>1. CASE Clear(p) BY <2>1 DEF Clear, SaveAt, Goto, Quiet, StepType, checks
  <2>2. CASE Reset(p) \/ Signed(p) \/ Settled(p)
    BY <2>2 DEF Reset, Signed, Settled, Saved, Goto, Quiet, StepType, checks
  <2>3. CASE Prompt(p) \/ Login(p) \/ Device(p)
    BY <2>3 DEF Prompt, Login, Device, SaveAt, Goto, Quiet, StepType, checks
  <2> QED BY <1>6, <2>1, <2>2, <2>3 DEF Auth
<1>7. CASE Fetch(p)
  BY <1>7 DEF Fetch, Attempt, Exhausted, Reauth, Reauthed, Purchase, SaveAt, Saved, Goto, Quiet,
     StepType, checks
<1> QED BY <1>1, <1>2, <1>3, <1>4, <1>5, <1>6, <1>7 DEF Advance

\* Different processes, and a command and an update check, are different writers.
LEMMA WritersDiffer ==
  ASSUME NEW p \in Process, NEW q \in Process
  PROVE  /\ Main(p) # <<q, "check">> /\ (p # q => Main(p) # Main(q))
         /\ (p # q => <<p, "check">> # <<q, "check">>)
         /\ Main(p)[1] = p /\ <<p, "check">>[1] = p
  BY DEF Main

\* InTurn is inductive: a save begins where a command starts to wait, and ends before it goes on.
LEMMA InTurnStep == ASSUME TypeOK, InTurn, [Next]_vars PROVE InTurn'
<1> USE TypeParts
<1>t. StepType /\ SaveType /\ CheckType BY TypeParts
<1>1. ASSUME NEW p \in Process, Advance(p) PROVE InTurn'
  <2>1. \A q \in Process : step'[q] \notin SaveSteps => save'[Main(q)] = "idle"
    <3> SUFFICES ASSUME NEW q \in Process, step'[q] \notin SaveSteps
                 PROVE  save'[Main(q)] = "idle"
      OBVIOUS
    <3>1. CASE q = p
      BY <1>1, <1>t, <3>1, AdvanceTurns, WriterFacts DEF InTurn, Goto, StepType, SaveType
    <3>2. CASE q # p
      <4>1. step'[q] = step[q]
        BY <1>1, <1>t, <3>2, AdvanceStep DEF Goto, StepType
      <4>2. save'[Main(q)] = save[Main(q)]
        BY <1>1, <1>t, <3>2, AdvanceSaves, WriterFacts, WritersDiffer DEF SaveType
      <4> QED BY <4>1, <4>2 DEF InTurn
    <3> QED BY <3>1, <3>2
  <2>2. \A q \in Process : save'[<<q, "check">>] = save[<<q, "check">>]
    BY <1>1, <1>t, AdvanceTurns, WriterFacts, WritersDiffer DEF SaveType
  <2>3. \A q \in Process : check'[q] # "saving" => save'[<<q, "check">>] = "idle"
    BY <1>1, <1>t, <2>2, AdvanceChecks DEF InTurn, CheckType
  <2>4. \A q \in Process : step'[q] \in {"off", "migrated", "begin"} => check'[q] = "off"
    <3> SUFFICES ASSUME NEW q \in Process, step'[q] \in {"off", "migrated", "begin"}
                 PROVE  check'[q] = "off"
      OBVIOUS
    <3>1. CASE q = p BY <1>1, <1>t, <3>1, AdvanceChecks DEF InTurn
    <3>2. CASE q # p
      <4>1. step'[q] = step[q]
        BY <1>1, <1>t, <3>2, AdvanceTurns DEF Goto, StepType
      <4>2. check'[q] = check[q] BY <1>1, <1>t, <3>2, AdvanceChecks DEF CheckType
      <4> QED BY <4>1, <4>2 DEF InTurn
    <3> QED BY <3>1, <3>2
  <2> QED BY <2>1, <2>3, <2>4 DEF InTurn
<1>2. ASSUME NEW p \in Process, Exchange(p) PROVE InTurn'
  <2>1. UNCHANGED <<save, check>> BY <1>2, ExchangeStep DEF saving, checks
  <2>2. \A q \in Process : step'[q] = step[q] \/ (q = p /\ step'[q] \in Replacing \cup {"over"})
    BY <1>2, <1>t, ExchangeStep DEF Goto, StepType
  <2>3. step[p] \in Replacing BY <1>2, ExchangeStep
  <2> QED BY <2>1, <2>2, <2>3 DEF InTurn, Replacing, SaveSteps
<1>3. ASSUME NEW p \in Process, Beside(p) PROVE InTurn'
  <2>1. UNCHANGED step BY <1>3, BesideStep DEF command
  <2>2. \A q \in Process : save'[Main(q)] = save[Main(q)]
    BY <1>3, <1>t, WriterFacts, WritersDiffer DEF Beside, Ask, Asked, SaveType
  <2>3. \A q \in Process : q # p => /\ save'[<<q, "check">>] = save[<<q, "check">>]
                                   /\ check'[q] = check[q]
    BY <1>3, <1>t, WriterFacts, WritersDiffer DEF Beside, Ask, Asked, SaveType, CheckType
  <2>4. check[p] \in {"asking", "saving"} BY <1>3 DEF Beside, Ask, Asked
  <2>5. check'[p] # "saving" => save'[<<p, "check">>] = "idle"
    BY <1>3, <1>t, WriterFacts DEF InTurn, Beside, Ask, Asked, SaveType, CheckType
  <2>6. \A q \in Process : step'[q] \in {"off", "migrated", "begin"} => check'[q] = "off"
    BY <2>1, <2>3, <2>4 DEF InTurn
  <2> QED BY <2>1, <2>2, <2>3, <2>5, <2>6 DEF InTurn
<1>4. ASSUME NEW p \in Process, Leave(p) PROVE InTurn'
  <2>1. \A q \in Process : q # p => /\ save'[<<q, "check">>] = save[<<q, "check">>]
                                   /\ save'[Main(q)] = save[Main(q)]
                                   /\ check'[q] = check[q] /\ step'[q] = step[q]
    BY <1>4, <1>t, WriterFacts, WritersDiffer DEF Leave, CheckType, StepType
  <2>2. /\ save'[<<p, "check">>] = "idle" /\ save'[Main(p)] = "idle" /\ check'[p] = "off"
    BY <1>4, <1>t, WriterFacts, WritersDiffer DEF Leave, CheckType
  <2> QED BY <2>1, <2>2 DEF InTurn
<1>5. ASSUME NEW w \in Writer, Save(w) PROVE InTurn'
  <2>1. UNCHANGED <<step, check>> BY <1>5, SaveStep DEF command, checks
  <2>2. \A o \in Writer : save[o] = "idle" => save'[o] = "idle"
    BY <1>5, <1>t DEF Save, Marshal, OpenTmp, WriteTmp, RenameTmp, SaveFails, Underway, SaveType
  <2> QED BY <2>1, <2>2, WriterFacts DEF InTurn
<1>6. ASSUME UNCHANGED <<step, save, check>> PROVE InTurn' BY <1>6 DEF InTurn
<1> QED
  BY <1>1, <1>2, <1>3, <1>4, <1>5, <1>6, Kinds DEF Expire, vars, command, saving, checks

---------------------------------------------------------------------------
(* The configuration *)

\* As long as no two saves overlap, at most one is under way; it alone has the temporary file
\* open, which is empty until it has written and holds a whole document from then on.
Alone ==
  ~shared =>
    /\ \A w, o \in Writer : Underway(w) /\ Underway(o) => w = o
    /\ \A w \in Writer : /\ save[w] = "write" => fd[w] = "config.tmp"
                         /\ save[w] # "write" => fd[w] \notin {"config", "config.tmp"}
                         /\ save[w] = "write" => file["config.tmp"].kind = "cut"
                         /\ save[w] = "rename" => file["config.tmp"].kind = "config"
ConfigInv == TypeOK /\ InTurn /\ Alone /\ ConfigWhole

\* What the files of the configuration are, and who has them open, before and after.
ConfigStill ==
  /\ file'["config"] = file["config"] /\ file'["config.tmp"] = file["config.tmp"]
  /\ \A w \in Writer : \/ fd'[w] = fd[w]
                       \/ {fd'[w], fd[w]} \cap {"config", "config.tmp"} = {}

\* An exchange of the executable renames, removes and writes other names only.
LEMMA ExchangeStill ==
  ASSUME TypeOK, InTurn, Alone, ~shared, NEW p \in Process, Exchange(p) PROVE ConfigStill
<1> USE TypeParts
<1>n. Name = {"config", "config.tmp", "exe", "exe.new", "exe.bak", "exe.rollback"} BY DEF Name
<1>a. file \in [Name -> File] /\ fd \in [Writer -> Name \cup {"none", "gone"}]
  BY DEF FileType, FdType
<1>b. \A x, y \in Name \ {"config", "config.tmp"} : x # y /\ Rename(x, y) => ConfigStill
  <2> SUFFICES ASSUME NEW x \in Name \ {"config", "config.tmp"},
                      NEW y \in Name \ {"config", "config.tmp"}, x # y, Rename(x, y)
               PROVE  ConfigStill
    OBVIOUS
  <2>0. x # y /\ Rename(x, y)
        /\ x \notin {"config", "config.tmp"} /\ y \notin {"config", "config.tmp"}
    OBVIOUS
  <2>1. file'["config"] = file["config"] /\ file'["config.tmp"] = file["config.tmp"]
    <3>1. \A n \in Name \ {x, y} : file'[n] = file[n]
      <4>1. x \in Name /\ y \in Name \ {x} BY <2>0
      <4> QED BY <1>a, <2>0, <4>1, RenamedFiles DEF Rename
    <3>2. "config" \in Name \ {x, y} /\ "config.tmp" \in Name \ {x, y} BY <1>n, <2>0
    <3> QED BY <3>1, <3>2
  <2>2. \A w \in Writer : \/ fd'[w] = fd[w]
                          \/ {fd'[w], fd[w]} \cap {"config", "config.tmp"} = {}
    BY <1>a DEF Rename, Moved
  <2> QED BY <2>1, <2>2 DEF ConfigStill
<1>c. \A x \in Name \ {"config", "config.tmp"} : Remove(x) => ConfigStill
  BY <1>a, <1>n DEF Remove, ConfigStill
<1>d. UNCHANGED disk => ConfigStill BY DEF ConfigStill, disk
<1>m. Main(p) \in Writer /\ fd[Main(p)] \notin {"config", "config.tmp"}
  <2>1. step[p] \in Replacing BY ExchangeStep
  <2>2. step[p] \notin SaveSteps BY <2>1 DEF Replacing, SaveSteps
  <2> QED BY <2>2, WriterFacts DEF InTurn, Alone
<1>1. CASE Stage(p) BY <1>a, <1>d, <1>m, <1>n, <1>1 DEF Stage, ConfigStill
<1>2. CASE Fill(p)
  <2>1. file'["config"] = file["config"] /\ file'["config.tmp"] = file["config.tmp"]
    BY <1>a, <1>m, <1>n, <1>2 DEF Fill
  <2>2. \A w \in Writer : \/ fd'[w] = fd[w]
                          \/ {fd'[w], fd[w]} \cap {"config", "config.tmp"} = {}
    BY <1>a, <1>m, <1>2 DEF Fill
  <2> QED BY <2>1, <2>2 DEF ConfigStill
<1>3. CASE Mode(p) \/ Unback(p) \/ Backup(p)
  BY <1>b, <1>c, <1>d, <1>n, <1>3 DEF Mode, Unback, Backup
<1>4. CASE Swap(p) \/ Undo(p) BY <1>b, <1>d, <1>n, <1>4 DEF Swap, Undo
<1>5. CASE Rollback(p)
  BY <1>b, <1>c, <1>d, <1>n, <1>5 DEF Rollback, Stat, Aside, Restore, Putback, Tidy
<1> QED BY <1>1, <1>2, <1>3, <1>4, <1>5 DEF Exchange

\* Steps that keep the files of the configuration and begin or end no writing.
LEMMA StillKeeps ==
  ASSUME Alone, ConfigWhole, UNCHANGED shared, ~shared => ConfigStill,
         \A w \in Writer :
           save'[w] = save[w] \/ {save'[w], save[w]} \cap {"open", "write", "rename"} = {}
  PROVE  Alone' /\ ConfigWhole'
<1> SUFFICES ASSUME ~shared PROVE Alone' /\ ConfigWhole' BY DEF Alone, ConfigWhole
<1>1. \A w \in Writer : Underway(w)' <=> Underway(w) BY DEF Underway
<1>2. \A w \in Writer : /\ save'[w] = "write" <=> save[w] = "write"
                        /\ save'[w] = "rename" <=> save[w] = "rename"
  OBVIOUS
<1>3. Alone' BY <1>1, <1>2 DEF Alone, ConfigStill
<1>4. ConfigWhole' BY DEF ConfigWhole, ConfigStill
<1> QED BY <1>3, <1>4

\* The steps of the one save that is under way, from the truncation to the rename.
LEMMA SaveAlone ==
  ASSUME TypeOK, Alone, ConfigWhole, NEW w \in Writer, Save(w) PROVE Alone' /\ ConfigWhole'
<1> SUFFICES ASSUME ~shared' PROVE Alone' /\ ConfigWhole' BY DEF Alone, ConfigWhole
<1>t. /\ file \in [Name -> File] /\ fd \in [Writer -> Name \cup {"none", "gone"}]
      /\ save \in [Writer -> {"idle", "marshal", "open", "write", "rename", "ok", "failed"}]
      /\ buf \in [Writer -> Apple]
  BY TypeParts DEF FileType, FdType, SaveType, AppleType
<1>n. Name = {"config", "config.tmp", "exe", "exe.new", "exe.bak", "exe.rollback"} BY DEF Name
<1>s. ~shared
  BY DEF Save, Marshal, OpenTmp, WriteTmp, RenameTmp, SaveFails
<1>o. \A o \in Writer \ {w} : save'[o] = save[o]
  BY <1>t DEF Save, Marshal, OpenTmp, WriteTmp, RenameTmp, SaveFails
\* No other save is under way.
<1>q. \A o \in Writer \ {w} : save[o] \notin {"open", "write", "rename"}
  <2>1. CASE Marshal(w) BY <2>1 DEF Marshal, Underway
  <2>2. CASE ~Marshal(w)
    <3>1. Underway(w) BY <2>2 DEF Save, OpenTmp, WriteTmp, RenameTmp, SaveFails, Underway
    <3> QED BY <1>s, <3>1 DEF Alone, Underway
  <2> QED BY <2>1, <2>2
<1>u. \A x, y \in Writer : Underway(x)' /\ Underway(y)' => x = y
  BY <1>o, <1>q DEF Underway
<1>f. \A o \in Writer \ {w} : fd[o] \notin {"config", "config.tmp"}
  BY <1>q, <1>s DEF Alone
<1>1. CASE Marshal(w)
  <2>1. save'[w] = "open" /\ UNCHANGED <<file, fd>> /\ save[w] = "marshal"
    BY <1>t, <1>1 DEF Marshal, disk
  <2>2. fd[w] \notin {"config", "config.tmp"} BY <1>s, <2>1 DEF Alone
  <2> QED BY <1>f, <1>o, <1>q, <1>s, <1>u, <2>1, <2>2 DEF Alone, ConfigWhole
<1>2. CASE OpenTmp(w)
  <2>1. save'[w] = "write" /\ fd'[w] = "config.tmp" BY <1>t, <1>2 DEF OpenTmp
  <2>2. \A o \in Writer \ {w} : fd'[o] = fd[o] BY <1>t, <1>2 DEF OpenTmp
  <2>3. file'["config.tmp"].kind = "cut" /\ file'["config"] = file["config"]
    BY <1>t, <1>n, <1>2 DEF OpenTmp, Plain
  <2> QED BY <1>f, <1>o, <1>q, <1>s, <1>u, <2>1, <2>2, <2>3 DEF Alone, ConfigWhole
<1>3. CASE WriteTmp(w)
  <2>1. save'[w] = "rename" /\ fd'[w] = "none" /\ save[w] = "write" BY <1>t, <1>3 DEF WriteTmp
  <2>2. \A o \in Writer \ {w} : fd'[o] = fd[o] BY <1>t, <1>3 DEF WriteTmp
  <2>3. fd[w] = "config.tmp" /\ file["config.tmp"].kind = "cut" BY <1>s, <2>1 DEF Alone
  <2>4. file' = [file EXCEPT !["config.tmp"] = Config(buf[w])] BY <1>3, <2>3 DEF WriteTmp
  <2>5. Config(buf[w]).kind = "config" BY <1>t, FileFacts
  <2>6. file'["config.tmp"].kind = "config" /\ file'["config"] = file["config"]
    BY <1>t, <1>n, <2>4, <2>5
  <2> QED BY <1>f, <1>o, <1>q, <1>s, <1>u, <2>1, <2>2, <2>6 DEF Alone, ConfigWhole
<1>4. CASE RenameTmp(w)
  <2>1. save'[w] = "ok" /\ save[w] = "rename" BY <1>t, <1>4 DEF RenameTmp
  <2>2. file["config.tmp"].kind = "config" /\ fd[w] \notin {"config", "config.tmp"}
    BY <1>s, <2>1 DEF Alone
  <2>3. file'["config"] = file["config.tmp"]
    BY <1>t, <1>n, <1>4, RenamedFiles DEF RenameTmp, Rename
  <2>4. \A o \in Writer : fd'[o] = fd[o]
    BY <1>t, <1>f, <1>4, <2>2 DEF RenameTmp, Rename, Moved
  <2> QED BY <1>f, <1>o, <1>q, <1>s, <1>u, <2>1, <2>2, <2>3, <2>4 DEF Alone, ConfigWhole
<1>5. CASE SaveFails(w)
  <2>1. save'[w] = "failed" /\ fd'[w] = "none" BY <1>t, <1>5 DEF SaveFails
  <2>2. UNCHANGED file /\ \A o \in Writer \ {w} : fd'[o] = fd[o] BY <1>t, <1>5 DEF SaveFails
  <2> QED BY <1>f, <1>o, <1>q, <1>s, <1>u, <2>1, <2>2 DEF Alone, ConfigWhole
<1> QED BY <1>1, <1>2, <1>3, <1>4, <1>5 DEF Save

\* A process that is killed leaves the temporary file as it is, and nobody has it open.
LEMMA LeaveAlone ==
  ASSUME TypeOK, Alone, ConfigWhole, NEW p \in Process, Leave(p) PROVE Alone' /\ ConfigWhole'
<1> SUFFICES ASSUME ~shared PROVE Alone' /\ ConfigWhole' BY DEF Alone, ConfigWhole, Leave
<1>t. /\ fd \in [Writer -> Name \cup {"none", "gone"}]
      /\ save \in [Writer -> {"idle", "marshal", "open", "write", "rename", "ok", "failed"}]
  BY TypeParts DEF FdType, SaveType
<1>1. \A w \in Writer : \/ save'[w] = save[w] /\ fd'[w] = fd[w]
                        \/ save'[w] = "idle" /\ fd'[w] = "none"
  BY <1>t DEF Leave
<1>2. UNCHANGED file BY DEF Leave
<1> QED BY <1>1, <1>2 DEF Alone, ConfigWhole, Underway

\* Every kind of step keeps the temporary file to one writer, and config.json whole.
LEMMA ConfigStep == ASSUME ConfigInv, [Next]_vars PROVE Alone' /\ ConfigWhole'
<1> USE DEF ConfigInv
<1>t. /\ save \in [Writer -> {"idle", "marshal", "open", "write", "rename", "ok", "failed"}]
      /\ StepType /\ CheckType
  BY TypeParts DEF SaveType
<1>d. UNCHANGED disk => ConfigStill BY DEF ConfigStill, disk
<1>1. ASSUME NEW p \in Process, Advance(p) PROVE Alone' /\ ConfigWhole'
  <2>1. \A w \in Writer :
          save'[w] = save[w] \/ {save'[w], save[w]} \cap {"open", "write", "rename"} = {}
    <3>1. CASE UNCHANGED save BY <3>1
    <3>2. CASE /\ step[p] \notin SaveSteps /\ save' = [save EXCEPT ![Main(p)] = "marshal"]
      <4>1. save[Main(p)] = "idle" BY <3>2 DEF InTurn
      <4> QED BY <1>t, <3>2, <4>1, WriterFacts
    <3>3. CASE /\ save[Main(p)] \in {"ok", "failed"} /\ save' = [save EXCEPT ![Main(p)] = "idle"]
      BY <1>t, <3>3, WriterFacts
    <3> QED BY <1>1, <3>1, <3>2, <3>3, AdvanceTurns
  <2> QED BY <1>1, <1>d, <2>1, AdvanceSaves, StillKeeps
<1>2. ASSUME NEW p \in Process, Exchange(p) PROVE Alone' /\ ConfigWhole'
  <2>1. UNCHANGED <<save, shared>> BY <1>2, ExchangeStep DEF saving
  <2>2. ~shared => ConfigStill BY <1>2, ExchangeStill
  <2> QED BY <2>1, <2>2, StillKeeps
<1>3. ASSUME NEW p \in Process, Beside(p) PROVE Alone' /\ ConfigWhole'
  <2>1. \A w \in Writer :
          save'[w] = save[w] \/ {save'[w], save[w]} \cap {"open", "write", "rename"} = {}
    <3>1. CASE Ask(p)
      <4>1. save[<<p, "check">>] = "idle" BY <3>1 DEF Ask, InTurn
      <4> QED BY <1>t, <3>1, <4>1, WriterFacts DEF Ask
    <3>2. CASE Asked(p) BY <1>t, <3>2, WriterFacts DEF Asked
    <3> QED BY <1>3, <3>1, <3>2 DEF Beside
  <2>2. UNCHANGED <<shared, disk>> BY <1>3, BesideStep
  <2> QED BY <1>d, <2>1, <2>2, StillKeeps
<1>4. ASSUME UNCHANGED <<save, shared, disk>> PROVE Alone' /\ ConfigWhole'
  BY <1>d, <1>4, StillKeeps
<1> QED
  BY <1>1, <1>2, <1>3, <1>4, SaveAlone, LeaveAlone, Kinds DEF Expire, vars, saving

\* At the start nobody saves and config.json is absent or whole.
LEMMA InitConfig == ASSUME Init PROVE InTurn /\ Alone /\ ConfigWhole
<1>1. InTurn BY WriterFacts DEF Init, InTurn
<1>2. Alone BY DEF Init, Alone, Underway
<1>3. ConfigWhole BY FirstFiles DEF ConfigWhole
<1> QED BY <1>1, <1>2, <1>3

\* However saves fail and whenever processes are killed, config.json is a whole document, as
\* long as no two saves were under way at the same time: the way Config.Save writes beside the
\* file and renames is enough for that, and only for that.
THEOREM ConfigStaysWhole == Spec => []ConfigWhole
<1>1. Init => ConfigInv BY InitTyped, InitConfig DEF ConfigInv
<1>2. ConfigInv /\ [Next]_vars => ConfigInv'
  BY TypeStep, InTurnStep, ConfigStep DEF ConfigInv
<1>3. ConfigInv => ConfigWhole BY DEF ConfigInv
<1> QED BY <1>1, <1>2, <1>3, PTL DEF Spec

---------------------------------------------------------------------------
(* The executable *)

Exes == {"exe", "exe.new", "exe.bak", "exe.rollback"}
Kind(n) == file[n].kind

\* A save writes to files of the configuration only, or to one that has no name any more.
WritesConfig == \A w \in Writer : save[w] = "write" => fd[w] \in {"config", "config.tmp", "gone"}

\* As long as only one process exchanges the executable at a time, it knows what there is.
Exchanging ==
  ~clash =>
    /\ \A p, q \in Process : step[p] \in Replacing /\ step[q] \in Replacing => p = q
    /\ Kind("exe") = "program" \/ (Kind("exe") = "missing" /\ Kind("exe.bak") = "program")
    /\ Kind("exe.bak") \in {"missing", "program"}
    /\ \A p \in Process :
         /\ step[p] = "fill" => fd[Main(p)] = "exe.new"
         /\ step[p] \in {"fill", "mode", "unback", "backup", "tidy"} => Kind("exe") = "program"
         /\ step[p] \in {"mode", "unback", "backup", "swap"} => Kind("exe.new") = "program"
         /\ step[p] \in {"swap", "undo", "restore", "putback"}
              => Kind("exe") = "missing" /\ Kind("exe.bak") = "program"
         /\ step[p] = "aside" => Kind("exe.bak") = "program" /\ Kind("exe.rollback") = "missing"
         /\ step[p] \in {"restore", "putback"} => Kind("exe.rollback") \in {"missing", "program"}

\* No exchange takes away the file that a save is writing.
LEMMA ExchangeNames ==
  ASSUME TypeOK, InTurn, WritesConfig, NEW p \in Process, Exchange(p)
  PROVE  \A w \in Writer : save[w] = "write" => fd'[w] = fd[w]
<1>a. fd \in [Writer -> Name \cup {"none", "gone"}] BY TypeParts DEF FdType
<1>m. save[Main(p)] # "write"
  <2>1. step[p] \in Replacing BY ExchangeStep
  <2> QED BY <2>1 DEF Replacing, SaveSteps, InTurn
<1> SUFFICES ASSUME NEW w \in Writer, save[w] = "write" PROVE fd'[w] = fd[w] OBVIOUS
<1>w. fd[w] \in {"config", "config.tmp", "gone"} /\ w # Main(p) BY <1>m DEF WritesConfig
<1>b. \A x, y \in Exes : Rename(x, y) => fd'[w] = fd[w] BY <1>a, <1>w DEF Rename, Moved, Exes
<1>c. \A x \in Exes : Remove(x) => fd'[w] = fd[w] BY <1>a, <1>w DEF Remove, Exes
<1>d. UNCHANGED disk => fd'[w] = fd[w] BY DEF disk
<1>1. CASE Stage(p) \/ Fill(p) BY <1>a, <1>d, <1>w, <1>1 DEF Stage, Fill
<1>2. CASE Mode(p) \/ Unback(p) \/ Backup(p)
  BY <1>b, <1>c, <1>d, <1>2 DEF Mode, Unback, Backup, Exes
<1>3. CASE Swap(p) \/ Undo(p) BY <1>b, <1>d, <1>3 DEF Swap, Undo, Exes
<1>4. CASE Rollback(p)
  BY <1>b, <1>c, <1>d, <1>4 DEF Rollback, Stat, Aside, Restore, Putback, Tidy, Exes
<1> QED BY <1>1, <1>2, <1>3, <1>4 DEF Exchange

\* No save ever has a name of the executable open.
LEMMA WritesStep == ASSUME TypeOK, InTurn, WritesConfig, [Next]_vars PROVE WritesConfig'
<1>t. /\ save \in [Writer -> {"idle", "marshal", "open", "write", "rename", "ok", "failed"}]
      /\ fd \in [Writer -> Name \cup {"none", "gone"}]
  BY TypeParts DEF SaveType, FdType
<1>d. ASSUME UNCHANGED disk, \A w \in Writer : save'[w] = "write" => save[w] = "write"
      PROVE  WritesConfig'
  BY <1>d DEF WritesConfig, disk
<1>1. ASSUME NEW p \in Process, Advance(p) PROVE WritesConfig'
  <2>1. \A w \in Writer : save'[w] = "write" => save[w] = "write"
    BY <1>1, <1>t, AdvanceSaves, WriterFacts
  <2> QED BY <1>1, <1>d, <2>1, AdvanceSaves
<1>2. ASSUME NEW p \in Process, Exchange(p) PROVE WritesConfig'
  <2>1. UNCHANGED save BY <1>2, ExchangeStep DEF saving
  <2> QED BY <1>2, <2>1, ExchangeNames DEF WritesConfig
<1>3. ASSUME NEW p \in Process, Beside(p) PROVE WritesConfig'
  <2>1. \A w \in Writer : save'[w] = "write" => save[w] = "write"
    BY <1>3, <1>t, WriterFacts DEF Beside, Ask, Asked
  <2> QED BY <1>3, <1>d, <2>1, BesideStep
<1>4. ASSUME NEW p \in Process, Leave(p) PROVE WritesConfig'
  BY <1>4, <1>t DEF Leave, WritesConfig
<1>5. ASSUME NEW w \in Writer, Save(w) PROVE WritesConfig'
  <2>1. CASE Marshal(w) BY <1>d, <1>t, <2>1 DEF Marshal
  <2>2. CASE OpenTmp(w) BY <1>t, <2>2 DEF OpenTmp, WritesConfig
  <2>3. CASE WriteTmp(w) BY <1>t, <2>3 DEF WriteTmp, WritesConfig
  <2>4. CASE RenameTmp(w) BY <1>t, <2>4 DEF RenameTmp, Rename, Moved, WritesConfig
  <2>5. CASE SaveFails(w) BY <1>t, <2>5 DEF SaveFails, WritesConfig
  <2> QED BY <1>5, <2>1, <2>2, <2>3, <2>4, <2>5 DEF Save
<1>6. ASSUME UNCHANGED <<save, disk>> PROVE WritesConfig' BY <1>6, <1>d
<1> QED BY <1>1, <1>2, <1>3, <1>4, <1>5, <1>6, Kinds DEF Expire, vars, saving

\* Steps that leave the executable and its copies as they are.
ExesStill == /\ \A n \in Exes : file'[n] = file[n]
             /\ \A p \in Process : step[p] = "fill" => fd'[Main(p)] = fd[Main(p)]

\* ... do no harm to the one process that exchanges it; and another may only begin when
\* there is none.
LEMMA StillExchanging ==
  ASSUME Exchanging, clash => clash', ExesStill,
         \A p \in Process : step'[p] = step[p] \/ step'[p] \notin Replacing \ {"stage", "stat"},
         \A p \in Process : ~clash' /\ step'[p] # step[p] /\ step'[p] \in Replacing
           => \A q \in Process \ {p} : step[q] \notin Replacing /\ step'[q] = step[q]
  PROVE  Exchanging'
<1> SUFFICES ASSUME ~clash' PROVE Exchanging' BY DEF Exchanging
<1>a. ~clash OBVIOUS
<1>b. \A n \in Exes : Kind(n)' = Kind(n) BY DEF ExesStill, Kind
<1>c. /\ Kind("exe")' = Kind("exe") /\ Kind("exe.new")' = Kind("exe.new")
      /\ Kind("exe.bak")' = Kind("exe.bak") /\ Kind("exe.rollback")' = Kind("exe.rollback")
  BY <1>b DEF Exes
<1>1. \A p, q \in Process : step'[p] \in Replacing /\ step'[q] \in Replacing => p = q
  BY <1>a DEF Exchanging
<1>2. \A p \in Process : step'[p] \in Replacing \ {"stage", "stat"} => step'[p] = step[p]
  OBVIOUS
<1>3. ASSUME NEW p \in Process
      PROVE  /\ step'[p] = "fill" => fd'[Main(p)] = "exe.new"
             /\ step'[p] \in {"fill", "mode", "unback", "backup", "tidy"}
                  => Kind("exe") = "program"
             /\ step'[p] \in {"mode", "unback", "backup", "swap"} => Kind("exe.new") = "program"
             /\ step'[p] \in {"swap", "undo", "restore", "putback"}
                  => Kind("exe") = "missing" /\ Kind("exe.bak") = "program"
             /\ step'[p] = "aside"
                  => Kind("exe.bak") = "program" /\ Kind("exe.rollback") = "missing"
             /\ step'[p] \in {"restore", "putback"}
                  => Kind("exe.rollback") \in {"missing", "program"}
  <2>1. CASE step'[p] = step[p] BY <1>a, <2>1 DEF Exchanging, ExesStill
  <2>2. CASE step'[p] # step[p] BY <1>2, <2>2 DEF Replacing
  <2> QED BY <2>1, <2>2
<1> QED BY <1>a, <1>c, <1>1, <1>3 DEF Exchanging

\* An exchange begins with its first step, and notes any other.
LEMMA AdvanceReplaces ==
  ASSUME NEW p \in Process, Advance(p), StepType
  PROVE  /\ clash => clash'
         /\ step'[p] \in Replacing
              => /\ step'[p] \in {"stage", "stat"}
                 /\ clash' \/ \A q \in Process : step[q] \notin Replacing
<1>1. CASE Start(p) BY <1>1 DEF Start, SaveAt, Goto, StepType, Replacing
<1>2. CASE Migrated(p) BY <1>2 DEF Migrated, Saved, Goto, Quiet, StepType, Replacing
<1>3. CASE Begin(p)
  <2>1. \E s \in {"clear", "prompt", "attempt", "accepted", "wait", "kept", "over", "latest"} :
          Goto(p, s) \/ (Goto(p, "stat") /\ cmd[p] = "rollback")
    BY <1>3 DEF Begin, AuthBegins, FetchBegins, KeepBegins, UpdateBegins, SaveAt
  <2>2. clash' = (clash \/ (cmd[p] = "rollback" /\ \E q \in Process : step[q] \in Replacing))
    BY <1>3 DEF Begin
  <2>3. CASE Goto(p, "stat") /\ cmd[p] = "rollback"
    BY <2>2, <2>3 DEF Goto, StepType, Replacing
  <2>4. ASSUME NEW s \in {"clear", "prompt", "attempt", "accepted", "wait", "kept", "over",
                          "latest"}, Goto(p, s)
        PROVE  step'[p] \notin Replacing
    BY <2>4 DEF Goto, StepType, Replacing
  <2> QED BY <2>1, <2>2, <2>3, <2>4
<1>4. CASE Wait(p) \/ Noticed(p)
  BY <1>4 DEF Wait, Noticed, SaveAt, Saved, Goto, Quiet, StepType, Replacing
<1>5. CASE Latest(p)
  <2>1. CASE Goto(p, "over") /\ UNCHANGED clash BY <2>1 DEF Goto, StepType, Replacing
  <2>2. CASE /\ Goto(p, "stage")
             /\ clash' = (clash \/ \E q \in Process : step[q] \in Replacing)
    BY <2>2 DEF Goto, StepType, Replacing
  <2> QED BY <1>5, <2>1, <2>2 DEF Latest
<1>6. CASE Auth(p)
  <2>1. CASE Clear(p) BY <2>1 DEF Clear, SaveAt, Goto, Quiet, StepType, Replacing
  <2>2. CASE Reset(p) \/ Signed(p) \/ Settled(p)
    <3>1. /\ UNCHANGED clash
          /\ \E s \in {"prompt", "wait", "device", "over", "attempt"} : Goto(p, s)
      BY <2>2 DEF Reset, Signed, Settled, Quiet
    <3> QED BY <3>1 DEF Goto, StepType, Replacing
  <2>3. CASE Prompt(p) \/ Login(p) \/ Device(p)
    BY <2>3 DEF Prompt, Login, Device, SaveAt, Goto, Quiet, StepType, Replacing
  <2> QED BY <1>6, <2>1, <2>2, <2>3 DEF Auth
<1>7. CASE Fetch(p)
  BY <1>7 DEF Fetch, Attempt, Exhausted, Reauth, Reauthed, Purchase, SaveAt, Saved, Goto, Quiet,
     StepType, Replacing
<1> QED BY <1>1, <1>2, <1>3, <1>4, <1>5, <1>6, <1>7 DEF Advance

\* A save leaves the executable and its backups as they are.
LEMMA SaveStill ==
  ASSUME TypeOK, InTurn, WritesConfig, Exchanging, ~clash, NEW w \in Writer, Save(w)
  PROVE  ExesStill
<1>a. file \in [Name -> File] /\ fd \in [Writer -> Name \cup {"none", "gone"}]
  BY TypeParts DEF FileType, FdType
<1>n. Name = {"config", "config.tmp"} \cup Exes /\ Exes \cap {"config", "config.tmp"} = {}
  BY DEF Name, Exes
<1>m. ASSUME NEW p \in Process, step[p] = "fill"
      PROVE  /\ Main(p) \in Writer /\ fd[Main(p)] = "exe.new" /\ save[Main(p)] = "idle"
  BY <1>m, WriterFacts DEF InTurn, SaveSteps, Exchanging
<1>w. save[w] # "idle" BY DEF Save, Marshal, OpenTmp, WriteTmp, RenameTmp, SaveFails, Underway
<1>1. CASE Marshal(w) BY <1>1 DEF Marshal, ExesStill, disk
<1>2. CASE OpenTmp(w)
  <2>1. \A n \in Exes : file'[n] = file[n] BY <1>a, <1>n, <1>2 DEF OpenTmp
  <2>2. \A o \in Writer \ {w} : fd'[o] = fd[o] BY <1>a, <1>2 DEF OpenTmp
  <2> QED BY <1>m, <1>w, <2>1, <2>2 DEF ExesStill
<1>3. CASE WriteTmp(w)
  <2>1. fd[w] \in {"config", "config.tmp", "gone"} BY <1>3 DEF WriteTmp, WritesConfig
  <2>2. UNCHANGED file \/ \E c : file' = [file EXCEPT ![fd[w]] = c] BY <1>3 DEF WriteTmp
  <2>3. \A n \in Exes : file'[n] = file[n] BY <1>a, <1>n, <2>1, <2>2 DEF Exes
  <2>4. \A o \in Writer \ {w} : fd'[o] = fd[o] BY <1>a, <1>3 DEF WriteTmp
  <2> QED BY <1>m, <1>w, <2>3, <2>4 DEF ExesStill
<1>4. CASE RenameTmp(w)
  <2>1. \A n \in Exes : file'[n] = file[n]
    <3>1. "config.tmp" \in Name /\ "config" \in Name \ {"config.tmp"} BY <1>n
    <3>2. \A n \in Name \ {"config.tmp", "config"} : file'[n] = file[n]
      BY <1>a, <1>4, <3>1, RenamedFiles DEF RenameTmp, Rename
    <3> QED BY <1>n, <3>2
  <2>2. \A o \in Writer : fd[o] = "exe.new" => fd'[o] = fd[o]
    BY <1>a, <1>4 DEF RenameTmp, Rename, Moved
  <2> QED BY <1>m, <2>1, <2>2 DEF ExesStill
<1>5. CASE SaveFails(w)
  <2>1. UNCHANGED file /\ \A o \in Writer \ {w} : fd'[o] = fd[o] BY <1>a, <1>5 DEF SaveFails
  <2> QED BY <1>m, <1>w, <2>1 DEF ExesStill
<1> QED BY <1>1, <1>2, <1>3, <1>4, <1>5 DEF Save

\* A step of the exchange, seen from the files.
LEMMA ExchangeFiles ==
  ASSUME TypeOK, Exchanging, ~clash, NEW p \in Process, Exchange(p)
  PROVE  LET s == step'[p]
         IN /\ \/ Kind("exe")' = "program"
               \/ Kind("exe")' = "missing" /\ Kind("exe.bak")' = "program"
            /\ Kind("exe.bak")' \in {"missing", "program"}
            /\ s = "fill" => fd'[Main(p)] = "exe.new"
            /\ s \in {"fill", "mode", "unback", "backup", "tidy"} => Kind("exe")' = "program"
            /\ s \in {"mode", "unback", "backup", "swap"} => Kind("exe.new")' = "program"
            /\ s \in {"swap", "undo", "restore", "putback"}
                 => Kind("exe")' = "missing" /\ Kind("exe.bak")' = "program"
            /\ s = "aside" => Kind("exe.bak")' = "program" /\ Kind("exe.rollback")' = "missing"
            /\ s \in {"restore", "putback"} => Kind("exe.rollback")' \in {"missing", "program"}
<1> DEFINE Result ==
       /\ \/ Kind("exe")' = "program"
          \/ Kind("exe")' = "missing" /\ Kind("exe.bak")' = "program"
       /\ Kind("exe.bak")' \in {"missing", "program"}
       /\ step'[p] = "fill" => fd'[Main(p)] = "exe.new"
       /\ step'[p] \in {"fill", "mode", "unback", "backup", "tidy"} => Kind("exe")' = "program"
       /\ step'[p] \in {"mode", "unback", "backup", "swap"} => Kind("exe.new")' = "program"
       /\ step'[p] \in {"swap", "undo", "restore", "putback"}
            => Kind("exe")' = "missing" /\ Kind("exe.bak")' = "program"
       /\ step'[p] = "aside" => Kind("exe.bak")' = "program" /\ Kind("exe.rollback")' = "missing"
       /\ step'[p] \in {"restore", "putback"} => Kind("exe.rollback")' \in {"missing", "program"}
<1>a. /\ file \in [Name -> File] /\ fd \in [Writer -> Name \cup {"none", "gone"}]
      /\ step \in [Process -> Step] /\ Main(p) \in Writer
  BY TypeParts, WriterFacts DEF FileType, FdType, StepType
<1>n. /\ "exe" \in Name /\ "exe.new" \in Name /\ "exe.bak" \in Name /\ "exe.rollback" \in Name
  BY DEF Name
<1>k. \A k \in {"missing", "cut", "program"} : Plain(k).kind = k BY FileFacts
\* What the process knows before the step.
<1>e. /\ Kind("exe") = "program" \/ (Kind("exe") = "missing" /\ Kind("exe.bak") = "program")
      /\ Kind("exe.bak") \in {"missing", "program"}
      /\ step[p] = "fill" => fd[Main(p)] = "exe.new"
      /\ step[p] \in {"fill", "mode", "unback", "backup", "tidy"} => Kind("exe") = "program"
      /\ step[p] \in {"mode", "unback", "backup", "swap"} => Kind("exe.new") = "program"
      /\ step[p] \in {"swap", "undo", "restore", "putback"}
           => Kind("exe") = "missing" /\ Kind("exe.bak") = "program"
      /\ step[p] = "aside" => Kind("exe.bak") = "program" /\ Kind("exe.rollback") = "missing"
      /\ step[p] \in {"restore", "putback"} => Kind("exe.rollback") \in {"missing", "program"}
  BY DEF Exchanging
<1>g. \A s : Goto(p, s) => step'[p] = s BY <1>a DEF Goto
<1>u. UNCHANGED disk => \A n \in Exes : Kind(n)' = Kind(n) BY DEF disk, Kind
<1>v. UNCHANGED disk => /\ Kind("exe")' = Kind("exe") /\ Kind("exe.new")' = Kind("exe.new")
                        /\ Kind("exe.bak")' = Kind("exe.bak")
                        /\ Kind("exe.rollback")' = Kind("exe.rollback")
  BY <1>u DEF Exes
<1>r. \A x, y \in Exes : x # y /\ Rename(x, y)
        => /\ Kind(y)' = Kind(x) /\ Kind(x)' = "missing"
           /\ \A n \in Exes \ {x, y} : Kind(n)' = Kind(n)
  <2> SUFFICES ASSUME NEW x \in Exes, NEW y \in Exes, x # y, Rename(x, y)
               PROVE  /\ Kind(y)' = Kind(x) /\ Kind(x)' = "missing"
                      /\ \A n \in Exes \ {x, y} : Kind(n)' = Kind(n)
    OBVIOUS
  <2>1. x \in Name /\ y \in Name \ {x} /\ Exes \subseteq Name BY DEF Exes, Name
  <2>2. /\ file'[y] = file[x] /\ file'[x] = Plain("missing")
        /\ \A n \in Name \ {x, y} : file'[n] = file[n]
    BY <1>a, <2>1, RenamedFiles DEF Rename
  <2> QED BY <1>k, <2>1, <2>2 DEF Kind
<1>x. \A x \in Exes : Remove(x) => /\ Kind(x)' = "missing"
                                  /\ \A n \in Exes \ {x} : Kind(n)' = Kind(n)
  BY <1>a, <1>k, <1>n DEF Remove, Kind, Exes
<1>1. CASE Stage(p)
  <2>1. CASE /\ file["exe"].kind # "missing" /\ Goto(p, "fill")
             /\ file' = [file EXCEPT !["exe.new"] = Plain("cut")]
             /\ fd' = [fd EXCEPT ![Main(p)] = "exe.new"]
    <3>1. Kind("exe")' = Kind("exe") /\ Kind("exe.bak")' = Kind("exe.bak")
      BY <1>a, <1>n, <2>1 DEF Kind
    <3>2. Kind("exe") = "program" BY <1>e, <2>1 DEF Kind
    <3>3. step'[p] = "fill" /\ fd'[Main(p)] = "exe.new" BY <1>a, <1>g, <2>1
    <3> QED BY <1>e, <3>1, <3>2, <3>3
  <2>2. CASE Goto(p, "over") /\ UNCHANGED disk BY <1>e, <1>g, <1>v, <2>2
  <2> QED BY <1>1, <2>1, <2>2 DEF Stage
<1>2. CASE Fill(p)
  <2>0. step[p] = "fill" BY <1>2 DEF Fill, Replace
  <2>1. CASE /\ Goto(p, "mode")
             /\ file' = IF fd[Main(p)] = "gone" THEN file
                        ELSE [file EXCEPT ![fd[Main(p)]] = Plain("program")]
    <3>1. file' = [file EXCEPT !["exe.new"] = Plain("program")] BY <1>e, <2>0, <2>1
    <3>2. /\ Kind("exe.new")' = "program" /\ Kind("exe")' = Kind("exe")
          /\ Kind("exe.bak")' = Kind("exe.bak")
      BY <1>a, <1>k, <1>n, <3>1 DEF Kind
    <3> QED BY <1>e, <1>g, <2>0, <2>1, <3>2
  <2>2. CASE Goto(p, "over") /\ UNCHANGED file
    <3>1. Kind("exe")' = Kind("exe") /\ Kind("exe.bak")' = Kind("exe.bak") BY <2>2 DEF Kind
    <3> QED BY <1>e, <1>g, <2>2, <3>1
  <2> QED BY <1>2, <2>1, <2>2 DEF Fill
<1>3. CASE Mode(p)
  <2>1. CASE Goto(p, "unback") /\ UNCHANGED disk
    <3>1. step[p] = "mode" BY <1>3 DEF Mode, Replace
    <3> QED BY <1>e, <1>g, <1>v, <2>1, <3>1
  <2>2. CASE Goto(p, "over") /\ Remove("exe.new") BY <1>e, <1>g, <1>x, <2>2 DEF Exes
  <2> QED BY <1>3, <2>1, <2>2 DEF Mode
<1>4. CASE Unback(p)
  <2>1. step[p] = "unback" /\ step'[p] = "backup" BY <1>4, <1>g DEF Unback, Replace
  <2>2. /\ Kind("exe.bak")' = "missing" /\ Kind("exe")' = Kind("exe")
        /\ Kind("exe.new")' = Kind("exe.new")
    BY <1>4, <1>x DEF Unback, Exes
  <2> QED BY <1>e, <2>1, <2>2
<1>5. CASE Backup(p)
  <2>0. step[p] = "backup" BY <1>5 DEF Backup, Replace
  <2>1. CASE Goto(p, "swap") /\ Rename("exe", "exe.bak")
    <3>1. /\ Kind("exe.bak")' = Kind("exe") /\ Kind("exe")' = "missing"
          /\ Kind("exe.new")' = Kind("exe.new")
      BY <1>r, <2>1 DEF Exes
    <3> QED BY <1>e, <1>g, <2>0, <2>1, <3>1
  <2>2. CASE Goto(p, "over") /\ Remove("exe.new") BY <1>e, <1>g, <1>x, <2>2 DEF Exes
  <2> QED BY <1>5, <2>1, <2>2 DEF Backup
<1>6. CASE Swap(p)
  <2>0. step[p] = "swap" BY <1>6 DEF Swap, Replace
  <2>1. CASE Goto(p, "over") /\ Rename("exe.new", "exe")
    <3>1. Kind("exe")' = Kind("exe.new") /\ Kind("exe.bak")' = Kind("exe.bak")
      BY <1>r, <2>1 DEF Exes
    <3> QED BY <1>e, <1>g, <2>0, <2>1, <3>1
  <2>2. CASE Goto(p, "undo") /\ UNCHANGED disk BY <1>e, <1>g, <1>v, <2>0, <2>2
  <2> QED BY <1>6, <2>1, <2>2 DEF Swap
<1>7. CASE Undo(p)
  <2>0. step[p] = "undo" /\ step'[p] = "over" BY <1>7, <1>g DEF Undo, Replace
  <2>1. CASE Rename("exe.bak", "exe")
    <3>1. Kind("exe")' = Kind("exe.bak") /\ Kind("exe.bak")' = "missing"
      BY <1>r, <2>1 DEF Exes
    <3> QED BY <1>e, <2>0, <3>1
  <2>2. CASE UNCHANGED disk BY <1>e, <1>v, <2>0, <2>2
  <2> QED BY <1>7, <2>1, <2>2 DEF Undo
<1>8. CASE Stat(p)
  <2>1. CASE file["exe.bak"].kind # "missing" /\ Goto(p, "aside") /\ Remove("exe.rollback")
    <3>1. /\ Kind("exe.rollback")' = "missing" /\ Kind("exe")' = Kind("exe")
          /\ Kind("exe.bak")' = Kind("exe.bak")
      BY <1>x, <2>1 DEF Exes
    <3>2. Kind("exe.bak") = "program" BY <1>e, <2>1 DEF Kind
    <3> QED BY <1>e, <1>g, <2>1, <3>1, <3>2
  <2>2. CASE Goto(p, "over") /\ UNCHANGED disk BY <1>e, <1>g, <1>v, <2>2
  <2> QED BY <1>8, <2>1, <2>2 DEF Stat
<1>9. CASE Aside(p)
  <2>0. step[p] = "aside" BY <1>9 DEF Aside, Replace
  <2>1. CASE Goto(p, "restore") /\ file["exe"].kind = "missing" /\ UNCHANGED disk
    BY <1>e, <1>g, <1>v, <2>0, <2>1 DEF Kind
  <2>2. CASE Goto(p, "restore") /\ file["exe"].kind # "missing" /\ Rename("exe", "exe.rollback")
    <3>1. /\ Kind("exe.rollback")' = Kind("exe") /\ Kind("exe")' = "missing"
          /\ Kind("exe.bak")' = Kind("exe.bak")
      BY <1>r, <2>2 DEF Exes
    <3>2. Kind("exe") = "program" BY <1>e, <2>2 DEF Kind
    <3> QED BY <1>e, <1>g, <2>0, <2>2, <3>1, <3>2
  <2>3. CASE Goto(p, "over") /\ UNCHANGED disk BY <1>e, <1>g, <1>v, <2>3
  <2> QED BY <1>9, <2>1, <2>2, <2>3 DEF Aside
<1>10. CASE Restore(p)
  <2>0. step[p] = "restore" BY <1>10 DEF Restore, Replace
  <2>1. CASE Goto(p, "tidy") /\ Rename("exe.bak", "exe")
    <3>1. Kind("exe")' = Kind("exe.bak") /\ Kind("exe.bak")' = "missing" BY <1>r, <2>1 DEF Exes
    <3> QED BY <1>e, <1>g, <2>0, <2>1, <3>1
  <2>2. CASE Goto(p, "putback") /\ UNCHANGED disk BY <1>e, <1>g, <1>v, <2>0, <2>2
  <2> QED BY <1>10, <2>1, <2>2 DEF Restore
<1>11. CASE Putback(p)
  <2>0. step[p] = "putback" /\ step'[p] = "over" BY <1>11, <1>g DEF Putback, Replace
  <2>1. CASE file["exe.rollback"].kind # "missing" /\ Rename("exe.rollback", "exe")
    <3>1. Kind("exe")' = Kind("exe.rollback") /\ Kind("exe.bak")' = Kind("exe.bak")
      BY <1>r, <2>1 DEF Exes
    <3>2. Kind("exe.rollback") = "program" BY <1>e, <2>0, <2>1 DEF Kind
    <3> QED BY <1>e, <2>0, <3>1, <3>2
  <2>2. CASE UNCHANGED disk BY <1>e, <1>v, <2>0, <2>2
  <2> QED BY <1>11, <2>1, <2>2 DEF Putback
<1>12. CASE Tidy(p)
  <2>1. step[p] = "tidy" /\ step'[p] = "over" BY <1>12, <1>g DEF Tidy, Replace
  <2>2. Kind("exe")' = Kind("exe") /\ Kind("exe.bak")' = Kind("exe.bak")
    BY <1>12, <1>x DEF Tidy, Exes
  <2> QED BY <1>e, <2>1, <2>2
<1>13. Result
  BY <1>1, <1>2, <1>3, <1>4, <1>5, <1>6, <1>7, <1>8, <1>9, <1>10, <1>11, <1>12
  DEF Exchange, Rollback
<1> QED BY <1>13

\* The other steps, seen from what each process is doing.
LEMMA ExchangingStep ==
  ASSUME TypeOK, InTurn, WritesConfig, Exchanging, [Next]_vars
  PROVE  Exchanging'
<1>t. StepType /\ fd \in [Writer -> Name \cup {"none", "gone"}] BY TypeParts DEF FdType
<1>s. step \in [Process -> Step] BY <1>t DEF StepType
<1>q. ASSUME UNCHANGED <<step, clash>>, ExesStill PROVE Exchanging'
  <2>1. clash => clash' BY <1>q
  <2>2. \A p \in Process : step'[p] = step[p] BY <1>q
  <2> QED BY <1>q, <2>1, <2>2, StillExchanging
<1>d. UNCHANGED disk => ExesStill BY DEF disk, ExesStill
<1>1. ASSUME NEW p \in Process, Advance(p) PROVE Exchanging'
  <2>1. ExesStill BY <1>1, <1>d, AdvanceSaves
  <2>2. \A q \in Process \ {p} : step'[q] = step[q]
    BY <1>1, <1>s, AdvanceStep DEF Goto
  <2>3. /\ clash => clash'
        /\ step'[p] \in Replacing => /\ step'[p] \in {"stage", "stat"}
                                     /\ clash' \/ \A q \in Process : step[q] \notin Replacing
    BY <1>1, <1>t, AdvanceReplaces
  <2>4. \A q \in Process : step'[q] = step[q] \/ step'[q] \notin Replacing \ {"stage", "stat"}
    BY <2>2, <2>3
  <2>5. \A q \in Process : ~clash' /\ step'[q] # step[q] /\ step'[q] \in Replacing
          => \A r \in Process \ {q} : step[r] \notin Replacing /\ step'[r] = step[r]
    BY <2>2, <2>3
  <2> QED BY <2>1, <2>3, <2>4, <2>5, StillExchanging
<1>2. ASSUME NEW p \in Process, Exchange(p) PROVE Exchanging'
  <2> SUFFICES ASSUME ~clash PROVE Exchanging'
    BY <1>2, ExchangeStep DEF Exchanging
  <2>1. /\ step[p] \in Replacing /\ \A q \in Process \ {p} : step'[q] = step[q]
    BY <1>2, <1>s, ExchangeStep DEF Goto
  <2>2. \A q \in Process \ {p} : step'[q] \notin Replacing
    BY <2>1 DEF Exchanging
  <2>3. \A q, r \in Process : step'[q] \in Replacing /\ step'[r] \in Replacing => q = r
    BY <2>2
  <2>4. \A q \in Process \ {p} :
          step'[q] \notin {"fill", "mode", "unback", "backup", "tidy", "swap", "undo", "restore",
                           "putback", "aside"}
    BY <2>2 DEF Replacing
  <2> DEFINE Known(q) ==
         /\ step'[q] = "fill" => fd'[Main(q)] = "exe.new"
         /\ step'[q] \in {"fill", "mode", "unback", "backup", "tidy"} => Kind("exe")' = "program"
         /\ step'[q] \in {"mode", "unback", "backup", "swap"} => Kind("exe.new")' = "program"
         /\ step'[q] \in {"swap", "undo", "restore", "putback"}
              => Kind("exe")' = "missing" /\ Kind("exe.bak")' = "program"
         /\ step'[q] = "aside" => Kind("exe.bak")' = "program" /\ Kind("exe.rollback")' = "missing"
         /\ step'[q] \in {"restore", "putback"} => Kind("exe.rollback")' \in {"missing", "program"}
  <2>5. /\ Kind("exe")' = "program" \/ (Kind("exe")' = "missing" /\ Kind("exe.bak")' = "program")
        /\ Kind("exe.bak")' \in {"missing", "program"}
        /\ Known(p)
    BY <1>2, ExchangeFiles
  <2>6. \A q \in Process \ {p} : Known(q) BY <2>4
  <2>7. \A q \in Process : Known(q) BY <2>5, <2>6
  <2> HIDE DEF Known
  <2>8. /\ \A q \in Process : Known(q)
        /\ \A q, r \in Process : step'[q] \in Replacing /\ step'[r] \in Replacing => q = r
        /\ Kind("exe")' = "program" \/ (Kind("exe")' = "missing" /\ Kind("exe.bak")' = "program")
        /\ Kind("exe.bak")' \in {"missing", "program"}
    BY <2>3, <2>5, <2>7
  <2> QED BY <2>8 DEF Exchanging, Known
<1>3. ASSUME NEW p \in Process, Beside(p) PROVE Exchanging'
  BY <1>3, <1>d, <1>q, BesideStep DEF command
<1>4. ASSUME NEW p \in Process, Leave(p) PROVE Exchanging'
  <2>1. UNCHANGED <<file, clash>> BY <1>4 DEF Leave
  <2>2. \A q \in Process \ {p} : step'[q] = step[q] /\ fd'[Main(q)] = fd[Main(q)]
    BY <1>4, <1>s, WriterFacts DEF Leave, Main
  <2>3. step'[p] = "off" BY <1>4, <1>s DEF Leave
  <2>4. step'[p] \notin Replacing /\ "off" \notin Replacing BY <2>3 DEF Replacing
  <2> QED BY <2>1, <2>2, <2>3, <2>4 DEF Exchanging, Kind
<1>5. ASSUME NEW w \in Writer, Save(w) PROVE Exchanging'
  <2>1. UNCHANGED <<step, clash>> BY <1>5, SaveStep DEF command
  <2>2. CASE clash BY <2>1, <2>2 DEF Exchanging
  <2>3. CASE ~clash BY <1>5, <1>q, <2>1, <2>3, SaveStill
  <2> QED BY <2>2, <2>3
<1>6. ASSUME UNCHANGED <<step, clash, disk>> PROVE Exchanging' BY <1>6, <1>d, <1>q
<1> QED BY <1>1, <1>2, <1>3, <1>4, <1>5, <1>6, Kinds DEF Expire, vars, command

\* At the start the executable is there and nothing is open.
LEMMA InitExe == ASSUME Init PROVE WritesConfig /\ Exchanging
<1>1. WritesConfig BY DEF Init, WritesConfig
<1>2. Kind("exe") = "program" /\ Kind("exe.bak") = "missing"
  BY FirstFiles, FileFacts DEF Name, Kind
<1>3. \A p \in Process : step[p] = "off" BY DEF Init
<1> QED BY <1>1, <1>2, <1>3 DEF Exchanging, Replacing

ExeInv == TypeOK /\ InTurn /\ WritesConfig /\ Exchanging

\* However update and rollback fail and whenever they are killed, the executable runs or its
\* backup does, as long as no two of them were under way at the same time: at every step of
\* replaceExecutable and rollbackExecutable one of the two is in place.
THEOREM ExecutableStays == Spec => []ExecutableKept
<1>1. Init => ExeInv BY InitTyped, InitConfig, InitExe DEF ExeInv
<1>2. ExeInv /\ [Next]_vars => ExeInv'
  BY TypeStep, InTurnStep, WritesStep, ExchangingStep DEF ExeInv
<1>3. ExeInv => ExecutableKept BY DEF ExeInv, Exchanging, Kind, ExecutableKept
<1> QED BY <1>1, <1>2, <1>3, PTL DEF Spec

---------------------------------------------------------------------------
(* The remedies of withAuth *)

\* Until Apple lets a token expire again, or an answer is taken for what it is not, an expired
\* token costs one attempt and a missing licence another.
Soon(p) ==
  /\ step[p] = "attempt" => /\ tries[p] < 3
                            /\ tries[p] >= 1 => mem[p].token = epoch
                            /\ tries[p] >= 2 => owned
  /\ step[p] = "reauth" => tries[p] = 1
  /\ step[p] = "again" => tries[p] = 1 /\ mem[p].token = epoch
  /\ step[p] = "purchase" => tries[p] <= 2 /\ mem[p].token = epoch
  /\ step[p] \notin {"relogin", "repay", "pay"}

Remedied(p) ==
  /\ since[p] <= epoch
  /\ spent[p] => epoch # since[p] \/ misled[p]
  /\ step[p] \in {"migrated", "begin", "accepted"} => tries[p] = 0
  /\ epoch = since[p] /\ ~misled[p] => Soon(p)

Asking == {"migrated", "begin", "accepted", "attempt", "reauth", "again", "purchase", "relogin",
           "repay", "pay"}

\* A step that neither asks nor gives up.
LEMMA NotAsking ==
  ASSUME NEW p \in Process, Remedied(p), step'[p] \notin Asking,
         UNCHANGED <<since, spent, epoch>>, misled[p] => misled'[p]
  PROVE  Remedied(p)'
  BY DEF Remedied, Soon, Asking

\* A step of another process.
LEMMA NotMine ==
  ASSUME NEW p \in Process, Remedied(p),
         step'[p] = step[p], tries'[p] = tries[p], since'[p] = since[p], mem'[p] = mem[p],
         spent'[p] <=> spent[p], misled'[p] <=> misled[p], epoch' = epoch, owned => owned'
  PROVE  Remedied(p)'
<1>1. since'[p] <= epoch' /\ (spent'[p] => epoch' # since'[p] \/ misled'[p]) BY DEF Remedied
<1>2. step'[p] \in {"migrated", "begin", "accepted"} => tries'[p] = 0 BY DEF Remedied
<1>3. epoch' = since'[p] /\ ~misled'[p] => Soon(p)' BY DEF Remedied, Soon
<1> QED BY <1>1, <1>2, <1>3 DEF Remedied

\* Signing in gives a token of the present epoch.
LEMMA SignedToken ==
  ASSUME TypeOK, NEW p \in Process, SignIn(p) PROVE mem'[p].token = epoch
<1>1. mem \in [Process -> Apple] BY TypeParts DEF AppleType
<1>2. mem[p] \in Apple BY <1>1
<1> QED BY <1>1, <1>2 DEF SignIn, Apple

\* What a command does to what it knows of its request.
LEMMA AdvanceRemedied ==
  ASSUME TypeOK, NEW p \in Process, Remedied(p), Advance(p)
  PROVE  Remedied(p)'
<1>t. /\ step \in [Process -> Step] /\ tries \in [Process -> 0..3]
      /\ since \in [Process -> 0..MaxEpoch] /\ epoch \in 1..MaxEpoch
      /\ spent \in [Process -> BOOLEAN] /\ misled \in [Process -> BOOLEAN]
  BY TypeParts DEF StepType, Plainly, FlagType, Retries
<1>p. tries[p] \in 0..3 /\ since[p] \in Nat /\ epoch \in Nat BY <1>t, LocalAssumption
<1>g. \A s : Goto(p, s) => step'[p] = s BY <1>t DEF Goto
<1>m. Refused(p) => (misled[p] => misled'[p]) /\ (~misled'[p] => Expired(p))
  BY <1>t, Zenon DEF Refused
<1>1. CASE Start(p)
  <2>1. /\ step'[p] \in {"migrated", "begin"} /\ tries'[p] = 0 /\ since'[p] = epoch
        /\ epoch' = epoch
    BY <1>1, <1>g, <1>t DEF Start, SaveAt, apple
  <2>2. ~spent'[p] BY <1>1, <1>t, Zenon DEF Start
  <2> QED BY <1>p, <2>1, <2>2 DEF Remedied, Soon
<1>2. CASE Migrated(p)
  <2>1. UNCHANGED <<since, spent, misled, epoch, tries>> BY <1>2 DEF Migrated, apple
  <2>2. CASE step[p] = "migrated" /\ step'[p] = "begin"
    BY <2>1, <2>2 DEF Remedied, Soon
  <2>3. CASE step'[p] = "over" BY <2>1, <2>3, NotAsking DEF Asking
  <2> QED BY <1>2, <1>g, <2>2, <2>3 DEF Migrated, Saved
<1>3. CASE Begin(p)
  <2>1. UNCHANGED <<since, spent, misled, epoch, tries>> /\ step[p] = "begin"
    BY <1>3 DEF Begin, apple
  <2>2. step'[p] \notin Asking \ {"attempt", "accepted"}
    BY <1>3, <1>g DEF Begin, AuthBegins, FetchBegins, KeepBegins, UpdateBegins, SaveAt, Asking
  <2>3. CASE step'[p] \in {"attempt", "accepted"} BY <2>1, <2>3 DEF Remedied, Soon
  <2> QED BY <2>1, <2>2, <2>3, NotAsking
<1>4. CASE Wait(p) \/ Noticed(p) \/ Latest(p)
  <2>1. UNCHANGED <<since, spent, misled, epoch>> BY <1>4 DEF Wait, Noticed, Latest, apple
  <2>2. step'[p] \notin Asking BY <1>4, <1>g DEF Wait, Noticed, Latest, SaveAt, Asking
  <2> QED BY <2>1, <2>2, NotAsking
<1>5. CASE Clear(p) \/ Reset(p) \/ Prompt(p) \/ Login(p) \/ Device(p)
  <2>1. UNCHANGED <<since, spent, misled, epoch>> BY <1>5 DEF Clear, Reset, Prompt, Login, Device, apple
  <2>2. step'[p] \notin Asking
    BY <1>5, <1>g DEF Clear, Reset, Prompt, Login, Device, SaveAt, Asking
  <2> QED BY <2>1, <2>2, NotAsking
<1>6. CASE Signed(p)
  <2>1. UNCHANGED <<since, spent, misled, epoch>> BY <1>6 DEF Signed, apple
  <2>2. \E s \in {"wait", "device"} : Goto(p, s) BY <1>6 DEF Signed
  <2>3. step'[p] \notin Asking BY <1>g, <2>2 DEF Asking
  <2> QED BY <2>1, <2>3, NotAsking
<1>7. CASE Settled(p)
  <2>1. UNCHANGED <<since, spent, misled, epoch, tries>> BY <1>7 DEF Settled, apple
  <2>2. CASE step[p] = "accepted" /\ step'[p] = "attempt" BY <2>1, <2>2 DEF Remedied, Soon
  <2>3. CASE step'[p] \in {"wait", "over"} BY <2>1, <2>3, NotAsking DEF Asking
  <2> QED BY <1>7, <1>g, <2>2, <2>3 DEF Settled, Saved
<1>8. CASE Attempt(p)
  <2>1. /\ UNCHANGED <<since, spent, epoch, mem, owned>> /\ step[p] = "attempt"
        /\ tries'[p] = tries[p] + 1
    BY <1>8, <1>t DEF Attempt, apple
  <2>2. CASE Refused(p) /\ step'[p] = "reauth"
    <3>1. (misled[p] => misled'[p]) /\ (~misled'[p] => Expired(p)) BY <1>m, <2>2
    <3> QED BY <1>p, <2>1, <2>2, <3>1 DEF Remedied, Soon, Expired
  <2>3. CASE Unlicensed(p) /\ step'[p] = "purchase" /\ UNCHANGED misled
    BY <1>p, <2>1, <2>3 DEF Remedied, Soon, Expired, Unlicensed
  <2>4. CASE step'[p] = "wait" /\ UNCHANGED misled BY <2>1, <2>4, NotAsking DEF Asking
  <2> QED BY <1>8, <1>g, <2>2, <2>3, <2>4 DEF Attempt
<1>9. CASE Exhausted(p)
  <2>1. /\ UNCHANGED <<since, misled, epoch>> /\ step[p] = "attempt" /\ tries[p] = 3
        /\ step'[p] = "wait"
    BY <1>9, <1>g DEF Exhausted, apple, Retries
  <2>2. epoch # since[p] \/ misled[p] BY <2>1 DEF Remedied, Soon
  <2> QED BY <2>1, <2>2 DEF Remedied
<1>10. CASE Reauth(p)
  <2>1. UNCHANGED <<since, spent, misled, epoch, tries>> BY <1>10 DEF Reauth, apple
  <2>2. CASE step[p] = "reauth" /\ SignIn(p) /\ step'[p] = "again"
    BY <2>1, <2>2, SignedToken DEF Remedied, Soon
  <2>3. CASE step[p] = "relogin" /\ step'[p] = "repay"
    BY <2>1, <2>3 DEF Remedied, Soon
  <2>4. CASE step'[p] = "wait" BY <2>1, <2>4, NotAsking DEF Asking
  <2> QED BY <1>10, <1>g, <2>2, <2>3, <2>4 DEF Reauth, SaveAt
<1>11. CASE Reauthed(p)
  <2>1. UNCHANGED <<since, spent, misled, epoch, tries, mem>> BY <1>11 DEF Reauthed, apple
  <2>2. CASE step[p] = "again" /\ step'[p] = "attempt" BY <2>1, <2>2 DEF Remedied, Soon
  <2>3. CASE step[p] = "repay" /\ step'[p] = "pay" BY <2>1, <2>3 DEF Remedied, Soon
  <2>4. CASE step'[p] = "wait" BY <2>1, <2>4, NotAsking DEF Asking
  <2> QED BY <1>11, <1>g, <2>2, <2>3, <2>4 DEF Reauthed, Saved
<1>12. CASE Purchase(p)
  <2>1. UNCHANGED <<since, spent, epoch, tries, mem>> /\ step[p] \in {"purchase", "pay"}
    BY <1>12 DEF Purchase
  <2>2. CASE owned' /\ UNCHANGED misled /\ step'[p] = "attempt"
    BY <1>p, <2>1, <2>2 DEF Remedied, Soon
  <2>3. CASE /\ misled' = [misled EXCEPT ![p] = misled[p] \/ ~owned] /\ UNCHANGED owned
             /\ step'[p] = "attempt"
    <3>1. (misled[p] => misled'[p]) /\ (~misled'[p] => owned) BY <1>t, <2>3, Zenon
    <3> QED BY <1>p, <2>1, <2>3, <3>1 DEF Remedied, Soon
  <2>4. CASE Refused(p) /\ step[p] = "purchase" /\ step'[p] = "relogin"
    <3>1. (misled[p] => misled'[p]) /\ (~misled'[p] => Expired(p)) BY <1>m, <2>4
    <3> QED BY <2>1, <2>4, <3>1 DEF Remedied, Soon, Expired
  <2>5. CASE step'[p] = "wait" /\ UNCHANGED misled BY <2>1, <2>5, NotAsking DEF Asking
  <2>6. CASE Licensed(p) /\ step'[p] = "attempt" BY <2>2, <2>3, <2>6 DEF Licensed
  <2> QED BY <1>12, <1>g, <2>4, <2>5, <2>6 DEF Purchase
<1> QED
  BY <1>1, <1>2, <1>3, <1>4, <1>5, <1>6, <1>7, <1>8, <1>9, <1>10, <1>11, <1>12
  DEF Advance, Auth, Fetch

\* A command changes nothing of another; a licence, once there, stays.
LEMMA AdvanceOthers ==
  ASSUME TypeOK, NEW p \in Process, NEW q \in Process \ {p}, Advance(p)
  PROVE  /\ step'[q] = step[q] /\ tries'[q] = tries[q] /\ since'[q] = since[q]
         /\ mem'[q] = mem[q] /\ (spent'[q] <=> spent[q]) /\ (misled'[q] <=> misled[q])
         /\ epoch' = epoch /\ (owned => owned')
<1>t. /\ step \in [Process -> Step] /\ tries \in [Process -> 0..Retries]
      /\ since \in [Process -> 0..MaxEpoch] /\ spent \in [Process -> BOOLEAN]
      /\ misled \in [Process -> BOOLEAN]
      /\ mem \in [Process -> Apple]
  BY TypeParts DEF StepType, Plainly, FlagType, AppleType
<1>1. step'[q] = step[q] BY <1>t, AdvanceStep DEF Goto
<1>2. tries'[q] = tries[q]
  <2>1. CASE Start(p) \/ Attempt(p) BY <1>t, <2>1 DEF Start, Attempt
  <2>2. CASE ~Start(p) /\ ~Attempt(p)
    BY <2>2 DEF Advance, Auth, Fetch, Migrated, Begin, Wait, Noticed, Clear, Reset, Prompt, Login,
       Signed, Device, Settled, Exhausted, Reauth, Reauthed, Purchase, Latest
  <2> QED BY <2>1, <2>2
<1>3. since'[q] = since[q]
  <2>1. CASE Start(p) BY <1>t, <2>1 DEF Start
  <2>2. CASE ~Start(p)
    BY <2>2 DEF Advance, Auth, Fetch, Migrated, Begin, Wait, Noticed, Clear, Reset, Prompt, Login,
       Signed, Device, Settled, Attempt, Exhausted, Reauth, Reauthed, Purchase, Latest
  <2> QED BY <2>1, <2>2
<1>4. mem'[q] = mem[q]
  <2>1. CASE Start(p) BY <1>t, <2>1 DEF Start
  <2>2. SignIn(p) => mem'[q] = mem[q] BY <1>t DEF SignIn
  <2>3. CASE Login(p) \/ Reauth(p) BY <2>2, <2>3 DEF Login, Reauth
  <2>4. CASE Clear(p) \/ Prompt(p) BY <1>t, <2>4 DEF Clear, Prompt
  <2>5. CASE ~Start(p) /\ ~Login(p) /\ ~Reauth(p) /\ ~Clear(p) /\ ~Prompt(p)
    BY <2>5 DEF Advance, Auth, Fetch, Migrated, Begin, Wait, Noticed, Reset, Signed, Device,
       Settled, Attempt, Exhausted, Reauthed, Purchase, Latest
  <2> QED BY <2>1, <2>3, <2>4, <2>5
<1>5. spent'[q] <=> spent[q]
  <2>1. CASE Start(p) \/ Exhausted(p) BY <1>t, <2>1, Zenon DEF Start, Exhausted
  <2>2. CASE ~Start(p) /\ ~Exhausted(p)
    BY <2>2 DEF Advance, Auth, Fetch, Migrated, Begin, Wait, Noticed, Clear, Reset, Prompt, Login,
       Signed, Device, Settled, Attempt, Reauth, Reauthed, Purchase, Latest
  <2> QED BY <2>1, <2>2
<1>6. epoch' = epoch
  BY DEF Advance, Auth, Fetch, Start, Migrated, Begin, Wait, Noticed, Clear, Reset, Prompt, Login,
     Signed, Device, Settled, Attempt, Exhausted, Reauth, Reauthed, Purchase, Latest, apple
<1>7. owned => owned'
  <2>1. CASE Purchase(p) BY <2>1 DEF Purchase, Licensed
  <2>2. CASE ~Purchase(p)
    BY <2>2 DEF Advance, Auth, Fetch, Start, Migrated, Begin, Wait, Noticed, Clear, Reset, Prompt,
       Login, Signed, Device, Settled, Attempt, Exhausted, Reauth, Reauthed, Latest, Quiet, apple
  <2> QED BY <2>1, <2>2
<1>8. misled'[q] <=> misled[q]
  <2>1. CASE Start(p) \/ Attempt(p) \/ Purchase(p)
    BY <1>t, <2>1, Zenon DEF Start, Attempt, Purchase, Refused, Licensed
  <2>2. CASE ~Start(p) /\ ~Attempt(p) /\ ~Purchase(p)
    BY <2>2 DEF Advance, Auth, Fetch, Migrated, Begin, Wait, Noticed, Clear, Reset, Prompt, Login,
       Signed, Device, Settled, Exhausted, Reauth, Reauthed, Latest, apple
  <2> QED BY <2>1, <2>2
<1> QED BY <1>1, <1>2, <1>3, <1>4, <1>5, <1>6, <1>7, <1>8

\* Remedied is inductive: by the process's own steps, by Expire, and by everybody else's.
LEMMA RemediedStep ==
  ASSUME TypeOK, \A q \in Process : Remedied(q), [Next]_vars
  PROVE  \A q \in Process : Remedied(q)'
<1>t. /\ step \in [Process -> Step] /\ tries \in [Process -> 0..Retries]
      /\ since \in [Process -> 0..MaxEpoch] /\ spent \in [Process -> BOOLEAN]
      /\ mem \in [Process -> Apple] /\ epoch \in 1..MaxEpoch
      /\ misled \in [Process -> BOOLEAN]
  BY TypeParts DEF StepType, Plainly, FlagType, AppleType
<1> SUFFICES ASSUME NEW q \in Process PROVE Remedied(q)' OBVIOUS
<1>1. ASSUME NEW p \in Process, Advance(p) PROVE Remedied(q)'
  <2>1. CASE q = p BY <1>1, <2>1, AdvanceRemedied
  <2>2. CASE q # p
    <3>1. q \in Process \ {p} BY <2>2
    <3>2. /\ step'[q] = step[q] /\ tries'[q] = tries[q] /\ since'[q] = since[q]
          /\ mem'[q] = mem[q] /\ (spent'[q] <=> spent[q]) /\ (misled'[q] <=> misled[q])
          /\ epoch' = epoch /\ (owned => owned')
      BY <1>1, <3>1, AdvanceOthers
    <3> QED BY <3>2, NotMine
  <2> QED BY <2>1, <2>2
<1>2. ASSUME NEW p \in Process, Exchange(p) PROVE Remedied(q)'
  <2>1. UNCHANGED <<mem, tries, since, spent, misled, epoch, owned>> BY <1>2, ExchangeStep DEF apple
  <2>2. CASE q = p
    <3>1. step'[q] \notin Asking BY <1>2, <1>t, <2>2, ExchangeStep DEF Goto, Replacing, Asking
    <3> QED BY <2>1, <3>1, NotAsking
  <2>3. CASE q # p
    <3>1. step'[q] = step[q] BY <1>2, <1>t, <2>3, ExchangeStep DEF Goto
    <3> QED BY <2>1, <3>1, NotMine
  <2> QED BY <2>2, <2>3
<1>3. ASSUME NEW p \in Process, Leave(p) PROVE Remedied(q)'
  <2>1. CASE q = p
    <3>1. step'[q] = "off" /\ since'[q] = 0 /\ UNCHANGED epoch /\ tries'[q] = 0
      BY <1>3, <1>t, <2>1 DEF Leave, apple
    <3>2. ~spent'[q] BY <1>3, <1>t, <2>1, Zenon DEF Leave
    <3>3. epoch # 0 /\ 0 <= epoch BY <1>t, LocalAssumption
    <3> QED BY <3>1, <3>2, <3>3 DEF Remedied
  <2>2. CASE q # p
    <3>1. /\ step'[q] = step[q] /\ tries'[q] = tries[q] /\ since'[q] = since[q]
          /\ mem'[q] = mem[q] /\ UNCHANGED <<epoch, owned>>
      BY <1>3, <1>t, <2>2 DEF Leave, apple
    <3>2. (spent'[q] <=> spent[q]) /\ (misled'[q] <=> misled[q])
      BY <1>3, <1>t, <2>2, Zenon DEF Leave
    <3> QED BY <3>1, <3>2, NotMine
  <2> QED BY <2>1, <2>2
<1>4. CASE Expire
  <2>1. UNCHANGED <<step, tries, since, spent>> /\ epoch' = epoch + 1 BY <1>4 DEF Expire, command
  <2>2. epoch \in Nat /\ since[q] \in Nat /\ since[q] <= epoch
    BY <1>t, LocalAssumption DEF Remedied
  <2>3. since'[q] <= epoch' /\ epoch' # since'[q] BY <2>1, <2>2
  <2> QED BY <2>1, <2>3 DEF Remedied
<1>5. ASSUME UNCHANGED <<step, tries, since, spent, misled, mem, epoch, owned>> PROVE Remedied(q)'
  BY <1>5, NotMine
<1> QED
  BY <1>1, <1>2, <1>3, <1>4, <1>5, Kinds, BesideStep, SaveStep DEF vars, command, apple

\* At the start nobody has asked Apple for anything.
LEMMA InitRemedied == ASSUME Init PROVE \A q \in Process : Remedied(q)
<1> SUFFICES ASSUME NEW q \in Process PROVE Remedied(q) OBVIOUS
<1>1. epoch = 1 /\ since[q] = 0 /\ step[q] = "off" BY DEF Init
<1>2. spent = [p \in Process |-> FALSE] BY DEF Init
<1>3. ~spent[q] BY <1>2, Zenon
<1> QED BY <1>1, <1>3 DEF Remedied

\* Three attempts are enough for one new sign-in and one licence: unless Apple lets a token
\* expire during the operation, or an answer is taken for an expired token that was current or
\* for a licence that was not there, withAuth never gives up after it has followed its last
\* remedy, whatever other processes do at the same time.
THEOREM ThreeAttempts == Spec => []RemediesSuffice
<1> DEFINE Inv == TypeOK /\ \A q \in Process : Remedied(q)
<1>1. Init => Inv BY InitTyped, InitRemedied
<1>2. Inv /\ [Next]_vars => Inv'
  BY TypeStep, RemediedStep
<1>3. Inv => RemediesSuffice BY DEF Remedied, RemediesSuffice
<1> QED BY <1>1, <1>2, <1>3, PTL DEF Spec

---------------------------------------------------------------------------
(* What a save leaves on the disk *)

\* From the moment a command's save has marshalled the configuration, what it is about to write,
\* or has written beside the file, is what the command has in memory.
Documented ==
  ~shared => \A p \in Process :
    /\ save[Main(p)] \in {"open", "write"} => buf[Main(p)] = mem[p]
    /\ save[Main(p)] = "rename" => file["config.tmp"] = Config(mem[p])
SaveInv == ConfigInv /\ Documented

\* A step of save w, for the command q, unless another save is under way.
LEMMA SaveDocuments ==
  ASSUME SaveInv, NEW w \in Writer, Save(w), ~shared', NEW q \in Process
  PROVE  /\ save'[Main(q)] \in {"open", "write"} => buf'[Main(q)] = mem[q]
         /\ save'[Main(q)] = "rename" => file'["config.tmp"] = Config(mem[q])
         /\ save[Main(q)] # "ok" /\ save'[Main(q)] = "ok" => file'["config"] = Config(mem[q])
<1> USE DEF SaveInv, ConfigInv
<1>t. /\ file \in [Name -> File] /\ fd \in [Writer -> Name \cup {"none", "gone"}]
      /\ save \in [Writer -> {"idle", "marshal", "open", "write", "rename", "ok", "failed"}]
      /\ buf \in [Writer -> Apple]
  BY TypeParts DEF FileType, FdType, SaveType, AppleType
<1>n. "config" \in Name /\ "config.tmp" \in Name \ {"config"} BY DEF Name
<1>m. Main(q) \in Writer /\ Main(q)[1] = q BY WriterFacts, WritersDiffer
<1>s. ~shared BY DEF Save, Marshal, OpenTmp, WriteTmp, RenameTmp, SaveFails
\* A save that is not the command's finds the command's at rest.
<1>1. CASE w # Main(q)
  <2>1. save'[Main(q)] = save[Main(q)]
    BY <1>t, <1>m, <1>1 DEF Save, Marshal, OpenTmp, WriteTmp, RenameTmp, SaveFails
  <2>2. save[Main(q)] \notin {"open", "write", "rename"}
    <3>1. CASE Marshal(w) BY <1>m, <1>1, <3>1 DEF Marshal, Underway
    <3>2. CASE ~Marshal(w)
      <4>1. Underway(w) BY <3>2 DEF Save, OpenTmp, WriteTmp, RenameTmp, SaveFails, Underway
      <4> QED BY <1>m, <1>s, <1>1, <4>1 DEF Alone, Underway
    <3> QED BY <3>1, <3>2
  <2> QED BY <2>1, <2>2
<1>2. CASE w = Main(q)
  <2>1. CASE Marshal(w)
    <3>1. save'[w] = "open" /\ buf'[w] = mem[q] BY <1>t, <1>m, <1>2, <2>1 DEF Marshal
    <3> QED BY <1>2, <3>1
  <2>2. CASE OpenTmp(w)
    <3>1. save'[w] = "write" /\ save[w] = "open" /\ UNCHANGED buf BY <1>t, <2>2 DEF OpenTmp
    <3> QED BY <1>2, <1>s, <3>1 DEF Documented
  <2>3. CASE WriteTmp(w)
    <3>1. save'[w] = "rename" /\ save[w] = "write" BY <1>t, <2>3 DEF WriteTmp
    <3>2. fd[w] = "config.tmp" /\ file["config.tmp"].kind = "cut" BY <1>s, <3>1 DEF Alone
    <3>3. file' = [file EXCEPT !["config.tmp"] = Config(buf[w])] BY <2>3, <3>2 DEF WriteTmp
    <3>4. file'["config.tmp"] = Config(mem[q])
      BY <1>t, <1>n, <1>2, <1>s, <3>1, <3>3 DEF Documented
    <3> QED BY <1>2, <3>1, <3>4
  <2>4. CASE RenameTmp(w)
    <3>1. save'[w] = "ok" /\ save[w] = "rename" BY <1>t, <2>4 DEF RenameTmp
    <3>2. file'["config"] = file["config.tmp"]
      BY <1>t, <1>n, <2>4, RenamedFiles DEF RenameTmp, Rename
    <3> QED BY <1>2, <1>s, <3>1, <3>2 DEF Documented
  <2>5. CASE SaveFails(w)
    <3>1. save'[w] = "failed" BY <1>t, <2>5 DEF SaveFails
    <3> QED BY <1>2, <3>1
  <2> QED BY <2>1, <2>2, <2>3, <2>4, <2>5 DEF Save
<1> QED BY <1>1, <1>2

\* A step that is not one of a save: where a command is not at its save's beginning or end, the
\* save, its document and the memory stay.
LEMMA OthersDocument ==
  ASSUME SaveInv, [Next]_vars, ~(\E w \in Writer : Save(w)), NEW q \in Process
  PROVE  \/ save'[Main(q)] \in {"idle", "marshal"}
         \/ /\ save'[Main(q)] = save[Main(q)] /\ mem'[q] = mem[q] /\ buf'[Main(q)] = buf[Main(q)]
            /\ UNCHANGED shared
            /\ ~shared => file'["config.tmp"] = file["config.tmp"]
<1> USE DEF SaveInv, ConfigInv
<1>t. /\ save \in [Writer -> {"idle", "marshal", "open", "write", "rename", "ok", "failed"}]
      /\ mem \in [Process -> Apple] /\ buf \in [Writer -> Apple]
  BY TypeParts DEF SaveType, AppleType
<1>m. Main(q) \in Writer /\ Main(q)[1] = q BY WriterFacts, WritersDiffer
<1>1. ASSUME NEW p \in Process, Advance(p), q = p PROVE save'[Main(q)] \in {"idle", "marshal"}
  BY <1>1, <1>t, <1>m, AdvanceTurns DEF InTurn
<1>2. ASSUME NEW p \in Process, Advance(p), q # p
      PROVE  /\ save'[Main(q)] = save[Main(q)] /\ mem'[q] = mem[q]
             /\ UNCHANGED <<buf, shared, disk>>
  <2>1. mem'[q] = mem[q] BY <1>2, AdvanceOthers
  <2>2. Main(q) # Main(p) BY <1>2, WritersDiffer
  <2> QED BY <1>2, <1>t, <1>m, <2>1, <2>2, AdvanceSaves
<1>3. ASSUME NEW p \in Process, Exchange(p)
      PROVE  /\ UNCHANGED <<save, mem, buf, shared>>
             /\ ~shared => file'["config.tmp"] = file["config.tmp"]
  <2>1. UNCHANGED <<save, mem, buf, shared>> BY <1>3, ExchangeStep DEF saving
  <2>2. ~shared => ConfigStill BY <1>3, ExchangeStill
  <2> QED BY <2>1, <2>2 DEF ConfigStill
<1>4. ASSUME NEW p \in Process, Beside(p)
      PROVE  save'[Main(q)] = save[Main(q)] /\ UNCHANGED <<mem, buf, shared, disk>>
  <2>1. UNCHANGED <<mem, buf, shared, disk>> BY <1>4, BesideStep DEF command
  <2>2. Main(q) # <<p, "check">> BY <1>4, WritersDiffer
  <2>3. save'[Main(q)] = save[Main(q)] BY <1>4, <1>t, <1>m, <2>2 DEF Beside, Ask, Asked
  <2> QED BY <2>1, <2>3
<1>5. ASSUME NEW p \in Process, Leave(p)
      PROVE  \/ save'[Main(q)] = "idle"
             \/ /\ save'[Main(q)] = save[Main(q)] /\ mem'[q] = mem[q]
                /\ buf'[Main(q)] = buf[Main(q)] /\ UNCHANGED <<shared, file>>
  BY <1>5, <1>t, <1>m DEF Leave
<1>6. CASE Expire BY <1>6 DEF Expire, command, saving, disk
<1>7. CASE UNCHANGED vars BY <1>7 DEF vars, command, saving, disk
<1> QED BY <1>1, <1>2, <1>3, <1>4, <1>5, <1>6, <1>7, Kinds DEF disk

\* Documented is inductive.
LEMMA DocumentedStep == ASSUME SaveInv, [Next]_vars PROVE Documented'
<1>1. ASSUME NEW w \in Writer, Save(w) PROVE Documented'
  <2>1. UNCHANGED mem BY <1>1, SaveStep DEF command
  <2> QED BY <1>1, <2>1, SaveDocuments DEF Documented
<1>2. CASE ~(\E w \in Writer : Save(w))
  <2> SUFFICES ASSUME ~shared', NEW q \in Process
               PROVE  /\ save'[Main(q)] \in {"open", "write"} => buf'[Main(q)] = mem'[q]
                      /\ save'[Main(q)] = "rename" => file'["config.tmp"] = Config(mem'[q])
    BY DEF Documented, Config
  <2> QED BY <1>2, OthersDocument DEF SaveInv, Documented
<1> QED BY <1>1, <1>2

\* A save that is reported to have succeeded has put on the disk what the command has in memory,
\* for any number of processes: the command changes nothing while it waits, nobody else has the
\* temporary file, and what is renamed is what was marshalled.
THEOREM SavesReachDisk == Spec => SaveReachesDisk
<1> DEFINE Reaches == \A p \in Process : ~shared /\ save[Main(p)] # "ok" /\ save'[Main(p)] = "ok"
                                           => file'["config"] = Config(mem[p])
<1>1. Init => SaveInv
  <2> SUFFICES ASSUME Init PROVE SaveInv OBVIOUS
  <2>1. ConfigInv BY InitTyped, InitConfig DEF ConfigInv
  <2>2. \A p \in Process : save[Main(p)] = "idle" BY WriterFacts DEF Init
  <2> QED BY <2>1, <2>2 DEF SaveInv, Documented
<1>2. SaveInv /\ [Next]_vars => SaveInv'
  BY TypeStep, InTurnStep, ConfigStep, DocumentedStep DEF ConfigInv, SaveInv
<1>3. SaveInv /\ [Next]_vars => [Reaches]_vars
  <2> SUFFICES ASSUME SaveInv, [Next]_vars, NEW p \in Process, ~shared,
                      save[Main(p)] # "ok", save'[Main(p)] = "ok"
               PROVE  file'["config"] = Config(mem[p])
    OBVIOUS
  <2>1. ASSUME NEW w \in Writer, Save(w) PROVE file'["config"] = Config(mem[p])
    <3>1. CASE ~shared' BY <2>1, <3>1, SaveDocuments
    \* Only Marshal finds that saves overlap, and reports nothing.
    <3>2. CASE shared'
      <4>1. Marshal(w) BY <2>1, <3>2 DEF Save, OpenTmp, WriteTmp, RenameTmp, SaveFails
      <4>2. save'[Main(p)] = "open" \/ save'[Main(p)] = save[Main(p)]
        BY <4>1, WriterFacts, TypeParts DEF Marshal, SaveInv, ConfigInv, SaveType
      <4> QED BY <4>2
    <3> QED BY <3>1, <3>2
  <2>2. CASE ~(\E w \in Writer : Save(w)) BY <2>2, OthersDocument
  <2> QED BY <2>1, <2>2
<1> HIDE DEF Reaches
<1>4. Spec => [][Reaches]_vars BY <1>1, <1>2, <1>3, PTL DEF Spec
<1> QED BY <1>4 DEF SaveReachesDisk, Reaches
===============================================================================
