------------------------- MODULE EncryptedCacheProofs -------------------------
(***************************************************************************)
(* Proofs about EncryptedCache, for any number of runs and builds and any   *)
(* sizes.                                                                   *)
(***************************************************************************)
EXTENDS EncryptedCache, TLAPS, SequenceTheorems

Data == Block \cup {Hole}

\* A write at an offset yields a file whatever lay there before.
LEMMA PutIsFile ==
  ASSUME NEW f \in File, NEW n \in Nat \ {0}, NEW x \in Data
  PROVE  /\ Put(f, n, x) \in File
         /\ Len(Put(f, n, x)) = IF n > Len(f) THEN n ELSE Len(f)
         /\ \A i \in 1..Len(Put(f, n, x)) :
              Put(f, n, x)[i] = IF i = n THEN x ELSE IF i <= Len(f) THEN f[i] ELSE Hole
<1> DEFINE m == IF n > Len(f) THEN n ELSE Len(f)
<1>1. Len(f) \in Nat /\ \A i \in 1..Len(f) : f[i] \in Data
  BY DEF File, Data
<1>2. m \in Nat
  BY <1>1
<1>3. \A i \in 1..m : (IF i = n THEN x ELSE IF i <= Len(f) THEN f[i] ELSE Hole) \in Data
  BY <1>1, <1>2 DEF Data
<1>4. Put(f, n, x) \in [1..m -> Data]
  BY <1>3 DEF Put
<1>5. Put(f, n, x) \in Seq(Data)
  BY <1>2, <1>4
<1>6. Len(Put(f, n, x)) = m
  BY <1>2, <1>4, <1>5
<1> QED
  BY <1>4, <1>5, <1>6 DEF Put, File, Data

\* A block written anywhere, past the end as well, leaves a file.
LEMMA PutTyped == \A f \in File, n \in Nat \ {0}, x \in Data : Put(f, n, x) \in File
  BY PutIsFile

\* A block of build b written into a file of b's blocks and holes leaves it one.
OfBuild(f, b) == \A i \in 1..Len(f) : f[i] = Hole \/ f[i][1] = b

\* A block of a build leaves a file of that build one of that build.
LEMMA PutKeepsSource ==
  ASSUME NEW b, NEW f \in File, NEW n \in Nat \ {0}, NEW x \in Data, x[1] = b, OfBuild(f, b)
  PROVE  OfBuild(Put(f, n, x), b)
<1> SUFFICES ASSUME NEW i \in 1..Len(Put(f, n, x))
             PROVE  Put(f, n, x)[i] = Hole \/ Put(f, n, x)[i][1] = b
  BY DEF OfBuild
<1>1. Len(f) \in Nat /\ Len(Put(f, n, x)) \in Nat
  BY PutIsFile DEF File
<1>2. Put(f, n, x)[i] = IF i = n THEN x ELSE IF i <= Len(f) THEN f[i] ELSE Hole
  BY PutIsFile
<1>3. i <= Len(f) => f[i] = Hole \/ f[i][1] = b
  BY <1>1 DEF OfBuild
<1> QED
  BY <1>1, <1>2, <1>3

-----------------------------------------------------------------------------
(* Types.                                                                   *)

LEMMA EmptyIsFile == <<>> \in File
  BY DEF File

\* At the start there are no files and no runs.
LEMMA InitTyped == Init => TypeOK
<1> SUFFICES ASSUME Init PROVE TypeOK
  OBVIOUS
<1>1. step \in [Run -> Step] /\ fd \in [Run -> Run \cup {None}] /\ tmp \in Run \cup {None}
  BY DEF Init, Step
<1>2. build \in [Run -> Build] /\ dir \in [Run -> Build]
  BY DEF Init
<1>3. inode \in [Run -> File] /\ out \in File
  BY DEF Init, File
<1>4. from \in [Run -> Nat] /\ pos \in [Run -> Nat]
  BY DEF Init
<1>5. \A r \in Run : step[r] = "new"
  BY DEF Init
<1>6. exists \in BOOLEAN /\ torn \in BOOLEAN /\ overlap \in BOOLEAN
  BY DEF Init
<1> QED
  BY <1>1, <1>2, <1>3, <1>4, <1>5, <1>6 DEF TypeOK

\* Which file a run writes to, at which place, and what.
LEMMA BlockWritten ==
  ASSUME TypeOK, NEW r \in Run, WriteBlock(r)
  PROVE  /\ inode' \in [Run -> File]
         /\ fd[r] \in Run
         /\ inode' = [inode EXCEPT ![fd[r]] = Put(inode[fd[r]], pos[r] + 1, <<build[r], from[r] + 1>>)]
<1>1. fd[r] \in Run /\ inode[fd[r]] \in File
  BY DEF TypeOK, WriteBlock
<1>2. pos[r] + 1 \in Nat \ {0} /\ <<build[r], from[r] + 1>> \in Data
  BY DEF TypeOK, Data, Block
<1>3. Put(inode[fd[r]], pos[r] + 1, <<build[r], from[r] + 1>>) \in File
  BY <1>1, <1>2, PutIsFile
<1> QED
  BY <1>1, <1>3 DEF TypeOK, WriteBlock

\* Every step keeps the types, and the offsets within the builds they are about.
LEMMA StepTyped == TypeOK /\ [Next]_vars => TypeOK'
<1> SUFFICES ASSUME TypeOK, [Next]_vars PROVE TypeOK'
  OBVIOUS
<1> USE CacheAssumption DEF fetch, cached
<1>1. CASE UNCHANGED vars
  BY <1>1 DEF TypeOK, vars
<1>2. ASSUME NEW r \in Run, Move(r) PROVE TypeOK'
  <2>1. CASE Begin(r)
    BY <2>1 DEF Begin, Go, TypeOK, Step
  <2>2. CASE Check(r)
    BY <2>2 DEF Check, Go, TypeOK, Step
  <2>3. CASE Prepare(r)
    BY <2>3 DEF Prepare, Go, TypeOK, Step
  <2>4. CASE Recheck(r)
    BY <2>4 DEF Recheck, Go, TypeOK, Step
  <2>5. CASE OpenTmp(r)
    <3>1. tmp' \in Run /\ fd' = [fd EXCEPT ![r] = tmp']
      BY <2>5 DEF OpenTmp, TypeOK
    <3>2. Len(inode[tmp']) \in Nat
      BY <3>1 DEF TypeOK, File
    <3>3. step' \in [Run -> Step] /\ from' \in [Run -> Nat] /\ fd' \in [Run -> Run \cup {None}]
      BY <2>5, <3>1, <3>2 DEF OpenTmp, Go, TypeOK, Step
    <3>4. \A q \in Run : step'[q] \in {"request", "write", "patch"} => fd'[q] \in Run
      BY <2>5, <3>1 DEF OpenTmp, Go, TypeOK
    <3>5. \A q \in Run : step'[q] = "write" => from'[q] <= Size[build[q]]
      BY <2>5, <3>1 DEF OpenTmp, Go, TypeOK
    <3>6. \A q \in Run : step'[q] = "patch" => pos[q] <= Size[dir[q]]
      BY <2>5 DEF OpenTmp, Go, TypeOK
    <3>7. UNCHANGED <<build, inode, pos, dir, exists, out, torn, overlap>>
      BY <2>5 DEF OpenTmp
    <3> QED
      BY <3>1, <3>3, <3>4, <3>5, <3>6, <3>7 DEF TypeOK
  <2>6. CASE Continue(r)
    BY <2>6 DEF Continue, Go, TypeOK, Step
  <2>7. CASE StartOver(r)
    <3>1. inode' \in [Run -> File]
      BY <2>7, EmptyIsFile DEF StartOver, TypeOK
    <3>2. /\ step' = [step EXCEPT ![r] = "write"] /\ pos' = [pos EXCEPT ![r] = 0]
          /\ from' = [from EXCEPT ![r] = 0] /\ step[r] = "request"
      BY <2>7 DEF StartOver, Go
    <3>3. UNCHANGED <<build, tmp, fd, dir, exists, out, torn, overlap>>
      BY <2>7 DEF StartOver
    <3>4. /\ step' \in [Run -> Step] /\ pos' \in [Run -> Nat] /\ from' \in [Run -> Nat]
      BY <3>2 DEF TypeOK, Step
    <3>5. \A q \in Run : step'[q] \in {"request", "write", "patch"} => fd[q] \in Run
      BY <3>2 DEF TypeOK
    <3>6. \A q \in Run : step'[q] = "write" => from'[q] <= Size[build[q]]
      BY <3>2 DEF TypeOK
    <3>7. \A q \in Run : step'[q] = "patch" => pos'[q] <= Size[dir[q]]
      BY <3>2 DEF TypeOK
    <3> QED
      BY <3>1, <3>3, <3>4, <3>5, <3>6, <3>7 DEF TypeOK
  <2>8. CASE WriteBlock(r)
    <3>1. inode' \in [Run -> File]
      BY <2>8, BlockWritten
    <3> QED
      BY <2>8, <3>1 DEF WriteBlock, TypeOK, Step
  <2>9. CASE Fetched(r)
    BY <2>9 DEF Fetched, Go, TypeOK, Step
  <2>10. CASE OpenBoth(r)
    <3>1. /\ step' \in [Run -> Step] /\ fd' \in [Run -> Run \cup {None}]
          /\ dir' \in [Run -> Build] /\ pos' \in [Run -> Nat]
      BY <2>10 DEF OpenBoth, Go, TypeOK, Step
    <3>2. out' \in File /\ exists' \in BOOLEAN
      BY <2>10 DEF OpenBoth, File
    <3>3. \A q \in Run : step'[q] \in {"request", "write", "patch"} => fd'[q] \in Run
      BY <2>10 DEF OpenBoth, Go, TypeOK
    <3>4. \A q \in Run : step'[q] = "write" => from[q] <= Size[build[q]]
      BY <2>10 DEF OpenBoth, Go, TypeOK
    <3>5. \A q \in Run : step'[q] = "patch" => pos'[q] <= Size[dir'[q]]
      BY <2>10, <3>1 DEF OpenBoth, Go, TypeOK
    <3>6. UNCHANGED <<build, inode, tmp, from, torn, overlap>>
      BY <2>10 DEF OpenBoth
    <3> QED
      BY <3>1, <3>2, <3>3, <3>4, <3>5, <3>6 DEF TypeOK
  <2>11. CASE PatchBlock(r)
    <3>1. out' \in File
      <4>1. pos[r] + 1 \in Nat \ {0} /\ <<dir[r], pos[r] + 1>> \in Data
        BY DEF TypeOK, Data, Block
      <4>2. out' = Put(out, pos[r] + 1, <<dir[r], pos[r] + 1>>)
        BY <2>11 DEF PatchBlock
      <4>3. out \in File
        BY DEF TypeOK
      <4>4. PICK n \in Nat \ {0}, x \in Data : out' = Put(out, n, x)
        BY <4>1, <4>2
      <4> QED
        BY <4>3, <4>4, PutTyped
    <3>a. pos[r] + 1 <= Size[dir[r]] /\ pos' = [pos EXCEPT ![r] = pos[r] + 1]
      BY <2>11 DEF PatchBlock
    <3>b. pos \in [Run -> Nat] /\ \A q \in Run : step[q] = "patch" => pos[q] <= Size[dir[q]]
      BY DEF TypeOK
    <3>2. pos' \in [Run -> Nat] /\ \A q \in Run : step[q] = "patch" => pos'[q] <= Size[dir[q]]
      BY ONLY <3>a, <3>b
    <3>3. UNCHANGED <<step, build, inode, tmp, fd, from, dir, exists, torn, overlap>>
      BY <2>11 DEF PatchBlock
    <3> QED
      BY <3>1, <3>2, <3>3 DEF TypeOK
  <2>12. CASE PatchEnd(r)
    <3>1. out' \in File
      <4>1. pos[r] + 1 \in Nat \ {0} /\ <<build[r], 0>> \in Data
        BY DEF TypeOK, Data, Block
      <4> QED
        BY <2>12, <4>1, PutIsFile DEF PatchEnd, TypeOK
    <3> QED
      BY <2>12, <3>1 DEF PatchEnd, Go, TypeOK, Step
  <2>13. CASE RemoveTmp(r)
    BY <2>13 DEF RemoveTmp, Go, TypeOK, Step
  <2>14. CASE Stop(r)
    BY <2>14 DEF Stop, TypeOK, Step
  <2> QED
    BY <1>2, <2>1, <2>2, <2>3, <2>4, <2>5, <2>6, <2>7, <2>8, <2>9, <2>10, <2>11, <2>12,
       <2>13, <2>14 DEF Move
<1> QED
  BY <1>1, <1>2 DEF Next

\* Every variable has its type: what is open while it is read or written is a file,
\* no download or patch runs past the end of its build (download.go, fetchToFile and
\* applyPatches).
THEOREM TypeCorrect == Spec => []TypeOK
  BY InitTyped, StepTyped, PTL DEF Spec

-----------------------------------------------------------------------------
(* The cached IPA is whole when nobody is writing it.                       *)

Final(b, i) == IF i <= Size[b] THEN <<b, i>> ELSE <<b, 0>>
Good(b, i)  == i <= Len(out) /\ out[i] = Final(b, i)
Behind(i)   == \E q \in Run : step[q] = "patch" /\ pos[q] < i

\* Temporary files hold nothing but blocks of the one build, and holes.
OneSource ==
  OneBuild => \A q, r \in Run :
    /\ dir[q] = build[r]
    /\ \A i \in 1..Len(inode[q]) : inode[q][i] = Hole \/ inode[q][i][1] = build[r]

\* A block that is not there yet, or not any more because another run truncated the
\* file, is still to be written by some run that is behind it.
Covered ==
  OneBuild /\ ~torn /\ exists => \A r \in Run :
    /\ Len(out) <= Size[build[r]] + 1
    /\ \A i \in 1..(Size[build[r]] + 1) : Good(build[r], i) \/ Behind(i)

SettledInv == TypeOK /\ OneSource /\ Covered

\* At the start nothing is cached, so nothing has to be covered.
LEMMA InitSettled == Init => SettledInv
<1> SUFFICES ASSUME Init PROVE OneSource /\ Covered
  BY InitTyped DEF SettledInv
<1>1. \A q \in Run : Len(inode[q]) = 0 /\ dir[q] = build[q]
  BY DEF Init
<1>2. OneSource
  BY <1>1 DEF OneSource, OneBuild
<1>3. Covered
  BY DEF Init, Covered
<1> QED
  BY <1>2, <1>3

\* What no step changes, and what a step that touches neither file keeps.
LEMMA BuildsFixed == TypeOK /\ [Next]_vars => build' = build /\ (torn => torn')
  BY DEF TypeOK, Next, Move, Begin, Check, Prepare, Recheck, OpenTmp, Continue, StartOver,
     WriteBlock,
     Fetched, OpenBoth, PatchBlock, PatchEnd, RemoveTmp, Stop, Go, fetch, cached, vars

\* Steps that touch no temporary file keep whose blocks they hold.
LEMMA SourceKept ==
  ASSUME OneSource, build' = build, inode' = inode, dir' = dir
  PROVE  OneSource'
  BY DEF OneSource, OneBuild

\* A step that leaves the IPA and every patching run where they are keeps it covered.
LEMMA CoverKept ==
  ASSUME Covered, build' = build, torn => torn', exists' = exists, out' = out,
         \A q \in Run : step[q] = "patch" /\ ~torn' => step'[q] = "patch" /\ pos'[q] = pos[q]
  PROVE  Covered'
<1> SUFFICES ASSUME OneBuild', ~torn', exists', NEW r \in Run
             PROVE  /\ Len(out) <= Size[build[r]] + 1
                    /\ \A i \in 1..(Size[build[r]] + 1) : Good(build[r], i) \/ Behind(i)'
  BY DEF Covered, Good, Final
<1>1. OneBuild /\ ~torn /\ exists
  BY DEF OneBuild
<1> QED
  BY <1>1 DEF Covered, Behind

\* A run that writes the next block good, at the end or over a hole, leaves the blocks
\* after it to itself and the others to whom they were left.
LEMMA CoverGrown ==
  ASSUME TypeOK, Covered, OneSource, build' = build, torn' = torn, exists' = exists,
         NEW r \in Run, step[r] = "patch",
         pos[r] + 1 <= Size[build[r]] + 1,
         out' = Put(out, pos[r] + 1, Final(build[r], pos[r] + 1)),
         \A q \in Run \ {r} : step'[q] = step[q] /\ pos'[q] = pos[q],
         \/ step'[r] = "patch" /\ pos'[r] = pos[r] + 1
         \/ pos[r] = Size[build[r]]
  PROVE  Covered'
<1> SUFFICES ASSUME OneBuild', ~torn', exists', NEW b \in Build, b = build[r]
             PROVE  /\ Len(out') <= Size[b] + 1
                    /\ \A i \in 1..(Size[b] + 1) : Good(b, i)' \/ Behind(i)'
  <2>1. build[r] \in Build /\ \A q \in Run : build[q] = build[r] \/ ~OneBuild'
    BY DEF TypeOK, OneBuild
  <2> QED
    BY <2>1 DEF Covered, Good, Final, OneBuild
<1> DEFINE n == pos[r] + 1
<1>1. OneBuild /\ ~torn /\ exists
  BY DEF OneBuild
<1>2. Len(out) <= Size[b] + 1 /\ \A i \in 1..(Size[b] + 1) : Good(b, i) \/ Behind(i)
  BY <1>1 DEF Covered
<1>3. n \in Nat \ {0} /\ n <= Size[b] + 1 /\ Size[b] \in Nat
  BY CacheAssumption DEF TypeOK
<1>4. Final(b, n) \in Data
  BY <1>3 DEF Final, Data, Block
<1>5. out \in File /\ Len(out) \in Nat
  BY DEF TypeOK, File
<1>6. /\ Len(out') = IF n > Len(out) THEN n ELSE Len(out)
      /\ \A i \in 1..Len(out') : out'[i] = IF i = n THEN Final(b, n) ELSE IF i <= Len(out) THEN out[i] ELSE Hole
  <2>1. PICK k \in Nat \ {0}, x \in Data : k = n /\ x = Final(b, n) /\ out' = Put(out, k, x)
    BY <1>3, <1>4
  <2>2. /\ Len(Put(out, k, x)) = IF k > Len(out) THEN k ELSE Len(out)
        /\ \A i \in 1..Len(Put(out, k, x)) :
             Put(out, k, x)[i] = IF i = k THEN x ELSE IF i <= Len(out) THEN out[i] ELSE Hole
    BY <1>5, PutIsFile
  <2> QED
    BY <2>1, <2>2
<1>7. ASSUME NEW i \in 1..(Size[b] + 1) PROVE Good(b, i)' \/ Behind(i)'
  <2>a. Final(b, i)' = Final(b, i)
    BY DEF Final
  <2>1. CASE i = n
    <3>1. i \in 1..Len(out') /\ out'[i] = Final(b, i)
      BY ONLY <2>1, <1>3, <1>5, <1>6
    <3> QED
      BY ONLY <3>1, <2>a DEF Good
  <2>2. CASE i # n /\ Good(b, i)
    <3>1. i \in 1..Len(out) /\ out[i] = Final(b, i)
      BY ONLY <2>2, <1>5 DEF Good
    <3>2. i \in 1..Len(out') /\ out'[i] = Final(b, i)
      BY ONLY <2>2, <3>1, <1>3, <1>5, <1>6
    <3> QED
      BY ONLY <3>2, <2>a DEF Good
  <2>3. CASE i # n /\ Behind(i)
    <3>1. PICK q \in Run : step[q] = "patch" /\ pos[q] < i
      BY <2>3 DEF Behind
    <3>2. CASE q = r
      BY <3>1, <3>2, <2>3, <1>3 DEF Behind, TypeOK
    <3>3. CASE q # r
      BY <3>1, <3>3 DEF Behind
    <3> QED
      BY <3>2, <3>3
  <2> QED
    BY <2>1, <2>2, <2>3, <1>2
<1> QED
  BY <1>2, <1>3, <1>5, <1>6, <1>7

\* SettledInv is inductive: downloads keep OneSource, and each patching step keeps the IPA
\* covered by itself or by another run.
LEMMA StepSettled == SettledInv /\ [Next]_vars => SettledInv'
<1> SUFFICES ASSUME SettledInv, [Next]_vars PROVE OneSource' /\ Covered'
  BY StepTyped DEF SettledInv
<1>0. TypeOK /\ OneSource /\ Covered /\ TypeOK' /\ build' = build /\ (torn => torn')
  BY StepTyped, BuildsFixed DEF SettledInv
<1> USE DEF fetch, cached
<1>1. CASE UNCHANGED vars
  <2>1. OneSource'
    BY <1>0, <1>1, SourceKept DEF vars
  <2>2. Covered'
    BY <1>0, <1>1, CoverKept DEF vars
  <2> QED
    BY <2>1, <2>2
<1>2. CASE ~OneBuild
  BY <1>0, <1>2 DEF OneSource, Covered, OneBuild
<1>3. ASSUME NEW r \in Run, Move(r), OneBuild PROVE OneSource' /\ Covered'
  <2>0. \A q \in Run : dir[q] = build[r] /\ build[q] = build[r]
    BY <1>0, <1>3 DEF OneSource, OneBuild
  <2>1. CASE Begin(r) \/ Check(r) \/ Prepare(r) \/ Recheck(r) \/ Fetched(r)
             \/ OpenTmp(r) \/ Continue(r) \/ RemoveTmp(r)
    <3>1. inode' = inode /\ dir' = dir /\ exists' = exists /\ out' = out
      BY <2>1 DEF Begin, Check, Prepare, Recheck, Fetched, OpenTmp, Continue, RemoveTmp
    <3>2. \A q \in Run : step[q] = "patch" => step'[q] = "patch" /\ pos'[q] = pos[q]
      BY <2>1, <1>0 DEF Begin, Check, Prepare, Recheck, Fetched, OpenTmp, Continue, RemoveTmp,
         Go, TypeOK
    <3>3. OneSource'
      BY <1>0, <3>1, SourceKept
    <3>4. Covered'
      BY <1>0, <3>1, <3>2, CoverKept
    <3> QED
      BY <3>3, <3>4
  <2>2. CASE StartOver(r)
    <3>1. dir' = dir /\ exists' = exists /\ out' = out
      BY <2>2 DEF StartOver
    <3>2. \A q \in Run : step[q] = "patch" => step'[q] = "patch" /\ pos'[q] = pos[q]
      BY <2>2, <1>0 DEF StartOver, Go, TypeOK
    <3>3. \A q \in Run : inode'[q] = inode[q] \/ inode'[q] = <<>>
      BY <2>2, <1>0 DEF StartOver, TypeOK
    <3>4. OneSource'
      BY <1>0, <3>1, <3>3 DEF OneSource, OneBuild
    <3>5. Covered'
      BY <1>0, <3>1, <3>2, CoverKept
    <3> QED
      BY <3>4, <3>5
  <2>3. CASE WriteBlock(r)
    <3> DEFINE x == <<build[r], from[r] + 1>>
               n == pos[r] + 1
    <3>1. dir' = dir /\ exists' = exists /\ out' = out
      BY <2>3 DEF WriteBlock
    <3>2. \A q \in Run : step[q] = "patch" => step'[q] = "patch" /\ pos'[q] = pos[q]
      BY <2>3, <1>0 DEF WriteBlock, TypeOK
    <3>3. /\ fd[r] \in Run /\ inode[fd[r]] \in File /\ n \in Nat \ {0} /\ x \in Data
          /\ inode' = [inode EXCEPT ![fd[r]] = Put(inode[fd[r]], n, x)]
      BY <2>3, <1>0, BlockWritten DEF TypeOK, Data, Block
    <3>4. ASSUME NEW q \in Run, NEW i \in 1..Len(inode'[q])
          PROVE  inode'[q][i] = Hole \/ inode'[q][i][1] = build[r]
      <4>1. CASE q # fd[r]
        <5>1. inode'[q] = inode[q]
          BY <4>1, <3>3, <1>0 DEF TypeOK
        <5> QED
          BY <5>1, <1>0, <1>3 DEF OneSource
      <4>2. CASE q = fd[r]
        <5>1. PICK nn \in Nat \ {0}, xx \in Data :
                /\ xx[1] = build[r]
                /\ inode'[q] = Put(inode[q], nn, xx)
          BY <4>2, <3>3, <1>0 DEF TypeOK
        <5>2. inode[q] \in File
          BY <1>0 DEF TypeOK
        <5>3. \A j \in 1..Len(inode[q]) : inode[q][j] = Hole \/ inode[q][j][1] = build[r]
          BY <1>0, <1>3 DEF OneSource
        <5>4. PICK f \in File : f = inode[q]
          BY <5>2
        <5>c. PICK c : c = build[r]
          OBVIOUS
        <5>5. xx[1] = c /\ OfBuild(f, c)
          BY <5>1, <5>3, <5>4, <5>c DEF OfBuild
        <5>6. inode'[q] = Put(f, nn, xx)
          BY <5>1, <5>4
        <5>7. OfBuild(Put(f, nn, xx), c)
          BY <5>5, PutKeepsSource
        <5>8. inode'[q][i] = Hole \/ inode'[q][i][1] = c
          BY <5>6, <5>7 DEF OfBuild
        <5> QED
          BY <5>c, <5>8
      <4> QED
        BY <4>1, <4>2
    <3>5. OneSource'
      BY <1>0, <2>0, <3>1, <3>4 DEF OneSource, OneBuild
    <3>6. Covered'
      BY <1>0, <3>1, <3>2, CoverKept
    <3> QED
      BY <3>5, <3>6
  <2>4. CASE OpenBoth(r)
    <3>1. PICK b \in Build : EndsAs(inode[tmp], b) /\ dir' = [dir EXCEPT ![r] = b]
      BY <2>4 DEF OpenBoth
    <3>2. b = build[r]
      <4>1. tmp \in Run /\ Len(inode[tmp]) = Size[b] /\ inode[tmp][Len(inode[tmp])] = <<b, Size[b]>>
        BY <2>4, <3>1, <1>0 DEF OpenBoth, TypeOK, EndsAs
      <4>2. Size[b] \in Nat \ {0} /\ <<b, Size[b]>> # Hole
        BY CacheAssumption DEF Hole
      <4>3. Len(inode[tmp]) \in 1..Len(inode[tmp])
        BY <4>1, <4>2
      <4>4. inode[tmp][Len(inode[tmp])] = Hole \/ inode[tmp][Len(inode[tmp])][1] = build[r]
        BY <4>1, <4>3, <1>0, <1>3 DEF OneSource
      <4>5. <<b, Size[b]>>[1] = build[r]
        BY <4>1, <4>2, <4>4
      <4> QED
        BY <4>5
    <3>3. OneSource'
      BY <1>0, <2>4, <3>1, <3>2 DEF OneSource, OneBuild, OpenBoth, TypeOK
    <3>4. out' = <<>> /\ step'[r] = "patch" /\ pos'[r] = 0
      BY <2>4, <1>0 DEF OpenBoth, Go, TypeOK
    <3>5. Covered'
      <4>1. Len(out') = 0
        BY <3>4
      <4>2. \A i \in Nat \ {0} : Behind(i)'
        BY <3>4 DEF Behind
      <4>3. \A q \in Run : Size[build'[q]] \in Nat
        BY <1>0, CacheAssumption DEF TypeOK
      <4> QED
        BY <4>1, <4>2, <4>3 DEF Covered
    <3> QED
      BY <3>3, <3>5
  <2>5. CASE PatchBlock(r)
    <3>1. inode' = inode /\ dir' = dir /\ exists' = exists /\ torn' = torn /\ step' = step
      BY <2>5 DEF PatchBlock
    <3>2. step[r] = "patch" /\ pos[r] \in Nat /\ Size[build[r]] \in Nat /\ pos[r] + 1 <= Size[build[r]]
      BY <2>5, <2>0, <1>0, CacheAssumption DEF PatchBlock, TypeOK
    <3>3. out' = Put(out, pos[r] + 1, Final(build[r], pos[r] + 1))
      BY <2>5, <2>0, <3>2 DEF PatchBlock, Final
    <3>4. pos'[r] = pos[r] + 1 /\ \A q \in Run \ {r} : pos'[q] = pos[q]
      BY <2>5, <1>0 DEF PatchBlock, TypeOK
    <3>5. pos[r] + 1 <= Size[build[r]] + 1
      BY <3>2
    <3>6. Covered'
      BY <1>0, <3>1, <3>2, <3>3, <3>4, <3>5, CoverGrown
    <3>7. OneSource'
      BY <1>0, <3>1, SourceKept
    <3> QED
      BY <3>6, <3>7
  <2>6. CASE PatchEnd(r)
    <3>1. inode' = inode /\ dir' = dir /\ exists' = exists /\ torn' = torn /\ pos' = pos
      BY <2>6 DEF PatchEnd
    <3>2. step[r] = "patch" /\ pos[r] \in Nat /\ Size[build[r]] \in Nat /\ pos[r] = Size[build[r]]
      BY <2>6, <2>0, <1>0, CacheAssumption DEF PatchEnd, Go, TypeOK
    <3>3. out' = Put(out, pos[r] + 1, Final(build[r], pos[r] + 1))
      BY <2>6, <3>2 DEF PatchEnd, Final
    <3>4. \A q \in Run \ {r} : step'[q] = step[q] /\ pos'[q] = pos[q]
      BY <2>6, <1>0 DEF PatchEnd, Go, TypeOK
    <3>5. pos[r] + 1 <= Size[build[r]] + 1
      BY <3>2
    <3>6. Covered'
      BY <1>0, <3>1, <3>2, <3>3, <3>4, <3>5, CoverGrown
    <3>7. OneSource'
      BY <1>0, <3>1, SourceKept
    <3> QED
      BY <3>6, <3>7
  <2>7. CASE Stop(r)
    <3>1. inode' = inode /\ dir' = dir /\ exists' = exists /\ out' = out /\ pos' = pos
      BY <2>7 DEF Stop
    <3>2. \A q \in Run : step[q] = "patch" /\ ~torn' => step'[q] = "patch"
      BY <2>7, <1>0 DEF Stop, TypeOK
    <3>3. OneSource'
      BY <1>0, <3>1, SourceKept
    <3>4. Covered'
      BY <1>0, <3>1, <3>2, CoverKept
    <3> QED
      BY <3>3, <3>4
  <2> QED
    BY <1>3, <2>1, <2>2, <2>3, <2>4, <2>5, <2>6, <2>7 DEF Move
<1> QED
  BY <1>1, <1>2, <1>3 DEF Next

\* An IPA that nobody is patching has no block left to cover.
LEMMA CoveredIsWhole == SettledInv => SettledWhole
<1> SUFFICES ASSUME SettledInv, OneBuild, ~torn, \A q \in Run : step[q] # "patch", exists, NEW r \in Run
             PROVE  Whole(build[r])
  BY DEF SettledWhole
<1> DEFINE n == Size[build[r]]
<1>1. n \in Nat /\ out \in File /\ Len(out) \in Nat
  BY CacheAssumption DEF SettledInv, TypeOK, File
<1>2. Len(out) <= n + 1 /\ \A i \in 1..(n + 1) : Good(build[r], i)
  BY DEF SettledInv, Covered, Behind
<1>3. Len(out) = n + 1
  BY <1>1, <1>2 DEF Good
<1>4. \A i \in 1..(n + 1) : out[i] = Final(build[r], i)
  BY <1>2 DEF Good
<1>5. out = [i \in 1..Len(out) |-> out[i]]
  BY <1>1 DEF File
<1> QED
  BY <1>3, <1>4, <1>5 DEF Whole, Final

\* Whatever several processes do at once to the two files of one build, the cached IPA
\* is whole once nobody is writing it, unless one stopped while it was (download.go,
\* applyPatches: O_TRUNC on the final name, and no lock).
THEOREM CachedIsWhole == Spec => []SettledWhole
<1>1. Init => SettledInv
  BY InitSettled
<1>2. SettledInv /\ [Next]_vars => SettledInv'
  BY StepSettled
<1> QED
  BY <1>1, <1>2, CoveredIsWhole, PTL DEF Spec
-----------------------------------------------------------------------------
(* One run after another: as long as no two runs have been active at once. *)

Early == {"new", "check", "prepare", "recheck", "open"}

\* A file that a run has not created yet is empty and has no name.
Uncreated == \A r \in Run : step[r] \in Early => inode[r] = <<>> /\ tmp # r

\* What the active run knows of the two files.
Knows(r) ==
  /\ step[r] \in {"open", "request", "write", "unzip"} => ~exists
  /\ step[r] \in {"request", "write"} => fd[r] = tmp /\ from[r] = Len(inode[tmp])
  /\ step[r] = "write" =>
       /\ pos[r] = from[r]
       /\ from[r] = Size[build[r]] => EndsAs(inode[tmp], build[r])
  /\ step[r] = "unzip" /\ tmp # None => EndsAs(inode[tmp], build[r])
  /\ step[r] = "patch" =>
       /\ exists /\ dir[r] = build[r] /\ Len(out) = pos[r]
       /\ \A i \in 1..Len(out) : out[i] = <<dir[r], i>>

\* At most one run is under way; the IPA's blocks are under its name; whatever ends like an
\* IPA is one; the temporary file is the beginning of the build, block for block.
OneActive == \A q, r \in Run : Active(q) /\ Active(r) => q = r
EmptyBefore == ~exists => out = <<>>
CompleteIsWhole == Completed => \E b \in Build : Whole(b)
Prefix(f, b) == Len(f) <= Size[b] /\ \A i \in 1..Len(f) : f[i] = <<b, i>>
Resumable == OneBuild /\ tmp # None => \A r \in Run : Prefix(inode[tmp], build[r])

InTurn ==
  ~overlap => /\ OneActive /\ Uncreated /\ EmptyBefore /\ CompleteIsWhole
              /\ \A r \in Run : Knows(r)
              /\ Resumable

\* At the start no run is active.
LEMMA InitInTurn == Init => InTurn
<1> SUFFICES ASSUME Init PROVE InTurn
  OBVIOUS
<1>1. /\ \A r \in Run : step[r] = "new" /\ inode[r] = <<>>
      /\ tmp = None /\ out = <<>>
  BY DEF Init
<1>2. OneActive /\ EmptyBefore /\ CompleteIsWhole /\ Resumable
  BY <1>1 DEF OneActive, Active, EmptyBefore, CompleteIsWhole, Completed, Resumable
<1>3. Uncreated /\ \A r \in Run : Knows(r)
  BY <1>1, CacheAssumption DEF Uncreated, Knows
<1> QED
  BY <1>2, <1>3 DEF InTurn

\* The run that moves is the active one: the others have not begun or are over.
LEMMA OthersRest ==
  ASSUME TypeOK, InTurn, ~overlap', NEW r \in Run, Move(r)
  PROVE  /\ ~overlap /\ build' = build
         /\ \A q \in Run \ {r} : step'[q] = step[q] /\ ~Active(q)
<1>1. ~overlap /\ build' = build
  <2>1. build' = build
    BY DEF Move, Begin, Check, Prepare, Recheck, OpenTmp, Continue, StartOver, WriteBlock, Fetched,
       OpenBoth, PatchBlock, PatchEnd, RemoveTmp, Stop, Go, fetch
  <2>2. CASE Begin(r)
    <3>1. overlap => overlap'
      BY <2>2 DEF Begin
    <3> QED
      BY <2>1, <3>1
  <2>3. CASE ~Begin(r)
    BY <2>1, <2>3 DEF Move, Check, Prepare, Recheck, OpenTmp, Continue, StartOver, WriteBlock,
       Fetched,
       OpenBoth, PatchBlock, PatchEnd, RemoveTmp, Stop
  <2> QED
    BY <2>1, <2>2, <2>3
<1>2. \A q \in Run \ {r} : step'[q] = step[q]
  BY DEF TypeOK, Move, Begin, Check, Prepare, Recheck, OpenTmp, Continue, StartOver, WriteBlock,
     Fetched, OpenBoth, PatchBlock, PatchEnd, RemoveTmp, Stop, Go
<1>3. CASE Begin(r)
  BY <1>1, <1>2, <1>3 DEF Begin
<1>4. CASE ~Begin(r)
  <2>1. Active(r)
    BY <1>4 DEF Move, Check, Prepare, Recheck, OpenTmp, Continue, StartOver, WriteBlock, Fetched,
       OpenBoth, PatchBlock, PatchEnd, RemoveTmp, Stop, Go, Active, Over
  <2> QED
    BY <1>1, <1>2, <2>1 DEF InTurn, OneActive
<1> QED
  BY <1>3, <1>4

\* So the invariant is a matter of that run and the files.
LEMMA InTurnBy ==
  ASSUME TypeOK, InTurn, ~overlap', NEW r \in Run, Move(r),
         Uncreated', EmptyBefore', CompleteIsWhole', Knows(r)', Resumable'
  PROVE  InTurn'
<1>1. \A q \in Run \ {r} : step'[q] = step[q] /\ ~Active(q)
  BY OthersRest
<1>2. OneActive'
  BY <1>1 DEF OneActive, Active
<1>3. ASSUME NEW q \in Run \ {r} PROVE Knows(q)'
  BY <1>1, <1>3 DEF Knows, Active, Over, TypeOK, Step
<1> QED
  BY <1>2, <1>3 DEF InTurn

\* Steps that touch no file.
LEMMA QuietInTurn ==
  ASSUME TypeOK, InTurn, ~overlap', NEW r \in Run,
         Begin(r) \/ Check(r) \/ Prepare(r) \/ Recheck(r) \/ Continue(r) \/ Fetched(r) \/ Stop(r)
  PROVE  InTurn'
<1>m. Move(r)
  BY DEF Move
<1>o. ~overlap /\ build' = build /\ \A q \in Run \ {r} : step'[q] = step[q]
  BY <1>m, OthersRest
<1>u. UNCHANGED <<inode, tmp, fd, from, dir, exists, out>>
  BY DEF Begin, Check, Prepare, Recheck, Continue, Fetched, Stop, fetch, cached
<1>k. /\ Uncreated /\ EmptyBefore /\ CompleteIsWhole /\ Knows(r) /\ Resumable
  BY <1>o DEF InTurn
<1>1. Uncreated'
  <2>1. step'[r] \in Early => step[r] \in Early
    BY DEF TypeOK, Begin, Check, Prepare, Recheck, Continue, Fetched, Stop, Go, Early
  <2> QED
    BY <1>k, <1>o, <1>u, <2>1 DEF Uncreated
<1>2. EmptyBefore' /\ CompleteIsWhole' /\ Resumable'
  BY <1>k, <1>o, <1>u DEF EmptyBefore, CompleteIsWhole, Completed, Whole, Resumable, OneBuild,
     Prefix
<1>3. Knows(r)'
  <2>1. CASE Begin(r) \/ Check(r) \/ Prepare(r) \/ Stop(r)
    <3>1. step'[r] \in {"check", "prepare", "recheck", "served", "stopped"}
      BY <2>1 DEF TypeOK, Begin, Check, Prepare, Stop, Go
    <3> QED
      BY <3>1 DEF Knows
  <2>2. CASE Recheck(r)
    <3>1. step'[r] = IF exists THEN "served" ELSE "open"
      BY <2>2 DEF TypeOK, Recheck, Go
    <3> QED
      BY <1>u, <3>1 DEF Knows
  <2>3. CASE Continue(r)
    <3>1. /\ step[r] = "request" /\ step'[r] = "write" /\ pos'[r] = from[r]
          /\ from[r] < Size[build[r]]
      BY <2>3, CacheAssumption DEF TypeOK, Continue, Go
    <3>2. from[r] # Size[build[r]]
      BY <3>1, CacheAssumption DEF TypeOK
    <3> QED
      BY <1>k, <1>o, <1>u, <3>1, <3>2 DEF Knows
  <2>4. CASE Fetched(r)
    <3>1. step[r] = "write" /\ step'[r] = "unzip" /\ from[r] = Size[build[r]]
      BY <2>4 DEF TypeOK, Fetched, Go
    <3> QED
      BY <1>k, <1>o, <1>u, <3>1 DEF Knows, EndsAs
  <2> QED
    BY <2>1, <2>2, <2>3, <2>4
<1> QED
  BY <1>m, <1>1, <1>2, <1>3, InTurnBy

\* The temporary file.
LEMMA OpenTmpInTurn ==
  ASSUME TypeOK, InTurn, ~overlap', NEW r \in Run, OpenTmp(r) PROVE InTurn'
<1>m. Move(r)
  BY DEF Move
<1>o. ~overlap /\ build' = build /\ \A q \in Run \ {r} : step'[q] = step[q]
  BY <1>m, OthersRest
<1>k. /\ Uncreated /\ EmptyBefore /\ CompleteIsWhole /\ Knows(r) /\ Resumable
  BY <1>o DEF InTurn
<1>u. /\ UNCHANGED <<inode, pos, dir, exists, out>> /\ tmp' = IF tmp = None THEN r ELSE tmp
      /\ step[r] = "open" /\ step'[r] = "request"
      /\ fd'[r] = tmp' /\ from'[r] = Len(inode[tmp'])
  BY DEF TypeOK, OpenTmp, Go, cached
<1>1. Uncreated'
  BY <1>k, <1>o, <1>u DEF Uncreated, Early
<1>2. EmptyBefore' /\ CompleteIsWhole'
  BY <1>k, <1>o, <1>u DEF EmptyBefore, CompleteIsWhole, Completed, Whole
<1>3. Resumable'
  <2>1. CASE tmp = None
    <3>1. inode[r] = <<>> /\ tmp' = r
      BY <1>k, <1>u, <2>1 DEF Uncreated, Early
    <3>2. \A b \in Build : Prefix(<<>>, b)
      BY CacheAssumption DEF Prefix
    <3> QED
      BY <1>o, <1>u, <3>1, <3>2 DEF Resumable, TypeOK
  <2>2. CASE tmp # None
    BY <1>k, <1>o, <1>u, <2>2 DEF Resumable, OneBuild, Prefix
  <2> QED
    BY <2>1, <2>2
<1>4. Knows(r)'
  BY <1>k, <1>u DEF Knows
<1> QED
  BY <1>m, <1>1, <1>2, <1>3, <1>4, InTurnBy

\* A run that starts over begins the file again, at its first block.
LEMMA StartOverInTurn ==
  ASSUME TypeOK, InTurn, ~overlap', NEW r \in Run, StartOver(r) PROVE InTurn'
<1>m. Move(r)
  BY DEF Move
<1>o. ~overlap /\ build' = build /\ \A q \in Run \ {r} : step'[q] = step[q]
  BY <1>m, OthersRest
<1>k. /\ Uncreated /\ EmptyBefore /\ CompleteIsWhole /\ Knows(r) /\ Resumable
  BY <1>o DEF InTurn
<1>u. /\ UNCHANGED <<tmp, fd, dir, exists, out>>
      /\ step[r] = "request" /\ step'[r] = "write" /\ pos'[r] = 0 /\ from'[r] = 0
      /\ fd[r] = tmp /\ tmp \in Run /\ from[r] = Len(inode[tmp])
      /\ inode' = IF from[r] > 0 THEN [inode EXCEPT ![tmp] = <<>>] ELSE inode
  BY <1>k DEF TypeOK, StartOver, Go, cached, Knows
<1>e. inode[tmp] \in File /\ (Len(inode[tmp]) = 0 => inode[tmp] = <<>>)
  BY <1>u DEF TypeOK, File
<1>f. inode'[tmp] = <<>> /\ \A q \in Run : inode[q] = <<>> => inode'[q] = <<>>
  BY <1>e, <1>u DEF TypeOK, File
<1>1. Uncreated'
  BY <1>f, <1>k, <1>o, <1>u DEF Uncreated, Early
<1>2. EmptyBefore' /\ CompleteIsWhole'
  BY <1>k, <1>o, <1>u DEF EmptyBefore, CompleteIsWhole, Completed, Whole
<1>3. Resumable'
  <2>1. \A b \in Build : Prefix(<<>>, b)
    BY CacheAssumption DEF Prefix
  <2> QED
    BY <1>f, <1>o, <1>u, <2>1 DEF Resumable, TypeOK
<1>4. Knows(r)'
  <2>1. Size[build[r]] # 0 /\ Len(<<>>) = 0
    BY CacheAssumption DEF TypeOK
  <2> QED
    BY <1>f, <1>k, <1>o, <1>u, <2>1 DEF Knows
<1> QED
  BY <1>m, <1>1, <1>2, <1>3, <1>4, InTurnBy

\* A block put behind the end of a file lengthens it and changes nothing before it.
LEMMA Appended ==
  ASSUME NEW f \in File, NEW x \in Data
  PROVE  /\ Put(f, Len(f) + 1, x) \in File /\ Len(Put(f, Len(f) + 1, x)) = Len(f) + 1
         /\ Put(f, Len(f) + 1, x)[Len(f) + 1] = x
         /\ \A i \in 1..Len(f) : Put(f, Len(f) + 1, x)[i] = f[i]
<1> DEFINE n == Len(f) + 1
<1>1. Len(f) \in Nat /\ n \in Nat \ {0}
  BY DEF File
<1>2. /\ Put(f, n, x) \in File /\ Len(Put(f, n, x)) = IF n > Len(f) THEN n ELSE Len(f)
      /\ \A i \in 1..Len(Put(f, n, x)) :
           Put(f, n, x)[i] = IF i = n THEN x ELSE IF i <= Len(f) THEN f[i] ELSE Hole
  BY <1>1, PutIsFile
<1> QED
  BY <1>1, <1>2

\* A downloading run, alone, writes at the end of what is a prefix of its build.
LEMMA WriteBlockInTurn ==
  ASSUME TypeOK, InTurn, ~overlap', NEW r \in Run, WriteBlock(r) PROVE InTurn'
<1> DEFINE f == inode[tmp]
           b == build[r]
           n == from[r] + 1
           g == Put(f, n, <<b, n>>)
<1>m. Move(r)
  BY DEF Move
<1>o. ~overlap /\ build' = build /\ \A q \in Run \ {r} : step'[q] = step[q]
  BY <1>m, OthersRest
<1>k. /\ Uncreated /\ EmptyBefore /\ CompleteIsWhole /\ Knows(r) /\ Resumable
  BY <1>o DEF InTurn
<1>u. /\ UNCHANGED <<step, tmp, fd, dir, exists, out>> /\ step[r] = "write"
      /\ from'[r] = n /\ pos'[r] = pos[r] + 1 /\ from[r] < Size[b]
      /\ fd[r] = tmp /\ tmp \in Run /\ from[r] = Len(f) /\ pos[r] = from[r]
      /\ inode' = [inode EXCEPT ![tmp] = g]
  BY <1>k DEF TypeOK, WriteBlock, cached, Knows
<1>t. f \in File /\ Len(f) \in Nat /\ n \in Nat \ {0} /\ <<b, n>> \in Data /\ Size[b] \in Nat
  BY <1>u, CacheAssumption DEF TypeOK, File, Data, Block
<1>g. Len(g) = n /\ g[n] = <<b, n>> /\ \A i \in 1..Len(f) : g[i] = f[i]
  <2>1. n = Len(f) + 1
    BY <1>u
  <2>2. g = Put(f, Len(f) + 1, <<b, n>>)
    BY <2>1
  <2>3. /\ Len(Put(f, Len(f) + 1, <<b, n>>)) = Len(f) + 1
        /\ Put(f, Len(f) + 1, <<b, n>>)[Len(f) + 1] = <<b, n>>
        /\ \A i \in 1..Len(f) : Put(f, Len(f) + 1, <<b, n>>)[i] = f[i]
    BY <1>t, Appended, Zenon
  <2> QED
    BY <2>1, <2>2, <2>3
<1>f. inode'[tmp] = g /\ \A q \in Run \ {tmp} : inode'[q] = inode[q]
  BY <1>u DEF TypeOK
<1>1. Uncreated'
  BY <1>f, <1>k, <1>u DEF Uncreated
<1>2. EmptyBefore' /\ CompleteIsWhole'
  BY <1>k, <1>o, <1>u DEF EmptyBefore, CompleteIsWhole, Completed, Whole
<1>3. Resumable'
  <2> SUFFICES ASSUME OneBuild, NEW q \in Run PROVE Prefix(g, build[q])
    <3>1. (OneBuild' => OneBuild) /\ tmp' = tmp /\ inode'[tmp'] = g
      BY <1>f, <1>o, <1>u DEF OneBuild
    <3>2. \A q \in Run : Prefix(g, build[q]) => Prefix(inode'[tmp'], build'[q])
      BY <1>o, <3>1
    <3> QED
      BY <3>1, <3>2 DEF Resumable
  <2>1. build[q] = b
    BY DEF OneBuild
  <2>2. \A i \in 1..Len(f) : f[i] = <<b, i>>
    BY <1>k, <1>u, CacheAssumption DEF Resumable, Prefix
  <2>3. ASSUME NEW i \in 1..n PROVE g[i] = <<b, i>>
    <3>1. i = n \/ i \in 1..Len(f)
      BY <1>t, <1>u
    <3>2. CASE i = n
      BY <1>g, <3>2
    <3>3. CASE i \in 1..Len(f)
      BY <1>g, <2>2, <3>3
    <3> QED
      BY <3>1, <3>2, <3>3
  <2> HIDE DEF g, n, f, b
  <2> QED
    BY <1>g, <1>t, <1>u, <2>1, <2>3 DEF Prefix, n
<1>4. Knows(r)'
  <2>1. from'[r] = Size[b] => EndsAs(g, b)
    BY <1>g, <1>u DEF EndsAs
  <2> HIDE DEF g
  <2>2. EndsAs(inode'[tmp], b) <=> EndsAs(g, b)
    BY <1>f
  <2>3. pos'[r] = from'[r] /\ from'[r] = Len(inode'[tmp])
    BY <1>f, <1>g, <1>u
  <2> QED
    BY <1>k, <1>o, <1>u, <2>1, <2>2, <2>3 DEF Knows, EndsAs
<1> QED
  BY <1>m, <1>1, <1>2, <1>3, <1>4, InTurnBy

\* The cached file.
LEMMA OpenBothInTurn ==
  ASSUME TypeOK, InTurn, ~overlap', NEW r \in Run, OpenBoth(r) PROVE InTurn'
<1>m. Move(r)
  BY DEF Move
<1>o. ~overlap /\ build' = build /\ \A q \in Run \ {r} : step'[q] = step[q]
  BY <1>m, OthersRest
<1>k. /\ Uncreated /\ Knows(r) /\ Resumable
  BY <1>o DEF InTurn
<1>u. /\ UNCHANGED <<inode, tmp>> /\ tmp # None
      /\ step[r] = "unzip" /\ step'[r] = "patch" /\ pos'[r] = 0
      /\ exists' /\ out' = <<>>
  BY DEF TypeOK, OpenBoth, Go
<1>1. Uncreated'
  BY <1>k, <1>o, <1>u DEF Uncreated, Early
<1>2. EmptyBefore' /\ CompleteIsWhole'
  BY <1>u DEF EmptyBefore, CompleteIsWhole, Completed
<1>3. Resumable'
  BY <1>k, <1>o, <1>u DEF Resumable, OneBuild, Prefix
<1>4. Knows(r)'
  <2>1. PICK b \in Build : EndsAs(inode[tmp], b) /\ dir' = [dir EXCEPT ![r] = b]
    BY DEF OpenBoth
  <2>2. inode[tmp][Len(inode[tmp])] = <<b, Size[b]>>
    BY <2>1 DEF EndsAs
  <2>3. inode[tmp][Len(inode[tmp])] = <<build[r], Size[build[r]]>>
    BY <1>k, <1>u DEF Knows, EndsAs
  <2>4. b = build[r]
    BY <2>2, <2>3
  <2>5. dir'[r] = build'[r]
    BY <1>o, <2>1, <2>4 DEF TypeOK
  <2> QED
    BY <1>u, <2>5 DEF Knows
<1> QED
  BY <1>m, <1>1, <1>2, <1>3, <1>4, InTurnBy

\* While an IPA is being written it is not complete.
LEMMA NotComplete ==
  ASSUME NEW f \in File, NEW b, \A i \in 1..Len(f) : f[i] = <<b, i>>
  PROVE  f = <<>> \/ f[Len(f)][2] # 0
<1>1. Len(f) \in Nat /\ (Len(f) = 0 => f = <<>>)
  BY DEF File
<1>2. Len(f) # 0 => f[Len(f)] = <<b, Len(f)>>
  BY <1>1
<1> QED
  BY <1>1, <1>2

\* A patching run, alone, lengthens the beginning of its build in the IPA.
LEMMA PatchBlockInTurn ==
  ASSUME TypeOK, TypeOK', InTurn, ~overlap', NEW r \in Run, PatchBlock(r) PROVE InTurn'
<1> DEFINE n == pos[r] + 1
<1>m. Move(r)
  BY DEF Move
<1>o. ~overlap /\ build' = build /\ \A q \in Run \ {r} : step'[q] = step[q]
  BY <1>m, OthersRest
<1>k. /\ Uncreated /\ EmptyBefore /\ Knows(r) /\ Resumable
  BY <1>o DEF InTurn
<1>u. /\ UNCHANGED <<step, inode, tmp, dir, exists>> /\ step[r] = "patch"
      /\ pos'[r] = n /\ out' = Put(out, n, <<dir[r], n>>)
      /\ exists /\ dir[r] = build[r] /\ Len(out) = pos[r]
      /\ \A i \in 1..Len(out) : out[i] = <<dir[r], i>>
  BY <1>k DEF TypeOK, PatchBlock, Knows
<1>t. out \in File /\ Len(out) \in Nat /\ n \in Nat \ {0} /\ <<dir[r], n>> \in Data
  BY <1>u DEF TypeOK, File, Data, Block
<1>g. Len(out') = n /\ \A i \in 1..Len(out') : out'[i] = <<dir[r], i>>
  <2>1. n = Len(out) + 1 /\ out' = Put(out, Len(out) + 1, <<dir[r], n>>)
    BY <1>u
  <2>a. PICK g : g = Put(out, Len(out) + 1, <<dir[r], n>>)
    OBVIOUS
  <2>b. /\ Len(g) = Len(out) + 1 /\ g[Len(out) + 1] = <<dir[r], n>>
        /\ \A i \in 1..Len(out) : g[i] = out[i]
    BY <1>t, <2>a, Appended, Zenon
  <2>2. /\ Len(out') = n /\ out'[n] = <<dir[r], n>>
        /\ \A i \in 1..Len(out) : out'[i] = out[i]
    BY <2>1, <2>a, <2>b
  <2>3. \A i \in 1..n : i = n \/ i \in 1..Len(out)
    BY <1>t, <2>1
  <2> QED
    BY <1>u, <2>2, <2>3
<1>1. Uncreated' /\ EmptyBefore' /\ Resumable'
  BY <1>k, <1>o, <1>u DEF Uncreated, EmptyBefore, Resumable, OneBuild, Prefix
<1>2. CompleteIsWhole'
  <2>1. ~Completed'
    BY <1>g, NotComplete DEF TypeOK, Completed
  <2> QED
    BY <2>1 DEF CompleteIsWhole
<1>3. Knows(r)'
  BY <1>g, <1>o, <1>u DEF Knows
<1> QED
  BY <1>m, <1>1, <1>2, <1>3, InTurnBy

\* ... and ends it with the metadata of the same build.
LEMMA PatchEndInTurn ==
  ASSUME TypeOK, InTurn, ~overlap', NEW r \in Run, PatchEnd(r) PROVE InTurn'
<1>b. PICK b \in Build : b = build[r]
  BY DEF TypeOK
<1>m. Move(r)
  BY DEF Move
<1>o. ~overlap /\ build' = build /\ \A q \in Run \ {r} : step'[q] = step[q]
  BY <1>m, OthersRest
<1>k. /\ Uncreated /\ EmptyBefore /\ Knows(r) /\ Resumable
  BY <1>o DEF InTurn
<1>u. /\ UNCHANGED <<inode, tmp, exists>> /\ step[r] = "patch" /\ step'[r] = "remove"
      /\ out' = Put(out, Size[b] + 1, <<b, 0>>)
      /\ exists /\ Len(out) = Size[b]
      /\ \A i \in 1..Len(out) : out[i] = <<b, i>>
  BY <1>b, <1>k DEF TypeOK, PatchEnd, Go, Knows, fetch
<1>t. out \in File /\ Size[b] \in Nat /\ <<b, 0>> \in Data
  BY CacheAssumption DEF TypeOK, Data, Block
<1>g. /\ Len(out') = Size[b] + 1 /\ out' \in File
      /\ \A i \in 1..(Size[b] + 1) : out'[i] = IF i <= Size[b] THEN <<b, i>> ELSE <<b, 0>>
  <2>1. PICK g : g = Put(out, Len(out) + 1, <<b, 0>>)
    OBVIOUS
  <2>2. /\ g \in File /\ Len(g) = Len(out) + 1 /\ g[Len(out) + 1] = <<b, 0>>
        /\ \A i \in 1..Len(out) : g[i] = out[i]
    BY <1>t, <2>1, Appended, Zenon
  <2>3. out' = g
    BY <1>u, <2>1
  <2>4. ASSUME NEW i \in 1..(Size[b] + 1)
        PROVE  g[i] = IF i <= Size[b] THEN <<b, i>> ELSE <<b, 0>>
    <3>1. CASE i <= Size[b]
      <4>1. i \in 1..Len(out)
        BY <1>t, <1>u, <3>1
      <4>2. g[i] = out[i] /\ out[i] = <<b, i>>
        BY <1>u, <2>2, <4>1
      <4> QED
        BY <3>1, <4>2
    <3>2. CASE i = Size[b] + 1
      <4>1. i = Len(out) + 1 /\ ~(i <= Size[b])
        BY <1>t, <1>u, <3>2
      <4>2. g[i] = <<b, 0>>
        BY <2>2, <4>1
      <4> QED
        BY <4>1, <4>2
    <3> QED
      BY <1>t, <3>1, <3>2
  <2> QED
    BY <1>u, <2>2, <2>3, <2>4
<1>1. Uncreated' /\ EmptyBefore' /\ Resumable'
  BY <1>k, <1>o, <1>u DEF Uncreated, EmptyBefore, Resumable, OneBuild, Prefix, Early
<1>2. CompleteIsWhole'
  <2>1. out' = [i \in 1..(Size[b] + 1) |-> out'[i]]
    BY <1>g DEF File
  <2>2. Whole(b)'
    BY <1>g, <2>1 DEF Whole
  <2> QED
    BY <2>2 DEF CompleteIsWhole
<1>3. Knows(r)'
  BY <1>u DEF Knows
<1> QED
  BY <1>m, <1>1, <1>2, <1>3, InTurnBy

\* Removing the temporary file leaves the whole IPA as it is.
LEMMA RemoveTmpInTurn ==
  ASSUME TypeOK, InTurn, ~overlap', NEW r \in Run, RemoveTmp(r) PROVE InTurn'
<1>m. Move(r)
  BY DEF Move
<1>o. ~overlap /\ build' = build /\ \A q \in Run \ {r} : step'[q] = step[q]
  BY <1>m, OthersRest
<1>k. Uncreated /\ EmptyBefore /\ CompleteIsWhole
  BY <1>o DEF InTurn
<1>u. UNCHANGED <<inode, exists, out>> /\ tmp' = None /\ step'[r] = "served"
  BY DEF TypeOK, RemoveTmp, Go, cached
<1>1. Uncreated'
  BY <1>k, <1>o, <1>u, CacheAssumption DEF Uncreated, Early
<1>2. EmptyBefore' /\ CompleteIsWhole' /\ Resumable'
  BY <1>k, <1>u DEF EmptyBefore, CompleteIsWhole, Completed, Whole, Resumable
<1>3. Knows(r)'
  BY <1>u DEF Knows
<1> QED
  BY <1>m, <1>1, <1>2, <1>3, InTurnBy

\* InTurn is inductive as long as no two runs overlap.
LEMMA StepInTurn == TypeOK /\ InTurn /\ [Next]_vars => InTurn'
<1> SUFFICES ASSUME TypeOK, InTurn, [Next]_vars, ~overlap' PROVE InTurn'
  BY DEF InTurn
<1>1. CASE UNCHANGED vars
  <2>1. UNCHANGED <<step, build, inode, tmp, fd, from, pos, dir, exists, out, overlap>>
    BY <1>1 DEF vars, fetch, cached
  <2>2. OneActive => OneActive'
    BY <2>1 DEF OneActive, Active, Over
  <2>3. Uncreated => Uncreated'
    BY <2>1 DEF Uncreated, Early
  <2>5. EmptyBefore => EmptyBefore'
    BY <2>1 DEF EmptyBefore
  <2>6. CompleteIsWhole => CompleteIsWhole'
    BY <2>1 DEF CompleteIsWhole, Completed, Whole
  <2>7. Resumable => Resumable'
    BY <2>1 DEF Resumable, OneBuild, Prefix
  <2>4. \A r \in Run : Knows(r) => Knows(r)'
    BY <2>1 DEF Knows, EndsAs
  <2> QED
    BY <2>1, <2>2, <2>3, <2>4, <2>5, <2>6, <2>7 DEF InTurn
<1>2. ASSUME NEW r \in Run, Move(r) PROVE InTurn'
  BY <1>2, StepTyped, QuietInTurn, OpenTmpInTurn, StartOverInTurn, WriteBlockInTurn, OpenBothInTurn,
     PatchBlockInTurn, PatchEndInTurn, RemoveTmpInTurn DEF Move
<1> QED
  BY <1>1, <1>2 DEF Next

\* Runs that were cut off anywhere, one after the other, add up to the download: what a run
\* resumes is the beginning of the build, block for block.
THEOREM ResumedIsPrefix == Spec => []ResumesPrefix
<1>1. TypeOK /\ InTurn => ResumesPrefix
  BY DEF InTurn, Resumable, Prefix, ResumesPrefix
<1> QED
  BY <1>1, InitTyped, StepTyped, InitInTurn, StepInTurn, PTL DEF Spec

\* Builds that share a display version share both files; one run after another still completes
\* an IPA only from the blocks and the sinfs of one of them.
THEOREM CompletedIsOne == Spec => []NeverMixed
<1>1. InTurn => NeverMixed
  BY DEF InTurn, CompleteIsWhole, NeverMixed
<1> QED
  BY <1>1, InitTyped, StepTyped, InitInTurn, StepInTurn, PTL DEF Spec

\* One run after another, a whole cached IPA is never written again, since the run that would
\* looks again once it has its ticket.
THEOREM WholeIsKept == Spec => CachedStays
<1>1. ASSUME TypeOK, InTurn, [Next]_vars
      PROVE  [~overlap' /\ (\E b \in Build : Whole(b)) => out' = out]_vars
  <2> SUFFICES ASSUME ~overlap', NEW b \in Build, Whole(b), NEW r \in Run, Move(r)
               PROVE  out' = out
    BY <1>1 DEF Next, vars, cached
  <2>1. Knows(r) /\ EmptyBefore
    BY <1>1, OthersRest DEF InTurn
  <2>2. Completed
    <3>1. Size[b] \in Nat \ {0} /\ Len(out) = Size[b] + 1 /\ out[Size[b] + 1] = <<b, 0>>
      BY CacheAssumption DEF Whole
    <3> QED
      BY <3>1 DEF Completed
  <2>3. step[r] # "patch"
    BY <1>1, <2>1, <2>2, NotComplete DEF Knows, Completed, TypeOK
  <2>4. exists
    BY <2>1, <2>2 DEF EmptyBefore, Completed
  <2>5. ~OpenBoth(r) /\ ~PatchBlock(r) /\ ~PatchEnd(r)
    BY <2>1, <2>3, <2>4 DEF Knows, OpenBoth, PatchBlock, PatchEnd, Go
  <2> QED
    BY <2>5 DEF Move, Begin, Check, Prepare, Recheck, OpenTmp, Continue, StartOver, WriteBlock,
       Fetched, RemoveTmp, Stop, cached
<1> QED
  BY <1>1, InitTyped, StepTyped, InitInTurn, StepInTurn, PTL DEF Spec, CachedStays
=============================================================================
