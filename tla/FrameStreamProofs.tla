-------------------------- MODULE FrameStreamProofs --------------------------
(***************************************************************************)
(* Proofs about FrameStream: type correctness, that a dump leaves the       *)
(* installed app alone unless something fails, and that damage done through *)
(* a link then never passes for a decrypted app on the frames' route, that a *)
(* decrypted file stays decrypted, that FrameStream implements OutputIPA,   *)
(* that Verify accepts nothing that is still encrypted, and that a run in   *)
(* which nothing fails decrypts what it was asked to.                       *)
(***************************************************************************)
EXTENDS FrameStream, TLAPS

\* TypeOK in three parts: the dumps, the rest of the device, the wire and the host.
StagingOK ==
  /\ version \in [Entry -> Version] /\ installed \in [Entry -> Version]
  /\ linked \subseteq File

HelperOK ==
  /\ todo \subseteq File
  /\ staged \in BOOLEAN /\ traced \in BOOLEAN
  /\ helper \in {"stage", "spawn", "first", "settle", "images", "appexes", "send", "remove",
                 "exited"}
  /\ sending \in [file : Entry, left : 0..BodyLen]
  /\ rc \in {0, 1} /\ exit \in {"none", "zero", "nonzero", "killed"}

WireOK ==
  /\ pipe \in Seq(Unit) /\ Len(pipe) <= Window
  /\ cut \in BOOLEAN /\ outcome \in {"none", "zero", "nonzero", "error"}

HostOK ==
  /\ host \in {"frame", "body", "drain", "copy", "stopped", "fill", "complete", "verified",
               "failed"}
  /\ cur \in [file : Entry, left : 0..BodyLen, own : BOOLEAN]
  /\ entries \in [Entry -> Version \cup {Garbled}]
  /\ parseErr \in BOOLEAN /\ verdict \in {"none", "ok", "flagged", "panic"}

OptOK ==
  opt \in [route : {"execs", "zip"}, skipAppex : BOOLEAN, extra : BOOLEAN, links : BOOLEAN]

\* The type invariant, by the actor whose variables each part is about.
LEMMA TypeParts ==
  TypeOK <=> OptOK /\ StagingOK /\ HelperOK /\ WireOK /\ HostOK /\ faults \in 0..MaxFaults
BY DEF TypeOK, OptOK, StagingOK, HelperOK, WireOK, HostOK

\* A frame of three kinds keeps what it does not name.
LEMMA Frames ==
  /\ StagingOK /\ UNCHANGED staging => StagingOK'
  /\ WireOK /\ UNCHANGED wire => WireOK'
  /\ HostOK /\ UNCHANGED reader => HostOK'
  /\ OptOK /\ UNCHANGED opt => OptOK'
  /\ StagingOK /\ HelperOK /\ UNCHANGED device => StagingOK' /\ HelperOK'
<1>1. StagingOK /\ UNCHANGED staging => StagingOK'
  BY DEF StagingOK, staging
<1>2. WireOK /\ UNCHANGED wire => WireOK'
  BY DEF WireOK, wire
<1>3. HostOK /\ UNCHANGED reader => HostOK'
  BY DEF HostOK, reader
<1>4. OptOK /\ UNCHANGED opt => OptOK'
  BY DEF OptOK
<1>5. StagingOK /\ HelperOK /\ UNCHANGED device => StagingOK' /\ HelperOK'
  <2>1. StagingOK /\ UNCHANGED device => StagingOK'
    BY <1>1 DEF device
  <2>2. HelperOK /\ UNCHANGED device => HelperOK'
    BY DEF HelperOK, device
  <2> QED BY <2>1, <2>2
<1> QED BY <1>1, <1>2, <1>3, <1>4, <1>5

\* A failure is counted up to the bound.
LEMMA FaultsCounted ==
  ASSUME faults \in 0..MaxFaults, NoFault \/ Fault
  PROVE  faults' \in 0..MaxFaults
BY FrameAssumption DEF NoFault, Fault

\* A dump changes one file of the staging copy, and of the installed bundle that one at most.
LEMMA DumpIsLocal ==
  ASSUME StagingOK, NEW f \in File, Dump(f)
  PROVE  /\ StagingOK'
         /\ \A g \in Entry : g # f => version'[g] = version[g] /\ installed'[g] = installed[g]
         /\ NoFault \/ Fault
<1>1. ASSUME NEW v \in Version, WriteOutput(f, v) \/ WriteThrough(f, v)
      PROVE  /\ StagingOK'
             /\ \A g \in Entry : g # f => version'[g] = version[g] /\ installed'[g] = installed[g]
  BY <1>1 DEF StagingOK, WriteOutput, Create, WriteThrough, Entry
<1>2. {"plain", "body"} \subseteq Version /\ Truncated \cup {"none", "mixed"} \subseteq Version
  BY DEF Version, Truncated
<1>3. CASE (NoFault \/ Fault) /\ UNCHANGED staging
  BY <1>3, Frames DEF staging
<1>4. CASE NoFault /\ WriteOutput(f, "plain")
  BY <1>1, <1>2, <1>4
<1>5. CASE Fault /\ \E v \in Truncated \cup {"none", "mixed"} : WriteOutput(f, v)
  BY <1>1, <1>2, <1>5
<1>6. CASE Fault /\ \E v \in {"plain", "body"} : WriteThrough(f, v)
  BY <1>1, <1>2, <1>6
<1> QED BY <1>3, <1>4, <1>5, <1>6 DEF Dump

-----------------------------------------------------------------------------
(* Types.                                                                   *)

LEMMA SourceTyped == Source \in [Entry -> Version]
BY DEF Source, Version

\* Before the helper has begun, everything is well typed.
LEMMA InitTyped == Init => TypeOK
<1> SUFFICES ASSUME Init PROVE TypeOK
  OBVIOUS
<1>1. OptOK
  BY DEF Init, OptOK
<1>2. StagingOK
  BY SourceTyped DEF Init, StagingOK
<1>3. HelperOK
  <2>1. sending \in [file : Entry, left : 0..BodyLen]
    BY FrameAssumption DEF Init, Idle, Entry
  <2>2. todo = {} /\ staged = FALSE /\ traced = FALSE /\ helper = "stage" /\ rc = 0 /\ exit = "none"
    BY DEF Init
  <2> QED BY <2>1, <2>2 DEF HelperOK
<1>4. WireOK
  <2>1. pipe = <<>> /\ cut = FALSE /\ outcome = "none"
    BY DEF Init
  <2>2. <<>> \in Seq(Unit) /\ Len(<<>>) <= Window
    BY FrameAssumption
  <2> QED BY <2>1, <2>2 DEF WireOK
<1>5. HostOK
  <2>1. cur \in [file : Entry, left : 0..BodyLen, own : BOOLEAN]
    BY FrameAssumption DEF Init, NoFrame, Entry
  <2>2. entries \in [Entry -> Version \cup {Garbled}]
    BY DEF Init, Version
  <2>3. host \in {"frame", "copy"} /\ parseErr \in BOOLEAN /\ verdict = "none"
    BY DEF Init
  <2> QED BY <2>1, <2>2, <2>3 DEF HostOK
<1>6. faults \in 0..MaxFaults
  BY FrameAssumption DEF Init
<1> QED BY <1>1, <1>2, <1>3, <1>4, <1>5, <1>6, TypeParts

\* The files decrypt_appexes goes through are extensions' files.
LEMMA AppexTodoIsFile == AppexTodo \subseteq File /\ AppexTodo \subseteq Appex
BY DEF AppexTodo, File

\* The dumps.
LEMMA BundleTyped ==
  ASSUME TypeOK,
         \/ CopyTree \/ Spawn \/ FirstDump \/ NoMainImage \/ Settle \/ BundleDone \/ AppexesDone
         \/ \E f \in File : DumpImage(f) \/ DumpAppex(f)
  PROVE  TypeOK'
<1>1. OptOK /\ StagingOK /\ HelperOK /\ WireOK /\ HostOK /\ faults \in 0..MaxFaults
  BY TypeParts
<1>2. Main \in File /\ Framework \cap Encrypted \subseteq File
  BY DEF File
<1>3. UNCHANGED <<opt, wire, reader>>
  BY DEF CopyTree, Spawn, FirstDump, NoMainImage, Settle, BundleDone, AppexesDone, DumpImage,
         DumpAppex
<1>4. StagingOK' /\ (NoFault \/ Fault)
  <2>1. UNCHANGED staging /\ (NoFault \/ Fault) => StagingOK' /\ (NoFault \/ Fault)
    BY <1>1, Frames
  <2>2. CASE CopyTree \/ Spawn \/ NoMainImage \/ BundleDone \/ AppexesDone
    BY <2>1, <2>2 DEF CopyTree, Spawn, NoMainImage, BundleDone, AppexesDone
  <2>3. CASE FirstDump
    BY <2>1, <2>3, <1>1, <1>2, DumpIsLocal DEF FirstDump, DumpMain
  <2>4. CASE Settle
    BY <2>1, <2>4, <1>1, <1>2, DumpIsLocal DEF Settle, DumpMain
  <2>5. CASE \E f \in File : DumpImage(f) \/ DumpAppex(f)
    BY <2>5, <1>1, DumpIsLocal DEF DumpImage, DumpAppex
  <2> QED BY <2>2, <2>3, <2>4, <2>5
<1>5. HelperOK'
  <2>1. CASE CopyTree
    BY <2>1, <1>1 DEF CopyTree, Steps, HelperOK
  <2>2. CASE Spawn
    BY <2>2, <1>1, AppexTodoIsFile DEF Spawn, Steps, HelperOK
  <2>3. CASE FirstDump
    BY <2>3, <1>1, AppexTodoIsFile DEF FirstDump, AfterFirst, Steps, HelperOK
  <2>4. CASE NoMainImage
    BY <2>4, <1>1, <1>2, AppexTodoIsFile DEF NoMainImage, Steps, HelperOK
  <2>5. CASE Settle
    BY <2>5, <1>1, <1>2 DEF Settle, Steps, HelperOK
  <2>6. CASE BundleDone \/ AppexesDone
    BY <2>6, <1>1, AppexTodoIsFile DEF BundleDone, AppexesDone, Steps, HelperOK
  <2>7. CASE \E f \in File : DumpImage(f) \/ DumpAppex(f)
    BY <2>7, <1>1 DEF DumpImage, DumpAppex, HelperOK
  <2> QED BY <2>1, <2>2, <2>3, <2>4, <2>5, <2>6, <2>7
<1>6. OptOK' /\ WireOK' /\ HostOK' /\ faults' \in 0..MaxFaults
  BY <1>1, <1>3, <1>4, Frames, FaultsCounted
<1> QED BY <1>4, <1>5, <1>6
  DEF TypeOK, OptOK, StagingOK, HelperOK, WireOK, HostOK

\* The writes of the helper are writes the wire can carry.
LEMMA Units ==
  /\ \A f \in Entry : Header(f) \in Unit
  /\ \A f \in Entry : \A i \in 0..BodyLen : Piece(f, i) \in Unit
  /\ ZipEnd \in Unit /\ Torn \in Unit
BY FrameAssumption DEF Header, Piece, ZipEnd, Torn, Unit, Entry

\* The sender.
LEMMA SenderTyped ==
  ASSUME TypeOK,
         \/ SendBody \/ ReadFails \/ BrokenPipe \/ FilesSent \/ RemoveStaging \/ Killed \/ Unreadable
         \/ \E f \in File : SkipFile(f) \/ OpenFails(f) \/ SendHeader(f)
  PROVE  TypeOK'
<1>1. OptOK /\ StagingOK /\ HelperOK /\ WireOK /\ HostOK /\ faults \in 0..MaxFaults
  BY TypeParts
<1>2. UNCHANGED <<opt, staging, reader>> /\ (NoFault \/ Fault)
  BY DEF SendBody, ReadFails, BrokenPipe, FilesSent, RemoveStaging, Killed, SkipFile,
         Unreadable, OpenFails, SendHeader
<1>3. Idle \in [file : Entry, left : 0..BodyLen] /\ BodyLen \in Nat \ {0}
  BY FrameAssumption DEF Idle, Entry
<1>4. ASSUME Room, NEW u \in Unit, pipe' = Append(pipe, u), UNCHANGED <<cut, outcome>>
      PROVE  WireOK'
  BY <1>1, <1>4, FrameAssumption DEF WireOK, Room
<1>5. HelperOK' /\ WireOK'
  <2>1. CASE SendBody
    <3>1. sending.file \in Entry /\ sending.left \in 1..BodyLen
      BY <2>1, <1>1, <1>3 DEF SendBody, HelperOK
    <3>2. BodyLen - sending.left + 1 \in 0..BodyLen
      BY <3>1, <1>3
    <3>3. WireOK'
      BY <2>1, <3>1, <3>2, <1>4, Units DEF SendBody
    <3>4. sending' \in [file : Entry, left : 0..BodyLen]
      <4>1. CASE sending.left = 1
        BY <2>1, <4>1, <1>3 DEF SendBody
      <4>2. CASE sending.left # 1
        <5>1. sending' = [sending EXCEPT !.left = @ - 1]
          BY <2>1, <4>2 DEF SendBody
        <5>2. sending.left - 1 \in 0..BodyLen /\ sending \in [file : Entry, left : 0..BodyLen]
          BY <3>1, <1>1, <1>3 DEF HelperOK
        <5> QED BY <5>1, <5>2
      <4> QED BY <4>1, <4>2
    <3> QED BY <2>1, <3>3, <3>4, <1>1 DEF SendBody, HelperOK
  <2>2. CASE ReadFails
    BY <2>2, <1>1, <1>3, Frames DEF ReadFails, Remaining, HelperOK
  <2>3. CASE BrokenPipe
    BY <2>3, <1>1, <1>3, Frames DEF BrokenPipe, Remaining, HelperOK
  <2>4. CASE FilesSent
    <3>1. WireOK'
      <4>1. CASE UNCHANGED pipe
        BY <2>4, <4>1, <1>1, Frames DEF FilesSent, wire
      <4>2. CASE Room /\ pipe' = Append(pipe, ZipEnd)
        BY <2>4, <4>2, <1>4, Units DEF FilesSent
      <4> QED BY <2>4, <4>1, <4>2 DEF FilesSent, ZipEnd
    <3>2. HelperOK'
      BY <2>4, <1>1 DEF FilesSent, HelperOK
    <3> QED BY <3>1, <3>2
  <2>5. CASE RemoveStaging \/ Killed
    BY <2>5, <1>1, Frames DEF RemoveStaging, Killed, Steps, HelperOK
  <2>6. CASE Unreadable \/ \E f \in File : SkipFile(f) \/ OpenFails(f)
    BY <2>6, <1>1, Frames DEF SkipFile, Unreadable, OpenFails, HelperOK
  <2>7. CASE \E f \in File : SendHeader(f)
    <3>1. PICK f \in File : SendHeader(f)
      BY <2>7
    <3>2. f \in Entry /\ [file |-> f, left |-> BodyLen] \in [file : Entry, left : 0..BodyLen]
      BY <1>3 DEF Entry
    <3>3. WireOK'
      BY <3>1, <3>2, <1>4, Units DEF SendHeader
    <3> QED BY <3>1, <3>2, <3>3, <1>1 DEF SendHeader, HelperOK
  <2> QED BY <2>1, <2>2, <2>3, <2>4, <2>5, <2>6, <2>7
<1>6. OptOK' /\ StagingOK' /\ HostOK' /\ faults' \in 0..MaxFaults
  BY <1>1, <1>2, Frames, FaultsCounted
<1> QED BY <1>5, <1>6
  DEF TypeOK, OptOK, StagingOK, HelperOK, WireOK, HostOK

\* The session.
LEMMA SessionTyped ==
  ASSUME TypeOK, Cut \/ SessionEnds
  PROVE  TypeOK'
<1>1. OptOK /\ StagingOK /\ HelperOK /\ WireOK /\ HostOK /\ faults \in 0..MaxFaults
  BY TypeParts
<1>2. UNCHANGED <<opt, device, reader>> /\ (NoFault \/ Fault)
  BY DEF Cut, SessionEnds
<1>3. WireOK'
  <2>1. CASE SessionEnds
    BY <2>1, <1>1 DEF SessionEnds, WireOK
  <2>2. CASE Cut
    <3>1. PICK k \in 0..Len(pipe) :
            \/ pipe' = SubSeq(pipe, 1, k)
            \/ k < Len(pipe) /\ pipe' = Append(SubSeq(pipe, 1, k), Torn)
      BY <2>2 DEF Cut
    <3>2. pipe \in Seq(Unit) /\ Len(pipe) \in Nat /\ Len(pipe) <= Window
      BY <1>1 DEF WireOK
    <3>3. SubSeq(pipe, 1, k) \in Seq(Unit) /\ Len(SubSeq(pipe, 1, k)) = k
      BY <3>2
    <3>4. PICK q \in Seq(Unit) : q = SubSeq(pipe, 1, k) /\ Len(q) = k
      BY <3>3
    <3>5. Append(q, Torn) \in Seq(Unit) /\ Len(Append(q, Torn)) = k + 1
      BY <3>4, Units
    <3>6. pipe' \in Seq(Unit) /\ Len(pipe') <= Window
      <4>1. CASE pipe' = q
        BY <3>2, <3>4, <4>1, FrameAssumption
      <4>2. CASE k < Len(pipe) /\ pipe' = Append(q, Torn)
        BY <3>2, <3>5, <4>2, FrameAssumption
      <4> QED BY <3>1, <3>4, <4>1, <4>2
    <3> QED BY <2>2, <3>6, <1>1 DEF Cut, WireOK
  <2> QED BY <2>1, <2>2
<1>4. OptOK' /\ StagingOK' /\ HelperOK' /\ HostOK' /\ faults' \in 0..MaxFaults
  BY <1>1, <1>2, Frames, FaultsCounted
<1> QED BY <1>3, <1>4 DEF TypeOK, OptOK, StagingOK, HelperOK, WireOK, HostOK

\* What is taken from the wire is one of its writes.
LEMMA TakeTyped ==
  ASSUME WireOK, Take
  PROVE  WireOK' /\ Next1 \in Unit
<1>1. pipe \in Seq(Unit) /\ pipe # <<>> /\ Len(pipe) <= Window
  BY DEF WireOK, Take
<1>2. Tail(pipe) \in Seq(Unit) /\ Len(Tail(pipe)) <= Window /\ Head(pipe) \in Unit
  BY <1>1, FrameAssumption
<1> QED BY <1>2 DEF WireOK, Take, Next1

\* What a reader holds after a header and stores after a body is well typed.
LEMMA FrameTyped ==
  ASSUME HostOK, StagingOK
  PROVE  /\ NoFrame \in [file : Entry, left : 0..BodyLen, own : BOOLEAN]
         /\ \A f \in Entry : Begins(f) => cur' \in [file : Entry, left : 0..BodyLen, own : BOOLEAN]
         /\ \A own \in BOOLEAN : Store(own) =>
              /\ cur' = NoFrame
              /\ entries' \in [Entry -> Version \cup {Garbled}]
         /\ Own \in BOOLEAN
<1>1. NoFrame \in [file : Entry, left : 0..BodyLen, own : BOOLEAN]
  BY FrameAssumption DEF NoFrame, Entry
<1>2. ASSUME NEW f \in Entry, Begins(f)
      PROVE  cur' \in [file : Entry, left : 0..BodyLen, own : BOOLEAN]
  <2>1. BodyLen \in 0..BodyLen /\ (f # Stray) \in BOOLEAN
    BY FrameAssumption
  <2> QED BY <1>2, <2>1 DEF Begins
<1>3. cur.own \in BOOLEAN /\ cur.file \in Entry
  BY DEF HostOK
<1>4. ASSUME NEW own \in BOOLEAN, Store(own)
      PROVE  cur' = NoFrame /\ entries' \in [Entry -> Version \cup {Garbled}]
  <2>1. Content(own) \in Version \cup {Garbled}
    BY <1>3 DEF Content, StagingOK
  <2> QED BY <1>4, <2>1 DEF Store, HostOK
<1>5. Own \in BOOLEAN
  BY <1>3 DEF Own
<1> QED BY <1>1, <1>2, <1>4, <1>5

\* ... and in between, after one of several pieces.
LEMMA MoreTyped ==
  ASSUME HostOK, StagingOK, cur.left > 1, More
  PROVE  cur' \in [file : Entry, left : 0..BodyLen, own : BOOLEAN] /\ entries' = entries
<1>1. cur' = [cur EXCEPT !.left = @ - 1, !.own = Own] /\ entries' = entries
  BY DEF More
<1>2. Own \in BOOLEAN
  BY FrameTyped
<1>3. cur \in [file : Entry, left : 0..BodyLen, own : BOOLEAN] /\ cur.left - 1 \in 0..BodyLen
  BY FrameAssumption DEF HostOK
<1> QED BY <1>1, <1>2, <1>3

\* The host.
LEMMA HostTyped ==
  ASSUME TypeOK, Host
  PROVE  TypeOK'
<1>1. OptOK /\ StagingOK /\ HelperOK /\ WireOK /\ HostOK /\ faults \in 0..MaxFaults
  BY TypeParts
<1>2. UNCHANGED <<opt, device>> /\ (NoFault \/ Fault)
  BY DEF Host, ReadHeader, ReadBody, BodyEndsShort, HandlerFails, Drain, RunReturns, CopyBytes,
         CopyFails, CopyReturns, Fill, Verify
<1>3. UNCHANGED wire => WireOK'
  BY <1>1, Frames
<1>4. WireOK' /\ HostOK'
  <2>1. CASE ReadHeader
    <3>1. WireOK' /\ Next1[2] \in Entry /\ Stray \in Entry
      BY <2>1, <1>1, TakeTyped DEF ReadHeader, Unit, Entry
    <3>2. cur' \in [file : Entry, left : 0..BodyLen, own : BOOLEAN]
      BY <2>1, <3>1, <1>1, FrameTyped DEF ReadHeader, HostOK
    <3> QED BY <2>1, <3>1, <3>2, <1>1 DEF ReadHeader, HostOK
  <2>2. CASE ReadBody
    <3>1. WireOK'
      BY <2>2, <1>1, TakeTyped DEF ReadBody
    <3>2. CASE cur.left > 1
      BY <2>2, <3>1, <3>2, <1>1, MoreTyped DEF ReadBody, HostOK
    <3>3. CASE ~(cur.left > 1)
      BY <2>2, <3>1, <3>3, <1>1, FrameTyped DEF ReadBody, HostOK
    <3> QED BY <3>2, <3>3
  <2>3. CASE BodyEndsShort
    BY <2>3, <1>1, <1>3, FrameTyped DEF BodyEndsShort, HostOK
  <2>4. CASE HandlerFails
    BY <2>4, <1>1, <1>3, FrameTyped DEF HandlerFails, HostOK
  <2>5. CASE Drain
    BY <2>5, <1>1, TakeTyped, Frames DEF Drain
  <2>6. CASE RunReturns \/ CopyFails \/ CopyReturns
    BY <2>6, <1>1, <1>3 DEF RunReturns, CopyFails, CopyReturns, HostOK
  <2>7. CASE CopyBytes
    <3>1. WireOK' /\ Next1[2] \in Entry
      BY <2>7, <1>1, TakeTyped DEF CopyBytes, Unit
    <3>2. CASE Next1[1] = "head" /\ Begins(Next1[2]) /\ UNCHANGED entries
      BY <2>7, <3>1, <3>2, <1>1, FrameTyped DEF CopyBytes, HostOK
    <3>3. CASE Next1[1] = "data" /\ cur.left > 1 /\ More
      BY <2>7, <3>1, <3>3, <1>1, MoreTyped DEF CopyBytes, HostOK
    <3>4. CASE Next1[1] = "data" /\ Store(Own)
      BY <2>7, <3>1, <3>4, <1>1, FrameTyped DEF CopyBytes, HostOK
    <3>5. CASE UNCHANGED <<cur, entries>>
      BY <2>7, <3>1, <3>5, <1>1 DEF CopyBytes, HostOK
    <3> QED BY <2>7, <3>2, <3>3, <3>4, <3>5 DEF CopyBytes
  <2>8. CASE Fill
    <3>1. \A e \in Entry : Source[e] \in Version /\ entries[e] \in Version \cup {Garbled}
      BY <1>1, SourceTyped DEF HostOK
    <3>2. entries' \in [Entry -> Version \cup {Garbled}]
      BY <2>8, <3>1, <1>1 DEF Fill, HostOK
    <3> QED BY <2>8, <3>2, <1>1, <1>3 DEF Fill, HostOK
  <2>9. CASE Verify
    BY <2>9, <1>1, <1>3 DEF Verify, HostOK
  <2> QED BY <2>1, <2>2, <2>3, <2>4, <2>5, <2>6, <2>7, <2>8, <2>9 DEF Host
<1>5. OptOK' /\ StagingOK' /\ HelperOK' /\ faults' \in 0..MaxFaults
  BY <1>1, <1>2, Frames, FaultsCounted
<1> QED BY <1>4, <1>5 DEF TypeOK, OptOK, StagingOK, HelperOK, WireOK, HostOK

\* Every step of the helper, the session and the host keeps the types.
LEMMA StepTyped ==
  ASSUME TypeOK, [Next]_vars
  PROVE  TypeOK'
<1>1. CASE UNCHANGED vars
  <2>1. UNCHANGED <<opt, device, wire, reader, faults>>
    BY <1>1 DEF vars
  <2>2. OptOK /\ StagingOK /\ HelperOK /\ WireOK /\ HostOK /\ faults \in 0..MaxFaults
    BY TypeParts
  <2>3. OptOK' /\ StagingOK' /\ HelperOK' /\ WireOK' /\ HostOK' /\ faults' \in 0..MaxFaults
    BY <2>1, <2>2, Frames
  <2> QED BY <2>3 DEF TypeOK, OptOK, StagingOK, HelperOK, WireOK, HostOK
<1> QED BY <1>1, BundleTyped, SenderTyped, SessionTyped, HostTyped DEF Next, Helper

\* The variables of FrameStream keep their types, for any files, frame length and window,
\* and any number of failures.
THEOREM TypeCorrect == Spec => []TypeOK
BY InitTyped, StepTyped, PTL DEF Spec

-----------------------------------------------------------------------------
(* The dumps.                                                               *)

\* Where the helper is tells which files no dump has been made of yet: the loops over
\* images and app extensions take each file once, and only the main executable twice.
Untouched(f) == version[f] = Source[f] /\ installed[f] = Source[f]

Pending ==
  /\ helper \in {"stage", "spawn", "first"} => version = Source /\ installed = Source
  /\ helper = "settle" => \A f \in Framework \cup Appex : Untouched(f)
  /\ helper = "images" => /\ todo \subseteq Framework \cap Encrypted
                          /\ \A f \in todo \cup Appex : Untouched(f)
  /\ helper = "appexes" => todo \subseteq AppexTodo /\ \A f \in todo : Untouched(f)

SourceNotPlain == \A e \in Entry : Source[e] # "plain"

\* What is in the App Store's IPA is never what a dump leaves.
LEMMA SourcePlain == SourceNotPlain
BY DEF SourceNotPlain, Source

\* The steps that dump, and what they do to the files they do not dump.
Dumping ==
  \/ FirstDump \/ Settle
  \/ \E f \in File : DumpImage(f) \/ DumpAppex(f)

\* The options of a run stay what they were.
LEMMA StepKeepsOpt ==
  ASSUME [Next]_vars
  PROVE  UNCHANGED opt /\ AppexTodo' = AppexTodo
<1>1. UNCHANGED opt
  BY DEF Next, Helper, Host, vars, CopyTree, Spawn, FirstDump, NoMainImage, Settle, BundleDone,
     AppexesDone, DumpImage, DumpAppex, Unreadable, SendBody, ReadFails, BrokenPipe, FilesSent,
     RemoveStaging, Killed, Cut, SessionEnds, SkipFile, OpenFails, SendHeader, ReadHeader,
     ReadBody, BodyEndsShort, HandlerFails, Drain, RunReturns, CopyBytes, CopyFails, CopyReturns,
     Fill, Verify
<1> QED BY <1>1 DEF AppexTodo

\* Every step counts at most one failure.
LEMMA StepCounts ==
  ASSUME [Next]_vars
  PROVE  NoFault \/ Fault
BY DEF Next, Helper, Host, vars, CopyTree, Spawn, FirstDump, NoMainImage, Settle, BundleDone,
   AppexesDone, DumpImage, DumpAppex, Unreadable, SendBody, ReadFails, BrokenPipe, FilesSent,
   RemoveStaging, Killed, Cut, SessionEnds, SkipFile, OpenFails, SendHeader, ReadHeader,
   ReadBody, BodyEndsShort, HandlerFails, Drain, RunReturns, CopyBytes, CopyFails, CopyReturns,
   Fill, Verify,
   NoFault, DumpMain, Dump

\* Only the dumping stretches of the helper change what the files hold.
LEMMA OthersKeepStaging ==
  ASSUME [Next]_vars, ~Dumping
  PROVE  UNCHANGED staging
BY DEF Next, Helper, Host, Dumping, vars, device, CopyTree, Spawn, NoMainImage, BundleDone,
       AppexesDone, SendBody, ReadFails, BrokenPipe, FilesSent, RemoveStaging, Killed, Cut,
       SessionEnds, SkipFile, Unreadable, OpenFails, SendHeader, ReadHeader, ReadBody,
       BodyEndsShort, HandlerFails, Drain, RunReturns, CopyBytes, CopyFails, CopyReturns, Fill,
       Verify

\* A loop's remaining files stay undumped until the loop gets to them.
LEMMA PendingStep ==
  ASSUME TypeOK, Pending, [Next]_vars
  PROVE  Pending'
<1>1. StagingOK /\ HelperOK
  BY TypeParts
<1>2. /\ Main \in File /\ Main \notin Framework \cup Appex /\ Framework \cap Appex = {}
      /\ File \subseteq Entry /\ Framework \subseteq File /\ Appex \subseteq File
  BY FrameAssumption DEF File, Entry
<1>8. AppexTodo' = AppexTodo /\ AppexTodo \subseteq Appex
  BY StepKeepsOpt, AppexTodoIsFile
<1>9. Main \in Entry /\ (UNCHANGED staging \/ Dump(Main)
        => \A f \in Entry : f # Main /\ Untouched(f) => Untouched(f)')
  BY <1>1, <1>2, DumpIsLocal DEF staging, Untouched, Source
<1>3. CASE FirstDump
  <2>1. \A f \in Framework \cup Appex : Untouched(f)'
    BY <1>2, <1>3, <1>9 DEF FirstDump, DumpMain, AfterFirst, Steps, Pending, Untouched
  <2>2. helper' = "settle" \/ (helper' = "appexes" /\ todo' = AppexTodo)
    BY <1>3 DEF FirstDump, AfterFirst, Steps
  <2> QED BY <1>8, <2>1, <2>2 DEF Pending
<1>4. CASE Settle
  <2>1. helper = "settle" /\ helper' = "images" /\ todo' = Framework \cap Encrypted
    BY <1>4 DEF Settle, Steps
  <2>2. \A f \in Framework \cup Appex : Untouched(f)'
    BY <1>2, <1>4, <1>9, <2>1 DEF Settle, DumpMain, Pending
  <2> QED BY <2>1, <2>2 DEF Pending
<1>5. ASSUME NEW f \in File, DumpImage(f)
      PROVE  Pending'
  <2>1. helper = "images" /\ helper' = "images" /\ f \in todo /\ todo' = todo \ {f} /\ Dump(f)
    BY <1>5 DEF DumpImage
  <2>2. todo \subseteq Framework \cap Encrypted /\ \A g \in todo \cup Appex : Untouched(g)
    BY <2>1 DEF Pending
  <2>3. \A g \in todo' \cup Appex : g \in Entry /\ g # f
    BY <1>2, <2>1, <2>2
  <2>4. \A g \in todo' \cup Appex : Untouched(g)'
    BY <1>1, <2>1, <2>2, <2>3, DumpIsLocal DEF Untouched, Source
  <2> QED BY <2>1, <2>2, <2>4 DEF Pending
<1>6. ASSUME NEW f \in File, DumpAppex(f)
      PROVE  Pending'
  <2>1. helper = "appexes" /\ helper' = "appexes" /\ f \in todo /\ todo' = todo \ {f} /\ Dump(f)
    BY <1>6 DEF DumpAppex
  <2>2. todo \subseteq AppexTodo /\ \A g \in todo : Untouched(g)
    BY <2>1 DEF Pending
  <2>3. \A g \in todo' : Untouched(g)'
    BY <1>1, <1>2, <1>8, <2>1, <2>2, DumpIsLocal DEF Untouched, Source
  <2> QED BY <1>8, <2>1, <2>2, <2>3 DEF Pending
<1>7. CASE ~Dumping
  <2>1. UNCHANGED <<version, installed>> /\ \A f \in File : Untouched(f)' <=> Untouched(f)
    BY <1>7, OthersKeepStaging DEF staging, Untouched, Source
  <2>2. CASE CopyTree \/ Spawn
    BY <2>1, <2>2, <1>2, <1>8
       DEF CopyTree, Spawn, Steps, Pending, Untouched
  <2>3. CASE NoMainImage
    BY <2>1, <2>3, <1>2, <1>8
       DEF NoMainImage, Steps, Pending, Untouched
  <2>4. CASE BundleDone \/ AppexesDone
    BY <2>1, <2>4, <1>2, <1>8 DEF BundleDone, AppexesDone, Steps, Pending
  <2>5. CASE \/ SendBody \/ ReadFails \/ BrokenPipe \/ FilesSent \/ RemoveStaging \/ Killed \/ Unreadable
             \/ \E f \in File : SkipFile(f) \/ OpenFails(f) \/ SendHeader(f)
    <3>1. helper' \in {"send", "remove", "exited"}
      BY <2>5 DEF SendBody, ReadFails, BrokenPipe, FilesSent, RemoveStaging, Killed, SkipFile,
                  Unreadable, OpenFails, SendHeader, Between, Steps
    <3> QED BY <3>1 DEF Pending
  <2>6. CASE Cut \/ SessionEnds \/ Host \/ UNCHANGED vars
    <3>1. helper' = helper /\ todo' = todo
      BY <2>6 DEF Cut, SessionEnds, Host, vars, device, ReadHeader, ReadBody, BodyEndsShort,
                  HandlerFails, Drain, RunReturns, CopyBytes, CopyFails, CopyReturns, Fill, Verify
    <3> QED BY <3>1, <2>1, <1>2, <1>8 DEF Pending
  <2> QED BY <1>7, <2>2, <2>3, <2>4, <2>5, <2>6 DEF Next, Helper, Dumping
<1> QED BY <1>3, <1>4, <1>5, <1>6, <1>7 DEF Dumping

\* Dumps, and the second attempt at the main executable, only touch what is not decrypted.
LEMMA StepKeepsPlain ==
  ASSUME TypeOK, Pending, [Next]_vars
  PROVE  \A f \in File : version[f] = "plain" => version'[f] = "plain"
<1>1. StagingOK /\ Main \in File /\ File \subseteq Entry
  BY TypeParts DEF File, Entry
<1>2. CASE FirstDump \/ Settle
  BY <1>1, <1>2, DumpIsLocal DEF FirstDump, Settle, DumpMain, MainDumped, staging
<1>3. ASSUME NEW f \in File, DumpImage(f) \/ DumpAppex(f)
      PROVE  \A g \in File : version[g] = "plain" => version'[g] = "plain"
  <2>1. Dump(f) /\ version[f] # "plain"
    BY <1>1, <1>3, SourcePlain DEF DumpImage, DumpAppex, Pending, Untouched, SourceNotPlain
  <2> QED BY <1>1, <2>1, DumpIsLocal
<1>4. CASE ~Dumping
  BY <1>4, OthersKeepStaging DEF staging
<1> QED BY <1>2, <1>3, <1>4 DEF Dumping

\* A file that has been decrypted stays decrypted, whatever fails afterwards.
THEOREM DecryptedStays == Spec => PlainStays
<1>1. Init => Pending
  BY DEF Init, Pending
<1>2. TypeOK /\ Pending /\ [Next]_vars => Pending'
  BY PendingStep
<1>3. TypeOK /\ Pending /\ [Next]_vars
        => [\A f \in File : version[f] = "plain" => version'[f] = "plain"]_vars
  BY StepKeepsPlain
<1> QED BY <1>1, <1>2, <1>3, TypeCorrect, PTL DEF Spec, PlainStays

-----------------------------------------------------------------------------
(* The IPA is what the device held.  The heart of it: as long as nothing    *)
(* has failed, the writes on the wire lead from where the host's reader is  *)
(* to where the helper is, so that the reader never mistakes one for the    *)
(* other, and whoever reports success has seen the end of the last frame.   *)

Early == {"stage", "spawn", "first", "settle", "images", "appexes"}

\* What is left of the frame that u belongs to, and which write may come next then.
Rest(u) == IF u[1] = "end" \/ u[3] = BodyLen THEN Idle
           ELSE [file |-> u[2], left |-> BodyLen - u[3]]

Allowed(r, u) == IF r.left = 0 THEN u = ZipEnd \/ \E f \in File : u = Header(f)
                 ELSE u = Piece(r.file, BodyLen - r.left + 1)

Chain(r, p, s) ==
  /\ p = <<>> => r = s
  /\ p # <<>> => Allowed(r, p[1]) /\ s = Rest(p[Len(p)])
  /\ \A i \in 1..(Len(p) - 1) : Allowed(Rest(p[i]), p[i + 1])

\* A write that the sender's place allows lengthens the chain.
LEMMA ChainAppend ==
  ASSUME NEW p \in Seq(Unit), NEW u \in Unit, NEW r, NEW s, Chain(r, p, s), Allowed(s, u)
  PROVE  Chain(r, Append(p, u), Rest(u))
<1>0. Append(p, u) \in Seq(Unit)
  OBVIOUS
<1>1. PICK q \in Seq(Unit) : q = Append(p, u)
  BY <1>0
<1>2. /\ q # <<>> /\ Len(q) = Len(p) + 1 /\ Len(p) \in Nat /\ q[Len(q)] = u
      /\ \A i \in 1..Len(p) : q[i] = p[i]
  BY <1>1
<1>3. Allowed(r, q[1])
  <2>1. CASE p = <<>>
    BY <2>1, <1>2 DEF Chain
  <2>2. CASE p # <<>>
    <3>1. Len(p) >= 1
      BY <2>2
    <3> QED BY <2>2, <3>1, <1>2 DEF Chain
  <2> QED BY <2>1, <2>2
<1>4. ASSUME NEW i \in 1..(Len(q) - 1)
      PROVE  Allowed(Rest(q[i]), q[i + 1])
  <2>1. CASE i = Len(p)
    <3>1. p # <<>> /\ q[i] = p[Len(p)] /\ q[i + 1] = u
      BY <2>1, <1>2
    <3>2. s = Rest(p[Len(p)])
      BY <3>1 DEF Chain
    <3> QED BY <3>1, <3>2
  <2>2. CASE i # Len(p)
    <3>1. i \in 1..(Len(p) - 1) /\ q[i] = p[i] /\ q[i + 1] = p[i + 1]
      BY <2>2, <1>2
    <3> QED BY <3>1 DEF Chain
  <2> QED BY <2>1, <2>2
<1>5. Rest(u) = Rest(q[Len(q)])
  BY <1>2
<1> QED BY <1>1, <1>2, <1>3, <1>4, <1>5 DEF Chain

\* What is read first is allowed at the reader's place, and a chain is left.
LEMMA ChainTail ==
  ASSUME NEW p \in Seq(Unit), NEW r, NEW s, Chain(r, p, s), p # <<>>
  PROVE  Allowed(r, Head(p)) /\ Chain(Rest(Head(p)), Tail(p), s)
<1>0. Tail(p) \in Seq(Unit)
  OBVIOUS
<1>1. PICK q \in Seq(Unit) : q = Tail(p)
  BY <1>0
<1>2. /\ Len(p) \in Nat /\ Len(p) >= 1 /\ Head(p) = p[1] /\ Len(q) = Len(p) - 1
      /\ \A i \in 1..Len(q) : q[i] = p[i + 1]
  BY <1>1
<1>3. Allowed(r, Head(p))
  BY <1>2 DEF Chain
<1>4. CASE q = <<>>
  <2>1. Len(p) = 1
    BY <1>2, <1>4
  <2> QED BY <2>1, <1>1, <1>2, <1>3, <1>4 DEF Chain
<1>5. CASE q # <<>>
  <2>1. Len(q) >= 1 /\ q[1] = p[2] /\ q[Len(q)] = p[Len(p)]
    BY <1>2, <1>5
  <2>2. Allowed(Rest(p[1]), q[1]) /\ s = Rest(q[Len(q)])
    <3>1. 1 \in 1..(Len(p) - 1) /\ p[1 + 1] = p[2]
      BY <2>1, <1>2
    <3> QED BY <3>1, <2>1, <1>2 DEF Chain
  <2>3. \A i \in 1..(Len(q) - 1) : Allowed(Rest(q[i]), q[i + 1])
    <3>1. ASSUME NEW i \in 1..(Len(q) - 1)
          PROVE  Allowed(Rest(q[i]), q[i + 1])
      <4>1. i + 1 \in 1..(Len(p) - 1) /\ q[i] = p[i + 1] /\ q[i + 1] = p[(i + 1) + 1]
        BY <1>2
      <4> QED BY <4>1 DEF Chain
    <3> QED BY <3>1
  <2> QED BY <2>2, <2>3, <1>1, <1>2, <1>3, <1>5 DEF Chain
<1> QED BY <1>4, <1>5

\* What each kind of write leaves.
LEMMA RestOf ==
  /\ \A f \in File : Rest(Header(f)) = [file |-> f, left |-> BodyLen]
  /\ Rest(ZipEnd) = Idle
  /\ \A f \in Entry : \A k \in 1..BodyLen :
       Rest(Piece(f, BodyLen - k + 1)) = IF k = 1 THEN Idle ELSE [file |-> f, left |-> k - 1]
<1>1. BodyLen \in Nat \ {0}
  BY FrameAssumption
<1>2. \A f \in File : Rest(Header(f)) = [file |-> f, left |-> BodyLen]
  BY <1>1 DEF Rest, Header
<1>3. Rest(ZipEnd) = Idle
  BY DEF Rest, ZipEnd
<1>4. ASSUME NEW f \in Entry, NEW k \in 1..BodyLen
      PROVE  Rest(Piece(f, BodyLen - k + 1)) = IF k = 1 THEN Idle ELSE [file |-> f, left |-> k - 1]
  <2>1. (BodyLen - k + 1 = BodyLen) <=> (k = 1)
    BY <1>1
  <2>2. BodyLen - (BodyLen - k + 1) = k - 1
    BY <1>1
  <2> QED BY <2>1, <2>2 DEF Rest, Piece
<1> QED BY <1>2, <1>3, <1>4

\* The helper: nothing has been written before the walk, every frame is over before the
\* staging directory is removed, and the exit status tells of rc.
SenderOK ==
  /\ helper \in Early => pipe = <<>> /\ sending = Idle /\ cur = NoFrame
                         /\ \A e \in Entry : entries[e] = "none"
  /\ sending.left = 0 => sending = Idle
  /\ (helper = "remove" \/ exit \in {"zero", "nonzero"}) => sending = Idle
  /\ exit = "zero" => rc = 0
  /\ exit = "nonzero" => rc = 1
  /\ helper = "exited" <=> exit # "none"

\* The host: it knows where in a frame it is, and drains only after an error.
ReaderOK ==
  /\ host = "body" => cur.left > 0
  /\ cur.left = 0 => cur = NoFrame
  /\ host = "frame" => cur = NoFrame
  /\ host = "drain" => parseErr

\* Nothing the host will hear of has gone wrong on the other side.
Unbroken == rc = 0 /\ ~cut /\ exit # "killed"

\* Success is reported only of a helper that has succeeded and been read to its end.
EndOK ==
  /\ outcome # "none" => cut \/ helper = "exited"
  /\ outcome = "zero" => exit = "zero" /\ ~cut /\ pipe = <<>> /\ host # "stopped"
  /\ outcome \in {"nonzero", "error"} => ~Unbroken \/ host \in {"stopped", "failed"}
  /\ host \in {"fill", "complete", "verified"} => outcome = "zero"

\* While the host reads, the wire leads from its place to the helper's, and the entries
\* it has stored are the staged files.
Reading  == host \in {"frame", "body", "copy"}
Position == [file |-> cur.file, left |-> cur.left]
Kept     == \A e \in Entry : entries[e] \in {"none", version[e]}

StreamOK ==
  /\ Unbroken /\ Reading => cur.own /\ Chain(Position, pipe, sending) /\ Kept
  /\ host = "fill" => Kept

StreamInv == SenderOK /\ ReaderOK /\ EndOK /\ StreamOK

\* Before anything is sent the wire is an empty chain.
LEMMA StreamInit == Init => StreamInv
<1> SUFFICES ASSUME Init PROVE StreamInv
  OBVIOUS
<1>1. /\ pipe = <<>> /\ sending = Idle /\ cur = NoFrame /\ helper = "stage" /\ exit = "none"
      /\ outcome = "none" /\ host \in {"frame", "copy"} /\ \A e \in Entry : entries[e] = "none"
  BY DEF Init
<1>2. SenderOK
  BY <1>1 DEF SenderOK
<1>3. ReaderOK /\ EndOK
  BY <1>1 DEF ReaderOK, EndOK, NoFrame
<1>4. Kept
  BY <1>1 DEF Kept
<1>5. Chain(Position, <<>>, Idle) /\ cur.own
  BY <1>1 DEF Chain, Position, NoFrame, Idle
<1> QED BY <1>1, <1>2, <1>3, <1>4, <1>5 DEF StreamInv, StreamOK

\* The dumps: nothing is on the wire yet.
LEMMA BundleStream ==
  ASSUME TypeOK, StreamInv,
         \/ CopyTree \/ Spawn \/ FirstDump \/ NoMainImage \/ Settle \/ BundleDone \/ AppexesDone
         \/ \E f \in File : DumpImage(f) \/ DumpAppex(f)
  PROVE  StreamInv'
<1>1. /\ helper \in Early /\ helper' \in Early \cup {"send", "remove"}
      /\ UNCHANGED <<sending, exit, pipe, cut, outcome, host, cur, entries, parseErr>>
  BY DEF CopyTree, Spawn, FirstDump, NoMainImage, Settle, BundleDone, AppexesDone, DumpImage,
         DumpAppex, Steps, AfterFirst, Early, wire, reader
<1>2. /\ pipe = <<>> /\ sending = Idle /\ cur = NoFrame /\ exit = "none"
      /\ \A e \in Entry : entries[e] = "none"
  BY <1>1 DEF StreamInv, SenderOK, Early
<1>3. /\ outcome # "zero" /\ host \notin {"fill", "complete", "verified"}
      /\ outcome # "none" => cut
  BY <1>1, <1>2 DEF StreamInv, EndOK, Early
<1>4. SenderOK'
  BY <1>1, <1>2 DEF SenderOK, Early
<1>5. ReaderOK'
  BY <1>1 DEF StreamInv, ReaderOK
<1>6. EndOK'
  BY <1>1, <1>3 DEF EndOK, Unbroken
<1>7. StreamOK'
  <2>1. Kept'
    BY <1>1, <1>2 DEF Kept
  <2>2. cur.own /\ Chain(Position, pipe, sending)
    BY <1>2 DEF Chain, Position, NoFrame, Idle
  <2>3. (cur.own /\ Chain(Position, pipe, sending))'
    BY <1>1, <2>2 DEF Position
  <2> QED BY <2>1, <2>3 DEF StreamOK
<1> QED BY <1>4, <1>5, <1>6, <1>7 DEF StreamInv

\* What does not touch the wire, the reader, the walk or the staging copy, and repairs nothing.
LEMMA StreamFrame ==
  ASSUME StreamInv, UNCHANGED <<version, pipe, cut, outcome, host, cur, entries, parseErr>>,
         Unbroken' => Unbroken /\ sending' = sending,
         SenderOK', EndOK'
  PROVE  StreamInv'
<1>1. ReaderOK'
  BY DEF StreamInv, ReaderOK
<1>2. Kept' <=> Kept
  BY DEF Kept
<1>3. Unbroken' => (Chain(Position, pipe, sending)' <=> Chain(Position, pipe, sending))
  BY DEF Position
<1>4. Reading' <=> Reading
  BY DEF Reading
<1>5. StreamOK'
  BY <1>2, <1>3, <1>4 DEF StreamInv, StreamOK
<1> QED BY <1>1, <1>5 DEF StreamInv

\* One more write on the wire.
LEMMA SendStream ==
  ASSUME TypeOK, StreamInv, Room, helper = "send", NEW u \in Unit,
         pipe' = Append(pipe, u), Allowed(sending, u), sending' = Rest(u),
         UNCHANGED <<version, rc, exit, cut, outcome, host, cur, entries, parseErr>>,
         SenderOK'
  PROVE  StreamInv'
<1>1. exit = "none" /\ outcome = "none"
  BY DEF StreamInv, SenderOK, EndOK, Room
<1>2. ReaderOK'
  BY DEF StreamInv, ReaderOK
<1>3. EndOK'
  BY <1>1 DEF StreamInv, EndOK
<1>4. Kept' <=> Kept
  BY DEF Kept
<1>5. Chain(Position, pipe, sending) => Chain(Position, pipe, sending)'
  <2>1. pipe \in Seq(Unit)
    BY TypeParts DEF WireOK
  <2>2. Chain(Position, pipe, sending) => Chain(Position, Append(pipe, u), Rest(u))
    BY <2>1, ChainAppend
  <2> QED BY <2>2 DEF Position
<1>6. Reading' <=> Reading
  BY DEF Reading
<1>7. Unbroken' <=> Unbroken
  BY DEF Unbroken
<1>8. StreamOK'
  BY <1>4, <1>5, <1>6, <1>7 DEF StreamInv, StreamOK
<1> QED BY <1>2, <1>3, <1>8 DEF StreamInv

\* The sender's steps: each write is allowed where the frame before it ends, and a failure
\* that would break the chain leaves rc or the exit status to tell of it.
LEMMA SenderStream ==
  ASSUME TypeOK, StreamInv,
         \/ SendBody \/ ReadFails \/ BrokenPipe \/ FilesSent \/ RemoveStaging \/ Killed \/ Unreadable
         \/ \E f \in File : SkipFile(f) \/ OpenFails(f) \/ SendHeader(f)
  PROVE  StreamInv'
<1>1. SenderOK /\ EndOK /\ HelperOK /\ BodyLen \in Nat \ {0}
  BY TypeParts, FrameAssumption DEF StreamInv
<1>2. UNCHANGED <<version, host, cur, entries, parseErr>>
  BY DEF SendBody, ReadFails, BrokenPipe, FilesSent, RemoveStaging, Killed, SkipFile,
         Unreadable, OpenFails, SendHeader, staging, reader
<1>3. ASSUME helper = "send", helper' \in {"send", "remove"}, UNCHANGED <<pipe, cut, outcome, exit>>,
             sending' = Idle \/ (helper' = "send" /\ sending' = sending),
             rc' = 1 \/ (rc' = rc /\ sending' = sending)
      PROVE  StreamInv'
  <2>1. exit = "none" /\ outcome # "zero" /\ host \notin {"fill", "complete", "verified"}
        /\ (outcome # "none" => cut)
    BY <1>1, <1>3 DEF SenderOK, EndOK
  <2>2. SenderOK'
    BY <1>1, <1>3, <2>1 DEF SenderOK, Early
  <2>3. EndOK'
    BY <1>2, <1>3, <2>1 DEF EndOK, Unbroken
  <2>4. Unbroken' => Unbroken /\ sending' = sending
    BY <1>3 DEF Unbroken
  <2> QED BY <1>2, <1>3, <2>2, <2>3, <2>4, StreamFrame
<1>4. CASE SendBody
  <2>1. /\ helper = "send" /\ helper' = "send" /\ Room /\ sending.left \in 1..BodyLen
        /\ sending.file \in Entry
    BY <1>4, <1>1 DEF SendBody, HelperOK
  <2>2. PICK u \in Unit : u = Piece(sending.file, BodyLen - sending.left + 1)
    <3>1. BodyLen - sending.left + 1 \in 0..BodyLen
      BY <1>1, <2>1
    <3> QED BY <2>1, <3>1, Units
  <2>3. Rest(u) = IF sending.left = 1 THEN Idle
                  ELSE [file |-> sending.file, left |-> sending.left - 1]
    BY <2>1, <2>2, RestOf
  <2>4. sending' = Rest(u)
    <3>1. CASE sending.left = 1
      BY <3>1, <2>3, <1>4 DEF SendBody
    <3>2. CASE sending.left # 1
      <4>1. sending' = [sending EXCEPT !.left = @ - 1]
        BY <3>2, <1>4 DEF SendBody
      <4>2. sending \in [file : Entry, left : 0..BodyLen]
        BY <1>1 DEF HelperOK
      <4> QED BY <4>1, <4>2, <3>2, <2>3
    <3> QED BY <3>1, <3>2
  <2>5. Allowed(sending, u)
    BY <1>1, <2>1, <2>2 DEF Allowed
  <2>6. pipe' = Append(pipe, u) /\ UNCHANGED <<rc, exit, cut, outcome>>
    BY <1>4, <2>2 DEF SendBody
  <2>7. SenderOK'
    <3>1. sending'.left = 0 => sending' = Idle
      BY <1>1, <2>1, <2>3, <2>4
    <3>2. exit = "none"
      BY <1>1, <2>1 DEF SenderOK
    <3> QED BY <3>1, <3>2, <2>1, <2>6 DEF SenderOK, Early
  <2> QED BY <1>2, <2>1, <2>4, <2>5, <2>6, <2>7, SendStream
<1>5. CASE \E f \in File : SendHeader(f)
  <2>1. PICK f \in File : SendHeader(f)
    BY <1>5
  <2>2. helper = "send" /\ helper' = "send" /\ Room /\ sending.left = 0 /\ f \in Entry
    BY <2>1 DEF SendHeader, Between, Entry
  <2>3. PICK u \in Unit : u = Header(f)
    BY <2>2, Units
  <2>4. sending' = Rest(u) /\ sending'.left # 0
    BY <1>1, <2>1, <2>3, RestOf DEF SendHeader
  <2>5. Allowed(sending, u)
    BY <2>2, <2>3 DEF Allowed
  <2>6. pipe' = Append(pipe, u) /\ UNCHANGED <<rc, exit, cut, outcome>>
    BY <2>1, <2>3 DEF SendHeader
  <2>7. SenderOK'
    <3>1. exit = "none"
      BY <1>1, <2>2 DEF SenderOK
    <3> QED BY <3>1, <2>2, <2>4, <2>6 DEF SenderOK, Early
  <2> QED BY <1>2, <2>2, <2>4, <2>5, <2>6, <2>7, SendStream
<1>6. CASE FilesSent
  <2>1. /\ helper = "send" /\ helper' = "remove" /\ sending.left = 0 /\ sending = Idle
        /\ UNCHANGED <<sending, exit, cut, outcome>>
    BY <1>6, <1>1 DEF FilesSent, Between, SenderOK
  <2>2. CASE UNCHANGED pipe
    BY <1>6, <2>1, <2>2, <1>3 DEF FilesSent
  <2>3. CASE Room /\ pipe' = Append(pipe, ZipEnd) /\ UNCHANGED rc
    <3>1. PICK u \in Unit : u = ZipEnd
      BY Units
    <3>2. sending' = Rest(u) /\ Allowed(sending, u)
      BY <2>1, <3>1, RestOf DEF Allowed
    <3>3. exit = "none"
      BY <1>1, <2>1 DEF SenderOK
    <3>4. SenderOK'
      BY <2>1, <3>3 DEF SenderOK, Early
    <3> QED BY <1>2, <2>1, <2>3, <3>1, <3>2, <3>4, SendStream
  <2> QED BY <1>6, <2>2, <2>3 DEF FilesSent
<1>7. CASE ReadFails \/ BrokenPipe
  BY <1>7, <1>3 DEF ReadFails, BrokenPipe, wire
<1>8. CASE Unreadable \/ \E f \in File : SkipFile(f) \/ OpenFails(f)
  BY <1>8, <1>3 DEF SkipFile, Unreadable, OpenFails, Between, wire
<1>9. CASE RemoveStaging \/ Killed
  <2>1. /\ helper # "exited" /\ helper' = "exited" /\ UNCHANGED <<sending, rc, pipe, cut, outcome>>
    BY <1>9 DEF RemoveStaging, Killed, Steps, wire
  <2>2. exit = "none" /\ outcome # "zero" /\ host \notin {"fill", "complete", "verified"}
        /\ (outcome # "none" => cut)
    BY <1>1, <2>1 DEF SenderOK, EndOK
  <2>3. exit' = "killed" \/ (helper = "remove" /\ exit' = IF rc = 0 THEN "zero" ELSE "nonzero")
    BY <1>9 DEF RemoveStaging, Killed, Steps
  <2>4. SenderOK'
    BY <1>1, <2>1, <2>3 DEF SenderOK, Early, HelperOK
  <2>5. EndOK'
    BY <1>2, <2>1, <2>2 DEF EndOK, Unbroken
  <2>6. Unbroken' => Unbroken /\ sending' = sending
    BY <2>1, <2>2 DEF Unbroken
  <2> QED BY <1>2, <2>1, <2>4, <2>5, <2>6, StreamFrame
<1> QED BY <1>4, <1>5, <1>6, <1>7, <1>8, <1>9

\* A connection that is cut, or ends before the helper has finished, never reports success.
LEMMA SessionStream ==
  ASSUME TypeOK, StreamInv, Cut \/ SessionEnds
  PROVE  StreamInv'
<1>1. /\ UNCHANGED <<version, helper, sending, rc, exit, host, cur, entries, parseErr>>
      /\ outcome = "none"
  BY DEF Cut, SessionEnds, device, staging, reader
<1>2. SenderOK /\ ReaderOK /\ EndOK /\ HelperOK /\ WireOK
  BY TypeParts DEF StreamInv
<1>3. host \notin {"fill", "complete", "verified"}
  BY <1>1, <1>2 DEF EndOK
<1>4. ReaderOK'
  BY <1>1, <1>2 DEF ReaderOK
<1>5. CASE Cut
  <2>1. cut' /\ outcome' = "none"
    BY <1>5 DEF Cut
  <2>2. pipe = <<>> => pipe' = <<>>
    <3>1. SUFFICES ASSUME pipe = <<>> PROVE pipe' = <<>>
      OBVIOUS
    <3>2. PICK k \in 0..Len(pipe) : pipe' = SubSeq(pipe, 1, k) \/ k < Len(pipe)
      BY <1>5 DEF Cut
    <3>3. Len(pipe) = 0 /\ k = 0
      BY <3>1, <3>2
    <3> QED BY <3>1, <3>2, <3>3
  <2>3. SenderOK'
    BY <1>1, <1>2, <2>2 DEF SenderOK
  <2>4. EndOK' /\ StreamOK'
    BY <1>1, <1>3, <2>1 DEF EndOK, StreamOK, Unbroken
  <2> QED BY <1>4, <2>3, <2>4 DEF StreamInv
<1>6. CASE SessionEnds
  <2>1. /\ UNCHANGED <<pipe, cut>>
        /\ cut \/ helper = "exited"
        /\ pipe = <<>> \/ host = "stopped"
        /\ outcome' = IF cut \/ host = "stopped" THEN "error"
                      ELSE IF exit = "zero" THEN "zero" ELSE "nonzero"
    BY <1>6 DEF SessionEnds
  <2>2. SenderOK'
    BY <1>1, <1>2, <2>1 DEF SenderOK
  <2>3. EndOK'
    BY <1>1, <1>2, <1>3, <1>6 DEF SessionEnds, EndOK, SenderOK, HelperOK, Unbroken
  <2>4. Unbroken' <=> Unbroken
    BY <1>1, <2>1 DEF Unbroken
  <2>5. Kept' <=> Kept
    BY <1>1 DEF Kept
  <2>6. Chain(Position, pipe, sending)' <=> Chain(Position, pipe, sending)
    BY <1>1, <2>1 DEF Position
  <2>7. StreamOK'
    BY <1>1, <2>4, <2>5, <2>6 DEF StreamInv, StreamOK, Reading
  <2> QED BY <1>4, <2>2, <2>3, <2>7 DEF StreamInv
<1> QED BY <1>5, <1>6

\* What the reader takes is what comes next in the frame it is in.
LEMMA TakeStream ==
  ASSUME TypeOK, StreamInv, Unbroken, Reading, Take
  PROVE  /\ Next1 \in Unit /\ cur.own /\ Kept
         /\ Allowed(Position, Next1)
         /\ Chain(Rest(Next1), pipe', sending)
<1>1. WireOK /\ pipe \in Seq(Unit)
  BY TypeParts DEF WireOK
<1>2. cur.own /\ Kept /\ Chain(Position, pipe, sending)
  BY DEF StreamInv, StreamOK
<1>3. pipe # <<>> /\ pipe' = Tail(pipe)
  BY DEF Take
<1>4. Next1 \in Unit
  BY <1>1, TakeTyped
<1>5. Allowed(Position, Head(pipe)) /\ Chain(Rest(Head(pipe)), Tail(pipe), sending)
  BY <1>1, <1>2, <1>3, ChainTail
<1> QED BY <1>2, <1>3, <1>4, <1>5 DEF Next1

\* On an unbroken stream, a piece that is read belongs to the file being read.
LEMMA TakeBody ==
  ASSUME TypeOK, StreamInv, Unbroken, Reading, Take, cur.left # 0 \/ Next1[1] = "data"
  PROVE  /\ cur.left \in 1..BodyLen /\ Own
         /\ Rest(Next1) = IF cur.left = 1 THEN Idle ELSE [file |-> cur.file, left |-> cur.left - 1]
<1>1. Allowed(Position, Next1) /\ cur.own
  BY TakeStream
<1>2. cur.left \in 0..BodyLen /\ cur.file \in Entry /\ BodyLen \in Nat \ {0}
  BY TypeParts, FrameAssumption DEF HostOK
<1>3. cur.left # 0
  BY <1>1 DEF Allowed, Position, ZipEnd, Header
<1>4. Next1 = Piece(cur.file, BodyLen - cur.left + 1)
  BY <1>1, <1>3 DEF Allowed, Position
<1> QED BY <1>1, <1>2, <1>3, <1>4, RestOf DEF Own

\* ... and a header is met only between two files, and is a file's or the end.
LEMMA TakeHead ==
  ASSUME TypeOK, StreamInv, Unbroken, Reading, Take, Next1[1] # "data"
  PROVE  /\ cur.left = 0
         /\ Next1 = ZipEnd \/ \E f \in File : Next1 = Header(f)
<1>1. Allowed(Position, Next1)
  BY TakeStream
<1>2. cur.left = 0
  BY <1>1 DEF Allowed, Position, Piece
<1> QED BY <1>1, <1>2 DEF Allowed, Position

\* The reader is in the frame whose header it takes.
LEMMA HeadStream ==
  ASSUME TypeOK, StreamInv, Unbroken, Reading, Take, Next1[1] = "head", Begins(Next1[2]),
         UNCHANGED sending
  PROVE  (cur.own /\ Chain(Position, pipe, sending))'
<1>1. PICK f \in File : Next1 = Header(f)
  BY TakeHead DEF ZipEnd
<1>2. Next1[2] = f /\ f # Stray
  BY <1>1, FrameAssumption DEF Header
<1>3. cur' = [file |-> f, left |-> BodyLen, own |-> TRUE]
  BY <1>2 DEF Begins
<1>4. cur'.own /\ [file |-> cur'.file, left |-> cur'.left] = Rest(Next1)
  BY <1>1, <1>3, RestOf
<1>5. Chain(Rest(Next1), pipe', sending')
  BY TakeStream
<1> QED BY <1>4, <1>5 DEF Position

\* A piece that is not the last moves the reader on, the last completes the entry.
LEMMA PieceStream ==
  ASSUME TypeOK, StreamInv, Unbroken, Reading, Take, cur.left # 0 \/ Next1[1] = "data",
         IF cur.left > 1 THEN More ELSE Store(Own),
         UNCHANGED <<sending, version>>
  PROVE  (cur.own /\ Chain(Position, pipe, sending) /\ Kept)'
<1>1. /\ cur.left \in 1..BodyLen /\ Own
      /\ Rest(Next1) = IF cur.left = 1 THEN Idle ELSE [file |-> cur.file, left |-> cur.left - 1]
  BY TakeBody
<1>2. Chain(Rest(Next1), pipe', sending') /\ Kept
  BY TakeStream
<1>3. /\ cur \in [file : Entry, left : 0..BodyLen, own : BOOLEAN]
      /\ entries \in [Entry -> Version \cup {Garbled}]
      /\ BodyLen \in Nat
  BY TypeParts, FrameAssumption DEF HostOK
<1>4. CASE cur.left > 1
  <2>1. cur' = [cur EXCEPT !.left = @ - 1, !.own = Own] /\ entries' = entries
    BY <1>4 DEF More
  <2>2. cur' = [file |-> cur.file, left |-> cur.left - 1, own |-> Own]
    BY <2>1, <1>3
  <2>3. cur'.own /\ [file |-> cur'.file, left |-> cur'.left] = Rest(Next1)
    BY <1>1, <1>4, <2>2
  <2>4. Kept'
    BY <1>2, <2>1 DEF Kept
  <2> QED BY <1>2, <2>3, <2>4 DEF Position
<1>5. CASE ~(cur.left > 1)
  <2>1. cur.left = 1
    BY <1>1, <1>3, <1>5
  <2>2. cur' = NoFrame /\ entries' = [entries EXCEPT ![cur.file] = version[cur.file]]
    BY <1>1, <1>5 DEF Store, Content
  <2>3. cur'.own /\ [file |-> cur'.file, left |-> cur'.left] = Rest(Next1)
    BY <1>1, <2>1, <2>2 DEF NoFrame, Idle
  <2>4. Kept'
    BY <1>2, <1>3, <2>2 DEF Kept
  <2> QED BY <1>2, <2>3, <2>4 DEF Position
<1> QED BY <1>4, <1>5

\* What the reader does leaves the helper's and the session's part as it is.
LEMMA HostFrame ==
  ASSUME StreamInv, UNCHANGED <<helper, sending, rc, exit, cut, outcome>>,
         UNCHANGED <<pipe, cur, entries>> \/ helper \notin Early,
         pipe = <<>> => pipe' = <<>>,
         host' = "stopped" => host = "stopped" \/ pipe # <<>>,
         host' \in {"fill", "complete", "verified"} => outcome = "zero",
         host \in {"stopped", "failed"} => host' \in {"stopped", "failed"} \/ outcome = "zero"
  PROVE  SenderOK' /\ EndOK' /\ (Unbroken' <=> Unbroken)
<1>1. SenderOK'
  BY DEF StreamInv, SenderOK
<1>2. Unbroken' <=> Unbroken
  BY DEF Unbroken
<1>3. EndOK'
  BY <1>2 DEF StreamInv, EndOK
<1> QED BY <1>1, <1>2, <1>3

\* Nobody reads before the helper has begun to send, nor after the session ended well.
LEMMA WireTaken ==
  ASSUME StreamInv, Take
  PROVE  helper \notin Early /\ outcome # "zero" /\ pipe # <<>> /\ UNCHANGED <<cut, outcome>>
BY DEF StreamInv, SenderOK, EndOK, Take

\* The host's steps: on an unbroken stream it stores under each name what was sent for it.
LEMMA HostStream ==
  ASSUME TypeOK, StreamInv, Host
  PROVE  StreamInv'
<1>1. /\ UNCHANGED <<helper, sending, rc, exit, version>>
      /\ BodyLen \in Nat \ {0} /\ cur.left \in 0..BodyLen
  BY TypeParts, FrameAssumption DEF HostOK, Host, ReadHeader, ReadBody, BodyEndsShort,
     HandlerFails, Drain, RunReturns, CopyBytes, CopyFails, CopyReturns, Fill, Verify, device,
     staging
<1>2. SenderOK /\ ReaderOK /\ EndOK /\ StreamOK
  BY DEF StreamInv
<1>3. CASE ReadHeader
  <2>1. host = "frame" /\ Take /\ host' \in {"body", "drain"} /\ UNCHANGED entries
    BY <1>3 DEF ReadHeader
  <2>2. SenderOK' /\ EndOK' /\ (Unbroken' <=> Unbroken)
    BY <1>1, <2>1, WireTaken, HostFrame
  <2>3. CASE Next1[1] = "head" /\ Begins(Next1[2]) /\ host' = "body"
    <3>1. ReaderOK'
      BY <1>1, <2>3 DEF ReaderOK, Begins
    <3>2. Unbroken => (cur.own /\ Chain(Position, pipe, sending) /\ Kept)'
      <4>1. Unbroken => (cur.own /\ Chain(Position, pipe, sending))'
        BY <1>1, <2>1, <2>3, HeadStream DEF Reading
      <4>2. Unbroken => Kept'
        BY <1>1, <1>2, <2>1 DEF StreamOK, Reading, Kept
      <4> QED BY <4>1, <4>2
    <3>3. StreamOK'
      BY <2>2, <2>3, <3>2 DEF StreamOK
    <3> QED BY <2>2, <3>1, <3>3 DEF StreamInv
  <2>4. CASE Next1[1] = "data" /\ Begins(Stray) /\ host' = "body"
    <3>1. ReaderOK'
      BY <1>1, <2>4 DEF ReaderOK, Begins
    <3>2. ~Unbroken
      BY <1>2, <2>1, <2>4, TakeBody DEF ReaderOK, NoFrame, Reading
    <3>3. StreamOK'
      BY <2>2, <2>4, <3>2 DEF StreamOK
    <3> QED BY <2>2, <3>1, <3>3 DEF StreamInv
  <2>5. CASE host' = "drain" /\ parseErr' = TRUE /\ UNCHANGED cur
    <3>1. ReaderOK'
      BY <1>2, <2>5 DEF ReaderOK
    <3>2. StreamOK'
      BY <2>5 DEF StreamOK, Reading
    <3> QED BY <2>2, <3>1, <3>2 DEF StreamInv
  <2> QED BY <1>3, <2>3, <2>4, <2>5 DEF ReadHeader
<1>4. CASE ReadBody
  <2>1. /\ host = "body" /\ Take /\ host' \in {"body", "frame"} /\ UNCHANGED parseErr
        /\ IF cur.left > 1 THEN More /\ host' = "body" ELSE Store(Own) /\ host' = "frame"
    BY <1>4 DEF ReadBody
  <2>2. SenderOK' /\ EndOK' /\ (Unbroken' <=> Unbroken)
    BY <1>1, <2>1, WireTaken, HostFrame
  <2>3. ReaderOK'
    <3>1. CASE cur.left > 1
      <4>1. cur'.left = cur.left - 1
        BY <2>1, <3>1, TypeParts DEF More, HostOK
      <4> QED BY <1>1, <2>1, <3>1, <4>1 DEF ReaderOK
    <3>2. CASE ~(cur.left > 1)
      BY <2>1, <3>2 DEF ReaderOK, Store
    <3> QED BY <3>1, <3>2
  <2>4. Unbroken => (cur.own /\ Chain(Position, pipe, sending) /\ Kept)'
    BY <1>1, <1>2, <2>1, PieceStream DEF ReaderOK, Reading
  <2>5. StreamOK'
    BY <2>1, <2>2, <2>4 DEF StreamOK
  <2> QED BY <2>2, <2>3, <2>5 DEF StreamInv
<1>5. CASE BodyEndsShort
  <2>1. /\ host = "body" /\ host' = "frame" /\ AtEnd /\ cur' = NoFrame
        /\ UNCHANGED <<pipe, cut, outcome, parseErr>>
    BY <1>5 DEF BodyEndsShort, Store, wire
  <2>2. helper \notin Early
    BY <1>1, <1>2, <2>1 DEF SenderOK, ReaderOK, NoFrame
  <2>3. SenderOK' /\ EndOK' /\ (Unbroken' <=> Unbroken)
    BY <1>1, <2>1, <2>2, HostFrame
  <2>4. ~Unbroken
    <3>1. SUFFICES ASSUME Unbroken PROVE FALSE
      OBVIOUS
    <3>2. outcome = "zero"
      BY <1>2, <2>1, <3>1, TypeParts DEF EndOK, AtEnd, WireOK
    <3>3. sending = Idle /\ pipe = <<>>
      BY <1>2, <3>2 DEF SenderOK, EndOK
    <3>4. Position = Idle
      BY <1>2, <2>1, <3>1, <3>3 DEF StreamOK, Reading, Chain
    <3> QED BY <1>1, <1>2, <2>1, <3>4 DEF ReaderOK, Position, Idle
  <2>5. ReaderOK'
    BY <2>1 DEF ReaderOK
  <2>6. StreamOK'
    BY <2>1, <2>3, <2>4 DEF StreamOK
  <2> QED BY <2>3, <2>5, <2>6 DEF StreamInv
<1>6. CASE HandlerFails
  <2>1. /\ host = "body" /\ host' = "drain" /\ parseErr' /\ cur' = NoFrame
        /\ UNCHANGED <<pipe, cut, outcome, entries>>
    BY <1>6 DEF HandlerFails, wire
  <2>2. helper \notin Early
    BY <1>1, <1>2, <2>1 DEF SenderOK, ReaderOK, NoFrame
  <2>3. SenderOK' /\ EndOK'
    BY <1>1, <2>1, <2>2, HostFrame
  <2>4. ReaderOK' /\ StreamOK'
    BY <2>1 DEF ReaderOK, StreamOK, Reading
  <2> QED BY <2>3, <2>4 DEF StreamInv
<1>7. CASE Drain
  <2>1. host = "drain" /\ Take /\ UNCHANGED <<host, cur, entries, parseErr>>
    BY <1>7 DEF Drain, reader
  <2>2. SenderOK' /\ EndOK'
    BY <1>1, <2>1, WireTaken, HostFrame
  <2>3. ReaderOK' /\ StreamOK'
    BY <1>2, <2>1 DEF ReaderOK, StreamOK, Reading
  <2> QED BY <2>2, <2>3 DEF StreamInv
<1>8. CASE RunReturns \/ CopyReturns
  <2>1. /\ host \in {"frame", "drain", "copy", "stopped"} /\ outcome # "none"
        /\ host' = "failed" \/ (host' = "fill" /\ Succeeded)
        /\ UNCHANGED <<pipe, cut, outcome, cur, entries, parseErr>>
    BY <1>8 DEF RunReturns, CopyReturns, AtEnd, wire
  <2>2. SenderOK' /\ EndOK'
    BY <1>1, <2>1, HostFrame DEF Succeeded
  <2>3. ReaderOK'
    BY <1>2, <2>1 DEF ReaderOK
  <2>4. Succeeded => Kept
    <3>1. SUFFICES ASSUME Succeeded PROVE Kept
      OBVIOUS
    <3>2. outcome = "zero" /\ ~parseErr
      BY <3>1 DEF Succeeded
    <3>3. Unbroken /\ Reading
      BY <1>2, <2>1, <3>2 DEF SenderOK, EndOK, ReaderOK, Unbroken, Reading
    <3> QED BY <1>2, <3>3 DEF StreamOK
  <2>5. StreamOK'
    BY <1>1, <2>1, <2>4 DEF StreamOK, Reading, Kept
  <2> QED BY <2>2, <2>3, <2>5 DEF StreamInv
<1>9. CASE CopyBytes
  <2>1. host = "copy" /\ host' = "copy" /\ Take /\ UNCHANGED parseErr
    BY <1>9 DEF CopyBytes
  <2>2. SenderOK' /\ EndOK' /\ (Unbroken' <=> Unbroken)
    BY <1>1, <2>1, WireTaken, HostFrame
  <2>3. CASE Next1[1] = "head" /\ Begins(Next1[2]) /\ UNCHANGED entries
    <3>1. ReaderOK'
      BY <1>1, <2>1, <2>3 DEF ReaderOK, Begins
    <3>2. Unbroken => (cur.own /\ Chain(Position, pipe, sending) /\ Kept)'
      <4>1. Unbroken => (cur.own /\ Chain(Position, pipe, sending))'
        BY <1>1, <2>1, <2>3, HeadStream DEF Reading
      <4>2. Unbroken => Kept'
        BY <1>1, <1>2, <2>1, <2>3 DEF StreamOK, Reading, Kept
      <4> QED BY <4>1, <4>2
    <3>3. StreamOK'
      BY <2>1, <2>2, <3>2 DEF StreamOK
    <3> QED BY <2>2, <3>1, <3>3 DEF StreamInv
  <2>4. CASE Next1[1] = "data" /\ IF cur.left > 1 THEN More ELSE Store(Own)
    <3>1. ReaderOK'
      <4>1. CASE cur.left > 1
        <5>1. cur'.left = cur.left - 1
          BY <2>4, <4>1, TypeParts DEF More, HostOK
        <5> QED BY <1>1, <2>1, <4>1, <5>1 DEF ReaderOK
      <4>2. CASE ~(cur.left > 1)
        BY <2>1, <2>4, <4>2 DEF ReaderOK, Store
      <4> QED BY <4>1, <4>2
    <3>2. Unbroken => (cur.own /\ Chain(Position, pipe, sending) /\ Kept)'
      BY <1>1, <2>1, <2>4, PieceStream DEF Reading
    <3>3. StreamOK'
      BY <2>1, <2>2, <3>2 DEF StreamOK
    <3> QED BY <2>2, <3>1, <3>3 DEF StreamInv
  <2>5. CASE Next1[1] \in {"end", "part"} /\ UNCHANGED <<cur, entries>>
    <3>1. ReaderOK'
      BY <1>2, <2>1, <2>5 DEF ReaderOK
    <3>2. Unbroken => (cur.own /\ Chain(Position, pipe, sending) /\ Kept)'
      <4>1. SUFFICES ASSUME Unbroken PROVE (cur.own /\ Chain(Position, pipe, sending) /\ Kept)'
        OBVIOUS
      <4>2. cur.left = 0 /\ Next1 = ZipEnd
        BY <2>1, <2>5, <4>1, TakeHead DEF Reading, Header
      <4>3. cur.own /\ Kept /\ Chain(Rest(Next1), pipe', sending)
        BY <2>1, <4>1, TakeStream DEF Reading
      <4>4. Rest(Next1) = [file |-> cur'.file, left |-> cur'.left]
        BY <1>2, <2>5, <4>2, RestOf DEF ReaderOK, NoFrame, Idle
      <4>5. Kept'
        BY <1>1, <2>5, <4>3 DEF Kept
      <4> QED BY <1>1, <2>5, <4>3, <4>4, <4>5 DEF Position
    <3>3. StreamOK'
      BY <2>1, <2>2, <3>2 DEF StreamOK
    <3> QED BY <2>2, <3>1, <3>3 DEF StreamInv
  <2> QED BY <1>9, <2>3, <2>4, <2>5 DEF CopyBytes
<1>10. CASE CopyFails \/ Fill \/ Verify
  <2>1. /\ UNCHANGED <<pipe, cut, outcome, cur, parseErr>>
        /\ \/ host = "copy" /\ host' = "stopped" /\ pipe # <<>> /\ UNCHANGED entries
           \/ host = "fill" /\ host' \in {"complete", "failed"}
           \/ host = "complete" /\ host' = "verified"
    BY <1>10 DEF CopyFails, Fill, Verify, wire
  <2>2. \/ outcome = "zero" /\ helper \notin Early
        \/ host = "copy" /\ UNCHANGED entries
    BY <1>2, <2>1 DEF EndOK, SenderOK, Early
  <2>3. SenderOK' /\ EndOK'
    BY <1>1, <1>2, <2>1, <2>2, HostFrame DEF EndOK
  <2>4. ReaderOK' /\ StreamOK'
    BY <1>2, <2>1 DEF ReaderOK, StreamOK, Reading
  <2> QED BY <2>3, <2>4 DEF StreamInv
<1> QED BY <1>3, <1>4, <1>5, <1>6, <1>7, <1>8, <1>9, <1>10 DEF Host

\* StreamInv is inductive: every step is the sender's, the session's or the host's.
LEMMA StreamStep ==
  ASSUME TypeOK, StreamInv, [Next]_vars
  PROVE  StreamInv'
<1>1. CASE UNCHANGED vars
  <2>1. UNCHANGED <<version, helper, sending, rc, exit, pipe, cut, outcome, host, cur, entries, parseErr>>
    BY <1>1 DEF vars, device, staging, wire, reader
  <2>2. SenderOK' /\ EndOK' /\ (Unbroken' => Unbroken /\ sending' = sending)
    BY <2>1 DEF StreamInv, SenderOK, EndOK, Unbroken
  <2> QED BY <2>1, <2>2, StreamFrame
<1> QED BY <1>1, BundleStream, SenderStream, SessionStream, HostStream DEF Next, Helper

-----------------------------------------------------------------------------
(* The steps of OutputIPA.                                                  *)

\* The run's status as OutputIPA has it.
Open == host \notin {"complete", "verified", "failed"}

\* What a step can do to the status, the staging copy and the IPA, if it is not a dump.
Moves ==
  /\ UNCHANGED <<opt, version>>
  /\ \/ Open /\ Open'
     \/ Open /\ host' = "failed"
     \/ Fill /\ host' = "complete"
     \/ UNCHANGED entries /\ Delivered /\ Delivered'
     \/ host = "failed" /\ host' = "failed"

\* A step that dumps nothing, seen from the abstract specification: it completes, fails,
\* or changes nothing that OutputIPA knows of.
LEMMA StepMoves ==
  ASSUME TypeOK, [Next]_vars, ~Dumping
  PROVE  Moves
<1>1. UNCHANGED <<opt, version>>
  <2>1. UNCHANGED opt
    BY StepKeepsOpt
  <2> QED BY <2>1, OthersKeepStaging DEF staging
<1>2. CASE UNCHANGED <<host, entries>>
  BY <1>1, <1>2, TypeParts DEF Moves, Open, Delivered, HostOK
<1>3. CASE Host
  BY <1>1, <1>3 DEF Host, Moves, Open, Delivered, ReadHeader, ReadBody, BodyEndsShort,
     HandlerFails, Drain, RunReturns, CopyBytes, CopyFails, CopyReturns, Fill, Verify, reader
<1>4. CASE ~Host
  BY <1>2, <1>4 DEF Next, Helper, vars, reader, CopyTree, Spawn, FirstDump, NoMainImage, Settle,
     BundleDone, AppexesDone, DumpImage, DumpAppex, SendBody, ReadFails, BrokenPipe, FilesSent,
     RemoveStaging, Killed, Cut, SessionEnds, SkipFile, Unreadable, OpenFails, SendHeader
<1> QED BY <1>3, <1>4

\* A dump rewrites one file of the staging copy of a run that is not complete.
LEMMA DumpsRewrite ==
  ASSUME TypeOK, StreamInv, Dumping
  PROVE  /\ UNCHANGED <<opt, host, entries>> /\ ~Delivered
         /\ \E f \in Entry : \E v \in Version : version' = [version EXCEPT ![f] = v]
<1>1. helper \in Early /\ UNCHANGED <<opt, host, entries>>
  BY DEF Dumping, FirstDump, Settle, DumpImage, DumpAppex, AfterFirst, Steps, Early, reader
<1>2. ~Delivered
  BY <1>1 DEF StreamInv, SenderOK, EndOK, Delivered, Early
<1>3. PICK f \in File : Dump(f) \/ UNCHANGED staging
  <2>1. Main \in File
    BY DEF File
  <2> QED BY <2>1 DEF Dumping, FirstDump, Settle, DumpMain, DumpImage, DumpAppex
<1>4. StagingOK /\ f \in Entry
  BY TypeParts DEF Entry
<1>5. StagingOK' /\ \A g \in Entry : g # f => version'[g] = version[g]
  BY <1>3, <1>4, DumpIsLocal, Frames DEF staging
<1>6. version' = [version EXCEPT ![f] = version'[f]] /\ version'[f] \in Version
  BY <1>4, <1>5 DEF StagingOK
<1> QED BY <1>1, <1>2, <1>4, <1>6

\* The first state maps to the first state of OutputIPA.
LEMMA InitImplements == Init => Promise!Init
BY DEF Init, Promise!Init, Delivered

\* Every step maps to a step of OutputIPA or to none.
LEMMA StepImplements ==
  ASSUME TypeOK, StreamInv, [Next]_vars
  PROVE  [Promise!Next]_(Promise!vars)
<1>1. CASE Dumping
  <2>1. PICK f \in Entry : \E v \in Version : version' = [version EXCEPT ![f] = v]
    BY <1>1, DumpsRewrite
  <2>2. UNCHANGED <<opt, host, entries>> /\ ~Delivered
    BY <1>1, DumpsRewrite
  <2>3. Promise!Rewrite(f)
    BY <2>1, <2>2 DEF Promise!Rewrite, Delivered
  <2> QED BY <2>3 DEF Promise!Next
<1>2. CASE ~Dumping
  <2>1. UNCHANGED <<opt, version>>
    BY <1>2, StepMoves DEF Moves
  <2>2. CASE Open /\ Open'
    BY <2>1, <2>2 DEF Open, Delivered, Promise!vars
  <2>3. CASE Open /\ host' = "failed"
    BY <2>1, <2>3 DEF Open, Delivered, Promise!Next, Promise!Fail
  <2>4. CASE Fill /\ host' = "complete"
    <3>1. /\ host = "fill" /\ Kept
          /\ entries' = IF Execs
                        THEN [e \in Entry |-> IF entries[e] = "none" THEN Source[e] ELSE entries[e]]
                        ELSE entries
      BY <2>4 DEF Fill, StreamInv, StreamOK
    <3>2. PICK S \in SUBSET Entry : S = {e \in Entry : entries[e] # "none"}
      OBVIOUS
    <3>3. \A e \in Entry : /\ e \in S => entries[e] = version[e]
                           /\ e \notin S => entries[e] = "none"
      BY <3>1, <3>2 DEF Kept
    <3>4. entries \in [Entry -> Version \cup {Garbled}]
      BY TypeParts DEF HostOK
    <3>5. entries' = [e \in Entry |-> IF e \in S THEN version[e]
                                      ELSE IF Execs THEN Source[e] ELSE "none"]
      <4>1. CASE Execs
        BY <3>1, <3>2, <3>3, <4>1
      <4>2. CASE ~Execs
        BY <3>1, <3>3, <3>4, <4>2
      <4> QED BY <4>1, <4>2
    <3>6. Promise!Complete
      BY <2>1, <2>4, <3>1, <3>5 DEF Promise!Complete, Delivered, Execs
    <3> QED BY <3>6 DEF Promise!Next
  <2>5. CASE UNCHANGED entries /\ Delivered /\ Delivered'
    BY <2>1, <2>5 DEF Delivered, Promise!vars
  <2>6. CASE host = "failed" /\ host' = "failed"
    BY <2>1, <2>6 DEF Delivered, Promise!vars
  <2> QED BY <1>2, <2>2, <2>3, <2>4, <2>5, <2>6, StepMoves DEF Moves
<1> QED BY <1>1, <1>2

\* An IPA that is reported as complete has only whole entries, each the staged or the
\* source's version of its file, whatever fails and in whatever order the helper, the
\* session and the host's reader go on: FrameStream implements OutputIPA.
THEOREM Refines == Spec => Implements
<1>1. Init => Promise!Init
  BY InitImplements
<1>2. Init => StreamInv
  BY StreamInit
<1>3. TypeOK /\ StreamInv /\ [Next]_vars => StreamInv'
  BY StreamStep
<1>4. TypeOK /\ StreamInv /\ [Next]_vars => [Promise!Next]_(Promise!vars)
  BY StepImplements
<1> QED BY <1>1, <1>2, <1>3, <1>4, TypeCorrect, PTL DEF Spec, Implements, Promise!Spec

-----------------------------------------------------------------------------
(* What Verify says: of any run, and of one in which nothing fails.         *)

VerdictInv == (verdict # "none" => host = "verified") /\ VerifiedNotEncrypted

\* The dumps of a run without a failure: each file is decrypted or as it was, and each loop
\* has decrypted what it has left behind.
Dumped(S) == \A f \in S : version[f] = "plain"
Sending   == {"send", "remove", "exited"}

CleanStaging ==
  /\ traced = FALSE /\ installed = Source
  /\ \A f \in File : version[f] \in {"plain", Source[f]} /\ (f \in linked => version[f] = Source[f])
  /\ opt.skipAppex => \A f \in Appex : version[f] = Source[f]
  /\ helper \notin {"stage", "spawn", "first"} => Dumped({Main} \cap Encrypted)
  /\ helper = "images" => todo \subseteq Framework /\ Dumped((Framework \cap Encrypted) \ todo)
  /\ helper \in {"appexes"} \cup Sending => Dumped(Framework \cap Encrypted)
  /\ helper = "appexes" => todo \subseteq AppexTodo /\ Dumped(AppexTodo \ todo)
  /\ helper \in Sending => Dumped(AppexTodo)

\* No side has seen an error.
CleanSession ==
  /\ Unbroken /\ ~parseErr
  /\ host \in {"frame", "body", "copy", "fill", "complete", "verified"}
  /\ helper \in {"remove", "exited"} => todo = {}

\* No file is lost between the walk of the staging copy and the IPA.
InHand(f) == \/ entries[f] # "none"
             \/ cur.left > 0 /\ cur.file = f
             \/ \E i \in 1..Len(pipe) : pipe[i] = Header(f)

CleanSent ==
  /\ helper \in Sending => \A f \in File : Sent(f) => f \in todo \/ InHand(f)
  /\ host = "fill" => cur.left = 0
  /\ Delivered => \A f \in File : entries[f] = version[f]
  /\ verdict # "none" => verdict = IF LeftOut THEN "flagged" ELSE "ok"

CleanInv == faults = 0 => CleanStaging /\ CleanSession /\ CleanSent

\* Verify flags every file it was asked about that is still encrypted.
LEMMA VerdictStep == TypeOK /\ VerdictInv /\ [Next]_vars => VerdictInv'
<1> SUFFICES ASSUME TypeOK, VerdictInv, [Next]_vars PROVE VerdictInv'
  OBVIOUS
<1>1. UNCHANGED opt
  BY StepKeepsOpt
<1>2. CASE UNCHANGED reader
  BY <1>1, <1>2 DEF reader, VerdictInv, VerifiedNotEncrypted, Requested
<1>3. CASE Verify
  <2>1. /\ UNCHANGED entries /\ host' = "verified"
        /\ verdict' = "ok" => ~ \E f \in Scanned : Flagged(f)
    BY <1>3 DEF Verify
  <2>2. Requested \subseteq {f \in File : ~Exempt(f)}
    BY DEF Requested, Exempt, Appex
  <2>3. verdict' = "ok" => \A f \in Requested : entries[f] # "cipher"
    BY <2>1, <2>2 DEF Scanned, Flagged
  <2> QED
    BY <1>1, <2>1, <2>3 DEF VerdictInv, VerifiedNotEncrypted, Requested
<1>4. CASE Host /\ ~Verify
  <2>1. host # "verified" /\ UNCHANGED verdict
    BY <1>4 DEF Host, ReadHeader, ReadBody, BodyEndsShort, HandlerFails, Drain, RunReturns,
       CopyBytes, CopyFails, CopyReturns, Fill, reader
  <2> QED
    BY <2>1 DEF VerdictInv, VerifiedNotEncrypted
<1>5. CASE ~Host
  <2>1. UNCHANGED reader
    BY <1>5 DEF Next, Helper, vars, reader, CopyTree, Spawn, FirstDump, NoMainImage, Settle,
       BundleDone, AppexesDone, DumpImage, DumpAppex, SendBody, ReadFails, BrokenPipe, FilesSent,
       RemoveStaging, Killed, Cut, SessionEnds, SkipFile, Unreadable, OpenFails, SendHeader
  <2> QED
    BY <1>2, <2>1
<1> QED
  BY <1>3, <1>4, <1>5

\* What Verify accepts is not encrypted, wherever a dump, a link or a frame was lost.
THEOREM AcceptedIsDecrypted == Spec => []VerifiedNotEncrypted
<1>1. Init => VerdictInv
  BY DEF Init, VerdictInv, VerifiedNotEncrypted
<1>2. VerdictInv => VerifiedNotEncrypted
  BY DEF VerdictInv
<1> QED
  BY <1>1, <1>2, VerdictStep, TypeCorrect, PTL DEF Spec

\* A dump that works decrypts one file, which is no link any more.
LEMMA DumpDecrypts ==
  ASSUME TypeOK, CleanStaging, ~Fault, NEW f \in File, Dump(f)
  PROVE  /\ version'[f] = "plain" /\ linked' = linked \ {f} /\ UNCHANGED installed
         /\ \A g \in File \ {f} : version'[g] = version[g]
         /\ \A g \in File : version'[g] \in {"plain", Source[g]}
                            /\ (g \in linked' => version'[g] = Source[g])
<1>1. WriteOutput(f, "plain")
  BY DEF Dump
<1>2. version \in [Entry -> Version] /\ File \subseteq Entry
  BY TypeParts DEF StagingOK, Entry
<1>3. /\ version' = [version EXCEPT ![f] = "plain"] /\ linked' = linked \ {f}
      /\ UNCHANGED installed
  BY <1>1 DEF WriteOutput, Create
<1>4. version'[f] = "plain" /\ \A g \in File \ {f} : version'[g] = version[g]
  BY <1>2, <1>3
<1> QED
  BY <1>3, <1>4 DEF CleanStaging

\* The dumps of such a run, step by step.
LEMMA StagingStep ==
  ASSUME TypeOK, CleanStaging, ~Fault, [Next]_vars
  PROVE  CleanStaging'
<1>1. /\ Main \in File /\ Main \notin Framework \cup Appex /\ Framework \cap Appex = {}
      /\ Framework \subseteq File /\ Appex \subseteq File /\ AppexTodo \subseteq Appex
  BY FrameAssumption, AppexTodoIsFile DEF File
<1>2. UNCHANGED opt /\ AppexTodo' = AppexTodo
  BY StepKeepsOpt
<1>3. MainDumped => Dumped({Main} \cap Encrypted)
  <2>1. version[Main] \in {"plain", Source[Main]} /\ Main \in Entry
    BY <1>1 DEF CleanStaging, Entry
  <2>2. Main \in Encrypted => Source[Main] = "cipher"
    BY <2>1, FrameAssumption, <1>1 DEF Source
  <2> QED
    BY <2>1, <2>2 DEF MainDumped, Dumped
<1>4. CASE FirstDump \/ Settle
  <2>1. \/ UNCHANGED staging /\ Dumped({Main} \cap Encrypted)
        \/ Dump(Main)
    <3>1. installed[Main] # "cipher" => Dumped({Main} \cap Encrypted)
      BY <1>1, FrameAssumption DEF CleanStaging, Source, Entry, Dumped
    <3> QED
      BY <1>3, <1>4, <3>1 DEF FirstDump, Settle, DumpMain
  <2>2. /\ traced = FALSE /\ traced' = FALSE
        /\ helper' = "settle" \/ (helper' = "images" /\ todo' = Framework \cap Encrypted)
    BY <1>4 DEF FirstDump, AfterFirst, Settle, Steps, CleanStaging
  <2>3. /\ version'[Main] = "plain" \/ (Dumped({Main} \cap Encrypted) /\ version' = version)
        /\ UNCHANGED installed
        /\ \A g \in File \ {Main} : version'[g] = version[g]
        /\ \A g \in File : version'[g] \in {"plain", Source[g]}
                           /\ (g \in linked' => version'[g] = Source[g])
    <3>1. CASE UNCHANGED staging /\ Dumped({Main} \cap Encrypted)
      BY <3>1 DEF staging, CleanStaging
    <3>2. CASE Dump(Main)
      BY <1>1, <3>2, DumpDecrypts
    <3> QED
      BY <2>1, <3>1, <3>2
  <2>4. Dumped({Main} \cap Encrypted)'
    BY <2>3 DEF Dumped
  <2>5. opt'.skipAppex => \A f \in Appex : version'[f] = Source[f]
    BY <1>1, <1>2, <2>3 DEF CleanStaging
  <2> QED
    BY <2>2, <2>3, <2>4, <2>5 DEF CleanStaging, Dumped, Sending
<1>5. ASSUME NEW f \in File, DumpImage(f) PROVE CleanStaging'
  <2>1. /\ helper = "images" /\ helper' = "images" /\ f \in todo /\ todo' = todo \ {f} /\ Dump(f)
        /\ UNCHANGED traced
    BY <1>5 DEF DumpImage
  <2>2. f \in Framework /\ todo \subseteq Framework
    BY <2>1 DEF CleanStaging
  <2>3. /\ version'[f] = "plain" /\ \A g \in File \ {f} : version'[g] = version[g]
        /\ UNCHANGED installed
        /\ \A g \in File : version'[g] \in {"plain", Source[g]}
                           /\ (g \in linked' => version'[g] = Source[g])
    BY <2>1, DumpDecrypts
  <2>4. Dumped({Main} \cap Encrypted)' /\ Dumped((Framework \cap Encrypted) \ todo)'
    BY <1>1, <2>1, <2>3 DEF CleanStaging, Dumped
  <2>5. opt'.skipAppex => \A g \in Appex : version'[g] = Source[g]
    BY <1>1, <1>2, <2>2, <2>3 DEF CleanStaging
  <2> QED
    BY <2>1, <2>2, <2>3, <2>4, <2>5 DEF CleanStaging, Sending
<1>6. ASSUME NEW f \in File, DumpAppex(f) PROVE CleanStaging'
  <2>1. /\ helper = "appexes" /\ helper' = "appexes" /\ f \in todo /\ todo' = todo \ {f} /\ Dump(f)
        /\ UNCHANGED traced
    BY <1>6 DEF DumpAppex
  <2>2. f \in AppexTodo /\ todo \subseteq AppexTodo /\ ~opt.skipAppex
    BY <2>1 DEF CleanStaging, AppexTodo
  <2>3. /\ version'[f] = "plain" /\ \A g \in File \ {f} : version'[g] = version[g]
        /\ UNCHANGED installed
        /\ \A g \in File : version'[g] \in {"plain", Source[g]}
                           /\ (g \in linked' => version'[g] = Source[g])
    BY <2>1, DumpDecrypts
  <2>4. \A S \in SUBSET File : Dumped(S) => \A g \in S : version'[g] = "plain"
    BY <2>3 DEF Dumped
  <2>5. Dumped({Main} \cap Encrypted)' /\ Dumped(Framework \cap Encrypted)'
    BY <1>1, <2>1, <2>4 DEF CleanStaging, Dumped
  <2>6. Dumped(AppexTodo \ todo)'
    BY <1>1, <1>2, <2>1, <2>3 DEF CleanStaging, Dumped
  <2> QED
    BY <1>2, <2>1, <2>2, <2>3, <2>5, <2>6 DEF CleanStaging, Sending
<1>7. CASE ~Dumping
  <2>1. UNCHANGED <<version, linked, installed>>
    BY <1>7, OthersKeepStaging DEF staging
  <2>2. \A S : Dumped(S) => Dumped(S)'
    BY <2>1 DEF Dumped
  <2>3. CASE CopyTree \/ Spawn
    BY <1>2, <2>1, <2>3 DEF CopyTree, Spawn, Steps, CleanStaging, Sending
  <2>4. CASE NoMainImage \/ Killed \/ Cut
    BY <2>4 DEF NoMainImage, Killed, Cut
  <2>5. CASE BundleDone \/ AppexesDone
    <3>1. CASE BundleDone
      <4>1. helper = "images" /\ helper' = "appexes" /\ todo = {} /\ todo' = AppexTodo
              /\ UNCHANGED traced
        BY <3>1 DEF BundleDone, Steps
      <4>2. Dumped(Framework \cap Encrypted) /\ Dumped({Main} \cap Encrypted)
        BY <4>1 DEF CleanStaging, Dumped
      <4> QED
        BY <1>2, <2>1, <4>1, <4>2 DEF CleanStaging, Dumped, Sending
    <3>2. CASE AppexesDone
      <4>1. helper = "appexes" /\ helper' = "send" /\ todo = {} /\ UNCHANGED traced
        BY <3>2 DEF AppexesDone, Steps
      <4>2. Dumped(Framework \cap Encrypted) /\ Dumped({Main} \cap Encrypted) /\ Dumped(AppexTodo)
        BY <4>1 DEF CleanStaging, Dumped
      <4> QED
        BY <1>2, <2>1, <4>1, <4>2 DEF CleanStaging, Dumped, Sending
    <3> QED
      BY <2>5, <3>1, <3>2
  <2>6. ASSUME helper \in Sending, helper' \in Sending, UNCHANGED traced PROVE CleanStaging'
    BY <1>2, <2>1, <2>6 DEF CleanStaging, Dumped, Sending
  <2>7. CASE \/ SendBody \/ ReadFails \/ BrokenPipe \/ FilesSent \/ RemoveStaging \/ Unreadable
             \/ \E f \in File : SkipFile(f) \/ OpenFails(f) \/ SendHeader(f)
    <3>1. helper \in Sending /\ helper' \in Sending /\ UNCHANGED traced
      BY <2>7 DEF SendBody, ReadFails, BrokenPipe, FilesSent, RemoveStaging, SkipFile,
                  Unreadable, OpenFails, SendHeader, Between, Steps, Sending
    <3> QED BY <2>6, <3>1
  <2>8. CASE SessionEnds \/ Host \/ UNCHANGED vars
    <3>1. UNCHANGED <<helper, todo, traced>>
      BY <2>8 DEF SessionEnds, Host, vars, device, ReadHeader, ReadBody, BodyEndsShort,
                  HandlerFails, Drain, RunReturns, CopyBytes, CopyFails, CopyReturns, Fill, Verify
    <3> QED BY <1>2, <2>1, <3>1 DEF CleanStaging, Dumped, Sending
  <2> QED
    BY <1>7, <2>3, <2>4, <2>5, <2>7, <2>8 DEF Next, Helper, Dumping
<1> QED
  BY <1>4, <1>5, <1>6, <1>7 DEF Dumping

-----------------------------------------------------------------------------
(* The stream of a run in which nothing fails.                              *)

\* The session of such a run is over only once the stream has been read to its end.
LEMMA AtEndClean ==
  ASSUME TypeOK, StreamInv, CleanSession, Reading, outcome # "none"
  PROVE  outcome = "zero" /\ pipe = <<>> /\ cur.left = 0 /\ helper = "exited" /\ todo = {}
<1>1. Unbroken /\ ~parseErr /\ SenderOK /\ EndOK /\ StreamOK
  BY DEF CleanSession, StreamInv
<1>2. outcome = "zero"
  BY <1>1, TypeParts DEF EndOK, Reading, WireOK
<1>3. exit = "zero" /\ pipe = <<>>
  BY <1>1, <1>2 DEF EndOK
<1>4. helper = "exited" /\ sending = Idle
  BY <1>1, <1>3 DEF SenderOK
<1>5. Position = Idle
  BY <1>1, <1>3, <1>4 DEF StreamOK, Chain
<1> QED
  BY <1>2, <1>3, <1>4, <1>5 DEF Position, Idle, CleanSession

\* What the reader does in it.
TakesHead(f) ==
  /\ cur.left = 0 /\ Next1 = Header(f)
  /\ cur' = [file |-> f, left |-> BodyLen, own |-> TRUE] /\ UNCHANGED entries
TakesPiece ==
  /\ Next1[1] = "data"
  /\ \/ /\ cur.left > 1 /\ UNCHANGED entries
        /\ cur'.file = cur.file /\ cur'.left = cur.left - 1
     \/ /\ cur.left = 1 /\ cur' = NoFrame
        /\ entries' = [entries EXCEPT ![cur.file] = version[cur.file]]
TakesEnd == Next1 = ZipEnd /\ UNCHANGED <<cur, entries>>
Reads    == /\ Reading /\ Reading' /\ Take /\ UNCHANGED verdict
            /\ TakesPiece \/ TakesEnd \/ \E f \in File : TakesHead(f)
Returns  == /\ Reading /\ host' = "fill" /\ outcome = "zero" /\ cur.left = 0 /\ pipe = <<>>
            /\ UNCHANGED <<wire, cur, entries, verdict>>

\* What it takes within a frame is that frame's next piece.
LEMMA PieceClean ==
  ASSUME TypeOK, StreamInv, Unbroken, Reading, Take, cur.left # 0 \/ Next1[1] = "data",
         IF cur.left > 1 THEN More ELSE Store(Own)
  PROVE  TakesPiece
<1>1. cur.left \in 1..BodyLen /\ Own
  BY TakeBody
<1>2. Next1[1] = "data"
  BY <1>1, TakeHead
<1>3. /\ cur \in [file : Entry, left : 0..BodyLen, own : BOOLEAN] /\ BodyLen \in Nat
  BY TypeParts, FrameAssumption DEF HostOK
<1>4. CASE cur.left > 1
  BY <1>2, <1>3, <1>4 DEF More, TakesPiece
<1>5. CASE ~(cur.left > 1)
  <2>1. cur.left = 1
    BY <1>1, <1>3, <1>5
  <2> QED
    BY <1>1, <1>2, <1>5, <2>1 DEF Store, Content, TakesPiece
<1> QED
  BY <1>4, <1>5

\* The reader meets no error, no foreign bytes and no early end of the stream.
LEMMA HostClean ==
  ASSUME TypeOK, StreamInv, CleanSession, ~Fault, Host
  PROVE  /\ UNCHANGED <<opt, device, cut, outcome>> /\ ~parseErr'
         /\ Reads \/ Returns \/ (Fill /\ host' = "complete") \/ Verify
<1>1. /\ Unbroken /\ ~parseErr /\ SenderOK /\ ReaderOK /\ EndOK
      /\ host \in {"frame", "body", "copy", "fill", "complete", "verified"}
  BY DEF CleanSession, StreamInv
<1>2. UNCHANGED <<opt, device, cut, outcome>>
  BY DEF Host, ReadHeader, ReadBody, BodyEndsShort, HandlerFails, Drain, RunReturns, CopyBytes,
     CopyFails, CopyReturns, Fill, Verify, Take, wire
<1>3. ASSUME Reading, Take, Next1[1] = "head", Begins(Next1[2]), UNCHANGED entries
      PROVE  \E f \in File : TakesHead(f)
  <2>1. cur.left = 0 /\ (Next1 = ZipEnd \/ \E f \in File : Next1 = Header(f))
    BY <1>1, <1>3, TakeHead
  <2>2. PICK f \in File : Next1 = Header(f)
    BY <1>3, <2>1 DEF ZipEnd
  <2>3. Next1[2] = f /\ f # Stray
    BY <2>2, FrameAssumption DEF Header
  <2> QED
    BY <1>3, <2>1, <2>2, <2>3 DEF Begins, TakesHead
<1>4. CASE ReadHeader
  <2>1. host = "frame" /\ Take /\ Reading /\ cur.left = 0 /\ UNCHANGED <<entries, verdict>>
    BY <1>1, <1>4 DEF ReadHeader, Reading, ReaderOK, NoFrame
  <2>2. Next1[1] # "data"
    BY <1>1, <2>1, TakeBody
  <2>3. Next1[1] # "part"
    BY <1>1, <2>1, <2>2, TakeHead DEF ZipEnd, Header
  <2>4. Next1[1] = "head" /\ Begins(Next1[2]) /\ host' = "body" /\ UNCHANGED parseErr
    BY <1>4, <2>2, <2>3 DEF ReadHeader
  <2> QED
    BY <1>1, <1>2, <1>3, <2>1, <2>4 DEF Reads, Reading
<1>5. CASE ReadBody
  <2>1. /\ host = "body" /\ host' \in {"body", "frame"} /\ Take /\ Reading /\ cur.left # 0
        /\ UNCHANGED <<parseErr, verdict>>
        /\ IF cur.left > 1 THEN More ELSE Store(Own)
    BY <1>1, <1>5, TypeParts DEF ReadBody, Reading, ReaderOK, HostOK
  <2>2. TakesPiece
    BY <1>1, <2>1, PieceClean
  <2> QED
    BY <1>1, <1>2, <2>1, <2>2 DEF Reads, Reading
<1>6. CASE BodyEndsShort
  <2>1. host = "body" /\ outcome # "none" /\ cur.left # 0
    BY <1>1, <1>6, TypeParts DEF BodyEndsShort, AtEnd, ReaderOK, HostOK
  <2> QED
    BY <2>1, AtEndClean DEF Reading
<1>7. CASE HandlerFails \/ CopyFails \/ Drain
  BY <1>1, <1>7 DEF HandlerFails, CopyFails, Drain
<1>8. CASE RunReturns \/ CopyReturns
  <2>1. Reading /\ outcome # "none" /\ host' = (IF Succeeded THEN "fill" ELSE "failed")
        /\ UNCHANGED <<wire, cur, entries, parseErr, verdict>>
    BY <1>1, <1>8 DEF RunReturns, CopyReturns, Reading, AtEnd
  <2>2. outcome = "zero" /\ pipe = <<>> /\ cur.left = 0
    BY <2>1, AtEndClean
  <2> QED
    BY <1>1, <1>2, <2>1, <2>2 DEF Succeeded, Returns
<1>9. CASE CopyBytes
  <2>1. /\ host = "copy" /\ host' = "copy" /\ Take /\ Reading /\ Reading'
        /\ UNCHANGED <<parseErr, verdict>>
    BY <1>9 DEF CopyBytes, Reading
  <2>2. CASE Next1[1] = "head" /\ Begins(Next1[2]) /\ UNCHANGED entries
    BY <1>1, <1>2, <1>3, <2>1, <2>2 DEF Reads
  <2>3. CASE Next1[1] = "data" /\ IF cur.left > 1 THEN More ELSE Store(Own)
    BY <1>1, <1>2, <2>1, <2>3, PieceClean DEF Reads
  <2>4. CASE Next1[1] \in {"end", "part"} /\ UNCHANGED <<cur, entries>>
    <3>1. Next1 = ZipEnd
      BY <1>1, <2>1, <2>4, TakeHead DEF Header
    <3> QED
      BY <1>1, <1>2, <2>1, <2>4, <3>1 DEF Reads, TakesEnd
  <2> QED
    BY <1>9, <2>2, <2>3, <2>4 DEF CopyBytes
<1>10. CASE Fill \/ Verify
  BY <1>1, <1>2, <1>10 DEF Fill, Verify
<1> QED
  BY <1>4, <1>5, <1>6, <1>7, <1>8, <1>9, <1>10 DEF Host

\* What the helper and the session do in it.
LEMMA HelperClean ==
  ASSUME TypeOK, CleanSession, ~Fault, Next \/ UNCHANGED vars, ~Host
  PROVE  /\ UNCHANGED <<opt, reader, cut>> /\ (UNCHANGED rc \/ (CopyTree /\ rc' = 0))
         /\ exit' # "killed"
         /\ outcome' = outcome \/ SessionEnds
         /\ \/ helper \notin Sending /\ helper' \notin Sending
            \/ AppexesDone
            \/ /\ helper = "send" /\ helper' = "send" /\ UNCHANGED wire
               /\ \E f \in File : todo' = todo \ {f} /\ ~Sent(f)
            \/ /\ helper = "send" /\ helper' = "send"
               /\ \E f \in File : todo' = todo \ {f} /\ pipe' = Append(pipe, Header(f))
            \/ /\ helper \in Sending /\ helper' \in Sending /\ UNCHANGED todo
               /\ helper' # helper => todo = {} \/ helper = "remove"
               /\ pipe' = pipe \/ \E u \in Unit : pipe' = Append(pipe, u)
<1>1. Unbroken /\ ~parseErr
  BY DEF CleanSession
<1>2. ~ReadFails /\ ~BrokenPipe /\ ~Killed /\ ~Cut /\ ~Unreadable
      /\ \A f \in File : ~OpenFails(f)
  BY <1>1 DEF ReadFails, BrokenPipe, Killed, Cut, Unreadable, OpenFails, Unbroken
<1>3. CASE CopyTree \/ Spawn \/ FirstDump \/ NoMainImage \/ Settle \/ BundleDone
  BY <1>1, <1>3 DEF CopyTree, Spawn, FirstDump, AfterFirst, NoMainImage, Settle, BundleDone, Steps,
     Sending, Unbroken, wire, reader
<1>4. CASE AppexesDone
  BY <1>1, <1>4 DEF AppexesDone, Unbroken, wire, reader
<1>5. CASE \E f \in File : DumpImage(f) \/ DumpAppex(f)
  BY <1>1, <1>5 DEF DumpImage, DumpAppex, Sending, Unbroken, wire, reader
<1>6. ASSUME NEW f \in File, SkipFile(f) \/ SendHeader(f)
      PROVE  /\ UNCHANGED <<opt, reader, cut, outcome, rc, exit, helper>> /\ helper = "send"
             /\ todo' = todo \ {f}
             /\ (~Sent(f) /\ UNCHANGED wire) \/ pipe' = Append(pipe, Header(f))
  BY <1>6 DEF SkipFile, SendHeader, Between, wire
<1>7. CASE \E f \in File : SkipFile(f) \/ SendHeader(f)
  BY <1>1, <1>6, <1>7 DEF Unbroken
<1>8. CASE SendBody
  <2>1. sending.left \in 1..BodyLen /\ sending.file \in Entry /\ BodyLen \in Nat
    BY <1>8, TypeParts, FrameAssumption DEF SendBody, HelperOK
  <2>2. BodyLen - sending.left + 1 \in 0..BodyLen
    BY <2>1
  <2>3. Piece(sending.file, BodyLen - sending.left + 1) \in Unit
    BY <2>1, <2>2, Units
  <2> QED
    BY <1>1, <1>8, <2>3 DEF SendBody, Unbroken, Sending
<1>9. CASE FilesSent
  <2>1. helper = "send" /\ helper' = "remove" /\ todo = {}
    BY <1>9 DEF FilesSent, Between
  <2>2. UNCHANGED <<opt, reader, cut, outcome, exit, todo>>
    BY <1>9 DEF FilesSent
  <2>3. UNCHANGED rc /\ (pipe' = pipe \/ pipe' = Append(pipe, ZipEnd))
    BY <1>1, <1>9 DEF FilesSent, Unbroken
  <2>4. exit' # "killed"
    BY <1>1, <2>2 DEF Unbroken
  <2> QED
    BY <2>1, <2>2, <2>3, <2>4, Units DEF Sending
<1>10. CASE RemoveStaging
  BY <1>1, <1>10 DEF RemoveStaging, Steps, Unbroken, Sending, wire
<1>11. CASE SessionEnds \/ UNCHANGED vars
  BY <1>1, <1>11 DEF SessionEnds, vars, device, wire, Unbroken, Sending
<1> QED
  BY <1>2, <1>3, <1>4, <1>5, <1>7, <1>8, <1>9, <1>10, <1>11 DEF Next, Helper

\* Neither side sees an error, and the walk is over before the staging copy is removed.
LEMMA SessionStep ==
  ASSUME TypeOK, StreamInv, CleanSession, ~Fault, [Next]_vars
  PROVE  CleanSession'
<1>1. CASE Host
  <2>1. UNCHANGED <<rc, cut, exit, helper, todo>> /\ ~parseErr'
    BY <1>1, HostClean DEF device
  <2>2. host' \in {"frame", "body", "copy", "fill", "complete", "verified"}
    BY <1>1, HostClean DEF Reads, Reading, Returns, Verify
  <2> QED
    BY <2>1, <2>2 DEF CleanSession, Unbroken
<1>2. CASE ~Host
  <2>1. Unbroken' /\ UNCHANGED <<host, parseErr>>
    BY <1>2, HelperClean DEF CleanSession, Unbroken, reader
  <2>2. helper' \in {"remove", "exited"} => todo' = {}
    BY <1>2, HelperClean DEF CleanSession, Sending, AppexesDone, Steps
  <2> QED
    BY <2>1, <2>2 DEF CleanSession
<1> QED
  BY <1>1, <1>2

\* A file that is on its way is not lost by the reader ...
LEMMA ReadsKeepHand ==
  ASSUME TypeOK, CleanStaging, Reads, NEW f \in File, InHand(f)
  PROVE  InHand(f)'
<1>1. /\ pipe \in Seq(Unit) /\ pipe # <<>> /\ Next1 = pipe[1] /\ pipe' = Tail(pipe)
      /\ Len(pipe') = Len(pipe) - 1 /\ Len(pipe) \in Nat
      /\ \A i \in 1..Len(pipe') : pipe'[i] = pipe[i + 1]
  <2>1. pipe \in Seq(Unit) /\ pipe # <<>> /\ pipe' = Tail(pipe)
    BY TypeParts DEF Reads, Take, WireOK
  <2>2. PICK q \in Seq(Unit) : q = pipe'
    BY <2>1
  <2> QED
    BY <2>1, <2>2 DEF Next1
<1>2. ASSUME Next1 # Header(f), \E i \in 1..Len(pipe) : pipe[i] = Header(f)
      PROVE  InHand(f)'
  <2>1. PICK i \in 1..Len(pipe) : pipe[i] = Header(f)
    BY <1>2
  <2>2. i # 1
    BY <1>1, <1>2, <2>1
  <2>3. i - 1 \in 1..Len(pipe') /\ pipe'[i - 1] = Header(f)
    BY <1>1, <2>1, <2>2
  <2> QED
    BY <2>3 DEF InHand
<1>3. entries \in [Entry -> Version \cup {Garbled}] /\ cur.file \in Entry /\ f \in Entry
      /\ cur.left \in Nat
  BY TypeParts, FrameAssumption DEF HostOK, Entry
<1>4. version[f] # "none"
  BY FrameAssumption DEF CleanStaging, Source, Entry
<1>5. CASE TakesPiece
  <2>1. Next1 # Header(f)
    BY <1>5 DEF TakesPiece, Header
  <2>2. CASE entries[f] # "none"
    <3>1. entries'[f] # "none"
      BY <1>3, <1>4, <1>5, <2>2 DEF TakesPiece
    <3> QED
      BY <3>1 DEF InHand
  <2>3. CASE cur.left > 0 /\ cur.file = f
    <3>1. (cur'.left > 0 /\ cur'.file = f) \/ entries'[f] # "none"
      BY <1>3, <1>4, <1>5, <2>3 DEF TakesPiece
    <3> QED
      BY <3>1 DEF InHand
  <2> QED
    BY <1>2, <2>1, <2>2, <2>3 DEF InHand
<1>6. CASE TakesEnd
  <2>1. Next1 # Header(f)
    BY <1>6 DEF TakesEnd, ZipEnd, Header
  <2> QED
    BY <1>2, <1>6, <2>1 DEF TakesEnd, InHand
<1>7. ASSUME NEW g \in File, TakesHead(g)
      PROVE  InHand(f)'
  <2>1. cur.left = 0 /\ UNCHANGED entries /\ Next1 = Header(g)
        /\ cur'.file = g /\ cur'.left = BodyLen
    BY <1>7 DEF TakesHead
  <2>2. CASE g = f
    BY <2>1, <2>2, FrameAssumption DEF InHand
  <2>3. CASE g # f
    <3>1. Next1 # Header(f)
      BY <2>1, <2>3 DEF Header
    <3> QED
      BY <1>2, <2>1, <3>1 DEF InHand
  <2> QED
    BY <2>2, <2>3
<1> QED
  BY <1>5, <1>6, <1>7 DEF Reads

\* ... nor by the helper.
LEMMA SendsKeepHand ==
  ASSUME TypeOK, UNCHANGED <<cur, entries>>,
         pipe' = pipe \/ \E u \in Unit : pipe' = Append(pipe, u),
         NEW f \in File, InHand(f)
  PROVE  InHand(f)'
<1>1. CASE pipe' = pipe
  BY <1>1 DEF InHand
<1>2. ASSUME NEW u \in Unit, pipe' = Append(pipe, u)
      PROVE  InHand(f)'
  <2>1. pipe \in Seq(Unit)
    BY TypeParts DEF WireOK
  <2>2. \A i \in 1..Len(pipe) : i \in 1..Len(pipe') /\ pipe'[i] = pipe[i]
    BY <1>2, <2>1
  <2> QED
    BY <2>2 DEF InHand
<1> QED
  BY <1>1, <1>2

\* What is to be sent is still to come, on its way, or stored.
LEMMA HandStep ==
  ASSUME TypeOK, StreamInv, CleanStaging, CleanSession, CleanSent, ~Fault, [Next]_vars,
         helper' \in Sending, NEW f \in File, Sent(f)'
  PROVE  f \in todo' \/ InHand(f)'
<1>1. /\ UNCHANGED opt /\ File \subseteq Entry
  BY HostClean, HelperClean DEF CopyTree, Entry
<1>2. CASE AppexesDone
  BY <1>2 DEF AppexesDone
<1>3. CASE helper \in Sending
  <2>1. UNCHANGED <<version, linked>>
    <3>1. ~Dumping
      BY <1>3 DEF Dumping, FirstDump, Settle, DumpImage, DumpAppex, AfterFirst, Steps, Sending
    <3> QED
      BY <3>1, OthersKeepStaging DEF staging
  <2>2. Sent(f)
    BY <1>1, <2>1 DEF Sent, Execs
  <2>3. f \in todo \/ InHand(f)
    BY <1>3, <2>2 DEF CleanSent
  <2>4. CASE Host
    <3>1. UNCHANGED <<todo, helper>>
      BY <2>4, HostClean DEF device
    <3>2. CASE Reads
      BY <2>3, <3>1, <3>2, ReadsKeepHand
    <3>3. CASE Returns \/ Verify
      BY <2>3, <3>1, <3>3 DEF Returns, Verify, wire, InHand
    <3>4. CASE Fill /\ host' = "complete"
      <4>1. UNCHANGED <<pipe, cur>> /\ (entries'[f] = entries[f] \/ entries'[f] = Source[f])
        BY <1>1, <3>4 DEF Fill, wire
      <4>2. Source[f] # "none"
        BY <1>1, FrameAssumption DEF Source
      <4> QED
        BY <2>3, <3>1, <3>4, <4>1, <4>2 DEF Fill, wire, InHand
    <3> QED
      BY <2>4, <3>2, <3>3, <3>4, HostClean
  <2>5. CASE ~Host
    <3>1. UNCHANGED <<cur, entries>>
      BY <2>5, HelperClean DEF reader, CopyTree
    <3>2. ASSUME pipe' = pipe \/ \E u \in Unit : pipe' = Append(pipe, u), InHand(f)
          PROVE  InHand(f)'
      BY <3>1, <3>2, SendsKeepHand
    <3>3. CASE UNCHANGED wire /\ \E g \in File : todo' = todo \ {g} /\ ~Sent(g)
      BY <2>2, <2>3, <3>2, <3>3 DEF wire
    <3>4. ASSUME NEW g \in File, todo' = todo \ {g}, pipe' = Append(pipe, Header(g))
          PROVE  f \in todo' \/ InHand(f)'
      <4>1. Header(g) \in Unit
        BY <1>1, Units
      <4>2. CASE f = g
        <5>1. pipe \in Seq(Unit)
          BY TypeParts DEF WireOK
        <5>2. Len(pipe) + 1 \in 1..Len(pipe') /\ pipe'[Len(pipe) + 1] = Header(f)
          BY <3>4, <4>1, <4>2, <5>1
        <5> QED
          BY <5>2 DEF InHand
      <4> QED
        BY <2>3, <3>2, <3>4, <4>1, <4>2
    <3>5. CASE UNCHANGED todo /\ (pipe' = pipe \/ \E u \in Unit : pipe' = Append(pipe, u))
      BY <2>3, <3>2, <3>5
    <3> QED
      BY <1>3, <2>5, <3>3, <3>4, <3>5, <1>2, HelperClean
  <2> QED
    BY <2>4, <2>5
<1> QED
  BY <1>2, <1>3, HostClean, HelperClean DEF device

\* What Verify is given: every file, decrypted unless it was to be left out.
LEMMA FilledClean ==
  ASSUME TypeOK, StreamInv, CleanStaging, CleanSession, CleanSent, Fill, host' = "complete"
  PROVE  \A f \in File : entries'[f] = version[f]
<1> SUFFICES ASSUME NEW f \in File PROVE entries'[f] = version[f]
  OBVIOUS
<1>1. host = "fill" /\ cur.left = 0 /\ Kept /\ outcome = "zero"
      /\ entries' = IF Execs
                    THEN [e \in Entry |-> IF entries[e] = "none" THEN Source[e] ELSE entries[e]]
                    ELSE entries
  BY DEF Fill, StreamInv, StreamOK, EndOK, CleanSent
<1>2. pipe = <<>> /\ helper = "exited" /\ todo = {}
  BY <1>1 DEF StreamInv, EndOK, SenderOK, CleanSession
<1>3. Sent(f) => entries[f] # "none"
  <2>1. Sent(f) => InHand(f)
    BY <1>2 DEF CleanSent, Sending
  <2> QED
    BY <1>1, <1>2, <2>1 DEF InHand
<1>4. f \in Entry /\ Source[f] \in {"cipher", "clear"}
      /\ version[f] \in {"plain", Source[f]} /\ (f \in linked => version[f] = Source[f])
  BY FrameAssumption DEF Entry, Source, CleanStaging
<1>5. entries[f] \in {"none", version[f]}
  BY <1>1, <1>4 DEF Kept
<1>6. entries[f] = "none" => Execs /\ version[f] = Source[f]
  BY <1>3, <1>4 DEF Sent
<1> QED
  BY <1>1, <1>4, <1>5, <1>6

\* What Verify finds: what --skip-appex left out of Extensions/, and nothing else.
LEMMA VerifiedClean ==
  ASSUME TypeOK, StreamInv, CleanStaging, CleanSent, Verify
  PROVE  verdict' = IF LeftOut THEN "flagged" ELSE "ok"
<1>1. host = "complete" /\ helper = "exited" /\ \A f \in File : entries[f] = version[f]
  BY DEF Verify, StreamInv, EndOK, SenderOK, CleanSent, Delivered
<1>2. \A f \in File : f \in Entry /\ Source[f] = IF f \in Encrypted THEN "cipher" ELSE "clear"
  BY FrameAssumption DEF Entry, Source
<1>3. \A f \in File : version[f] \in {"plain", Source[f]}
  BY DEF CleanStaging
<1>4. \A f \in File : ~Panics(f) /\ (Flagged(f) <=> version[f] = "cipher")
  BY <1>1, <1>2, <1>3 DEF Panics, Flagged
<1>5. Scanned = {f \in File : ~Exempt(f)}
  BY <1>1, <1>2, <1>3 DEF Scanned
<1>6. Dumped({Main} \cap Encrypted) /\ Dumped(Framework \cap Encrypted) /\ Dumped(AppexTodo)
      /\ (opt.skipAppex => \A f \in Appex : version[f] = Source[f])
  BY <1>1 DEF CleanStaging, Sending
<1>7. (\E f \in Scanned : Flagged(f)) <=> LeftOut
  <2>1. ASSUME NEW f \in Scanned, Flagged(f) PROVE LeftOut
    <3>1. f \in File /\ version[f] = "cipher" /\ f \in Encrypted /\ ~Exempt(f)
      BY <1>2, <1>3, <1>4, <1>5, <2>1
    <3>2. f \in Appex /\ f \notin AppexTodo
      BY <1>6, <3>1 DEF Dumped, File
    <3> QED
      BY <3>1, <3>2 DEF AppexTodo, Exempt, Appex, LeftOut
  <2>2. ASSUME LeftOut PROVE \E f \in Scanned : Flagged(f)
    <3>1. PICK f \in Extension \cap Encrypted : opt.skipAppex
      BY <2>2 DEF LeftOut
    <3>2. f \in Appex /\ f \in File /\ ~Exempt(f)
      BY <3>1, FrameAssumption DEF Appex, File, Exempt
    <3> QED
      BY <1>2, <1>4, <1>5, <1>6, <3>1, <3>2
  <2> QED
    BY <2>1, <2>2
<1>8. verdict' = IF \E f \in Scanned : Flagged(f) THEN "flagged" ELSE "ok"
  BY <1>4, <1>5 DEF Verify
<1> QED
  BY <1>7, <1>8

\* The walk, the reader and Verify of such a run, step by step.
LEMMA SentStep ==
  ASSUME TypeOK, StreamInv, VerdictInv, CleanStaging, CleanSession, CleanSent, ~Fault, [Next]_vars
  PROVE  CleanSent'
<1>1. UNCHANGED opt /\ (LeftOut' <=> LeftOut)
  BY HostClean, HelperClean DEF CopyTree, LeftOut
<1>2. helper' \in Sending => \A f \in File : Sent(f)' => f \in todo' \/ InHand(f)'
  BY HandStep
<1>3. CASE Host
  <2>1. UNCHANGED <<version, helper>>
    BY <1>3, HostClean DEF device, staging
  <2>2. CASE Reads \/ Returns
    <3>1. /\ host' = "fill" => cur'.left = 0
          /\ ~Delivered' /\ UNCHANGED verdict /\ host # "verified"
      BY <2>2 DEF Reads, Returns, Reading, Delivered
    <3> QED
      BY <1>2, <3>1 DEF VerdictInv, CleanSent
  <2>3. CASE Fill /\ host' = "complete"
    <3>1. \A f \in File : entries'[f] = version'[f]
      BY <2>1, <2>3, FilledClean
    <3>2. verdict' = "none"
      BY <2>3 DEF Fill, VerdictInv
    <3> QED
      BY <1>2, <2>3, <3>1, <3>2 DEF CleanSent
  <2>4. CASE Verify
    <3>1. host = "complete" /\ host' = "verified" /\ UNCHANGED entries
      BY <2>4 DEF Verify
    <3>2. verdict' = IF LeftOut' THEN "flagged" ELSE "ok"
      BY <1>1, <2>4, VerifiedClean
    <3>3. \A f \in File : entries'[f] = version'[f]
      BY <2>1, <3>1 DEF CleanSent, Delivered
    <3> QED
      BY <1>2, <3>1, <3>2, <3>3 DEF CleanSent
  <2> QED
    BY <1>3, <2>2, <2>3, <2>4, HostClean
<1>4. CASE ~Host
  <2>1. UNCHANGED <<host, cur, entries, verdict>>
    BY <1>4, HelperClean DEF reader, CopyTree
  <2>2. Delivered => UNCHANGED version
    <3>1. Delivered => ~Dumping
      BY DumpsRewrite
    <3> QED
      BY <3>1, OthersKeepStaging DEF staging
  <2>3. Delivered' => \A f \in File : entries'[f] = version'[f]
    BY <2>1, <2>2 DEF CleanSent, Delivered
  <2>4. (host' = "fill" => cur'.left = 0)
        /\ (verdict' # "none" => verdict' = IF LeftOut' THEN "flagged" ELSE "ok")
    BY <1>1, <2>1 DEF CleanSent
  <2> QED
    BY <1>2, <2>3, <2>4 DEF CleanSent
<1> QED
  BY <1>3, <1>4

\* For any app: a run in which nothing fails decrypts every file it was asked to, and
\* Verify accepts the result unless Extensions/ was left out.
THEOREM FaultlessDecrypts == Spec => []CleanRunDecrypts
<1> DEFINE Inv == StreamInv /\ VerdictInv /\ CleanInv
<1>1. Init => Inv
  <2> SUFFICES ASSUME Init PROVE Inv
    OBVIOUS
  <2>1. VerdictInv
    BY DEF Init, VerdictInv, VerifiedNotEncrypted
  <2>2. helper = "stage" /\ traced = FALSE /\ version = Source /\ installed = Source /\ rc = 0
        /\ cut = FALSE /\ exit = "none" /\ parseErr = FALSE /\ host \in {"frame", "copy"} /\ verdict = "none"
    BY DEF Init
  <2>3. CleanStaging
    BY <2>2 DEF CleanStaging, Sending, File, Appex
  <2>4. CleanSession /\ CleanSent
    BY <2>2 DEF CleanSession, Unbroken, CleanSent, Sending, Delivered
  <2> QED
    BY <2>1, <2>3, <2>4, StreamInit DEF CleanInv
<1>2. TypeOK /\ Inv /\ [Next]_vars => Inv'
  <2> SUFFICES ASSUME TypeOK, Inv, [Next]_vars PROVE Inv'
    OBVIOUS
  <2>1. StreamInv' /\ VerdictInv'
    BY StreamStep, VerdictStep
  <2>2. ASSUME faults' = 0 PROVE (CleanStaging /\ CleanSession /\ CleanSent)'
    <3>1. faults = 0 /\ ~Fault
      <4>1. faults \in Nat
        BY FrameAssumption DEF TypeOK
      <4>2. NoFault \/ Fault
        BY StepCounts
      <4>3. ~Fault
        BY <2>2, <4>1 DEF Fault
      <4> QED
        BY <2>2, <4>2, <4>3 DEF NoFault
    <3>2. CleanStaging /\ CleanSession /\ CleanSent
      BY <3>1 DEF CleanInv
    <3> QED
      BY <3>1, <3>2, StagingStep, SessionStep, SentStep
  <2> QED
    BY <2>1, <2>2 DEF CleanInv
<1>3. TypeOK /\ Inv => CleanRunDecrypts
  <2> SUFFICES ASSUME TypeOK, Inv, verdict # "none", faults = 0
               PROVE  /\ \A f \in Requested \cap Encrypted : entries[f] = "plain"
                      /\ verdict = IF LeftOut THEN "flagged" ELSE "ok"
    BY DEF CleanRunDecrypts
  <2>1. CleanStaging /\ CleanSent
    BY DEF CleanInv
  <2>2. host = "verified" /\ helper = "exited"
    BY DEF VerdictInv, StreamInv, EndOK, SenderOK
  <2>3. Dumped({Main} \cap Encrypted) /\ Dumped(Framework \cap Encrypted) /\ Dumped(AppexTodo)
    BY <2>1, <2>2 DEF CleanStaging, Sending
  <2>4. \A f \in File : entries[f] = version[f]
    BY <2>1, <2>2 DEF CleanSent, Delivered
  <2>5. \A f \in Requested \cap Encrypted : f \in File /\ version[f] = "plain"
    <3>1. Requested \subseteq File /\ (opt.skipAppex => Requested \cap Appex = {})
      BY DEF Requested
    <3>2. ~opt.skipAppex => AppexTodo = Appex \cap Encrypted
      BY DEF AppexTodo
    <3>3. ASSUME NEW f \in Requested \cap Encrypted PROVE f \in File /\ version[f] = "plain"
      <4>1. f \in File /\ f \in Encrypted
        BY <3>1, <3>3
      <4>2. f \in Appex => f \in AppexTodo
        BY <3>1, <3>2, <3>3
      <4> QED
        BY <2>3, <4>1, <4>2 DEF Dumped, File
    <3> QED
      BY <3>3
  <2> QED
    BY <2>1, <2>4, <2>5 DEF CleanSent
<1> HIDE DEF Inv
<1> QED
  BY <1>1, <1>2, <1>3, TypeCorrect, PTL DEF Spec

-----------------------------------------------------------------------------
(* What the one-link filter of emit_machos_recursive really tells.          *)

\* Where all links could be made, the file being sent is decrypted, or else a dump of it
\* failed half-way in this run.
SentWasDumped ==
  Execs /\ opt.links /\ sending.left > 0 =>
    \/ version[sending.file] = "plain"
    \/ version[sending.file] \in (Truncated \ {"stub"}) \cup {"mixed"} /\ faults > 0

\* A file that is a link no more has been dumped, well or badly.
DumpedOrLinked ==
  opt.links => \A g \in File \ linked :
    version[g] = "plain" \/ (version[g] \in Truncated \cup {"none", "mixed"} /\ faults > 0)

\* The file being sent has passed the filter.
SendingSent == sending.left > 0 => sending.file \in File /\ Sent(sending.file)

\* Failures are only ever added up.
LEMMA FaultsGrow ==
  ASSUME TypeOK, [Next]_vars
  PROVE  faults \in Nat /\ faults' \in Nat /\ faults' >= faults
<1>1. faults \in Nat
  BY FrameAssumption DEF TypeOK
<1>2. NoFault \/ Fault
  BY StepCounts
<1> QED
  BY <1>1, <1>2 DEF NoFault, Fault

\* A dump leaves the file it takes dumped, and the others as they were.
LEMMA DumpKeepsDumped ==
  ASSUME TypeOK, DumpedOrLinked, NEW f \in File, Dump(f), opt' = opt
  PROVE  DumpedOrLinked'
<1>1. version \in [Entry -> Version] /\ File \subseteq Entry /\ linked \subseteq File
  BY TypeParts DEF StagingOK, Entry
<1>2. faults \in Nat
  BY FrameAssumption DEF TypeOK
<1>3. faults' \in Nat /\ faults' >= faults /\ (Fault => faults' > 0)
  BY <1>2 DEF Dump, NoFault, Fault
<1>4. CASE UNCHANGED staging
  <2>1. UNCHANGED <<version, linked>>
    BY <1>4 DEF staging
  <2> QED
    BY <1>2, <1>3, <2>1 DEF DumpedOrLinked
<1>5. ASSUME NEW v \in Version, WriteOutput(f, v),
             v = "plain" \/ (v \in Truncated \cup {"none", "mixed"} /\ Fault)
      PROVE  DumpedOrLinked'
  <2>1. version' = [version EXCEPT ![f] = v] /\ linked' = linked \ {f}
    BY <1>5 DEF WriteOutput, Create
  <2>2. version'[f] = v /\ \A g \in File \ {f} : version'[g] = version[g]
    BY <1>1, <2>1
  <2>3. ASSUME opt.links, NEW g \in File \ linked'
        PROVE  version'[g] = "plain" \/ (version'[g] \in Truncated \cup {"none", "mixed"} /\ faults' > 0)
    <3>1. CASE g = f
      BY <1>3, <1>5, <2>2, <3>1
    <3>2. CASE g # f
      <4>1. g \in File \ linked /\ version'[g] = version[g]
        BY <2>1, <2>2, <2>3, <3>2
      <4> QED
        BY <1>2, <1>3, <2>3, <4>1 DEF DumpedOrLinked
    <3> QED
      BY <3>1, <3>2
  <2> QED
    BY <2>3 DEF DumpedOrLinked
<1>6. CASE NoFault /\ WriteOutput(f, "plain")
  BY <1>5, <1>6 DEF Version
<1>7. CASE Fault /\ \E v \in Truncated \cup {"none", "mixed"} : WriteOutput(f, v)
  BY <1>5, <1>7 DEF Version
<1>8. CASE Fault /\ \E v \in {"plain", "body"} : WriteThrough(f, v)
  <2>1. linked' = linked /\ f \in linked /\ \A g \in File \ {f} : version'[g] = version[g]
    BY <1>1, <1>8 DEF WriteThrough
  <2> QED
    BY <1>2, <1>3, <2>1 DEF DumpedOrLinked
<1> QED
  BY <1>4, <1>6, <1>7, <1>8 DEF Dump

\* The dumps go before the sending, and what is sent next has passed the filter.
LEMMA FilterStep ==
  ASSUME TypeOK, StreamInv, DumpedOrLinked, SendingSent, [Next]_vars
  PROVE  DumpedOrLinked' /\ SendingSent'
<1>1. opt' = opt
  BY StepKeepsOpt
<1>2. CASE Dumping
  <2>1. UNCHANGED sending /\ helper \in Early
    BY <1>2 DEF Dumping, FirstDump, AfterFirst, Settle, DumpImage, DumpAppex, Steps, Early
  <2>2. ~(sending'.left > 0)
    BY <2>1 DEF StreamInv, SenderOK, Idle
  <2>3. UNCHANGED staging \/ \E f \in File : Dump(f)
    BY <1>2 DEF Dumping, FirstDump, Settle, DumpMain, DumpImage, DumpAppex, File
  <2>4. DumpedOrLinked'
    <3>1. CASE UNCHANGED staging
      BY <1>1, <3>1, FaultsGrow DEF staging, DumpedOrLinked
    <3>2. CASE \E f \in File : Dump(f)
      BY <1>1, <3>2, DumpKeepsDumped
    <3> QED
      BY <2>3, <3>1, <3>2
  <2> QED
    BY <2>2, <2>4 DEF SendingSent
<1>3. CASE ~Dumping
  <2>1. UNCHANGED <<version, linked>>
    BY <1>3, OthersKeepStaging DEF staging
  <2>2. DumpedOrLinked'
    BY <1>1, <2>1, FaultsGrow DEF DumpedOrLinked
  <2>3. \A g \in File : Sent(g)' <=> Sent(g)
    BY <1>1, <2>1 DEF Sent, Execs
  <2>4. \/ sending' = Idle
        \/ sending.left > 0 /\ sending'.file = sending.file
        \/ sending' = sending
        \/ \E f \in File : Sent(f) /\ sending'.file = f
    <3>1. sending \in [file : Entry, left : 0..BodyLen]
      BY TypeParts DEF HelperOK
    <3>2. CASE SendBody
      BY <3>1, <3>2 DEF SendBody
    <3>3. CASE \E f \in File : SendHeader(f)
      BY <3>3 DEF SendHeader
    <3>4. CASE ~SendBody /\ ~\E f \in File : SendHeader(f)
      <4>1. sending' = Idle \/ sending' = sending
        BY <1>3, <3>4 DEF Dumping, Next, Helper, Host, vars, device, CopyTree, Spawn,
           NoMainImage, BundleDone, AppexesDone, ReadFails, BrokenPipe,
           FilesSent, RemoveStaging, Killed, Cut, SessionEnds, SkipFile, Unreadable,
           OpenFails, ReadHeader, ReadBody, BodyEndsShort, HandlerFails, Drain, RunReturns,
           CopyBytes, CopyFails, CopyReturns, Fill, Verify
      <4> QED
        BY <4>1
    <3> QED
      BY <3>2, <3>3, <3>4
  <2>5. SendingSent'
    BY <2>3, <2>4 DEF SendingSent, Idle
  <2> QED
    BY <2>2, <2>5
<1> QED
  BY <1>2, <1>3

\* SentWasDumped: where links can be made the filter never lets through a file as the App
\* Store shipped it, and in a run in which nothing fails it sends decrypted files only.
\* (SentIsDecrypted, which also rules out dumps cut short, is what the code does not keep.)
THEOREM FilterSendsDumps == Spec => []SentWasDumped
<1> DEFINE Inv == StreamInv /\ DumpedOrLinked /\ SendingSent
<1>1. Init => Inv
  BY StreamInit DEF Init, DumpedOrLinked, SendingSent, Idle
<1>2. TypeOK /\ Inv /\ [Next]_vars => Inv'
  BY StreamStep, FilterStep
<1>3. Inv => SentWasDumped
  BY DEF DumpedOrLinked, SendingSent, SentWasDumped, Sent
<1> HIDE DEF Inv
<1> QED
  BY <1>1, <1>2, <1>3, TypeCorrect, PTL DEF Spec

-----------------------------------------------------------------------------
(* The installed app.                                                       *)

\* What a failed unlink can do: a file that was to be decrypted holds its own dump, and is
\* a link still.
Damage ==
  \A f \in Entry : installed[f] # Source[f] =>
    /\ f \in linked /\ f \in Encrypted /\ installed[f] \in {"plain", "body"}
    /\ version[f] = installed[f]
    /\ opt.skipAppex => f \notin Appex

NoDamage == faults = 0 => installed = Source

\* Through the one-link filter nothing of a link gets onto the wire or into the IPA, which
\* Assemble completes from the source.
Announced(q, f) == \E i \in 1..Len(q) : q[i][1] = "head" /\ q[i][2] = f

Coming(f) == \/ entries[f] # "none"
             \/ cur.left > 0 /\ cur.file = f
             \/ Announced(pipe, f)

Filtered ==
  /\ Execs /\ ~Delivered => \A f \in linked : ~Coming(f)
  /\ Execs /\ Delivered => \A f \in linked : entries[f] = Source[f]

\* A dump of an encrypted file that was asked for.
DumpWanted(f) ==
  /\ Dump(f) /\ f \in Encrypted /\ installed[f] = "cipher"
  /\ opt.skipAppex => f \notin Appex

\* A dump that writes through a link harms the file it is about, which nobody has harmed
\* before.
LEMMA DumpDamages ==
  ASSUME TypeOK, Damage, NoDamage, UNCHANGED opt, NEW f \in File, DumpWanted(f)
  PROVE  Damage' /\ NoDamage'
<1>0. Dump(f) /\ f \in Encrypted /\ installed[f] = "cipher" /\ (opt.skipAppex => f \notin Appex)
  BY DEF DumpWanted
<1>1. /\ StagingOK /\ f \in Entry /\ Source[f] = "cipher" /\ faults \in Nat
      /\ Source' = Source
  BY <1>0, TypeParts, FrameAssumption DEF Entry, Source, TypeOK
<1>2. CASE UNCHANGED installed /\ (NoFault \/ Fault)
           /\ (UNCHANGED staging \/ \E v \in Version : WriteOutput(f, v))
  <2>1. /\ linked \ {f} \subseteq linked'
        /\ \A g \in Entry : g # f => version'[g] = version[g]
    BY <1>1, <1>2 DEF staging, WriteOutput, Create, StagingOK
  <2>2. Damage'
    BY <1>0, <1>1, <1>2, <2>1 DEF Damage
  <2>3. NoDamage'
    BY <1>1, <1>2 DEF NoDamage, NoFault, Fault
  <2> QED
    BY <2>2, <2>3
<1>3. ASSUME NEW v \in {"plain", "body"}, WriteThrough(f, v), Fault
      PROVE  Damage' /\ NoDamage'
  <2>1. /\ f \in linked /\ linked' = linked
        /\ version'[f] = v /\ installed'[f] = v
        /\ \A g \in Entry : g # f => version'[g] = version[g] /\ installed'[g] = installed[g]
    BY <1>1, <1>3 DEF WriteThrough, StagingOK
  <2>2. Damage'
    BY <1>0, <1>1, <2>1 DEF Damage
  <2>3. faults' # 0
    BY <1>1, <1>3 DEF Fault
  <2> QED
    BY <2>2, <2>3 DEF NoDamage
<1>4. "plain" \in Version /\ Truncated \cup {"none", "mixed"} \subseteq Version
  BY DEF Version
<1> QED
  BY <1>0, <1>2, <1>3, <1>4 DEF Dump, staging, WriteOutput, Create

\* What is dumped is encrypted as it is installed, and was asked for.
LEMMA DumpsWanted ==
  ASSUME TypeOK, Pending, Damage, Dumping
  PROVE  UNCHANGED staging \/ \E f \in File : DumpWanted(f)
<1>1. /\ Main \in File /\ Main \notin Appex /\ Framework \cap Appex = {} /\ File \subseteq Entry
  BY FrameAssumption DEF File, Entry
<1>2. \A f \in File \cap Encrypted : Source[f] = "cipher"
  BY <1>1, FrameAssumption DEF Source
<1>3. CASE FirstDump \/ Settle
  <2>1. installed[Main] = "cipher" => Main \in Encrypted
    BY <1>1 DEF Damage, Source
  <2>2. UNCHANGED staging \/ (Dump(Main) /\ installed[Main] = "cipher")
    BY <1>3 DEF FirstDump, Settle, DumpMain
  <2> QED
    BY <1>1, <2>1, <2>2 DEF DumpWanted
<1>4. ASSUME NEW f \in File, DumpImage(f) \/ DumpAppex(f)
      PROVE  DumpWanted(f)
  <2>1. Dump(f) /\ Untouched(f) /\ (f \in Framework \cap Encrypted \/ f \in AppexTodo)
    BY <1>4 DEF DumpImage, DumpAppex, Pending
  <2>2. f \in Encrypted /\ (opt.skipAppex => f \notin Appex)
    BY <1>1, <2>1 DEF AppexTodo
  <2> QED
    BY <1>2, <2>1, <2>2 DEF Untouched, DumpWanted
<1> QED
  BY <1>3, <1>4 DEF Dumping

\* Every step leaves an installed file as it was, or as a dump of it that failed to unlink.
LEMMA DamageStep ==
  ASSUME TypeOK, Pending, Damage, NoDamage, [Next]_vars
  PROVE  Damage' /\ NoDamage'
<1>1. UNCHANGED opt
  BY StepKeepsOpt
<1>2. CASE UNCHANGED staging
  BY <1>1, <1>2, FaultsGrow DEF staging, Damage, NoDamage, Source
<1>3. CASE ~UNCHANGED staging
  <2>1. Dumping
    BY <1>3, OthersKeepStaging
  <2>2. PICK f \in File : DumpWanted(f)
    BY <1>3, <2>1, DumpsWanted
  <2> QED
    BY <1>1, <2>2, DumpDamages
<1> QED
  BY <1>2, <1>3

\* Links only become fewer.
LEMMA LinksShrink ==
  ASSUME TypeOK, [Next]_vars
  PROVE  linked' \subseteq linked
<1>1. CASE Dumping
  BY <1>1 DEF Dumping, FirstDump, Settle, DumpMain, DumpImage, DumpAppex, Dump, staging,
     WriteOutput, Create, WriteThrough
<1> QED
  BY <1>1, OthersKeepStaging DEF staging

\* What a shorter or a longer stream announces.
LEMMA AnnouncedIn ==
  ASSUME NEW q \in Seq(Unit), NEW f
  PROVE  /\ q # <<>> => /\ Announced(Tail(q), f) => Announced(q, f)
                        /\ Head(q)[1] = "head" /\ Head(q)[2] = f => Announced(q, f)
         /\ \A u \in Unit : Announced(Append(q, u), f) =>
              Announced(q, f) \/ (u[1] = "head" /\ u[2] = f)
         /\ \A k \in 0..Len(q) : Announced(SubSeq(q, 1, k), f) => Announced(q, f)
<1>1. ASSUME q # <<>>, NEW t \in Seq(Unit), t = Tail(q), Announced(t, f) PROVE Announced(q, f)
  <2>1. PICK i \in 1..Len(t) : t[i][1] = "head" /\ t[i][2] = f
    BY <1>1 DEF Announced
  <2>2. i + 1 \in 1..Len(q) /\ q[i + 1] = t[i]
    BY <1>1
  <2> QED BY <2>1, <2>2 DEF Announced
<1>2. q # <<>> => 1 \in 1..Len(q) /\ Head(q) = q[1]
  OBVIOUS
<1>3. ASSUME NEW u \in Unit, NEW a \in Seq(Unit), a = Append(q, u), Announced(a, f)
      PROVE  Announced(q, f) \/ (u[1] = "head" /\ u[2] = f)
  <2>1. PICK i \in 1..Len(a) : a[i][1] = "head" /\ a[i][2] = f
    BY <1>3 DEF Announced
  <2>2. (i \in 1..Len(q) /\ a[i] = q[i]) \/ a[i] = u
    BY <1>3
  <2> QED BY <2>1, <2>2 DEF Announced
<1>4. ASSUME NEW k \in 0..Len(q), NEW b \in Seq(Unit), b = SubSeq(q, 1, k), Announced(b, f)
      PROVE  Announced(q, f)
  <2>1. PICK i \in 1..Len(b) : b[i][1] = "head" /\ b[i][2] = f
    BY <1>4 DEF Announced
  <2>2. i \in 1..Len(q) /\ b[i] = q[i]
    BY <1>4
  <2> QED BY <2>1, <2>2 DEF Announced
<1>5. /\ q # <<>> => Tail(q) \in Seq(Unit)
      /\ \A u \in Unit : Append(q, u) \in Seq(Unit)
      /\ \A k \in 0..Len(q) : SubSeq(q, 1, k) \in Seq(Unit)
  OBVIOUS
<1>6. q # <<>> => /\ Announced(Tail(q), f) => Announced(q, f)
                  /\ Head(q)[1] = "head" /\ Head(q)[2] = f => Announced(q, f)
  BY <1>1, <1>2, <1>5 DEF Announced
<1> QED BY <1>3, <1>4, <1>5, <1>6

\* The reader stores and reads only what was announced.
LEMMA ReaderFilters ==
  ASSUME TypeOK, StreamInv, Host, ~Verify, ~(Fill /\ host' = "complete"),
         NEW f \in File, ~Coming(f)
  PROVE  ~Coming(f)' /\ ~Delivered'
<1>1. /\ f # Stray /\ f \in Entry /\ pipe \in Seq(Unit) /\ entries[f] = "none"
      /\ cur.file # f
      /\ cur.file \in Entry /\ entries \in [Entry -> Version \cup {Garbled}]
  <2>1. /\ cur \in [file : Entry, left : 0..BodyLen, own : BOOLEAN] /\ BodyLen \in Nat
        /\ cur.left = 0 => cur = NoFrame
    BY TypeParts, FrameAssumption DEF HostOK, StreamInv, ReaderOK
  <2> QED
    BY <2>1, TypeParts, FrameAssumption DEF Entry, HostOK, WireOK, Coming, NoFrame
<1>2. Take => ~Announced(pipe', f) /\ (Next1[1] = "head" => Next1[2] # f)
  BY <1>1, AnnouncedIn DEF Take, Next1, Coming
<1>3. UNCHANGED pipe => ~Announced(pipe', f)
  BY DEF Coming
<1>4. \A g : g # f /\ Begins(g) => cur'.file # f
  BY DEF Begins
<1>5. /\ \A own \in BOOLEAN : Store(own) => entries'[f] = "none" /\ cur'.file # f
      /\ More => entries'[f] = "none" /\ cur'.file # f
  <2>1. More => cur'.file # f
    <3>1. cur \in [file : Entry, left : 0..BodyLen, own : BOOLEAN]
      BY TypeParts DEF HostOK
    <3> QED
      BY <1>1, <3>1 DEF More
  <2> QED
    BY <1>1, <2>1 DEF Store, More, NoFrame
<1>6. Own \in BOOLEAN /\ FALSE \in BOOLEAN
  BY TypeParts, FrameTyped
<1>7. entries'[f] = "none" /\ cur'.file # f /\ ~Announced(pipe', f) /\ ~Delivered'
  <2>1. CASE ReadHeader
    BY <1>1, <1>2, <1>4, <2>1 DEF ReadHeader, Delivered
  <2>2. CASE ReadBody
    BY <1>2, <1>5, <1>6, <2>2 DEF ReadBody, Delivered
  <2>3. CASE BodyEndsShort
    BY <1>3, <1>5, <1>6, <2>3 DEF BodyEndsShort, Delivered, wire
  <2>4. CASE HandlerFails
    BY <1>1, <1>3, <2>4 DEF HandlerFails, Delivered, wire, NoFrame
  <2>5. CASE Drain
    BY <1>1, <1>2, <2>5 DEF Drain, Delivered, reader
  <2>6. CASE RunReturns \/ CopyReturns \/ CopyFails
    BY <1>1, <1>3, <2>6 DEF RunReturns, CopyReturns, CopyFails, Delivered, wire
  <2>7. CASE CopyBytes
    BY <1>1, <1>2, <1>4, <1>5, <1>6, <2>7 DEF CopyBytes, Delivered
  <2>8. CASE Fill
    BY <1>1, <1>3, <2>8 DEF Fill, Delivered, wire
  <2> QED
    BY <2>1, <2>2, <2>3, <2>4, <2>5, <2>6, <2>7, <2>8 DEF Host
<1> QED
  BY <1>7 DEF Coming

\* The helper announces no link.
LEMMA SenderFilters ==
  ASSUME TypeOK, [Next]_vars, ~Host, Execs, NEW f \in linked, ~Announced(pipe, f)
  PROVE  ~Announced(pipe', f)
<1>1. pipe \in Seq(Unit) /\ BodyLen \in Nat /\ HelperOK
  BY TypeParts, FrameAssumption DEF WireOK
<1>2. CASE SendBody
  <2>1. PICK u \in Unit : u[1] = "data" /\ pipe' = Append(pipe, u)
    <3>1. sending.file \in Entry /\ BodyLen - sending.left + 1 \in 0..BodyLen
      BY <1>1, <1>2 DEF SendBody, HelperOK
    <3> QED
      BY <1>2, <3>1, Units DEF SendBody, Piece
  <2> QED
    BY <1>1, <2>1, AnnouncedIn
<1>3. ASSUME NEW g \in File, SendHeader(g) PROVE ~Announced(pipe', f)
  <2>1. g # f
    BY <1>3 DEF SendHeader, Sent
  <2>2. Header(g) \in Unit /\ Header(g)[2] = g /\ pipe' = Append(pipe, Header(g))
    BY <1>3, Units DEF SendHeader, Header, Entry
  <2> QED
    BY <1>1, <2>1, <2>2, AnnouncedIn
<1>4. CASE FilesSent
  BY <1>1, <1>4 DEF FilesSent
<1>5. CASE Cut
  <2>1. PICK k \in 0..Len(pipe) :
          \/ pipe' = SubSeq(pipe, 1, k)
          \/ pipe' = Append(SubSeq(pipe, 1, k), Torn)
    BY <1>5 DEF Cut
  <2>2. PICK q \in Seq(Unit) : q = SubSeq(pipe, 1, k)
    <3>1. SubSeq(pipe, 1, k) \in Seq(Unit)
      BY <1>1
    <3> QED
      BY <3>1
  <2>3. ~Announced(q, f)
    BY <1>1, <2>1, <2>2, AnnouncedIn
  <2>4. ~Announced(Append(q, Torn), f)
    <3>1. Torn \in Unit /\ Torn[1] # "head"
      BY Units DEF Torn
    <3> QED
      BY <2>3, <3>1, AnnouncedIn
  <2> QED
    BY <2>1, <2>2, <2>3, <2>4
<1>6. CASE UNCHANGED pipe
  BY <1>6
<1> QED
  BY <1>2, <1>3, <1>4, <1>5, <1>6 DEF Next, Helper, Host, vars, wire, device, CopyTree, Spawn,
     FirstDump, NoMainImage, Settle, BundleDone, AppexesDone, DumpImage, DumpAppex, Unreadable,
     ReadFails, BrokenPipe, RemoveStaging, Killed, SessionEnds, SkipFile, OpenFails

\* Nothing of a link gets into the IPA.
LEMMA FilteredStep ==
  ASSUME TypeOK, StreamInv, Filtered, [Next]_vars
  PROVE  Filtered'
<1>1. (Execs' <=> Execs) /\ Source' = Source /\ linked' \subseteq linked /\ linked \subseteq File
      /\ File \subseteq Entry
  BY StepKeepsOpt, LinksShrink, TypeParts DEF Execs, Source, StagingOK, Entry
<1>2. CASE Host /\ ~Verify /\ ~(Fill /\ host' = "complete")
  <2>1. ~Delivered /\ ~Delivered'
    BY <1>2 DEF Host, Delivered, ReadHeader, ReadBody, BodyEndsShort, HandlerFails, Drain,
       RunReturns, CopyBytes, CopyFails, CopyReturns, Fill, reader
  <2> QED
    BY <1>1, <1>2, <2>1, ReaderFilters DEF Filtered
<1>3. CASE Fill /\ host' = "complete"
  <2>1. /\ ~Delivered /\ Delivered'
        /\ Execs => entries' = [e \in Entry |-> IF entries[e] = "none" THEN Source[e] ELSE entries[e]]
    BY <1>3 DEF Fill, Delivered
  <2>2. Execs => \A f \in linked : entries'[f] = Source[f]
    BY <1>1, <2>1 DEF Filtered, Coming
  <2> QED
    BY <1>1, <2>1, <2>2 DEF Filtered
<1>4. CASE Verify
  <2>1. Delivered /\ Delivered' /\ UNCHANGED entries
    BY <1>4 DEF Verify, Delivered
  <2> QED
    BY <1>1, <2>1 DEF Filtered
<1>5. CASE ~Host
  <2>1. UNCHANGED reader
    BY <1>5 DEF Next, Helper, vars, reader, CopyTree, Spawn, FirstDump, NoMainImage, Settle,
       BundleDone, AppexesDone, DumpImage, DumpAppex, SendBody, ReadFails, BrokenPipe, FilesSent,
       RemoveStaging, Killed, Cut, SessionEnds, SkipFile, Unreadable, OpenFails, SendHeader
  <2>2. UNCHANGED <<host, cur, entries>>
    BY <2>1 DEF reader
  <2>3. Execs => \A f \in linked : ~Announced(pipe, f) => ~Announced(pipe', f)
    BY <1>5, SenderFilters
  <2>4. Delivered' <=> Delivered
    BY <2>2 DEF Delivered
  <2> QED
    BY <1>1, <2>2, <2>3, <2>4 DEF Filtered, Coming
<1> QED
  BY <1>2, <1>3, <1>4, <1>5

\* For any app and any number of failures: an installed file changes only through a link
\* that unlink has left, in a run that counts at least one failure, and on the frames'
\* route Verify accepts the IPA of no run that has changed one.
THEOREM InstalledSafe == Spec => []InstalledUntouched
<1> DEFINE Inv == StreamInv /\ VerdictInv /\ Pending /\ Damage /\ NoDamage /\ Filtered
<1>1. Init => Inv
  <2> SUFFICES ASSUME Init PROVE Inv
    OBVIOUS
  <2>1. VerdictInv /\ Pending /\ Damage /\ NoDamage
    BY DEF Init, VerdictInv, VerifiedNotEncrypted, Pending, Damage, NoDamage
  <2>2. Filtered
    BY FrameAssumption DEF Init, Filtered, Coming, Announced, Delivered, NoFrame, Entry, File
  <2> QED
    BY <2>1, <2>2, StreamInit
<1>2. TypeOK /\ Inv /\ [Next]_vars => Inv'
  BY StreamStep, VerdictStep, PendingStep, DamageStep, FilteredStep
<1>3. TypeOK /\ Inv => InstalledUntouched
  <2> SUFFICES ASSUME TypeOK, Inv PROVE InstalledUntouched
    OBVIOUS
  <2>1. File \subseteq Entry /\ installed \in [Entry -> Version] /\ linked \subseteq File
    BY TypeParts DEF Entry, StagingOK
  <2>2. ASSUME Execs, verdict = "ok" PROVE installed = Source
    <3>1. Delivered
      BY <2>2 DEF VerdictInv, Delivered
    <3>2. \A f \in linked : entries[f] = Source[f]
      BY <2>2, <3>1 DEF Filtered
    <3>3. ASSUME NEW f \in Entry, installed[f] # Source[f] PROVE FALSE
      <4>1. f \in linked /\ f \in Encrypted /\ (opt.skipAppex => f \notin Appex)
        BY <3>3 DEF Damage
      <4>2. f \in Requested /\ entries[f] = "cipher"
        BY <2>1, <3>2, <4>1, FrameAssumption DEF Requested, Source
      <4> QED
        BY <2>2, <4>2 DEF VerdictInv, VerifiedNotEncrypted
    <3> QED
      BY <2>1, <3>3 DEF Source
  <2>3. \A f \in File : installed[f] # Source[f] => f \in linked /\ version[f] = installed[f]
    BY <2>1 DEF Damage
  <2> QED
    BY <2>2, <2>3 DEF NoDamage, InstalledUntouched
<1> HIDE DEF Inv
<1> QED
  BY <1>1, <1>2, <1>3, TypeCorrect, PTL DEF Spec
=============================================================================
