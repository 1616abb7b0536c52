--------------------------- MODULE AppleAuthProofs ---------------------------
(***************************************************************************)
(* Proofs about AppleAuth, for any number of screens and picker requests.   *)
(***************************************************************************)
EXTENDS AppleAuth, TLAPS

\* The part of QueueSound that is about the runner alone.
RunnerSound ==
  /\ \A a, b \in procs \ {Saved} : a = b
  /\ running <=> procs \ {Saved} # {}
  /\ ~running => pending = <<>>
  /\ \A i, j \in 1..Len(pending) : pending[i] = pending[j] => i = j
  /\ \A i \in 1..Len(pending) : pending[i] \notin procs

\* An operation that is not in the queue yet is added to it, and nothing else changes.
LEMMA EnqueueAdds ==
  ASSUME pending \in Seq(Queued), running \in BOOLEAN, procs \subseteq Queued \cup {Saved},
         RunnerSound, NEW op \in Queued, ~IsQueued(op), Enqueue(op)
  PROVE  /\ pending' \in Seq(Queued) /\ running' \in BOOLEAN
         /\ procs' \subseteq Queued \cup {Saved}
         /\ RunnerSound'
         /\ \A x \in Queued : IsQueued(x)' <=> IsQueued(x) \/ x = op
<1>0. op # Saved
  BY AuthAssumption
<1>1. CASE running
  <2>1. pending' = Append(pending, op) /\ running' = running /\ procs' = procs
    BY <1>1 DEF Enqueue
  <2>2. /\ Len(pending') = Len(pending) + 1 /\ Len(pending) \in Nat
        /\ \A i \in 1..Len(pending) : pending'[i] = pending[i]
        /\ pending'[Len(pending) + 1] = op
    BY <2>1
  <2>3. \A i \in 1..Len(pending) : pending[i] # op
    BY DEF IsQueued
  <2>4. op \notin procs
    BY DEF IsQueued
  <2>5. \A i, j \in 1..Len(pending') : pending'[i] = pending'[j] => i = j
    BY <2>2, <2>3 DEF RunnerSound
  <2>6. \A i \in 1..Len(pending') : pending'[i] \notin procs'
    BY <2>1, <2>2, <2>4 DEF RunnerSound
  <2>7. \A x \in Queued : IsQueued(x)' <=> IsQueued(x) \/ x = op
    BY <2>1, <2>2 DEF IsQueued
  <2>8. RunnerSound'
    BY <2>1, <2>5, <2>6, <1>1 DEF RunnerSound
  <2> QED
    BY <2>1, <2>7, <2>8
<1>2. CASE ~running
  <2>1. pending' = pending /\ running' = TRUE /\ procs' = procs \cup {op}
    BY <1>2 DEF Enqueue
  <2>2. pending = <<>> /\ procs \ {Saved} = {}
    BY <1>2 DEF RunnerSound
  <2>3. procs' \ {Saved} = {op}
    BY <2>1, <2>2, <1>0
  <2>4. RunnerSound'
    BY <2>1, <2>2, <2>3 DEF RunnerSound
  <2>5. \A x \in Queued : IsQueued(x)' <=> IsQueued(x) \/ x = op
    BY <2>1, <2>2 DEF IsQueued
  <2> QED
    BY <2>1, <2>4, <2>5
<1> QED
  BY <1>1, <1>2

\* The operation that completed leaves the queue, and nothing else does.
LEMMA FinishRemoves ==
  ASSUME pending \in Seq(Queued), running \in BOOLEAN, procs \subseteq Queued \cup {Saved},
         RunnerSound, NEW op \in Queued, op \in procs, Finish(op)
  PROVE  /\ pending' \in Seq(Queued) /\ running' \in BOOLEAN
         /\ procs' \subseteq Queued \cup {Saved}
         /\ RunnerSound'
         /\ \A x \in Queued : IsQueued(x)' <=> IsQueued(x) /\ x # op
<1>0. /\ op # Saved /\ Saved \notin Queued
      /\ \A x \in Queued : x \in procs => x = op
      /\ running
  BY AuthAssumption DEF RunnerSound
<1>1. CASE pending = <<>>
  <2>1. procs' = procs \ {op} /\ running' = FALSE /\ pending' = pending
    BY <1>1 DEF Finish
  <2>2. procs' \ {Saved} = {}
    BY <2>1, <1>0
  <2>3. RunnerSound'
    BY <1>1, <2>1, <2>2 DEF RunnerSound
  <2>4. \A x \in Queued : IsQueued(x)' <=> IsQueued(x) /\ x # op
    BY <1>0, <1>1, <2>1 DEF IsQueued
  <2> QED
    BY <2>1, <2>3, <2>4
<1>2. CASE pending # <<>>
  <2>1. /\ procs' = (procs \ {op}) \cup {Head(pending)}
        /\ pending' = Tail(pending) /\ running' = running
    BY <1>2 DEF Finish
  <2>2. /\ Head(pending) = pending[1] /\ pending[1] \in Queued
        /\ Len(pending') = Len(pending) - 1 /\ Len(pending) \in Nat \ {0}
        /\ \A i \in 1..Len(pending') : pending'[i] = pending[i + 1] /\ i + 1 \in 1..Len(pending)
        /\ \A i \in 2..Len(pending) : pending[i] = pending'[i - 1] /\ i - 1 \in 1..Len(pending')
        /\ pending' \in Seq(Queued)
    BY <1>2, <2>1
  <2>3. procs' \ {Saved} = {pending[1]}
    BY <1>0, <2>1, <2>2
  <2>4. \A i, j \in 1..Len(pending') : pending'[i] = pending'[j] => i = j
    BY <2>2 DEF RunnerSound
  <2>5. \A i \in 1..Len(pending') : pending'[i] \notin procs'
    <3> SUFFICES ASSUME NEW i \in 1..Len(pending') PROVE pending'[i] \notin procs'
      OBVIOUS
    <3>1. i + 1 \in 1..Len(pending) /\ 1 \in 1..Len(pending) /\ i + 1 # 1
      BY <2>2
    <3>2. pending[i + 1] # pending[1] /\ pending[i + 1] \notin procs
      BY <3>1 DEF RunnerSound
    <3> QED
      BY <2>1, <2>2, <3>2
  <2>6. RunnerSound'
    BY <1>0, <2>1, <2>3, <2>4, <2>5 DEF RunnerSound
  <2>7. ASSUME NEW x \in Queued PROVE IsQueued(x)' <=> IsQueued(x) /\ x # op
    <3>1. ASSUME IsQueued(x)' PROVE IsQueued(x) /\ x # op
      <4>1. CASE x \in procs'
        <5>1. x = pending[1] /\ 1 \in 1..Len(pending)
          BY <4>1, <2>3, <2>2, AuthAssumption
        <5> QED
          BY <5>1 DEF IsQueued, RunnerSound
      <4>2. ASSUME NEW i \in 1..Len(pending'), pending'[i] = x PROVE IsQueued(x) /\ x # op
        BY <4>2, <2>2 DEF IsQueued, RunnerSound
      <4> QED
        BY <3>1, <4>1, <4>2 DEF IsQueued
    <3>2. ASSUME IsQueued(x), x # op PROVE IsQueued(x)'
      <4>1. CASE x \in procs
        BY <4>1, <3>2, <2>1 DEF IsQueued
      <4>2. ASSUME NEW i \in 1..Len(pending), pending[i] = x PROVE IsQueued(x)'
        <5>1. CASE i = 1
          BY <5>1, <4>2, <2>1, <2>2 DEF IsQueued
        <5>2. CASE i # 1
          <6>1. i \in 2..Len(pending)
            BY <5>2
          <6> QED
            BY <6>1, <4>2, <2>2 DEF IsQueued
        <5> QED
          BY <5>1, <5>2
      <4> QED
        BY <3>2, <4>1, <4>2 DEF IsQueued
    <3> QED
      BY <3>1, <3>2
  <2> QED
    BY <1>0, <2>1, <2>2, <2>6, <2>7
<1> QED
  BY <1>1, <1>2

Working == \A s \in Screen : screen[s] = "working" <=> IsQueued(s)

\* No poll may fire under an alert: it could take the generation away from it.
AlertAlone == Prompting => ~polling

IInv ==
  TypeOK /\ RunnerSound /\ Working /\ PromptStaysCurrent /\ AlertAlone /\ CheckingWhileWorking

\* The app starts with nothing asked and nothing shown.
LEMMA InitHolds == Init => IInv
<1> SUFFICES ASSUME Init PROVE IInv
  OBVIOUS
<1> USE DEF Init
<1>1. TypeOK
  <2>1. auth \in AuthState /\ screen \in [Screen -> ScreenState]
    BY DEF AuthState, ScreenState
  <2>2. pending \in Seq(Queued) /\ procs \subseteq Queued \cup {Saved}
    OBVIOUS
  <2>3. visible \in BOOLEAN /\ polling \in BOOLEAN /\ running \in BOOLEAN
    OBVIOUS
  <2> QED
    BY <2>1, <2>2, <2>3 DEF TypeOK
<1>2. RunnerSound
  BY DEF RunnerSound
<1>3. Working /\ PromptStaysCurrent /\ AlertAlone /\ CheckingWhileWorking
  BY DEF Working, IsQueued, PromptStaysCurrent, AlertAlone, CheckingWhileWorking
<1> QED
  BY <1>1, <1>2, <1>3 DEF IInv

\* The saved check comes and goes without touching the queue.
LEMMA QueueKept ==
  ASSUME TypeOK, RunnerSound, running' = running, pending' = pending,
         procs' \ {Saved} = procs \ {Saved}, procs' \subseteq Queued \cup {Saved}
  PROVE  RunnerSound' /\ \A x \in Queued : IsQueued(x)' <=> IsQueued(x)
<1>1. \A x \in Queued : x # Saved
  BY AuthAssumption
<1>2. \A x \in Queued : x \in procs' <=> x \in procs
  BY <1>1
<1>3. \A i \in 1..Len(pending) : pending[i] \in Queued
  BY DEF TypeOK
<1>4. RunnerSound'
  BY <1>2, <1>3 DEF RunnerSound
<1> QED
  BY <1>2, <1>4 DEF IsQueued

\* Something of the queue at work keeps the helper count above zero.
LEMMA WorkIsActive ==
  ASSUME IInv, NEW s \in Screen, screen[s] = "working"
  PROVE  Active
<1>1. IsQueued(s)
  BY DEF IInv, Working
<1>2. CASE s \in procs
  BY <1>2 DEF Active
<1>3. ASSUME NEW i \in 1..Len(pending) PROVE Active
  <2>1. pending # <<>>
    BY <1>3 DEF IInv, TypeOK
  <2>2. procs \ {Saved} # {}
    BY <2>1 DEF IInv, RunnerSound
  <2> QED
    BY <2>2 DEF Active
<1> QED
  BY <1>1, <1>2, <1>3 DEF IsQueued

\* The idle poll bumps the generation only while nothing is at work and no alert is up.
LEMMA IdleKeeps ==
  ASSUME IInv, WhenIdle, ~Prompting, visible' \in BOOLEAN, screen' = screen, last' = last
  PROVE  IInv'
<1>0. TypeOK /\ RunnerSound /\ Working /\ PromptStaysCurrent /\ CheckingWhileWorking
  BY DEF IInv
<1>1. /\ auth' \in AuthState /\ owner' \in Screen \cup {Saved, None} /\ polling' \in BOOLEAN
      /\ running' = running /\ pending' = pending
      /\ procs' \subseteq Queued \cup {Saved} /\ procs' \ {Saved} = procs \ {Saved}
  <2>1. StateFor(last) \in AuthState
    BY <1>0 DEF StateFor, AuthState, TypeOK
  <2> QED
    BY <1>0, <2>1 DEF WhenIdle, TypeOK, AuthState, queue
<1>2. RunnerSound' /\ \A x \in Queued : IsQueued(x)' <=> IsQueued(x)
  BY <1>0, <1>1, QueueKept
<1>3. TypeOK'
  BY <1>0, <1>1 DEF TypeOK
<1>4. Working'
  BY <1>0, <1>2 DEF Working, Queued
<1>5. PromptStaysCurrent' /\ AlertAlone'
  BY <1>0 DEF PromptStaysCurrent, AlertAlone, Prompting
<1>6. CheckingWhileWorking'
  BY WorkIsActive DEF CheckingWhileWorking, WhenIdle
<1> QED
  BY <1>2, <1>3, <1>4, <1>5, <1>6 DEF IInv

\* A new request takes the generation, which no alert needs, and enters the queue.
LEMMA BeginKeeps ==
  ASSUME IInv, NEW s \in Screen, Begin(s), screen[s] # "working", visible' \in BOOLEAN,
         \A q \in Screen : q # s => screen[q] # "prompt"
  PROVE  IInv'
<1>0. TypeOK /\ RunnerSound /\ Working /\ PromptStaysCurrent
  BY DEF IInv
<1>1. s \in Queued /\ ~IsQueued(s)
  BY <1>0 DEF Queued, Working
<1>2. /\ pending' \in Seq(Queued) /\ running' \in BOOLEAN
      /\ procs' \subseteq Queued \cup {Saved} /\ RunnerSound'
      /\ \A x \in Queued : IsQueued(x)' <=> IsQueued(x) \/ x = s
  BY <1>0, <1>1, EnqueueAdds DEF Begin, TypeOK
<1>3. /\ polling' = FALSE /\ owner' = s /\ auth' = "checking" /\ last' = last
      /\ screen' = [screen EXCEPT ![s] = "working"]
  BY DEF Begin, Show
<1>4. screen' \in [Screen -> ScreenState] /\ screen'[s] = "working"
      /\ \A q \in Screen : q # s => screen'[q] = screen[q]
  BY <1>0, <1>3 DEF TypeOK, ScreenState
<1>5. TypeOK'
  BY <1>0, <1>2, <1>3, <1>4 DEF TypeOK, AuthState
<1>6. Working'
  BY <1>0, <1>2, <1>4 DEF Working, Queued
<1>7. PromptStaysCurrent' /\ AlertAlone' /\ CheckingWhileWorking'
  BY <1>0, <1>3, <1>4 DEF PromptStaysCurrent, AlertAlone, CheckingWhileWorking
<1> QED
  BY <1>2, <1>5, <1>6, <1>7 DEF IInv

\* A helper's completion: shows a result for its own generation only, cancels the poll
\* and hands the helper on.
LEMMA CompletionKeeps ==
  ASSUME IInv, NEW s \in Screen, s \in procs, Finish(s), owner' = owner, polling' = FALSE,
         visible' = visible, last' \in {"success", "auth-required", "inconclusive"},
         auth' \in AuthState, owner # s => auth' = auth,
         NEW w \in {"free", "decrypt", "prompt"}, Show(s, w), w = "prompt" => owner = s
  PROVE  IInv'
<1>0. TypeOK /\ RunnerSound /\ Working /\ PromptStaysCurrent /\ CheckingWhileWorking
  BY DEF IInv
<1>1. s \in Queued
  BY DEF Queued
<1>2. /\ pending' \in Seq(Queued) /\ running' \in BOOLEAN
      /\ procs' \subseteq Queued \cup {Saved} /\ RunnerSound'
      /\ \A x \in Queued : IsQueued(x)' <=> IsQueued(x) /\ x # s
  BY <1>0, <1>1, FinishRemoves DEF TypeOK
<1>3. screen' \in [Screen -> ScreenState] /\ screen'[s] = w
      /\ \A q \in Screen : q # s => screen'[q] = screen[q]
  BY <1>0 DEF TypeOK, ScreenState, Show
<1>4. TypeOK'
  BY <1>0, <1>2, <1>3 DEF TypeOK
<1>5. Working'
  BY <1>0, <1>2, <1>3 DEF Working, Queued
<1>6. PromptStaysCurrent' /\ AlertAlone' /\ CheckingWhileWorking'
  BY <1>0, <1>3 DEF PromptStaysCurrent, AlertAlone, CheckingWhileWorking
<1> QED
  BY <1>2, <1>4, <1>5, <1>6 DEF IInv

\* A screen that is not at work changes, and nothing of the runner does.
LEMMA ScreenKeeps ==
  ASSUME IInv, NEW s \in Screen, NEW w \in {"free", "decrypt", "verify"}, Show(s, w),
         screen[s] # "working", owner' = owner, polling' = polling, queue' = queue,
         visible' \in BOOLEAN, last' = last, auth' \in AuthState,
         auth' = auth \/ screen[s] = "prompt"
  PROVE  IInv'
<1>0. TypeOK /\ RunnerSound /\ Working /\ PromptStaysCurrent /\ CheckingWhileWorking /\ AlertAlone
  BY DEF IInv
<1>1. RunnerSound' /\ \A x \in Queued : IsQueued(x)' <=> IsQueued(x)
  BY <1>0, QueueKept DEF queue, TypeOK
<1>2. screen' \in [Screen -> ScreenState] /\ screen'[s] = w
      /\ \A q \in Screen : q # s => screen'[q] = screen[q]
  BY <1>0 DEF TypeOK, ScreenState, Show
<1>3. TypeOK'
  BY <1>0, <1>2 DEF TypeOK, queue
<1>4. Working'
  BY <1>0, <1>1, <1>2 DEF Working, Queued
<1>5. PromptStaysCurrent'
  BY <1>0, <1>2 DEF PromptStaysCurrent
<1>6. AlertAlone'
  BY <1>0, <1>2 DEF AlertAlone, Prompting
<1>7. CheckingWhileWorking'
  BY <1>0, <1>2 DEF CheckingWhileWorking, PromptStaysCurrent
<1> QED
  BY <1>1, <1>3, <1>4, <1>5, <1>6, <1>7 DEF IInv

\* Every block of the main queue keeps the invariant.
LEMMA StepKeeps == IInv /\ [Next]_vars => IInv'
<1> SUFFICES ASSUME IInv, [Next]_vars PROVE IInv'
  OBVIOUS
<1>0. TypeOK /\ RunnerSound /\ Working /\ PromptStaysCurrent /\ CheckingWhileWorking /\ AlertAlone
  BY DEF IInv
<1>1. CASE UNCHANGED vars
  BY <1>0, <1>1 DEF vars, queue, IInv, TypeOK, RunnerSound, Working, IsQueued, PromptStaysCurrent,
       CheckingWhileWorking, AlertAlone, Prompting
<1>2. CASE Appear
  BY <1>2, IdleKeeps DEF Appear
<1>3. CASE Cover
  <2>1. RunnerSound' /\ Working'
    BY <1>0, <1>3 DEF Cover, queue, RunnerSound, Working, IsQueued
  <2>2. TypeOK' /\ PromptStaysCurrent' /\ AlertAlone' /\ CheckingWhileWorking'
    BY <1>0, <1>3 DEF Cover, queue, TypeOK, PromptStaysCurrent, AlertAlone,
       CheckingWhileWorking, Prompting
  <2> QED
    BY <2>1, <2>2 DEF IInv
<1>4. CASE PollFires
  <2>1. ~Prompting
    BY <1>0, <1>4 DEF PollFires, AlertAlone
  <2>2. CASE visible /\ WhenIdle
    BY <1>0, <1>4, <2>1, <2>2, IdleKeeps DEF PollFires, TypeOK
  <2>3. CASE ~visible /\ polling' = FALSE /\ UNCHANGED <<auth, owner, queue>>
    <3>1. RunnerSound' /\ Working'
      BY <1>0, <1>4, <2>3 DEF PollFires, queue, RunnerSound, Working, IsQueued
    <3>2. TypeOK' /\ PromptStaysCurrent' /\ AlertAlone' /\ CheckingWhileWorking'
      BY <1>0, <1>4, <2>3 DEF PollFires, queue, TypeOK, PromptStaysCurrent, AlertAlone,
         CheckingWhileWorking
    <3> QED
      BY <3>1, <3>2 DEF IInv
  <2> QED
    BY <1>4, <2>2, <2>3 DEF PollFires
<1>5. CASE SavedChecked
  <2>1. /\ procs' \ {Saved} = procs \ {Saved} /\ procs' \subseteq Queued \cup {Saved}
        /\ running' = running /\ pending' = pending
    BY <1>0, <1>5 DEF SavedChecked, TypeOK
  <2>2. RunnerSound' /\ \A x \in Queued : IsQueued(x)' <=> IsQueued(x)
    BY <1>0, <2>1, QueueKept
  <2>3. /\ owner' = owner /\ screen' = screen /\ polling' = polling
        /\ visible' = visible /\ last' = last /\ auth' \in AuthState
        /\ owner # Saved => auth' = auth
    BY <1>0, <1>5 DEF SavedChecked, TypeOK, AuthState
  <2>4. TypeOK'
    BY <1>0, <2>1, <2>3 DEF TypeOK
  <2>5. Working'
    BY <1>0, <2>2, <2>3 DEF Working, Queued
  <2>6. PromptStaysCurrent' /\ AlertAlone'
    BY <1>0, <2>3 DEF PromptStaysCurrent, AlertAlone, Prompting
  <2>7. CheckingWhileWorking'
    BY <1>0, <2>3, AuthAssumption DEF CheckingWhileWorking, Queued
  <2> QED
    BY <2>2, <2>4, <2>5, <2>6, <2>7 DEF IInv
<1>6. ASSUME NEW s \in Screen, OnScreen(s) PROVE IInv'
  <2>1. CASE Request(s)
    <3>1. Begin(s) /\ screen[s] = "free" /\ ~Prompting /\ visible' = FALSE
      BY <2>1 DEF Request, RequestInstall, RequestRefresh
    <3> QED
      BY <3>1, BeginKeeps DEF Prompting
  <2>2. CASE Succeeded(s)
    <3>1. PICK w \in {"free", "decrypt"} : Show(s, w)
      BY <2>2 DEF Succeeded
    <3>2. auth' \in AuthState /\ (owner # s => auth' = auth)
      BY <1>0, <2>2 DEF Succeeded, SetFor, AuthState, TypeOK
    <3> QED
      BY <2>2, <3>1, <3>2, CompletionKeeps DEF Succeeded
  <2>3. CASE AuthNeeded(s)
    <3>1. PICK w \in {"free", "prompt"} : Show(s, w) /\ (w = "prompt" => owner = s)
      BY <2>3 DEF AuthNeeded
    <3>2. auth' \in AuthState /\ (owner # s => auth' = auth)
      BY <1>0, <2>3 DEF AuthNeeded, AuthState, TypeOK
    <3> QED
      BY <2>3, <3>1, <3>2, CompletionKeeps DEF AuthNeeded
  <2>4. CASE Failed(s)
    <3>1. auth' \in AuthState /\ (owner # s => auth' = auth) /\ Show(s, "free")
      BY <1>0, <2>4 DEF Failed, SetFor, AuthState, TypeOK
    <3> QED
      BY <2>4, <3>1, CompletionKeeps DEF Failed
  <2>5. CASE Continue(s)
    <3>1. owner = s /\ screen[s] = "prompt" /\ Begin(s) /\ visible' = visible
      BY <1>0, <2>5 DEF Continue, PromptStaysCurrent
    <3>2. \A q \in Screen : q # s => screen[q] # "prompt"
      BY <1>0, <3>1 DEF PromptStaysCurrent
    <3> QED
      BY <1>0, <3>1, <3>2, BeginKeeps DEF TypeOK
  <2>6. CASE Cancel(s)
    <3>1. owner = s /\ screen[s] = "prompt" /\ Show(s, "free") /\ auth' \in AuthState
      BY <1>0, <2>6 DEF Cancel, PromptStaysCurrent, AuthState, TypeOK
    <3>2. owner' = owner /\ polling' = polling /\ queue' = queue /\ last' = last /\ visible' \in BOOLEAN
      BY <1>0, <2>6 DEF Cancel, TypeOK
    <3> QED
      BY <3>1, <3>2, ScreenKeeps
  <2>7. CASE DecryptInstalled(s) \/ Decrypted(s) \/ Verified(s)
    <3>1. PICK w \in {"free", "decrypt", "verify"} : Show(s, w)
      BY <2>7 DEF DecryptInstalled, Decrypted, Verified
    <3>2. /\ screen[s] # "working" /\ auth' = auth /\ owner' = owner /\ polling' = polling
          /\ queue' = queue /\ last' = last /\ visible' \in BOOLEAN
      BY <1>0, <2>7 DEF DecryptInstalled, Decrypted, Verified, TypeOK
    <3>3. auth' \in AuthState
      BY <1>0, <3>2 DEF TypeOK
    <3> QED
      BY <3>1, <3>2, <3>3, ScreenKeeps
  <2> QED
    BY <1>6, <2>1, <2>2, <2>3, <2>4, <2>5, <2>6, <2>7 DEF OnScreen, Answered
<1>7. ASSUME NEW l \in List, RequestList(l) PROVE IInv'
  <2>1. l \in Queued /\ l \notin Screen /\ \A s \in Screen : s # l
    BY AuthAssumption DEF Queued
  <2>2. /\ pending' \in Seq(Queued) /\ running' \in BOOLEAN
        /\ procs' \subseteq Queued \cup {Saved} /\ RunnerSound'
        /\ \A x \in Queued : IsQueued(x)' <=> IsQueued(x) \/ x = l
    BY <1>0, <1>7, <2>1, EnqueueAdds DEF RequestList, TypeOK
  <2>3. auth' = auth /\ owner' = owner /\ polling' = polling /\ screen' = screen /\ last' = last
        /\ visible' = FALSE
    BY <1>7 DEF RequestList
  <2>4. TypeOK'
    BY <1>0, <2>2, <2>3 DEF TypeOK
  <2>5. Working'
    BY <1>0, <2>1, <2>2, <2>3 DEF Working, Queued
  <2>6. PromptStaysCurrent' /\ AlertAlone' /\ CheckingWhileWorking'
    BY <1>0, <2>3 DEF PromptStaysCurrent, AlertAlone, CheckingWhileWorking, Prompting
  <2> QED
    BY <2>2, <2>4, <2>5, <2>6 DEF IInv
<1>8. ASSUME NEW l \in List, ListDone(l) PROVE IInv'
  <2>1. l \in Queued /\ l \notin Screen /\ \A s \in Screen : s # l
    BY AuthAssumption DEF Queued
  <2>2. /\ pending' \in Seq(Queued) /\ running' \in BOOLEAN
        /\ procs' \subseteq Queued \cup {Saved} /\ RunnerSound'
        /\ \A x \in Queued : IsQueued(x)' <=> IsQueued(x) /\ x # l
    BY <1>0, <1>8, <2>1, FinishRemoves DEF ListDone, TypeOK
  <2>3. auth' = auth /\ owner' = owner /\ polling' = polling /\ screen' = screen
        /\ visible' = visible /\ last' \in {"none", "success", "auth-required", "inconclusive"}
    BY <1>8 DEF ListDone
  <2>4. TypeOK'
    BY <1>0, <2>2, <2>3 DEF TypeOK
  <2>5. Working'
    BY <1>0, <2>1, <2>2, <2>3 DEF Working, Queued
  <2>6. PromptStaysCurrent' /\ AlertAlone' /\ CheckingWhileWorking'
    BY <1>0, <2>3 DEF PromptStaysCurrent, AlertAlone, CheckingWhileWorking, Prompting
  <2> QED
    BY <2>2, <2>4, <2>5, <2>6 DEF IInv
<1> QED
  BY <1>1, <1>2, <1>3, <1>4, <1>5, <1>6, <1>7, <1>8 DEF Next

\* The inductive invariant holds in every reachable state.
LEMMA Invariance == Spec => []IInv
<1>1. Init => IInv
  BY InitHolds
<1>2. IInv /\ [Next]_vars => IInv'
  BY StepKeeps
<1> QED
  BY <1>1, <1>2, PTL DEF Spec

\* The types of the button, the queue and the screens.
THEOREM TypeCorrect == Spec => []TypeOK
<1>1. IInv => TypeOK
  BY DEF IInv
<1> QED
  BY <1>1, Invariance, PTL

\* enqueueAuthOperation and finishAuthOperation never run two helpers at once, and no
\* request is lost or queued twice.
THEOREM QueueIsSound == Spec => []QueueSound
<1>1. IInv => QueueSound
  BY DEF IInv, RunnerSound, Working, QueueSound
<1> QED
  BY <1>1, Invariance, PTL

\* The buttons of a sign-in alert always find their generation current.
THEOREM AlertsAnswerable == Spec => []PromptStaysCurrent
<1>1. IInv => PromptStaysCurrent
  BY DEF IInv
<1> QED
  BY <1>1, Invariance, PTL

\* No late result shows on the button while the newest request is at work.
THEOREM NoLateResult == Spec => []CheckingWhileWorking
<1>1. IInv => CheckingWhileWorking
  BY DEF IInv
<1> QED
  BY <1>1, Invariance, PTL

-----------------------------------------------------------------------------
(* AppleAuth implements OperationLine. *)

\* What the front of a line and its rest are.
LEMMA FrontAndRest ==
  ASSUME NEW S, NEW x \in S, NEW p \in Seq(S)
  PROVE  /\ <<x>> \o p \in Seq(S) /\ <<x>> \o p # <<>>
         /\ Head(<<x>> \o p) = x /\ Tail(<<x>> \o p) = p
         /\ \A y \in S : Append(<<x>> \o p, y) = <<x>> \o Append(p, y)
         /\ \A y \in S : Append(<<>>, y) = <<y>> \o <<>>
<1>1. <<x>> \o p \in Seq(S) /\ Len(<<x>> \o p) = Len(p) + 1 /\ Len(p) \in Nat
  OBVIOUS
<1>2. (<<x>> \o p)[1] = x /\ \A i \in 1..Len(p) : (<<x>> \o p)[i + 1] = p[i]
  OBVIOUS
<1>3. <<x>> \o p # <<>> /\ Head(<<x>> \o p) = x
  BY <1>1, <1>2
<1>4. Tail(<<x>> \o p) = p
  BY <1>1, <1>2
<1>5. ASSUME NEW y \in S PROVE Append(<<x>> \o p, y) = <<x>> \o Append(p, y)
  OBVIOUS
<1>6. ASSUME NEW y \in S PROVE Append(<<>>, y) = <<y>> \o <<>>
  OBVIOUS
<1> QED
  BY <1>1, <1>3, <1>4, <1>5, <1>6

\* The line in front of the one helper, and the empty line without one.
LEMMA LineIs ==
  ASSUME TypeOK, RunnerSound
  PROVE  /\ Helpers = {} => pending = <<>> /\ InLine = <<>>
         /\ \A op \in Helpers :
              op \in Queued /\ Helpers = {op} /\ InLine = <<op>> \o pending
<1>1. procs \ {Saved} \subseteq Queued
  BY DEF TypeOK
<1>2. Helpers = {} => pending = <<>> /\ InLine = <<>>
  BY DEF RunnerSound, Helpers, InLine
<1>3. ASSUME NEW op \in Helpers
      PROVE  op \in Queued /\ Helpers = {op} /\ InLine = <<op>> \o pending
  <2>1. op \in Queued /\ Helpers = {op}
    BY <1>1, <1>3 DEF RunnerSound, Helpers
  <2>2. (CHOOSE x \in Helpers : TRUE) = op
    BY <2>1
  <2> QED
    BY <2>1, <2>2 DEF InLine
<1> QED
  BY <1>2, <1>3

\* Who waits is who is in the queue.
LEMMA WaitingIs == ASSUME Working PROVE Waiting = {x \in Queued : IsQueued(x)}
  BY DEF Working, Waiting, Queued

\* The promise is kept from the start.
LEMMA InitPromised == Init => Promise!Init
<1> SUFFICES ASSUME Init PROVE Promise!Init
  OBVIOUS
<1>1. Helpers = {} /\ InLine = <<>>
  BY DEF Init, Helpers, InLine
<1>2. Waiting = {}
  BY DEF Init, Waiting, IsQueued
<1> QED
  BY <1>1, <1>2 DEF Promise!Init

\* A request goes to the end of the line.
LEMMA EnqueuePromised ==
  ASSUME IInv, IInv', NEW op \in Queued, ~IsQueued(op), Enqueue(op)
  PROVE  Promise!Ask(op)
<1>0. TypeOK /\ RunnerSound /\ Working /\ TypeOK' /\ RunnerSound' /\ Working'
  BY DEF IInv
<1>1. Waiting = {x \in Queued : IsQueued(x)} /\ Waiting' = {x \in Queued : IsQueued(x)'}
  BY <1>0, WaitingIs DEF Waiting, Working, Queued
<1>2. \A x \in Queued : IsQueued(x)' <=> IsQueued(x) \/ x = op
  BY <1>0, EnqueueAdds DEF TypeOK
<1>3. op \notin Waiting /\ Waiting' = Waiting \cup {op}
  BY <1>1, <1>2
<1>4. op # Saved
  BY AuthAssumption
<1>5. CASE running
  <2>1. pending' = Append(pending, op) /\ procs' = procs
    BY <1>5 DEF Enqueue
  <2>2. PICK x \in Helpers : TRUE
    BY <1>0, <1>5 DEF RunnerSound, Helpers
  <2>3. x \in Queued /\ Helpers = {x} /\ InLine = <<x>> \o pending
    BY <1>0, <2>2, LineIs
  <2>4. Helpers' = {x}
    BY <2>1, <2>3 DEF Helpers
  <2>5. InLine' = <<x>> \o pending'
    <3>1. (CHOOSE y \in Helpers' : TRUE) = x
      BY <2>4
    <3> QED
      BY <2>4, <3>1 DEF InLine
  <2>6. pending \in Seq(Queued)
    BY <1>0 DEF TypeOK
  <2>7. InLine' = Append(InLine, op)
    BY <2>1, <2>3, <2>5, <2>6, FrontAndRest
  <2>8. pending' \in Seq(Queued)
    BY <2>1, <2>6
  <2>9. InLine' # <<>> /\ Head(InLine') = x
    BY <2>3, <2>5, <2>8, FrontAndRest
  <2> QED
    BY <1>3, <2>4, <2>7, <2>9 DEF Promise!Ask, Promise!Front
<1>6. CASE ~running
  <2>1. pending' = pending /\ procs' = procs \cup {op}
    BY <1>6 DEF Enqueue
  <2>2. Helpers = {} /\ pending = <<>> /\ InLine = <<>>
    BY <1>0, <1>6, LineIs DEF RunnerSound, Helpers
  <2>3. Helpers' = {op}
    BY <1>4, <2>1, <2>2 DEF Helpers
  <2>4. InLine' = <<op>> \o <<>>
    <3>1. (CHOOSE y \in Helpers' : TRUE) = op
      BY <2>3
    <3> QED
      BY <2>1, <2>2, <2>3, <3>1 DEF InLine
  <2>5. <<>> \in Seq(Queued)
    OBVIOUS
  <2>6. InLine' = Append(InLine, op) /\ InLine' # <<>> /\ Head(InLine') = op
    BY <2>2, <2>4, <2>5, FrontAndRest
  <2> QED
    BY <1>3, <2>3, <2>6 DEF Promise!Ask, Promise!Front
<1> QED
  BY <1>5, <1>6

\* The completion of a helper answers the front of the line and serves the next one.
LEMMA FinishPromised ==
  ASSUME IInv, IInv', NEW op \in Queued, op \in procs, Finish(op)
  PROVE  Promise!Answer
<1>0. TypeOK /\ RunnerSound /\ Working /\ TypeOK' /\ RunnerSound' /\ Working'
  BY DEF IInv
<1>1. Waiting = {x \in Queued : IsQueued(x)} /\ Waiting' = {x \in Queued : IsQueued(x)'}
  BY <1>0, WaitingIs DEF Waiting, Working, Queued
<1>2. \A x \in Queued : IsQueued(x)' <=> IsQueued(x) /\ x # op
  BY <1>0, FinishRemoves DEF TypeOK
<1>3. Waiting' = Waiting \ {op}
  BY <1>1, <1>2
<1>4. op \in Helpers
  BY AuthAssumption DEF Helpers
<1>5. Helpers = {op} /\ InLine = <<op>> \o pending
  BY <1>0, <1>4, LineIs
<1>6. pending \in Seq(Queued)
  BY <1>0 DEF TypeOK
<1>7. InLine # <<>> /\ Head(InLine) = op /\ Tail(InLine) = pending
  BY <1>5, <1>6, FrontAndRest
<1>8. InLine' = pending /\ Helpers' = Promise!Front(pending)
  <2>1. CASE pending = <<>>
    <3>1. procs' = procs \ {op} /\ pending' = pending
      BY <2>1 DEF Finish
    <3>2. Helpers' = {}
      BY <1>5, <3>1 DEF Helpers
    <3> QED
      BY <2>1, <3>1, <3>2 DEF InLine, Promise!Front
  <2>2. CASE pending # <<>>
    <3>1. procs' = (procs \ {op}) \cup {Head(pending)} /\ pending' = Tail(pending)
      BY <2>2 DEF Finish
    <3>2. Head(pending) \in Queued /\ Tail(pending) \in Seq(Queued)
          /\ pending = <<Head(pending)>> \o Tail(pending)
      BY <1>6, <2>2
    <3>3. Helpers' = {Head(pending)}
      BY <1>5, <3>1, <3>2, AuthAssumption DEF Helpers
    <3>4. (CHOOSE y \in Helpers' : TRUE) = Head(pending)
      BY <3>3
    <3>5. InLine' = <<Head(pending)>> \o Tail(pending)
      BY <3>1, <3>3, <3>4 DEF InLine
    <3> QED
      BY <2>2, <3>2, <3>3, <3>5 DEF Promise!Front
  <2> QED
    BY <2>1, <2>2
<1> QED
  BY <1>3, <1>7, <1>8 DEF Promise!Answer

\* Whatever leaves the queue alone, the saved check included, changes nothing of the line.
LEMMA LineStays ==
  ASSUME IInv, IInv', running' = running, pending' = pending,
         procs' \ {Saved} = procs \ {Saved}
  PROVE  UNCHANGED Promise!vars
<1>0. TypeOK /\ RunnerSound /\ Working /\ TypeOK' /\ RunnerSound' /\ Working'
  BY DEF IInv
<1>1. Waiting = {x \in Queued : IsQueued(x)} /\ Waiting' = {x \in Queued : IsQueued(x)'}
  BY <1>0, WaitingIs DEF Waiting, Working, Queued
<1>2. \A x \in Queued : IsQueued(x)' <=> IsQueued(x)
  BY <1>0, QueueKept DEF TypeOK
<1>3. Helpers' = Helpers /\ InLine' = InLine
  <2>1. Helpers' = Helpers
    BY DEF Helpers
  <2>2. (CHOOSE op \in Helpers' : TRUE) = CHOOSE op \in Helpers : TRUE
    BY <2>1
  <2> QED
    BY <2>1, <2>2 DEF InLine
<1>4. Waiting' = Waiting
  BY <1>1, <1>2
<1> QED
  BY <1>3, <1>4 DEF Promise!vars

\* Every block of the main queue is a request, an answer, or nothing to the line.
LEMMA StepPromised == ASSUME IInv, IInv', [Next]_vars PROVE [Promise!Next]_(Promise!vars)
<1>0. TypeOK /\ RunnerSound /\ Working
  BY DEF IInv
<1>1. CASE /\ running' = running /\ pending' = pending
           /\ procs' \ {Saved} = procs \ {Saved}
  BY <1>1, LineStays
<1>2. ASSUME NEW op \in Queued, ~IsQueued(op), Enqueue(op) PROVE [Promise!Next]_(Promise!vars)
  BY <1>2, EnqueuePromised DEF Promise!Next
<1>3. ASSUME NEW op \in Queued, op \in procs, Finish(op) PROVE [Promise!Next]_(Promise!vars)
  BY <1>3, FinishPromised DEF Promise!Next
<1>4. CASE Appear \/ Cover \/ PollFires \/ SavedChecked \/ UNCHANGED vars
  BY <1>1, <1>4 DEF Appear, Cover, PollFires, SavedChecked, WhenIdle, vars, queue
<1>5. ASSUME NEW s \in Screen, OnScreen(s) PROVE [Promise!Next]_(Promise!vars)
  <2>1. s \in Queued /\ (screen[s] # "working" => ~IsQueued(s))
    BY <1>0 DEF Queued, Working
  <2>2. CASE Request(s) \/ (Continue(s) /\ owner = s)
    BY <1>2, <2>1, <2>2 DEF Request, RequestInstall, RequestRefresh, Continue, Begin
  <2>3. CASE Answered(s)
    BY <1>3, <2>1, <2>3 DEF Answered, Succeeded, AuthNeeded, Failed
  <2>4. CASE (Continue(s) /\ owner # s) \/ Cancel(s) \/ DecryptInstalled(s) \/ Decrypted(s)
             \/ Verified(s)
    BY <1>1, <2>4 DEF Continue, Cancel, DecryptInstalled, Decrypted, Verified, queue
  <2> QED
    BY <1>5, <2>2, <2>3, <2>4 DEF OnScreen
<1>6. ASSUME NEW l \in List, RequestList(l) \/ ListDone(l) PROVE [Promise!Next]_(Promise!vars)
  BY <1>2, <1>3, <1>6 DEF Queued, RequestList, ListDone
<1> QED
  BY <1>4, <1>5, <1>6 DEF Next

\* The runner serves one operation at a time, in the order they were asked for, and answers
\* each request once: AppleAuth implements OperationLine.
THEOREM Refines == Spec => Implements
<1>1. Init => Promise!Init
  BY InitPromised
<1>2. IInv /\ IInv' /\ [Next]_vars => [Promise!Next]_(Promise!vars)
  BY StepPromised
<1> QED
  BY <1>1, <1>2, Invariance, PTL DEF Spec, Implements, Promise!Spec
=============================================================================
