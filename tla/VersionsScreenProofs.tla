------------------------- MODULE VersionsScreenProofs -------------------------
(***************************************************************************)
(* The table of versions for any number of rows, workers and any capacity of  *)
(* the channels.                                                            *)
(***************************************************************************)
EXTENDS VersionsScreen, FiniteSetTheorems, WellFoundedInduction, TLAPS

---------------------------------------------------------------------------
(* Sequences as channels *)

\* What a channel holds after a send.
LEMMA SentRange ==
  ASSUME NEW S, NEW s \in Seq(S), NEW x \in S
  PROVE  /\ Append(s, x) \in Seq(S) /\ Len(Append(s, x)) = Len(s) + 1
         /\ \A n \in 1..Len(s) : Append(s, x)[n] = s[n]
         /\ Append(s, x)[Len(s) + 1] = x
  OBVIOUS

\* What a channel holds after a receive.
LEMMA ReceivedRange ==
  ASSUME NEW S, NEW s \in Seq(S), s # <<>>
  PROVE  /\ Tail(s) \in Seq(S) /\ Len(Tail(s)) = Len(s) - 1 /\ Len(s) \in Nat \ {0}
         /\ \A n \in 1..Len(Tail(s)) : Tail(s)[n] = s[n + 1]
         /\ Head(s) = s[1] /\ Head(s) \in S
  OBVIOUS

\* What a channel holds is of the channel's type.
LEMMA InChannel == ASSUME NEW S, NEW s \in Seq(S) PROVE \A n \in 1..Len(s) : s[n] \in S
  OBVIOUS

---------------------------------------------------------------------------
(* Type correctness *)

ScreenType ==
  /\ limit \in Limits
  /\ ui \in {"eager", "select", "send", "closing", "returned"}
  /\ eager \in Nat \ {0}
  /\ offered \in Row \cup {0} /\ (ui = "send" => offered \in Row)
  /\ cursor \in Row /\ selected \subseteq Row
  /\ finished \in BOOLEAN /\ aborted \in BOOLEAN
RowType ==
  /\ row \in [Row -> {"unfetched", "pending", "fetched", "error"}]
  /\ queued \subseteq Row
  /\ cache \subseteq Row /\ disk \subseteq Row /\ unread \in BOOLEAN
QueueType  == queue \in Seq(Row) /\ Len(queue) <= QueueCap
ResultType == results \in Seq([row : Row, ok : BOOLEAN]) /\ Len(results) <= ResultCap
WorkType ==
  /\ at \in [Worker -> {"idle", "fetching", "fetched", "failed", "gone"}]
  /\ job \in [Worker -> Row \cup {0}]
  /\ \A w \in Worker : Busy(w) => job[w] \in Row

\* The type invariant, by who owns the variables each part is about.
LEMMA TypeParts == TypeOK <=> ScreenType /\ RowType /\ QueueType /\ ResultType /\ WorkType
  BY DEF TypeOK, ScreenType, RowType, QueueType, ResultType, WorkType

\* The cursor cannot leave the table.
LEMMA RowFacts == 1 \in Row /\ Count \in Row /\ \A i \in Int : Clamped(i) \in Row
  BY ScreenAssumption DEF Row, Clamped

\* The rows fetched at the start are rows of the table.
LEMMA EagerIsRow == ASSUME eager \in Nat \ {0}, eager <= EagerRows PROVE eager \in Row
  BY ScreenAssumption DEF EagerRows, Row

\* Each action's part in the type of the screen's own variables.
LEMMA ScreenTyped == ASSUME TypeOK, [Next]_vars PROVE ScreenType'
<1> USE TypeParts
<1>1. CASE EagerFetch
  BY <1>1, EagerIsRow DEF EagerFetch, Enqueue, ScreenType, picks
<1>2. CASE Send
  BY <1>2 DEF Send, Home, ScreenType, picks
<1>3. CASE EnterKey
  BY <1>3 DEF EnterKey, Enqueue, ScreenType, picks
<1>4. CASE MoveKey
  <2>1. cursor \in Int /\ Page \in Int BY ScreenAssumption DEF ScreenType, Row
  <2>2. cursor' \in Row BY <1>4, <2>1, RowFacts DEF MoveKey
  <2> QED BY <1>4, <2>2 DEF MoveKey, ScreenType
<1>5. CASE SpaceKey
  BY <1>5 DEF SpaceKey, Toggled, ScreenType
<1>6. CASE DoneKey
  BY <1>6 DEF DoneKey, Toggled, ScreenType
<1>7. CASE QuitKey
  BY <1>7 DEF QuitKey, ScreenType
<1>8. CASE Receive
  BY <1>8 DEF Receive, ScreenType, picks
<1>9. CASE Return
  BY <1>9 DEF Return, ScreenType, picks
<1>10. ASSUME NEW w \in Worker, Work(w) PROVE ScreenType'
  BY <1>10 DEF Work, Take, Answer, Deliver, Leave, ScreenType, picks
<1>11. CASE Reopen
  <2>1. 1 \in Row /\ 1 \in Nat \ {0} /\ 0 \in Row \cup {0} BY RowFacts
  <2>2. eager' \in Nat \ {0} /\ cursor' \in Row /\ offered' \in Row \cup {0}
    BY <1>11, <2>1, Zenon DEF Reopen, Start
  <2>3. selected' \subseteq Row BY <1>11 DEF Reopen, Start
  <2>4. ui' = "eager" /\ limit' \in Limits /\ finished' \in BOOLEAN /\ aborted' \in BOOLEAN
    BY <1>11, Zenon DEF Reopen, Start
  <2> QED BY <2>2, <2>3, <2>4 DEF ScreenType
<1>12. CASE UNCHANGED vars
  BY <1>12 DEF vars, picks, ScreenType
<1> QED
  BY <1>1, <1>2, <1>3, <1>4, <1>5, <1>6, <1>7, <1>8, <1>9, <1>10, <1>11, <1>12
  DEF Next, Key, Screen

\* The rows' states and the set of queued ids keep their types.
LEMMA RowTyped == ASSUME TypeOK, [Next]_vars PROVE RowType'
<1> USE TypeParts
<1>1. CASE EagerFetch
  BY <1>1, EagerIsRow DEF EagerFetch, Enqueue, RowType, ScreenType, store
<1>2. CASE EnterKey
  BY <1>2 DEF EnterKey, Enqueue, RowType, ScreenType, store
<1>3. CASE Receive
  <2>1. Head(results) \in [row : Row, ok : BOOLEAN] BY <1>3, ReceivedRange DEF Receive, ResultType
  <2> DEFINE r == Head(results)
  <2>2. r.row \in Row /\ r.ok \in BOOLEAN BY <2>1
  <2>3. row' \in [Row -> {"unfetched", "pending", "fetched", "error"}]
    BY <1>3, <2>2 DEF Receive, RowType
  <2>4. queued' \subseteq Row BY <1>3 DEF Receive, RowType
  <2>5. cache' \subseteq Row BY <1>3, <2>2 DEF Receive, RowType
  <2>6. disk' \subseteq Row BY <1>3, <2>5 DEF Receive, RowType
  <2>7. unread' \in BOOLEAN BY <1>3 DEF Receive, RowType
  <2> QED BY <2>3, <2>4, <2>5, <2>6, <2>7 DEF RowType
<1>4. CASE Reopen
  <2>1. PICK d \in SUBSET Row : /\ row' = Loaded(d) /\ queued' = {} /\ cache' = d
                                /\ disk' = disk /\ unread' \in BOOLEAN
    BY <1>4 DEF Reopen, Start, RowType
  <2>2. row' \in [Row -> {"unfetched", "pending", "fetched", "error"}] BY <2>1 DEF Loaded
  <2> QED BY <2>1, <2>2 DEF RowType
<1>5. CASE UNCHANGED <<row, queued, cache, disk, unread>>
  BY <1>5 DEF RowType
<1> QED
  BY <1>1, <1>2, <1>3, <1>4, <1>5
  DEF Next, Key, Screen, Work, Send, MoveKey, SpaceKey, DoneKey, QuitKey, Return, Take, Answer,
      Deliver, Leave, vars, store

\* The queue channel holds rows, and no more than fit in it.
LEMMA QueueTyped == ASSUME TypeOK, [Next]_vars PROVE QueueType'
<1> USE TypeParts
<1>1. CASE Send
  BY <1>1, SentRange, ScreenAssumption DEF Send, QueueType, ScreenType
<1>2. ASSUME NEW w \in Worker, Take(w) PROVE QueueType'
  BY <1>2, ReceivedRange, ScreenAssumption DEF Take, QueueType
<1>3. CASE Reopen
  <2>1. queue' = <<>> BY <1>3 DEF Reopen, Start
  <2> QED BY <2>1, ScreenAssumption DEF QueueType
<1>4. CASE UNCHANGED queue
  BY <1>4 DEF QueueType
<1> QED
  BY <1>1, <1>2, <1>3, <1>4
  DEF Next, Key, Screen, Work, EagerFetch, EnterKey, MoveKey, SpaceKey, DoneKey, QuitKey, Receive,
      Return, Answer, Deliver, Leave, vars

\* So does the results channel, for answers.
LEMMA ResultTyped == ASSUME TypeOK, [Next]_vars PROVE ResultType'
<1> USE TypeParts
<1>1. CASE Receive
  BY <1>1, ReceivedRange, ScreenAssumption DEF Receive, ResultType
<1>2. ASSUME NEW w \in Worker, Deliver(w) PROVE ResultType'
  <2> DEFINE r == [row |-> job[w], ok |-> at[w] = "fetched"]
  <2>1. job[w] \in Row BY <1>2 DEF Deliver, WorkType, Busy
  <2>2. r \in [row : Row, ok : BOOLEAN] BY <2>1
  <2>3. results' = Append(results, r) BY <1>2 DEF Deliver
  <2> HIDE DEF r
  <2> QED BY <1>2, <2>2, <2>3, SentRange, ScreenAssumption DEF Deliver, ResultType
<1>3. CASE Reopen
  <2>1. results' = <<>> BY <1>3 DEF Reopen, Start
  <2> QED BY <2>1, ScreenAssumption DEF ResultType
<1>4. CASE UNCHANGED results
  BY <1>4 DEF ResultType
<1> QED
  BY <1>1, <1>2, <1>3, <1>4
  DEF Next, Key, Screen, Work, EagerFetch, EnterKey, MoveKey, SpaceKey, DoneKey, QuitKey, Send,
      Return, Answer, Take, Leave, vars

\* A worker that is busy has a row to fetch.
LEMMA WorkTyped == ASSUME TypeOK, [Next]_vars PROVE WorkType'
<1> USE TypeParts
<1>1. ASSUME NEW w \in Worker, Take(w) PROVE WorkType'
  <2>1. Head(queue) \in Row BY <1>1, ReceivedRange DEF Take, QueueType
  <2> QED BY <1>1, <2>1 DEF Take, WorkType, Busy
<1>2. ASSUME NEW w \in Worker, Answer(w) PROVE WorkType'
  BY <1>2 DEF Answer, WorkType, Busy
<1>3. ASSUME NEW w \in Worker, Deliver(w) PROVE WorkType'
  BY <1>3 DEF Deliver, WorkType, Busy
<1>4. ASSUME NEW w \in Worker, Leave(w) PROVE WorkType'
  BY <1>4 DEF Leave, WorkType, Busy
<1>5. CASE Reopen
  BY <1>5 DEF Reopen, Start, WorkType, Busy
<1>6. CASE UNCHANGED work
  BY <1>6 DEF work, WorkType, Busy
<1> QED
  BY <1>1, <1>2, <1>3, <1>4, <1>5, <1>6
  DEF Next, Key, Screen, Work, EagerFetch, EnterKey, MoveKey, SpaceKey, DoneKey, QuitKey, Send,
      Return, Receive, vars

\* The table's state is well typed and the channels never hold more than their capacity,
\* whatever the number of rows, workers and places in the channels.
THEOREM TypeCorrect == Spec => []TypeOK
<1>1. Init => TypeOK
  <2> SUFFICES ASSUME Init PROVE TypeOK OBVIOUS
  <2>1. ScreenType
    <3>1. 1 \in Row /\ 1 \in Nat \ {0} /\ 0 \in Row \cup {0} BY RowFacts
    <3>2. eager \in Nat \ {0} /\ cursor \in Row /\ offered \in Row \cup {0}
      BY <3>1, Zenon DEF Init
    <3>3. selected \subseteq Row BY DEF Init
    <3>4. ui = "eager" /\ limit \in Limits /\ finished \in BOOLEAN /\ aborted \in BOOLEAN
      BY Zenon DEF Init
    <3> QED BY <3>2, <3>3, <3>4 DEF ScreenType
  <2>2. RowType BY DEF Init, RowType, Loaded
  <2>3. QueueType BY ScreenAssumption DEF Init, QueueType
  <2>4. ResultType BY ScreenAssumption DEF Init, ResultType
  <2>5. WorkType BY DEF Init, WorkType, Busy
  <2> QED BY <2>1, <2>2, <2>3, <2>4, <2>5, TypeParts
<1>2. TypeOK /\ [Next]_vars => TypeOK'
  <2> SUFFICES ASSUME TypeOK, [Next]_vars PROVE TypeOK' OBVIOUS
  <2>1. ScreenType' /\ RowType' /\ QueueType' /\ ResultType' /\ WorkType'
    BY ScreenTyped, RowTyped, QueueTyped, ResultTyped, WorkTyped
  <2> QED BY <2>1 DEF TypeOK, ScreenType, RowType, QueueType, ResultType, WorkType
<1> QED BY <1>1, <1>2, PTL DEF Spec

---------------------------------------------------------------------------
(* One request at a time *)

Cover       == queued = Offered \cup Waiting \cup Asked \cup Answered
Apart       ==
  /\ (Offered \cap Waiting) \cup (Offered \cap Asked) \cup (Offered \cap Answered) = {}
  /\ (Waiting \cap Asked) \cup (Waiting \cap Answered) \cup (Asked \cap Answered) = {}
QueueOnce   == \A n, m \in 1..Len(queue) : queue[n] = queue[m] => n = m
ResultsOnce == \A n, m \in 1..Len(results) : results[n].row = results[m].row => n = m
JobsOnce    == \A w, x \in Worker : Busy(w) /\ Busy(x) /\ job[w] = job[x] => w = x
RowsPending == \A i \in Row : row[i] = "pending" <=> i \in queued
Placed      == Cover /\ Apart

Once        == Placed /\ QueueOnce /\ ResultsOnce /\ JobsOnce /\ RowsPending

\* OneRequest, as one part per place where an id can be, and what the return leaves.
LEMMA OnceParts == OneRequest <=> Once /\ (ui = "returned" => queued = Answered)
  BY DEF OneRequest, Once, Placed, Cover, Apart, QueueOnce, ResultsOnce, JobsOnce, RowsPending

\* Steps that leave a place alone keep its part: the queue,
LEMMA WaitingKept  == ASSUME UNCHANGED queue PROVE Waiting' = Waiting /\ (QueueOnce => QueueOnce')
  BY DEF Waiting, QueueOnce
\* the results,
LEMMA AnsweredKept ==
  ASSUME UNCHANGED results PROVE Answered' = Answered /\ (ResultsOnce => ResultsOnce')
  BY DEF Answered, ResultsOnce
\* the workers,
LEMMA AskedKept    == ASSUME UNCHANGED work PROVE Asked' = Asked /\ (JobsOnce => JobsOnce')
  BY DEF Asked, JobsOnce, Busy, work
\* and the rows.
LEMMA RowsKept     == ASSUME UNCHANGED <<row, queued>> PROVE RowsPending => RowsPending'
  BY DEF RowsPending

\* Where ids are before and after each step that moves one.
LEMMA SendMoves ==
  ASSUME TypeOK, Send
  PROVE  /\ Offered = {offered} /\ Offered' = {} /\ Waiting' = Waiting \cup {offered}
         /\ QueueOnce /\ offered \notin Waiting => QueueOnce'
<1>1. queue \in Seq(Row) /\ offered \in Row /\ queue' = Append(queue, offered)
  BY DEF TypeOK, Send
<1>2. /\ Len(queue') = Len(queue) + 1 /\ queue'[Len(queue) + 1] = offered /\ Len(queue) \in Nat
      /\ \A n \in 1..Len(queue) : queue'[n] = queue[n]
  BY <1>1, SentRange
<1>3. Offered = {offered} /\ Offered' = {} BY DEF Send, Home, Offered
<1>4. Waiting' = Waiting \cup {offered} BY <1>2 DEF Waiting
<1>5. QueueOnce /\ offered \notin Waiting => QueueOnce' BY <1>2 DEF QueueOnce, Waiting
<1> QED BY <1>3, <1>4, <1>5

\* Take moves one id from the queue to a worker.
LEMMA TakeMoves ==
  ASSUME TypeOK, NEW w \in Worker, Take(w), QueueOnce, JobsOnce, Waiting \cap Asked = {}
  PROVE  \E h \in Row : /\ h \in Waiting /\ Waiting' = Waiting \ {h} /\ Asked' = Asked \cup {h}
                        /\ QueueOnce' /\ JobsOnce'
<1>1. queue \in Seq(Row) /\ queue # <<>> /\ queue' = Tail(queue) BY DEF TypeOK, Take
<1>2. /\ Head(queue) \in Row /\ Head(queue) = queue[1] /\ Len(queue) \in Nat \ {0}
      /\ Len(queue') = Len(queue) - 1 /\ \A n \in 1..Len(queue') : queue'[n] = queue[n + 1]
  BY <1>1, ReceivedRange
<1>3. PICK h \in Row : h = queue[1] /\ h = Head(queue) BY <1>2
<1>4. h \in Waiting BY <1>2, <1>3 DEF Waiting
<1>5. \A n \in 1..Len(queue') : n + 1 \in 1..Len(queue) /\ queue'[n] = queue[n + 1]
  BY <1>2
<1>6. \A n \in 1..Len(queue) : n = 1 \/ (n - 1 \in 1..Len(queue') /\ queue'[n - 1] = queue[n])
  BY <1>2
<1>7. Waiting' = Waiting \ {h}
  <2>1. ASSUME NEW i \in Waiting' PROVE i \in Waiting \ {h}
    <3>1. PICK n \in 1..Len(queue') : i = queue'[n] BY <2>1 DEF Waiting
    <3> QED BY <3>1, <1>2, <1>3, <1>5 DEF Waiting, QueueOnce
  <2>2. ASSUME NEW i \in Waiting \ {h} PROVE i \in Waiting'
    <3>1. PICK n \in 1..Len(queue) : i = queue[n] BY <2>2 DEF Waiting
    <3> QED BY <2>2, <3>1, <1>3, <1>6 DEF Waiting
  <2> QED BY <2>1, <2>2
<1>8. QueueOnce' BY <1>2, <1>5 DEF QueueOnce
<1>9. /\ ~Busy(w) /\ Busy(w)' /\ job'[w] = h
      /\ \A x \in Worker \ {w} : (Busy(x)' <=> Busy(x)) /\ job'[x] = job[x]
  BY <1>3 DEF TypeOK, Take, Busy
<1>10. Asked' = Asked \cup {h} BY <1>9 DEF Asked
<1>11. h \notin Asked BY <1>4
<1>12. JobsOnce' BY <1>9, <1>11 DEF JobsOnce, Asked
<1> QED BY <1>4, <1>7, <1>8, <1>10, <1>12

\* Deliver moves it on to the results.
LEMMA DeliverMoves ==
  ASSUME TypeOK, NEW w \in Worker, Deliver(w), ResultsOnce, JobsOnce, Asked \cap Answered = {}
  PROVE  \E h \in Row : /\ h \in Asked /\ Asked' = Asked \ {h} /\ Answered' = Answered \cup {h}
                        /\ ResultsOnce' /\ JobsOnce'
<1>1. Busy(w) /\ job[w] \in Row BY DEF TypeOK, Deliver, Busy
<1>2. PICK h \in Row : h = job[w] BY <1>1
<1>3. PICK r \in [row : Row, ok : BOOLEAN] : r.row = h /\ results' = Append(results, r)
  <2>1. [row |-> job[w], ok |-> at[w] = "fetched"] \in [row : Row, ok : BOOLEAN] BY <1>1
  <2>2. [row |-> job[w], ok |-> at[w] = "fetched"].row = h BY <1>2
  <2> QED BY <2>1, <2>2 DEF Deliver
<1>4. results \in Seq([row : Row, ok : BOOLEAN]) BY DEF TypeOK
<1>5. /\ Len(results') = Len(results) + 1 /\ results'[Len(results) + 1] = r /\ Len(results) \in Nat
      /\ \A n \in 1..Len(results) : results'[n] = results[n]
  BY <1>3, <1>4, SentRange
<1>6. h \in Asked BY <1>1, <1>2 DEF Asked
<1>7. Answered' = Answered \cup {h} BY <1>3, <1>5 DEF Answered
<1>8. h \notin Answered BY <1>6
<1>9. ResultsOnce' BY <1>3, <1>5, <1>8 DEF ResultsOnce, Answered
<1>10. /\ ~(Busy(w)')
       /\ \A x \in Worker \ {w} : (Busy(x)' <=> Busy(x)) /\ job'[x] = job[x]
  BY DEF TypeOK, Deliver, Busy
<1>11. JobsOnce' BY <1>10 DEF JobsOnce
<1>12. Asked' = Asked \ {h} BY <1>1, <1>2, <1>10 DEF Asked, JobsOnce
<1> QED BY <1>6, <1>7, <1>9, <1>11, <1>12

\* Receive takes it out of the results and out of the queued set.
LEMMA ReceiveMoves ==
  ASSUME TypeOK, Receive, ResultsOnce
  PROVE  \E h \in Row : /\ h \in Answered /\ Answered' = Answered \ {h} /\ queued' = queued \ {h}
                        /\ ResultsOnce' /\ (RowsPending => RowsPending')
<1>1. /\ results \in Seq([row : Row, ok : BOOLEAN]) /\ results # <<>> /\ results' = Tail(results)
  BY DEF TypeOK, Receive
<1>2. /\ Head(results) = results[1] /\ Head(results) \in [row : Row, ok : BOOLEAN]
      /\ Len(results) \in Nat \ {0} /\ Len(results') = Len(results) - 1
      /\ \A n \in 1..Len(results') : results'[n] = results[n + 1]
  BY <1>1, ReceivedRange
<1>3. PICK h \in Row : h = results[1].row /\ h = Head(results).row BY <1>2
<1>4. h \in Answered BY <1>2, <1>3 DEF Answered
<1>5. \A n \in 1..Len(results') : n + 1 \in 1..Len(results) /\ results'[n] = results[n + 1]
  BY <1>2
<1>6. \A n \in 1..Len(results) :
        n = 1 \/ (n - 1 \in 1..Len(results') /\ results'[n - 1] = results[n])
  BY <1>2
<1>7. Answered' = Answered \ {h}
  <2>1. ASSUME NEW i \in Answered' PROVE i \in Answered \ {h}
    <3>1. PICK n \in 1..Len(results') : i = results'[n].row BY <2>1 DEF Answered
    <3>2. n + 1 \in 1..Len(results) /\ i = results[n + 1].row BY <3>1, <1>5
    <3>3. 1 \in 1..Len(results) /\ n + 1 # 1 BY <1>2, <3>1
    <3>4. results[n + 1].row # results[1].row BY <3>2, <3>3 DEF ResultsOnce
    <3> QED BY <3>2, <3>4, <1>3 DEF Answered
  <2>2. ASSUME NEW i \in Answered \ {h} PROVE i \in Answered'
    <3>1. PICK n \in 1..Len(results) : i = results[n].row BY <2>2 DEF Answered
    <3> QED BY <2>2, <3>1, <1>3, <1>6 DEF Answered
  <2> QED BY <2>1, <2>2
<1>8. ResultsOnce' BY <1>2, <1>5 DEF ResultsOnce
<1>9. queued' = queued \ {h} BY <1>3 DEF Receive
<1>10. \E s \in {"fetched", "error"} : row' = [row EXCEPT ![h] = s] BY <1>3 DEF Receive
<1>11. RowsPending => RowsPending' BY <1>9, <1>10 DEF RowsPending, TypeOK
<1> QED BY <1>4, <1>7, <1>8, <1>9, <1>11

\* A row that is asked for is put in front of the queue and nowhere else.
LEMMA EnqueueMoves ==
  ASSUME TypeOK, ui # "send", NEW i \in Row, Enqueue(i)
  PROVE  /\ i \notin queued /\ queued' = queued \cup {i} /\ Offered = {} /\ Offered' = {i}
         /\ RowsPending => RowsPending'
  BY DEF TypeOK, Enqueue, Offered, RowsPending

\* Every step keeps every id asked for in exactly one place.
LEMMA OnceKept ==
  ASSUME TypeOK, Once, [Next]_vars
  PROVE  Once'
<1>1. Placed /\ QueueOnce /\ ResultsOnce /\ JobsOnce /\ RowsPending BY DEF Once
<1>2. SUFFICES Placed' /\ QueueOnce' /\ ResultsOnce' /\ JobsOnce' /\ RowsPending'
  BY DEF Once
<1>3. ASSUME NEW i \in Row, ui # "send", Enqueue(i), UNCHANGED <<queue, results, work>>
      PROVE  Placed' /\ QueueOnce' /\ ResultsOnce' /\ JobsOnce' /\ RowsPending'
  <2>1. UNCHANGED queue /\ UNCHANGED results /\ UNCHANGED work BY <1>3
  <2>2. Placed' BY <1>1, <1>3, <2>1, WaitingKept, AnsweredKept, AskedKept, EnqueueMoves
    DEF Placed, Cover, Apart
  <2> QED BY <1>1, <1>3, <2>1, <2>2, WaitingKept, AnsweredKept, AskedKept, EnqueueMoves
<1>4. ASSUME UNCHANGED <<queue, results, work, row, queued>>, Offered' = Offered
      PROVE  Placed' /\ QueueOnce' /\ ResultsOnce' /\ JobsOnce' /\ RowsPending'
  <2>1. UNCHANGED queue /\ UNCHANGED results /\ UNCHANGED work /\ UNCHANGED <<row, queued>>
    BY <1>4
  <2>2. Placed' BY <1>1, <1>4, <2>1, WaitingKept, AnsweredKept, AskedKept
    DEF Placed, Cover, Apart
  <2> QED BY <1>1, <2>1, <2>2, WaitingKept, AnsweredKept, AskedKept, RowsKept
<1>5. CASE EagerFetch
  <2>1. CASE eager <= EagerRows /\ row[eager] = "unfetched"
    <3>1. eager \in Row BY <2>1, EagerIsRow DEF TypeOK
    <3>2. ui # "send" /\ UNCHANGED <<queue, results, work>> BY <1>5 DEF EagerFetch
    <3>3. Enqueue(eager) BY <1>5, <2>1 DEF EagerFetch
    <3> QED BY <1>3, <3>1, <3>2, <3>3
  <2>2. CASE ~(eager <= EagerRows /\ row[eager] = "unfetched")
    <3>1. Offered' = Offered BY <1>5, <2>2 DEF EagerFetch, Offered
    <3> QED BY <1>4, <1>5, <2>2, <3>1 DEF EagerFetch
  <2> QED BY <2>1, <2>2
<1>6. CASE EnterKey
  BY <1>3, <1>6 DEF EnterKey, TypeOK
<1>7. CASE Send
  <2>1. UNCHANGED results /\ UNCHANGED work /\ UNCHANGED <<row, queued>> BY <1>7 DEF Send
  <2>2. offered \notin Waiting BY <1>1, <1>7, SendMoves DEF Placed, Apart
  <2>3. Placed' BY <1>1, <1>7, <2>1, <2>2, SendMoves, AnsweredKept, AskedKept
    DEF Placed, Cover, Apart
  <2> QED BY <1>1, <1>7, <2>1, <2>2, <2>3, SendMoves, AnsweredKept, AskedKept, RowsKept
<1>8. CASE Receive
  <2>1. UNCHANGED queue /\ UNCHANGED work BY <1>8 DEF Receive
  <2>2. Offered = {} /\ Offered' = {} BY <1>8 DEF Receive, Offered
  <2>3. PICK h \in Row : /\ h \in Answered /\ Answered' = Answered \ {h} /\ queued' = queued \ {h}
                         /\ ResultsOnce' /\ (RowsPending => RowsPending')
    BY <1>1, <1>8, ReceiveMoves
  <2>4. Placed' BY <1>1, <2>1, <2>2, <2>3, WaitingKept, AskedKept DEF Placed, Cover, Apart
  <2> QED BY <1>1, <2>1, <2>3, <2>4, WaitingKept, AskedKept
<1>9. ASSUME NEW w \in Worker, Take(w)
      PROVE  Placed' /\ QueueOnce' /\ ResultsOnce' /\ JobsOnce' /\ RowsPending'
  <2>1. UNCHANGED results /\ UNCHANGED <<row, queued>> /\ Offered' = Offered
    BY <1>9 DEF Take, Offered
  <2>2. PICK h \in Row : /\ h \in Waiting /\ Waiting' = Waiting \ {h} /\ Asked' = Asked \cup {h}
                         /\ QueueOnce' /\ JobsOnce'
    BY <1>1, <1>9, TakeMoves DEF Placed, Apart
  <2>3. Placed' BY <1>1, <2>1, <2>2, AnsweredKept DEF Placed, Cover, Apart
  <2> QED BY <1>1, <2>1, <2>2, <2>3, AnsweredKept, RowsKept
<1>10. ASSUME NEW w \in Worker, Deliver(w)
       PROVE  Placed' /\ QueueOnce' /\ ResultsOnce' /\ JobsOnce' /\ RowsPending'
  <2>1. UNCHANGED queue /\ UNCHANGED <<row, queued>> /\ Offered' = Offered
    BY <1>10 DEF Deliver, Offered
  <2>2. PICK h \in Row : /\ h \in Asked /\ Asked' = Asked \ {h} /\ Answered' = Answered \cup {h}
                         /\ ResultsOnce' /\ JobsOnce'
    BY <1>1, <1>10, DeliverMoves DEF Placed, Apart
  <2>3. Placed' BY <1>1, <2>1, <2>2, WaitingKept DEF Placed, Cover, Apart
  <2> QED BY <1>1, <2>1, <2>2, <2>3, WaitingKept, RowsKept
<1>11. ASSUME NEW w \in Worker, Answer(w) \/ Leave(w)
       PROVE  Placed' /\ QueueOnce' /\ ResultsOnce' /\ JobsOnce' /\ RowsPending'
  <2>1. UNCHANGED queue /\ UNCHANGED results /\ UNCHANGED <<row, queued>> /\ Offered' = Offered
    BY <1>11 DEF Answer, Leave, Offered
  <2>2. UNCHANGED job /\ \A x \in Worker : Busy(x)' <=> Busy(x)
    BY <1>11 DEF Answer, Leave, Busy, TypeOK
  <2>3. Asked' = Asked /\ JobsOnce' BY <1>1, <2>2 DEF Asked, JobsOnce
  <2>4. Placed' BY <1>1, <2>1, <2>3, WaitingKept, AnsweredKept DEF Placed, Cover, Apart
  <2> QED BY <1>1, <2>1, <2>3, <2>4, WaitingKept, AnsweredKept, RowsKept
<1>12. CASE Reopen
  <2>1. Offered' = {} /\ Waiting' = {} /\ Asked' = {} /\ Answered' = {} /\ queued' = {}
    BY <1>12 DEF Reopen, Start, Offered, Waiting, Asked, Answered, Busy
  <2>2. Placed' BY <2>1 DEF Placed, Cover, Apart
  <2>3. QueueOnce' /\ ResultsOnce' /\ JobsOnce'
    BY <1>12 DEF Reopen, Start, QueueOnce, ResultsOnce, JobsOnce, Busy
  <2>4. RowsPending' BY <1>12 DEF Reopen, Start, RowsPending, Loaded
  <2> QED BY <2>2, <2>3, <2>4
<1>13. CASE MoveKey \/ SpaceKey \/ DoneKey \/ QuitKey \/ Return
  <2>1. Offered' = Offered
    BY <1>13 DEF MoveKey, SpaceKey, DoneKey, QuitKey, Return, Offered
  <2>2. UNCHANGED <<queue, results, work, row, queued>>
    BY <1>13 DEF MoveKey, SpaceKey, DoneKey, QuitKey, Return
  <2> QED BY <1>4, <2>1, <2>2
<1>14. CASE UNCHANGED vars
  <2>1. Offered' = Offered BY <1>14 DEF vars, Offered
  <2>2. UNCHANGED <<queue, results, work, row, queued>> BY <1>14 DEF vars
  <2> QED BY <1>4, <2>1, <2>2
<1> QED
  BY <1>5, <1>6, <1>7, <1>8, <1>9, <1>10, <1>11, <1>12, <1>13, <1>14
  DEF Next, Key, Screen, Work

\* A worker leaves only when nobody sends any more and the queue is empty.
LeftLast == \A w \in Worker : at[w] = "gone" => ui \in {"closing", "returned"} /\ queue = <<>>
AllLeft  == ui = "returned" => \A w \in Worker : at[w] = "gone"

\* Who has left stays away, and the queue stays empty.
LEMMA LeftKept == ASSUME TypeOK, LeftLast, AllLeft, [Next]_vars PROVE LeftLast' /\ AllLeft'
<1>0. at \in [Worker -> {"idle", "fetching", "fetched", "failed", "gone"}] BY DEF TypeOK
<1>1. CASE EagerFetch \/ EnterKey \/ MoveKey \/ SpaceKey \/ Receive
  BY <1>1 DEF EagerFetch, EnterKey, Enqueue, MoveKey, SpaceKey, Receive, LeftLast, AllLeft, work
<1>2. CASE Send \/ DoneKey \/ QuitKey
  BY <1>2 DEF Send, Home, DoneKey, QuitKey, LeftLast, AllLeft, work
<1>3. CASE Return
  BY <1>3 DEF Return, LeftLast, AllLeft, work
<1>4. ASSUME NEW w \in Worker, Take(w) PROVE LeftLast' /\ AllLeft'
  BY <1>0, <1>4 DEF Take, LeftLast, AllLeft
<1>5. ASSUME NEW w \in Worker, Answer(w) \/ Deliver(w) \/ Leave(w) PROVE LeftLast' /\ AllLeft'
  BY <1>0, <1>5 DEF Answer, Deliver, Leave, LeftLast, AllLeft
<1>6. CASE Reopen
  BY <1>6 DEF Reopen, Start, LeftLast, AllLeft
<1>7. CASE UNCHANGED vars
  BY <1>7 DEF vars, work, LeftLast, AllLeft
<1> QED BY <1>1, <1>2, <1>3, <1>4, <1>5, <1>6, <1>7 DEF Next, Key, Screen, Work

\* So what is queued at the return has been answered.
LEMMA OnlyAnswered == ASSUME Once, LeftLast, AllLeft PROVE OneRequest
<1> SUFFICES ASSUME ui = "returned" PROVE queued = Answered BY OnceParts
<1>1. queue = <<>> BY ScreenAssumption DEF LeftLast, AllLeft
<1>2. Offered = {} /\ Waiting = {} BY <1>1 DEF Offered, Waiting
<1>3. Asked = {} BY DEF AllLeft, Asked, Busy
<1> QED BY <1>2, <1>3 DEF Once, Placed, Cover

\* Every version asked for is in one place only, so that Apple is asked once at a time and
\* every pending row has its answer on the way, for any number of rows and workers; and when
\* the screen returns no request is left but the answers its drain has not taken.
THEOREM RequestedOnce == Spec => []OneRequest
<1>1. Init => Once /\ LeftLast /\ AllLeft
  <2> SUFFICES ASSUME Init PROVE Once /\ LeftLast /\ AllLeft OBVIOUS
  <2>1. Offered = {} /\ Waiting = {} /\ Asked = {} /\ Answered = {} /\ queued = {}
    BY DEF Init, Offered, Waiting, Asked, Answered, Busy
  <2>2. Placed BY <2>1 DEF Placed, Cover, Apart
  <2>3. QueueOnce /\ ResultsOnce /\ JobsOnce
    BY DEF Init, QueueOnce, ResultsOnce, JobsOnce, Busy
  <2>4. RowsPending BY DEF Init, RowsPending, Loaded
  <2>5. LeftLast /\ AllLeft BY DEF Init, LeftLast, AllLeft
  <2> QED BY <2>2, <2>3, <2>4, <2>5 DEF Once
<1> QED BY <1>1, OnceKept, LeftKept, OnlyAnswered, TypeCorrect, PTL DEF Spec

---------------------------------------------------------------------------
(* What is picked, and the cache *)

OneAtMost == limit = 1 => \E i \in Row : selected \subseteq {i}
Over      == finished \/ aborted => ui \in {"closing", "returned"}
Accepted  == finished => limit # 0 /\ selected # {} /\ ~aborted
PickInv   == OneAtMost /\ Over /\ Accepted

\* PickInv is inductive: one row at most where one may be picked, and something picked at the end.
LEMMA PickKept == ASSUME TypeOK, PickInv, [Next]_vars PROVE PickInv'
<1>1. CASE UNCHANGED <<limit, picks>> /\ (ui \in {"closing", "returned"} => ui' \in {"closing", "returned"})
  BY <1>1 DEF PickInv, OneAtMost, Over, Accepted, picks
<1>2. CASE MoveKey
  BY <1>2 DEF MoveKey, PickInv, OneAtMost, Over, Accepted
<1>3. CASE SpaceKey
  <2>1. OneAtMost' BY <1>3 DEF SpaceKey, Toggled, PickInv, OneAtMost, TypeOK
  <2>2. Over' BY <1>3 DEF SpaceKey, PickInv, Over
  <2>3. ~finished' BY <1>3 DEF SpaceKey, PickInv, Over
  <2> QED BY <2>1, <2>2, <2>3 DEF PickInv, Accepted
<1>4. CASE DoneKey
  <2>1. OneAtMost' BY <1>4 DEF DoneKey, Toggled, PickInv, OneAtMost, TypeOK
  <2>2. ui' = "closing" /\ limit' # 0 BY <1>4 DEF DoneKey
  <2>3. selected' # {} BY <1>4 DEF DoneKey, Toggled
  <2>4. ~aborted' BY <1>4 DEF DoneKey, PickInv, Over
  <2> QED BY <2>1, <2>2, <2>3, <2>4 DEF PickInv, Over, Accepted
<1>5. CASE QuitKey
  <2>1. OneAtMost' BY <1>5 DEF QuitKey, PickInv, OneAtMost
  <2>2. ~finished' /\ ui' = "closing" BY <1>5 DEF QuitKey, PickInv, Over
  <2> QED BY <2>1, <2>2 DEF PickInv, Over, Accepted
<1>6. CASE Reopen
  <2>1. selected' = {} /\ ~finished' /\ ~aborted' BY <1>6 DEF Reopen, Start
  <2> QED BY <2>1, RowFacts DEF PickInv, OneAtMost, Over, Accepted
<1>7. CASE EagerFetch
  BY <1>1, <1>7 DEF EagerFetch, Enqueue
<1>8. CASE EnterKey
  BY <1>1, <1>8 DEF EnterKey, Enqueue
<1>9. CASE Send \/ Receive \/ Return
  BY <1>1, <1>9 DEF Send, Receive, Return
<1>10. ASSUME NEW w \in Worker, Work(w) PROVE PickInv'
  BY <1>1, <1>10 DEF Work, Take, Answer, Deliver, Leave
<1>11. CASE UNCHANGED vars
  BY <1>1, <1>11 DEF vars
<1> QED
  BY <1>2, <1>3, <1>4, <1>5, <1>6, <1>7, <1>8, <1>9, <1>10, <1>11 DEF Next, Key, Screen

\* PickInv at the return is the property.
LEMMA PickGiven == ASSUME TypeOK, PickInv PROVE PickHonoured
<1>1. limit = 1 => Cardinality(selected) <= 1
  <2> SUFFICES ASSUME limit = 1 PROVE Cardinality(selected) <= 1 OBVIOUS
  <2>1. PICK i \in Row : selected \subseteq {i} BY DEF PickInv, OneAtMost
  <2>2. IsFiniteSet({i}) /\ Cardinality({i}) = 1 BY FS_Singleton
  <2>3. Cardinality(selected) <= Cardinality({i}) BY <2>1, <2>2, FS_Subset
  <2> QED BY <2>2, <2>3
<1>2. finished => limit # 0 /\ selected # {} /\ ~aborted BY DEF PickInv, Accepted
<1>3. finished <=> Returned # {} BY <1>2 DEF Returned
<1> QED BY <1>1, <1>2, <1>3 DEF PickHonoured

\* A single picker holds one version at most, and the table returns a choice exactly when
\* the user accepted one.
THEOREM PicksHonoured == Spec => []PickHonoured
<1>1. Init => PickInv
  BY RowFacts DEF Init, PickInv, OneAtMost, Over, Accepted
<1> QED BY <1>1, PickKept, PickGiven, TypeCorrect, PTL DEF Spec

DiskCached == unread \/ disk \subseteq cache

\* The file holds answers that the memory holds, unless it could not be read; so saving
\* loses none.
LEMMA DiskKept ==
  ASSUME DiskCached, [Next]_vars PROVE DiskCached' /\ (unread \/ disk \subseteq disk')
<1>1. CASE Receive
  <2>1. cache \subseteq cache' BY <1>1 DEF Receive
  <2>2. \/ disk' = disk /\ (unread' <=> unread)
        \/ disk' = cache'
    BY <1>1 DEF Receive
  <2> QED BY <2>1, <2>2 DEF DiskCached
<1>2. CASE Reopen
  BY <1>2 DEF Reopen, Start, DiskCached
<1>3. CASE UNCHANGED store
  BY <1>3 DEF DiskCached, store
<1> QED
  BY <1>1, <1>2, <1>3
  DEF Next, Key, Screen, Work, EagerFetch, EnterKey, MoveKey, SpaceKey, DoneKey, QuitKey, Send,
      Return, Take, Answer, Deliver, Leave, vars

\* No failed save, no kill and no restart takes a version out of the cache file of a run that
\* could read it; one that could not loses what was in it at its first save, and nothing
\* after that.
THEOREM CacheNeverShrinks == Spec => CacheGrows
<1>1. Init => DiskCached BY DEF Init, DiskCached
<1>2. DiskCached /\ [Next]_vars => DiskCached' BY DiskKept
<1>3. DiskCached /\ [Next]_vars => [unread \/ disk \subseteq disk']_vars BY DiskKept
<1> QED BY <1>1, <1>2, <1>3, PTL DEF Spec, CacheGrows

---------------------------------------------------------------------------
(* Waiting for each other *)

\* A finite set has at least as many elements as a set that is named by some of them.
LEMMA AtLeast ==
  ASSUME NEW S, NEW T, IsFiniteSet(T), NEW f \in [S -> T],
         \A a, b \in S : f[a] = f[b] => a = b
  PROVE  IsFiniteSet(S) /\ Cardinality(S) <= Cardinality(T)
<1>1. f \in Injection(S, T) BY DEF Injection, IsInjective
<1> QED BY <1>1, FS_Injection

\* The number of elements of two disjoint sets together.
LEMMA DisjointSum ==
  ASSUME NEW S, NEW T, IsFiniteSet(S), IsFiniteSet(T), S \cap T = {}
  PROVE  /\ IsFiniteSet(S \cup T) /\ Cardinality(S \cup T) = Cardinality(S) + Cardinality(T)
         /\ Cardinality(S) \in Nat /\ Cardinality(T) \in Nat
<1>1. Cardinality(S) \in Nat /\ Cardinality(T) \in Nat BY FS_CardinalityType
<1>2. Cardinality(S \cap T) = 0 BY FS_EmptySet
<1>3. /\ IsFiniteSet(S \cup T)
      /\ Cardinality(S \cup T) = Cardinality(S) + Cardinality(T) - Cardinality(S \cap T)
  BY FS_Union
<1> QED BY <1>1, <1>2, <1>3

\* A table that is stuck has more rows than the channels and the workers hold.
LEMMA StuckNeedsRows == ASSUME TypeOK, OneRequest, Stuck PROVE ~RoomForAll
<1>1. IsFiniteSet(Row) /\ Cardinality(Row) = Count BY FS_Interval, ScreenAssumption DEF Row
<1>2. Placed /\ QueueOnce /\ ResultsOnce /\ JobsOnce BY OnceParts DEF Once
<1>3. /\ queue \in Seq(Row) /\ Len(queue) = QueueCap
      /\ results \in Seq([row : Row, ok : BOOLEAN]) /\ Len(results) = ResultCap
      /\ QueueCap \in Nat /\ ResultCap \in Nat /\ Count \in Nat
  BY ScreenAssumption DEF TypeOK, Stuck
<1>4. \A w \in Worker : Busy(w) BY DEF Stuck, Busy
<1>5. Waiting \subseteq Row BY <1>3 DEF Waiting
<1>6. \A n \in 1..Len(results) : results[n].row \in Row
  <2>1. \A n \in 1..Len(results) : results[n] \in [row : Row, ok : BOOLEAN]
    BY <1>3, InChannel
  <2> QED BY <2>1
<1>7. Answered \subseteq Row BY <1>6 DEF Answered
<1>8. \A w \in Worker : job[w] \in Row BY <1>4 DEF TypeOK
<1>9. Asked \subseteq Row BY <1>8 DEF Asked
<1>10. Offered = {offered} /\ Offered \subseteq Row BY DEF Stuck, Offered, TypeOK
<1>11. /\ IsFiniteSet(Waiting) /\ IsFiniteSet(Answered) /\ IsFiniteSet(Asked)
       /\ IsFiniteSet(Offered) /\ Cardinality(Offered) = 1
  BY <1>1, <1>5, <1>7, <1>9, <1>10, FS_Subset, FS_Singleton
<1>12. QueueCap <= Cardinality(Waiting)
  <2>1. [n \in 1..QueueCap |-> queue[n]] \in [1..QueueCap -> Waiting] BY <1>3 DEF Waiting
  <2>2. Cardinality(1..QueueCap) <= Cardinality(Waiting)
    BY <1>2, <1>3, <1>11, <2>1, AtLeast DEF QueueOnce
  <2> QED BY <1>3, <2>2, FS_Interval
<1>13. ResultCap <= Cardinality(Answered)
  <2>1. [n \in 1..ResultCap |-> results[n].row] \in [1..ResultCap -> Answered]
    BY <1>3 DEF Answered
  <2>2. Cardinality(1..ResultCap) <= Cardinality(Answered)
    <3> DEFINE f == [n \in 1..ResultCap |-> results[n].row]
    <3>1. \A n, m \in 1..ResultCap : f[n] = f[m] => n = m BY <1>2, <1>3 DEF ResultsOnce
    <3> HIDE DEF f
    <3> QED BY <1>11, <2>1, <3>1, AtLeast DEF f
  <2>3. Cardinality(1..ResultCap) = ResultCap BY <1>3, FS_Interval
  <2> QED BY <2>2, <2>3
<1>14. IsFiniteSet(Worker) /\ Cardinality(Worker) <= Cardinality(Asked)
  <2>1. [w \in Worker |-> job[w]] \in [Worker -> Asked] BY <1>4 DEF Asked
  <2> QED BY <1>2, <1>4, <1>11, <2>1, AtLeast DEF JobsOnce
<1>15. /\ IsFiniteSet(Offered \cup Waiting)
       /\ Cardinality(Offered \cup Waiting) = 1 + Cardinality(Waiting)
  <2>1. Offered \cap Waiting = {} BY <1>2 DEF Placed, Apart
  <2> QED BY <1>11, <2>1, DisjointSum
<1>16. /\ IsFiniteSet(Asked \cup Answered)
       /\ Cardinality(Asked \cup Answered) = Cardinality(Asked) + Cardinality(Answered)
  <2>1. Asked \cap Answered = {} BY <1>2 DEF Placed, Apart
  <2> QED BY <1>11, <2>1, DisjointSum
<1> DEFINE Everywhere == (Offered \cup Waiting) \cup (Asked \cup Answered)
<1>17. Cardinality(Everywhere)
         = 1 + Cardinality(Waiting) + (Cardinality(Asked) + Cardinality(Answered))
  <2>1. (Offered \cup Waiting) \cap (Asked \cup Answered) = {} BY <1>2 DEF Placed, Apart
  <2>2. Cardinality(Everywhere)
          = Cardinality(Offered \cup Waiting) + Cardinality(Asked \cup Answered)
    BY <1>15, <1>16, <2>1, DisjointSum
  <2> QED BY <1>15, <1>16, <2>2
<1>18. Cardinality(Everywhere) <= Count
  <2>1. Everywhere \subseteq Row BY <1>5, <1>7, <1>9, <1>10
  <2> QED BY <1>1, <2>1, FS_Subset
<1>19. /\ Cardinality(Waiting) \in Nat /\ Cardinality(Asked) \in Nat
       /\ Cardinality(Answered) \in Nat /\ Cardinality(Worker) \in Nat
       /\ Cardinality(Everywhere) \in Nat
  BY <1>11, <1>14, <1>15, <1>16, FS_CardinalityType, DisjointSum, <1>17
<1> HIDE DEF Everywhere
<1> QED BY <1>3, <1>12, <1>13, <1>14, <1>17, <1>18, <1>19 DEF RoomForAll

\* With no more rows than the two channels and the workers hold, the screen and the workers
\* never all wait for each other.  With one more they may: in the program that is a table of
\* more than 260 versions (256 ids queued, 2 results, 2 workers).
THEOREM NeverStuck == RoomForAll => (Spec => []~Stuck)
<1>1. TypeOK /\ OneRequest /\ RoomForAll => ~Stuck BY StuckNeedsRows
<1>2. RoomForAll => (TypeOK /\ OneRequest => ~Stuck) BY <1>1
<1> SUFFICES ASSUME RoomForAll PROVE Spec => []~Stuck OBVIOUS
<1>3. TypeOK /\ OneRequest => ~Stuck BY <1>2
<1> QED BY <1>3, TypeCorrect, RequestedOnce, PTL

---------------------------------------------------------------------------
(* The version column *)

\* Newer is a strict total order on display versions.
LEMMA NewerOrder ==
  ASSUME NEW x \in Version, NEW y \in Version, NEW z \in Version
  PROVE  /\ ~Newer(x, x)
         /\ ~(Newer(x, y) /\ Newer(y, x))
         /\ x = y \/ Newer(x, y) \/ Newer(y, x)
         /\ Newer(x, y) /\ Newer(y, z) => Newer(x, z)
         /\ Newer(x, y) /\ ~Newer(z, y) => Newer(x, z)
         /\ ~Newer(y, x) /\ Newer(y, z) => Newer(x, z)
  BY DEF Version, Newer

\* A version is no blank, and its parts make it.
LEMMA VersionParts ==
  /\ \A x \in Version : x # Blank /\ x[1] \in Nat /\ x[2] \in Nat /\ x[3] \in Nat
  /\ \A a, b, c \in Nat : <<a, b, c>> \in Version
  BY DEF Version, Blank

\* A product with a positive factor does not shrink.
LEMMA TimesMonotone ==
  ASSUME NEW x \in Int, NEW y \in Int, NEW c \in Nat, x <= y PROVE c * x <= c * y
<1>1. PICK d \in Nat : y = x + d OBVIOUS
<1>2. c * d \in Nat BY <1>1
<1>3. c * (x + d) = c * x + c * d OBVIOUS
<1> QED BY <1>1, <1>2, <1>3

\* Whole quotients of numbers at least a divisor apart differ.
LEMMA QuotientStep ==
  ASSUME NEW x \in Nat, NEW y \in Nat, NEW c \in Nat \ {0}, x + c <= y
  PROVE  x \div c < y \div c
<1> DEFINE p == x \div c
           q == y \div c
<1>1. p \in Int /\ q \in Int OBVIOUS
<1>2. x = c * p + (x % c) /\ y = c * q + (y % c) OBVIOUS
<1>3. x % c \in 0..c - 1 /\ y % c \in 0..c - 1 OBVIOUS
<1> HIDE DEF p, q
<1>4. ASSUME q <= p PROVE FALSE
  <2>1. c * q <= c * p BY <1>1, <1>4, TimesMonotone
  <2> QED BY <1>1, <1>2, <1>3, <2>1
<1> QED BY <1>1, <1>4 DEF p, q

\* A whole quotient is below what times the divisor is above the number.
LEMMA QuotientBound ==
  ASSUME NEW x \in Nat, NEW n \in Nat, NEW c \in Nat \ {0}, x < c * n
  PROVE  x \div c \in Nat /\ x \div c < n
<1> DEFINE p == x \div c
<1>1. p \in Int OBVIOUS
<1>2. x = c * p + (x % c) OBVIOUS
<1>3. x % c \in 0..c - 1 OBVIOUS
<1> HIDE DEF p
<1>4. ASSUME n <= p PROVE FALSE
  <2>1. c * n <= c * p BY <1>1, <1>4, TimesMonotone
  <2> QED BY <1>1, <1>2, <1>3, <2>1
<1>5. ASSUME p <= -1 PROVE FALSE
  <2>1. c * p <= c * (-1) BY <1>1, <1>5, TimesMonotone
  <2> QED BY <1>1, <1>2, <1>3, <2>1
<1> QED BY <1>1, <1>4, <1>5 DEF p

\* The descent path goes strictly down and stays strictly between its ends.
LEMMA PathDescends ==
  ASSUME NEW newer \in Version, NEW older \in Version,
         newer[1] = older[1], Newer(newer, older)
  PROVE  /\ PathLength(newer, older) \in Nat
         /\ \A k \in 0..PathLength(newer, older) - 1 :
              /\ PathAt(newer, k) \in Version
              /\ Newer(newer, PathAt(newer, k)) /\ Newer(PathAt(newer, k), older)
              /\ PathAt(newer, k)[1] = older[1]
              /\ newer[2] # older[2] => PathAt(newer, k)[2] > older[2]
              /\ \A j \in 0..k - 1 : Newer(PathAt(newer, j), PathAt(newer, k))
<1> DEFINE n == PathLength(newer, older)
<1>0. /\ newer[1] \in Nat /\ newer[2] \in Nat /\ newer[3] \in Nat
      /\ older[1] \in Nat /\ older[2] \in Nat /\ older[3] \in Nat
  BY VersionParts
<1>1. newer[2] > older[2] \/ (newer[2] = older[2] /\ newer[3] > older[3])
  BY <1>0 DEF Newer
<1>2. n \in Nat BY <1>0, <1>1 DEF PathLength
<1>3. ASSUME NEW k \in 0..n - 1
      PROVE  /\ PathAt(newer, k) \in Version
             /\ Newer(newer, PathAt(newer, k)) /\ Newer(PathAt(newer, k), older)
             /\ PathAt(newer, k)[1] = older[1]
             /\ newer[2] # older[2] => PathAt(newer, k)[2] > older[2]
             /\ \A j \in 0..k - 1 : Newer(PathAt(newer, j), PathAt(newer, k))
  <2>1. k \in Nat /\ k < n BY <1>2
  <2>2. CASE k < newer[3]
    <3>1. PathAt(newer, k) = <<newer[1], newer[2], newer[3] - 1 - k>> BY <2>2 DEF PathAt
    <3>2. newer[3] - 1 - k \in Nat BY <1>0, <2>1, <2>2
    <3>3. PathAt(newer, k) \in Version BY <1>0, <3>1, <3>2, VersionParts
    <3>4. Newer(newer, PathAt(newer, k)) BY <1>0, <2>1, <3>1 DEF Newer
    <3>5. Newer(PathAt(newer, k), older)
      BY <1>0, <1>1, <2>1, <3>1 DEF Newer, PathLength
    <3>6. \A j \in 0..k - 1 : Newer(PathAt(newer, j), PathAt(newer, k))
      <4> TAKE j \in 0..k - 1
      <4>1. j \in Nat /\ j < k BY <2>1
      <4>2. PathAt(newer, j) = <<newer[1], newer[2], newer[3] - 1 - j>>
        BY <1>0, <2>1, <2>2, <4>1 DEF PathAt
      <4> QED BY <1>0, <2>1, <3>1, <4>1, <4>2 DEF Newer
    <3> QED BY <1>0, <1>1, <3>1, <3>3, <3>4, <3>5, <3>6
  <2>3. CASE k >= newer[3]
    <3>1. PathAt(newer, k) = <<newer[1], newer[2] - 1 - (k - newer[3]), 0>>
      BY <1>0, <2>1, <2>3 DEF PathAt
    <3>2. newer[2] > older[2] /\ n = newer[3] + newer[2] - 1 - older[2]
      BY <1>0, <1>1, <2>1, <2>3 DEF PathLength
    <3>3. newer[2] - 1 - (k - newer[3]) \in Nat /\ newer[2] - 1 - (k - newer[3]) > older[2]
      BY <1>0, <2>1, <2>3, <3>2
    <3>4. PathAt(newer, k) \in Version BY <1>0, <3>1, <3>3, VersionParts
    <3>5. Newer(newer, PathAt(newer, k)) BY <1>0, <2>1, <2>3, <3>1 DEF Newer
    <3>6. Newer(PathAt(newer, k), older) BY <1>0, <3>1, <3>3 DEF Newer
    <3>7. \A j \in 0..k - 1 : Newer(PathAt(newer, j), PathAt(newer, k))
      <4> TAKE j \in 0..k - 1
      <4>1. j \in Nat /\ j < k BY <2>1
      <4>2. CASE j < newer[3]
        <5>1. PathAt(newer, j) = <<newer[1], newer[2], newer[3] - 1 - j>> BY <4>2 DEF PathAt
        <5> QED BY <1>0, <2>1, <2>3, <3>1, <4>1, <5>1 DEF Newer
      <4>3. CASE j >= newer[3]
        <5>1. PathAt(newer, j) = <<newer[1], newer[2] - 1 - (j - newer[3]), 0>>
          BY <1>0, <4>1, <4>3 DEF PathAt
        <5> QED BY <1>0, <2>1, <2>3, <3>1, <4>1, <4>3, <5>1 DEF Newer
      <4> QED BY <1>0, <4>1, <4>2, <4>3
    <3> QED BY <1>0, <3>1, <3>3, <3>4, <3>5, <3>6, <3>7
  <2> QED BY <1>0, <2>1, <2>2, <2>3
<1> QED BY <1>2, <1>3

\* The samples monotonicVersionFill takes are distinct places of the path, in its order.
LEMMA SpreadOrder ==
  ASSUME NEW n \in Nat, NEW slots \in Nat \ {0}, slots <= n, NEW i \in 1..slots
  PROVE  /\ (n * (2 * i - 1)) \div (2 * slots) \in 0..n - 1
         /\ \A j \in 1..i - 1 :
              (n * (2 * j - 1)) \div (2 * slots) < (n * (2 * i - 1)) \div (2 * slots)
<1> DEFINE x(j) == n * (2 * j - 1)
<1>1. \A j \in 1..slots : x(j) \in Nat
  <2> TAKE j \in 1..slots
  <2>1. n * 0 <= n * (2 * j - 1) BY TimesMonotone
  <2> QED BY <2>1
<1>2. x(i) < (2 * slots) * n
  <2>1. n * (2 * i - 1) <= n * (2 * slots - 1) BY TimesMonotone
  <2>2. n * (2 * slots - 1) = (2 * slots) * n - n OBVIOUS
  <2>3. n > 0 OBVIOUS
  <2>4. (2 * slots) * n \in Nat OBVIOUS
  <2>5. x(i) <= (2 * slots) * n - n BY <2>1, <2>2
  <2> HIDE DEF x
  <2> QED BY <1>1, <2>3, <2>4, <2>5
<1>3. ASSUME NEW j \in 1..i - 1 PROVE x(j) + 2 * slots <= x(i)
  <2>1. n * (2 * j - 1 + 2) <= n * (2 * i - 1) BY TimesMonotone
  <2>2. n * (2 * j - 1 + 2) = n * (2 * j - 1) + 2 * n OBVIOUS
  <2>3. n * (2 * j - 1) \in Int OBVIOUS
  <2>4. n * (2 * i - 1) \in Int OBVIOUS
  <2> QED BY <2>1, <2>2, <2>3, <2>4
<1> HIDE DEF x
<1>4. x(i) \div (2 * slots) \in Nat /\ x(i) \div (2 * slots) < n
  BY <1>1, <1>2, QuotientBound
<1>5. ASSUME NEW j \in 1..i - 1 PROVE x(j) \div (2 * slots) < x(i) \div (2 * slots)
  BY <1>1, <1>3, QuotientStep
<1> QED BY <1>4, <1>5 DEF x

\* What Fill answers when it answers at all.
LEMMA FillCases ==
  ASSUME NEW newer \in Version \cup {Blank}, NEW older \in Version \cup {Blank},
         NEW slots \in Nat \ {0}, NEW i \in 1..slots, Fill(newer, older, slots, i) # Blank
  PROVE  /\ newer \in Version /\ older \in Version
         /\ \/ newer = older /\ Fill(newer, older, slots, i) = newer
            \/ newer[1] = older[1] /\ Newer(newer, older)
  BY DEF Fill

\* Between two versions of which the first is the newer: the path, then hotfixes.
LEMMA FillParts ==
  ASSUME NEW newer \in Version, NEW older \in Version, newer[1] = older[1], Newer(newer, older),
         NEW slots \in Nat \ {0}, NEW i \in 1..slots
  PROVE  LET n == PathLength(newer, older)
             f == Fill(newer, older, slots, i)
         IN /\ slots <= n => f = PathAt(newer, (n * (2 * i - 1)) \div (2 * slots))
            /\ slots > n /\ i <= n => f = PathAt(newer, i - 1)
            /\ slots > n /\ i > n /\ f # Blank =>
                 /\ newer[2] > older[2]
                 /\ f = <<older[1], older[2], older[3] + slots - i + 1>>
<1>1. newer # Blank /\ older # Blank BY VersionParts
<1>2. newer # older BY NewerOrder
<1> DEFINE n == PathLength(newer, older)
<1>3. n \in Nat BY PathDescends
<1> QED BY <1>1, <1>2, <1>3 DEF Fill

\* A guess between two versions fetched lies strictly between them, and below the guesses above.
LEMMA FillInOrder ==
  ASSUME NEW newer \in Version, NEW older \in Version, newer[1] = older[1], Newer(newer, older),
         NEW slots \in Nat \ {0}, NEW i \in 1..slots, Fill(newer, older, slots, i) # Blank
  PROVE  /\ Fill(newer, older, slots, i) \in Version
         /\ Newer(newer, Fill(newer, older, slots, i))
         /\ Newer(Fill(newer, older, slots, i), older)
         /\ \A j \in 1..i - 1 : Fill(newer, older, slots, j) # Blank =>
              Newer(Fill(newer, older, slots, j), Fill(newer, older, slots, i))
<1> DEFINE n == PathLength(newer, older)
           F(j) == Fill(newer, older, slots, j)
           K(j) == (n * (2 * j - 1)) \div (2 * slots)
           Goal == /\ F(i) \in Version /\ Newer(newer, F(i)) /\ Newer(F(i), older)
                   /\ \A j \in 1..i - 1 : F(j) # Blank => Newer(F(j), F(i))
<1>1. n \in Nat BY PathDescends
<1>2. \A j \in 1..i - 1 : j \in 1..slots OBVIOUS
<1>3. CASE slots <= n
  <2>1. \A j \in 1..slots : F(j) = PathAt(newer, K(j)) BY <1>3, FillParts
  <2>2. K(i) \in 0..n - 1 /\ \A j \in 1..i - 1 : K(j) < K(i) BY <1>1, <1>3, SpreadOrder
  <2>3. \A j \in 1..i - 1 : K(j) \in 0..n - 1 BY <1>1, <1>2, <1>3, SpreadOrder
  <2> HIDE DEF K, n
  <2>4. \A j \in 1..i - 1 : K(j) \in 0..K(i) - 1 BY <1>1, <2>2, <2>3
  <2>5. /\ PathAt(newer, K(i)) \in Version
        /\ Newer(newer, PathAt(newer, K(i))) /\ Newer(PathAt(newer, K(i)), older)
        /\ \A k \in 0..K(i) - 1 : Newer(PathAt(newer, k), PathAt(newer, K(i)))
    BY <2>2, PathDescends DEF n
  <2>6. \A j \in 1..i - 1 : Newer(PathAt(newer, K(j)), PathAt(newer, K(i))) BY <2>4, <2>5
  <2> HIDE DEF F
  <2> QED BY <1>2, <2>1, <2>5, <2>6 DEF F
<1>4. CASE slots > n /\ i <= n
  <2>1. \A j \in 1..slots : j <= n => F(j) = PathAt(newer, j - 1) BY <1>4, FillParts
  <2>2. i - 1 \in 0..n - 1 /\ \A j \in 1..i - 1 : j <= n /\ j - 1 \in 0..(i - 1) - 1
    BY <1>1, <1>4
  <2> HIDE DEF n
  <2>3. /\ PathAt(newer, i - 1) \in Version
        /\ Newer(newer, PathAt(newer, i - 1)) /\ Newer(PathAt(newer, i - 1), older)
        /\ \A k \in 0..(i - 1) - 1 : Newer(PathAt(newer, k), PathAt(newer, i - 1))
    BY <2>2, PathDescends DEF n
  <2>4. \A j \in 1..i - 1 : Newer(PathAt(newer, j - 1), PathAt(newer, i - 1)) BY <2>2, <2>3
  <2> HIDE DEF F
  <2> QED BY <1>2, <1>4, <2>1, <2>2, <2>3, <2>4 DEF F
<1>5. CASE slots > n /\ i > n
  <2>0. /\ newer[1] \in Nat /\ newer[2] \in Nat /\ newer[3] \in Nat
        /\ older[1] \in Nat /\ older[2] \in Nat /\ older[3] \in Nat
    BY VersionParts
  <2>1. newer[2] > older[2] /\ F(i) = <<older[1], older[2], older[3] + slots - i + 1>>
    BY <1>5, FillParts
  <2>2. F(i) \in Version /\ Newer(newer, F(i)) /\ Newer(F(i), older)
    <3>1. older[3] + slots - i + 1 \in Nat /\ older[3] + slots - i + 1 > older[3] BY <2>0
    <3>2. F(i) \in Version BY <2>0, <2>1, <3>1, VersionParts
    <3>3. Newer(newer, F(i)) BY <2>0, <2>1 DEF Newer
    <3>4. Newer(F(i), older) BY <2>0, <2>1, <3>1 DEF Newer
    <3> QED BY <3>2, <3>3, <3>4
  <2>3. ASSUME NEW j \in 1..i - 1, F(j) # Blank PROVE Newer(F(j), F(i))
    <3>1. CASE j <= n
      <4>1. F(j) = PathAt(newer, j - 1) BY <1>2, <1>5, <3>1, FillParts
      <4>2. j - 1 \in 0..n - 1 BY <1>1, <3>1
      <4> HIDE DEF n
      <4>3. PathAt(newer, j - 1) \in Version /\ PathAt(newer, j - 1)[1] = older[1]
            /\ PathAt(newer, j - 1)[2] > older[2]
        BY <2>0, <2>1, <4>2, PathDescends DEF n
      <4>4. F(i)[1] = older[1] /\ F(i)[2] = older[2] BY <2>1
      <4>5. PathAt(newer, j - 1)[2] \in Nat BY <4>3, VersionParts
      <4>6. Newer(PathAt(newer, j - 1), F(i)) BY <2>0, <4>3, <4>4, <4>5 DEF Newer
      <4> QED BY <4>1, <4>6
    <3>2. CASE j > n
      <4>1. F(j) = <<older[1], older[2], older[3] + slots - j + 1>>
        BY <1>2, <1>5, <2>3, <3>2, FillParts
      <4> QED BY <2>0, <2>1, <4>1 DEF Newer
    <3> QED BY <1>1, <3>1, <3>2
  <2> QED BY <2>2, <2>3
<1> QED BY <1>1, <1>3, <1>4, <1>5

\* FillDescends: for every two versions and every gap.
LEMMA FillsDescend == FillDescends
<1> DEFINE Seen == (UNION {{v[i] : i \in Row} : v \in Histories}) \ {Blank}
<1>1. Seen \subseteq Version BY HistoryAssumption
<1> SUFFICES ASSUME NEW newer \in Seen, NEW older \in Seen, NEW slots \in 1..2 * Count,
                    Newer(newer, older)
             PROVE  LET column == [i \in 0..slots + 1 |-> IF i = 0 THEN newer
                                    ELSE IF i > slots THEN older
                                    ELSE Fill(newer, older, slots, i)]
                        shown  == {i \in DOMAIN column : column[i] # Blank}
                    IN \A i, j \in shown : i < j => Newer(column[i], column[j])
  BY DEF FillDescends
<1> DEFINE column == [i \in 0..slots + 1 |-> IF i = 0 THEN newer
                        ELSE IF i > slots THEN older ELSE Fill(newer, older, slots, i)]
<1> SUFFICES ASSUME NEW i \in 0..slots + 1, NEW j \in 0..slots + 1,
                    column[i] # Blank, column[j] # Blank, i < j
             PROVE  Newer(column[i], column[j])
  OBVIOUS
<1>2. newer \in Version /\ older \in Version /\ slots \in Nat \ {0}
  BY <1>1, ScreenAssumption
<1> HIDE DEF Seen
<1>3. ASSUME NEW k \in 1..slots, column[k] # Blank
      PROVE  newer[1] = older[1] /\ column[k] = Fill(newer, older, slots, k)
             /\ Fill(newer, older, slots, k) # Blank
  <2>1. column[k] = Fill(newer, older, slots, k) BY <1>2
  <2>2. newer # older BY <1>2, NewerOrder
  <2> HIDE DEF column
  <2> QED BY <1>2, <1>3, <2>1, <2>2, FillCases
<1>4. CASE i = 0 /\ j = slots + 1
  BY <1>2, <1>4
<1>5. CASE i = 0 /\ j \in 1..slots
  <2>1. newer[1] = older[1] /\ column[j] = Fill(newer, older, slots, j)
        /\ Fill(newer, older, slots, j) # Blank
    BY <1>3, <1>5
  <2>2. column[i] = newer BY <1>5
  <2> HIDE DEF column
  <2>3. Newer(newer, column[j]) BY <1>2, <1>5, <2>1, FillInOrder
  <2> QED BY <2>2, <2>3
<1>6. CASE i \in 1..slots /\ j = slots + 1
  <2>1. newer[1] = older[1] /\ column[i] = Fill(newer, older, slots, i)
        /\ Fill(newer, older, slots, i) # Blank
    BY <1>3, <1>6
  <2>2. column[j] = older BY <1>2, <1>6
  <2> HIDE DEF column
  <2>3. Newer(column[i], older) BY <1>2, <1>6, <2>1, FillInOrder
  <2> QED BY <2>2, <2>3
<1>7. CASE i \in 1..slots /\ j \in 1..slots
  <2>1. i \in 1..j - 1 BY <1>2, <1>7
  <2>2. column[i] = Fill(newer, older, slots, i) /\ column[j] = Fill(newer, older, slots, j)
        /\ Fill(newer, older, slots, i) # Blank /\ Fill(newer, older, slots, j) # Blank
        /\ newer[1] = older[1]
    BY <1>3, <1>7
  <2> HIDE DEF column
  <2> QED BY <1>2, <1>7, <2>1, <2>2, FillInOrder
<1> QED BY <1>2, <1>4, <1>5, <1>6, <1>7

\* Of some natural numbers one is the least.
LEMMA LeastNatural ==
  ASSUME NEW T, T \subseteq Nat, T # {}
  PROVE  \E m \in T : \A k \in T : m <= k
<1> DEFINE R == OpToRel(<, Nat)
<1>1. IsWellFoundedOn(R, Nat) BY NatLessThanWellFounded
<1>2. \A x, y \in Nat : <<x, y>> \in R <=> x < y BY DEF OpToRel
<1> HIDE DEF R
<1>3. PICK m \in T : \A k \in T : ~(<<k, m>> \in R) BY <1>1, WFMin
<1>4. \A k \in T : ~(k < m) BY <1>2, <1>3
<1> QED BY <1>4

\* Of some rows one is the first and one the last.
LEMMA EndRows ==
  ASSUME NEW S, S \subseteq Row, S # {}
  PROVE  (\E m \in S : \A k \in S : k >= m) /\ (\E m \in S : \A k \in S : k <= m)
<1>0. S \subseteq Nat /\ Count \in Nat /\ \A k \in S : k <= Count
  BY ScreenAssumption DEF Row
<1>1. \E m \in S : \A k \in S : k >= m
  <2>1. PICK m \in S : \A k \in S : m <= k BY <1>0, LeastNatural
  <2> QED BY <1>0, <2>1
<1>2. \E m \in S : \A k \in S : k <= m
  <2> DEFINE T == {Count - k : k \in S}
  <2>1. \A k \in S : Count - k \in Nat BY <1>0
  <2>2. T \subseteq Nat /\ T # {} BY <2>1
  <2>3. \A k \in S : Count - k \in T OBVIOUS
  <2>4. \A t \in T : \E m \in S : t = Count - m OBVIOUS
  <2> HIDE DEF T
  <2>5. PICK t \in T : \A u \in T : t <= u BY <2>2, LeastNatural
  <2>6. PICK m \in S : t = Count - m BY <2>4
  <2>7. \A k \in S : t <= Count - k BY <2>3, <2>5
  <2> QED BY <1>0, <2>6, <2>7
<1> QED BY <1>1, <1>2

\* The fetched rows around a row: the last above it, the first below it.
Above(i, a) == a \in Fetched /\ a < i /\ (\A k \in Fetched : k < i => k <= a)
Below(i, b) == b \in Fetched /\ b > i /\ (\A k \in Fetched : k > i => k >= b)

\* What writeRow shows when it shows something: a version fetched, or a guess between the
\* fetched rows around the row, above the first or below the last.
LEMMA ShownCases ==
  ASSUME TypeOK, NEW v \in Histories, NEW i \in Row, Shown(v, i) # Blank
  PROVE  \/ i \in Fetched /\ Shown(v, i) = v[i]
         \/ \E a, b \in Row : Above(i, a) /\ Below(i, b)
              /\ Shown(v, i) = Fill(v[a], v[b], b - a - 1, i - a)
         \/ \E b \in Row : Below(i, b) /\ (\A k \in Fetched : k > i) /\ v[b] # Blank
              /\ Shown(v, i) = <<v[b][1], v[b][2] + b - i, 0>>
         \/ \E a \in Row : Above(i, a) /\ (\A k \in Fetched : k < i) /\ v[a] # Blank
              /\ v[a][2] >= i - a /\ Shown(v, i) = <<v[a][1], v[a][2] - (i - a), 0>>
<1>0. Row \subseteq Nat BY DEF Row
<1>1. Fetched \subseteq Row BY DEF Fetched
<1>2. CASE i \in Fetched
  BY <1>2 DEF Shown, Fetched
<1>3. CASE i \notin Fetched
  <2> DEFINE above == {j \in Fetched : j < i}
             below == {j \in Fetched : j > i}
             a == CHOOSE j \in above : \A k \in above : k <= j
             b == CHOOSE j \in below : \A k \in below : k >= j
  <2>1. Shown(v, i) = Guess(v, Fetched, i)
    BY <1>3 DEF Shown, Fetched
  <2>2. \A k \in Fetched : k < i \/ k > i BY <1>0, <1>1, <1>3
  <2>3. ASSUME above # {} PROVE a \in Row /\ Above(i, a)
    <3>1. above \subseteq Row BY <1>1
    <3>2. \E j \in above : \A k \in above : k <= j BY <2>3, <3>1, EndRows
    <3>3. a \in above /\ \A k \in above : k <= a BY <3>2
    <3> HIDE DEF a
    <3> QED BY <1>1, <3>3 DEF Above
  <2>4. ASSUME below # {} PROVE b \in Row /\ Below(i, b)
    <3>1. below \subseteq Row BY <1>1
    <3>2. \E j \in below : \A k \in below : k >= j BY <2>4, <3>1, EndRows
    <3>3. b \in below /\ \A k \in below : k >= b BY <3>2
    <3> HIDE DEF b
    <3> QED BY <1>1, <3>3 DEF Below
  <2>5. Guess(v, Fetched, i) =
          IF above # {} /\ below # {} THEN Fill(v[a], v[b], b - a - 1, i - a)
          ELSE IF below # {}
            THEN IF v[b] = Blank THEN Blank ELSE <<v[b][1], v[b][2] + b - i, 0>>
          ELSE IF above # {}
            THEN IF v[a] = Blank \/ v[a][2] < i - a THEN Blank
                 ELSE <<v[a][1], v[a][2] - (i - a), 0>>
          ELSE Blank
    BY DEF Guess
  <2>6. /\ above = {} => \A k \in Fetched : k > i
        /\ below = {} => \A k \in Fetched : k < i
    BY <2>2
  <2> HIDE DEF a, b, above, below
  <2>7. CASE above # {} /\ below # {}
    BY <2>1, <2>3, <2>4, <2>5, <2>7
  <2>8. CASE above = {} /\ below # {}
    BY <2>1, <2>4, <2>5, <2>6, <2>8
  <2>9. CASE above # {} /\ below = {}
    <3>1. v[a] # Blank /\ ~(v[a][2] < i - a)
          /\ Shown(v, i) = <<v[a][1], v[a][2] - (i - a), 0>>
      BY <2>1, <2>5, <2>9
    <3>2. a \in Row /\ Above(i, a) BY <2>3, <2>9
    <3>3. v[a] \in Version BY <3>1, <3>2, HistoryAssumption
    <3>4. v[a][2] \in Nat BY <3>3, VersionParts
    <3>5. v[a][2] >= i - a BY <1>0, <3>1, <3>2, <3>4
    <3> QED BY <2>6, <2>9, <3>1, <3>2, <3>5
  <2> QED BY <2>1, <2>5, <2>7, <2>8, <2>9
<1> QED BY <1>2, <1>3

\* One version above another in the column: strictly newer, or merely not older.
Falls(strict, x, y) == IF strict THEN Newer(x, y) ELSE ~Newer(y, x)

\* Descending, strictly or not, is transitive and follows from Newer.
LEMMA FallsFacts ==
  ASSUME NEW s \in BOOLEAN, NEW x \in Version, NEW y \in Version, NEW z \in Version
  PROVE  /\ Newer(x, y) => Falls(s, x, y)
         /\ Falls(s, x, y) /\ Falls(s, y, z) => Falls(s, x, z)
         /\ ~s => Falls(s, x, x)
         /\ Falls(s, x, y) /\ x = y => ~s
  BY NewerOrder DEF Falls

\* The rows that show a version of their own.
Known(v) == {i \in Fetched : v[i] # Blank}

\* The rows whose version is known show it.
LEMMA KnownFacts ==
  ASSUME TypeOK, NEW v \in Histories
  PROVE  /\ Known(v) \subseteq Row /\ Row \subseteq Nat
         /\ \A i \in Row : v[i] # Blank => v[i] \in Version
         /\ \A k \in Known(v) : v[k] \in Version /\ Shown(v, k) = v[k]
<1>1. Known(v) \subseteq Row /\ Row \subseteq Nat BY DEF Known, Fetched, Row
<1>2. v \in [Row -> Version \cup {Blank}] BY HistoryAssumption
<1>3. \A i \in Row : v[i] # Blank => v[i] \in Version BY <1>2
<1>4. \A k \in Known(v) : k \in Row /\ v[k] # Blank /\ Shown(v, k) = v[k]
  BY DEF Known, Fetched, Shown
<1> QED BY <1>1, <1>3, <1>4

\* A guess lies between the fetched rows around it.
LEMMA GuessBetween ==
  ASSUME TypeOK, NEW v \in Histories, NEW s \in BOOLEAN,
         \A i, j \in Known(v) : i < j => Falls(s, v[i], v[j]),
         NEW i \in Row, i \notin Fetched, Shown(v, i) # Blank
  PROVE  /\ Shown(v, i) \in Version
         /\ \A a \in Row : Above(i, a) => a \in Known(v) /\ Falls(s, v[a], Shown(v, i))
         /\ \A b \in Row : Below(i, b) => b \in Known(v) /\ Falls(s, Shown(v, i), v[b])
<1> DEFINE g == Shown(v, i)
<1>0. /\ Row \subseteq Nat /\ Fetched \subseteq Row
      /\ \A k \in Row : v[k] # Blank => v[k] \in Version
      /\ \A k \in Fetched : k \in Known(v) <=> v[k] # Blank
  BY KnownFacts DEF Known, Fetched
<1>1. \A a, c \in Row : (Above(i, a) /\ Above(i, c)) \/ (Below(i, a) /\ Below(i, c)) => a = c
  BY <1>0 DEF Above, Below
<1>2. ASSUME NEW a \in Row, NEW b \in Row, Above(i, a), Below(i, b),
             g = Fill(v[a], v[b], b - a - 1, i - a)
      PROVE  /\ g \in Version /\ a \in Known(v) /\ b \in Known(v)
             /\ Falls(s, v[a], g) /\ Falls(s, g, v[b])
  <2>1. b - a - 1 \in Nat \ {0} /\ i - a \in 1..b - a - 1
    BY <1>0, <1>2 DEF Above, Below
  <2>2. v[a] \in Version \cup {Blank} /\ v[b] \in Version \cup {Blank} BY <1>0
  <2>3. /\ v[a] \in Version /\ v[b] \in Version
        /\ \/ v[a] = v[b] /\ g = v[a]
           \/ v[a][1] = v[b][1] /\ Newer(v[a], v[b])
    BY <1>2, <2>1, <2>2, FillCases
  <2>4. a \in Known(v) /\ b \in Known(v)
    BY <1>0, <1>2, <2>3, VersionParts DEF Above, Below
  <2>5. CASE v[a] = v[b] /\ g = v[a]
    <3>1. a < b BY <1>0, <1>2 DEF Above, Below
    <3>2. Falls(s, v[a], v[b]) BY <2>4, <3>1
    <3>3. ~s BY <2>3, <2>5, <3>2, FallsFacts
    <3>4. Falls(s, v[a], v[a]) BY <2>3, <3>3, FallsFacts
    <3> QED BY <2>3, <2>4, <2>5, <3>4
  <2>6. CASE v[a][1] = v[b][1] /\ Newer(v[a], v[b])
    <3>1. g \in Version /\ Newer(v[a], g) /\ Newer(g, v[b])
      BY <1>2, <2>1, <2>3, <2>6, FillInOrder
    <3> HIDE DEF g
    <3> QED BY <2>3, <2>4, <3>1, FallsFacts
  <2> QED BY <2>3, <2>5, <2>6
<1>3. ASSUME NEW b \in Row, Below(i, b), \A k \in Fetched : k > i, v[b] # Blank,
             g = <<v[b][1], v[b][2] + b - i, 0>>
      PROVE  /\ g \in Version /\ b \in Known(v) /\ Falls(s, g, v[b])
             /\ \A a \in Row : ~Above(i, a)
  <2>1. v[b] \in Version /\ b \in Known(v) BY <1>0, <1>3 DEF Below
  <2>2. v[b][1] \in Nat /\ v[b][2] \in Nat /\ v[b][3] \in Nat BY <2>1, VersionParts
  <2>3. v[b][2] + b - i \in Nat /\ v[b][2] + b - i > v[b][2]
    BY <1>0, <1>3, <2>2 DEF Below
  <2>4. g \in Version BY <1>3, <2>2, <2>3, VersionParts
  <2>5. Newer(g, v[b]) BY <1>3, <2>2, <2>3 DEF Newer
  <2>6. \A a \in Row : ~Above(i, a) BY <1>0, <1>3 DEF Above
  <2> HIDE DEF g
  <2> QED BY <2>1, <2>4, <2>5, <2>6, FallsFacts
<1>4. ASSUME NEW a \in Row, Above(i, a), \A k \in Fetched : k < i, v[a] # Blank,
             v[a][2] >= i - a, g = <<v[a][1], v[a][2] - (i - a), 0>>
      PROVE  /\ g \in Version /\ a \in Known(v) /\ Falls(s, v[a], g)
             /\ \A b \in Row : ~Below(i, b)
  <2>1. v[a] \in Version /\ a \in Known(v) BY <1>0, <1>4 DEF Above
  <2>2. v[a][1] \in Nat /\ v[a][2] \in Nat /\ v[a][3] \in Nat BY <2>1, VersionParts
  <2>3. v[a][2] - (i - a) \in Nat /\ v[a][2] - (i - a) < v[a][2]
    BY <1>0, <1>4, <2>2 DEF Above
  <2>4. g \in Version BY <1>4, <2>2, <2>3, VersionParts
  <2>5. Newer(v[a], g) BY <1>4, <2>2, <2>3 DEF Newer
  <2>6. \A b \in Row : ~Below(i, b) BY <1>0, <1>4 DEF Below
  <2> HIDE DEF g
  <2> QED BY <2>1, <2>4, <2>5, <2>6, FallsFacts
<1> HIDE DEF g
<1>5. \/ \E a, b \in Row : Above(i, a) /\ Below(i, b)
           /\ g = Fill(v[a], v[b], b - a - 1, i - a)
      \/ \E b \in Row : Below(i, b) /\ (\A k \in Fetched : k > i) /\ v[b] # Blank
           /\ g = <<v[b][1], v[b][2] + b - i, 0>>
      \/ \E a \in Row : Above(i, a) /\ (\A k \in Fetched : k < i) /\ v[a] # Blank
           /\ v[a][2] >= i - a /\ g = <<v[a][1], v[a][2] - (i - a), 0>>
  BY ShownCases DEF g
<1>6. CASE \E a, b \in Row : Above(i, a) /\ Below(i, b)
             /\ g = Fill(v[a], v[b], b - a - 1, i - a)
  <2>1. PICK a, b \in Row : Above(i, a) /\ Below(i, b)
                            /\ g = Fill(v[a], v[b], b - a - 1, i - a)
    BY <1>6
  <2>2. /\ g \in Version /\ a \in Known(v) /\ b \in Known(v)
        /\ Falls(s, v[a], g) /\ Falls(s, g, v[b])
    BY <1>2, <2>1
  <2> QED BY <1>1, <2>1, <2>2 DEF g
<1>7. CASE \E b \in Row : Below(i, b) /\ (\A k \in Fetched : k > i) /\ v[b] # Blank
             /\ g = <<v[b][1], v[b][2] + b - i, 0>>
  BY <1>1, <1>3, <1>7 DEF g
<1>8. CASE \E a \in Row : Above(i, a) /\ (\A k \in Fetched : k < i) /\ v[a] # Blank
             /\ v[a][2] >= i - a /\ g = <<v[a][1], v[a][2] - (i - a), 0>>
  BY <1>1, <1>4, <1>8 DEF g
<1> QED BY <1>5, <1>6, <1>7, <1>8

\* Two guesses with no fetched row between them.
LEMMA NeighboursFall ==
  ASSUME TypeOK, NEW v \in Histories, NEW s \in BOOLEAN,
         \A i, j \in Known(v) : i < j => Falls(s, v[i], v[j]),
         NEW i \in Row, NEW j \in Row, i < j,
         \A k \in Fetched : k < i \/ k > j,
         Shown(v, i) # Blank, Shown(v, j) # Blank
  PROVE  Falls(s, Shown(v, i), Shown(v, j))
<1>0. /\ Row \subseteq Nat /\ Fetched \subseteq Row
      /\ \A k \in Row : v[k] # Blank => v[k] \in Version
      /\ \A k \in Fetched : k \in Known(v) <=> v[k] # Blank
  BY KnownFacts DEF Known, Fetched
<1>1. i \notin Fetched /\ j \notin Fetched BY <1>0
<1>2. \A a \in Row : Above(i, a) <=> Above(j, a) BY <1>0 DEF Above
<1>3. \A b \in Row : Below(i, b) <=> Below(j, b) BY <1>0 DEF Below
<1>4. Shown(v, i) \in Version /\ Shown(v, j) \in Version BY <1>1, GuessBetween
<1>5. ASSUME NEW a \in Row, NEW b \in Row, Above(i, a), Below(i, b)
      PROVE  Falls(s, Shown(v, i), Shown(v, j))
  <2>1. /\ \A c \in Row : Above(i, c) \/ Above(j, c) => c = a
        /\ \A c \in Row : Below(i, c) \/ Below(j, c) => c = b
    BY <1>0, <1>2, <1>3, <1>5 DEF Above, Below
  <2>2. a < i /\ j < b /\ a < b /\ a \in Fetched /\ b \in Fetched
    BY <1>0, <1>2, <1>3, <1>5 DEF Above, Below
  <2> DEFINE f(r) == Fill(v[a], v[b], b - a - 1, r - a)
  <2>3. Shown(v, i) = f(i)
    <3>1. ~(\A k \in Fetched : k > i) /\ ~(\A k \in Fetched : k < i)
      BY <1>0, <1>5 DEF Above, Below
    <3>2. PICK c, d \in Row : Above(i, c) /\ Below(i, d)
                             /\ Shown(v, i) = Fill(v[c], v[d], d - c - 1, i - c)
      BY <1>1, <3>1, ShownCases
    <3> QED BY <2>1, <3>2
  <2>4. Shown(v, j) = f(j)
    <3>1. ~(\A k \in Fetched : k > j) /\ ~(\A k \in Fetched : k < j) BY <1>0, <2>2
    <3>2. PICK c, d \in Row : Above(j, c) /\ Below(j, d)
                             /\ Shown(v, j) = Fill(v[c], v[d], d - c - 1, j - c)
      BY <1>1, <3>1, ShownCases
    <3> QED BY <2>1, <3>2
  <2>5. b - a - 1 \in Nat \ {0} /\ i - a \in 1..b - a - 1 /\ j - a \in 1..b - a - 1
        /\ i - a \in 1..(j - a) - 1
    BY <1>0, <2>2
  <2>6. v[a] \in Version \cup {Blank} /\ v[b] \in Version \cup {Blank} BY <1>0
  <2>7. /\ v[a] \in Version /\ v[b] \in Version
        /\ \/ v[a] = v[b] /\ f(i) = v[a]
           \/ v[a][1] = v[b][1] /\ Newer(v[a], v[b])
    BY <2>3, <2>5, <2>6, FillCases
  <2>8. v[a] = v[b] => f(i) = v[a] /\ f(j) = v[a]
    BY <2>7, VersionParts DEF Fill
  <2>9. CASE v[a] = v[b]
    <3>1. a \in Known(v) /\ b \in Known(v) BY <1>0, <2>2, <2>7, VersionParts
    <3>2. Falls(s, v[a], v[b]) BY <2>2, <3>1
    <3>3. ~s BY <2>7, <2>9, <3>2, FallsFacts
    <3>4. Falls(s, v[a], v[a]) BY <2>7, <3>3, FallsFacts
    <3> QED BY <2>3, <2>4, <2>8, <2>9, <3>4
  <2>10. CASE v[a] # v[b]
    <3>1. v[a][1] = v[b][1] /\ Newer(v[a], v[b]) BY <2>7, <2>10
    <3>2. f(i) # Blank /\ f(j) # Blank BY <2>3, <2>4
    <3>3. Newer(f(i), f(j)) BY <2>5, <2>7, <3>1, <3>2, FillInOrder
    <3> HIDE DEF f
    <3> QED BY <1>4, <2>3, <2>4, <3>3, FallsFacts
  <2> QED BY <2>9, <2>10
<1>6. ASSUME NEW b \in Row, Below(i, b), \A k \in Fetched : k > i
      PROVE  Falls(s, Shown(v, i), Shown(v, j))
  <2>1. \A c \in Row : Below(i, c) \/ Below(j, c) => c = b
    BY <1>0, <1>3, <1>6 DEF Below
  <2>2. \A c \in Row : ~Above(i, c) /\ ~Above(j, c)
    BY <1>0, <1>2, <1>6 DEF Above
  <2>3. ~\A k \in Fetched : k < j BY <1>0, <1>3, <1>6 DEF Below
  <2>4. v[b] # Blank /\ Shown(v, i) = <<v[b][1], v[b][2] + b - i, 0>>
        /\ Shown(v, j) = <<v[b][1], v[b][2] + b - j, 0>>
    <3>1. v[b] # Blank /\ Shown(v, i) = <<v[b][1], v[b][2] + b - i, 0>>
      BY <1>1, <2>1, <2>2, ShownCases
    <3>2. Shown(v, j) = <<v[b][1], v[b][2] + b - j, 0>>
      BY <1>1, <2>1, <2>2, ShownCases
    <3> QED BY <3>1, <3>2
  <2>5. v[b][1] \in Nat /\ v[b][2] \in Nat BY <1>0, <2>4, VersionParts
  <2>6. Newer(Shown(v, i), Shown(v, j)) BY <1>0, <2>4, <2>5 DEF Newer
  <2> QED BY <1>4, <2>6, FallsFacts
<1>7. ASSUME NEW a \in Row, Above(i, a), \A k \in Fetched : k < i
      PROVE  Falls(s, Shown(v, i), Shown(v, j))
  <2>1. \A c \in Row : Above(i, c) \/ Above(j, c) => c = a
    BY <1>0, <1>2, <1>7 DEF Above
  <2>2. \A c \in Row : ~Below(i, c) /\ ~Below(j, c)
    BY <1>0, <1>3, <1>7 DEF Below
  <2>3. v[a] # Blank /\ Shown(v, i) = <<v[a][1], v[a][2] - (i - a), 0>>
    BY <1>1, <2>1, <2>2, ShownCases
  <2>4. Shown(v, j) = <<v[a][1], v[a][2] - (j - a), 0>>
    BY <1>1, <2>1, <2>2, ShownCases
  <2>5. v[a][1] \in Nat /\ v[a][2] \in Nat BY <1>0, <2>3, VersionParts
  <2>6. Newer(Shown(v, i), Shown(v, j)) BY <1>0, <2>3, <2>4, <2>5 DEF Newer
  <2> QED BY <1>4, <2>6, FallsFacts
<1> QED BY <1>1, <1>5, <1>6, <1>7, ShownCases

\* The column falls from every row that shows a version to every such row below it.
LEMMA ColumnFalls ==
  ASSUME TypeOK, NEW v \in Histories, NEW s \in BOOLEAN,
         \A i, j \in Known(v) : i < j => Falls(s, v[i], v[j]),
         NEW i \in Row, NEW j \in Row, i < j, Shown(v, i) # Blank, Shown(v, j) # Blank
  PROVE  Falls(s, Shown(v, i), Shown(v, j))
<1>0. /\ Row \subseteq Nat /\ Fetched \subseteq Row /\ Known(v) \subseteq Fetched
      /\ \A k \in Known(v) : v[k] \in Version /\ Shown(v, k) = v[k]
      /\ \A k \in Fetched : k \in Known(v) <=> v[k] # Blank
  BY KnownFacts DEF Known, Fetched
<1>1. \A k \in {i, j} : k \in Fetched => k \in Known(v)
  BY <1>0 DEF Shown, Known, Fetched
<1>2. \A k \in {i, j} : Shown(v, k) \in Version
  BY <1>0, <1>1, GuessBetween
\* From row i down to a fetched row, or down to row i itself.
<1>3. ASSUME NEW k \in Fetched, i <= k, k <= j
      PROVE  \E n \in Known(v) : /\ i <= n /\ n <= j
                                 /\ n = i \/ Falls(s, Shown(v, i), Shown(v, n))
  <2>1. CASE i \in Fetched
    BY <1>0, <1>1, <2>1
  <2>2. CASE i \notin Fetched
    <3> DEFINE S == {n \in Fetched : n > i}
    <3>0. k \in Nat /\ i \in Nat /\ k # i BY <1>0, <2>2
    <3>. k > i BY <1>3, <3>0
    <3>1. k \in S /\ S \subseteq Row BY <1>0
    <3> HIDE DEF S
    <3>2. PICK b \in S : \A n \in S : n >= b BY <3>1, EndRows
    <3>3. b \in Row /\ Below(i, b) /\ b <= k BY <3>1, <3>2 DEF S, Below
    <3>4. b \in Known(v) /\ Falls(s, Shown(v, i), v[b]) BY <2>2, <3>3, GuessBetween
    <3> QED BY <1>0, <1>3, <3>3, <3>4 DEF Below
  <2> QED BY <2>1, <2>2
\* From a fetched row down to row j.
<1>4. ASSUME NEW k \in Known(v), i <= k, k <= j
      PROVE  k = j \/ Falls(s, Shown(v, k), Shown(v, j))
  <2>1. CASE j \in Fetched
    <3>1. k < j => Falls(s, v[k], v[j]) BY <1>1, <2>1
    <3>2. k \in Nat /\ j \in Nat BY <1>0
    <3>3. k = j \/ Falls(s, v[k], v[j]) BY <1>4, <3>1, <3>2
    <3>4. Shown(v, k) = v[k] /\ Shown(v, j) = v[j] BY <1>0, <1>1, <2>1
    <3> QED BY <3>3, <3>4
  <2>2. CASE j \notin Fetched
    <3> DEFINE S == {n \in Fetched : n < j}
    <3>0. k \in Fetched /\ k \in Nat /\ j \in Nat /\ k # j BY <1>0, <2>2
    <3>. k < j BY <1>4, <3>0
    <3>1. k \in S /\ S \subseteq Row BY <1>0, <3>0
    <3> HIDE DEF S
    <3>2. PICK a \in S : \A n \in S : n <= a BY <3>1, EndRows
    <3>3. a \in Row /\ Above(j, a) /\ k <= a BY <3>1, <3>2 DEF S, Above
    <3>4. a \in Known(v) /\ Falls(s, v[a], Shown(v, j)) BY <2>2, <3>3, GuessBetween
    <3>5. k = a \/ Falls(s, v[k], v[a]) BY <1>0, <3>3, <3>4
    <3>6. v[k] \in Version /\ v[a] \in Version /\ Shown(v, k) = v[k] BY <1>0, <3>4
    <3> QED BY <1>2, <3>4, <3>5, <3>6, FallsFacts
  <2> QED BY <2>1, <2>2
<1>5. CASE \E k \in Fetched : i <= k /\ k <= j
  <2>1. PICK n \in Known(v) : /\ i <= n /\ n <= j
                              /\ n = i \/ Falls(s, Shown(v, i), Shown(v, n))
    BY <1>3, <1>5
  <2>2. n = j \/ Falls(s, Shown(v, n), Shown(v, j)) BY <1>4, <2>1
  <2>3. Shown(v, n) \in Version BY <1>0
  <2>4. ~(n = i /\ n = j) BY <1>0
  <2> QED BY <1>2, <2>1, <2>2, <2>3, <2>4, FallsFacts
<1>6. CASE \A k \in Fetched : k < i \/ k > j
  BY <1>6, NeighboursFall
<1>7. \A k \in Fetched : (i <= k /\ k <= j) \/ k < i \/ k > j BY <1>0
<1> QED BY <1>5, <1>6, <1>7

\* The guesses fit between the versions fetched, whichever rows those are.
LEMMA ColumnInOrder == TypeOK => ColumnDescends
<1> SUFFICES ASSUME TypeOK PROVE ColumnDescends OBVIOUS
<1> SUFFICES ASSUME NEW v \in Histories
             PROVE  LET shown == {i \in Row : Shown(v, i) # Blank}
                        known == Fetched \cap shown
                    IN /\ (\A i, j \in known : i < j => ~Newer(v[j], v[i]))
                            => \A i, j \in shown : i < j => ~Newer(Shown(v, j), Shown(v, i))
                       /\ (\A i, j \in known : i < j => Newer(v[i], v[j]))
                            => \A i, j \in shown : i < j => Newer(Shown(v, i), Shown(v, j))
  BY FillsDescend DEF ColumnDescends
<1> DEFINE shown == {i \in Row : Shown(v, i) # Blank}
           known == Fetched \cap shown
<1>1. known = Known(v) BY DEF Known, Fetched, Shown
<1> HIDE DEF known
<1>2. ASSUME \A i, j \in known : i < j => ~Newer(v[j], v[i]),
             NEW i \in shown, NEW j \in shown, i < j
      PROVE  ~Newer(Shown(v, j), Shown(v, i))
  <2>1. \A n, m \in Known(v) : n < m => Falls(FALSE, v[n], v[m]) BY <1>1, <1>2 DEF Falls
  <2>2. Falls(FALSE, Shown(v, i), Shown(v, j)) BY <1>2, <2>1, ColumnFalls
  <2> QED BY <2>2 DEF Falls
<1>3. ASSUME \A i, j \in known : i < j => Newer(v[i], v[j]), NEW i \in shown, NEW j \in shown, i < j
      PROVE  Newer(Shown(v, i), Shown(v, j))
  <2>1. \A n, m \in Known(v) : n < m => Falls(TRUE, v[n], v[m]) BY <1>1, <1>3 DEF Falls
  <2>2. Falls(TRUE, Shown(v, i), Shown(v, j)) BY <1>3, <2>1, ColumnFalls
  <2> QED BY <2>2 DEF Falls
<1> QED BY <1>2, <1>3 DEF known

\* Read downwards the version column never goes up, and goes strictly down when the versions
\* fetched do: for every table, every set of fetched rows and every versions they may have,
\* rebuildPredictions and monotonicVersionFill put their guesses between the fetched ones.
THEOREM ColumnAlwaysDescends == Spec => []ColumnDescends
<1> USE TypeCorrect, ColumnInOrder
<1> QED BY PTL

===============================================================================
