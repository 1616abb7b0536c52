---------------------------- MODULE VersionsScreen ----------------------------
(***************************************************************************)
(* The table of an app's App Store versions: runVersionsUI and its workers  *)
(* (cmd/ipadecrypt/versions_tui.go) with the cache of answers on disk       *)
(* (cmd/ipadecrypt/versions.go).                                            *)
(*                                                                          *)
(* One goroutine runs the screen: it handles keys, applies results and      *)
(* writes the cache.  Workers take version ids from the channel queue, ask  *)
(* Apple, and answer on the channel results.  Both channels are bounded,    *)
(* and the screen both sends on the first and receives from the second.     *)
(*                                                                          *)
(* A run ends when the screen returns or the process is killed; the next    *)
(* one starts from the cache file.  The list of versions is the same in all *)
(* runs.                                                                    *)
(***************************************************************************)
EXTENDS Integers, Sequences, FiniteSets

CONSTANTS
  Count,      \* versions of the app; row 1 is the newest
  Worker,     \* the fetch workers
  QueueCap,   \* capacity of the channel queue
  ResultCap,  \* capacity of the channel results
  Eager,      \* rows fetched without being asked for
  Page,       \* rows a page key moves
  Limits,     \* selection limits in use: 0 none, 1 one version, -1 any number
  Histories   \* display versions the rows may turn out to have

ASSUME ScreenAssumption ==
  /\ Count \in Nat \ {0} /\ QueueCap \in Nat \ {0} /\ ResultCap \in Nat \ {0}
  /\ Worker # {}
  /\ Eager \in Nat /\ Page \in Nat \ {0}
  /\ Limits \subseteq {-1, 0, 1}

Row == 1..Count

VARIABLES
  limit,     \* selectionLimit of this run
  ui,        \* what the screen goroutine does
  eager,     \* next row of the eager fetch
  offered,   \* the row whose id the screen is sending on queue, or 0
  row,       \* state of each row
  queued,    \* ids asked for and not answered yet
  queue, results,
  at, job,   \* each worker: what it does, and for which row
  cursor, selected, finished, aborted,
  cache,     \* cache.Versions: rows with an answer, in memory ...
  disk,      \* ... and in the file
  unread     \* history: this run could not read the file, and has not written it yet

picks == <<cursor, selected, finished, aborted>>
work  == <<at, job>>
store == <<cache, disk, unread>>
vars  == <<limit, ui, eager, offered, row, queued, queue, results, work, picks, store>>

EagerRows == IF Eager < Count THEN Eager ELSE Count
\* Where the screen goes when it is done with a key or a row of the eager fetch.
Home == IF eager <= EagerRows THEN "eager" ELSE "select"

Loaded(d) == [i \in Row |-> IF i \in d THEN "fetched" ELSE "unfetched"]

Init ==
  /\ limit \in Limits
  /\ ui = "eager" /\ eager = 1 /\ offered = 0
  /\ row = Loaded({}) /\ queued = {} /\ queue = <<>> /\ results = <<>>
  /\ at = [w \in Worker |-> "idle"] /\ job = [w \in Worker |-> 0]
  /\ cursor = 1 /\ selected = {} /\ finished = FALSE /\ aborted = FALSE
  /\ cache = {} /\ disk = {} /\ unread = FALSE

---------------------------------------------------------------------------
(* The screen *)

\* enqueue; the send on the channel is a step of its own, for it may have to wait.
Enqueue(i) ==
  /\ i \notin queued
  /\ queued' = queued \cup {i}
  /\ row' = [row EXCEPT ![i] = "pending"]
  /\ offered' = i
  /\ ui' = "send"

\* The newest rows are fetched at once, unless the cache has them.
EagerFetch ==
  /\ ui = "eager"
  /\ eager' = eager + 1
  /\ IF eager <= EagerRows /\ row[eager] = "unfetched"
       THEN Enqueue(eager)
       ELSE /\ ui' = IF eager < EagerRows THEN "eager" ELSE "select"
            /\ UNCHANGED <<queued, row, offered>>
  /\ UNCHANGED <<limit, queue, results, work, picks, store>>

Send ==
  /\ ui = "send" /\ Len(queue) < QueueCap
  /\ queue' = Append(queue, offered)
  /\ offered' = 0
  /\ ui' = Home
  /\ UNCHANGED <<limit, eager, row, queued, results, work, picks, store>>

\* Enter asks for the row under the cursor.
EnterKey ==
  /\ ui = "select" /\ row[cursor] \in {"unfetched", "error"}
  /\ Enqueue(cursor)
  /\ UNCHANGED <<limit, eager, queue, results, work, picks, store>>

\* Mutant: the last row is overrun.
MutClamped(i) == IF i < 1 THEN 1 ELSE IF i > Count + 1 THEN Count ELSE i

\* moveCursor
Clamped(i) == IF i < 1 THEN 1 ELSE IF i > Count THEN Count ELSE i

\* Arrows and j, k; page keys; g and G.
MoveKey ==
  /\ ui = "select"
  /\ cursor' \in {Clamped(cursor + d) : d \in {-1, 1, -Page, Page}} \cup {1, Count}
  /\ UNCHANGED <<limit, ui, eager, offered, row, queued, queue, results, work,
                 selected, finished, aborted, store>>

\* Mutant: the single picker keeps what was picked before.
MutToggled == IF cursor \in selected THEN selected \ {cursor} ELSE selected \cup {cursor}

\* toggleSelected
Toggled ==
  IF cursor \in selected THEN selected \ {cursor}
  ELSE IF limit = 1 THEN {cursor} ELSE selected \cup {cursor}

SpaceKey ==
  /\ ui = "select" /\ limit # 0
  /\ selected' = Toggled
  /\ UNCHANGED <<limit, ui, eager, offered, row, queued, queue, results, work,
                 cursor, finished, aborted, store>>

\* d accepts the selection, or the row under the cursor when there is none.
DoneKey ==
  /\ ui = "select" /\ limit # 0
  /\ selected' = IF selected = {} THEN Toggled ELSE selected
  /\ finished' = TRUE
  /\ ui' = "closing"
  /\ UNCHANGED <<limit, eager, offered, row, queued, queue, results, work,
                 cursor, aborted, store>>

\* q, Esc, Ctrl-C, Ctrl-D
QuitKey ==
  /\ ui = "select"
  /\ aborted' = TRUE
  /\ ui' = "closing"
  /\ UNCHANGED <<limit, eager, offered, row, queued, queue, results, work,
                 cursor, selected, finished, store>>

\* Mutant: an answered id stays in queued.
MutReceive ==
  /\ ui \in {"select", "closing"} /\ results # <<>>
  /\ results' = Tail(results)
  /\ LET r == Head(results) IN
       /\ row' = [row EXCEPT ![r.row] = IF r.ok THEN "fetched" ELSE "error"]
       /\ cache' = IF r.ok THEN cache \cup {r.row} ELSE cache
       /\ \/ UNCHANGED <<disk, unread>>
          \/ r.ok /\ disk' = cache' /\ unread' = FALSE
  /\ UNCHANGED <<limit, ui, eager, offered, queued, queue, work, picks>>

\* Mutant: nobody receives while the screen waits for the workers.
MutClosing ==
  /\ ui = "select" /\ results # <<>>
  /\ results' = Tail(results)
  /\ LET r == Head(results) IN
       /\ queued' = queued \ {r.row}
       /\ row' = [row EXCEPT ![r.row] = IF r.ok THEN "fetched" ELSE "error"]
       /\ cache' = IF r.ok THEN cache \cup {r.row} ELSE cache
       /\ \/ UNCHANGED <<disk, unread>>
          \/ r.ok /\ disk' = cache' /\ unread' = FALSE
  /\ UNCHANGED <<limit, ui, eager, offered, queue, work, picks>>

\* applyResult, from the event loop or while the screen waits for the workers.  A failed
\* save is ignored; a later one writes the whole of cache again.
Receive ==
  /\ ui \in {"select", "closing"} /\ results # <<>>
  /\ results' = Tail(results)
  /\ LET r == Head(results) IN
       /\ queued' = queued \ {r.row}
       /\ row' = [row EXCEPT ![r.row] = IF r.ok THEN "fetched" ELSE "error"]
       /\ cache' = IF r.ok THEN cache \cup {r.row} ELSE cache
       /\ \/ UNCHANGED <<disk, unread>>
          \/ r.ok /\ disk' = cache' /\ unread' = FALSE
  /\ UNCHANGED <<limit, ui, eager, offered, queue, work, picks>>

\* wg.Wait returned and drain is closed.  The select may take that case although results
\* still holds answers.
Return ==
  /\ ui = "closing" /\ \A w \in Worker : at[w] = "gone"
  /\ ui' = "returned"
  /\ UNCHANGED <<limit, eager, offered, row, queued, queue, results, work, picks, store>>

\* What runVersionsUI returns: the rows accepted, or {} for an aborted selection.
Returned == IF ~aborted /\ finished /\ limit # 0 THEN selected ELSE {}

---------------------------------------------------------------------------
(* The workers *)

Take(w) ==
  /\ at[w] = "idle" /\ queue # <<>>
  /\ at' = [at EXCEPT ![w] = "fetching"]
  /\ job' = [job EXCEPT ![w] = Head(queue)]
  /\ queue' = Tail(queue)
  /\ UNCHANGED <<limit, ui, eager, offered, row, queued, results, picks, store>>

\* getVersionMetadataWithAuth comes back, with the version or with an error.
Answer(w) ==
  /\ at[w] = "fetching"
  /\ \E a \in {"fetched", "failed"} : at' = [at EXCEPT ![w] = a]
  /\ UNCHANGED <<limit, ui, eager, offered, row, queued, queue, results, job, picks, store>>

Deliver(w) ==
  /\ at[w] \in {"fetched", "failed"} /\ Len(results) < ResultCap
  /\ results' = Append(results, [row |-> job[w], ok |-> at[w] = "fetched"])
  /\ at' = [at EXCEPT ![w] = "idle"]
  /\ job' = [job EXCEPT ![w] = 0]
  /\ UNCHANGED <<limit, ui, eager, offered, row, queued, queue, picks, store>>

\* queue is closed and has been emptied: what was in it is fetched first.
Leave(w) ==
  /\ at[w] = "idle" /\ queue = <<>> /\ ui = "closing"
  /\ at' = [at EXCEPT ![w] = "gone"]
  /\ UNCHANGED <<limit, ui, eager, offered, row, queued, queue, results, job, picks, store>>

---------------------------------------------------------------------------
\* A run starts with the answers in loaded.
Start(loaded) ==
  /\ limit' \in Limits
  /\ ui' = "eager" /\ eager' = 1 /\ offered' = 0
  /\ row' = Loaded(loaded) /\ queued' = {} /\ queue' = <<>> /\ results' = <<>>
  /\ at' = [w \in Worker |-> "idle"] /\ job' = [w \in Worker |-> 0]
  /\ cursor' = 1 /\ selected' = {} /\ finished' = FALSE /\ aborted' = FALSE
  /\ cache' = loaded /\ UNCHANGED disk

\* Mutant: the map is made anew although the file was read.
MutReopen == Start({}) /\ unread' = FALSE

\* The process is killed, or has returned, and the table is opened again.  When the cache
\* file cannot be read or parsed the run starts fresh, from an empty map.
Reopen ==
  \/ Start(disk) /\ unread' = FALSE
  \/ Start({}) /\ unread' = TRUE

Key    == EnterKey \/ MoveKey \/ SpaceKey \/ DoneKey \/ QuitKey
Screen == EagerFetch \/ Send \/ Receive \/ Return
Work(w) == Take(w) \/ Answer(w) \/ Deliver(w) \/ Leave(w)

Next == Key \/ Screen \/ (\E w \in Worker : Work(w)) \/ Reopen

\* The Go scheduler runs every goroutine that can run, and select chooses at random among
\* the cases that are ready, so a stream of keys cannot hold results back for ever; a channel
\* serves the goroutines that wait on it in turn.  Nothing says that Apple answers.
Fairness ==
  /\ WF_vars(EagerFetch) /\ WF_vars(Send) /\ SF_vars(Receive) /\ WF_vars(Return)
  /\ \A w \in Worker : WF_vars(Take(w)) /\ SF_vars(Deliver(w)) /\ WF_vars(Leave(w))

Spec == Init /\ [][Next]_vars /\ Fairness

---------------------------------------------------------------------------
(* The version column *)

\* A display version is <<major, minor, patch>>, or blank when parseSemver3 refuses it.
Version == Nat \X Nat \X Nat
Blank == <<>>

ASSUME HistoryAssumption == Histories \subseteq [Row -> Version \cup {Blank}]

Newer(a, b) ==
  \/ a[1] > b[1]
  \/ a[1] = b[1] /\ (a[2] > b[2] \/ (a[2] = b[2] /\ a[3] > b[3]))

\* The descent path of monotonicVersionFill: the versions from newer down to older, both
\* left out, counted from 0.
PathLength(newer, older) ==
  IF newer[2] = older[2] THEN newer[3] - 1 - older[3]
                         ELSE newer[3] + newer[2] - 1 - older[2]
PathAt(newer, k) ==
  IF k < newer[3] THEN <<newer[1], newer[2], newer[3] - 1 - k>>
                  ELSE <<newer[1], newer[2] - 1 - (k - newer[3]), 0>>

\* Mutant: the samples are taken one half share too low.
MutFill(newer, older, slots, i) ==
  LET n == PathLength(newer, older)
  IN IF Blank \in {newer, older} THEN Blank
     ELSE IF newer = older THEN newer
     ELSE IF newer[1] # older[1] \/ ~Newer(newer, older) THEN Blank
     ELSE IF slots <= n THEN PathAt(newer, (n * 2 * i) \div (2 * slots))
     ELSE IF i <= n THEN PathAt(newer, i - 1)
     ELSE IF newer[2] > older[2] THEN <<older[1], older[2], older[3] + slots - i + 1>> ELSE Blank

\* monotonicVersionFill: guesses for the i-th of slots rows between two fetched ones.
Fill(newer, older, slots, i) ==
  LET n == PathLength(newer, older)
      spread == PathAt(newer, (n * (2 * i - 1)) \div (2 * slots))
      hotfix == <<older[1], older[2], older[3] + slots - i + 1>>
  IN IF Blank \in {newer, older} THEN Blank
     ELSE IF newer = older THEN newer
     ELSE IF newer[1] # older[1] \/ ~Newer(newer, older) THEN Blank
     ELSE IF slots <= n THEN spread
     ELSE IF i <= n THEN PathAt(newer, i - 1)
     ELSE IF newer[2] > older[2] THEN hotfix ELSE Blank

\* rebuildPredictions, for a row v says nothing of: v gives the fetched rows their version.
Guess(v, fetched, i) ==
  LET above == {j \in fetched : j < i}
      below == {j \in fetched : j > i}
      a == CHOOSE j \in above : \A k \in above : k <= j
      b == CHOOSE j \in below : \A k \in below : k >= j
  IN IF above # {} /\ below # {} THEN Fill(v[a], v[b], b - a - 1, i - a)
     ELSE IF below # {}
       THEN IF v[b] = Blank THEN Blank ELSE <<v[b][1], v[b][2] + b - i, 0>>
     ELSE IF above # {}
       THEN IF v[a] = Blank \/ v[a][2] < i - a THEN Blank
            ELSE <<v[a][1], v[a][2] - (i - a), 0>>
     ELSE Blank

Fetched == {i \in Row : row[i] = "fetched"}
\* The version writeRow puts in a row.
Shown(v, i) ==
  IF row[i] = "fetched" THEN v[i]
  ELSE IF row[i] = "unfetched" THEN Guess(v, Fetched, i) ELSE Blank

---------------------------------------------------------------------------
(* What the table promises *)

Busy(w)  == at[w] \in {"fetching", "fetched", "failed"}
Offered  == IF ui = "send" THEN {offered} ELSE {}
Waiting  == {queue[n] : n \in 1..Len(queue)}
Asked    == {job[w] : w \in {x \in Worker : Busy(x)}}
Answered == {results[n].row : n \in 1..Len(results)}

\* The table's state is well typed, and the channels keep within their capacity.
TypeOK ==
  /\ limit \in Limits
  /\ ui \in {"eager", "select", "send", "closing", "returned"}
  /\ eager \in Nat \ {0}
  /\ offered \in Row \cup {0} /\ (ui = "send" => offered \in Row)
  /\ row \in [Row -> {"unfetched", "pending", "fetched", "error"}]
  /\ queued \subseteq Row
  /\ queue \in Seq(Row) /\ Len(queue) <= QueueCap
  /\ results \in Seq([row : Row, ok : BOOLEAN]) /\ Len(results) <= ResultCap
  /\ at \in [Worker -> {"idle", "fetching", "fetched", "failed", "gone"}]
  /\ job \in [Worker -> Row \cup {0}] /\ (\A w \in Worker : Busy(w) => job[w] \in Row)
  /\ cursor \in Row /\ selected \subseteq Row
  /\ finished \in BOOLEAN /\ aborted \in BOOLEAN
  /\ cache \subseteq Row /\ disk \subseteq Row /\ unread \in BOOLEAN

\* An id asked for is in exactly one place: offered by the screen, in the queue, with one
\* worker, or among the results.  So Apple is never asked for the same version twice at a
\* time, and no id is lost on its way: a pending row's answer is still to come.  When the
\* screen has returned, the answers its drain has not taken are all that is left.
OneRequest ==
  /\ queued = Offered \cup Waiting \cup Asked \cup Answered
  /\ (Offered \cap Waiting) \cup (Offered \cap Asked) \cup (Offered \cap Answered) = {}
  /\ (Waiting \cap Asked) \cup (Waiting \cap Answered) \cup (Asked \cap Answered) = {}
  /\ \A n, m \in 1..Len(queue) : queue[n] = queue[m] => n = m
  /\ \A n, m \in 1..Len(results) : results[n].row = results[m].row => n = m
  /\ \A w, x \in Worker : Busy(w) /\ Busy(x) /\ job[w] = job[x] => w = x
  /\ \A i \in Row : row[i] = "pending" <=> i \in queued
  /\ ui = "returned" => queued = Answered

\* A single picker never holds two versions; d never leaves the screen empty-handed, and
\* what is picked is returned only when d was pressed.
PickHonoured ==
  /\ limit = 1 => Cardinality(selected) <= 1
  /\ finished => limit # 0 /\ selected # {} /\ ~aborted
  /\ ui = "returned" => (finished <=> Returned # {})

\* An answer in the cache file is only lost where a run could not read the file, and there
\* only to its first save; otherwise the file only grows, whatever saves fail and whenever
\* the process is killed: a save writes all that was saved before.
CacheGrows == [][unread \/ disk \subseteq disk']_vars

\* Guesses between two versions fetched lie strictly between them and go strictly down, for
\* every two versions of Histories and every gap up to twice the table.
FillDescends ==
  LET Seen == (UNION {{v[i] : i \in Row} : v \in Histories}) \ {Blank}
  IN \A newer, older \in Seen, slots \in 1..2 * Count :
       LET column == [i \in 0..slots + 1 |-> IF i = 0 THEN newer
                                           ELSE IF i > slots THEN older
                                           ELSE Fill(newer, older, slots, i)]
           shown  == {i \in DOMAIN column : column[i] # Blank}
       IN Newer(newer, older) => \A i, j \in shown : i < j => Newer(column[i], column[j])

\* Read downwards the version column never goes up, and goes strictly down when the versions
\* fetched do: a guess lies between the fetched versions around it.
ColumnDescends ==
  /\ FillDescends
  /\ \A v \in Histories :
       LET shown == {i \in Row : Shown(v, i) # Blank}
           known == Fetched \cap shown
       IN /\ (\A i, j \in known : i < j => ~Newer(v[j], v[i]))
               => \A i, j \in shown : i < j => ~Newer(Shown(v, j), Shown(v, i))
          /\ (\A i, j \in known : i < j => Newer(v[i], v[j]))
               => \A i, j \in shown : i < j => Newer(Shown(v, i), Shown(v, j))

\* The queue of requests is only as long as it is: with more rows asked for than the two
\* channels and the workers hold, the screen may wait to send while every worker waits
\* for the screen to receive.
RoomForAll == Count <= QueueCap + ResultCap + Cardinality(Worker)

\* The screen is stuck: it and all workers wait for each other.
Stuck ==
  /\ ui = "send" /\ Len(queue) = QueueCap /\ Len(results) = ResultCap
  /\ \A w \in Worker : at[w] \in {"fetched", "failed"}

\* If there is room for all rows and every request to Apple ends, the oldest row, which is
\* fetched only on demand and may be asked for while others are asked for again and again,
\* is answered or the screen returns; and a screen that was left returns.
RequestsEnd == \A w \in Worker : []<>(at[w] # "fetching")
PendingAnswered ==
  RoomForAll /\ RequestsEnd =>
    /\ row[Count] = "pending" ~> row[Count] # "pending" \/ ui = "returned"
    /\ ui = "closing" ~> ui # "closing"

===============================================================================
