# Verification of the 2026 scouting main computer

The program is one Windows process. It accepts Bluetooth connections from
scouting tablets, stores the matches they send in a local MariaDB table, sends
the tablets the files of the event, and uploads the stored data to a backend. A
raylib window drives all of it: the main loop (`src/src/main.cpp`) runs once a
frame on the GUI thread, and the only other threads are the `std::async`
workers that exchange one message with one tablet each. The repository has no
tests.

Source paths below are relative to `src/src/`; `bt/` is `myincludes/bluetooth/`.

## Inventory

| Component | State | Operations | Talks to |
|---|---|---|---|
| **Tablet manager**: `bt/bluetooth.hpp`, `bluetoothConductor.hpp`, `bluetoothTransaction.hpp` | `connectedTablets` (a vector of objects, by value), `runningTransactions` (pointers into them) | `acceptConn`, `handleReadyConnections`, `handleRunningTransactions` (one frame), `killSocket`, `killAllSockets`, `getNameList` | connections (calls), workers (futures, `success` by reference), database |
| **Tablet connection**: `bt/btTabObj.hpp` | socket, `currTrans`, `transactionState`, scouting name, match list | `readTransactionData`, `internalRead`, `internalWrite`, `sockSuicide` | the tablet, over a byte stream |
| **Match storage and upload**: `DatabaseMan.hpp`, `database.hpp`, `restReqHandler.hpp` 114-152, `main.cpp` 278-322 | table `matchtransaction` (survives the program) | insert a received match; select, copy under a number, delete, post | MariaDB, the backend |
| **Event files**: `restReqHandler.hpp` 28-110, `jsonParser.hpp`, `main.cpp` 263-276, 324-335 | four CSV files under `resources/csv/` | update from The Blue Alliance, update scouters; read for TRANS_SEND_LOCAL_DB and its hash | TBA, tablets |
| **Match list**: `bluetoothConductor.hpp` 75-102, 168-208 | `tabletMatches` of a connection | append a list; answer the positions not received; store a match | database, tablets |
| **Scenes**: `main.cpp` 163-389, `button.hpp` | `currentScene`, enabled tabs, button latches, selected boxes | a frame: tabs, buttons of the scene, drawing, poll | every button's handler |
| **Text box**: `guiHandler/textBox.hpp` | buffer, its end, selection | type, delete | scenes, raylib's key queue |
| **Winsock texts**: `winsockErrorDesc.hpp` | a static map | clear, fill, look up | GUI thread and workers, unlocked |
| **Hash**: `murmurHash2Neutral.hpp` | - | `murmurHash` | tablets compare it |
| Table of teams, toasts, widgets, Pong, debug console, start-up, vendored libraries | - | see *Not modelled* | - |

What makes each correct, and what is hard about it:

* *Tablet manager.* A worker runs on the element of its own tablet and nobody
  else uses that socket; `runningTransactions` and the `transactionState` flags
  say the same thing; no result is lost or goes to another tablet; the sockets
  open are the ones listed. Hard because elements move (`push_back` on a full
  vector, `erase`) under addresses held by the list, by `currTrans.parent` and
  by workers, because `success` is shared without a lock, and because dropping a
  future joins its worker on the GUI thread.
* *Tablet connection.* Both ends stay in step over one stream without framing;
  data is whole; every transaction ends. Hard because of timeouts, late
  answers and partial sends.
* *Match storage and upload.* No scouted point is lost, none is uploaded twice
  under different numbers, a batch sent again is the batch sent before. Hard
  because the copy is many statements without a transaction, errors are empty
  results nobody looks at, and the program may die anywhere.
* *Event files.* A tablet gets four files of one event, whole unless their last
  update was cut short, and gets them. Hard because each file is written by its own
  request, which may fail, end early or never return.
* *Match list.* A match not asked for has been received; none is received
  twice. Hard because the list of a connection only grows while the positions
  answered are read against the last list sent, and a match is stored row by row.
* *Scenes.* A press sets off one button, once, that the user saw. Hard because a
  button is asked with the coordinates of its last drawing and latches on its
  own, a scene is asked before it is drawn, and a failed upload leaves the frame
  before the poll.
* *Text box.* The buffer stays terminated and holds what was typed. Hard because
  a frame no longer knows the order of characters and backspaces.
* *Winsock texts.* A lookup finds its text. Hard because each one empties the map
  first, on any thread.

`PROJECT.json` lists all components and, under `hazards`, each hazard at its line.

## Modules

**TabletManager** is the core. `slot` is the memory of `connectedTablets`,
`size` and `cap` its `size()` and `capacity()`; an address is a slot number and 0
an address into a freed buffer. An element (`NewTab`) holds the socket,
`transactionState` (`busy`) and the parts of `currTrans` that matter: `parent`,
the code, the future (`fut`, the number of a shared state in `job`) and `success`
(`ok`). A worker no element refers to any more is being joined by the
assignment of its successor (`Joined`), which takes four connections to happen.
`pc` and `idx` say where the GUI thread is. One action stands for one
turn of a loop, cut where another thread's step can be seen:

| Code | Actions |
|---|---|
| `acceptConn` | `NoConnection`, `AcceptConn` (a full buffer is replaced: all addresses become 0) |
| `handleReadyConnections` | `SkipTablet`, `RefuseTransaction`, `StartTransaction`, `StartUnknownSend` (reading the code and `initReadyTransaction`), then `CheckKill`, `CheckAlive` (the look at `success`), `CheckNoState`, `CheckReady`, `CheckRunning` (`isReady()`), `EndReady` |
| `handleRunningTransactions` | `DropInvalid`, `FreedAccess`, `StillRunning`, `FinishTransaction`, `EndRunning` |
| `handleTransResult` | operator `HandleTransResult` |
| `killSocket` | operator `KillSocket` (close, and the first member of the move), `Erase` (the rest, after the join) |
| `killAllSockets` | `KillAllSockets`, `GetRunning`, `ClearAll` |
| kill buttons, disconnect button, closing the window | `KillButton`, `KillAllSockets("accept")`, `KillAllSockets("ended")` |
| a worker | `WorkerBegin` and `WorkerReads` (`success = true`), `WorkerDone` (the result), `WorkerFail` (`success = false`), `WorkerEnd` (the NCK, and the return), `WorkerThrow` (the lookup of the error's name throws), `WorkerFault` (its `this` is freed) |
| the tablet (external) | `Request`, `TabletLink` |

A worker that fails does so in steps: it clears `success` first, a read then sends
its NCK, and only its return makes the future ready. In between the ready loop can
see the flag and kill the tablet under the worker (`state = "failing"`); the
erase then joins it, and unless the tablet is the last of the vector its socket has been moved away
meanwhile, so that the NCK goes to another tablet: such a kill counts as
`disturbed`. `WinsockErrorDesc::get` may throw before `success` is cleared
(`btTabObj.hpp` 131; how, is in ErrorTexts): then `success` stays set and `get()`
rethrows on the GUI thread, for every code and in `killAllSockets`, and ends the program
(`pc = "exception"`).

Undefined behaviour is bounded by what the build can do: reading a freed
element either finds an invalid future (`DropInvalid`) or ends the program
(`FreedAccess`, `WorkerFault`), and a worker on a freed element goes on with the
socket it had. The launch policy `async | deferred` lets the library choose, so
`Launches` has both; a deferred read runs inside `get()`, and a deferred write
never runs. `disturbed` records that an element moved or died under a live
transaction; the code does nothing to prevent that, so most invariants are
promised only until then, and `OpenIsListed` always. The flag is a history
variable: no action reads it to decide anything.

**TabletPool** is the abstract specification: each connection is absent, idle,
working, answered or gone; one transaction at a time, settled only after its
worker ended, removed only between transactions, all while the pool is intact.
`TabletManager!PoolPromise` is the refinement, with `TabletState` as mapping.

**TabletSession** refines one transaction down to the wire: `internalRead` and
`internalWrite` item by item, against a tablet that follows the exchange in
their comments. A stream item is a code byte, a size, an ACK, a NCK or one piece
of data. The tablet may fall silent, close or be lost at any point, and an item
of a late message is read as whatever is expected (`CodesOf`, `SizesOf`).
`late` records that the computer gave an exchange up; from then on nothing
resynchronises the stream, so the data properties are promised until then.
`TransactionEnds` is promised always. A tablet that asks while the send buffer is
full is refused (`RefuseTransaction`: `readyToWrite` says no).

**MatchUpload** follows a data point from `addMatchDatapoints` to the backend.
`pc` is the statement the handler is at; both handlers run on the GUI thread
and do not interleave, but any statement may fail and `Restart` may come between
any two. Only the table and what the backend has survive. `faults` records what
went wrong, so that each property can name exactly the faults it does not
survive. The backend is not in the repository: that it never hands out one
number twice is assumed (`next`).

**EventFiles** follows the four files. `pc` is the statement the button's handler
is at: asking for the matches, the file opened (and thereby empty) and not yet
written, and so on. A request may fail or stay unanswered (`net`), a file may
not open, and `Restart` may come between any two statements; the files survive.
`SendFiles` reads all four in one go; the property is about this step, and about the
faults of the *last* update: a new update clears those of the one before (`faults \
EventFaults`), so an update repairs what earlier ones left. `UpdateScouters` and
`WriteScouters` are the second button. Two lists may be cut short without the program
noticing: `parseTeams` keeps the teams before the first malformed one (`WriteTeams`),
and a query for the scouters ends at a row that cannot be fetched
(`WriteScouters`). The file then has a part of the list (`PartOf`,
`PartOfRoster`), and the property says that a tablet gets such a part exactly when the
last update of that list was cut short (`CutShort`).

**MatchSync** is the exchange by which tablet and computer agree on what is
missing. `list` is `tabletMatches` (it grows with every list of the connection,
`first` is the length of the first), `answer` the positions told, `sentList` the
list the tablet reads them against. `SendUnreceived` is one SELECT per entry, any
of which may fail and then looks like no rows; `ReceiveMatch` and `StorePoint`
are the parsing of a match, which keeps the points before a malformed one, and its
inserts one by one. The tablet (`Scout`, `Disconnect`) is external. `Upload ==
INSTANCE MatchUpload` maps the rows to unassigned rows of its table:
`TableOfMatchUpload` shows that this exchange does to the table what
`MatchUpload` takes a tablet to do, which composes the two.

**Window** is the main loop as the user sees it. A frame is `AskTabs`, the frame of
its scene (`ScannerFrame`, `DatabaseFrame`, `BluetoothFrame`, `PongFrame`) with
drawing, and `EndDrawing`, which polls mouse and keys. `latch` is the set of buttons whose
`lastClickState` is set, `shown` the scene last drawn, `mouse` what the mouse
is held on: a button, a text box, the background, or one of the two places where buttons of two
scenes overlap. A button never drawn may be set off anywhere (`Stray`:
`lastX` and `lastY` have no initial value), and so may the kill button of a
tablet just listed. `KillButtons` are those of the tablets in the list, asked by
`getNameList` through `isReleased`: set off when the mouse is let go on them
(`released`, `Released`), if their latch saw it down. `strayed` are the latches set by
chance, `due` what the poll obliges the next frame to set off; these, `aim`, `hold`,
`lastPress` and `again` are history variables for the properties. The E key
(`main.cpp` 185) looks up an error text, which is in ErrorTexts.

**TextBox** is one box against the keys typed: `Poll` makes of a sequence of keys
what raylib hands on (the characters, cut at its limit, and whether backspace
went down), `UpdateText` is the code, and `meant` what the keys add up to, key
by key, by the reference `Edit`.

**ErrorTexts** is the map of Winsock texts under lookups by several threads:
`Get`, `Clear`, `Insert` (one entry) and `At`; `Corrupt` is what the data race
of two threads in the map may do besides.

**TabletManagerProofs**, **TabletSessionProofs**, **MatchUploadProofs**,
**EventFilesProofs**, **MatchSyncProofs**, **ErrorTextsProofs**, **WindowProofs** and
**TextBoxProofs** have the proofs.

In every module some operators stand directly before the one they vary (for
example `StaysBusy` before `StillBusy`): they are the plausible mistakes the
properties were tried against, and no specification uses them.

## Runs

| Run | Instance | Shows |
|---|---|---|
| `tablets2` | 2 connections, all codes, both policies, all losses, 2 requests | type correctness; `OpenIsListed`, `RunningMatchesBusy`, `OneWorkerPerSocket`, `FlagAgreesWithResult`, `ReadKilledOnItsOwnFailure`, `FaultCauses` |
| `tablets3` | 3 connections, 3 requests, sends and closes | `RunningMatchesBusy`, `OneWorkerPerSocket` with an element on both sides of an erased one and two reallocations, and the refinement of TabletPool |
| `tablets_live` | 2 connections, stalls and closes, fair | `FrameEnds`, `RequestSeen` |
| `session` | 3 transactions, messages of 0 to 2 pieces, send buffer of 1 piece, fair | `InStep`, `ReadIsWhole`, `WriteIsWhole`, `NoStandoff`, `TransactionEnds` |
| `upload` | 2 points in 3 matches, 2 upload numbers, any spelling of zero, every fault | `NoPointLost`, `SentIsKept`, `OneNumberPerPoint`, `SentBatchIsFinal` |
| `event_files` | 2 events, every fault, lists cut short, fair | `TabletsGetOneEvent`; `TabletAnswered` if the network stays up from some time on |
| `match_sync` | 2 matches of 2 points, 2 lists per connection, every fault | `NotAskedIsReceived`, `NothingStoredTwice`, the refinement of MatchUpload |
| `window` | all scenes, tabs, boxes and special buttons, one kill button and one other button | `TabsMatchScene`, `OncePerPress`, `OnlyWhatIsInView`, `NoPressLost`, `TypedWhereLastPressed` |
| `text_box` | a box of 3, a key queue of 2, 3 keys per poll | `EndsAtCurrentChar`, `HoldsWhatWasTyped` |
| `error_texts` | 3 threads, 4 entries | `AloneFindsItsText` |
| `closed_once` | 2 connections, 1 request, no losses | finding: the socket of a tablet that asks to be closed is closed twice (`bluetoothConductor.hpp` 141, then `bluetooth.hpp` 348), against the comment of `sockSuicide`; the same follows a socket error (line 132) |
| `failed_read` | 2 connections, 1 request | finding: a read that fails after the ready loop looked at `success`, as by its timeout, ends the program by `value()`, against the comment of `readTransactionData` |

*Bounds.* A vector that grows from 0 has capacities 1, 2, 4, so three
connections meet a push with and without reallocation. Erasing with two elements
shows a survivor taking the place of a dead one; a third shows one that stays in
place beside one that moves. Every tablet can have a transaction at once.
`MaxRequests` ends the session; two requests are enough for one tablet to ask
twice and find the state the first transaction left. In `session` two pieces tell first
from last, a buffer of one makes the send loop wait, and the third transaction
finds what two others left. In `upload` two numbers are needed for a batch to
be picked up again under another one, and two points give a batch of two, two
batches of one, and one point in two matches. In `event_files` two events are all it takes to be mixed; there
is no other bound. In `match_sync` two points tell part of a match from the
whole, and `MaxLists` = 2 is the first number at which positions
disagree. `window` is every way to press, hold, move and let go
through the scenes; buttons that differ only in what their handler does are one (in the
database scene, where a frame may be cut; `WindowProofs` has the scanner scene's too), and one kill
button stands for the list, as a button shares nothing with the next but the
mouse. `MaxStray` = 1 is its only bound: one button clicked by chance in a frame. The text
box is filled, overfilled and emptied with `SizeLimit` 3, and `MaxKeys` is above
`QueueLimit` so that raylib drops a key and within `SizeLimit` otherwise. In
`error_texts` two threads suffice to overlap and a third begins after both.

*Symmetry* over connections, interchangeable points or threads is used in runs
without liveness properties only.

*Deadlock* is checked except in `session`, where both ends may rightly stop (the
tablet may have no more to ask), and `error_texts`, where the program may end.

*Fairness.* The frame loop runs as long as the window is open, so the GUI thread
is weakly fair; the operating system runs started threads, and a read ends by data, an
error or its 15 s timeout, so a worker's progress is weakly fair, except a send to
a tablet that does not drain its socket, which retries for ever. Nothing is
assumed of tablets or users: `FrameEnds` and `RequestSeen` take as a hypothesis that no
connection stays stalled (`NoneStalls`), and `TransactionEnds` names the stuck send as its one
exception. In `EventFiles` the statements of a handler are weakly fair
(`Request`, which also needs an answer, and `Write`), and `SendFiles` is strongly
fair: every frame looks at the tablets, but a user who presses buttons
disables it again and again. That the network comes back to stay is a hypothesis
of `TabletAnswered`, as curl has no timeout here. The other modules state no
fairness: nothing they promise must eventually happen.

*Observations* from these runs that contradict no comment of the source, and so
are stated as exceptions of the properties rather than as findings: "Back" of
Pong lies where "Reset Tabs" of the Bluetooth scene will be drawn, which is asked
in the next frame, so the same held press disconnects all tablets
(`OnlyWhatIsInView`); the button of a tablet just listed may take a press elsewhere for
one on it, and a later release on it removes the tablet (`OnlyWhatIsInView`); an
upload that gets no number leaves the frame before the
poll, so F11 pressed then toggles the screen again (`OncePerPress`); three kinds of
press are lost (`Excused` of `NoPressLost`): on a tab not asked in the frame before, as it
keeps its latch while disabled, on a button latched by chance before its first
drawing, and on a button of the scene just left, which is on the screen for one
more frame ("Reset" of Pong right after "Back"); the
positions of a second match list in one connection are wrong
(`NothingStoredTwice`), and after one `NotAskedIsReceived` says nothing of what lies
behind the first list; a match of which one point was stored is never asked for
again (`NotAskedIsReceived`); "00" in the box uploads unassigned rows without a
number (`OneNumberPerPoint`); every error text looked up refills the whole
map, as `init` is never set although the comment above (line 112) means it to be.

## Proofs

`TabletManagerProofs` proves, for any finite set of connections, any codes,
launch policies and losses and any number of requests, all safety properties of the
runs `tablets2` and `tablets3`: `TypeCorrect` (`TypeOK`), `ListedIsOpen`
(`OpenIsListed`), `RunningIsBusy` (`RunningMatchesBusy`), `WorkersApart`
(`OneWorkerPerSocket`), `FlagsAgree` (`FlagAgreesWithResult`),
`KilledForItsOwnFailure` (`ReadKilledOnItsOwnFailure`), `FaultsExplained`
(`FaultCauses`), and that the bookkeeping implements TabletPool,
`BookkeepingKeepsPromise` (`PoolPromise`). They rest on the assumptions on the
constants of TabletManager and nothing else.

*The list of tablets.* The first two properties need one another. That `size` stays
within the connections made takes
that no tablet is listed twice (`DistinctInv`, and the pigeonhole lemma
`RoomForOne`); that no tablet is listed twice takes that what is listed is open
(`OpenInv`) and a new connection is not (`LinkedInv`). Both must also hold in the
middle of a kill: a refused tablet is listed but closed already (`Refused`), and
while `erase()` waits for a worker the victim's slot has its neighbour's socket
(`Occupied`). `PositionInv` says that the loop index or the victim names an
element then. Their conjunction `ListInv` holds until a fault ends the program,
and with `TypeOK` it is the inductive invariant `Inv`, checked by TLC on both
instances first. There is a lemma for the types and one for the list for
each group of actions; steps that touch no socket share `ListKept` and `ListSame`.

*The transactions.* The other invariants share one strengthening,
`WorkInv == ~disturbed => Calm`: as long as no element was moved or destroyed
under a live transaction (the model's `disturbed`, which the properties name), every
pointer is where its element is. `Calm` is a conjunction. `FutureInv`: each future
held has a shared state of its own, made for the tablet of its element; without
it two elements could wait for one worker. `WorkerInv`: a live worker's element is
in the list, waits for it, is busy or just being started, and is not behind the
victim of an `erase()`; this is why an `erase()` that moves nothing under way
leaves all workers valid. `RunningInv`: `runningTransactions` names the busy
elements, each once, each with its own address as parent and a future; killing all
takes the futures one by one, so it is weaker from `getAll` on, and while one is
erased only elements before it may be listed. `StartingInv` is what
`initReadyTransaction` has left in the element the ready loop is at, `FlagInv` says
that the flag of a read is cleared exactly while its worker is on the way out after a failure and
from then on, `EndInv` how the program can have ended: never in freed memory, and
otherwise by one of the three causes `FaultCauses` names. `FaultCauses` then needs no more
than `EndInv`, `KilledForItsOwnFailure` `StartingInv` and `FlagInv`.

*The refinement.* `TabletState` maps a connection to what TabletPool sees of it
(`absent`, `idle`, `working`, `answered`, `gone`). The initial state maps to
`PoolInit`, and `PoolStep` shows that every step is one of TabletPool's or changes
nothing it sees: while `Calm` holds, by a lemma for each group of actions; when the
step disturbs the list, it is `Disturb`. The delicate step is `PoolErase`: a victim that is not the
last element gets its neighbour's socket before `erase()` works, and so has left the list
already; only the last one leaves when it is destroyed. `VictimInv` adds that the victim's
slot names a tablet that was connected meanwhile.

`TabletSessionProofs` proves, for messages, send buffers and sessions of any length:
`TypeCorrect` (`TypeOK`), `NeverOutOfStep` (`InStep`), `ReadsAreWhole`
(`ReadIsWhole`), `WritesAreWhole` (`WriteIsWhole`) and `NeverAStandoff`
(`NoStandoff`). `TypeInv` adds to the types what the counters of the two ends
satisfy whether they are in step or not (`BoundsInv`: the loops of `internalRead`
and `internalWrite` never count below zero) and that nothing precedes the code of
the first transaction (`FirstInv`). It holds at all times, also when the
streams are out of step. `ExchangeInv` is what a correct exchange looks like and
holds until the computer gives one up (`late`). It has two parts, because
either end can be gone: `ToReadInv` says for each step of the computer what is in
the stream it reads, and must hold of a tablet that has closed, too;
`TogetherInv` says for each step of the tablet where the computer can be and what is
in both streams (`AtIdle` to `AtWriteData`), while the link is up. Neither
is inductive alone. The cases that make it long are those in which the tablet is
ahead: it has acknowledged an empty message and its size at once (`Both`), or has sent
all it has and already the code of the next transaction (`Ahead`, `CodesAfter`).
Messages keep their content by counting: what was received and what is in the
stream are consecutive pieces of one message (`Arriving`, `Leaving`). `NeverAStandoff`
follows, as at each of the tablet's steps one of the two has something to read or to
send. TLC checked `TypeInv` and `ExchangeInv` on an instance with messages of 2 pieces
and 4 transactions first. The assumptions are `LenAssumption` and `RoomAssumption`.

`MatchUploadProofs` proves, for any set of points, matches and number of uploads:
`TypeCorrect`, `NothingLost`, `SentStaysKept`, `SentFinal` and `OneNumberEach`,
which are the run's `TypeOK`, `NoPointLost`, `SentIsKept`, `SentBatchIsFinal` and
`OneNumberPerPoint`. The only assumptions are `MatchesAssumption` (a match is a
non-empty set of points) and `UploadsAssumption`.

`NoPointLost` alone is not inductive: the DELETE of the loop is harmless only
because every unassigned row is in `dbResp` and each row of `dbResp` is either
copied or still in `todo`. That is `CopyInv`; it holds when the loop starts
because of `SelectInv` (the query selected all unassigned rows, or failed and the
loop is skipped) and gives `SendInv` when it ends (all of the batch is
labelled), which is what `SentIsKept` needs at the post. `FreshInv` keeps numbers
in use below the next one, so the loop never writes under a number the backend
has: this is `SentBatchIsFinal`. For `OneNumberPerPoint` a further part,
`UniqueInv`, says where in the loop a point may have a row both with and without
a number, while none of the faults that excuse a second number has happened. The
invariant `Inv` was checked by TLC before it was proved. There is a lemma for
each part, with a step for each action.

`EventFilesProofs` proves for any set of events `TypeCorrect` (`TypeOK`) and
`FilesAgree` (`TabletsGetOneEvent`). The property speaks of the step that sends the files; `UpdateInv`
says, for each statement of the update, which files are already those of the new
event if no fault but a list cut short has been met since it began, and `RosterInv`
that the list of scouters is what its last query returned, outside its own update. There are no assumptions.

`MatchSyncProofs` proves for any matches, number of points and lists:
`TypeCorrect` (`TypeOK`), `NothingHidden` (`NotAskedIsReceived`), `StoredOnce`
(`NothingStoredTwice`), and `SyncImplementsUpload`: MatchSync implements
MatchUpload (`TableOfMatchUpload`), initial states to initial states and every
step to a step or a stutter (`UploadStep`). `PositionInv` is the heart of the
first: the first list of a connection and the last one sent both begin the tablet's
matches, so their positions agree up to `first`. `StoreInv` says that only the
match being stored or one cut short is in the table in part, `AnswerInv` restates
the property over `list`, and `ResendInv` that while no fault happened what is asked for has no
row. The assumptions are `PointsAssumption` and `ListsAssumption`.

`ErrorTextsProofs` proves `FoundAlone` (`AloneFindsItsText`) and its `TypeOK`,
for any threads and number of entries: `FilledInv` says how far a thread alone has
filled the map, `OverlapInv` and `AskedInv` that the two faults are noticed.
The assumption is `CodesAssumption`.

`WindowProofs` proves all six properties of the run `window` for any buttons of
the scanner and database scenes, any kill buttons and any `MaxStray`. `SceneFrames` and `TabsSteps` first reduce the
frames to what they have in common (`SceneStep`, `TabsStep`): which buttons were
asked, which clicked, and what became of the frame. The parts of the invariant are
one per property: `KeyInv` and `HeldInv` (what was set off stays latched while the
mouse stays; in a scene not drawn yet, only behind an upload that cut the frame)
give `OncePerPress`, `ViewInv` and `FiredInv` give `OnlyWhatIsInView` (the second rests on
`KillInv`: which latches of kill buttons can outlive the Bluetooth scene), `LatchInv` and
`DueInv` (latches are as the mouse is at the end of a frame, so none hides a new press,
and what is due is asked before the next poll) give `NoPressLost`, `MouseInv` and `TypedInv` give `TypedWhereLastPressed`. TLC
checked the parts first. The assumption is `ButtonsAssumption`, that the buttons are different
objects.

`TextBoxProofs` proves for any size of box, queue and bursts of keys all three
properties of the run `text_box`: `TypeCorrect` (`TypeOK`), `StringEnds`
(`EndsAtCurrentChar`) and `TypedIsHeld` (`HoldsWhatWasTyped`). The first two need
only what the loop over the characters takes (`TakenIs`) and writes (`UpdateEnds`).
For the third, `PolledInv` says that the queue holds what raylib made of the keys,
and `ContentInv` that the buffer agrees with `meant` character by character. Its step
(`ContentKept`) compares a loop with the reference, which takes the keys one
by one, so it is proved by induction over them: `Typed` and `Edited` are recursive
functions, for which `TypedSteps` and `EditedSteps` first show that their equations
hold, and `NotMixedUp` says that the keys of a frame without a fault are one backspace
at most and then characters that are taken or do not fit. The library's induction
theorems are out of reach here, so `Induction` is derived from the well-foundedness of
the order of the numbers (`NatLessThanWellFounded`, `WFMin`). The assumptions are
`LimitsAssumption` and `NULAssumption`.

Only model-checked: liveness under fairness, which is beyond the prover
(`FrameEnds`, `RequestSeen`, `TransactionEnds`, `TabletAnswered`), and of course what
the two runs with a finding refute. Every other property of a run has its theorem.

## Not modelled

* *Vendored code*: about 97 % of the lines of the repository (`include/`: curl,
  OpenSSL, MariaDB, raylib, JSON, QR codes). The program's own code is some
  4,300 lines, of which the modules cover the part that keeps state.
* *Table of teams* (`main.cpp` 244-250): a DELETE and 23 pages of inserts, with no
  failure looked at. Nothing reads the table, so a model would only repeat
  that any failure leaves it short; it is listed as a hazard.
* *Toasts*: a queue shown by the clock, on which nothing depends.
* *Hash*: 32-bit products are beyond TLC's integers and a narrower word is
  another function; the tablet's side of the comparison is not in the repository.
* *Layout and drawing of widgets, Pong, debug console*: geometry in floating point
  and output.
* *Bluetooth start-up*: a straight sequence of Windows calls before the main loop.
* The buttons of `main.cpp` that insert or amplify test rows (`DB`,
  `AmplifyBlue`, `AmplifyRed`) name the column `DCValue`, which the table the
  upload reads does not have.

## Plan

1. Start-up: which failure of the radio, listener and service record is looked at,
   and what the frame loop meets afterwards.
2. Proofs: the lemmas on sequences that TabletSessionProofs and TextBoxProofs each
   have a version of.
