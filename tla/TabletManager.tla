---------------------------- MODULE TabletManager ----------------------------
(***************************************************************************)
(* The Bluetooth side of the main loop: Bluetooth (bluetooth.hpp),          *)
(* BluetoothConductor (bluetoothConductor.hpp) and the BtTabObj objects     *)
(* (btTabObj.hpp), with the std::async worker of each transaction.          *)
(*                                                                          *)
(* connectedTablets is a std::vector of BtTabObj BY VALUE, while            *)
(* runningTransactions, currTrans.parent and the `this` of a worker are     *)
(* addresses INTO that vector.  An address is modelled by the slot it names *)
(* in the vector's current buffer; 0 is an address of a freed buffer (or    *)
(* none).  slot[s] for s > size is the memory past the last element.        *)
(***************************************************************************)
EXTENDS Integers, Sequences, FiniteSets

CONSTANTS Tablets,      \* connections made during the session: one socket each
          Codes,        \* the transaction codes tablets send
          Launches,     \* what std::async makes of async|deferred
          Losses,       \* what a connection may suffer
          MaxRequests,  \* bound: requests during the session
          None          \* no tablet, no request

TakenReads == {"match", "matchList", "info"}      \* TRANS_RECV_..
Reads  == TakenReads \cup {"otherRead"}           \* .. and an unknown code > 0
Sends  == {"send", "otherSend"}                   \* TRANS_SEND_.., unknown < 0
Refusals == {"close", "error"}                    \* TRANS_CLOSE_SOCKET, .._ERROR

ASSUME CodesAssumption == Codes \subseteq Reads \cup Sends \cup {"close"}
ASSUME LaunchAssumption == Launches \subseteq {"async", "deferred"} /\ Launches # {}
ASSUME TabletAssumption == IsFiniteSet(Tablets) /\ None \notin Tablets /\ None \notin Codes
ASSUME RequestAssumption == MaxRequests \in Nat
ASSUME LossAssumption == Losses \subseteq {"stalled", "closed", "dead"}

VARIABLES pc,        \* where the GUI thread is, or how the program ended
          idx,       \* the loop index i of the function pc is in
          slot,      \* memory of connectedTablets
          size, cap, \* its size() and capacity()
          running,   \* runningTransactions: a sequence of addresses
          victim,    \* the slot an erase() is working on
          ret,       \* where killSocket/killAllSockets returns to
          job,       \* the shared states of the std::futures
          link, req, sent, \* external: each tablet's connection and its request
          closes,    \* how often closesocket was called on each socket
          disturbed, \* an element moved or died under a live transaction
          mixed      \* a transaction touched another tablet's socket or object

mainVars == <<pc, idx, victim, ret>>
memVars  == <<slot, size, cap, running>>
envVars  == <<link, req, sent>>
vars == <<mainVars, memVars, job, envVars, closes, disturbed, mixed>>

N == Cardinality(Tablets)
Slots == 1 .. N
Jobs  == 1 .. (N + 1)    \* one per element, one more while an old one is joined
Faults == {"bad_optional_access", "exception", "no_state", "freed_memory"}
Phases == {"accept", "ready", "check", "poll", "running", "ui", "erase", "getAll"}
Stopped == pc \in Faults \cup {"ended"}

NewTab(t) == [sock |-> t, busy |-> FALSE, parent |-> 0,
              code |-> "none", fut |-> 0, ok |-> TRUE]
NoJob == [state |-> "free", owner |-> None, at |-> 0, seen |-> None,
          reads |-> FALSE, val |-> "none"]

Init ==
  /\ pc = "accept" /\ idx = 1 /\ victim = 0 /\ ret = "accept"
  /\ slot = [s \in Slots |-> NewTab(None)] /\ size = 0 /\ cap = 0 /\ running = <<>>
  /\ job = [j \in Jobs |-> NoJob]
  /\ link = [t \in Tablets |-> "off"]
  /\ req  = [t \in Tablets |-> None]
  /\ sent = 0
  /\ closes = [t \in Tablets |-> 0]
  /\ disturbed = FALSE /\ mixed = FALSE

-----------------------------------------------------------------------------
(* Helpers *)

Live(j) == j # 0 /\ job[j].state \in {"started", "working", "failing"}
LiveJobs == {j \in Jobs : Live(j)}
Orphan(j) == Live(j) /\ \A s \in 1 .. size : slot[s].fut # j
Joined == ~\E j \in Jobs : Orphan(j)
Dangling(a) == a \notin 1 .. size
InList == {slot[s].sock : s \in 1 .. size}

\* readyToRead: data, or a graceful close, is waiting; never after the other
\* side vanished or after our own closesocket.
ReadyToRead(t) ==
  /\ closes[t] = 0
  /\ \/ link[t] \in {"up", "stalled"} /\ req[t] # None
     \/ link[t] = "closed"
\* readyToWrite: false while the peer does not drain a full send buffer.
ReadyToWrite(t) == link[t] # "stalled"

\* The socket a worker of job j reads through its `this`.
SocketOf(j) == IF job[j].at = 0 THEN job[j].seen ELSE slot[job[j].at].sock

\* How a transaction on t's socket may come out: its last byte arrives, it gives
\* up (15 s without data, a closed or broken connection), or the name of a
\* socket error is looked up and that lookup throws (ErrorTexts).
Usable(t) == closes[t] = 0 /\ link[t] \in {"up", "closed"}
Broken(t) == closes[t] > 0 \/ link[t] = "dead"
Outcomes(t) == {v \in {"good", "failed", "thrown"} :
                  (v = "good" => Usable(t)) /\ (v = "thrown" => Broken(t))}

IsReady(j) == job[j].state \in {"done", "deferred"}
Release(j) == [job EXCEPT ![j] = NoJob]
KeepKth(q, k) == q
RemoveKth(q, k) == SubSeq(q, 1, k - 1) \o SubSeq(q, k + 1, Len(q))

\* Removing the element in slot s disturbs what points at it or past it.
Disturbs(s) == \/ \E k \in DOMAIN running : running[k] = 0 \/ running[k] >= s
               \/ \E j \in LiveJobs : job[j].at = 0 \/ job[j].at >= s

-----------------------------------------------------------------------------
(* acceptConn: at most one connection a frame; a push_back on a full buffer
   frees it, and every address into it. *)

NoConnection ==
  /\ pc = "accept"
  /\ pc' = "ready" /\ idx' = 1
  /\ UNCHANGED <<victim, ret, memVars, job, envVars, closes, disturbed, mixed>>

AcceptConn(t) ==
  LET grows == size = cap IN
  /\ pc = "accept" /\ link[t] = "off"
  /\ link' = [link EXCEPT ![t] = "up"]
  /\ size' = size + 1
  /\ cap'  = IF ~grows THEN cap ELSE IF cap = 0 THEN 1 ELSE 2 * cap
  /\ slot' = [s \in Slots |-> IF s = size + 1 THEN NewTab(t)
                              ELSE IF grows THEN [slot[s] EXCEPT !.parent = 0]
                              ELSE slot[s]]
  /\ running' = IF grows THEN [k \in DOMAIN running |-> 0] ELSE running
  /\ job' = IF grows
            THEN [j \in Jobs |-> IF Live(j)
                                 THEN [job[j] EXCEPT !.at = 0, !.seen = SocketOf(j)]
                                 ELSE job[j]]
            ELSE job
  /\ disturbed' = (disturbed \/ (grows /\ (running # <<>> \/ LiveJobs # {})))
  /\ pc' = "ready" /\ idx' = 1
  /\ UNCHANGED <<victim, ret, req, sent, closes, mixed>>

-----------------------------------------------------------------------------
(* handleReadyConnections, one tablet a step *)

SkipTablet ==
  /\ pc = "ready" /\ idx <= size
  /\ ~ReadyToRead(slot[idx].sock) \/ slot[idx].busy
  /\ idx' = idx + 1
  /\ UNCHANGED <<pc, victim, ret, memVars, job, envVars, closes, disturbed, mixed>>

EndReady ==
  /\ pc = "ready" /\ idx > size
  /\ pc' = "running" /\ idx' = 1
  /\ UNCHANGED <<victim, ret, memVars, job, envVars, closes, disturbed, mixed>>

\* readTransactionData: the code byte, if the socket can be used at all.
TransactionCode(t) ==
  IF ~ReadyToWrite(t) THEN "close" ELSE IF req[t] # None THEN req[t] ELSE "error"

ReadTransactionDataEvenIfBusy(t) ==
  /\ pc = "ready" /\ idx <= size /\ t = slot[idx].sock /\ ReadyToRead(t)
  /\ req' = IF ReadyToWrite(t) THEN [req EXCEPT ![t] = None] ELSE req
  /\ pc' = "check"
ReadTransactionData(t) ==
  /\ pc = "ready" /\ idx <= size /\ t = slot[idx].sock
  /\ ReadyToRead(t) /\ ~slot[idx].busy
  /\ req' = IF ReadyToWrite(t) THEN [req EXCEPT ![t] = None] ELSE req
  /\ pc' = "check"

\* initReadyTransaction, error cases: the socket is closed here ...
RefuseTransaction(t) ==
  /\ ReadTransactionData(t) /\ TransactionCode(t) \in Refusals
  /\ slot' = [slot EXCEPT ![idx].parent = idx, ![idx].code = TransactionCode(t),
                          ![idx].ok = FALSE]
  /\ closes' = [closes EXCEPT ![t] = @ + 1]
  /\ UNCHANGED <<idx, victim, ret, size, cap, running, job, link, sent,
                 disturbed, mixed>>

FreeJobs == {j \in Jobs : job[j] = NoJob /\ \A i \in 1 .. j - 1 : job[i] # NoJob}
NewJob(t, c, policy) ==
  [state |-> IF policy = "async" THEN "started" ELSE "deferred",
   owner |-> t, at |-> idx, seen |-> t, reads |-> c \in Reads, val |-> "none"]

NeverResetsSuccess(c) == FALSE
ResetsSuccess(c) == c \in Reads

\* ... read and write cases: std::async starts a worker on this very element;
\* currTrans.data then drops the previous shared state, joining its worker: the
\* GUI thread goes on when no worker is left without an element (Joined).
\* A read resets success, a write leaves that to the worker.
StartTransaction(t) ==
  LET c == TransactionCode(t)
      old == slot[idx].fut IN
  /\ ReadTransactionData(t) /\ c \in Reads \cup {"send"}
  /\ \E j \in FreeJobs, policy \in Launches :
       /\ job' = [i \in Jobs |->
                    IF i = j THEN NewJob(t, c, policy)
                    ELSE IF i = old /\ ~Live(old) THEN NoJob ELSE job[i]]
       /\ slot' = [slot EXCEPT ![idx].parent = idx, ![idx].code = c, ![idx].fut = j,
                               ![idx].ok = ResetsSuccess(c) \/ slot[idx].ok]
  /\ UNCHANGED <<idx, victim, ret, size, cap, running, link, sent, closes, disturbed, mixed>>

\* handleWriteTransactions has no case for the code: data is left as it was.
StartUnknownSend(t) ==
  /\ ReadTransactionData(t) /\ TransactionCode(t) = "otherSend"
  /\ slot' = [slot EXCEPT ![idx].parent = idx, ![idx].code = "otherSend"]
  /\ UNCHANGED <<idx, victim, ret, size, cap, running, job, link, sent,
                 closes, disturbed, mixed>>

-----------------------------------------------------------------------------
(* killSocket: closesocket, then vector::erase.  erase move-assigns the
   elements behind the hole member by member; the socket of slot s is already
   the next tablet's when the move of currTrans.data joins the dead tablet's
   worker, which still runs on slot s. *)

EraseWithoutClosing(s, from) ==
  /\ slot' = IF s < size THEN [slot EXCEPT ![s].sock = slot[s + 1].sock] ELSE slot
  /\ disturbed' = (disturbed \/ Disturbs(s))
  /\ victim' = s /\ ret' = from /\ pc' = "erase" /\ UNCHANGED closes
KillSocket(s, from) ==
  /\ closes' = [closes EXCEPT ![slot[s].sock] = @ + 1]
  /\ slot' = IF s < size THEN [slot EXCEPT ![s].sock = slot[s + 1].sock] ELSE slot
  /\ disturbed' = (disturbed \/ Disturbs(s))
  /\ victim' = s /\ ret' = from /\ pc' = "erase"

Erase ==
  LET f == slot[victim].fut IN
  /\ pc = "erase" /\ ~Live(f)
  /\ slot' = [s \in Slots |-> IF s \in victim .. size - 1 THEN slot[s + 1]
                              ELSE IF s = size THEN NewTab(slot[s].sock)  \* destroyed
                              ELSE slot[s]]
  /\ job' = IF f = 0 THEN job ELSE Release(f)
  /\ size' = size - 1
  /\ pc' = ret /\ victim' = 0
  /\ idx' = IF ret = "ready" THEN idx + 1 ELSE idx
  /\ UNCHANGED <<ret, cap, running, envVars, closes, disturbed, mixed>>

-----------------------------------------------------------------------------
(* handleTransResult for the transaction in slot s.  A write is not looked
   at.  A match or a match list takes data.get().value() before success is
   looked at, tablet info checks both; get() throws again what the worker
   threw.  A deferred read runs inside get().
   done: the slots whose transactionState is cleared afterwards. *)

StaysBusy(was, x, done) == was
StillBusy(was, x, done) == was /\ x \notin done      \* setTransactionState(false)
HandleTransResult(s, done, next) ==
  LET o == slot[s]
      takes == o.code \in TakenReads
      deferred == job[o.fut].state = "deferred" IN
  \E v \in IF deferred THEN Outcomes(o.sock) ELSE {job[o.fut].val} :
       IF takes /\ (v = "thrown" \/ (v = "failed" /\ o.code # "info"))
       THEN /\ pc' = IF v = "thrown" THEN "exception" ELSE "bad_optional_access"
            /\ UNCHANGED <<slot, job, mixed>>
       ELSE /\ pc' = next
            /\ slot' = [x \in Slots |->
                 [slot[x] EXCEPT !.busy = StillBusy(@, x, done),
                                 !.fut = IF takes /\ x = s THEN 0 ELSE @,
                                 !.ok  = IF takes /\ deferred /\ x = s THEN v = "good" ELSE @]]
            /\ job' = IF takes THEN Release(o.fut) ELSE job
            /\ mixed' = (mixed \/ (takes /\ v = "good" /\
                                    (\/ Dangling(o.parent)
                                     \/ slot[o.parent].sock # job[o.fut].owner)))

(* handleReadyConnections after initReadyTransaction *)

CheckKill ==
  /\ pc = "check" /\ Joined
  /\ slot[idx].code \in Refusals \/ ~slot[idx].ok
  /\ \E s \in 1 .. idx :                          \* the first with that socket
       /\ slot[s].sock = slot[idx].sock
       /\ \A r \in 1 .. s - 1 : slot[r].sock # slot[idx].sock
       /\ KillSocket(s, "ready")
  /\ UNCHANGED <<idx, size, cap, running, job, envVars, mixed>>

\* A kill above may hit a worker which has cleared success and is still on the
\* socket; here it may still fail between this look at success and isReady().
CheckAlive ==
  /\ pc = "check" /\ Joined
  /\ slot[idx].code \notin Refusals /\ slot[idx].ok
  /\ pc' = "poll"
  /\ UNCHANGED <<idx, victim, ret, memVars, job, envVars, closes, disturbed, mixed>>

\* isReady() on a future without a shared state throws.
CheckNoState ==
  /\ pc = "poll" /\ slot[idx].fut = 0
  /\ pc' = "no_state"
  /\ UNCHANGED <<idx, victim, ret, memVars, job, envVars, closes, disturbed, mixed>>

CheckReady ==
  /\ pc = "poll" /\ slot[idx].fut # 0 /\ IsReady(slot[idx].fut)
  /\ HandleTransResult(idx, {}, "ready")
  /\ idx' = idx + 1
  /\ UNCHANGED <<victim, ret, size, cap, running, envVars, closes, disturbed>>

AddressOfNext == idx + 1
RunningAddress == idx          \* of currTrans in the element just started
CheckRunning ==
  /\ pc = "poll" /\ Live(slot[idx].fut)
  /\ running' = Append(running, RunningAddress)
  /\ slot' = [slot EXCEPT ![slot[idx].parent].busy = TRUE]
  /\ pc' = "ready" /\ idx' = idx + 1
  /\ UNCHANGED <<victim, ret, size, cap, job, envVars, closes, disturbed, mixed>>

-----------------------------------------------------------------------------
(* handleRunningTransactions.  Reading a transaction through a freed address
   finds an invalid future or faults. *)

EndRunning ==
  /\ pc = "running" /\ idx > Len(running)
  /\ pc' = "ui" /\ idx' = 1
  /\ UNCHANGED <<victim, ret, memVars, job, envVars, closes, disturbed, mixed>>

Invalid(a) == a \notin {s \in 1 .. size : slot[s].fut # 0}

DropInvalid ==
  /\ pc = "running" /\ idx <= Len(running) /\ Invalid(running[idx])
  /\ running' = RemoveKth(running, idx)
  /\ idx' = 1                                    \* the recursive call
  /\ UNCHANGED <<pc, victim, ret, slot, size, cap, job, envVars, closes,
                 disturbed, mixed>>

FreedAccess ==
  /\ pc = "running" /\ idx <= Len(running)
  /\ \/ Dangling(running[idx])
     \/ /\ ~Invalid(running[idx]) /\ IsReady(slot[running[idx]].fut)
        /\ Dangling(slot[running[idx]].parent)
  /\ pc' = "freed_memory"
  /\ UNCHANGED <<idx, victim, ret, memVars, job, envVars, closes, disturbed, mixed>>

StillRunning ==
  /\ pc = "running" /\ idx <= Len(running) /\ ~Invalid(running[idx])
  /\ ~IsReady(slot[running[idx]].fut)
  /\ idx' = idx + 1
  /\ UNCHANGED <<pc, victim, ret, memVars, job, envVars, closes, disturbed, mixed>>

FinishTransaction ==
  /\ pc = "running" /\ idx <= Len(running) /\ ~Invalid(running[idx])
  /\ IsReady(slot[running[idx]].fut)
  /\ HandleTransResult(running[idx], {slot[running[idx]].parent}, "running")
  /\ running' = RemoveKth(running, idx)
  /\ idx' = idx + 1
  /\ UNCHANGED <<victim, ret, size, cap, envVars, closes, disturbed>>

-----------------------------------------------------------------------------
(* The rest of the frame: the kill buttons of getNameList, the disconnect
   button, closing the window. *)

EndFrame ==
  /\ pc = "ui"
  /\ pc' = "accept" /\ idx' = 1
  /\ UNCHANGED <<victim, ret, memVars, job, envVars, closes, disturbed, mixed>>

KillButton(s) ==
  /\ pc = "ui" /\ s <= size
  /\ KillSocket(s, "ui")
  /\ UNCHANGED <<idx, size, cap, running, job, envVars, mixed>>

\* killAllSockets: close every socket, wait for every running transaction,
\* clear both lists (joining what the futures still refer to).
KillAllSockets(next) ==
  /\ pc = "ui"
  /\ closes' = [t \in Tablets |-> IF t \in InList THEN closes[t] + 1 ELSE closes[t]]
  /\ ret' = next /\ pc' = "getAll" /\ idx' = 1
  /\ UNCHANGED <<victim, memVars, job, envVars, disturbed, mixed>>

GetRunning ==
  /\ pc = "getAll" /\ idx <= Len(running)
  /\ LET a == running[idx] IN
     IF Invalid(a)
     THEN pc' = "no_state" /\ UNCHANGED <<slot, job, idx>>
     ELSE /\ IsReady(slot[a].fut)
          /\ \/ /\ job[slot[a].fut].state = "deferred" \/ job[slot[a].fut].val = "thrown"
                /\ pc' = "exception" /\ UNCHANGED <<slot, job, idx>>
             \/ /\ job[slot[a].fut].val # "thrown" /\ UNCHANGED pc
                /\ slot' = [slot EXCEPT ![a].fut = 0]
                /\ job' = Release(slot[a].fut)
                /\ idx' = idx + 1
  /\ UNCHANGED <<victim, ret, size, cap, running, envVars, closes, disturbed, mixed>>

ClearAll ==
  /\ pc = "getAll" /\ idx > Len(running)
  /\ \A s \in 1 .. size : ~Live(slot[s].fut)
  /\ running' = <<>> /\ size' = 0
  /\ slot' = [s \in Slots |-> [slot[s] EXCEPT !.fut = 0]]
  /\ job' = [j \in Jobs |-> NoJob]
  /\ pc' = ret /\ idx' = 1
  /\ disturbed' = FALSE /\ mixed' = FALSE
  /\ UNCHANGED <<victim, ret, cap, envVars, closes>>

-----------------------------------------------------------------------------
(* A worker: internalRead or internalWrite on its element's socket.  It sets
   success first, and a read again before each part it waits for; a failure
   clears success and only then, after the NCK a failed read sends, the worker
   returns and the future becomes ready. *)

Touches(j) == mixed' = (mixed \/ SocketOf(j) # job[j].owner)
ForgetOk(a, v) == UNCHANGED slot
SetOk(a, v) == slot' = IF Dangling(a) THEN slot ELSE [slot EXCEPT ![a].ok = v]

WorkerBegin(j) ==
  /\ ~Stopped /\ job[j].state = "started"
  /\ job' = [job EXCEPT ![j].state = "working"]
  /\ SetOk(job[j].at, TRUE)
  /\ Touches(j)
  /\ UNCHANGED <<mainVars, size, cap, running, envVars, closes, disturbed>>

\* readAllSocketData sets success once more before the message itself.
WorkerReads(j) ==
  /\ ~Stopped /\ job[j].state = "working" /\ job[j].reads
  /\ SetOk(job[j].at, TRUE)
  /\ Touches(j)
  /\ UNCHANGED <<mainVars, size, cap, running, job, envVars, closes, disturbed>>

\* The future becomes ready; a worker without an element is forgotten.
Returned(j, v) ==
  IF Orphan(j) THEN Release(j) ELSE [job EXCEPT ![j].state = "done", ![j].val = v]

WorkerDone(j) ==
  /\ ~Stopped /\ job[j].state = "working" /\ Usable(SocketOf(j))
  /\ job' = Returned(j, "good")
  /\ Touches(j)
  /\ UNCHANGED <<mainVars, slot, size, cap, running, envVars, closes, disturbed>>

\* success is cleared, the worker is still on the socket ...
WorkerFail(j) ==
  /\ ~Stopped /\ job[j].state = "working"
  /\ job' = [job EXCEPT ![j].state = "failing"]
  /\ SetOk(job[j].at, FALSE)
  /\ Touches(j)
  /\ UNCHANGED <<mainVars, size, cap, running, envVars, closes, disturbed>>

\* ... where a read sends its NCK and may clear success again; a read whose ACK
\* was refused, and a write, just return.
WorkerEnd(j) ==
  /\ ~Stopped /\ job[j].state = "failing"
  /\ job' = Returned(j, "failed")
  /\ \/ /\ job[j].reads /\ Touches(j)
        /\ UNCHANGED slot \/ SetOk(job[j].at, FALSE)
     \/ UNCHANGED <<slot, mixed>>
  /\ UNCHANGED <<mainVars, size, cap, running, envVars, closes, disturbed>>

\* WinsockErrorDesc::get throws before success is cleared: the future holds an
\* exception and success stays as it was.
WorkerThrow(j) ==
  /\ ~Stopped /\ job[j].state = "working" /\ Broken(SocketOf(j))
  /\ job' = Returned(j, "thrown")
  /\ Touches(j)
  /\ UNCHANGED <<mainVars, slot, size, cap, running, envVars, closes, disturbed>>

WorkerFault(j) ==
  /\ ~Stopped /\ Live(j) /\ Dangling(job[j].at)
  /\ pc' = "freed_memory"
  /\ UNCHANGED <<idx, victim, ret, memVars, job, envVars, closes, disturbed, mixed>>

(* External: the tablets.  What a tablet sends at any time, the rest of a
   transaction included, is a request to whoever reads a code from its socket;
   it may stop draining the socket, close it, or vanish. *)

Request(t, c) ==
  /\ ~Stopped /\ link[t] \in {"up", "stalled"} /\ req[t] = None /\ sent < MaxRequests
  /\ req' = [req EXCEPT ![t] = c] /\ sent' = sent + 1
  /\ UNCHANGED <<mainVars, memVars, job, link, closes, disturbed, mixed>>

TabletLink(t, from, to) ==
  /\ ~Stopped /\ link[t] \in from
  /\ link' = [link EXCEPT ![t] = to]
  /\ req' = IF to = "dead" THEN [req EXCEPT ![t] = None] ELSE req
  /\ UNCHANGED <<mainVars, memVars, job, sent, closes, disturbed, mixed>>

Tablet(t) ==
  /\ closes[t] = 0
  /\ \/ \E c \in Codes : Request(t, c)
     \/ \E l \in Losses : TabletLink(t, {"up"}, l)
     \/ TabletLink(t, {"stalled"}, "up")

-----------------------------------------------------------------------------
Accepting == NoConnection \/ \E t \in Tablets : AcceptConn(t)
Beginning == \/ SkipTablet \/ EndReady
             \/ \E t \in Tablets : \/ RefuseTransaction(t)
                                   \/ StartTransaction(t)
                                   \/ StartUnknownSend(t)
Checking  == \/ CheckKill \/ CheckAlive
             \/ CheckNoState \/ CheckReady \/ CheckRunning
Finishing == EndRunning \/ DropInvalid \/ FreedAccess \/ StillRunning \/ FinishTransaction
Killing   == Erase \/ GetRunning \/ ClearAll
User      == \/ \E s \in Slots : KillButton(s)
             \/ KillAllSockets("accept") \/ KillAllSockets("ended")

Main == Accepting \/ Beginning \/ Checking \/ Finishing \/ Killing \/ EndFrame
WorkerAnswers(j) == WorkerDone(j) \/ WorkerFail(j) \/ WorkerEnd(j) \/ WorkerThrow(j)
Worker(j) == WorkerBegin(j) \/ WorkerReads(j) \/ WorkerAnswers(j) \/ WorkerFault(j)
Halted == Stopped /\ UNCHANGED vars

Next == Main \/ User \/ Halted
        \/ (\E j \in Jobs : Worker(j)) \/ (\E t \in Tablets : Tablet(t))
Spec == Init /\ [][Next]_vars

\* A worker ends: reads give up after 15 s without data.  The send loop has no
\* timeout, so nothing is promised while the peer leaves the buffer full.
WorkerProgress(j) ==
  \/ WorkerBegin(j)
  \/ /\ job[j].state \in {"working", "failing"}
     /\ link[SocketOf(j)] # "stalled" \/ closes[SocketOf(j)] > 0
     /\ WorkerAnswers(j)
Fairness == WF_vars(Main) /\ \A j \in Jobs : WF_vars(WorkerProgress(j))
FairSpec == Spec /\ Fairness

-----------------------------------------------------------------------------
(* Properties *)

Elements == [sock : Tablets \cup {None}, busy : BOOLEAN, parent : 0 .. N,
             code : {"none"} \cup Reads \cup Sends \cup Refusals,
             fut : {0} \cup Jobs, ok : BOOLEAN]
SharedStates == [state : {"free", "deferred", "started", "working", "failing", "done"},
                 owner : Tablets \cup {None}, at : 0 .. N,
                 seen : Tablets \cup {None}, reads : BOOLEAN,
                 val : {"none", "good", "failed", "thrown"}]

TypeOK ==
  /\ pc \in Phases \cup Faults \cup {"ended"}
  /\ idx \in Nat \ {0} /\ victim \in 0 .. N /\ ret \in {"ready", "ui", "accept", "ended"}
  /\ slot \in [Slots -> Elements]
  /\ size \in 0 .. N /\ cap \in Nat /\ running \in Seq(0 .. N)
  /\ job \in [Jobs -> SharedStates]
  /\ link \in [Tablets -> {"off", "up", "stalled", "closed", "dead"}]
  /\ req \in [Tablets -> Codes \cup {None}]
  /\ sent \in 0 .. MaxRequests
  /\ closes \in [Tablets -> Nat]
  /\ disturbed \in BOOLEAN /\ mixed \in BOOLEAN

\* Between frames the sockets the program holds open are exactly those of
\* connectedTablets, each listed once: nothing leaks and nothing dead is
\* listed, whatever was erased under whichever transaction.
OpenIsListed ==
  pc \in {"accept", "ui", "ended"} =>
    /\ InList = {t \in Tablets : link[t] # "off" /\ closes[t] = 0}
    /\ \A r, s \in 1 .. size : slot[r].sock = slot[s].sock => r = s

\* Until an element moves under a live transaction, runningTransactions holds
\* exactly the elements marked transactionState, each once, each with its own
\* parent address and a result to wait for.
RunningMatchesBusy ==
  ~disturbed /\ pc \in Phases \ {"getAll"} =>
    /\ \A k \in DOMAIN running :
         /\ ~Dangling(running[k]) /\ slot[running[k]].fut # 0
         /\ slot[running[k]].parent = running[k]
    /\ \A k, l \in DOMAIN running : running[k] = running[l] => k = l
    /\ {running[k] : k \in DOMAIN running} = {s \in 1 .. size : slot[s].busy}

\* Until then a socket is used by one worker, its own, and by the GUI thread
\* only when that worker has ended; no result reaches another tablet.
OneWorkerPerSocket ==
  ~disturbed =>
    /\ ~mixed
    /\ \A j \in LiveJobs : /\ SocketOf(j) = job[j].owner
                           /\ ~Dangling(job[j].at) /\ slot[job[j].at].fut = j
                           /\ \/ slot[job[j].at].busy
                              \/ pc \in {"check", "poll"} /\ idx = job[j].at

\* Until then, whenever a finished read can be taken, success is cleared exactly
\* if the worker gave up, so that no value that arrived is dropped and no failure
\* passes for a value; a worker that threw leaves success set and no value.
FlagAgreesWithResult ==
  ~disturbed =>
    \A s \in 1 .. size :
      slot[s].code \in TakenReads /\ slot[s].fut # 0 /\ job[slot[s].fut].state = "done" =>
        \/ slot[s].ok <=> job[slot[s].fut].val # "failed"
        \/ pc = "erase" /\ victim = s

\* A tablet whose read has just been started is killed by the ready loop only
\* because that very read, on this very socket, has given up: an earlier failure
\* does not linger in success.  The worker may still be sending its NCK.
ReadKilledOnItsOwnFailure ==
  pc = "check" /\ ~disturbed /\ slot[idx].code \in Reads /\ ~slot[idx].ok =>
    LET j == slot[idx].fut IN
    /\ job[j].owner = slot[idx].sock /\ job[j].reads
    /\ job[j].state = "failing" \/ (job[j].state = "done" /\ job[j].val = "failed")

\* Until then the program meets no freed memory; it ends by an invalid future
\* only through an unknown send code, by an empty optional only if the read of
\* a match or a match list failed, by an exception only if a worker threw.  A
\* deferred read fails, or throws, inside get().
Taken(s, v) == slot[s].fut # 0 /\ (\/ job[slot[s].fut].state = "deferred"
                                   \/ job[slot[s].fut].val = v)
FaultCauses ==
  ~disturbed =>
    /\ pc # "freed_memory"
    /\ pc = "no_state" => slot[idx].code = "otherSend"
    /\ pc = "bad_optional_access" =>
         \E s \in 1 .. size : slot[s].code \in {"match", "matchList"} /\ Taken(s, "failed")
    /\ pc = "exception" => \E s \in 1 .. size : Taken(s, "thrown")

\* The bookkeeping implements the promise of TabletPool.
TabletState(t) ==
  IF t \notin InList THEN IF link[t] = "off" THEN "absent" ELSE "gone"
  ELSE IF \E j \in LiveJobs : job[j].owner = t THEN "working"
  ELSE IF \E s \in 1 .. size : slot[s].sock = t /\ (slot[s].busy \/ (pc \in {"check", "poll"} /\ idx = s))
       THEN "answered" ELSE "idle"
Pool == INSTANCE TabletPool WITH state <- [t \in Tablets |-> TabletState(t)],
                                 intact <- ~disturbed
PoolPromise == Pool!PoolSpec

\* "should only ever be called once" (btTabObj.hpp:434).
SocketClosedOnce == \A t \in Tablets : closes[t] <= 1

\* success "will also need to be checked after data is gotten"
\* (btTabObj.hpp:277): a failed transfer is told by a flag.
FailedReadIsHandled == pc # "bad_optional_access"

\* No tablet leaves a send loop blocked for good.
NoneStalls == \A t \in Tablets : <>[](link[t] # "stalled" \/ closes[t] > 0)

\* The GUI thread never waits for ever: every frame ends, though closing a
\* tablet joins its worker.
FrameEnds == NoneStalls => []<>(pc = "accept" \/ Stopped)

\* A request of a listed tablet is looked at in the end, unless the tablet
\* vanished, it was removed, or an element moved under a live transaction.
RequestSeen ==
  NoneStalls =>
    \A t \in Tablets :
      req[t] # None ~> (req[t] = None \/ closes[t] > 0 \/ disturbed \/ Stopped)
=============================================================================
