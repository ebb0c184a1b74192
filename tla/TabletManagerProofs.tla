------------------------- MODULE TabletManagerProofs -------------------------
(* Proofs about TabletManager, for any number of connections. *)
EXTENDS TabletManager, FiniteSetTheorems, SequenceTheorems, TLAPS

-----------------------------------------------------------------------------
(* The inductive invariant, in parts *)

\* The loops stand at an element, and erase() works on one.
PositionInv ==
  /\ pc \in {"check", "poll"} => idx \in 1 .. size
  /\ pc = "erase" => victim \in 1 .. size /\ ret \in {"ready", "ui"}
  /\ pc = "getAll" => ret \in {"accept", "ended"}

\* The slots that hold a tablet: while erase() works, not the victim's, whose
\* socket is already its neighbour's.
Occupied == IF pc = "erase" THEN 1 .. size \ {victim} ELSE 1 .. size
Open == {t \in Tablets : link[t] # "off" /\ closes[t] = 0}
Refused == pc = "check" /\ slot[idx].code \in Refusals

\* No tablet is listed twice.
DistinctInv == \A r, s \in Occupied : slot[r].sock = slot[s].sock => r = s

\* What is listed is open, but for a socket initReadyTransaction has closed.
OpenInv ==
  /\ pc # "getAll" /\ ~Refused => {slot[s].sock : s \in Occupied} = Open
  /\ Refused => /\ {slot[s].sock : s \in Occupied} = Open \cup {slot[idx].sock}
                /\ slot[idx].sock \notin Open
  /\ pc = "getAll" => Open = {}

\* What is listed was connected, and only what was connected is closed.
LinkedInv ==
  /\ \A s \in Occupied : slot[s].sock \in Tablets /\ link[slot[s].sock] # "off"
  /\ \A t \in Tablets : link[t] = "off" => closes[t] = 0

ListInv == pc \notin Faults => PositionInv /\ DistinctInv /\ OpenInv /\ LinkedInv
Inv == TypeOK /\ ListInv

-----------------------------------------------------------------------------
(* Facts about the constants and the helpers *)

\* The number of connections is a number.
LEMMA CountType == N \in Nat
  BY TabletAssumption, FS_CardinalityType DEF N

\* A vector of different tablets, without one of them, has room for it.
LEMMA RoomForOne ==
  ASSUME NEW t \in Tablets, NEW n \in 0 .. N, NEW f \in [1 .. n -> Tablets \ {t}],
         \A r, s \in 1 .. n : f[r] = f[s] => r = s
  PROVE  n < N
<1>1. IsFiniteSet(Tablets \ {t}) /\ Cardinality(Tablets \ {t}) = N - 1
  BY TabletAssumption, FS_RemoveElement DEF N
<1>2. IsFiniteSet(1 .. n) /\ Cardinality(1 .. n) = n
  BY CountType, FS_Interval
<1>3. ~(N - 1 < n)
  <2> SUFFICES ASSUME N - 1 < n PROVE FALSE
    OBVIOUS
  <2> QED
    BY <1>1, <1>2, FS_PigeonHole
<1> QED
  BY <1>3, CountType

\* Removing an entry of runningTransactions keeps its type.
LEMMA RemoveKthType ==
  ASSUME NEW S, NEW q \in Seq(S), NEW k \in 1 .. Len(q)
  PROVE  RemoveKth(q, k) \in Seq(S)
  BY DEF RemoveKth

\* The element push_back and erase() leave behind, and the one std::async makes.
LEMMA NewTabType == \A t \in Tablets \cup {None} : NewTab(t) \in Elements
  BY CountType DEF NewTab, Elements

\* A shared state nobody refers to.
LEMMA NoJobType == NoJob \in SharedStates
  BY CountType DEF NoJob, SharedStates

\* Dropping the last reference to a shared state keeps the type of the others.
LEMMA ReleaseType ==
  ASSUME TypeOK, NEW j \in Jobs
  PROVE  Release(j) \in [Jobs -> SharedStates]
  BY NoJobType DEF Release, TypeOK

\* Lowering a flag, or dropping a handle, keeps the type.
LEMMA FieldTypes ==
  ASSUME TypeOK, NEW a, NEW b \in BOOLEAN
  PROVE  /\ [slot EXCEPT ![a].busy = b] \in [Slots -> Elements]
         /\ [slot EXCEPT ![a].ok = b] \in [Slots -> Elements]
         /\ [slot EXCEPT ![a].fut = 0] \in [Slots -> Elements]
<1>1. slot \in [Slots -> Elements]
  BY DEF TypeOK
<1>2. [slot EXCEPT ![a].busy = b] \in [Slots -> Elements]
  BY <1>1 DEF Elements
<1>3. [slot EXCEPT ![a].ok = b] \in [Slots -> Elements]
  BY <1>1 DEF Elements
<1>4. [slot EXCEPT ![a].fut = 0] \in [Slots -> Elements]
  BY <1>1 DEF Elements
<1> QED
  BY <1>2, <1>3, <1>4

\* What the start of a transaction writes into an element.
Started(i, p, c, f, b) ==
  [slot EXCEPT ![i].parent = p, ![i].code = c, ![i].fut = f, ![i].ok = b]

\* It keeps the type, as do the refusals and the send nobody starts.
LEMMA StartTypes ==
  ASSUME TypeOK, NEW i \in Slots, NEW p \in 0 .. N, NEW c \in Reads \cup Sends \cup Refusals,
         NEW b \in BOOLEAN
  PROVE  /\ [slot EXCEPT ![i].parent = p, ![i].code = c] \in [Slots -> Elements]
         /\ [slot EXCEPT ![i].parent = p, ![i].code = c, ![i].ok = b] \in [Slots -> Elements]
         /\ \A f \in Jobs : Started(i, p, c, f, b) \in [Slots -> Elements]
<1>0. slot \in [Slots -> Elements]
  BY DEF TypeOK
<1> DEFINE e == [slot[i] EXCEPT !.parent = p, !.code = c]
           d == [e EXCEPT !.ok = b]
           g(f) == [[e EXCEPT !.fut = f] EXCEPT !.ok = b]
<1>1. slot[i] \in Elements
  BY <1>0
<1>2. e \in Elements
  BY <1>1 DEF Elements
<1>3. d \in Elements
  <2> HIDE DEF e
  <2> QED
    BY <1>2 DEF Elements
<1>4. \A f \in Jobs : g(f) \in Elements
  <2> HIDE DEF e
  <2> QED
    BY <1>2 DEF Elements
<1>5. \A h \in Elements : [slot EXCEPT ![i] = h] \in [Slots -> Elements]
  BY <1>0
<1>6. [slot EXCEPT ![i].parent = p, ![i].code = c] = [slot EXCEPT ![i] = e]
  BY <1>0
<1>7. [slot EXCEPT ![i].parent = p, ![i].code = c, ![i].ok = b] = [slot EXCEPT ![i] = d]
  BY <1>0
<1>8. \A f \in Jobs : Started(i, p, c, f, b) = [slot EXCEPT ![i] = g(f)]
  BY <1>0 DEF Started
<1> HIDE DEF e, d, g
<1> QED
  BY <1>2, <1>3, <1>4, <1>5, <1>6, <1>7, <1>8

-----------------------------------------------------------------------------
(* Types *)

\* The actions that move the GUI thread, or nothing at all.
LEMMA TypeQuiet ==
  ASSUME TypeOK,
         \/ NoConnection \/ SkipTablet \/ EndReady \/ CheckAlive \/ CheckNoState
         \/ EndRunning \/ FreedAccess \/ StillRunning \/ EndFrame \/ UNCHANGED vars
         \/ \E j \in Jobs : WorkerFault(j)
  PROVE  TypeOK'
<1>1. UNCHANGED <<victim, ret, memVars, job, envVars, closes, disturbed, mixed>>
  BY DEF NoConnection, SkipTablet, EndReady, CheckAlive, CheckNoState, EndRunning,
         FreedAccess, StillRunning, EndFrame, vars, mainVars, WorkerFault
<1>2. pc' \in Phases \cup Faults \cup {"ended"}
  BY DEF TypeOK, Phases, Faults, NoConnection, SkipTablet, EndReady, CheckAlive,
         CheckNoState, EndRunning, FreedAccess, StillRunning, EndFrame, vars, mainVars,
         WorkerFault
<1>3. idx' \in Nat \ {0}
  BY DEF TypeOK, NoConnection, SkipTablet, EndReady, CheckAlive, CheckNoState,
         EndRunning, FreedAccess, StillRunning, EndFrame, vars, mainVars, WorkerFault
<1> QED
  BY <1>1, <1>2, <1>3 DEF TypeOK, memVars, envVars

\* Accepting a connection: there is room for it, since it is not listed yet.
LEMMA TypeAccept ==
  ASSUME Inv, NEW t \in Tablets, AcceptConn(t)
  PROVE  TypeOK'
<1>1. TypeOK /\ pc = "accept" /\ link[t] = "off" /\ size \in 0 .. N
  BY DEF Inv, AcceptConn, TypeOK
<1>2. size < N
  <2> DEFINE f == [s \in 1 .. size |-> slot[s].sock]
  <2>1. DistinctInv /\ LinkedInv /\ Occupied = 1 .. size
    BY <1>1 DEF Inv, ListInv, Faults, Occupied
  <2>2. f \in [1 .. size -> Tablets \ {t}]
    BY <1>1, <2>1 DEF LinkedInv
  <2>3. \A r, s \in 1 .. size : f[r] = f[s] => r = s
    BY <2>1 DEF DistinctInv
  <2> HIDE DEF f
  <2> QED
    BY <1>1, <2>2, <2>3, RoomForOne
<1>3. size' \in 0 .. N /\ cap' \in Nat
  <2>1. size' = size + 1 /\ cap' \in {cap, 1, 2 * cap}
    BY DEF AcceptConn
  <2>2. cap \in Nat
    BY <1>1 DEF TypeOK
  <2> QED
    BY <1>1, <1>2, <2>1, <2>2, CountType
<1>4. slot' \in [Slots -> Elements]
  <2>1. \A s \in Slots : slot[s] \in Elements /\ [slot[s] EXCEPT !.parent = 0] \in Elements
    <3>1. 0 \in 0 .. N /\ slot \in [Slots -> Elements]
      BY <1>1, CountType DEF TypeOK
    <3> QED
      BY <3>1 DEF Elements
  <2> QED
    BY <2>1, NewTabType DEF AcceptConn
<1>5. running' \in Seq(0 .. N)
  <2>1. running \in Seq(0 .. N) /\ 0 \in 0 .. N
    BY <1>1, CountType DEF TypeOK
  <2>2. running' \in {running, [k \in DOMAIN running |-> 0]}
    BY DEF AcceptConn
  <2>3. [k \in DOMAIN running |-> 0] \in Seq(0 .. N)
    <3>1. DOMAIN running = 1 .. Len(running) /\ Len(running) \in Nat
      BY <2>1
    <3>2. [k \in 1 .. Len(running) |-> 0] \in [1 .. Len(running) -> 0 .. N]
      BY <2>1
    <3> QED
      BY <3>1, <3>2, SeqDef
  <2> QED
    BY <2>1, <2>2, <2>3
<1>6. job' \in [Jobs -> SharedStates]
  <2>1. \A j \in Jobs : job[j] \in SharedStates
    BY <1>1 DEF TypeOK
  <2>2. \A j \in Jobs : SocketOf(j) \in Tablets \cup {None}
    BY <1>1, <2>1, CountType DEF SocketOf, SharedStates, Elements, TypeOK, Slots
  <2>3. \A j \in Jobs : [job[j] EXCEPT !.at = 0, !.seen = SocketOf(j)] \in SharedStates
    <3>1. 0 \in 0 .. N
      BY CountType
    <3> QED
      BY <2>1, <2>2, <3>1 DEF SharedStates
  <2> QED
    BY <1>1, <2>1, <2>3 DEF AcceptConn, TypeOK
<1>7. disturbed' \in BOOLEAN
  BY <1>1 DEF AcceptConn, TypeOK
<1>8. link' \in [Tablets -> {"off", "up", "stalled", "closed", "dead"}]
  BY <1>1 DEF AcceptConn, TypeOK
<1> QED
  <2>1. /\ pc' = "ready" /\ idx' = 1
        /\ UNCHANGED <<victim, ret, req, sent, closes, mixed>>
    BY DEF AcceptConn
  <2> QED
    BY <1>1, <1>3, <1>4, <1>5, <1>6, <1>7, <1>8, <2>1 DEF TypeOK, Phases

\* The ready loop's own writes.
LEMMA TypeBeginning ==
  ASSUME TypeOK, NEW t \in Tablets,
         RefuseTransaction(t) \/ StartTransaction(t) \/ StartUnknownSend(t)
  PROVE  TypeOK'
<1>1. /\ idx \in Slots /\ idx \in 0 .. N
      /\ req' \in [Tablets -> Codes \cup {None}]
      /\ pc' = "check"
  <2>1. ReadTransactionData(t)
    BY DEF RefuseTransaction, StartTransaction, StartUnknownSend
  <2>2. idx \in Nat \ {0} /\ idx <= size /\ size \in 0 .. N
    BY <2>1 DEF ReadTransactionData, TypeOK
  <2>3. req' \in [Tablets -> Codes \cup {None}] /\ pc' = "check"
    BY <2>1 DEF ReadTransactionData, TypeOK
  <2> QED
    BY <2>2, <2>3, CountType DEF Slots
<1>2. slot \in [Slots -> Elements] /\ job \in [Jobs -> SharedStates]
  BY DEF TypeOK
<1>3. CASE RefuseTransaction(t)
  <2>1. slot' \in [Slots -> Elements]
    <3>1. /\ slot' = [slot EXCEPT ![idx].parent = idx, ![idx].code = TransactionCode(t),
                                   ![idx].ok = FALSE]
          /\ TransactionCode(t) \in Refusals
      BY <1>3 DEF RefuseTransaction
    <3> QED
      BY <1>1, <3>1, StartTypes
  <2>2. closes' \in [Tablets -> Nat]
    BY <1>3 DEF RefuseTransaction, TypeOK
  <2> QED
    BY <1>1, <1>3, <2>1, <2>2 DEF RefuseTransaction, TypeOK, Phases
<1>4. CASE StartTransaction(t)
  <2> DEFINE c == TransactionCode(t)
  <2>1. PICK j \in FreeJobs, policy \in Launches :
          /\ job' = [i \in Jobs |->
                       IF i = j THEN NewJob(t, TransactionCode(t), policy)
                       ELSE IF i = slot[idx].fut /\ ~Live(slot[idx].fut) THEN NoJob ELSE job[i]]
          /\ slot' = [slot EXCEPT ![idx].parent = idx, ![idx].code = c, ![idx].fut = j,
                                  ![idx].ok = ResetsSuccess(c) \/ slot[idx].ok]
    BY <1>4 DEF StartTransaction
  <2>2. NewJob(t, TransactionCode(t), policy) \in SharedStates
    BY <1>1 DEF NewJob, SharedStates
  <2>3. job' \in [Jobs -> SharedStates]
    BY <1>2, <2>1, <2>2, NoJobType
  <2>4. c \in Reads \cup Sends /\ j \in Jobs
    BY <1>4, <2>1 DEF StartTransaction, FreeJobs, Sends
  <2>5. slot' \in [Slots -> Elements]
    <3> HIDE DEF c
    <3> DEFINE b == ResetsSuccess(c) \/ slot[idx].ok
    <3>1. b \in BOOLEAN
      OBVIOUS
    <3>2. slot' = Started(idx, idx, c, j, b)
      BY <2>1 DEF Started
    <3> HIDE DEF b
    <3>3. idx \in Slots /\ idx \in 0 .. N /\ c \in Reads \cup Sends \cup Refusals
      BY <1>1, <2>4
    <3> QED
      BY <2>4, <3>1, <3>2, <3>3, StartTypes
  <2> QED
    BY <1>1, <1>4, <2>3, <2>5 DEF StartTransaction, TypeOK, Phases
<1>5. CASE StartUnknownSend(t)
  <2>1. slot' \in [Slots -> Elements]
    <3>1. slot' = [slot EXCEPT ![idx].parent = idx, ![idx].code = "otherSend"]
      BY <1>5 DEF StartUnknownSend
    <3>2. "otherSend" \in Reads \cup Sends \cup Refusals
      BY DEF Sends
    <3> QED
      BY <1>1, <3>1, <3>2, StartTypes
  <2> QED
    BY <1>1, <1>5, <2>1 DEF StartUnknownSend, TypeOK, Phases
<1> QED
  BY <1>3, <1>4, <1>5

\* closesocket and the first member move of erase().
LEMMA TypeKill ==
  ASSUME TypeOK, NEW s \in 1 .. size, NEW from \in {"ready", "ui"}, KillSocket(s, from),
         UNCHANGED <<idx, size, cap, running, job, envVars, mixed>>
  PROVE  TypeOK'
<1>1. s \in 0 .. N /\ s \in Slots /\ (s < size => s + 1 \in Slots)
  BY CountType DEF TypeOK, Slots
<1>2. slot' \in [Slots -> Elements]
  <2>1. slot \in [Slots -> Elements]
    BY DEF TypeOK
  <2>2. CASE s < size
    <3> DEFINE e == [slot[s] EXCEPT !.sock = slot[s + 1].sock]
    <3>1. slot' = [slot EXCEPT ![s] = e]
      BY <1>1, <2>1, <2>2 DEF KillSocket
    <3>2. slot[s] \in Elements /\ slot[s + 1] \in Elements
      BY <1>1, <2>1, <2>2
    <3>3. e \in Elements
      BY <3>2 DEF Elements
    <3> HIDE DEF e
    <3> QED
      BY <1>1, <2>1, <3>1, <3>3
  <2>3. CASE ~(s < size)
    BY <2>1, <2>3 DEF KillSocket
  <2> QED
    BY <2>2, <2>3
<1>3. closes' \in [Tablets -> Nat]
  <2>1. closes \in [Tablets -> Nat] /\ closes' = [closes EXCEPT ![slot[s].sock] = @ + 1]
    BY DEF KillSocket, TypeOK
  <2> DEFINE k == slot[s].sock
  <2>2. CASE k \in Tablets
    <3>1. closes[k] + 1 \in Nat
      BY <2>1, <2>2
    <3> QED
      BY <2>1, <2>2, <3>1
  <2>3. CASE k \notin Tablets
    <3>1. closes' = closes
      BY <2>1, <2>3
    <3> QED
      BY <2>1, <3>1
  <2> QED
    BY <2>2, <2>3
<1>4. disturbed' \in BOOLEAN
  BY DEF KillSocket, TypeOK, Disturbs
<1> QED
  BY <1>1, <1>2, <1>3, <1>4 DEF KillSocket, TypeOK, Phases, envVars

\* The rest of erase().
LEMMA TypeErase ==
  ASSUME TypeOK, PositionInv, Erase
  PROVE  TypeOK'
<1>1. victim \in 1 .. size /\ size \in 0 .. N /\ ret \in {"ready", "ui"}
  BY DEF Erase, PositionInv, TypeOK
<1>2. slot' \in [Slots -> Elements]
  <2>1. \A s \in Slots : slot[s] \in Elements /\ NewTab(slot[s].sock) \in Elements
    BY NewTabType DEF TypeOK, Elements
  <2>2. \A s \in victim .. size - 1 : slot[s + 1] \in Elements
    BY <1>1, <2>1, CountType DEF Slots
  <2> QED
    BY <2>1, <2>2 DEF Erase
<1>3. job' \in [Jobs -> SharedStates]
  <2>1. slot[victim].fut \in {0} \cup Jobs
    BY <1>1, CountType DEF TypeOK, Elements, Slots
  <2> QED
    BY <2>1, ReleaseType DEF Erase, TypeOK
<1>4. size' \in 0 .. N /\ idx' \in Nat \ {0} /\ victim' \in 0 .. N
  BY <1>1, CountType DEF Erase, TypeOK
<1> QED
  BY <1>1, <1>2, <1>3, <1>4 DEF Erase, TypeOK, Phases, envVars

\* handleTransResult, from either loop.
LEMMA TypeResult ==
  ASSUME TypeOK, NEW s \in Slots, NEW done, NEW next \in {"ready", "running"},
         slot[s].fut \in Jobs, HandleTransResult(s, done, next)
  PROVE  /\ pc' \in Phases \cup Faults
         /\ slot' \in [Slots -> Elements]
         /\ job' \in [Jobs -> SharedStates]
         /\ mixed' \in BOOLEAN
<1> DEFINE o == slot[s]
           takes == o.code \in TakenReads
           deferred == job[o.fut].state = "deferred"
<1>1. /\ slot \in [Slots -> Elements] /\ job \in [Jobs -> SharedStates]
      /\ mixed \in BOOLEAN
  BY DEF TypeOK, SharedStates
<1>2. PICK v \in IF deferred THEN Outcomes(o.sock) ELSE {job[o.fut].val} :
       IF takes /\ (v = "thrown" \/ (v = "failed" /\ o.code # "info"))
       THEN /\ pc' = IF v = "thrown" THEN "exception" ELSE "bad_optional_access"
            /\ UNCHANGED <<slot, job, mixed>>
       ELSE /\ pc' = next
            /\ slot' = [x \in Slots |->
                 [slot[x] EXCEPT !.busy = StillBusy(@, x, done),
                                 !.fut = IF takes /\ x = s THEN 0 ELSE @,
                                 !.ok  = IF takes /\ deferred /\ x = s THEN v = "good" ELSE @]]
            /\ job' = IF takes THEN Release(o.fut) ELSE job
            /\ mixed' = (mixed \/ (takes /\ v = "good" /\
                                    (\/ Dangling(o.parent)
                                     \/ slot[o.parent].sock # job[o.fut].owner)))
  BY DEF HandleTransResult
<1> DEFINE ends == takes /\ (v = "thrown" \/ (v = "failed" /\ o.code # "info"))
<1>4. CASE ends
  BY <1>1, <1>2, <1>4 DEF Phases, Faults
<1>5. CASE ~ends
  <2>1. pc' = next /\ mixed' \in BOOLEAN
    BY <1>1, <1>2, <1>5
  <2>4. job' \in {job, Release(o.fut)}
    BY <1>2, <1>5
  <2>5. job' \in [Jobs -> SharedStates]
    BY <1>1, <2>4, ReleaseType
  <2>2. ASSUME NEW x \in Slots
        PROVE  slot'[x] \in Elements
    <3> DEFINE b == StillBusy(slot[x].busy, x, done)
               f == IF takes /\ x = s THEN 0 ELSE slot[x].fut
               k == IF takes /\ deferred /\ x = s THEN v = "good" ELSE slot[x].ok
    <3>1. b \in BOOLEAN
      BY DEF StillBusy
    <3>2. slot[x] \in Elements /\ f \in {0} \cup Jobs /\ k \in BOOLEAN
      BY <1>1 DEF Elements
    <3>3. slot'[x] = [slot[x] EXCEPT !.busy = b, !.fut = f, !.ok = k]
      BY <1>2, <1>5
    <3> HIDE DEF b, f, k
    <3> QED
      BY <3>1, <3>2, <3>3 DEF Elements
  <2>3. slot' = [x \in Slots |-> slot'[x]]
    BY <1>2, <1>5
  <2> QED
    BY <2>1, <2>2, <2>3, <2>5 DEF Phases
<1> QED
  BY <1>4, <1>5

\* The outcomes of a look at a transaction just started.
LEMMA TypeChecking ==
  ASSUME TypeOK, PositionInv, CheckReady \/ CheckRunning
  PROVE  TypeOK'
<1>1. pc = "poll" /\ idx \in 1 .. size /\ size \in 0 .. N
  BY DEF CheckReady, CheckRunning, PositionInv, TypeOK
<1>2. idx \in Slots /\ idx \in 0 .. N /\ idx + 1 \in Nat \ {0}
  BY <1>1, CountType DEF Slots
<1>3. CASE CheckReady
  <2>1. slot[idx].fut \in Jobs /\ HandleTransResult(idx, {}, "ready")
    BY <1>2, <1>3 DEF CheckReady, TypeOK, Elements
  <2> QED
    BY <1>2, <1>3, <2>1, TypeResult DEF CheckReady, TypeOK, envVars
<1>4. CASE CheckRunning
  <2>1. slot' \in [Slots -> Elements]
    BY <1>4, FieldTypes DEF CheckRunning
  <2>2. running' \in Seq(0 .. N)
    BY <1>2, <1>4 DEF CheckRunning, TypeOK, RunningAddress
  <2> QED
    BY <1>2, <1>4, <2>1, <2>2 DEF CheckRunning, TypeOK, Phases, envVars
<1> QED
  BY <1>3, <1>4

\* The running loop.
LEMMA TypeFinishing ==
  ASSUME TypeOK, DropInvalid \/ FinishTransaction
  PROVE  TypeOK'
<1>1. pc = "running" /\ idx \in 1 .. Len(running) /\ idx + 1 \in Nat \ {0}
  BY DEF DropInvalid, FinishTransaction, TypeOK
<1>2. running' \in Seq(0 .. N)
  BY <1>1, RemoveKthType DEF DropInvalid, FinishTransaction, TypeOK
<1>3. CASE DropInvalid
  BY <1>1, <1>2, <1>3 DEF DropInvalid, TypeOK, Phases, envVars
<1>4. CASE FinishTransaction
  <2> DEFINE a == running[idx]
  <2>1. a \in 1 .. size /\ slot[a].fut # 0 /\ size \in 0 .. N
    BY <1>4 DEF FinishTransaction, Invalid, TypeOK
  <2>2. a \in Slots /\ slot[a].fut \in Jobs
    <3>1. a \in Slots
      BY <2>1, CountType DEF Slots
    <3> QED
      BY <2>1, <3>1 DEF TypeOK, Elements
  <2>3. HandleTransResult(a, {slot[a].parent}, "running")
    BY <1>4 DEF FinishTransaction
  <2> QED
    BY <1>1, <1>2, <1>4, <2>2, <2>3, TypeResult DEF FinishTransaction, TypeOK, envVars
<1> QED
  BY <1>3, <1>4

\* killAllSockets.
LEMMA TypeKillAll ==
  ASSUME TypeOK, PositionInv,
         \/ KillAllSockets("accept") \/ KillAllSockets("ended")
         \/ GetRunning \/ ClearAll
  PROVE  TypeOK'
<1>1. CASE KillAllSockets("accept") \/ KillAllSockets("ended")
  <2>1. closes' \in [Tablets -> Nat]
    <3>1. closes \in [Tablets -> Nat]
      BY DEF TypeOK
    <3> QED
      BY <1>1, <3>1 DEF KillAllSockets
  <2> QED
    BY <1>1, <2>1 DEF KillAllSockets, TypeOK, Phases, memVars, envVars
<1>2. CASE GetRunning
  <2>1. idx + 1 \in Nat \ {0}
    BY DEF TypeOK
  <2>2. CASE Invalid(running[idx])
    BY <1>2, <2>2 DEF GetRunning, TypeOK, Faults, envVars
  <2>4. CASE ~Invalid(running[idx]) /\ pc' = "exception"
    BY <1>2, <2>4 DEF GetRunning, TypeOK, Faults, envVars
  <2>3. CASE ~Invalid(running[idx]) /\ pc' # "exception"
    <3>1. running[idx] \in Slots /\ slot[running[idx]].fut # 0
      BY <2>3, CountType DEF Invalid, TypeOK, Slots
    <3>2. slot[running[idx]].fut \in Jobs
      BY <3>1 DEF TypeOK, Elements
    <3>3. slot' \in [Slots -> Elements] /\ job' \in [Jobs -> SharedStates]
      <4>1. /\ slot' = [slot EXCEPT ![running[idx]].fut = 0]
            /\ job' = Release(slot[running[idx]].fut)
        BY <1>2, <2>3 DEF GetRunning
      <4> QED
        BY <3>2, <4>1, FieldTypes, ReleaseType
    <3> QED
      BY <1>2, <2>1, <2>3, <3>3 DEF GetRunning, TypeOK, envVars
  <2> QED
    BY <2>2, <2>3, <2>4
<1>3. CASE ClearAll
  <2>1. slot' \in [Slots -> Elements]
    <3>1. \A s \in Slots : [slot[s] EXCEPT !.fut = 0] \in Elements
      BY DEF TypeOK, Elements
    <3> QED
      BY <1>3, <3>1 DEF ClearAll
  <2>2. running' \in Seq(0 .. N) /\ size' \in 0 .. N
    BY <1>3, CountType DEF ClearAll
  <2>3. job' \in [Jobs -> SharedStates]
    BY <1>3, NoJobType DEF ClearAll
  <2>4. pc' \in {"accept", "ended"} /\ idx' = 1 /\ disturbed' \in BOOLEAN /\ mixed' \in BOOLEAN
    BY <1>3 DEF ClearAll, PositionInv
  <2> QED
    <3>1. UNCHANGED <<victim, ret, cap, envVars, closes>>
      BY <1>3 DEF ClearAll
    <3> QED
      BY <2>1, <2>2, <2>3, <2>4, <3>1 DEF TypeOK, Phases, envVars
<1> QED
  BY <1>1, <1>2, <1>3

\* What any step of a worker that is not a fault does.
Works(j) == WorkerBegin(j) \/ WorkerReads(j) \/ WorkerAnswers(j)
LEMMA WorkerStep ==
  ASSUME NEW j \in Jobs, Works(j)
  PROVE  /\ ~Stopped /\ job[j].state \in {"started", "working", "failing"}
         /\ UNCHANGED <<mainVars, size, cap, running, envVars, closes, disturbed>>
         /\ slot' = slot \/ \E b \in BOOLEAN : SetOk(job[j].at, b)
         /\ \/ job' \in {job, [job EXCEPT ![j].state = "working"],
                           [job EXCEPT ![j].state = "failing"]}
            \/ \E v \in {"good", "failed", "thrown"} : job' = Returned(j, v)
         /\ mixed' = mixed \/ Touches(j)
<1>1. CASE WorkerBegin(j) \/ WorkerReads(j)
  BY <1>1 DEF WorkerBegin, WorkerReads
<1>2. CASE WorkerFail(j) \/ WorkerEnd(j)
  BY <1>2 DEF WorkerFail, WorkerEnd
<1>3. CASE WorkerDone(j) \/ WorkerThrow(j)
  BY <1>3 DEF WorkerDone, WorkerThrow
<1> QED
  BY <1>1, <1>2, <1>3 DEF Works, WorkerAnswers

\* The workers.
LEMMA TypeWorker ==
  ASSUME TypeOK, NEW j \in Jobs, Works(j)
  PROVE  TypeOK'
<1>1. mixed' \in BOOLEAN
  BY WorkerStep DEF Touches, TypeOK
<1>2. slot' \in [Slots -> Elements]
  <2>1. slot \in [Slots -> Elements]
    BY DEF TypeOK
  <2> QED
    <3>1. PICK b \in BOOLEAN : slot' \in {slot, [slot EXCEPT ![job[j].at].ok = b]}
      BY WorkerStep DEF SetOk
    <3>2. [slot EXCEPT ![job[j].at].ok = b] \in [Slots -> Elements]
      BY FieldTypes
    <3> QED
      BY <2>1, <3>1, <3>2
<1>3. job' \in [Jobs -> SharedStates]
  <2>1. job \in [Jobs -> SharedStates]
    BY DEF TypeOK
  <2>2. ASSUME NEW c \in {"working", "failing"}
        PROVE  [job EXCEPT ![j].state = c] \in [Jobs -> SharedStates]
    BY <2>1 DEF SharedStates
  <2>3. ASSUME NEW v \in {"good", "failed", "thrown"}
        PROVE  Returned(j, v) \in [Jobs -> SharedStates]
    <3> DEFINE e == [job[j] EXCEPT !.state = "done", !.val = v]
    <3>1. e \in SharedStates
      BY <2>1 DEF SharedStates
    <3>2. [job EXCEPT ![j].state = "done", ![j].val = v] = [job EXCEPT ![j] = e]
      BY <2>1
    <3> HIDE DEF e
    <3>3. [job EXCEPT ![j] = e] \in [Jobs -> SharedStates]
      BY <2>1, <3>1
    <3> QED
      BY <3>2, <3>3, ReleaseType DEF Returned
  <2> QED
    BY <2>1, <2>2, <2>3, WorkerStep
<1> QED
  BY <1>1, <1>2, <1>3, WorkerStep DEF TypeOK, mainVars, envVars

\* The tablets.
LEMMA TypeTablet ==
  ASSUME TypeOK, NEW t \in Tablets, Tablet(t)
  PROVE  TypeOK'
<1>1. ASSUME NEW c \in Codes, Request(t, c)
      PROVE  TypeOK'
  <2>1. sent' \in 0 .. MaxRequests
    BY <1>1, RequestAssumption DEF Request, TypeOK
  <2> QED
    BY <1>1, <2>1 DEF Request, TypeOK, mainVars, memVars
<1>2. ASSUME NEW from, NEW to \in {"up", "stalled", "closed", "dead"},
             TabletLink(t, from, to)
      PROVE  TypeOK'
  <2>1. req' \in [Tablets -> Codes \cup {None}]
    BY <1>2 DEF TabletLink, TypeOK
  <2>2. link' \in [Tablets -> {"off", "up", "stalled", "closed", "dead"}]
    BY <1>2 DEF TabletLink, TypeOK
  <2> QED
    BY <1>2, <2>1, <2>2 DEF TabletLink, TypeOK, mainVars, memVars
<1> QED
  BY <1>1, <1>2, LossAssumption DEF Tablet

-----------------------------------------------------------------------------
(* The list *)

\* Steps that neither list, move, close nor connect a tablet.
SameSockets ==
  /\ UNCHANGED <<size, closes>>
  /\ \A s \in Slots : slot'[s].sock = slot[s].sock
  /\ \A t \in Tablets : (link'[t] = "off") <=> (link[t] = "off")

\* Every occupied slot exists.
LEMMA OccupiedSlots == TypeOK => Occupied \subseteq Slots /\ 1 .. size \subseteq Slots
  BY CountType DEF TypeOK, Occupied, Slots

\* Such a step keeps the list when the GUI thread goes on to a plain place.
LEMMA ListKept ==
  ASSUME TypeOK, ListInv, SameSockets,
         pc \in {"accept", "ready", "poll", "running", "ui"},
         pc' \in {"accept", "ready", "running", "ui"}
  PROVE  ListInv'
<1>1. DistinctInv /\ OpenInv /\ LinkedInv /\ ~Refused /\ ~Refused'
  BY DEF ListInv, Faults, Refused
<1>2. Occupied = 1 .. size /\ Occupied' = 1 .. size /\ 1 .. size \subseteq Slots
  BY OccupiedSlots DEF Occupied, SameSockets
<1>3. Open' = Open
  BY DEF Open, SameSockets
<1>4. PositionInv'
  BY DEF PositionInv
<1>5. DistinctInv'
  BY <1>1, <1>2 DEF DistinctInv, SameSockets
<1>6. OpenInv'
  <2>1. {slot[s].sock : s \in 1 .. size} = Open
    BY <1>1, <1>2 DEF OpenInv
  <2>2. {slot'[s].sock : s \in 1 .. size} = {slot[s].sock : s \in 1 .. size}
    BY <1>2 DEF SameSockets
  <2> QED
    BY <1>1, <1>2, <1>3, <2>1, <2>2 DEF OpenInv
<1>7. LinkedInv'
  BY <1>1, <1>2 DEF LinkedInv, SameSockets
<1> QED
  BY <1>4, <1>5, <1>6, <1>7 DEF ListInv

\* So does one that leaves the GUI thread where it is.
LEMMA ListSame ==
  ASSUME TypeOK, ListInv, SameSockets, UNCHANGED mainVars,
         \A s \in Slots : slot'[s].code = slot[s].code
  PROVE  ListInv'
<1> SUFFICES ASSUME pc \notin Faults
             PROVE  PositionInv' /\ DistinctInv' /\ OpenInv' /\ LinkedInv'
  BY DEF ListInv, mainVars
<1>1. PositionInv /\ DistinctInv /\ OpenInv /\ LinkedInv
  BY DEF ListInv
<1>2. Occupied' = Occupied /\ Occupied \subseteq Slots
  BY OccupiedSlots DEF Occupied, SameSockets, mainVars
<1>3. Open' = Open
  BY DEF Open, SameSockets
<1>4. PositionInv'
  BY <1>1 DEF PositionInv, SameSockets, mainVars
<1>5. DistinctInv'
  BY <1>1, <1>2 DEF DistinctInv, SameSockets
<1>6. OpenInv'
  <2>1. {slot'[s].sock : s \in Occupied} = {slot[s].sock : s \in Occupied}
    BY <1>2 DEF SameSockets
  <2>2. pc = "check" => idx \in Slots
    BY <1>1, OccupiedSlots DEF PositionInv
  <2>3. Refused' <=> Refused
    BY <2>2 DEF Refused, mainVars
  <2>4. Refused => slot'[idx].sock = slot[idx].sock
    BY <2>2 DEF Refused, SameSockets
  <2> QED
    BY <1>1, <1>2, <1>3, <2>1, <2>3, <2>4 DEF OpenInv, mainVars
<1>7. LinkedInv'
  BY <1>1, <1>2 DEF LinkedInv, SameSockets
<1> QED
  BY <1>4, <1>5, <1>6, <1>7

\* A new element: the only one with its socket.
LEMMA ListAccept ==
  ASSUME Inv, TypeOK', NEW t \in Tablets, AcceptConn(t)
  PROVE  ListInv'
<1>1. /\ TypeOK /\ DistinctInv /\ OpenInv /\ LinkedInv /\ ~Refused /\ ~Refused'
      /\ pc = "accept" /\ pc' = "ready" /\ link[t] = "off" /\ closes[t] = 0
  BY DEF Inv, ListInv, Faults, Refused, AcceptConn, LinkedInv
<1>2. /\ Occupied = 1 .. size /\ Occupied' = 1 .. size + 1 /\ size \in Nat
      /\ Occupied \subseteq Slots /\ Occupied' \subseteq Slots
  <2>1. size' = size + 1 /\ size \in Nat
    <3>1. size' = size + 1
      BY DEF AcceptConn
    <3> QED
      BY <1>1, <3>1, CountType DEF TypeOK
  <2>2. Occupied' \subseteq Slots
    BY <2>1, CountType DEF TypeOK, Occupied, Slots
  <2> QED
    BY <1>1, <2>1, <2>2, OccupiedSlots DEF Occupied
<1>3. slot'[size + 1].sock = t /\ \A s \in 1 .. size : slot'[s].sock = slot[s].sock
  <2>1. \A s \in Slots : slot'[s] = IF s = size + 1 THEN NewTab(t)
                                    ELSE IF size = cap THEN [slot[s] EXCEPT !.parent = 0]
                                    ELSE slot[s]
    BY DEF AcceptConn
  <2>2. \A s \in 1 .. size : s # size + 1 /\ s \in Slots /\ slot[s] \in Elements
    BY <1>1, <1>2 DEF TypeOK
  <2>3. \A s \in 1 .. size : slot'[s].sock = slot[s].sock
    <3>1. ASSUME NEW s \in 1 .. size
          PROVE  \/ slot'[s] = slot[s]
                 \/ slot'[s] = [slot[s] EXCEPT !.parent = 0]
      BY <2>1, <2>2
    <3>2. \A s \in 1 .. size : [slot[s] EXCEPT !.parent = 0].sock = slot[s].sock
      BY <2>2 DEF Elements
    <3> QED
      BY <3>1, <3>2
  <2>4. size + 1 \in Slots /\ slot'[size + 1] = NewTab(t)
    <3>1. size + 1 \in Slots
      BY <1>2
    <3> QED
      BY <2>1, <3>1
  <2> QED
    BY <2>3, <2>4 DEF NewTab
<1>4. {slot[s].sock : s \in 1 .. size} = Open
  BY <1>1, <1>2 DEF OpenInv
<1>5. /\ link' = [link EXCEPT ![t] = "up"] /\ UNCHANGED closes
      /\ link \in [Tablets -> {"off", "up", "stalled", "closed", "dead"}]
  BY <1>1 DEF AcceptConn, TypeOK
<1>6. Open' = Open \cup {t} /\ t \notin Open
  BY <1>1, <1>5 DEF Open
<1>7. DistinctInv'
  <2>1. \A s \in 1 .. size : slot[s].sock # t
    BY <1>4, <1>6
  <2> QED
    BY <1>1, <1>2, <1>3, <2>1 DEF DistinctInv
<1>8. OpenInv'
  <2>1. {slot'[s].sock : s \in 1 .. size + 1} = {slot[s].sock : s \in 1 .. size} \cup {t}
    <3>1. ASSUME NEW s \in 1 .. size + 1
          PROVE  slot'[s].sock \in {slot[r].sock : r \in 1 .. size} \cup {t}
      BY <1>2, <1>3
    <3>2. ASSUME NEW s \in 1 .. size
          PROVE  slot[s].sock \in {slot'[r].sock : r \in 1 .. size + 1}
      BY <1>2, <1>3
    <3>3. t \in {slot'[r].sock : r \in 1 .. size + 1}
      BY <1>2, <1>3
    <3> QED
      BY <3>1, <3>2, <3>3
  <2> QED
    BY <1>1, <1>2, <1>4, <1>6, <2>1 DEF OpenInv
<1>9. LinkedInv'
  <2>1. ASSUME NEW s \in 1 .. size + 1
        PROVE  slot'[s].sock \in Tablets /\ link'[slot'[s].sock] # "off"
    <3>1. CASE s = size + 1
      BY <1>3, <1>5, <3>1
    <3>2. CASE s \in 1 .. size
      BY <1>1, <1>2, <1>3, <1>5, <3>2 DEF LinkedInv
    <3> QED
      BY <1>2, <3>1, <3>2
  <2>2. \A u \in Tablets : link'[u] = "off" => closes'[u] = 0
    BY <1>1, <1>5 DEF LinkedInv
  <2> QED
    BY <1>2, <2>1, <2>2 DEF LinkedInv
<1>10. PositionInv'
  BY <1>1 DEF PositionInv
<1> QED
  BY <1>7, <1>8, <1>9, <1>10 DEF ListInv

\* The ready loop: a refused tablet is closed before it is erased.
LEMMA ListBeginning ==
  ASSUME TypeOK, ListInv, NEW t \in Tablets,
         RefuseTransaction(t) \/ StartTransaction(t) \/ StartUnknownSend(t)
  PROVE  ListInv'
<1>1. /\ pc = "ready" /\ pc' = "check" /\ idx <= size /\ t = slot[idx].sock
      /\ UNCHANGED <<idx, size, link>>
  BY DEF RefuseTransaction, StartTransaction, StartUnknownSend, ReadTransactionData
<1>2. DistinctInv /\ OpenInv /\ LinkedInv /\ ~Refused
  BY <1>1 DEF ListInv, Faults, Refused
<1>3. /\ Occupied = 1 .. size /\ Occupied' = 1 .. size /\ 1 .. size \subseteq Slots
      /\ idx \in 1 .. size
  BY <1>1, OccupiedSlots DEF Occupied, TypeOK
<1>4. /\ \A s \in 1 .. size : slot'[s].sock = slot[s].sock
      /\ slot'[idx].code = TransactionCode(t)
  <2>1. slot \in [Slots -> Elements] /\ idx \in Slots
    BY <1>3 DEF TypeOK
  <2>2. CASE RefuseTransaction(t)
    <3>1. slot' = [slot EXCEPT ![idx].parent = idx, ![idx].code = TransactionCode(t),
                               ![idx].ok = FALSE]
      BY <2>2 DEF RefuseTransaction
    <3> QED
      BY <1>3, <2>1, <3>1 DEF Elements
  <2>3. CASE StartTransaction(t)
    <3>1. PICK j : slot' = [slot EXCEPT ![idx].parent = idx, ![idx].code = TransactionCode(t),
                              ![idx].fut = j, ![idx].ok = ResetsSuccess(TransactionCode(t)) \/ @]
      BY <2>3 DEF StartTransaction
    <3> QED
      BY <1>3, <2>1, <3>1 DEF Elements
  <2>4. CASE StartUnknownSend(t)
    <3>1. /\ slot' = [slot EXCEPT ![idx].parent = idx, ![idx].code = "otherSend"]
          /\ TransactionCode(t) = "otherSend"
      BY <2>4 DEF StartUnknownSend
    <3> QED
      BY <1>3, <2>1, <3>1 DEF Elements
  <2> QED
    BY <2>2, <2>3, <2>4
<1>5. PositionInv'
  BY <1>1, <1>3 DEF PositionInv
<1>6. DistinctInv'
  BY <1>2, <1>3, <1>4 DEF DistinctInv
<1>7. {slot'[s].sock : s \in 1 .. size} = Open
  BY <1>2, <1>1, <1>3, <1>4 DEF OpenInv
<1>8. CASE RefuseTransaction(t)
  <2>1. Refused'
    <3>1. slot'[idx].code = TransactionCode(t) /\ TransactionCode(t) \in Refusals
      BY <1>4, <1>8 DEF RefuseTransaction
    <3> QED
      BY <1>1, <3>1 DEF Refused
  <2>2. /\ closes \in [Tablets -> Nat] /\ closes' = [closes EXCEPT ![t] = @ + 1]
        /\ link[t] # "off" /\ t \in Open
    <3>1. t \in Open
      BY <1>1, <1>3, <1>4, <1>7
    <3> QED
      BY <1>8, <3>1 DEF RefuseTransaction, TypeOK, Open
  <2>3. Open' = Open \ {t}
    BY <1>1, <2>2 DEF Open
  <2>4. OpenInv'
    BY <1>1, <1>3, <1>4, <1>7, <2>1, <2>2, <2>3 DEF OpenInv
  <2>5. LinkedInv'
    BY <1>1, <1>2, <1>3, <1>4, <2>2 DEF LinkedInv
  <2> QED
    BY <1>5, <1>6, <2>4, <2>5 DEF ListInv
<1>9. CASE StartTransaction(t) \/ StartUnknownSend(t)
  <2>1. UNCHANGED closes /\ Open' = Open
    BY <1>1, <1>9 DEF StartTransaction, StartUnknownSend, Open
  <2>2. slot'[idx].code \in Reads \cup Sends
    BY <1>4, <1>9 DEF StartTransaction, StartUnknownSend, Sends
  <2>3. ~Refused'
    BY <1>1, <2>2 DEF Refused, Refusals, Reads, TakenReads, Sends
  <2>4. OpenInv'
    BY <1>1, <1>3, <1>7, <2>1, <2>3 DEF OpenInv
  <2>5. LinkedInv'
    BY <1>1, <1>2, <1>3, <1>4, <2>1 DEF LinkedInv
  <2> QED
    BY <1>5, <1>6, <2>4, <2>5 DEF ListInv
<1> QED
  BY <1>8, <1>9

\* killSocket: the closed socket leaves the list, whether it was still open or
\* initReadyTransaction had closed it.
LEMMA ListKill ==
  ASSUME TypeOK, ListInv, NEW s \in 1 .. size, NEW from \in {"ready", "ui"},
         KillSocket(s, from), UNCHANGED <<idx, size, link>>,
         pc \in {"check", "ui"}, Refused => s = idx
  PROVE  ListInv'
<1> DEFINE k == slot[s].sock
           others == 1 .. size \ {s}
<1>1. DistinctInv /\ OpenInv /\ LinkedInv
  BY DEF ListInv, Faults
<1>2. /\ Occupied = 1 .. size /\ Occupied' = others /\ ~Refused' /\ size \in Nat
      /\ 1 .. size \subseteq Slots
  BY OccupiedSlots DEF Occupied, Refused, KillSocket, TypeOK
<1>3. \A x \in others : slot'[x].sock = slot[x].sock
  BY <1>2 DEF KillSocket, TypeOK
<1>4. k \in Tablets /\ link[k] # "off"
  BY <1>1, <1>2 DEF LinkedInv
<1>5. closes' = [closes EXCEPT ![k] = @ + 1] /\ closes \in [Tablets -> Nat]
  BY DEF KillSocket, TypeOK
<1>6. closes'[k] # 0 /\ \A t \in Tablets : t # k => closes'[t] = closes[t]
  BY <1>4, <1>5
<1>7. Open' = Open \ {k}
  BY <1>6 DEF Open
<1>8. {slot[x].sock : x \in 1 .. size} \ {k} = Open \ {k}
  BY <1>1, <1>2 DEF OpenInv
<1>9. {slot[x].sock : x \in others} = {slot[x].sock : x \in 1 .. size} \ {k}
  BY <1>1, <1>2 DEF DistinctInv
<1>10. PositionInv'
  BY DEF PositionInv, KillSocket
<1>11. DistinctInv'
  BY <1>1, <1>2, <1>3 DEF DistinctInv
<1>12. OpenInv'
  <2>1. {slot'[x].sock : x \in others} = {slot[x].sock : x \in others}
    BY <1>3
  <2> QED
    BY <1>2, <1>7, <1>8, <1>9, <2>1 DEF OpenInv, KillSocket
<1>13. LinkedInv'
  BY <1>1, <1>2, <1>3, <1>4, <1>6 DEF LinkedInv
<1> QED
  BY <1>10, <1>11, <1>12, <1>13 DEF ListInv

\* The moves of erase() fill the hole and keep every other socket.
LEMMA ListErase ==
  ASSUME TypeOK, ListInv, Erase
  PROVE  ListInv'
<1> DEFINE others == 1 .. size \ {victim}
           From(x) == IF x < victim THEN x ELSE x + 1
<1>1. /\ DistinctInv /\ OpenInv /\ LinkedInv /\ ~Refused /\ ~Refused'
      /\ victim \in 1 .. size /\ ret \in {"ready", "ui"} /\ pc = "erase" /\ pc' = ret
  BY DEF ListInv, PositionInv, Faults, Refused, Erase
<1>2. UNCHANGED <<link, closes>> /\ Open' = Open
  BY DEF Erase, envVars, Open
<1>3. /\ Occupied = others /\ Occupied' = 1 .. size - 1 /\ size \in Nat
      /\ 1 .. size \subseteq Slots
  <2>1. size' = size - 1 /\ size \in Nat
    BY DEF Erase, TypeOK
  <2> QED
    BY <1>1, <2>1, OccupiedSlots DEF Occupied
<1>4. ASSUME NEW x \in 1 .. size - 1
      PROVE  From(x) \in others /\ slot'[x].sock = slot[From(x)].sock
  <2>1. x \in Slots /\ x # size /\ From(x) \in others
    BY <1>1, <1>3
  <2>2. slot'[x] = IF x \in victim .. size - 1 THEN slot[x + 1] ELSE slot[x]
    BY <2>1 DEF Erase
  <2>3. x \in victim .. size - 1 <=> ~(x < victim)
    BY <1>1, <1>3
  <2> QED
    BY <2>1, <2>2, <2>3
<1>5. ASSUME NEW y \in others
      PROVE  \E x \in 1 .. size - 1 : From(x) = y
  <2>1. CASE y < victim
    <3>1. y \in 1 .. size - 1 /\ From(y) = y
      BY <1>1, <1>3, <2>1
    <3> QED
      BY <3>1
  <2>2. CASE y > victim
    <3>1. y - 1 \in 1 .. size - 1 /\ From(y - 1) = y
      BY <1>1, <1>3, <2>2
    <3> QED
      BY <3>1
  <2> QED
    BY <1>1, <1>3, <2>1, <2>2
<1>6. \A x, y \in 1 .. size - 1 : From(x) = From(y) => x = y
  BY <1>1, <1>3
<1> HIDE DEF others, From
<1>7. PositionInv'
  BY <1>1 DEF PositionInv
<1>8. DistinctInv'
  BY <1>1, <1>3, <1>4, <1>6 DEF DistinctInv
<1>9. {slot'[x].sock : x \in 1 .. size - 1} = {slot[y].sock : y \in others}
  <2>1. \A x \in 1 .. size - 1 : slot'[x].sock \in {slot[y].sock : y \in others}
    BY <1>4
  <2>2. \A y \in others : slot[y].sock \in {slot'[x].sock : x \in 1 .. size - 1}
    BY <1>4, <1>5
  <2> QED
    BY <2>1, <2>2
<1>10. OpenInv'
  BY <1>1, <1>2, <1>3, <1>9 DEF OpenInv
<1>11. LinkedInv'
  BY <1>1, <1>2, <1>3, <1>4 DEF LinkedInv
<1> QED
  BY <1>7, <1>8, <1>10, <1>11 DEF ListInv

\* killAllSockets closes what is listed, which is all there is, then empties
\* the list.
LEMMA ListKillAll ==
  ASSUME TypeOK, ListInv,
         \/ KillAllSockets("accept") \/ KillAllSockets("ended")
         \/ GetRunning \/ ClearAll
  PROVE  ListInv'
<1>1. pc \in {"ui", "getAll"} /\ UNCHANGED link /\ ~Refused
  BY DEF KillAllSockets, GetRunning, ClearAll, envVars, Refused
<1>2. PositionInv /\ DistinctInv /\ OpenInv /\ LinkedInv
  BY <1>1 DEF ListInv, Faults
<1>3. Occupied = 1 .. size /\ 1 .. size \subseteq Slots
  BY <1>1, OccupiedSlots DEF Occupied
<1>4. CASE KillAllSockets("accept") \/ KillAllSockets("ended")
  <2>1. /\ pc = "ui" /\ pc' = "getAll" /\ ret' \in {"accept", "ended"} /\ ~Refused'
        /\ UNCHANGED <<slot, size>> /\ Occupied' = 1 .. size
    BY <1>4 DEF KillAllSockets, memVars, Refused, Occupied
  <2>2. InList = Open
    BY <1>2, <1>3, <2>1, <1>1 DEF OpenInv, InList
  <2>3. \A t \in Tablets : closes'[t] = IF t \in Open THEN closes[t] + 1 ELSE closes[t]
    BY <1>4, <2>2 DEF KillAllSockets
  <2>4. \A t \in Tablets : closes[t] \in Nat
    BY DEF TypeOK
  <2>5. Open' = {}
    BY <1>1, <2>3, <2>4 DEF Open
  <2>6. LinkedInv'
    BY <1>1, <1>2, <1>3, <2>1, <2>3 DEF LinkedInv, Open
  <2>7. PositionInv' /\ DistinctInv' /\ OpenInv'
    BY <1>2, <1>3, <2>1, <2>5 DEF PositionInv, DistinctInv, OpenInv
  <2> QED
    BY <2>6, <2>7 DEF ListInv
<1>5. CASE GetRunning
  <2>1. CASE pc' \in {"no_state", "exception"}
    BY <2>1 DEF ListInv, Faults
  <2>2. CASE pc' \notin {"no_state", "exception"}
    <3>1. /\ UNCHANGED <<pc, ret, size, link, closes>> /\ pc = "getAll"
          /\ slot' = [slot EXCEPT ![running[idx]].fut = 0]
      BY <1>5, <2>2 DEF GetRunning, envVars
    <3>2. Occupied' = 1 .. size /\ ~Refused' /\ Open' = Open
      BY <3>1 DEF Occupied, Refused, Open
    <3>3. \A s \in 1 .. size : slot'[s].sock = slot[s].sock
      BY <1>3, <3>1 DEF TypeOK, Elements
    <3> QED
      BY <1>2, <1>3, <3>1, <3>2, <3>3
         DEF ListInv, PositionInv, DistinctInv, OpenInv, LinkedInv
  <2> QED
    BY <2>1, <2>2
<1>6. CASE ClearAll
  <2>1. /\ pc = "getAll" /\ pc' \in {"accept", "ended"} /\ ~Refused'
        /\ UNCHANGED <<link, closes>> /\ Occupied' = {} /\ Open' = {}
    BY <1>2, <1>6 DEF ClearAll, PositionInv, OpenInv, envVars, Occupied, Refused, Open
  <2> QED
    BY <1>2, <2>1 DEF ListInv, PositionInv, DistinctInv, OpenInv, LinkedInv
<1> QED
  BY <1>4, <1>5, <1>6

\* The list is untouched by everything else.
LEMMA ListQuiet ==
  ASSUME TypeOK, ListInv,
         \/ NoConnection \/ SkipTablet \/ EndReady \/ CheckAlive \/ CheckNoState
         \/ EndRunning \/ FreedAccess \/ StillRunning \/ EndFrame \/ DropInvalid
         \/ UNCHANGED vars \/ \E j \in Jobs : WorkerFault(j)
  PROVE  ListInv'
<1>1. SameSockets
  BY DEF SameSockets, NoConnection, SkipTablet, EndReady, CheckAlive, CheckNoState,
         EndRunning, FreedAccess, StillRunning, EndFrame, DropInvalid, vars, memVars,
         envVars, WorkerFault
<1>2. CASE UNCHANGED vars
  BY <1>1, <1>2, ListSame DEF vars, memVars, mainVars
<1>3. CASE CheckAlive
  <2>1. /\ pc = "check" /\ pc' = "poll" /\ ~Refused /\ ~Refused'
        /\ UNCHANGED <<idx, slot, size, link, closes>>
    BY <1>3 DEF CheckAlive, Refused, memVars, envVars
  <2>2. Occupied = 1 .. size /\ Occupied' = 1 .. size /\ Open' = Open
    BY <2>1 DEF Occupied, Open
  <2> QED
    BY <2>1, <2>2 DEF ListInv, Faults, PositionInv, DistinctInv, OpenInv, LinkedInv
<1>4. CASE CheckNoState \/ FreedAccess \/ \E j \in Jobs : WorkerFault(j)
  BY <1>4 DEF CheckNoState, FreedAccess, WorkerFault, ListInv, Faults
<1>5. CASE \/ NoConnection \/ SkipTablet \/ EndReady \/ EndRunning
           \/ StillRunning \/ EndFrame \/ DropInvalid
  <2>1. /\ pc \in {"accept", "ready", "running", "ui"}
        /\ pc' \in {"accept", "ready", "running", "ui"}
    BY <1>5 DEF NoConnection, SkipTablet, EndReady, EndRunning, StillRunning, EndFrame,
                DropInvalid
  <2> QED
    BY <1>1, <2>1, ListKept
<1> QED
  BY <1>2, <1>3, <1>4, <1>5

\* A result leaves every socket with its element.
LEMMA ListResult ==
  ASSUME TypeOK, ListInv, CheckReady \/ CheckRunning \/ FinishTransaction
  PROVE  ListInv'
<1>1. /\ pc \in {"poll", "running"}
      /\ pc' \in {"ready", "running", "bad_optional_access", "exception"}
      /\ UNCHANGED <<size, link, closes>>
  BY DEF CheckReady, CheckRunning, FinishTransaction, HandleTransResult, envVars
<1>2. slot \in [Slots -> Elements]
  BY DEF TypeOK
<1>3. \A s \in Slots : slot'[s].sock = slot[s].sock
  <2>1. CASE CheckRunning
    BY <1>2, <2>1 DEF CheckRunning, Elements
  <2>2. ASSUME NEW s, NEW done, NEW next, HandleTransResult(s, done, next), NEW x \in Slots
        PROVE  slot'[x].sock = slot[x].sock
    <3>1. CASE UNCHANGED slot
      BY <3>1
    <3>2. CASE ~UNCHANGED slot
      <4> DEFINE c1 == slot[s].code \in TakenReads
                 c2 == job[slot[s].fut].state = "deferred"
      <4>1. PICK v : slot' = [y \in Slots |->
                 [slot[y] EXCEPT !.busy = StillBusy(@, y, done),
                                 !.fut = IF c1 /\ y = s THEN 0 ELSE @,
                                 !.ok  = IF c1 /\ c2 /\ y = s THEN v = "good" ELSE @]]
        BY <2>2, <3>2 DEF HandleTransResult
      <4> DEFINE b == StillBusy(slot[x].busy, x, done)
                 f == IF c1 /\ x = s THEN 0 ELSE slot[x].fut
                 k == IF c1 /\ c2 /\ x = s THEN v = "good" ELSE slot[x].ok
      <4>2. slot'[x] = [slot[x] EXCEPT !.busy = b, !.fut = f, !.ok = k]
        BY <2>2, <4>1
      <4> HIDE DEF b, f, k
      <4> QED
        BY <1>2, <2>2, <4>2 DEF Elements
    <3> QED
      BY <3>1, <3>2
  <2> QED
    BY <2>1, <2>2 DEF CheckReady, FinishTransaction
<1>4. CASE pc' \in {"bad_optional_access", "exception"}
  BY <1>4 DEF ListInv, Faults
<1>5. CASE pc' \in {"ready", "running"}
  BY <1>1, <1>3, <1>5, ListKept DEF SameSockets
<1> QED
  BY <1>1, <1>4, <1>5

\* Workers write flags only.
LEMMA ListWorker ==
  ASSUME TypeOK, ListInv, NEW j \in Jobs, Works(j)
  PROVE  ListInv'
<1>1. slot' = slot \/ \E b \in BOOLEAN : SetOk(job[j].at, b)
  BY WorkerStep
<1>2. \A s \in Slots : slot'[s].sock = slot[s].sock /\ slot'[s].code = slot[s].code
  <2>1. slot \in [Slots -> Elements]
    BY DEF TypeOK
  <2>2. PICK b \in BOOLEAN : slot' \in {slot, [slot EXCEPT ![job[j].at].ok = b]}
    BY <1>1 DEF SetOk
  <2> QED
    BY <2>1, <2>2 DEF Elements
<1>3. UNCHANGED <<mainVars, size, envVars, closes>>
  BY WorkerStep
<1> QED
  BY <1>2, <1>3, ListSame DEF SameSockets, envVars

\* Tablets change their own connection, which stays one.
LEMMA ListTablet ==
  ASSUME TypeOK, ListInv, NEW t \in Tablets, Tablet(t)
  PROVE  ListInv'
<1>1. UNCHANGED <<mainVars, slot, size, closes>>
  BY DEF Tablet, Request, TabletLink, memVars
<1>2. \A u \in Tablets : (link'[u] = "off") <=> (link[u] = "off")
  <2>1. ASSUME NEW c \in Codes, Request(t, c)
        PROVE  UNCHANGED link
    BY <2>1 DEF Request
  <2>2. ASSUME NEW l \in Losses, TabletLink(t, {"up"}, l)
        PROVE  link[t] = "up" /\ link' = [link EXCEPT ![t] = l] /\ l # "off"
    BY <2>2, LossAssumption DEF TabletLink
  <2>3. ASSUME TabletLink(t, {"stalled"}, "up")
        PROVE  link[t] = "stalled" /\ link' = [link EXCEPT ![t] = "up"]
    BY <2>3 DEF TabletLink
  <2> QED
    BY <2>1, <2>2, <2>3 DEF Tablet, TypeOK
<1> QED
  BY <1>1, <1>2, ListSame DEF SameSockets

-----------------------------------------------------------------------------
(* The theorems *)

\* CheckKill erases the first element with the refused tablet's socket, which
\* is the refused element itself.
LEMMA KillStep ==
  ASSUME TypeOK, ListInv, CheckKill \/ \E s \in Slots : KillButton(s)
  PROVE  TypeOK' /\ ListInv'
<1>1. CASE CheckKill
  <2>1. PICK s \in 1 .. idx : slot[s].sock = slot[idx].sock /\ KillSocket(s, "ready")
    BY <1>1 DEF CheckKill
  <2>2. pc = "check" /\ UNCHANGED <<idx, size, cap, running, job, envVars, mixed>>
    BY <1>1 DEF CheckKill
  <2>3. PositionInv /\ DistinctInv /\ idx \in 1 .. size
    BY <2>2 DEF ListInv, Faults, PositionInv
  <2>4. s \in 1 .. size /\ s = idx
    <3>1. s \in 1 .. size
      BY <2>3 DEF TypeOK
    <3> QED
      BY <2>1, <2>2, <2>3, <3>1 DEF DistinctInv, Occupied
  <2> QED
    BY <2>1, <2>2, <2>4, TypeKill, ListKill DEF envVars
<1>2. ASSUME NEW s \in Slots, KillButton(s)
      PROVE  TypeOK' /\ ListInv'
  <2>1. s \in 1 .. size
    BY <1>2, CountType DEF KillButton, TypeOK, Slots
  <2>2. /\ pc = "ui" /\ ~Refused /\ KillSocket(s, "ui")
        /\ UNCHANGED <<idx, size, cap, running, job, envVars, mixed>>
    BY <1>2 DEF KillButton, Refused
  <2> QED
    BY <2>1, <2>2, TypeKill, ListKill DEF envVars
<1> QED
  BY <1>1, <1>2

\* The list starts empty, and nothing is open.
LEMMA Initially == Init => Inv
<1> SUFFICES ASSUME Init PROVE Inv
  OBVIOUS
<1>1. TypeOK
  <2>1. slot \in [Slots -> Elements]
    BY NewTabType DEF Init
  <2>2. job \in [Jobs -> SharedStates]
    BY NoJobType DEF Init
  <2>3. size \in 0 .. N /\ victim \in 0 .. N /\ sent \in 0 .. MaxRequests
    BY CountType, RequestAssumption DEF Init
  <2> QED
    <3>1. running \in Seq(0 .. N) /\ cap \in Nat /\ idx \in Nat \ {0}
      BY DEF Init
    <3>2. disturbed \in BOOLEAN /\ mixed \in BOOLEAN
      BY DEF Init
    <3>3. /\ link \in [Tablets -> {"off", "up", "stalled", "closed", "dead"}]
          /\ req \in [Tablets -> Codes \cup {None}]
          /\ closes \in [Tablets -> Nat]
      BY DEF Init
    <3> QED
      BY <2>1, <2>2, <2>3, <3>1, <3>2, <3>3 DEF Init, TypeOK, Phases
<1>2. ListInv
  <2>1. Occupied = {} /\ Open = {} /\ ~Refused
    BY DEF Init, Occupied, Open, Refused
  <2> QED
    BY <2>1 DEF Init, ListInv, PositionInv, DistinctInv, OpenInv, LinkedInv
<1> QED
  BY <1>1, <1>2 DEF Inv

\* Every step keeps the invariant.
LEMMA Preserved == Inv /\ [Next]_vars => Inv'
<1> SUFFICES ASSUME Inv, [Next]_vars PROVE Inv'
  OBVIOUS
<1>1. TypeOK /\ ListInv
  BY DEF Inv
<1>2. pc \notin Faults => PositionInv
  BY <1>1 DEF ListInv
<1>3. CASE \/ NoConnection \/ SkipTablet \/ EndReady \/ CheckAlive \/ CheckNoState
           \/ EndRunning \/ FreedAccess \/ StillRunning \/ EndFrame
           \/ UNCHANGED vars \/ \E j \in Jobs : WorkerFault(j)
  BY <1>1, <1>3, TypeQuiet, ListQuiet DEF Inv
<1>4. CASE \E t \in Tablets : AcceptConn(t)
  BY <1>4, TypeAccept, ListAccept DEF Inv
<1>5. CASE \E t \in Tablets : \/ RefuseTransaction(t)
                              \/ StartTransaction(t)
                              \/ StartUnknownSend(t)
  BY <1>1, <1>5, TypeBeginning, ListBeginning DEF Inv
<1>6. CASE CheckKill \/ \E s \in Slots : KillButton(s)
  BY <1>1, <1>6, KillStep DEF Inv
<1>7. CASE CheckReady \/ CheckRunning
  BY <1>1, <1>2, <1>7, TypeChecking, ListResult DEF Inv, CheckReady, CheckRunning, Faults
<1>8. CASE DropInvalid \/ FinishTransaction
  BY <1>1, <1>8, TypeFinishing, ListQuiet, ListResult DEF Inv
<1>9. CASE Erase
  BY <1>1, <1>2, <1>9, TypeErase, ListErase DEF Inv, Erase, Faults
<1>10. CASE \/ KillAllSockets("accept") \/ KillAllSockets("ended")
            \/ GetRunning \/ ClearAll
  <2>1. PositionInv
    BY <1>2, <1>10 DEF KillAllSockets, GetRunning, ClearAll, Faults
  <2> QED
    BY <1>1, <1>10, <2>1, TypeKillAll, ListKillAll DEF Inv
<1>11. CASE \E j \in Jobs : Works(j)
  BY <1>1, <1>11, TypeWorker, ListWorker DEF Inv
<1>12. CASE \E t \in Tablets : Tablet(t)
  BY <1>1, <1>12, TypeTablet, ListTablet DEF Inv
<1> QED
  BY <1>3, <1>4, <1>5, <1>6, <1>7, <1>8, <1>9, <1>10, <1>11, <1>12
     DEF Next, Main, Accepting, Beginning, Checking, Finishing, Killing, User, Worker,
         Works, Halted

\* So it always holds.
LEMMA Invariance == Spec => []Inv
  BY Initially, Preserved, PTL DEF Spec

\* Every variable keeps its type, whatever the number of connections, requests
\* and kills: size() never exceeds the connections made, and every address kept
\* is an element's or that of a freed buffer.
THEOREM TypeCorrect == Spec => []TypeOK
<1>1. Inv => TypeOK
  BY DEF Inv
<1> QED
  BY <1>1, Invariance, PTL

\* acceptConn, killSocket and killAllSockets keep connectedTablets and the open
\* sockets the same between frames: none leaks, none closed stays listed.
THEOREM ListedIsOpen == Spec => []OpenIsListed
<1>1. Inv => OpenIsListed
  <2> SUFFICES ASSUME Inv, pc \in {"accept", "ui", "ended"}
               PROVE  /\ InList = Open
                      /\ \A r, s \in 1 .. size : slot[r].sock = slot[s].sock => r = s
    BY DEF OpenIsListed, Open
  <2>1. DistinctInv /\ OpenInv /\ Occupied = 1 .. size /\ ~Refused /\ pc # "getAll"
    BY DEF Inv, ListInv, Faults, Occupied, Refused
  <2> QED
    BY <2>1 DEF DistinctInv, OpenInv, InList
<1> QED
  BY <1>1, Invariance, PTL

-----------------------------------------------------------------------------
(* The transactions: the workers, the list runningTransactions and the flags, *)
(* while no element has been moved under a live transaction, and that the     *)
(* bookkeeping implements TabletPool.  The inductive invariant for that:      *)

\* The transaction in slot s is being started by the ready loop.
Starting(s) == pc \in {"check", "poll"} /\ idx = s

\* Every future that is held has a shared state of its own, made for the tablet
\* of its element.
FutureInv ==
  /\ \A s \in 1 .. size : slot[s].fut # 0 => job[slot[s].fut].state # "free"
  /\ \A r, s \in 1 .. size : slot[r].fut = slot[s].fut /\ slot[r].fut # 0 => r = s
  /\ \A s \in Occupied : slot[s].fut # 0 => job[slot[s].fut].owner = slot[s].sock

\* A worker runs on the element that waits for it, and erase() only ever works
\* behind such elements.
WorkerInv ==
  \A j \in LiveJobs :
    /\ job[j].at \in 1 .. size /\ slot[job[j].at].fut = j
    /\ slot[job[j].at].busy \/ Starting(job[j].at)
    /\ pc = "erase" => job[j].at < victim

\* runningTransactions holds the busy elements, each once, each with a future
\* until killAllSockets has taken it.
RunningInv ==
  /\ pc \in Phases =>
       /\ \A k \in DOMAIN running : running[k] \in 1 .. size
       /\ \A k, l \in DOMAIN running : running[k] = running[l] => k = l
  /\ pc \in Phases \ {"getAll"} =>
       /\ \A k \in DOMAIN running : slot[running[k]].fut # 0
       /\ \A k \in DOMAIN running : slot[running[k]].parent = running[k]
       /\ {running[k] : k \in DOMAIN running} = {s \in 1 .. size : slot[s].busy}
  /\ pc = "getAll" => \A k \in DOMAIN running : k >= idx => slot[running[k]].fut # 0
  /\ pc = "erase" => \A k \in DOMAIN running : running[k] < victim

\* What initReadyTransaction leaves in the element it has just started.
StartingInv ==
  /\ pc \in {"check", "poll"} =>
       /\ ~slot[idx].busy /\ slot[idx].parent = idx
       /\ slot[idx].fut = 0 => slot[idx].code \in Refusals \cup {"otherSend"}
       /\ pc = "poll" => slot[idx].code \notin Refusals

\* The flag of a read is cleared exactly when its worker has given up.
GaveUp(e) == e.state = "failing" \/ (e.state = "done" /\ e.val = "failed")
FlagInv ==
  \A s \in 1 .. size :
    slot[s].code \in Reads /\ slot[s].fut # 0 =>
      /\ job[slot[s].fut].reads
      /\ slot[s].ok <=> ~GaveUp(job[slot[s].fut])

\* How the program can have ended.
EndInv ==
  /\ pc # "freed_memory"
  /\ pc = "no_state" => slot[idx].code = "otherSend"
  /\ pc = "bad_optional_access" =>
       \E s \in 1 .. size : slot[s].code \in {"match", "matchList"} /\ Taken(s, "failed")
  /\ pc = "exception" => \E s \in 1 .. size : Taken(s, "thrown")

Calm == FutureInv /\ WorkerInv /\ RunningInv /\ StartingInv /\ FlagInv /\ EndInv /\ ~mixed
WorkInv == ~disturbed => Calm

-----------------------------------------------------------------------------
(* Facts about single states *)

\* Every element listed lies in the memory, and has its type.
LEMMA InMemory ==
  ASSUME TypeOK
  PROVE  /\ size \in 0 .. N /\ N \in Nat /\ 1 .. size \subseteq Slots
         /\ \A s \in 1 .. size : s \in Slots /\ slot[s] \in Elements /\ slot[s].fut \in {0} \cup Jobs
         /\ Occupied \subseteq 1 .. size
<1>1. size \in 0 .. N /\ slot \in [Slots -> Elements] /\ 1 .. size \subseteq Slots
  BY OccupiedSlots DEF TypeOK
<1>2. \A s \in Slots : slot[s] \in Elements
  BY <1>1
<1>3. \A e \in Elements : e.fut \in {0} \cup Jobs
  BY DEF Elements
<1> QED
  BY <1>1, <1>2, <1>3, CountType DEF Occupied

\* Different parts of the invariant read the same state when nothing moves.
Unmoved == UNCHANGED <<slot, size, running, job, disturbed, mixed>>

\* The places of the GUI thread between two elements.
Plain == {"accept", "ready", "running", "ui"}

\* While all is calm no address is of freed memory, so nothing ends there.
LEMMA NoFreedAccess ==
  ASSUME TypeOK, Calm
  PROVE  ~FreedAccess /\ ~DropInvalid /\ \A j \in Jobs : ~WorkerFault(j)
<1>1. ASSUME pc = "running", idx <= Len(running)
      PROVE  /\ running[idx] \in 1 .. size /\ slot[running[idx]].fut # 0
             /\ slot[running[idx]].parent = running[idx]
  <2>1. idx \in DOMAIN running
    BY <1>1 DEF TypeOK
  <2> QED
    BY <1>1, <2>1 DEF Calm, RunningInv, Phases
<1>2. ~FreedAccess
  BY <1>1 DEF FreedAccess, Dangling
<1>3. ~DropInvalid
  BY <1>1 DEF DropInvalid, Invalid
<1>4. ASSUME NEW j \in Jobs
      PROVE  ~WorkerFault(j)
  BY DEF WorkerFault, Calm, WorkerInv, LiveJobs, Dangling
<1> QED
  BY <1>2, <1>3, <1>4

-----------------------------------------------------------------------------
(* Steps that move the GUI thread only *)

\* From element to element and from loop to loop, into killAllSockets too.
LEMMA WorkPlain ==
  ASSUME TypeOK, Calm, Unmoved, pc \in Plain, pc' \in Plain \cup {"getAll"}
  PROVE  Calm'
<1>1. Occupied = 1 .. size /\ Occupied' = 1 .. size
  BY DEF Occupied, Unmoved, Plain
<1>2. FutureInv'
  BY <1>1 DEF Calm, FutureInv, Unmoved
<1>3. WorkerInv'
  <2>1. LiveJobs' = LiveJobs
    BY DEF LiveJobs, Live, Unmoved
  <2> QED
    BY <2>1 DEF Calm, WorkerInv, Unmoved, Starting, Plain
<1>4. RunningInv'
  BY DEF Calm, RunningInv, Unmoved, Plain, Phases
<1>5. StartingInv' /\ FlagInv' /\ EndInv' /\ ~mixed'
  BY DEF Calm, StartingInv, FlagInv, EndInv, Unmoved, Plain
<1> QED
  BY <1>2, <1>3, <1>4, <1>5 DEF Calm

\* From the look at success to the look at the future, and out of the program
\* when there is no future.
LEMMA WorkLook ==
  ASSUME TypeOK, Calm, CheckAlive \/ CheckNoState
  PROVE  Calm'
<1>1. Unmoved /\ UNCHANGED idx /\ pc \in {"check", "poll"}
  BY DEF CheckAlive, CheckNoState, Unmoved, memVars
<1>2. CASE CheckAlive
  <2>1. pc = "check" /\ pc' = "poll" /\ slot[idx].code \notin Refusals
    BY <1>2 DEF CheckAlive
  <2>2. FutureInv' /\ FlagInv' /\ EndInv' /\ ~mixed'
    BY <1>1, <2>1 DEF Calm, FutureInv, FlagInv, EndInv, Unmoved, Occupied
  <2>3. WorkerInv'
    BY <1>1, <2>1 DEF Calm, WorkerInv, Unmoved, Starting, LiveJobs, Live
  <2>4. RunningInv'
    BY <1>1, <2>1 DEF Calm, RunningInv, Unmoved, Phases
  <2>5. StartingInv'
    BY <1>1, <2>1 DEF Calm, StartingInv, Unmoved
  <2> QED
    BY <2>2, <2>3, <2>4, <2>5 DEF Calm
<1>3. CASE CheckNoState
  <2>1. pc = "poll" /\ pc' = "no_state" /\ slot[idx].fut = 0
    BY <1>3 DEF CheckNoState
  <2>2. slot[idx].code = "otherSend"
    BY <2>1 DEF Calm, StartingInv
  <2>3. FutureInv' /\ FlagInv' /\ EndInv' /\ ~mixed'
    BY <1>1, <2>1, <2>2 DEF Calm, FutureInv, FlagInv, EndInv, Unmoved, Occupied
  <2>4. WorkerInv'
    <3>1. \A j \in LiveJobs : j # 0
      BY DEF LiveJobs, Live
    <3> QED
      BY <1>1, <2>1, <3>1 DEF Calm, WorkerInv, Unmoved, Starting, LiveJobs, Live
  <2>5. RunningInv' /\ StartingInv'
    BY <2>1 DEF RunningInv, StartingInv, Phases
  <2> QED
    BY <2>3, <2>4, <2>5 DEF Calm
<1> QED
  BY <1>2, <1>3

\* Nothing of the memory moves.
LEMMA WorkSame ==
  ASSUME Calm, Unmoved, UNCHANGED <<pc, idx, victim>>
  PROVE  Calm'
<1>1. FutureInv' /\ FlagInv' /\ EndInv' /\ ~mixed'
  BY DEF Calm, FutureInv, FlagInv, EndInv, Unmoved, Occupied, Taken
<1>2. WorkerInv'
  BY DEF Calm, WorkerInv, Unmoved, Starting, LiveJobs, Live
<1>3. RunningInv' /\ StartingInv'
  BY DEF Calm, RunningInv, StartingInv, Unmoved
<1> QED
  BY <1>1, <1>2, <1>3 DEF Calm

-----------------------------------------------------------------------------
(* acceptConn and initReadyTransaction *)

\* push_back keeps every element, and moves them only when nothing is under way.
LEMMA WorkAccept ==
  ASSUME TypeOK, TypeOK', Calm, ~disturbed', NEW t \in Tablets, AcceptConn(t)
  PROVE  Calm'
<1>1. size' = size + 1 /\ pc = "accept" /\ pc' = "ready" /\ UNCHANGED mixed
  BY DEF AcceptConn
<1>2. size = cap => running = <<>> /\ LiveJobs = {}
  BY DEF AcceptConn
<1>3. job' = job
  <2>1. CASE size = cap
    <3>1. \A j \in Jobs : ~Live(j)
      BY <1>2, <2>1 DEF LiveJobs
    <3>2. job' = [j \in Jobs |-> job[j]]
      BY <2>1, <3>1 DEF AcceptConn
    <3> QED
      BY <3>2 DEF TypeOK
  <2> QED
    BY <2>1 DEF AcceptConn
<1>4. /\ DOMAIN running' = DOMAIN running
      /\ \A k \in DOMAIN running : size # cap /\ running'[k] = running[k]
  <2>1. CASE size = cap
    <3>1. running = <<>> /\ running' = [k \in DOMAIN running |-> 0]
      BY <1>2, <2>1 DEF AcceptConn
    <3> QED
      BY <3>1
  <2> QED
    BY <2>1 DEF AcceptConn
<1>5. /\ \A s \in 1 .. size :
           /\ slot'[s].sock = slot[s].sock /\ slot'[s].busy = slot[s].busy
           /\ slot'[s].code = slot[s].code /\ slot'[s].fut = slot[s].fut
           /\ slot'[s].ok = slot[s].ok
           /\ size # cap => slot'[s].parent = slot[s].parent
      /\ slot'[size + 1] = NewTab(t)
  <2>1. size \in Nat /\ size + 1 \in Slots
    <3>1. size \in 0 .. N /\ size' \in 0 .. N /\ N \in Nat
      BY CountType DEF TypeOK
    <3> QED
      BY <1>1, <3>1 DEF Slots
  <2>2. slot'[size + 1] = NewTab(t)
    BY <2>1 DEF AcceptConn
  <2>3. ASSUME NEW s \in 1 .. size
        PROVE  slot'[s] = IF size = cap THEN [slot[s] EXCEPT !.parent = 0] ELSE slot[s]
    <3>1. s \in Slots /\ s # size + 1
      BY <2>1, InMemory
    <3> QED
      BY <3>1 DEF AcceptConn
  <2>4. \A s \in 1 .. size : slot[s] \in Elements
    BY InMemory
  <2> QED
    BY <2>2, <2>3, <2>4 DEF Elements
<1>6. slot'[size + 1].fut = 0 /\ ~slot'[size + 1].busy
  BY <1>5 DEF NewTab
<1>7. size \in Nat /\ 1 .. size' = (1 .. size) \cup {size + 1}
  BY <1>1 DEF TypeOK
<1>8. Occupied = 1 .. size /\ Occupied' = 1 .. size'
  BY <1>1 DEF Occupied
<1>9. FutureInv'
  BY <1>3, <1>5, <1>6, <1>7, <1>8 DEF Calm, FutureInv
<1>10. WorkerInv'
  BY <1>1, <1>3, <1>5, <1>7 DEF Calm, WorkerInv, LiveJobs, Live, Starting
<1>11. RunningInv'
  <2>1. /\ \A k \in DOMAIN running : running[k] \in 1 .. size
        /\ \A k, l \in DOMAIN running : running[k] = running[l] => k = l
        /\ \A k \in DOMAIN running : slot[running[k]].fut # 0
        /\ \A k \in DOMAIN running : slot[running[k]].parent = running[k]
        /\ {running[k] : k \in DOMAIN running} = {s \in 1 .. size : slot[s].busy}
    BY <1>1 DEF Calm, RunningInv, Phases
  <2>2. {s \in 1 .. size' : slot'[s].busy} = {s \in 1 .. size : slot[s].busy}
    BY <1>5, <1>6, <1>7
  <2>3. {running'[k] : k \in DOMAIN running'} = {running[k] : k \in DOMAIN running}
    BY <1>4
  <2> QED
    BY <1>1, <1>4, <1>5, <1>7, <2>1, <2>2, <2>3 DEF RunningInv
<1>12. StartingInv' /\ EndInv' /\ ~mixed'
  BY <1>1 DEF Calm, StartingInv, EndInv
<1>13. FlagInv'
  BY <1>3, <1>5, <1>6, <1>7 DEF Calm, FlagInv
<1> QED
  BY <1>9, <1>10, <1>11, <1>12, <1>13 DEF Calm

\* An element that is not busy has no worker and is not in the list.
LEMMA IdleElement ==
  ASSUME TypeOK, Calm, pc = "ready", idx \in 1 .. size, ~slot[idx].busy
  PROVE  /\ ~Live(slot[idx].fut)
         /\ \A j \in LiveJobs : job[j].at # idx
         /\ \A k \in DOMAIN running : running[k] # idx
<1>1. \A j \in LiveJobs : job[j].at \in 1 .. size /\ slot[job[j].at].fut = j /\ slot[job[j].at].busy
  BY DEF Calm, WorkerInv, Starting
<1>2. Live(slot[idx].fut) => slot[idx].fut \in LiveJobs /\ slot[idx].fut # 0
  BY InMemory DEF LiveJobs, Live
<1>3. ~Live(slot[idx].fut)
  BY <1>1, <1>2 DEF Calm, FutureInv
<1>4. \A k \in DOMAIN running : slot[running[k]].busy
  BY DEF Calm, RunningInv, Phases
<1> QED
  BY <1>1, <1>3, <1>4

\* A refused request and one nobody serves leave every future and worker alone.
LEMMA WorkRefuse ==
  ASSUME TypeOK, Calm, NEW t \in Tablets, RefuseTransaction(t) \/ StartUnknownSend(t)
  PROVE  Calm'
<1>1. /\ idx \in 1 .. size /\ ~slot[idx].busy /\ pc = "ready" /\ pc' = "check"
      /\ UNCHANGED <<idx, size, running, job, mixed>>
  BY DEF RefuseTransaction, StartUnknownSend, ReadTransactionData, TypeOK
<1>2. /\ \A s \in 1 .. size :
           /\ slot'[s].sock = slot[s].sock /\ slot'[s].busy = slot[s].busy
           /\ slot'[s].fut = slot[s].fut
           /\ s # idx => slot'[s] = slot[s]
      /\ slot'[idx].parent = idx /\ slot'[idx].code \in Refusals \cup {"otherSend"}
  <2>1. slot \in [Slots -> Elements] /\ idx \in Slots /\ 1 .. size \subseteq Slots
    BY <1>1, InMemory DEF TypeOK
  <2>2. CASE RefuseTransaction(t)
    <3>1. /\ slot' = [slot EXCEPT ![idx].parent = idx, ![idx].code = TransactionCode(t),
                                  ![idx].ok = FALSE]
          /\ TransactionCode(t) \in Refusals
      BY <2>2 DEF RefuseTransaction
    <3> QED
      BY <2>1, <3>1 DEF Elements
  <2>3. CASE StartUnknownSend(t)
    <3>1. slot' = [slot EXCEPT ![idx].parent = idx, ![idx].code = "otherSend"]
      BY <2>3 DEF StartUnknownSend
    <3> QED
      BY <2>1, <3>1 DEF Elements
  <2> QED
    BY <2>2, <2>3
<1>3. slot'[idx].code \notin Reads
  BY <1>2 DEF Refusals, Reads, TakenReads
<1>4. FutureInv'
  BY <1>1, <1>2 DEF Calm, FutureInv, Occupied
<1>5. WorkerInv'
  BY <1>1, <1>2 DEF Calm, WorkerInv, LiveJobs, Live, Starting
<1>6. RunningInv'
  <2>1. /\ \A k \in DOMAIN running : running[k] \in 1 .. size /\ running[k] # idx
        /\ \A k, l \in DOMAIN running : running[k] = running[l] => k = l
        /\ \A k \in DOMAIN running : slot[running[k]].fut # 0
        /\ \A k \in DOMAIN running : slot[running[k]].parent = running[k]
        /\ {running[k] : k \in DOMAIN running} = {s \in 1 .. size : slot[s].busy}
    BY <1>1, IdleElement DEF Calm, RunningInv, Phases
  <2>2. {s \in 1 .. size : slot'[s].busy} = {s \in 1 .. size : slot[s].busy}
    BY <1>2
  <2> QED
    BY <1>1, <1>2, <2>1, <2>2 DEF RunningInv
<1>7. StartingInv' /\ EndInv' /\ ~mixed'
  BY <1>1, <1>2, <1>3 DEF Calm, StartingInv, EndInv
<1>8. FlagInv'
  BY <1>1, <1>2, <1>3 DEF Calm, FlagInv
<1> QED
  BY <1>4, <1>5, <1>6, <1>7, <1>8 DEF Calm

\* A new worker runs on the element that waits for it; the future it replaces
\* belongs to nobody else and has no live worker.
LEMMA WorkStart ==
  ASSUME TypeOK, Calm, NEW t \in Tablets, StartTransaction(t)
  PROVE  Calm'
<1> DEFINE c == TransactionCode(t)
           old == slot[idx].fut
<1>1. /\ idx \in 1 .. size /\ ~slot[idx].busy /\ pc = "ready" /\ pc' = "check"
      /\ t = slot[idx].sock /\ c \in Reads \cup {"send"}
      /\ UNCHANGED <<idx, size, running, mixed>>
  BY DEF StartTransaction, ReadTransactionData, TypeOK
<1>2. PICK j \in FreeJobs, policy \in Launches :
        /\ job' = [i \in Jobs |->
                     IF i = j THEN NewJob(t, TransactionCode(t), policy)
                     ELSE IF i = old /\ ~Live(old) THEN NoJob ELSE job[i]]
        /\ slot' = [slot EXCEPT ![idx].parent = idx, ![idx].code = c, ![idx].fut = j,
                                ![idx].ok = ResetsSuccess(c) \/ slot[idx].ok]
  BY DEF StartTransaction
<1>3. j \in Jobs /\ j # 0 /\ job[j].state = "free"
  BY DEF FreeJobs, Jobs, NoJob
<1>4. /\ \A s \in 1 .. size :
           /\ slot'[s].sock = slot[s].sock /\ slot'[s].busy = slot[s].busy
           /\ s # idx => slot'[s] = slot[s]
      /\ slot'[idx].parent = idx /\ slot'[idx].code = c /\ slot'[idx].fut = j
      /\ c \in Reads => slot'[idx].ok
  <2>1. slot \in [Slots -> Elements] /\ idx \in Slots /\ 1 .. size \subseteq Slots
    BY <1>1, InMemory DEF TypeOK
  <2> DEFINE b == ResetsSuccess(c) \/ slot[idx].ok
  <2>2. c \in Reads => b
    BY DEF ResetsSuccess
  <2>3. slot' = [slot EXCEPT ![idx].parent = idx, ![idx].code = c, ![idx].fut = j,
                             ![idx].ok = b]
    BY <1>2
  <2> HIDE DEF b, c
  <2> QED
    BY <2>1, <2>2, <2>3 DEF Elements
<1>5. /\ ~Live(old) /\ \A i \in LiveJobs : job[i].at # idx
      /\ \A k \in DOMAIN running : running[k] # idx
  BY <1>1, IdleElement
<1>6. /\ \A s \in 1 .. size : s # idx => slot[s].fut # j
      /\ \A s \in 1 .. size : s # idx /\ slot[s].fut # 0 =>
           slot[s].fut \in Jobs /\ job'[slot[s].fut] = job[slot[s].fut]
  <2>1. \A s \in 1 .. size : slot[s].fut # j
    BY <1>3 DEF Calm, FutureInv
  <2>2. \A s \in 1 .. size : s # idx /\ slot[s].fut # 0 => slot[s].fut # old
    BY <1>1 DEF Calm, FutureInv
  <2> QED
    BY <1>2, <2>1, <2>2, InMemory
<1>7. /\ job'[j] = NewJob(t, TransactionCode(t), policy) /\ job'[j].state \in {"started", "deferred"}
      /\ job'[j].owner = t /\ job'[j].at = idx /\ job'[j].reads = (c \in Reads)
  BY <1>2, <1>3 DEF NewJob
<1>8. \A i \in LiveJobs' : i = j \/ (i \in LiveJobs /\ job'[i] = job[i])
  BY <1>2, <1>3 DEF LiveJobs, Live, NoJob
<1>9. Occupied = 1 .. size /\ Occupied' = 1 .. size
  BY <1>1 DEF Occupied
<1> HIDE DEF c, old
<1>10. FutureInv'
  BY <1>1, <1>4, <1>6, <1>7, <1>9 DEF Calm, FutureInv
<1>11. WorkerInv'
  <2>1. ASSUME NEW i \in LiveJobs', i # j
        PROVE  /\ job'[i].at \in 1 .. size /\ slot'[job'[i].at].fut = i
               /\ slot'[job'[i].at].busy
    BY <1>1, <1>4, <1>5, <1>8, <2>1 DEF Calm, WorkerInv, Starting
  <2> QED
    BY <1>1, <1>4, <1>7, <2>1 DEF WorkerInv, Starting
<1>12. RunningInv'
  <2>1. /\ \A k \in DOMAIN running : running[k] \in 1 .. size /\ running[k] # idx
        /\ \A k, l \in DOMAIN running : running[k] = running[l] => k = l
        /\ \A k \in DOMAIN running : slot[running[k]].fut # 0
        /\ \A k \in DOMAIN running : slot[running[k]].parent = running[k]
        /\ {running[k] : k \in DOMAIN running} = {s \in 1 .. size : slot[s].busy}
    BY <1>1, <1>5 DEF Calm, RunningInv, Phases
  <2>2. {s \in 1 .. size : slot'[s].busy} = {s \in 1 .. size : slot[s].busy}
    BY <1>4
  <2> QED
    BY <1>1, <1>4, <2>1, <2>2 DEF RunningInv
<1>13. StartingInv'
  BY <1>1, <1>3, <1>4, <1>7 DEF Calm, StartingInv
<1>14. FlagInv'
  <2> SUFFICES ASSUME NEW s \in 1 .. size, slot'[s].code \in Reads, slot'[s].fut # 0
               PROVE  /\ job'[slot'[s].fut].reads
                      /\ slot'[s].ok <=> ~GaveUp(job'[slot'[s].fut])
    BY <1>1 DEF FlagInv, GaveUp
  <2>1. CASE s = idx
    <3>1. slot'[s].fut = j /\ c \in Reads /\ slot'[s].ok
      BY <1>4, <2>1
    <3>2. job'[j].reads /\ ~GaveUp(job'[j])
      BY <1>7, <3>1 DEF GaveUp
    <3> QED
      BY <3>1, <3>2
  <2>2. CASE s # idx
    <3>1. slot'[s] = slot[s]
      BY <1>4, <2>2
    <3>2. slot[s].fut # 0 /\ slot[s].code \in Reads
      BY <3>1
    <3>3. job'[slot[s].fut] = job[slot[s].fut]
      BY <1>6, <2>2, <3>2
    <3>4. job[slot[s].fut].reads /\ (slot[s].ok <=> ~GaveUp(job[slot[s].fut]))
      BY <3>2 DEF Calm, FlagInv
    <3> QED
      BY <3>1, <3>3, <3>4 DEF GaveUp
  <2> QED
    BY <2>1, <2>2
<1>15. EndInv' /\ ~mixed'
  BY <1>1 DEF Calm, EndInv
<1> QED
  BY <1>10, <1>11, <1>12, <1>13, <1>14, <1>15 DEF Calm

-----------------------------------------------------------------------------
(* killSocket *)

\* An erase() that disturbs nothing works behind everything that is under way.
LEMMA WorkKill ==
  ASSUME TypeOK, Calm, ~disturbed', NEW s \in 1 .. size, NEW from \in {"ready", "ui"},
         KillSocket(s, from), UNCHANGED <<idx, size, running, job, mixed>>,
         pc \in {"check", "ui"}, pc = "check" => s = idx
  PROVE  Calm'
<1>1. pc' = "erase" /\ victim' = s /\ ~Disturbs(s)
  BY DEF KillSocket
<1>2. /\ \A k \in DOMAIN running : running[k] < s
      /\ \A j \in LiveJobs : job[j].at < s
  <2>1. \A k \in DOMAIN running : running[k] \in 1 .. size
    BY DEF Calm, RunningInv, Phases
  <2>2. \A j \in LiveJobs : job[j].at \in 1 .. size
    BY DEF Calm, WorkerInv
  <2>3. size \in Nat
    BY DEF TypeOK
  <2> QED
    BY <1>1, <2>1, <2>2, <2>3 DEF Disturbs
<1>3. \A x \in 1 .. size :
        /\ slot'[x].busy = slot[x].busy /\ slot'[x].parent = slot[x].parent
        /\ slot'[x].code = slot[x].code /\ slot'[x].fut = slot[x].fut
        /\ slot'[x].ok = slot[x].ok
        /\ x # s => slot'[x].sock = slot[x].sock
  <2>1. slot \in [Slots -> Elements] /\ s \in Slots /\ 1 .. size \subseteq Slots
    BY InMemory DEF TypeOK
  <2>2. slot' \in {slot, [slot EXCEPT ![s].sock = slot[s + 1].sock]}
    BY DEF KillSocket
  <2> QED
    BY <2>1, <2>2 DEF Elements
<1>4. Occupied = 1 .. size /\ Occupied' = 1 .. size \ {s}
  BY <1>1 DEF Occupied
<1>5. FutureInv'
  BY <1>3, <1>4 DEF Calm, FutureInv
<1>6. WorkerInv'
  BY <1>1, <1>2, <1>3 DEF Calm, WorkerInv, LiveJobs, Live, Starting
<1>7. RunningInv'
  <2>1. {x \in 1 .. size : slot'[x].busy} = {x \in 1 .. size : slot[x].busy}
    BY <1>3
  <2> QED
    BY <1>1, <1>2, <1>3, <2>1 DEF Calm, RunningInv, Phases
<1>8. StartingInv' /\ EndInv' /\ ~mixed'
  BY <1>1 DEF Calm, StartingInv, EndInv
<1>9. FlagInv'
  BY <1>3 DEF Calm, FlagInv
<1> QED
  BY <1>5, <1>6, <1>7, <1>8, <1>9 DEF Calm

\* The moves of erase() take every future along and touch nothing under way.
LEMMA WorkErase ==
  ASSUME TypeOK, PositionInv, Calm, Erase
  PROVE  Calm'
<1> DEFINE From(x) == IF x < victim THEN x ELSE x + 1
           f == slot[victim].fut
<1>1. /\ pc = "erase" /\ pc' = ret /\ ret \in {"ready", "ui"} /\ victim \in 1 .. size
      /\ size' = size - 1 /\ size \in Nat /\ UNCHANGED <<running, mixed>> /\ ~Live(f)
  BY DEF Erase, PositionInv, TypeOK
<1>2. \A x \in 1 .. size - 1 :
        /\ From(x) \in 1 .. size /\ From(x) # victim /\ slot'[x] = slot[From(x)]
        /\ x < victim => From(x) = x
        /\ ~(x < victim) => From(x) > victim
  <2>1. ASSUME NEW x \in 1 .. size - 1
        PROVE  slot'[x] = IF x \in victim .. size - 1 THEN slot[x + 1] ELSE slot[x]
    <3>1. x \in Slots /\ x # size
      BY <1>1, InMemory
    <3> QED
      BY <3>1 DEF Erase
  <2> QED
    BY <1>1, <2>1
<1>3. \A x, y \in 1 .. size - 1 : From(x) = From(y) => x = y
  BY <1>1
<1>4. \A x \in 1 .. size : x # victim /\ slot[x].fut # 0 => job'[slot[x].fut] = job[slot[x].fut]
  <2>1. \A x \in 1 .. size : x # victim /\ slot[x].fut # 0 => slot[x].fut # f
    BY <1>1 DEF Calm, FutureInv
  <2> QED
    BY <2>1, InMemory DEF Erase, Release, TypeOK
<1>5. \A j \in LiveJobs' : j \in LiveJobs /\ job'[j] = job[j]
  <2>1. job' \in {job, Release(f)} /\ job \in [Jobs -> SharedStates]
    BY DEF Erase, TypeOK
  <2> QED
    BY <2>1 DEF LiveJobs, Live, Release, NoJob
<1>6. /\ \A k \in DOMAIN running : running[k] \in 1 .. size - 1 /\ running[k] < victim
      /\ \A j \in LiveJobs : job[j].at \in 1 .. size - 1 /\ job[j].at < victim
  <2>1. \A k \in DOMAIN running : running[k] \in 1 .. size /\ running[k] < victim
    BY <1>1 DEF Calm, RunningInv, Phases
  <2>2. \A j \in LiveJobs : job[j].at \in 1 .. size /\ job[j].at < victim
    BY <1>1 DEF Calm, WorkerInv
  <2> QED
    BY <1>1, <2>1, <2>2
<1>7. Occupied = 1 .. size \ {victim} /\ Occupied' = 1 .. size - 1
  BY <1>1 DEF Occupied
<1> HIDE DEF From, f
<1>8. FutureInv'
  <2>1. \A x \in 1 .. size - 1 : slot'[x].fut # 0 =>
          /\ job'[slot'[x].fut] = job[slot[From(x)].fut]
          /\ job[slot[From(x)].fut].state # "free"
          /\ job[slot[From(x)].fut].owner = slot[From(x)].sock
    BY <1>2, <1>4, <1>7 DEF Calm, FutureInv
  <2>2. \A x, y \in 1 .. size - 1 :
          slot'[x].fut = slot'[y].fut /\ slot'[x].fut # 0 => From(x) = From(y)
    BY <1>2 DEF Calm, FutureInv
  <2>3. \A x \in 1 .. size - 1 : slot'[x] = slot[From(x)]
    BY <1>2
  <2> QED
    BY <1>1, <1>3, <1>7, <2>1, <2>2, <2>3 DEF FutureInv
<1>9. WorkerInv'
  BY <1>1, <1>2, <1>5, <1>6 DEF Calm, WorkerInv, Starting
<1>10. RunningInv'
  <2>1. /\ \A k, l \in DOMAIN running : running[k] = running[l] => k = l
        /\ \A k \in DOMAIN running : slot[running[k]].fut # 0
        /\ \A k \in DOMAIN running : slot[running[k]].parent = running[k]
        /\ {running[k] : k \in DOMAIN running} = {s \in 1 .. size : slot[s].busy}
    BY <1>1 DEF Calm, RunningInv, Phases
  <2>2. \A s \in 1 .. size : slot[s].busy => s < victim /\ s \in 1 .. size - 1
    BY <1>6, <2>1
  <2>3. {x \in 1 .. size - 1 : slot'[x].busy} = {s \in 1 .. size : slot[s].busy}
    <3>1. ASSUME NEW x \in 1 .. size - 1, slot'[x].busy
          PROVE  x \in 1 .. size /\ slot[x].busy
      BY <1>1, <1>2, <2>2, <3>1
    <3>2. ASSUME NEW x \in 1 .. size, slot[x].busy
          PROVE  x \in 1 .. size - 1 /\ slot'[x].busy
      BY <1>2, <2>2, <3>2
    <3> QED
      BY <3>1, <3>2
  <2> QED
    BY <1>1, <1>2, <1>6, <2>1, <2>3 DEF RunningInv
<1>11. StartingInv' /\ EndInv' /\ ~mixed'
  BY <1>1 DEF Calm, StartingInv, EndInv
<1>12. FlagInv'
  BY <1>1, <1>2, <1>4 DEF Calm, FlagInv
<1> QED
  BY <1>8, <1>9, <1>10, <1>11, <1>12 DEF Calm

-----------------------------------------------------------------------------
(* handleTransResult *)

\* Erasing an entry of runningTransactions moves the later ones down.
LEMMA RemoveKthEntries ==
  ASSUME NEW S, NEW q \in Seq(S), NEW k \in 1 .. Len(q)
  PROVE  /\ DOMAIN RemoveKth(q, k) = 1 .. Len(q) - 1
         /\ \A i \in 1 .. Len(q) - 1 : RemoveKth(q, k)[i] = IF i < k THEN q[i] ELSE q[i + 1]
<1>1. /\ Len(q) \in Nat /\ SubSeq(q, 1, k - 1) \in Seq(S) /\ Len(SubSeq(q, 1, k - 1)) = k - 1
      /\ SubSeq(q, k + 1, Len(q)) \in Seq(S) /\ Len(SubSeq(q, k + 1, Len(q))) = Len(q) - k
  OBVIOUS
<1> DEFINE front == SubSeq(q, 1, k - 1)
           back  == SubSeq(q, k + 1, Len(q))
<1>2. /\ \A i \in 1 .. k - 1 : front[i] = q[i]
      /\ \A i \in 1 .. Len(q) - k : back[i] = q[i + k]
  OBVIOUS
<1>3. RemoveKth(q, k) = front \o back
  BY DEF RemoveKth
<1> HIDE DEF front, back
<1>4. /\ front \o back \in Seq(S) /\ Len(front \o back) = Len(front) + Len(back)
      /\ \A i \in 1 .. Len(front) + Len(back) :
           (front \o back)[i] = IF i <= Len(front) THEN front[i] ELSE back[i - Len(front)]
  BY <1>1, ConcatProperties DEF front, back
<1>5. Len(front) = k - 1 /\ Len(back) = Len(q) - k /\ Len(q) \in Nat
  BY <1>1 DEF front, back
<1>6. ASSUME NEW i \in 1 .. Len(q) - 1
      PROVE  (front \o back)[i] = IF i < k THEN q[i] ELSE q[i + 1]
  <2>1. CASE i < k
    BY <1>2, <1>4, <1>5, <2>1
  <2>2. CASE ~(i < k)
    <3>1. (front \o back)[i] = back[i - (k - 1)] /\ i - (k - 1) \in 1 .. Len(q) - k
      BY <1>4, <1>5, <2>2
    <3>2. (i - (k - 1)) + k = i + 1
      BY <1>5
    <3> QED
      BY <1>2, <2>2, <3>1, <3>2
  <2> QED
    BY <2>1, <2>2
<1>7. DOMAIN (front \o back) = 1 .. Len(q) - 1
  BY <1>4, <1>5
<1> QED
  BY <1>3, <1>6, <1>7

\* The program ends at the result of the transaction in slot s.
EndsAt(s) ==
  /\ UNCHANGED <<slot, size, job>>
  /\ \/ /\ pc' = "bad_optional_access" /\ slot[s].code \in {"match", "matchList"}
        /\ Taken(s, "failed")
     \/ pc' = "exception" /\ Taken(s, "thrown")

\* Such an end is one of those explained.
LEMMA EndsExplained ==
  ASSUME NEW s \in 1 .. size, EndsAt(s)
  PROVE  EndInv'
  BY DEF EndsAt, EndInv, Taken

\* A result taken through the element's own parent address is the element's
\* own; only its future and flag change, and the marks to be lowered.
LEMMA ResultEffect ==
  ASSUME TypeOK, Calm, NEW s \in 1 .. size, NEW done, NEW next, pc \in {"poll", "running"},
         slot[s].fut # 0, IsReady(slot[s].fut), slot[s].parent = s,
         HandleTransResult(s, done, next), UNCHANGED size
  PROVE  /\ ~mixed'
         /\ \A x \in 1 .. size :
              /\ slot'[x].sock = slot[x].sock /\ slot'[x].parent = slot[x].parent
              /\ slot'[x].code = slot[x].code
              /\ x # s => slot'[x].fut = slot[x].fut
              /\ slot'[x].fut # 0 =>
                   /\ slot'[x].fut = slot[x].fut /\ slot'[x].ok = slot[x].ok
                   /\ job'[slot[x].fut] = job[slot[x].fut]
         /\ \A j \in LiveJobs' : j \in LiveJobs /\ job'[j] = job[j] /\ job[j].at # s
         /\ LiveJobs \subseteq LiveJobs'
         /\ \/ EndsAt(s)
            \/ /\ pc' = next
               /\ \A x \in 1 .. size : slot'[x].busy = StillBusy(slot[x].busy, x, done)
<1> DEFINE o == slot[s]
           takes == o.code \in TakenReads
           deferred == job[o.fut].state = "deferred"
<1>1. /\ s \in Slots /\ o.fut \in Jobs /\ 1 .. size \subseteq Slots
      /\ slot \in [Slots -> Elements] /\ job \in [Jobs -> SharedStates]
  BY InMemory DEF TypeOK
<1>2. job[o.fut].owner = o.sock /\ ~Dangling(o.parent) /\ slot[o.parent].sock = o.sock
  BY DEF Calm, FutureInv, Occupied, Dangling
<1>3. \A j \in LiveJobs : j # o.fut /\ job[j].at # s
  <2>1. o.fut \notin LiveJobs
    BY DEF LiveJobs, Live, IsReady
  <2> QED
    BY <2>1 DEF Calm, WorkerInv
<1>4. \A x \in 1 .. size : x # s => slot[x].fut # o.fut
  BY DEF Calm, FutureInv
<1>5. PICK v \in IF deferred THEN Outcomes(o.sock) ELSE {job[o.fut].val} :
       IF takes /\ (v = "thrown" \/ (v = "failed" /\ o.code # "info"))
       THEN /\ pc' = IF v = "thrown" THEN "exception" ELSE "bad_optional_access"
            /\ UNCHANGED <<slot, job, mixed>>
       ELSE /\ pc' = next
            /\ slot' = [x \in Slots |->
                 [slot[x] EXCEPT !.busy = StillBusy(@, x, done),
                                 !.fut = IF takes /\ x = s THEN 0 ELSE @,
                                 !.ok  = IF takes /\ deferred /\ x = s THEN v = "good" ELSE @]]
            /\ job' = IF takes THEN Release(o.fut) ELSE job
            /\ mixed' = (mixed \/ (takes /\ v = "good" /\
                                    (\/ Dangling(o.parent)
                                     \/ slot[o.parent].sock # job[o.fut].owner)))
  BY DEF HandleTransResult
<1> DEFINE ends == takes /\ (v = "thrown" \/ (v = "failed" /\ o.code # "info"))
<1>6. CASE ends
  <2>1. UNCHANGED <<slot, job, mixed>>
    BY <1>5, <1>6
  <2>2. deferred \/ job[o.fut].val = v
    BY <1>5
  <2>3. \/ v = "thrown" /\ pc' = "exception"
        \/ /\ v = "failed" /\ o.code \in {"match", "matchList"}
           /\ pc' = "bad_optional_access"
    BY <1>5, <1>6 DEF TakenReads
  <2>4. v = "thrown" \/ v = "failed" => Taken(s, v)
    BY <2>2 DEF Taken
  <2>5. EndsAt(s)
    BY <2>1, <2>3, <2>4 DEF EndsAt
  <2> QED
    BY <1>3, <2>1, <2>5 DEF Calm, LiveJobs, Live
<1>7. CASE ~ends
  <2>1. pc' = next /\ ~mixed'
    BY <1>2, <1>5, <1>7 DEF Calm
  <2>2. ASSUME NEW x \in 1 .. size
        PROVE  /\ slot'[x].sock = slot[x].sock /\ slot'[x].parent = slot[x].parent
               /\ slot'[x].code = slot[x].code
               /\ slot'[x].busy = StillBusy(slot[x].busy, x, done)
               /\ slot'[x].fut = IF takes /\ x = s THEN 0 ELSE slot[x].fut
               /\ ~(takes /\ x = s) => slot'[x].ok = slot[x].ok
    <3> DEFINE b == StillBusy(slot[x].busy, x, done)
               f == IF takes /\ x = s THEN 0 ELSE slot[x].fut
               k == IF takes /\ deferred /\ x = s THEN v = "good" ELSE slot[x].ok
    <3>1. slot'[x] = [slot[x] EXCEPT !.busy = b, !.fut = f, !.ok = k] /\ slot[x] \in Elements
      BY <1>1, <1>5, <1>7
    <3>2. /\ slot'[x].sock = slot[x].sock /\ slot'[x].parent = slot[x].parent
          /\ slot'[x].code = slot[x].code
          /\ slot'[x].busy = b /\ slot'[x].fut = f /\ slot'[x].ok = k
      <4> HIDE DEF b, f, k
      <4> QED
        BY <3>1 DEF Elements
    <3> QED
      BY <3>2
  <2>3. job' = IF takes THEN Release(o.fut) ELSE job
    BY <1>5, <1>7
  <2>4. \A x \in 1 .. size : slot[x].fut # 0 /\ ~(takes /\ x = s) =>
                               job'[slot[x].fut] = job[slot[x].fut]
    <3>1. \A x \in 1 .. size : slot[x].fut # 0 => slot[x].fut \in Jobs
      BY InMemory
    <3> QED
      BY <1>1, <1>4, <2>3, <3>1 DEF Release
  <2>5. \A j \in LiveJobs' : j \in LiveJobs /\ job'[j] = job[j]
    BY <1>1, <2>3 DEF LiveJobs, Live, Release, NoJob
  <2>6. LiveJobs \subseteq LiveJobs'
    BY <1>1, <1>3, <2>3 DEF LiveJobs, Live, Release
  <2> HIDE DEF o, takes
  <2> QED
    BY <1>3, <2>1, <2>2, <2>4, <2>5, <2>6
<1> QED
  BY <1>6, <1>7

\* A transaction that was finished before the ready loop looked again.
LEMMA WorkReady ==
  ASSUME TypeOK, PositionInv, Calm, CheckReady
  PROVE  Calm'
<1>1. /\ pc = "poll" /\ idx \in 1 .. size /\ slot[idx].fut # 0 /\ IsReady(slot[idx].fut)
      /\ HandleTransResult(idx, {}, "ready") /\ UNCHANGED <<size, running>>
  BY DEF CheckReady, PositionInv
<1>2. slot[idx].parent = idx /\ ~slot[idx].busy
  BY <1>1 DEF Calm, StartingInv
<1> DEFINE Effect ==
         /\ ~mixed'
         /\ \A x \in 1 .. size :
              /\ slot'[x].sock = slot[x].sock /\ slot'[x].parent = slot[x].parent
              /\ slot'[x].busy = slot[x].busy
              /\ slot'[x].code = slot[x].code
              /\ x # idx => slot'[x].fut = slot[x].fut
              /\ slot'[x].fut # 0 =>
                   /\ slot'[x].fut = slot[x].fut /\ slot'[x].ok = slot[x].ok
                   /\ job'[slot[x].fut] = job[slot[x].fut]
         /\ \A j \in LiveJobs' : j \in LiveJobs /\ job'[j] = job[j] /\ job[j].at # idx
         /\ EndsAt(idx) \/ pc' = "ready"
         /\ pc' \in {"bad_optional_access", "exception", "ready"}
<1>3. Effect
  BY <1>1, <1>2, ResultEffect, InMemory DEF StillBusy, Elements, EndsAt
<1> HIDE DEF Effect
<1>4. Occupied = 1 .. size /\ Occupied' = 1 .. size
  BY <1>1, <1>3 DEF Occupied, Effect
<1>5. FutureInv'
  BY <1>1, <1>3, <1>4 DEF Calm, FutureInv, Effect
<1>6. WorkerInv'
  BY <1>1, <1>3, InMemory DEF Calm, WorkerInv, Effect, Starting
<1>7. RunningInv'
  <2>1. /\ \A k \in DOMAIN running : running[k] \in 1 .. size
        /\ \A k, l \in DOMAIN running : running[k] = running[l] => k = l
        /\ \A k \in DOMAIN running : slot[running[k]].fut # 0
        /\ \A k \in DOMAIN running : slot[running[k]].parent = running[k]
        /\ {running[k] : k \in DOMAIN running} = {s \in 1 .. size : slot[s].busy}
    BY <1>1 DEF Calm, RunningInv, Phases
  <2>2. \A k \in DOMAIN running : running[k] # idx
    BY <1>2, <2>1
  <2>3. {s \in 1 .. size : slot'[s].busy} = {s \in 1 .. size : slot[s].busy}
    BY <1>3 DEF Effect
  <2> QED
    BY <1>1, <1>3, <2>1, <2>2, <2>3 DEF RunningInv, Effect, Phases
<1>8. StartingInv' /\ ~mixed'
  BY <1>3 DEF StartingInv, Effect
<1>10. EndInv'
  <2>1. CASE EndsAt(idx)
    BY <1>1, <2>1, EndsExplained
  <2>2. CASE pc' = "ready"
    BY <2>2 DEF EndInv
  <2> QED
    BY <1>3, <2>1, <2>2 DEF Effect
<1>9. FlagInv'
  BY <1>1, <1>3 DEF Calm, FlagInv, Effect
<1> QED
  BY <1>5, <1>6, <1>7, <1>8, <1>9, <1>10 DEF Calm

\* A transaction the running loop finds finished leaves the list, and its
\* element the marked ones.
LEMMA WorkFinish ==
  ASSUME TypeOK, Calm, FinishTransaction
  PROVE  Calm'
<1> DEFINE a == running[idx]
<1>1. /\ pc = "running" /\ idx \in DOMAIN running /\ IsReady(slot[a].fut)
      /\ HandleTransResult(a, {slot[a].parent}, "running") /\ UNCHANGED size
      /\ running' = RemoveKth(running, idx)
      /\ running \in Seq(0 .. N) /\ idx \in 1 .. Len(running)
  BY DEF FinishTransaction, TypeOK
<1>2. /\ \A k \in DOMAIN running : running[k] \in 1 .. size
      /\ \A k, l \in DOMAIN running : running[k] = running[l] => k = l
      /\ \A k \in DOMAIN running : slot[running[k]].fut # 0
      /\ \A k \in DOMAIN running : slot[running[k]].parent = running[k]
      /\ {running[k] : k \in DOMAIN running} = {s \in 1 .. size : slot[s].busy}
  BY <1>1 DEF Calm, RunningInv, Phases
<1>3. a \in 1 .. size /\ slot[a].fut # 0 /\ slot[a].parent = a
  BY <1>1, <1>2
<1> HIDE DEF a
<1> DEFINE Effect ==
         /\ ~mixed'
         /\ \A x \in 1 .. size :
              /\ slot'[x].sock = slot[x].sock /\ slot'[x].parent = slot[x].parent
              /\ x # a => slot'[x].busy = slot[x].busy
              /\ slot'[x].code = slot[x].code
              /\ x # a => slot'[x].fut = slot[x].fut
              /\ slot'[x].fut # 0 =>
                   /\ slot'[x].fut = slot[x].fut /\ slot'[x].ok = slot[x].ok
                   /\ job'[slot[x].fut] = job[slot[x].fut]
         /\ \A j \in LiveJobs' : j \in LiveJobs /\ job'[j] = job[j] /\ job[j].at # a
         /\ \/ EndsAt(a) /\ pc' \in {"bad_optional_access", "exception"}
            \/ pc' = "running" /\ ~slot'[a].busy
<1>4. Effect
  <2>1. \A x \in 1 .. size : slot[x].busy \in BOOLEAN
    BY InMemory DEF Elements
  <2>2. /\ ~mixed'
        /\ \A x \in 1 .. size :
             /\ slot'[x].sock = slot[x].sock /\ slot'[x].parent = slot[x].parent
             /\ slot'[x].code = slot[x].code
             /\ x # a => slot'[x].fut = slot[x].fut
             /\ slot'[x].fut # 0 =>
                  /\ slot'[x].fut = slot[x].fut /\ slot'[x].ok = slot[x].ok
                  /\ job'[slot[x].fut] = job[slot[x].fut]
        /\ \A j \in LiveJobs' : j \in LiveJobs /\ job'[j] = job[j] /\ job[j].at # a
        /\ \/ EndsAt(a)
           \/ /\ pc' = "running"
              /\ \A x \in 1 .. size : slot'[x].busy = StillBusy(slot[x].busy, x, {a})
    <3>1. HandleTransResult(a, {a}, "running") /\ IsReady(slot[a].fut)
      BY <1>1, <1>3 DEF a
    <3> QED
      BY <1>1, <1>3, <3>1, ResultEffect
  <2>3. /\ \A x \in 1 .. size : x # a => slot'[x].busy = slot[x].busy
        /\ \/ EndsAt(a) /\ pc' \in {"bad_optional_access", "exception"}
           \/ pc' = "running" /\ ~slot'[a].busy
    <3>1. CASE EndsAt(a)
      BY <3>1 DEF EndsAt
    <3>2. CASE /\ pc' = "running"
               /\ \A x \in 1 .. size : slot'[x].busy = (slot[x].busy /\ x # a)
      BY <1>3, <2>1, <3>2
    <3> QED
      BY <2>2, <3>1, <3>2 DEF StillBusy
  <2> QED
    BY <2>2, <2>3
<1> HIDE DEF Effect
<1>5. Occupied = 1 .. size /\ Occupied' = 1 .. size
  BY <1>1, <1>4 DEF Occupied, Effect
<1>6. FutureInv'
  BY <1>1, <1>4, <1>5 DEF Calm, FutureInv, Effect
<1>7. WorkerInv'
  BY <1>1, <1>4, InMemory DEF Calm, WorkerInv, Effect, Starting
<1>8. RunningInv'
  <2> SUFFICES ASSUME pc' = "running" PROVE RunningInv'
    BY <1>4 DEF RunningInv, Effect, Phases
  <2> DEFINE Old(i) == IF i < idx THEN i ELSE i + 1
  <2>1. /\ DOMAIN running' = 1 .. Len(running) - 1
        /\ \A i \in DOMAIN running' :
             /\ Old(i) \in DOMAIN running /\ Old(i) # idx /\ running'[i] = running[Old(i)]
        /\ \A i, k \in DOMAIN running' : Old(i) = Old(k) => i = k
        /\ \A k \in DOMAIN running : k # idx => \E i \in DOMAIN running' : Old(i) = k
    <3>1. /\ DOMAIN running' = 1 .. Len(running) - 1 /\ DOMAIN running = 1 .. Len(running)
          /\ \A i \in 1 .. Len(running) - 1 :
               running'[i] = IF i < idx THEN running[i] ELSE running[i + 1]
          /\ Len(running) \in Nat /\ idx \in 1 .. Len(running)
      BY <1>1, RemoveKthEntries
    <3>2. ASSUME NEW k \in 1 .. Len(running), k # idx
          PROVE  \E i \in 1 .. Len(running) - 1 : Old(i) = k
      <4>1. CASE k < idx
        BY <3>1, <4>1
      <4>2. CASE k > idx
        <5>1. k - 1 \in 1 .. Len(running) - 1 /\ Old(k - 1) = k
          BY <3>1, <4>2
        <5> QED
          BY <5>1
      <4> QED
        BY <3>1, <3>2, <4>1, <4>2
    <3>3. \A i \in 1 .. Len(running) - 1 : Old(i) \in 1 .. Len(running) /\ Old(i) # idx
      BY <3>1
    <3>4. \A i, k \in 1 .. Len(running) - 1 : Old(i) = Old(k) => i = k
      BY <3>1
    <3>5. \A i \in 1 .. Len(running) - 1 : running'[i] = running[Old(i)]
      BY <3>1
    <3> HIDE DEF Old
    <3> QED
      BY <3>1, <3>2, <3>3, <3>4, <3>5
  <2> HIDE DEF Old
  <2>2. \A i \in DOMAIN running' : running'[i] \in 1 .. size /\ running'[i] # a
    BY <1>1, <1>2, <2>1 DEF a
  <2>3. \A i, k \in DOMAIN running' : running'[i] = running'[k] => i = k
    BY <1>2, <2>1
  <2>4. \A i \in DOMAIN running' : /\ slot'[running'[i]].fut # 0
                                   /\ slot'[running'[i]].parent = running'[i]
    BY <1>2, <1>4, <2>1, <2>2 DEF Effect
  <2>5. \A i \in DOMAIN running' : slot'[running'[i]].busy
    BY <1>2, <1>4, <2>1, <2>2 DEF Effect
  <2>6. ASSUME NEW s \in 1 .. size, slot'[s].busy
        PROVE  \E i \in DOMAIN running' : running'[i] = s
    <3>1. s # a /\ slot[s].busy
      BY <1>3, <1>4, <2>6 DEF Effect
    <3>2. PICK k \in DOMAIN running : running[k] = s
      BY <1>2, <3>1
    <3> QED
      BY <2>1, <3>1, <3>2 DEF a
  <2>7. {running'[i] : i \in DOMAIN running'} = {s \in 1 .. size : slot'[s].busy}
    BY <2>2, <2>5, <2>6
  <2> QED
    BY <1>1, <2>2, <2>3, <2>4, <2>7 DEF RunningInv
<1>9. StartingInv' /\ ~mixed'
  BY <1>4 DEF StartingInv, Effect
<1>11. EndInv'
  <2>1. CASE EndsAt(a)
    BY <1>3, <2>1, EndsExplained
  <2>2. CASE pc' = "running"
    BY <2>2 DEF EndInv
  <2> QED
    BY <1>4, <2>1, <2>2 DEF Effect
<1>10. FlagInv'
  BY <1>1, <1>4 DEF Calm, FlagInv, Effect
<1> QED
  BY <1>6, <1>7, <1>8, <1>9, <1>10, <1>11 DEF Calm

\* A transaction still running enters the list, its element the marked ones.
LEMMA WorkRunning ==
  ASSUME TypeOK, PositionInv, Calm, CheckRunning
  PROVE  Calm'
<1>1. /\ pc = "poll" /\ pc' = "ready" /\ idx \in 1 .. size /\ Live(slot[idx].fut)
      /\ slot[idx].parent = idx /\ ~slot[idx].busy
      /\ running' = Append(running, idx) /\ slot' = [slot EXCEPT ![idx].busy = TRUE]
      /\ UNCHANGED <<size, job, mixed>>
  BY DEF CheckRunning, PositionInv, Calm, StartingInv, RunningAddress
<1>2. /\ \A s \in 1 .. size :
           /\ slot'[s].sock = slot[s].sock /\ slot'[s].parent = slot[s].parent
           /\ slot'[s].code = slot[s].code /\ slot'[s].fut = slot[s].fut
           /\ slot'[s].ok = slot[s].ok
           /\ s # idx => slot'[s].busy = slot[s].busy
      /\ slot'[idx].busy
  <2>1. slot \in [Slots -> Elements] /\ idx \in Slots /\ 1 .. size \subseteq Slots
    BY <1>1, InMemory DEF TypeOK
  <2> QED
    BY <1>1, <2>1 DEF Elements
<1>3. Occupied = 1 .. size /\ Occupied' = 1 .. size
  BY <1>1 DEF Occupied
<1>4. FutureInv'
  BY <1>1, <1>2, <1>3 DEF Calm, FutureInv
<1>5. WorkerInv'
  BY <1>1, <1>2 DEF Calm, WorkerInv, LiveJobs, Live, Starting
<1>6. RunningInv'
  <2>1. /\ \A k \in DOMAIN running : running[k] \in 1 .. size
        /\ \A k, l \in DOMAIN running : running[k] = running[l] => k = l
        /\ \A k \in DOMAIN running : slot[running[k]].fut # 0
        /\ \A k \in DOMAIN running : slot[running[k]].parent = running[k]
        /\ {running[k] : k \in DOMAIN running} = {s \in 1 .. size : slot[s].busy}
    BY <1>1 DEF Calm, RunningInv, Phases
  <2>2. \A k \in DOMAIN running : running[k] # idx
    BY <1>1, <2>1
  <2> DEFINE new == Len(running) + 1
  <2>3. /\ new \notin DOMAIN running /\ DOMAIN running' = DOMAIN running \cup {new}
        /\ running'[new] = idx /\ \A k \in DOMAIN running : running'[k] = running[k]
    <3>1. running \in Seq(0 .. N)
      BY DEF TypeOK
    <3>2. idx \in 0 .. N
      BY <1>1, InMemory
    <3> QED
      BY <1>1, <3>1, <3>2
  <2> HIDE DEF new
  <2>4. slot[idx].fut # 0
    BY <1>1 DEF Live
  <2>5. {running'[k] : k \in DOMAIN running'} = {s \in 1 .. size : slot'[s].busy}
    <3>1. ASSUME NEW k \in DOMAIN running'
          PROVE  running'[k] \in 1 .. size /\ slot'[running'[k]].busy
      BY <1>1, <1>2, <2>1, <2>3
    <3>2. ASSUME NEW s \in 1 .. size, slot'[s].busy
          PROVE  \E k \in DOMAIN running' : running'[k] = s
      <4>1. CASE s = idx
        BY <2>3, <4>1
      <4>2. CASE s # idx
        <5>1. slot[s].busy
          BY <1>2, <3>2, <4>2
        <5> QED
          BY <2>1, <2>3, <5>1
      <4> QED
        BY <4>1, <4>2
    <3> QED
      BY <3>1, <3>2
  <2> QED
    BY <1>1, <1>2, <2>1, <2>2, <2>3, <2>4, <2>5 DEF RunningInv
<1>7. StartingInv' /\ EndInv' /\ ~mixed'
  BY <1>1 DEF Calm, StartingInv, EndInv
<1>8. FlagInv'
  BY <1>1, <1>2 DEF Calm, FlagInv
<1> QED
  BY <1>4, <1>5, <1>6, <1>7, <1>8 DEF Calm

-----------------------------------------------------------------------------
(* killAllSockets *)

\* It always finds a future to wait for, and takes each once.
LEMMA WorkGetRunning ==
  ASSUME TypeOK, Calm, GetRunning
  PROVE  Calm'
<1> DEFINE a == running[idx]
<1>1. /\ pc = "getAll" /\ idx \in DOMAIN running /\ idx \in Nat
      /\ UNCHANGED <<size, running, mixed, victim>>
  BY DEF GetRunning, TypeOK
<1>2. /\ \A k \in DOMAIN running : running[k] \in 1 .. size
      /\ \A k, l \in DOMAIN running : running[k] = running[l] => k = l
      /\ \A k \in DOMAIN running : k >= idx => slot[running[k]].fut # 0
  BY <1>1 DEF Calm, RunningInv, Phases
<1>3. a \in 1 .. size /\ slot[a].fut # 0
  BY <1>1, <1>2
<1>15. CASE pc' = "exception"
  <2>1. UNCHANGED <<slot, job>> /\ Taken(a, "thrown")
    BY <1>3, <1>15 DEF GetRunning, Invalid, Taken
  <2>2. EndInv'
    BY <1>1, <1>3, <1>15, <2>1, EndsExplained DEF EndsAt
  <2>3. FutureInv' /\ FlagInv' /\ ~mixed'
    BY <1>1, <1>15, <2>1 DEF Calm, FutureInv, FlagInv, Occupied
  <2>4. WorkerInv'
    BY <1>1, <1>15, <2>1 DEF Calm, WorkerInv, Starting, LiveJobs, Live
  <2>5. RunningInv' /\ StartingInv'
    BY <1>15 DEF RunningInv, StartingInv, Phases
  <2> QED
    BY <2>2, <2>3, <2>4, <2>5 DEF Calm
<1> SUFFICES ASSUME pc' # "exception" PROVE Calm'
  BY <1>15
<1>4. /\ IsReady(slot[a].fut) /\ slot' = [slot EXCEPT ![a].fut = 0]
      /\ job' = Release(slot[a].fut) /\ idx' = idx + 1 /\ UNCHANGED pc
  BY <1>3 DEF GetRunning, Invalid
<1>5. /\ \A s \in 1 .. size :
           /\ slot'[s].sock = slot[s].sock /\ slot'[s].busy = slot[s].busy
           /\ slot'[s].code = slot[s].code /\ slot'[s].ok = slot[s].ok
           /\ s # a => slot'[s].fut = slot[s].fut
      /\ slot'[a].fut = 0
  <2>1. slot \in [Slots -> Elements] /\ a \in Slots /\ 1 .. size \subseteq Slots
    BY <1>3, InMemory DEF TypeOK
  <2> HIDE DEF a
  <2> QED
    BY <1>4, <2>1 DEF Elements
<1>6. \A s \in 1 .. size : s # a /\ slot[s].fut # 0 => job'[slot[s].fut] = job[slot[s].fut]
  <2>1. \A s \in 1 .. size : s # a /\ slot[s].fut # 0 => slot[s].fut # slot[a].fut
    BY <1>3 DEF Calm, FutureInv
  <2> QED
    BY <1>4, <2>1, InMemory DEF Release, TypeOK
<1>7. \A j \in LiveJobs' : j \in LiveJobs /\ job'[j] = job[j] /\ job[j].at # a
  <2>1. \A j \in LiveJobs' : j \in LiveJobs /\ job'[j] = job[j]
    BY <1>4 DEF LiveJobs, Live, Release, NoJob, TypeOK
  <2>2. slot[a].fut \notin LiveJobs
    BY <1>4 DEF LiveJobs, Live, IsReady
  <2> QED
    BY <2>1, <2>2 DEF Calm, WorkerInv
<1>8. \A k \in DOMAIN running : k >= idx + 1 => running[k] # a
  BY <1>1, <1>2
<1> HIDE DEF a
<1>9. Occupied = 1 .. size /\ Occupied' = 1 .. size
  BY <1>1, <1>4 DEF Occupied
<1>10. FutureInv'
  BY <1>1, <1>5, <1>6, <1>9 DEF Calm, FutureInv
<1>11. WorkerInv'
  BY <1>1, <1>4, <1>5, <1>7 DEF Calm, WorkerInv, Starting
<1>12. RunningInv'
  <2>1. \A k \in DOMAIN running : k >= idx + 1 => slot'[running[k]].fut # 0
    <3>1. \A k \in DOMAIN running : k \in Nat
      BY DEF TypeOK
    <3> QED
      BY <1>1, <1>2, <1>5, <1>8, <3>1
  <2> QED
    BY <1>1, <1>2, <1>4, <2>1 DEF RunningInv
<1>13. StartingInv' /\ EndInv' /\ ~mixed'
  BY <1>1, <1>4 DEF Calm, StartingInv, EndInv
<1>14. FlagInv'
  BY <1>1, <1>5, <1>6 DEF Calm, FlagInv
<1> QED
  BY <1>10, <1>11, <1>12, <1>13, <1>14 DEF Calm

\* Once everything is cleared all is calm, whatever was disturbed before.
LEMMA WorkClear ==
  ASSUME TypeOK, PositionInv, ClearAll
  PROVE  Calm'
<1>1. /\ running' = <<>> /\ size' = 0 /\ job' = [j \in Jobs |-> NoJob]
      /\ pc' \in {"accept", "ended"} /\ mixed' = FALSE
  BY DEF ClearAll, PositionInv
<1>2. LiveJobs' = {}
  BY <1>1 DEF LiveJobs, Live, NoJob
<1>3. Occupied' = {} /\ 1 .. size' = {} /\ DOMAIN running' = {}
  BY <1>1 DEF Occupied
<1>4. FutureInv' /\ FlagInv'
  BY <1>3 DEF FutureInv, FlagInv
<1>5. RunningInv'
  BY <1>1, <1>3 DEF RunningInv
<1>6. StartingInv' /\ EndInv' /\ ~mixed'
  BY <1>1 DEF StartingInv, EndInv
<1> QED
  BY <1>2, <1>4, <1>5, <1>6 DEF Calm, WorkerInv

-----------------------------------------------------------------------------
(* The workers *)

\* A worker uses its own tablet's socket and writes its own element's flag.
LEMMA OwnElement ==
  ASSUME TypeOK, Calm, NEW j \in LiveJobs
  PROVE  /\ job[j].at \in 1 .. size /\ slot[job[j].at].fut = j /\ j # 0
         /\ SocketOf(j) = job[j].owner /\ ~Orphan(j)
<1>1. /\ job[j].at \in 1 .. size /\ slot[job[j].at].fut = j
      /\ pc = "erase" => job[j].at < victim
  BY DEF Calm, WorkerInv
<1>2. job[j].at \in Occupied /\ j # 0 /\ job[j].at # 0
  BY <1>1, InMemory DEF Occupied, LiveJobs, Live, TypeOK
<1> QED
  BY <1>1, <1>2 DEF Calm, FutureInv, SocketOf, Orphan

\* None of its steps leaves its flag and its outcome apart.
LEMMA WorkWorker ==
  ASSUME TypeOK, PositionInv, Calm, NEW j \in Jobs, Works(j)
  PROVE  Calm'
<1> DEFINE a == job[j].at
<1>1. j \in LiveJobs /\ ~Stopped /\ UNCHANGED <<pc, idx, victim, size, running>>
  <2>1. j # 0
    BY CountType DEF Jobs
  <2> QED
    BY <2>1, WorkerStep DEF LiveJobs, Live, mainVars
<1>2. /\ a \in 1 .. size /\ slot[a].fut = j /\ j # 0
      /\ SocketOf(j) = job[j].owner /\ ~Orphan(j)
  BY <1>1, OwnElement
<1>3. ~mixed'
  BY <1>2, WorkerStep DEF Touches, Calm
<1>4. /\ slot' = slot \/ \E b \in BOOLEAN : slot' = [slot EXCEPT ![a].ok = b]
      /\ \/ job' \in {job, [job EXCEPT ![j].state = "working"],
                        [job EXCEPT ![j].state = "failing"]}
         \/ \E v : job' = [job EXCEPT ![j].state = "done", ![j].val = v]
  <2>1. ~Dangling(a)
    BY <1>2 DEF Dangling
  <2> QED
    BY <1>2, <2>1, WorkerStep DEF SetOk, Returned
<1>15. /\ slot \in [Slots -> Elements] /\ a \in Slots /\ 1 .. size \subseteq Slots
       /\ job \in [Jobs -> SharedStates]
  BY <1>2, InMemory DEF TypeOK
<1>5. \A s \in 1 .. size :
        /\ slot'[s].sock = slot[s].sock /\ slot'[s].busy = slot[s].busy
        /\ slot'[s].parent = slot[s].parent
        /\ slot'[s].code = slot[s].code /\ slot'[s].fut = slot[s].fut
        /\ s # a => slot'[s].ok = slot[s].ok
  <2> HIDE DEF a
  <2>1. CASE slot' = slot
    BY <2>1
  <2>2. CASE \E b \in BOOLEAN : slot' = [slot EXCEPT ![a].ok = b]
    <3>1. PICK b \in BOOLEAN : slot' = [slot EXCEPT ![a].ok = b]
      BY <2>2
    <3>2. /\ slot'[a] = [slot[a] EXCEPT !.ok = b]
          /\ \A s \in Slots : s # a => slot'[s] = slot[s]
      BY <1>15, <3>1
    <3>3. slot[a] \in Elements
      BY <1>15
    <3>4. /\ slot'[a].sock = slot[a].sock /\ slot'[a].busy = slot[a].busy
          /\ slot'[a].parent = slot[a].parent
          /\ slot'[a].code = slot[a].code /\ slot'[a].fut = slot[a].fut
      BY <3>2, <3>3 DEF Elements
    <3> QED
      BY <1>15, <3>2, <3>4
  <2> QED
    BY <1>4, <2>1, <2>2
<1>6. /\ \A i \in Jobs : i # j => job'[i] = job[i]
      /\ job'[j].owner = job[j].owner /\ job'[j].at = a /\ job'[j].reads = job[j].reads
      /\ job'[j].state # "free"
  <2>1. job[j].state # "free" /\ job[j] \in SharedStates
    BY <1>1, <1>15 DEF LiveJobs, Live
  <2>2. CASE job' = job
    BY <2>1, <2>2
  <2>3. CASE job' \in {[job EXCEPT ![j].state = "working"], [job EXCEPT ![j].state = "failing"]}
    <3>1. PICK x \in {"working", "failing"} : job' = [job EXCEPT ![j].state = x]
      BY <2>3
    <3> QED
      BY <1>15, <2>1, <3>1 DEF SharedStates
  <2>4. CASE \E v : job' = [job EXCEPT ![j].state = "done", ![j].val = v]
    <3>1. PICK v : job' = [job EXCEPT ![j].state = "done", ![j].val = v]
      BY <2>4
    <3> QED
      BY <1>15, <2>1, <3>1 DEF SharedStates
  <2> QED
    BY <1>4, <2>2, <2>3, <2>4
<1>16. slot[a].code \in Reads =>
         job[j].reads /\ (slot'[a].ok <=> ~GaveUp(job'[j]))
  <2> SUFFICES ASSUME slot[a].code \in Reads
               PROVE  job[j].reads /\ (slot'[a].ok <=> ~GaveUp(job'[j]))
    OBVIOUS
  <2>1. job[j].reads /\ (slot[a].ok <=> ~GaveUp(job[j])) /\ slot[a].ok \in BOOLEAN
    BY <1>2, InMemory DEF Calm, FlagInv, Elements
  <2>2. ~Dangling(a) /\ ~Orphan(j)
    BY <1>2 DEF Dangling
  <2>3. \A b \in BOOLEAN : SetOk(a, b) => slot'[a].ok = b
    <3>1. \A b \in BOOLEAN : [slot EXCEPT ![a].ok = b][a].ok = b
      <4> HIDE DEF a
      <4> QED
        BY <1>15 DEF Elements
    <3> QED
      BY <2>2, <3>1 DEF SetOk
  <2>4. \A v \in {"good", "failed", "thrown"} : job' = Returned(j, v) =>
          job'[j].state = "done" /\ job'[j].val = v
    BY <1>15, <2>2 DEF Returned, SharedStates
  <2>5. \A st \in {"working", "failing"} : job' = [job EXCEPT ![j].state = st] =>
          job'[j].state = st
    BY <1>15 DEF SharedStates
  <2>6. CASE WorkerBegin(j)
    BY <2>1, <2>3, <2>5, <2>6 DEF WorkerBegin, GaveUp
  <2>7. CASE WorkerReads(j)
    <3>1. SetOk(a, TRUE) /\ job' = job /\ job[j].state = "working"
      BY <2>7 DEF WorkerReads
    <3> QED
      BY <2>1, <2>3, <3>1 DEF GaveUp
  <2>8. CASE WorkerDone(j) \/ WorkerThrow(j)
    <3>1. /\ job[j].state = "working" /\ slot' = slot
          /\ \E v \in {"good", "thrown"} : job' = Returned(j, v)
      BY <2>8 DEF WorkerDone, WorkerThrow
    <3> QED
      BY <2>1, <2>4, <3>1 DEF GaveUp
  <2>9. CASE WorkerFail(j)
    BY <2>1, <2>3, <2>5, <2>9 DEF WorkerFail, GaveUp
  <2>10. CASE WorkerEnd(j)
    <3>1. /\ job[j].state = "failing" /\ job' = Returned(j, "failed")
          /\ slot' = slot \/ SetOk(a, FALSE)
      BY <2>10 DEF WorkerEnd
    <3> QED
      BY <2>1, <2>3, <2>4, <3>1 DEF GaveUp
  <2> QED
    BY <2>6, <2>7, <2>8, <2>9, <2>10 DEF Works, WorkerAnswers
<1>7. \A s \in 1 .. size : s # a /\ slot[s].fut # 0 =>
        slot[s].fut \in Jobs /\ job'[slot[s].fut] = job[slot[s].fut]
  <2>1. \A s \in 1 .. size : s # a => slot[s].fut # j
    BY <1>2 DEF Calm, FutureInv
  <2> QED
    BY <1>6, <2>1, InMemory
<1>8. \A i \in LiveJobs' : i \in LiveJobs /\ job'[i].at = job[i].at
  BY <1>1, <1>6 DEF LiveJobs, Live
<1> HIDE DEF a
<1>9. FutureInv'
  BY <1>1, <1>2, <1>5, <1>6, <1>7 DEF Calm, FutureInv, Occupied
<1>10. WorkerInv'
  BY <1>1, <1>5, <1>8 DEF Calm, WorkerInv, Starting
<1>11. RunningInv'
  <2>1. {s \in 1 .. size : slot'[s].busy} = {s \in 1 .. size : slot[s].busy}
    BY <1>5
  <2>2. pc \in Phases => \A k \in DOMAIN running : running[k] \in 1 .. size
    BY DEF Calm, RunningInv
  <2>3. ASSUME pc \in Phases, NEW k \in DOMAIN running
        PROVE  /\ slot'[running[k]].fut = slot[running[k]].fut
               /\ slot'[running[k]].parent = slot[running[k]].parent
    BY <1>5, <2>2, <2>3
  <2>4. pc = "getAll" => pc \in Phases
    BY DEF Phases
  <2> QED
    BY <1>1, <2>1, <2>3, <2>4 DEF Calm, RunningInv
<1>12. EndInv'
  BY <1>1, <1>5 DEF Calm, EndInv, Stopped, Faults
<1>13. FlagInv'
  BY <1>1, <1>2, <1>5, <1>6, <1>7, <1>16 DEF Calm, FlagInv
<1>14. StartingInv'
  <2> SUFFICES ASSUME pc \in {"check", "poll"} PROVE StartingInv'
    BY <1>1 DEF StartingInv
  <2>1. idx \in 1 .. size
    BY DEF PositionInv
  <2> QED
    BY <1>1, <1>5, <2>1 DEF Calm, StartingInv
<1> QED
  BY <1>3, <1>14, <1>9, <1>10, <1>11, <1>12, <1>13 DEF Calm

-----------------------------------------------------------------------------
(* The theorems *)

\* CheckKill erases the element just looked at.
LEMMA KilledIsLookedAt ==
  ASSUME TypeOK, ListInv, CheckKill
  PROVE  idx \in 1 .. size /\ KillSocket(idx, "ready")
<1>1. PICK s \in 1 .. idx : slot[s].sock = slot[idx].sock /\ KillSocket(s, "ready")
  BY DEF CheckKill
<1>2. pc = "check" /\ DistinctInv /\ idx \in 1 .. size
  BY DEF CheckKill, ListInv, Faults, PositionInv
<1>3. s \in 1 .. size
  BY <1>2 DEF TypeOK
<1> QED
  BY <1>1, <1>2, <1>3 DEF DistinctInv, Occupied

\* Only the end of killAllSockets ends a disturbance.
LEMMA StaysDisturbed ==
  ASSUME [Next]_vars, ~ClearAll, ~disturbed'
  PROVE  ~disturbed
<1>1. CASE KillAllSockets("accept") \/ KillAllSockets("ended") \/ GetRunning \/ Erase
  BY <1>1 DEF KillAllSockets, GetRunning, Erase
<1>2. CASE CheckKill \/ \E s \in Slots : KillButton(s)
  BY <1>2 DEF CheckKill, KillButton, KillSocket
<1>3. CASE CheckAlive \/ CheckNoState \/ CheckReady \/ CheckRunning \/ Finishing
  BY <1>3 DEF CheckAlive, CheckNoState, CheckReady, CheckRunning, Finishing,
              EndRunning, DropInvalid, FreedAccess, StillRunning, FinishTransaction
<1>4. CASE Accepting \/ Beginning \/ EndFrame \/ UNCHANGED vars
  BY <1>4 DEF Accepting, NoConnection, AcceptConn, Beginning, SkipTablet, EndReady,
              RefuseTransaction, StartTransaction, StartUnknownSend, EndFrame, vars
<1>5. CASE (\E j \in Jobs : Worker(j)) \/ \E t \in Tablets : Tablet(t)
  <2>1. (\E j \in Jobs : Works(j)) => disturbed' = disturbed
    BY WorkerStep
  <2>2. (\E j \in Jobs : WorkerFault(j)) \/ (\E t \in Tablets : Tablet(t)) =>
          disturbed' = disturbed
    BY DEF WorkerFault, Tablet, Request, TabletLink
  <2> QED
    BY <1>5, <2>1, <2>2 DEF Worker, Works
<1> QED
  BY <1>1, <1>2, <1>3, <1>4, <1>5 DEF Next, Main, User, Halted, Killing, Checking

\* Every step keeps the invariant; the only one that ends a disturbance is the
\* last of killAllSockets.
LEMMA WorkPreserved == Inv /\ WorkInv /\ [Next]_vars => WorkInv'
<1> SUFFICES ASSUME Inv, WorkInv, [Next]_vars, ~disturbed' PROVE Calm'
  BY DEF WorkInv
<1>1. TypeOK /\ TypeOK' /\ ListInv
  BY Preserved DEF Inv
<1>2. pc \notin Faults => PositionInv
  BY <1>1 DEF ListInv
<1>3. ~ClearAll => ~disturbed /\ Calm
  BY StaysDisturbed DEF WorkInv
<1>4. CASE ClearAll
  BY <1>1, <1>2, <1>4, WorkClear DEF ClearAll, Faults
<1> SUFFICES ASSUME ~ClearAll PROVE Calm'
  BY <1>4
<1>5. CASE \/ NoConnection \/ SkipTablet \/ EndReady \/ EndRunning \/ StillRunning
           \/ EndFrame \/ KillAllSockets("accept") \/ KillAllSockets("ended")
  <2>1. Unmoved
    BY <1>5 DEF Unmoved, NoConnection, SkipTablet, EndReady, EndRunning, StillRunning,
                EndFrame, KillAllSockets, memVars
  <2>2. pc \in Plain /\ pc' \in Plain \cup {"getAll"}
    BY <1>5 DEF Plain, NoConnection, SkipTablet, EndReady, EndRunning, StillRunning,
                EndFrame, KillAllSockets
  <2> QED
    BY <1>1, <1>3, <2>1, <2>2, WorkPlain
<1>6. CASE DropInvalid \/ FreedAccess \/ \E j \in Jobs : WorkerFault(j)
  BY <1>1, <1>3, <1>6, NoFreedAccess
<1>7. CASE CheckAlive \/ CheckNoState
  BY <1>1, <1>3, <1>7, WorkLook
<1>8. CASE (\E t \in Tablets : Tablet(t)) \/ UNCHANGED vars
  <2>1. Unmoved /\ UNCHANGED <<pc, idx, victim>>
    BY <1>8 DEF Unmoved, Tablet, Request, TabletLink, mainVars, memVars, vars
  <2> QED
    BY <1>3, <2>1, WorkSame
<1>9. CASE \E t \in Tablets : \/ AcceptConn(t) \/ RefuseTransaction(t)
                              \/ StartTransaction(t) \/ StartUnknownSend(t)
  BY <1>1, <1>3, <1>9, WorkAccept, WorkRefuse, WorkStart
<1>10. CASE CheckKill
  <2>1. /\ idx \in 1 .. size /\ KillSocket(idx, "ready") /\ pc = "check"
        /\ UNCHANGED <<idx, size, running, job, mixed>>
    BY <1>1, <1>10, KilledIsLookedAt DEF CheckKill
  <2> QED
    BY <1>1, <1>3, <2>1, WorkKill
<1>11. ASSUME NEW s \in Slots, KillButton(s)
       PROVE  Calm'
  <2>1. /\ s \in 1 .. size /\ KillSocket(s, "ui") /\ pc = "ui"
        /\ UNCHANGED <<idx, size, running, job, mixed>>
    BY <1>1, <1>11, CountType DEF KillButton, TypeOK, Slots
  <2> QED
    BY <1>1, <1>3, <2>1, WorkKill
<1>12. CASE Erase \/ CheckReady \/ CheckRunning \/ FinishTransaction \/ GetRunning
  <2>1. pc \in Phases
    BY <1>12 DEF Erase, CheckReady, CheckRunning, FinishTransaction, GetRunning, Phases
  <2>2. PositionInv
    BY <1>2, <2>1 DEF Phases, Faults
  <2> QED
    BY <1>1, <1>3, <1>12, <2>2, WorkErase, WorkReady, WorkRunning, WorkFinish, WorkGetRunning
<1>13. ASSUME NEW j \in Jobs, Works(j)
       PROVE  Calm'
  <2>1. PositionInv
    BY <1>2, <1>13, WorkerStep DEF Stopped
  <2> QED
    BY <1>1, <1>3, <1>13, <2>1, WorkWorker
<1> QED
  BY <1>5, <1>6, <1>7, <1>8, <1>9, <1>10, <1>11, <1>12, <1>13
     DEF Next, Main, Accepting, Beginning, Checking, Finishing, Killing, User, Worker,
         Works, Halted

\* At the start nothing is under way.
LEMMA WorkInitially == Init => WorkInv
<1> SUFFICES ASSUME Init PROVE Calm
  BY DEF WorkInv
<1>1. /\ running = <<>> /\ size = 0 /\ pc = "accept" /\ mixed = FALSE
      /\ job = [j \in Jobs |-> NoJob]
  BY DEF Init
<1>2. LiveJobs = {} /\ 1 .. size = {} /\ Occupied = {} /\ DOMAIN running = {}
  BY <1>1 DEF LiveJobs, Live, NoJob, Occupied
<1>3. FutureInv /\ FlagInv /\ RunningInv
  BY <1>1, <1>2 DEF FutureInv, FlagInv, RunningInv
<1>4. StartingInv /\ EndInv /\ ~mixed
  BY <1>1 DEF StartingInv, EndInv
<1> QED
  BY <1>2, <1>3, <1>4 DEF Calm, WorkerInv

\* So it always holds, with the one of the list.
LEMMA WorkInvariance == Spec => [](Inv /\ WorkInv)
  BY Initially, WorkInitially, Preserved, WorkPreserved, PTL DEF Spec

\* runningTransactions and the transactionState marks agree at every point of
\* every loop until an element moves under a live transaction.
THEOREM RunningIsBusy == Spec => []RunningMatchesBusy
<1>1. Inv /\ WorkInv => RunningMatchesBusy
  BY DEF Inv, WorkInv, Calm, RunningInv, RunningMatchesBusy, Dangling
<1> QED
  BY <1>1, WorkInvariance, PTL

\* Until then std::async workers and the GUI thread never share a socket, and
\* no result is taken for another tablet's.
THEOREM WorkersApart == Spec => []OneWorkerPerSocket
<1>1. Inv /\ WorkInv => OneWorkerPerSocket
  <2> SUFFICES ASSUME Inv, WorkInv, ~disturbed PROVE OneWorkerPerSocket
    BY DEF OneWorkerPerSocket
  <2>1. TypeOK /\ Calm
    BY DEF Inv, WorkInv
  <2> QED
    BY <2>1, OwnElement DEF OneWorkerPerSocket, Calm, WorkerInv, Starting, Dangling
<1> QED
  BY <1>1, WorkInvariance, PTL

\* Until then, at every moment a finished read can be taken by
\* handleTransResult, success is cleared exactly if the worker gave up; after an
\* exception in the worker it is still set.
THEOREM FlagsAgree == Spec => []FlagAgreesWithResult
<1>1. Inv /\ WorkInv => FlagAgreesWithResult
  BY DEF WorkInv, Calm, FlagInv, FlagAgreesWithResult, Reads, GaveUp
<1> QED
  BY <1>1, WorkInvariance, PTL

\* Until then handleReadyConnections kills a tablet it has just started to read
\* from only when the worker of that very read has given up, though it may still
\* be sending its NCK.
THEOREM KilledForItsOwnFailure == Spec => []ReadKilledOnItsOwnFailure
<1>1. Inv /\ WorkInv => ReadKilledOnItsOwnFailure
  <2> SUFFICES ASSUME Inv, WorkInv, ~disturbed, pc = "check",
                      slot[idx].code \in Reads, ~slot[idx].ok
               PROVE  /\ job[slot[idx].fut].owner = slot[idx].sock
                      /\ job[slot[idx].fut].reads /\ GaveUp(job[slot[idx].fut])
    BY DEF ReadKilledOnItsOwnFailure, GaveUp
  <2>1. TypeOK /\ Calm /\ idx \in 1 .. size /\ Occupied = 1 .. size
    BY DEF Inv, WorkInv, ListInv, PositionInv, Faults, Occupied
  <2>2. slot[idx].fut # 0
    BY <2>1 DEF Calm, StartingInv, Refusals, Reads, TakenReads
  <2> QED
    BY <2>1, <2>2 DEF Calm, FlagInv, FutureInv
<1> QED
  BY <1>1, WorkInvariance, PTL

\* Until then no freed address is ever followed; an invalid future is met only
\* after a send code nobody serves, an empty optional only after a read of a match
\* or a match list failed, an exception only after a worker threw (or the read
\* was deferred and did so inside get()).
THEOREM FaultsExplained == Spec => []FaultCauses
<1>1. Inv /\ WorkInv => FaultCauses
  BY DEF WorkInv, Calm, EndInv, FaultCauses
<1> QED
  BY <1>1, WorkInvariance, PTL

-----------------------------------------------------------------------------
(* TabletPool *)

\* What TabletState tells of a tablet.
Listed(t)   == t \in InList
Working(t)  == \E j \in LiveJobs : job[j].owner = t
Answered(t) == \E s \in 1 .. size : slot[s].sock = t /\ (slot[s].busy \/ Starting(s))
Known(t)    == link[t] # "off"

\* A listed tablet sits in one slot that decides its state.
LEMMA StateOf ==
  ASSUME NEW t
  PROVE  TabletState(t) = IF ~Listed(t) THEN IF ~Known(t) THEN "absent" ELSE "gone"
                          ELSE IF Working(t) THEN "working"
                          ELSE IF Answered(t) THEN "answered" ELSE "idle"
  BY DEF TabletState, Listed, Working, Answered, Known, Starting

\* A tablet none of this changes for keeps its state.
LEMMA SameState ==
  ASSUME NEW t, Listed(t)' <=> Listed(t), Known(t)' <=> Known(t),
         Working(t)' <=> Working(t), Answered(t)' <=> Answered(t)
  PROVE  TabletState(t)' = TabletState(t)
  BY DEF TabletState, Listed, Working, Answered, Known, Starting

\* One tablet moves, the others stay.
LEMMA PoolMove ==
  ASSUME ~disturbed, ~disturbed', NEW t \in Tablets, NEW from, NEW to,
         TabletState(t) \in from, TabletState(t)' \in to,
         \A u \in Tablets \ {t} : TabletState(u)' = TabletState(u)
  PROVE  Pool!Move(t, from, to)
<1> DEFINE state == [u \in Tablets |-> TabletState(u)]
<1>1. state' = [state EXCEPT ![t] = TabletState(t)']
  OBVIOUS
<1>2. state[t] \in from
  OBVIOUS
<1> QED
  BY <1>1, <1>2 DEF Pool!Move

\* None moves.
LEMMA PoolStays ==
  ASSUME disturbed' = disturbed, \A t \in Tablets : TabletState(t)' = TabletState(t)
  PROVE  UNCHANGED Pool!poolVars
  BY DEF Pool!poolVars

\* A step that keeps the list, the workers and the marks.
LEMMA KeepsStates ==
  ASSUME disturbed' = disturbed, size' = size,
         \A s \in 1 .. size : /\ slot'[s].sock = slot[s].sock
                              /\ (slot'[s].busy \/ Starting(s)') <=> (slot[s].busy \/ Starting(s)),
         LiveJobs' = LiveJobs, \A j \in LiveJobs : job'[j].owner = job[j].owner,
         \A t \in Tablets : (link'[t] = "off") <=> (link[t] = "off")
  PROVE  UNCHANGED Pool!poolVars
<1> SUFFICES ASSUME NEW t \in Tablets PROVE TabletState(t)' = TabletState(t)
  BY PoolStays
<1>1. Listed(t)' <=> Listed(t)
  BY DEF Listed, InList
<1>2. Working(t)' <=> Working(t)
  BY DEF Working
<1>3. Answered(t)' <=> Answered(t)
  BY DEF Answered
<1> QED
  BY <1>1, <1>2, <1>3, SameState DEF Known

\* While all is calm, a tablet works when the future in its slot is live.
LEMMA WorkingSlot ==
  ASSUME TypeOK, ListInv, Calm, pc \notin Faults, NEW s \in Occupied
  PROVE  /\ Working(slot[s].sock) <=> slot[s].fut \in LiveJobs
         /\ \A j \in LiveJobs : job[j].owner = slot[s].sock => slot[s].fut = j /\ job[j].at = s
<1>1. ASSUME NEW j \in LiveJobs
      PROVE  /\ job[j].at \in Occupied /\ slot[job[j].at].fut = j
             /\ job[j].owner = slot[job[j].at].sock
  <2>1. job[j].at \in Occupied /\ slot[job[j].at].fut = j /\ j # 0
    BY InMemory, OwnElement DEF Calm, WorkerInv, Occupied
  <2> QED
    BY <2>1 DEF Calm, FutureInv
<1>2. \A j \in LiveJobs : job[j].owner = slot[s].sock => slot[s].fut = j /\ job[j].at = s
  BY <1>1 DEF ListInv, DistinctInv
<1>3. slot[s].fut \in LiveJobs => job[slot[s].fut].owner = slot[s].sock
  BY DEF Calm, FutureInv, LiveJobs, Live
<1> QED
  BY <1>2, <1>3 DEF Working

\* Connections make a tablet idle.
LEMMA PoolConnect ==
  ASSUME TypeOK, TypeOK', ListInv, Calm, ~disturbed, ~disturbed',
         NEW t \in Tablets, AcceptConn(t)
  PROVE  Pool!Connect(t)
<1>1. /\ pc = "accept" /\ pc' = "ready" /\ link[t] = "off" /\ size' = size + 1
      /\ link' = [link EXCEPT ![t] = "up"] /\ size \in Nat
  <2>1. size \in 0 .. N
    BY DEF TypeOK
  <2>2. /\ pc = "accept" /\ pc' = "ready" /\ link[t] = "off" /\ size' = size + 1
        /\ link' = [link EXCEPT ![t] = "up"]
    BY Zenon DEF AcceptConn
  <2> QED
    BY <2>1, <2>2, CountType
<1>2. DistinctInv /\ LinkedInv /\ Occupied = 1 .. size
  BY <1>1 DEF ListInv, Faults, Occupied
<1>3. /\ \A s \in 1 .. size : slot'[s].sock = slot[s].sock /\ slot'[s].busy = slot[s].busy
      /\ slot'[size + 1] = NewTab(t) /\ 1 .. size' = (1 .. size) \cup {size + 1}
  <2>1. size + 1 \in Slots /\ 1 .. size' = (1 .. size) \cup {size + 1}
    <3>1. size \in 0 .. N /\ size' \in 0 .. N /\ N \in Nat
      BY CountType DEF TypeOK
    <3> QED
      BY <1>1, <3>1 DEF Slots
  <2>2. \A s \in 1 .. size : s \in Slots /\ s # size + 1 /\ slot[s] \in Elements
    BY <1>1, InMemory
  <2>3. \A s \in 1 .. size : slot'[s] \in {slot[s], [slot[s] EXCEPT !.parent = 0]}
    BY <2>2 DEF AcceptConn
  <2>4. \A s \in 1 .. size : /\ [slot[s] EXCEPT !.parent = 0].sock = slot[s].sock
                             /\ [slot[s] EXCEPT !.parent = 0].busy = slot[s].busy
    BY <2>2 DEF Elements
  <2>5. slot'[size + 1] = NewTab(t)
    BY <2>1 DEF AcceptConn
  <2> QED
    BY <2>1, <2>3, <2>4, <2>5
<1>4. slot'[size + 1].sock = t /\ ~slot'[size + 1].busy
  BY <1>3 DEF NewTab
<1>5. job' = job \/ LiveJobs = {}
  BY DEF AcceptConn
<1>6. LiveJobs' = LiveJobs /\ \A j \in LiveJobs : job'[j].owner = job[j].owner
  <2>1. CASE job' = job
    BY <2>1 DEF LiveJobs, Live
  <2>2. CASE job' # job
    <3>1. size = cap /\ \A j \in Jobs : ~Live(j)
      BY <1>5, <2>2 DEF AcceptConn, LiveJobs
    <3>2. job' = [j \in Jobs |-> job[j]]
      BY <3>1 DEF AcceptConn
    <3> QED
      BY <2>2, <3>2 DEF TypeOK
  <2> QED
    BY <2>1, <2>2
<1>7. ~Listed(t) /\ ~Known(t) /\ Listed(t)' /\ ~Working(t)'
  <2>1. ~Listed(t) /\ ~Known(t)
    BY <1>1, <1>2 DEF Listed, InList, Known, LinkedInv
  <2>2. Listed(t)'
    BY <1>3, <1>4 DEF Listed, InList
  <2>3. \A j \in LiveJobs : job[j].owner # t
    <3>1. \A j \in LiveJobs : job[j].at \in 1 .. size /\ SocketOf(j) = job[j].owner
      BY OwnElement
    <3>2. \A j \in LiveJobs : SocketOf(j) = slot[job[j].at].sock
      <4>1. \A j \in LiveJobs : job[j].at # 0
        BY <1>1, <3>1
      <4> QED
        BY <4>1 DEF SocketOf
    <3> QED
      BY <2>1, <3>1, <3>2 DEF Listed, InList
  <2> QED
    BY <1>6, <2>1, <2>2, <2>3 DEF Working
<1>8. ~Answered(t)'
  <2>1. \A s \in 1 .. size : slot'[s].sock # t
    BY <1>3, <1>7 DEF Listed, InList
  <2> QED
    BY <1>1, <1>3, <1>4, <2>1 DEF Answered, Starting
<1>9. TabletState(t) = "absent" /\ TabletState(t)' = "idle"
  BY <1>7, <1>8 DEF TabletState, Listed, Working, Answered, Known, Starting
<1>10. ASSUME NEW u \in Tablets \ {t}
       PROVE  TabletState(u)' = TabletState(u)
  <2>1. Listed(u)' <=> Listed(u)
    BY <1>3, <1>4 DEF Listed, InList
  <2>2. Answered(u)' <=> Answered(u)
    BY <1>1, <1>3, <1>4 DEF Answered, Starting
  <2>3. Working(u)' <=> Working(u)
    BY <1>6 DEF Working
  <2>4. Known(u)' <=> Known(u)
    BY <1>1 DEF Known, TypeOK
  <2> QED
    BY <2>1, <2>2, <2>3, <2>4, SameState
<1> QED
  BY <1>9, <1>10, PoolMove DEF Pool!Connect

\* The ready loop starts a transaction with an idle tablet.
LEMMA PoolStart ==
  ASSUME TypeOK, ListInv, Calm, ~disturbed, ~disturbed', NEW t \in Tablets,
         RefuseTransaction(t) \/ StartTransaction(t) \/ StartUnknownSend(t)
  PROVE  Pool!Start(t)
<1>1. /\ pc = "ready" /\ pc' = "check" /\ idx \in 1 .. size /\ t = slot[idx].sock
      /\ ~slot[idx].busy /\ UNCHANGED <<idx, size, link>>
  <2>1. idx \in Nat \ {0} /\ size \in 0 .. N
    BY DEF TypeOK
  <2>2. ReadTransactionData(t) /\ UNCHANGED <<idx, size, link>>
    BY DEF RefuseTransaction, StartTransaction, StartUnknownSend
  <2> QED
    BY <2>1, <2>2, CountType DEF ReadTransactionData
<1>2. DistinctInv /\ Occupied = 1 .. size /\ pc \notin Faults
  BY <1>1 DEF ListInv, Faults, Occupied
<1>3. \A s \in 1 .. size : slot'[s].sock = slot[s].sock /\ slot'[s].busy = slot[s].busy
  <2>1. slot \in [Slots -> Elements] /\ idx \in Slots /\ 1 .. size \subseteq Slots
    BY <1>1, InMemory DEF TypeOK
  <2>2. CASE RefuseTransaction(t)
    <3>1. slot' = [slot EXCEPT ![idx].parent = idx, ![idx].code = TransactionCode(t),
                               ![idx].ok = FALSE]
      BY <2>2 DEF RefuseTransaction
    <3> QED
      BY <2>1, <3>1 DEF Elements
  <2>3. CASE StartTransaction(t)
    <3>1. PICK j : slot' = [slot EXCEPT ![idx].parent = idx, ![idx].code = TransactionCode(t),
                              ![idx].fut = j, ![idx].ok = ResetsSuccess(TransactionCode(t)) \/ @]
      BY <2>3 DEF StartTransaction
    <3> QED
      BY <2>1, <3>1 DEF Elements
  <2>4. CASE StartUnknownSend(t)
    <3>1. slot' = [slot EXCEPT ![idx].parent = idx, ![idx].code = "otherSend"]
      BY <2>4 DEF StartUnknownSend
    <3> QED
      BY <2>1, <3>1 DEF Elements
  <2> QED
    BY <2>2, <2>3, <2>4
<1>4. ASSUME NEW u \in Tablets, u # t
      PROVE  Working(u)' <=> Working(u)
  <2>1. CASE RefuseTransaction(t) \/ StartUnknownSend(t)
    BY <2>1 DEF Working, RefuseTransaction, StartUnknownSend, LiveJobs, Live
  <2>2. CASE StartTransaction(t)
    <3>1. PICK j \in FreeJobs, policy \in Launches :
            job' = [i \in Jobs |->
                      IF i = j THEN NewJob(t, TransactionCode(t), policy)
                      ELSE IF i = slot[idx].fut /\ ~Live(slot[idx].fut) THEN NoJob ELSE job[i]]
      BY <2>2 DEF StartTransaction
    <3>2. j \in Jobs /\ job[j] = NoJob /\ job'[j].owner = t
      BY <3>1 DEF FreeJobs, NewJob
    <3>3. \A i \in Jobs : i # j => (i \in LiveJobs' <=> i \in LiveJobs)
      BY <3>1 DEF LiveJobs, Live, NoJob
    <3>4. \A i \in LiveJobs : i # j /\ job'[i] = job[i]
      BY <3>1, <3>2 DEF LiveJobs, Live, NoJob
    <3> QED
      BY <1>4, <3>2, <3>3, <3>4 DEF Working, LiveJobs
  <2> QED
    BY <2>1, <2>2
<1>5. TabletState(t) = "idle"
  <2>1. Listed(t)
    BY <1>1 DEF Listed, InList
  <2>2. ~Working(t)
    <3>1. slot[idx].fut \notin LiveJobs
      BY <1>1, IdleElement DEF LiveJobs
    <3> QED
      BY <1>1, <1>2, <3>1, WorkingSlot
  <2>3. ~Answered(t)
    BY <1>1, <1>2 DEF Answered, Starting, DistinctInv
  <2> QED
    BY <2>1, <2>2, <2>3, StateOf
<1>6. TabletState(t)' \in {"working", "answered"}
  <2>1. Listed(t)' /\ Answered(t)'
    BY <1>1, <1>3 DEF Listed, InList, Answered, Starting
  <2> QED
    BY <2>1 DEF TabletState, Listed, Answered, Starting
<1>7. ASSUME NEW u \in Tablets \ {t}
      PROVE  TabletState(u)' = TabletState(u)
  <2>1. Listed(u)' <=> Listed(u)
    BY <1>1, <1>3 DEF Listed, InList
  <2>2. Answered(u)' <=> Answered(u)
    BY <1>1, <1>3 DEF Answered, Starting
  <2> QED
    BY <1>1, <1>4, <2>1, <2>2, SameState DEF Known
<1> QED
  BY <1>5, <1>6, <1>7, PoolMove DEF Pool!Start

\* The element at hand in the ready loop holds an answered tablet, unless its
\* worker still runs.
LEMMA LookedAt ==
  ASSUME TypeOK, ListInv, Calm, pc \in {"check", "poll"}, slot[idx].fut \notin LiveJobs
  PROVE  TabletState(slot[idx].sock) = "answered"
<1>1. idx \in 1 .. size /\ Occupied = 1 .. size /\ pc \notin Faults
  BY DEF ListInv, PositionInv, Faults, Occupied
<1>2. Listed(slot[idx].sock) /\ Answered(slot[idx].sock)
  BY <1>1 DEF Listed, InList, Answered, Starting
<1>3. ~Working(slot[idx].sock)
  BY <1>1, WorkingSlot
<1> QED
  BY <1>2, <1>3, StateOf

\* A transaction found settled makes its tablet idle.
LEMMA PoolSettleAtOnce ==
  ASSUME TypeOK, ListInv, Calm, ~disturbed, CheckReady \/ CheckNoState,
         NEW t \in Tablets, slot[idx].sock = t
  PROVE  Pool!Settle(t)
<1>1. /\ pc = "poll" /\ pc' \in {"ready", "bad_optional_access", "exception", "no_state"}
      /\ slot[idx].fut \notin LiveJobs
      /\ UNCHANGED <<size, link, disturbed>>
  BY DEF CheckReady, CheckNoState, HandleTransResult, IsReady, LiveJobs, Live, memVars, envVars
<1>2. /\ idx \in 1 .. size /\ DistinctInv /\ LinkedInv /\ Occupied = 1 .. size
      /\ PositionInv /\ pc \notin Faults
      /\ slot[idx].parent = idx /\ ~slot[idx].busy
  BY <1>1 DEF ListInv, PositionInv, Faults, Occupied, Calm, StartingInv
<1>3. /\ \A s \in 1 .. size : slot'[s].sock = slot[s].sock /\ slot'[s].busy = slot[s].busy
      /\ LiveJobs' = LiveJobs /\ \A j \in LiveJobs : job'[j].owner = job[j].owner
  <2>1. CASE CheckNoState
    BY <2>1 DEF CheckNoState, memVars, LiveJobs, Live
  <2>2. CASE CheckReady
    <3>1. /\ slot[idx].fut # 0 /\ IsReady(slot[idx].fut)
          /\ HandleTransResult(idx, {}, "ready")
      BY <2>2 DEF CheckReady
    <3>2. /\ \A x \in 1 .. size : slot'[x].sock = slot[x].sock
          /\ \A j \in LiveJobs' : j \in LiveJobs /\ job'[j] = job[j]
          /\ LiveJobs \subseteq LiveJobs'
          /\ slot' = slot \/ \A x \in 1 .. size : slot'[x].busy = StillBusy(slot[x].busy, x, {})
      BY <1>1, <1>2, <3>1, ResultEffect DEF EndsAt
    <3>3. \A x \in 1 .. size : slot[x].busy \in BOOLEAN
      BY InMemory DEF Elements
    <3> QED
      BY <3>2, <3>3 DEF StillBusy
  <2> QED
    BY <2>1, <2>2
<1>4. TabletState(t) = "answered"
  BY <1>1, LookedAt
<1>5. ~Working(t) /\ ~Working(t)'
  BY <1>1, <1>2, <1>3, WorkingSlot DEF Working
<1>6. TabletState(t)' = "idle"
  <2>1. Listed(t)'
    BY <1>1, <1>2, <1>3 DEF Listed, InList
  <2>2. ~Answered(t)'
    BY <1>1, <1>2, <1>3 DEF Answered, Starting, DistinctInv
  <2> QED
    BY <1>5, <2>1, <2>2 DEF TabletState, Listed, Working, Answered, Starting
<1>7. ASSUME NEW u \in Tablets \ {t}
      PROVE  TabletState(u)' = TabletState(u)
  <2>1. Listed(u)' <=> Listed(u)
    BY <1>1, <1>3 DEF Listed, InList
  <2>2. Answered(u)' <=> Answered(u)
    BY <1>1, <1>3 DEF Answered, Starting
  <2>3. Working(u)' <=> Working(u)
    BY <1>3 DEF Working
  <2> QED
    BY <1>1, <2>1, <2>2, <2>3, SameState DEF Known
<1>8. ~disturbed'
  BY <1>1
<1> QED
  BY <1>4, <1>6, <1>7, <1>8, PoolMove DEF Pool!Settle

\* handleRunningTransactions takes a result: its tablet is idle again, unless
\* the program ended in get() or value().
LEMMA PoolFinish ==
  ASSUME TypeOK, ListInv, Calm, ~disturbed, FinishTransaction
  PROVE  UNCHANGED Pool!poolVars \/ \E t \in Tablets : Pool!Settle(t)
<1>1. /\ pc = "running" /\ idx \in DOMAIN running /\ IsReady(slot[running[idx]].fut)
      /\ HandleTransResult(running[idx], {slot[running[idx]].parent}, "running")
      /\ UNCHANGED <<size, link, disturbed>>
  BY DEF FinishTransaction, TypeOK, envVars
<1>2. PICK a \in 1 .. size : /\ a = running[idx] /\ slot[a].fut # 0 /\ slot[a].parent = a
                             /\ slot[a].busy
  BY <1>1 DEF Calm, RunningInv, Phases
<1>3. DistinctInv /\ LinkedInv /\ Occupied = 1 .. size /\ pc \notin Faults
  BY <1>1 DEF ListInv, Faults, Occupied
<1>4. /\ \A x \in 1 .. size : slot'[x].sock = slot[x].sock
      /\ LiveJobs' = LiveJobs /\ \A j \in LiveJobs : job'[j].owner = job[j].owner
      /\ \/ pc' \in {"bad_optional_access", "exception"} /\ slot' = slot
         \/ /\ pc' = "running"
            /\ \A x \in 1 .. size : slot'[x].busy = StillBusy(slot[x].busy, x, {a})
  <2>1. IsReady(slot[a].fut) /\ HandleTransResult(a, {a}, "running")
    BY <1>1, <1>2
  <2>2. /\ \A x \in 1 .. size : slot'[x].sock = slot[x].sock
        /\ \A j \in LiveJobs' : j \in LiveJobs /\ job'[j] = job[j]
        /\ LiveJobs \subseteq LiveJobs'
        /\ \/ EndsAt(a)
           \/ /\ pc' = "running"
              /\ \A x \in 1 .. size : slot'[x].busy = StillBusy(slot[x].busy, x, {a})
    BY <1>1, <1>2, <2>1, ResultEffect
  <2> QED
    BY <2>2 DEF EndsAt
<1>5. slot[a].fut \notin LiveJobs
  BY <1>1, <1>2 DEF LiveJobs, Live, IsReady
<1>6. CASE pc' \in {"bad_optional_access", "exception"} /\ slot' = slot
  BY <1>1, <1>4, <1>6, KeepsStates DEF Starting
<1>7. CASE /\ pc' = "running"
           /\ \A x \in 1 .. size : slot'[x].busy = StillBusy(slot[x].busy, x, {a})
  <2>1. PICK t \in Tablets : slot[a].sock = t
    BY <1>3 DEF LinkedInv
  <2>2. /\ ~slot'[a].busy
        /\ \A x \in 1 .. size : x # a => slot'[x].busy = slot[x].busy
    <3>1. \A x \in 1 .. size : slot[x].busy \in BOOLEAN
      BY InMemory DEF Elements
    <3> QED
      BY <1>7, <3>1 DEF StillBusy
  <2>3. ~Working(t) /\ ~Working(t)'
    <3>1. ~Working(t)
      BY <1>3, <1>5, <2>1, WorkingSlot
    <3> QED
      BY <1>4, <3>1 DEF Working
  <2>4. TabletState(t) = "answered"
    <3>1. Listed(t) /\ Answered(t)
      BY <1>2, <2>1 DEF Listed, InList, Answered
    <3> QED
      BY <2>3, <3>1, StateOf
  <2>5. TabletState(t)' = "idle"
    <3>1. Listed(t)'
      BY <1>1, <1>4, <2>1 DEF Listed, InList
    <3>2. ~Answered(t)'
      BY <1>1, <1>3, <1>4, <1>7, <2>1, <2>2 DEF Answered, Starting, DistinctInv
    <3> QED
      BY <2>3, <3>1, <3>2 DEF TabletState, Listed, Working, Answered, Starting
  <2>6. ASSUME NEW u \in Tablets \ {t}
        PROVE  TabletState(u)' = TabletState(u)
    <3>1. Listed(u)' <=> Listed(u)
      BY <1>1, <1>4 DEF Listed, InList
    <3>2. Answered(u)' <=> Answered(u)
      BY <1>1, <1>4, <1>7, <2>1, <2>2 DEF Answered, Starting
    <3>3. Working(u)' <=> Working(u)
      BY <1>4 DEF Working
    <3> QED
      BY <1>1, <3>1, <3>2, <3>3, SameState DEF Known
  <2>7. ~disturbed'
    BY <1>1
  <2>8. Pool!Settle(t)
    BY <2>4, <2>5, <2>6, <2>7, PoolMove DEF Pool!Settle
  <2> QED
    BY <2>8
<1> QED
  BY <1>4, <1>6, <1>7

\* The elements marked busy lie below the one that is killed.
LEMMA BelowKilled ==
  ASSUME TypeOK, ListInv, Calm, NEW s \in 1 .. size, pc \in {"check", "ui"}, ~Disturbs(s)
  PROVE  /\ \A x \in 1 .. size : slot[x].busy => x < s
         /\ ~Working(slot[s].sock)
<1>1. \A x \in 1 .. size : slot[x].busy => \E k \in DOMAIN running : running[k] = x
  BY DEF Calm, RunningInv, Phases
<1>2. \A k \in DOMAIN running : running[k] < s
  <2>1. \A k \in DOMAIN running : running[k] \in 1 .. size
    BY DEF Calm, RunningInv, Phases
  <2> QED
    BY <2>1, InMemory DEF Disturbs
<1>3. \A j \in LiveJobs : job[j].at < s
  <2>1. \A j \in LiveJobs : job[j].at \in 1 .. size
    BY DEF Calm, WorkerInv
  <2> QED
    BY <2>1, InMemory DEF Disturbs
<1>4. s \in Occupied /\ pc \notin Faults
  BY DEF Occupied, Faults
<1>5. \A j \in LiveJobs : job[j].owner = slot[s].sock => job[j].at = s
  BY <1>4, WorkingSlot
<1>6. s \in Nat
  BY InMemory
<1>7. ~Working(slot[s].sock)
  BY <1>3, <1>5, <1>6 DEF Working
<1> QED
  BY <1>1, <1>2, <1>7

\* closesocket and the first move of erase() take the victim's socket out of
\* the list; the last element keeps it until it is destroyed.
LEMMA PoolKill ==
  ASSUME TypeOK, ListInv, Calm, ~disturbed, ~disturbed', NEW s \in 1 .. size,
         NEW from \in {"ready", "ui"}, KillSocket(s, from), UNCHANGED <<size, job, link>>,
         pc \in {"check", "ui"}, pc = "check" => s = idx
  PROVE  \/ UNCHANGED Pool!poolVars
         \/ \E t \in Tablets : Pool!Settle(t) \/ Pool!Remove(t)
<1>1. /\ pc' = "erase" /\ ~Disturbs(s)
      /\ slot' = IF s < size THEN [slot EXCEPT ![s].sock = slot[s + 1].sock] ELSE slot
  BY DEF KillSocket
<1>2. DistinctInv /\ LinkedInv /\ Occupied = 1 .. size /\ pc \notin Faults /\ size \in Nat
  BY InMemory DEF ListInv, Faults, Occupied
<1>3. PICK t \in Tablets : slot[s].sock = t
  BY <1>2 DEF LinkedInv
<1>4. (\A x \in 1 .. size : slot[x].busy => x < s) /\ ~Working(t)
  BY <1>1, <1>3, BelowKilled
<1>5. /\ \A x \in 1 .. size : slot'[x].busy = slot[x].busy
      /\ \A x \in 1 .. size : x # s => slot'[x].sock = slot[x].sock
      /\ slot'[s].sock = IF s < size THEN slot[s + 1].sock ELSE t
  <2>1. slot \in [Slots -> Elements] /\ s \in Slots /\ 1 .. size \subseteq Slots
    BY InMemory DEF TypeOK
  <2> QED
    BY <1>1, <1>3, <2>1 DEF Elements
<1>6. LiveJobs' = LiveJobs /\ \A j \in LiveJobs : job'[j].owner = job[j].owner
  BY DEF LiveJobs, Live
<1>7. Listed(t) /\ Known(t) /\ Known(t)' /\ ~Working(t)'
  <2>1. Listed(t) /\ Known(t)
    BY <1>2, <1>3 DEF Listed, InList, LinkedInv, Known
  <2> QED
    BY <1>4, <1>6, <2>1 DEF Known, Working
<1>8. TabletState(t) \in {"idle", "answered"}
  BY <1>4, <1>7, StateOf
<1>9. ASSUME NEW u \in Tablets \ {t}
      PROVE  TabletState(u)' = TabletState(u)
  <2>1. Listed(u)' <=> Listed(u)
    <3>1. s < size => s + 1 \in 1 .. size /\ s + 1 # s
      BY <1>2
    <3>2. ASSUME Listed(u) PROVE Listed(u)'
      <4>1. PICK x \in 1 .. size : slot[x].sock = u
        BY <3>2 DEF Listed, InList
      <4> QED
        BY <1>3, <1>5, <4>1 DEF Listed, InList
    <3>3. ASSUME Listed(u)' PROVE Listed(u)
      <4>1. PICK x \in 1 .. size : slot'[x].sock = u
        BY <3>3 DEF Listed, InList
      <4>2. CASE x = s
        BY <1>5, <3>1, <4>1, <4>2 DEF Listed, InList
      <4>3. CASE x # s
        BY <1>5, <4>1, <4>3 DEF Listed, InList
      <4> QED
        BY <4>2, <4>3
    <3> QED
      BY <3>2, <3>3
  <2>2. Answered(u)' <=> Answered(u)
    <3>1. \A x \in 1 .. size : slot[x].busy => x # s
      BY <1>2, <1>4
    <3> QED
      BY <1>1, <1>3, <1>5, <3>1 DEF Answered, Starting
  <2>3. Working(u)' <=> Working(u)
    BY <1>6 DEF Working
  <2> QED
    BY <2>1, <2>2, <2>3, SameState DEF Known
<1>10. CASE s < size
  <2>1. ~Listed(t)'
    <3>1. s + 1 \in 1 .. size /\ s + 1 # s
      BY <1>2, <1>10
    <3>2. \A x \in 1 .. size : slot'[x].sock # t
      BY <1>2, <1>3, <1>5, <1>10, <3>1 DEF DistinctInv
    <3> QED
      BY <3>2 DEF Listed, InList
  <2>2. TabletState(t)' = "gone"
    BY <1>7, <2>1 DEF TabletState, Listed, Known
  <2> QED
    BY <1>8, <1>9, <2>2, PoolMove DEF Pool!Remove
<1>11. CASE ~(s < size)
  <2>1. Listed(t)'
    BY <1>5, <1>11 DEF Listed, InList
  <2>2. ~Answered(t)'
    <3>1. \A x \in 1 .. size : slot[x].busy => x # s
      BY <1>2, <1>4
    <3>2. \A x \in 1 .. size : x # s => slot'[x].sock # t
      BY <1>2, <1>3, <1>5 DEF DistinctInv
    <3> QED
      BY <1>1, <1>5, <3>1, <3>2 DEF Answered, Starting
  <2>3. TabletState(t)' = "idle"
    BY <1>7, <2>1, <2>2 DEF TabletState, Listed, Working, Answered, Starting
  <2>4. CASE TabletState(t) = "idle"
    <3>1. disturbed' = disturbed
      BY Zenon DEF KillSocket, TypeOK
    <3>2. \A u \in Tablets : TabletState(u)' = TabletState(u)
      BY <1>9, <2>3, <2>4
    <3> QED
      BY <3>1, <3>2, PoolStays
  <2>5. CASE TabletState(t) = "answered"
    BY <1>9, <2>3, <2>5, PoolMove DEF Pool!Settle
  <2> QED
    BY <1>8, <2>4, <2>5
<1> QED
  BY <1>10, <1>11

\* While erase() works, the victim's slot names a tablet that was connected:
\* its neighbour, or itself in the last slot.
VictimInv == pc = "erase" => slot[victim].sock \in Tablets /\ link[slot[victim].sock] # "off"

\* Nothing else runs on the list while erase() waits for the worker.
LEMMA VictimKept == Inv /\ VictimInv /\ [Next]_vars => VictimInv'
<1> SUFFICES ASSUME Inv, VictimInv, [Next]_vars, pc' = "erase"
             PROVE  slot'[victim'].sock \in Tablets /\ link'[slot'[victim'].sock] # "off"
  BY DEF VictimInv
<1>1. TypeOK /\ ListInv /\ slot \in [Slots -> Elements] /\ 1 .. size \subseteq Slots
  BY InMemory DEF Inv, TypeOK
<1>2. ASSUME NEW s \in 1 .. size, NEW from, KillSocket(s, from), UNCHANGED link,
             pc \in {"check", "ui"}
      PROVE  slot'[victim'].sock \in Tablets /\ link'[slot'[victim'].sock] # "off"
  <2>1. \A x \in 1 .. size : slot[x].sock \in Tablets /\ link[slot[x].sock] # "off"
    BY <1>1, <1>2 DEF ListInv, LinkedInv, Occupied, Faults
  <2>2. victim' = s /\ slot' = IF s < size THEN [slot EXCEPT ![s].sock = slot[s + 1].sock] ELSE slot
    BY <1>2 DEF KillSocket
  <2>3. slot'[s].sock = IF s < size THEN slot[s + 1].sock ELSE slot[s].sock
    BY <1>1, <2>2 DEF Elements
  <2>4. s < size => s + 1 \in 1 .. size
    BY <1>1 DEF TypeOK
  <2> QED
    BY <1>2, <2>1, <2>2, <2>3, <2>4
<1>3. CASE CheckKill
  BY <1>1, <1>2, <1>3, KilledIsLookedAt DEF CheckKill, envVars
<1>4. CASE \E s \in Slots : KillButton(s)
  BY <1>1, <1>2, <1>4, CountType DEF KillButton, envVars, Slots, TypeOK
<1>5. CASE \E j \in Jobs : Worker(j)
  <2>5. PICK j \in Jobs : Works(j)
    BY <1>5 DEF Worker, Works, WorkerFault
  <2>1. PICK a, v : slot' \in {slot, [slot EXCEPT ![a].ok = v]}
    BY <2>5, WorkerStep DEF SetOk
  <2>2. UNCHANGED <<pc, victim, link>>
    BY <2>5, WorkerStep DEF mainVars, envVars
  <2>3. victim \in Slots
    BY <1>1, <2>2 DEF ListInv, PositionInv, Faults
  <2>4. slot'[victim].sock = slot[victim].sock
    BY <1>1, <2>1, <2>3 DEF Elements
  <2> QED
    BY <2>2, <2>4 DEF VictimInv
<1>6. CASE \E t \in Tablets : Tablet(t)
  <2>1. UNCHANGED <<pc, victim, slot>>
    BY <1>6 DEF Tablet, Request, TabletLink, mainVars, memVars
  <2>2. \A u \in Tablets : link[u] # "off" => link'[u] # "off"
    BY <1>1, <1>6, LossAssumption DEF Tablet, Request, TabletLink, TypeOK
  <2> QED
    BY <2>1, <2>2 DEF VictimInv
<1>7. CASE UNCHANGED vars
  BY <1>7 DEF vars, mainVars, memVars, envVars, VictimInv
<1>8. CASE Erase \/ GetRunning \/ ClearAll \/ EndFrame \/ CheckAlive \/ CheckNoState
           \/ KillAllSockets("accept") \/ KillAllSockets("ended")
  <2>1. Erase \/ ClearAll => ret # "erase"
    BY <1>1 DEF TypeOK
  <2> QED
    BY <1>8, <2>1 DEF Erase, GetRunning, ClearAll, EndFrame, CheckAlive, CheckNoState,
                      KillAllSockets
<1>9. CASE CheckReady \/ CheckRunning \/ Finishing
  BY <1>9 DEF CheckReady, CheckRunning, Finishing, EndRunning, DropInvalid, FreedAccess,
              StillRunning, FinishTransaction, HandleTransResult
<1>10. CASE Accepting \/ Beginning
  BY <1>10 DEF Accepting, NoConnection, AcceptConn, Beginning, SkipTablet, EndReady,
               RefuseTransaction, StartTransaction, StartUnknownSend, ReadTransactionData
<1> QED
  BY <1>3, <1>4, <1>5, <1>6, <1>7, <1>8, <1>9, <1>10
     DEF Next, Main, Checking, Killing, User, Halted

\* erase() destroys the last element, whose socket its neighbour has: a tablet
\* leaves the list only when it was the last one itself.
LEMMA PoolErase ==
  ASSUME TypeOK, ListInv, VictimInv, Calm, ~disturbed, Erase
  PROVE  UNCHANGED Pool!poolVars \/ \E t \in Tablets : Pool!Remove(t)
<1> DEFINE From(x) == IF x < victim THEN x ELSE x + 1
<1>1. /\ pc = "erase" /\ pc' \in {"ready", "ui"} /\ victim \in 1 .. size
      /\ size' = size - 1 /\ size \in Nat /\ UNCHANGED <<link, disturbed>>
      /\ ~Live(slot[victim].fut)
  BY DEF Erase, ListInv, PositionInv, Faults, TypeOK, envVars
<1>2. /\ DistinctInv /\ LinkedInv /\ Occupied = 1 .. size \ {victim} /\ pc \notin Faults
  BY <1>1 DEF ListInv, Faults, Occupied
<1>3. PICK t \in Tablets : slot[victim].sock = t /\ Known(t)
  BY <1>1 DEF VictimInv, Known
<1>4. /\ \A x \in 1 .. size - 1 :
           From(x) \in Occupied /\ slot'[x] = slot[From(x)] /\ (x < victim => From(x) = x)
      /\ \A y \in Occupied : \E x \in 1 .. size - 1 : From(x) = y
  <2>1. ASSUME NEW x \in 1 .. size - 1
        PROVE  slot'[x] = IF x \in victim .. size - 1 THEN slot[x + 1] ELSE slot[x]
    <3>1. x \in Slots /\ x # size
      BY <1>1, InMemory
    <3> QED
      BY <3>1 DEF Erase
  <2>2. ASSUME NEW y \in 1 .. size, y # victim
        PROVE  \E x \in 1 .. size - 1 : From(x) = y
    <3>1. CASE y < victim
      <4>1. y \in 1 .. size - 1 /\ From(y) = y
        BY <1>1, <3>1
      <4> QED
        BY <4>1
    <3>2. CASE y > victim
      <4>1. y - 1 \in 1 .. size - 1 /\ From(y - 1) = y
        BY <1>1, <3>2
      <4> QED
        BY <4>1
    <3> QED
      BY <1>1, <2>2, <3>1, <3>2
  <2> QED
    BY <1>1, <1>2, <2>1, <2>2
<1>5. LiveJobs' = LiveJobs /\ \A j \in LiveJobs : job'[j] = job[j]
  <2>1. job' \in {job, Release(slot[victim].fut)} /\ job \in [Jobs -> SharedStates]
    BY DEF Erase, TypeOK
  <2>2. slot[victim].fut \notin LiveJobs
    BY <1>1 DEF LiveJobs
  <2> QED
    BY <2>1, <2>2 DEF LiveJobs, Live, Release, NoJob
<1>6. \A x \in 1 .. size : slot[x].busy => x < victim
  BY <1>1 DEF Calm, RunningInv, Phases
<1> HIDE DEF From
<1>7. \A u : Listed(u)' <=> \E y \in Occupied : slot[y].sock = u
  BY <1>1, <1>4 DEF Listed, InList
<1>8. \A u : Listed(u) <=> u = t \/ \E y \in Occupied : slot[y].sock = u
  BY <1>1, <1>2, <1>3 DEF Listed, InList
<1>9. \A u : Answered(u)' <=> Answered(u)
  <2>1. ASSUME NEW u, Answered(u)'
        PROVE  Answered(u)
    <3>1. PICK x \in 1 .. size - 1 : slot'[x].sock = u /\ slot'[x].busy
      BY <1>1, <2>1 DEF Answered, Starting
    <3> QED
      BY <1>2, <1>4, <3>1 DEF Answered
  <2>2. ASSUME NEW u, Answered(u)
        PROVE  Answered(u)'
    <3>1. PICK x \in 1 .. size : slot[x].sock = u /\ slot[x].busy
      BY <1>1, <2>2 DEF Answered, Starting
    <3>2. x < victim /\ x \in 1 .. size - 1
      BY <1>1, <1>6, <3>1
    <3> QED
      BY <1>1, <1>4, <3>1, <3>2 DEF Answered
  <2> QED
    BY <2>1, <2>2
<1>10. \A u : Working(u)' <=> Working(u)
  BY <1>5 DEF Working
<1>11. ASSUME NEW u \in Tablets, u # t \/ \E y \in Occupied : slot[y].sock = t
       PROVE  TabletState(u)' = TabletState(u)
  BY <1>1, <1>7, <1>8, <1>9, <1>10, <1>11, SameState DEF Known
<1>12. CASE \E y \in Occupied : slot[y].sock = t
  BY <1>1, <1>11, <1>12, PoolStays
<1>13. CASE \A y \in Occupied : slot[y].sock # t
  <2>1. ~Working(t)
    <3>1. \A j \in LiveJobs : job[j].at \in Occupied /\ j # 0 /\ slot[job[j].at].fut = j
      BY <1>1, <1>2, InMemory, OwnElement DEF Calm, WorkerInv
    <3>2. \A j \in LiveJobs : job[j].owner = slot[job[j].at].sock
      BY <3>1 DEF Calm, FutureInv
    <3> QED
      BY <1>13, <3>1, <3>2 DEF Working
  <2>2. TabletState(t) \in {"idle", "answered"}
    BY <1>8, <2>1, StateOf
  <2>3. TabletState(t)' = "gone"
    BY <1>1, <1>3, <1>7, <1>13 DEF TabletState, Listed, Known
  <2>4. Pool!Remove(t)
    BY <1>1, <1>11, <2>2, <2>3, PoolMove DEF Pool!Remove
  <2> QED
    BY <2>4
<1> QED
  BY <1>12, <1>13

\* killAllSockets clears the list once no transaction is under way.
LEMMA PoolClear ==
  ASSUME TypeOK, ListInv, WorkInv, ClearAll
  PROVE  Pool!RemoveAll
<1>1. /\ pc = "getAll" /\ size' = 0 /\ disturbed' = FALSE /\ UNCHANGED link
      /\ \A s \in 1 .. size : ~Live(slot[s].fut)
  BY DEF ClearAll, envVars
<1>2. LinkedInv /\ Occupied = 1 .. size
  BY <1>1 DEF ListInv, Faults, Occupied
<1>3. ASSUME ~disturbed, NEW t \in Tablets
      PROVE  TabletState(t) # "working"
  <2>1. Calm
    BY <1>3 DEF WorkInv
  <2>2. LiveJobs = {}
    BY <1>1, <2>1, OwnElement DEF LiveJobs
  <2> QED
    BY <2>2, StateOf DEF Working
<1>4. \A t \in Tablets : Listed(t) => Known(t)
  BY <1>2 DEF Listed, InList, LinkedInv, Known
<1>5. \A t \in Tablets : ~Listed(t)' /\ (Known(t)' <=> Known(t))
  BY <1>1 DEF Listed, InList, Known
<1>6. ASSUME NEW t \in Tablets
      PROVE  TabletState(t)' = IF TabletState(t) \notin {"absent", "gone"}
                               THEN "gone" ELSE TabletState(t)
  <2>1. TabletState(t)' = IF Known(t) THEN "gone" ELSE "absent"
    BY <1>5 DEF TabletState, Listed, Known
  <2> QED
    BY <1>4, <2>1, StateOf
<1> QED
  BY <1>1, <1>3, <1>6 DEF Pool!RemoveAll, Pool!Present

\* A worker begins unseen; its end is the answer to its own tablet.
LEMMA PoolWorker ==
  ASSUME TypeOK, ListInv, Calm, ~disturbed, NEW j \in Jobs, Works(j)
  PROVE  UNCHANGED Pool!poolVars \/ \E t \in Tablets : Pool!Answer(t)
<1>1. /\ j \in LiveJobs /\ pc \notin Faults
      /\ UNCHANGED <<pc, idx, size, link, disturbed>>
  <2>1. j # 0
    BY CountType DEF Jobs
  <2> QED
    BY <2>1, WorkerStep DEF Stopped, LiveJobs, Live, mainVars, envVars
<1>2. PICK a \in 1 .. size : /\ a = job[j].at /\ slot[a].fut = j /\ j # 0 /\ ~Orphan(j)
                             /\ a \in Occupied /\ (slot[a].busy \/ Starting(a))
  <2>1. job[j].at \in Occupied
    BY <1>1, InMemory DEF Calm, WorkerInv, Occupied
  <2> QED
    BY <1>1, <2>1, OwnElement DEF Calm, WorkerInv
<1>3. PICK t \in Tablets : slot[a].sock = t /\ job[j].owner = t
  BY <1>1, <1>2 DEF ListInv, LinkedInv, Calm, FutureInv
<1>4. \A s \in 1 .. size : slot'[s].sock = slot[s].sock /\ slot'[s].busy = slot[s].busy
  <2>1. PICK v : slot' \in {slot, [slot EXCEPT ![a].ok = v]}
    BY <1>2, WorkerStep DEF SetOk, Dangling
  <2>2. slot \in [Slots -> Elements] /\ a \in Slots /\ 1 .. size \subseteq Slots
    BY <1>2, InMemory DEF TypeOK
  <2> QED
    BY <2>1, <2>2 DEF Elements
<1>5. \A i \in Jobs : i # j => job'[i] = job[i]
  <2>1. job \in [Jobs -> SharedStates]
    BY DEF TypeOK
  <2>2. \/ job' \in {job, [job EXCEPT ![j].state = "working"],
                     [job EXCEPT ![j].state = "failing"]}
        \/ \E v : job' = [job EXCEPT ![j].state = "done", ![j].val = v]
    BY <1>2, WorkerStep DEF Returned
  <2> QED
    BY <2>1, <2>2
<1>6. CASE WorkerBegin(j) \/ WorkerReads(j) \/ WorkerFail(j)
  <2>1. job'[j].state \in {"working", "failing"} /\ job'[j].owner = job[j].owner
    BY <1>6 DEF WorkerBegin, WorkerReads, WorkerFail, TypeOK, SharedStates
  <2>2. LiveJobs' = LiveJobs /\ \A i \in LiveJobs : job'[i].owner = job[i].owner
    BY <1>1, <1>2, <1>5, <2>1 DEF LiveJobs, Live
  <2> QED
    BY <1>1, <1>4, <2>2, KeepsStates DEF Starting
<1>7. CASE WorkerDone(j) \/ WorkerEnd(j) \/ WorkerThrow(j)
  <2>1. job'[j].state = "done"
    <3>1. PICK v : job' = [job EXCEPT ![j].state = "done", ![j].val = v]
      <4>1. \E v \in {"good", "failed", "thrown"} : job' = Returned(j, v)
        BY <1>7 DEF WorkerDone, WorkerEnd, WorkerThrow
      <4> QED
        BY <1>2, <4>1 DEF Returned
    <3>2. job \in [Jobs -> SharedStates]
      BY DEF TypeOK
    <3> QED
      BY <3>1, <3>2 DEF SharedStates
  <2>2. LiveJobs' = LiveJobs \ {j} /\ \A i \in LiveJobs' : job'[i] = job[i]
    BY <1>5, <2>1 DEF LiveJobs, Live
  <2>3. \A i \in LiveJobs : job[i].owner = t => i = j
    BY <1>1, <1>2, <1>3, WorkingSlot
  <2>4. \A u \in Tablets : (Listed(u)' <=> Listed(u)) /\ (Answered(u)' <=> Answered(u))
    BY <1>1, <1>4 DEF Listed, InList, Answered, Starting
  <2>5. Listed(t) /\ Answered(t) /\ Working(t) /\ ~Working(t)'
    <3>1. a \in 1 .. size
      OBVIOUS
    <3>2. Listed(t) /\ Answered(t) /\ Working(t)
      BY <1>1, <1>2, <1>3, <3>1 DEF Listed, InList, Answered, Working
    <3> QED
      BY <2>2, <2>3, <3>2 DEF Working
  <2>6. TabletState(t) = "working"
    BY <2>5, StateOf
  <2>7. TabletState(t)' = "answered"
    <3>1. Listed(t)' /\ Answered(t)'
      BY <2>4, <2>5
    <3> QED
      BY <2>5, <3>1 DEF TabletState, Listed, Working, Answered, Starting
  <2>8. ASSUME NEW u \in Tablets \ {t}
        PROVE  TabletState(u)' = TabletState(u)
    <3>1. Working(u)' <=> Working(u)
      BY <1>3, <2>2 DEF Working
    <3> QED
      BY <1>1, <2>4, <3>1, SameState DEF Known
  <2>9. ~disturbed'
    BY <1>1
  <2>10. Pool!Answer(t)
    BY <2>6, <2>7, <2>8, <2>9, PoolMove DEF Pool!Answer
  <2> QED
    BY <2>10
<1> QED
  BY <1>6, <1>7 DEF Works, WorkerAnswers

\* What moves only the GUI thread, or a connection already made, is not seen.
LEMMA PoolQuiet ==
  ASSUME TypeOK, UNCHANGED <<slot, size, job, disturbed>>,
         \A s \in 1 .. size : Starting(s)' <=> Starting(s),
         \A t \in Tablets : (link'[t] = "off") <=> (link[t] = "off")
  PROVE  UNCHANGED Pool!poolVars
<1>1. LiveJobs' = LiveJobs
  BY DEF LiveJobs, Live
<1> QED
  BY <1>1, KeepsStates

\* A transaction that is still running keeps its tablet at work.
LEMMA PoolRunning ==
  ASSUME TypeOK, ListInv, Calm, CheckRunning
  PROVE  UNCHANGED Pool!poolVars
<1>1. /\ pc = "poll" /\ pc' = "ready" /\ idx \in 1 .. size
      /\ slot[idx].parent = idx /\ slot' = [slot EXCEPT ![idx].busy = TRUE]
      /\ UNCHANGED <<size, job, link, disturbed>>
  BY DEF CheckRunning, ListInv, PositionInv, Faults, Calm, StartingInv, envVars
<1>2. /\ \A s \in 1 .. size : slot'[s].sock = slot[s].sock
      /\ \A s \in 1 .. size : s # idx => slot'[s].busy = slot[s].busy
      /\ slot'[idx].busy
  <2>1. slot \in [Slots -> Elements] /\ idx \in Slots /\ 1 .. size \subseteq Slots
    BY <1>1, InMemory DEF TypeOK
  <2> QED
    BY <1>1, <2>1 DEF Elements
<1>3. \A s \in 1 .. size : (slot'[s].busy \/ Starting(s)') <=> (slot[s].busy \/ Starting(s))
  BY <1>1, <1>2 DEF Starting
<1>4. LiveJobs' = LiveJobs
  BY <1>1 DEF LiveJobs, Live
<1> QED
  BY <1>1, <1>2, <1>3, <1>4, KeepsStates

\* killAllSockets takes results without a tablet changing.
LEMMA PoolGetRunning ==
  ASSUME TypeOK, GetRunning
  PROVE  UNCHANGED Pool!poolVars
<1>1. pc = "getAll" /\ pc' \notin {"check", "poll"} /\ UNCHANGED <<size, link, disturbed>>
  BY DEF GetRunning, envVars
<1>2. CASE UNCHANGED <<slot, job>>
  BY <1>1, <1>2, PoolQuiet DEF Starting
<1>3. CASE ~UNCHANGED <<slot, job>>
  <2>1. PICK a \in 1 .. size : /\ slot' = [slot EXCEPT ![a].fut = 0] /\ IsReady(slot[a].fut)
                               /\ job' = Release(slot[a].fut)
    BY <1>3 DEF GetRunning, Invalid
  <2>2. \A s \in 1 .. size : slot'[s].sock = slot[s].sock /\ slot'[s].busy = slot[s].busy
    <3>1. slot \in [Slots -> Elements] /\ a \in Slots /\ 1 .. size \subseteq Slots
      BY InMemory DEF TypeOK
    <3> QED
      BY <2>1, <3>1 DEF Elements
  <2>3. LiveJobs' = LiveJobs /\ \A j \in LiveJobs : job'[j] = job[j]
    <3>1. job \in [Jobs -> SharedStates]
      BY DEF TypeOK
    <3> QED
      BY <2>1, <3>1 DEF LiveJobs, Live, IsReady, Release, NoJob
  <2> QED
    BY <1>1, <2>2, <2>3, KeepsStates DEF Starting
<1> QED
  BY <1>2, <1>3

\* Every step is one TabletPool promises, or none it sees.
LEMMA PoolStep ==
  Inv /\ WorkInv /\ VictimInv /\ [Next]_vars => [Pool!PoolNext]_(Pool!poolVars)
<1> SUFFICES ASSUME Inv, WorkInv, VictimInv, [Next]_vars
             PROVE  Pool!PoolNext \/ UNCHANGED Pool!poolVars
  OBVIOUS
<1>1. TypeOK /\ TypeOK' /\ ListInv
  BY Preserved DEF Inv
<1>2. CASE disturbed'
  <2>1. \A t \in Tablets : TabletState(t)' \in Pool!States
    BY DEF TabletState, Pool!States
  <2>2. (~disturbed)' = FALSE
    BY <1>2
  <2> QED
    BY <2>1, <2>2 DEF Pool!PoolNext, Pool!Disturb
<1>3. CASE ClearAll
  BY <1>1, <1>3, PoolClear DEF Pool!PoolNext
<1> SUFFICES ASSUME ~disturbed', ~ClearAll
             PROVE  Pool!PoolNext \/ UNCHANGED Pool!poolVars
  BY <1>2, <1>3
<1>4. ~disturbed /\ Calm
  BY StaysDisturbed DEF WorkInv
<1>5. CASE \/ NoConnection \/ SkipTablet \/ EndReady \/ CheckAlive \/ EndRunning
           \/ StillRunning \/ EndFrame \/ KillAllSockets("accept") \/ KillAllSockets("ended")
           \/ UNCHANGED vars
  <2>1. UNCHANGED <<slot, size, job, link, disturbed>>
    BY <1>5 DEF NoConnection, SkipTablet, EndReady, CheckAlive, EndRunning, StillRunning,
                EndFrame, KillAllSockets, vars, memVars, envVars
  <2>2. \A s \in 1 .. size : Starting(s)' <=> Starting(s)
    BY <1>5 DEF Starting, NoConnection, SkipTablet, EndReady, CheckAlive, EndRunning,
                StillRunning, EndFrame, KillAllSockets, vars, mainVars
  <2> QED
    BY <1>1, <2>1, <2>2, PoolQuiet
<1>6. CASE \E t \in Tablets : Tablet(t)
  <2>1. UNCHANGED <<pc, idx, slot, size, job, disturbed>>
    BY <1>6 DEF Tablet, Request, TabletLink, mainVars, memVars
  <2>2. \A t \in Tablets : (link'[t] = "off") <=> (link[t] = "off")
    BY <1>1, <1>6, LossAssumption DEF Tablet, Request, TabletLink, TypeOK
  <2> QED
    BY <1>1, <2>1, <2>2, PoolQuiet DEF Starting
<1>7. CASE \E t \in Tablets : AcceptConn(t)
  BY <1>1, <1>4, <1>7, PoolConnect DEF Pool!PoolNext
<1>8. CASE \E t \in Tablets : RefuseTransaction(t) \/ StartTransaction(t) \/ StartUnknownSend(t)
  BY <1>1, <1>4, <1>8, PoolStart DEF Pool!PoolNext
<1>9. CASE CheckReady \/ CheckNoState
  <2>1. pc = "poll"
    BY <1>9 DEF CheckReady, CheckNoState
  <2>2. slot[idx].sock \in Tablets
    BY <1>1, <2>1 DEF ListInv, LinkedInv, PositionInv, Occupied, Faults
  <2> QED
    BY <1>1, <1>4, <1>9, <2>2, PoolSettleAtOnce DEF Pool!PoolNext
<1>10. CASE CheckRunning \/ GetRunning
  BY <1>1, <1>4, <1>10, PoolRunning, PoolGetRunning
<1>11. CASE FinishTransaction
  BY <1>1, <1>4, <1>11, PoolFinish DEF Pool!PoolNext
<1>12. CASE DropInvalid \/ FreedAccess \/ \E j \in Jobs : WorkerFault(j)
  BY <1>1, <1>4, <1>12, NoFreedAccess
<1>13. CASE CheckKill
  <2>1. /\ idx \in 1 .. size /\ KillSocket(idx, "ready") /\ pc = "check"
        /\ UNCHANGED <<size, job, link>>
    BY <1>1, <1>13, KilledIsLookedAt DEF CheckKill, envVars
  <2> QED
    BY <1>1, <1>4, <2>1, PoolKill DEF Pool!PoolNext
<1>14. ASSUME NEW s \in Slots, KillButton(s)
       PROVE  Pool!PoolNext \/ UNCHANGED Pool!poolVars
  <2>1. /\ s \in 1 .. size /\ KillSocket(s, "ui") /\ pc = "ui"
        /\ UNCHANGED <<size, job, link>>
    BY <1>1, <1>14, CountType DEF KillButton, TypeOK, Slots, envVars
  <2> QED
    BY <1>1, <1>4, <2>1, PoolKill DEF Pool!PoolNext
<1>15. CASE Erase
  BY <1>1, <1>4, <1>15, PoolErase DEF Pool!PoolNext
<1>16. CASE \E j \in Jobs : Works(j)
  BY <1>1, <1>4, <1>16, PoolWorker DEF Pool!PoolNext
<1> QED
  BY <1>5, <1>6, <1>7, <1>8, <1>9, <1>10, <1>11, <1>12, <1>13, <1>14, <1>15, <1>16
     DEF Next, Main, Accepting, Beginning, Checking, Finishing, Killing, User, Worker,
         Works, Halted

\* The lists, addresses and futures implement the promise of TabletPool: one
\* transaction at a time, settled after its worker, and no tablet removed under
\* way, until an element moves under a live transaction.
THEOREM BookkeepingKeepsPromise == Spec => PoolPromise
<1>1. Init => Pool!PoolInit
  <2> SUFFICES ASSUME Init PROVE Pool!PoolInit
    OBVIOUS
  <2>1. /\ size = 0 /\ disturbed = FALSE /\ \A t \in Tablets : link[t] = "off"
    BY DEF Init
  <2>2. \A t \in Tablets : TabletState(t) = "absent"
    BY <2>1, StateOf DEF Listed, InList, Known
  <2> QED
    BY <2>1, <2>2 DEF Pool!PoolInit
<1>2. Init => VictimInv
  BY DEF Init, VictimInv
<1> QED
  BY <1>1, <1>2, WorkInvariance, VictimKept, PoolStep, PTL DEF Spec, PoolPromise, Pool!PoolSpec
=============================================================================
