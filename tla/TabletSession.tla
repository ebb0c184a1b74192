---------------------------- MODULE TabletSession ----------------------------
(***************************************************************************)
(* One connection on the wire: BtTabObj::internalRead and internalWrite     *)
(* (btTabObj.hpp), the byte that starts them (getTransactionType) and the   *)
(* tablet at the other end, which is external and follows the exchange      *)
(* written in the comments of those two functions.                          *)
(*                                                                          *)
(* The socket is a pair of byte streams.  An item of a stream stands for a  *)
(* code byte, a 4-byte size, a 3-byte ACK or NCK, or one piece of the data. *)
(***************************************************************************)
EXTENDS Integers, Sequences, FiniteSets

CONSTANTS MaxLen,          \* bound: pieces of data in a message
          MaxTransactions, \* bound: transactions the tablet starts
          Room             \* pieces of data the send buffer holds

ASSUME LenAssumption == MaxLen \in Nat /\ MaxTransactions \in Nat
ASSUME RoomAssumption == Room \in Nat \ {0}

VARIABLES pc,     \* the computer: "idle" or the statement its worker is at
          left,   \* items readAllSocketData or sendToSocket still has to move
          got,    \* data read so far by internalRead
          size,   \* data.size() of internalWrite
          tpc,    \* the tablet
          tleft, tgot, \* its counterparts of left and got
          count,  \* transactions it has started
          len,    \* pieces in the message it is sending
          toC, toT, \* the two streams
          link,   \* "up", "closed" by the tablet or "lost"; "shut" by us
          late    \* the computer has given up an exchange

compVars == <<pc, left, got, size>>
tabVars  == <<tpc, tleft, tgot, count, len>>
vars == <<compVars, tabVars, toC, toT, link, late>>

Dirs == {"read", "write"}       \* TRANS_RECV_.. , TRANS_SEND_..
ReadSteps  == {"r.ack", "r.size", "r.ackSize", "r.data"}
WriteSteps == {"w.size", "w.ackSize", "w.data", "w.ackData"}
Waiting == {"r.size", "r.data", "w.ackSize", "w.ackData"}   \* readAllSocketData
TabletSteps == {"idle", "r.ack", "r.size", "r.ackSize", "r.data",
                "w.size", "w.ackSize", "w.data"}

Item(k, v) == [kind |-> k, val |-> v]
Ack  == Item("ack", 0)
Nack == Item("nack", 0)
Piece(k, i, n) == Item("data", <<k, i, n>>)     \* i of n of transaction k
Message(k, n) == [i \in 1 .. n |-> Piece(k, i, n)]
IsKind(s, k) == Head(s).kind = k
Pieces(s) == {i \in DOMAIN s : s[i].kind = "data"}

Init ==
  /\ pc = "idle" /\ left = 0 /\ got = <<>> /\ size = 0
  /\ tpc = "idle" /\ tleft = 0 /\ tgot = <<>> /\ count = 0 /\ len = 0
  /\ toC = <<>> /\ toT = <<>> /\ link = "up" /\ late = FALSE

-----------------------------------------------------------------------------
(* Computer: helpers.  A send on a dead connection fails; one whose peer is
   merely silent succeeds while the buffer has room. *)

CanSend == link = "up"
BufferFull == Cardinality(Pieces(toT)) >= Room
Put(s, x) == IF CanSend THEN Append(s, x) ELSE s

Goto(p) == pc' = p
\* The end of internalRead or internalWrite, with success = ok.
Finish(ok) ==
  /\ Goto("idle") /\ left' = 0 /\ got' = <<>>
  /\ late' = (late \/ ~ok)

(* GUI thread: handleReadyConnections finds the socket ready, reads one byte
   and starts internalRead, internalWrite or closes.  A byte that is no code
   is taken for one all the same. *)

ReadyToRead == toC # <<>> \/ link = "closed"

CodesOf(x) == IF x.kind = "code" THEN {x.val} ELSE Dirs \cup {"close"}

BeginTransaction(c) ==
  /\ pc = "idle" /\ link # "shut" /\ toC # <<>> /\ ~BufferFull
  /\ c \in CodesOf(Head(toC))
  /\ toC' = Tail(toC)
  /\ CASE c = "read"  -> Goto("r.ack")  /\ UNCHANGED link
       [] c = "write" -> Goto("w.size") /\ UNCHANGED link
       [] OTHER       -> UNCHANGED pc   /\ link' = "shut"
  /\ UNCHANGED <<left, got, size, tabVars, toT, late>>

\* readyToWrite fails, what is left of an earlier message fills the buffer: the
\* connection is closed, the code byte is not read.
RefuseTransaction ==
  /\ pc = "idle" /\ link # "shut" /\ ReadyToRead /\ BufferFull
  /\ link' = "shut"
  /\ UNCHANGED <<compVars, tabVars, toC, toT, late>>

\* recv says the tablet closed the connection: nack and close.
SocketError ==
  /\ pc = "idle" /\ link = "closed" /\ toC = <<>> /\ ~BufferFull
  /\ link' = "shut"
  /\ UNCHANGED <<compVars, tabVars, toC, toT, late>>

-----------------------------------------------------------------------------
(* internalRead: send ACK, read the size, send ACK, read the data *)

\* (with only the first of the two ACKs)
SendAckOnce(from, to) ==
  /\ pc = from
  /\ IF CanSend THEN /\ toT' = (IF from = "r.ack" THEN Append(toT, Ack) ELSE toT) /\ Goto(to)
                     /\ UNCHANGED <<left, got, late>>
                ELSE UNCHANGED toT /\ Finish(FALSE)
  /\ UNCHANGED <<size, tabVars, toC, link>>
SendAck(from, to) ==
  /\ pc = from
  /\ IF CanSend THEN /\ toT' = Append(toT, Ack) /\ Goto(to)
                     /\ UNCHANGED <<left, got, late>>
                ELSE UNCHANGED toT /\ Finish(FALSE)
  /\ UNCHANGED <<size, tabVars, toC, link>>

\* A 4-byte size that is not one gives any number; below 0 it is a size_t no
\* malloc grants, above MaxLen more than ever comes.
SizesOf(x) == IF x.kind = "size" THEN {x.val} ELSE -1 .. MaxLen + 1

\* (counting the size from 0)
ReadSizeOffByOne ==
  /\ pc = "r.size" /\ toC # <<>>
  /\ toC' = Tail(toC)
  /\ left' \in {n - 1 : n \in SizesOf(Head(toC)) \ {0}}
  /\ Goto("r.ackSize")
  /\ UNCHANGED <<got, size, tabVars, toT, link, late>>
ReadSize ==
  /\ pc = "r.size" /\ toC # <<>>
  /\ toC' = Tail(toC)
  /\ left' \in SizesOf(Head(toC))
  /\ Goto("r.ackSize")
  /\ UNCHANGED <<got, size, tabVars, toT, link, late>>

\* (without looking at the count)
ReadDataUnbounded ==
  /\ pc = "r.data" /\ toC # <<>>
  /\ toC' = Tail(toC)
  /\ got' = Append(got, Head(toC)) /\ left' = left - 1
  /\ UNCHANGED <<pc, size, tabVars, toT, link, late>>
ReadData ==
  /\ pc = "r.data" /\ left > 0 /\ toC # <<>>
  /\ toC' = Tail(toC)
  /\ got' = Append(got, Head(toC)) /\ left' = left - 1
  /\ UNCHANGED <<pc, size, tabVars, toT, link, late>>

EndRead ==
  /\ pc = "r.data" /\ left = 0
  /\ Finish(TRUE)
  /\ UNCHANGED <<size, tabVars, toC, toT, link>>

MallocFails ==
  /\ pc = "r.data" /\ left < 0
  /\ Finish(FALSE) /\ toT' = Put(toT, Nack)
  /\ UNCHANGED <<size, tabVars, toC, link>>

\* readAllSocketData gives up: 15 s without data, or the connection is gone.
\* internalRead then sends a NACK, internalWrite (whose readAck fails) does not.
\* (without the timeout)
GiveUpOnErrorOnly ==
  /\ pc \in Waiting /\ toC = <<>> /\ (pc = "r.data" => left > 0)
  /\ link # "up"
  /\ Finish(FALSE)
  /\ toT' = IF pc \in ReadSteps THEN Put(toT, Nack) ELSE toT
  /\ UNCHANGED <<size, tabVars, toC, link>>
GiveUp ==
  /\ pc \in Waiting /\ toC = <<>> /\ (pc = "r.data" => left > 0)
  /\ Finish(FALSE)
  /\ toT' = IF pc \in ReadSteps THEN Put(toT, Nack) ELSE toT
  /\ UNCHANGED <<size, tabVars, toC, link>>

-----------------------------------------------------------------------------
(* internalWrite: send the size, read ACK, send the data, read ACK.  The send
   loop has no timeout: it ends by moving everything or by an error. *)

\* (without waiting for the ACK of the size)
SendSizeThenData(n) ==
  /\ pc = "w.size"
  /\ IF CanSend THEN /\ toT' = Append(toT, Item("size", n)) /\ Goto("w.data")
                     /\ left' = n /\ UNCHANGED <<got, late>>
                ELSE UNCHANGED toT /\ Finish(FALSE)
  /\ size' = n
  /\ UNCHANGED <<tabVars, toC, link>>
SendSize(n) ==
  /\ pc = "w.size"
  /\ IF CanSend THEN /\ toT' = Append(toT, Item("size", n)) /\ Goto("w.ackSize")
                     /\ left' = n /\ UNCHANGED <<got, late>>
                ELSE UNCHANGED toT /\ Finish(FALSE)
  /\ size' = n
  /\ UNCHANGED <<tabVars, toC, link>>

ReadAck ==
  /\ pc \in {"w.ackSize", "w.ackData"} /\ toC # <<>>
  /\ toC' = Tail(toC)
  /\ IF ~IsKind(toC, "ack") THEN Finish(FALSE)
     ELSE IF pc = "w.ackData" THEN Finish(TRUE)
     ELSE Goto("w.data") /\ UNCHANGED <<left, got, late>>
  /\ UNCHANGED <<size, tabVars, toT, link>>

\* Numbers the messages: the transactions the computer has begun to serve.
Begun == count - Cardinality({i \in DOMAIN toC : toC[i].kind = "code"})

\* (from the start of the data each time round the loop)
SendDataFromStart ==
  /\ pc = "w.data" /\ left > 0 /\ CanSend /\ ~BufferFull
  /\ toT' = Append(toT, Piece(Begun, 1, size)) /\ left' = left - 1
  /\ UNCHANGED <<pc, got, size, tabVars, toC, link, late>>
SendData ==
  /\ pc = "w.data" /\ left > 0 /\ CanSend /\ ~BufferFull
  /\ toT' = Append(toT, Piece(Begun, size - left + 1, size)) /\ left' = left - 1
  /\ UNCHANGED <<pc, got, size, tabVars, toC, link, late>>

SendFails ==
  /\ pc = "w.data" /\ left > 0 /\ ~CanSend
  /\ Finish(FALSE)
  /\ UNCHANGED <<size, tabVars, toC, toT, link>>

EndSend ==
  /\ pc = "w.data" /\ left = 0
  /\ Goto("w.ackData")
  /\ UNCHANGED <<left, got, size, tabVars, toC, toT, link, late>>

-----------------------------------------------------------------------------
(* External: the tablet, following the exchange; anything unexpected makes it
   give up.  It drops what is left over before it asks again. *)

TabletAsk(c) ==
  /\ tpc = "idle" /\ link = "up" /\ count < MaxTransactions
  /\ count' = count + 1
  /\ toC' = Append(toC, Item("code", c))
  /\ toT' = <<>> /\ tleft' = 0
  /\ tpc' = IF c = "read" THEN "r.ack" ELSE IF c = "write" THEN "w.size" ELSE "idle"
  /\ UNCHANGED <<compVars, tgot, len, link, late>>

TabletWaits == tpc \in {"r.ack", "r.ackSize", "w.size"} \/ (tpc = "w.data" /\ tleft > 0)

TabletReceive ==
  /\ TabletWaits /\ toT # <<>>
  /\ toT' = Tail(toT)
  /\ LET x == Head(toT) IN
     CASE tpc = "r.ack" /\ x = Ack     -> tpc' = "r.size" /\ UNCHANGED <<tleft, tgot>>
       [] tpc = "r.ackSize" /\ x = Ack -> tpc' = "r.data" /\ UNCHANGED <<tleft, tgot>>
       [] tpc = "w.size" /\ x.kind = "size" ->
            tpc' = "w.ackSize" /\ tleft' = x.val /\ tgot' = <<>>
       [] tpc = "w.data" /\ x.kind = "data" ->
            tleft' = tleft - 1 /\ tgot' = Append(tgot, x) /\ UNCHANGED tpc
       [] OTHER -> tpc' = "idle" /\ tleft' = 0 /\ UNCHANGED tgot
  /\ UNCHANGED <<compVars, count, len, toC, link, late>>

TabletSend(from, x, to) ==
  /\ tpc = from /\ link = "up"
  /\ toC' = Append(toC, x) /\ tpc' = to
  /\ UNCHANGED <<compVars, count, tgot, toT, link, late>>

TabletSendSize(n) ==
  /\ TabletSend("r.size", Item("size", n), "r.ackSize")
  /\ tleft' = n /\ len' = n
TabletSendPiece ==
  /\ tleft > 0
  /\ TabletSend("r.data", Piece(count, len - tleft + 1, len), "r.data")
  /\ tleft' = tleft - 1 /\ UNCHANGED len
TabletSendAck ==
  /\ \/ TabletSend("w.ackSize", Ack, "w.data")
     \/ tleft = 0 /\ TabletSend("w.data", Ack, "idle")
  /\ UNCHANGED <<tleft, len>>
TabletEnd ==
  /\ tpc = "r.data" /\ tleft = 0 /\ tpc' = "idle"
  /\ UNCHANGED <<compVars, tleft, tgot, count, len, toC, toT, link, late>>

\* A graceful close leaves what was sent readable; a lost connection does not.
TabletGoes(how) ==
  /\ link = "up" /\ link' = how
  /\ tpc' = "idle" /\ toT' = <<>>
  /\ toC' = IF how = "lost" THEN <<>> ELSE toC
  /\ UNCHANGED <<compVars, tleft, tgot, count, len, late>>

-----------------------------------------------------------------------------
Read  == \/ SendAck("r.ack", "r.size") \/ ReadSize \/ SendAck("r.ackSize", "r.data")
         \/ ReadData \/ EndRead \/ MallocFails
Write == (\E n \in 0 .. MaxLen : SendSize(n)) \/ ReadAck \/ SendData \/ SendFails \/ EndSend
Begin == SocketError \/ RefuseTransaction \/ \E c \in Dirs \cup {"close"} : BeginTransaction(c)
Computer == Begin \/ Read \/ Write \/ GiveUp

TabletStep == \/ \E c \in Dirs \cup {"close"} : TabletAsk(c)
              \/ TabletReceive
              \/ \E n \in 0 .. MaxLen : TabletSendSize(n)
              \/ TabletSendPiece \/ TabletSendAck \/ TabletEnd
              \/ TabletGoes("closed") \/ TabletGoes("lost")

Next == Computer \/ TabletStep
\* The worker thread and the frame loop keep running; nothing is assumed of
\* the tablet.
Spec == Init /\ [][Next]_vars
FairSpec == Spec /\ WF_vars(Computer)

-----------------------------------------------------------------------------
(* Properties *)

Items == [kind : {"ack", "nack"}, val : {0}]
         \cup [kind : {"code"}, val : Dirs \cup {"close"}]
         \cup [kind : {"size"}, val : 0 .. MaxLen]
         \cup [kind : {"data"}, val : (1 .. MaxTransactions) \X (1 .. MaxLen) \X (0 .. MaxLen)]

TypeOK ==
  /\ pc \in {"idle"} \cup ReadSteps \cup WriteSteps
  /\ size \in 0 .. MaxLen
  /\ left \in -1 .. MaxLen + 1 /\ got \in Seq(Items)
  /\ tpc \in TabletSteps /\ tleft \in 0 .. MaxLen /\ tgot \in Seq(Items)
  /\ count \in 0 .. MaxTransactions /\ len \in 0 .. MaxLen
  /\ toC \in Seq(Items) /\ toT \in Seq(Items)
  /\ link \in {"up", "closed", "lost", "shut"} /\ late \in BOOLEAN

\* Until the computer gives an exchange up, no item is ever taken for another:
\* what it reads next is what the step it is at expects.
InStep ==
  ~late /\ toC # <<>> /\ link # "shut" =>
    Head(toC).kind = CASE pc = "idle"   -> "code"
                       [] pc = "r.size" -> "size"
                       [] pc = "r.data" /\ left > 0 -> "data"
                       [] pc \in {"w.ackSize", "w.ackData"} -> "ack"
                       [] OTHER -> Head(toC).kind

\* Until then what internalRead returns with success is one message of the
\* tablet, whole and in order.
ReadIsWhole ==
  ~late /\ pc = "r.data" /\ left = 0 =>
    \E k \in 1 .. count, n \in 0 .. MaxLen : got = Message(k, n)

\* Until then internalWrite reports success only for data the tablet holds
\* completely.  (Behind its last ACK the tablet may have asked again already.)
WriteIsWhole ==
  ~late /\ pc = "w.ackData" /\ toC # <<>> => tgot = Message(Begun, size)

\* Until then the two ends never wait for each other with both streams empty:
\* the 15 s timeout is only ever needed against a tablet that fell silent.
NoStandoff ==
  ~late /\ link = "up" => ~(pc \in Waiting /\ TabletWaits /\ toC = <<>> /\ toT = <<>>
                            /\ (pc = "r.data" => left > 0))

\* A transaction ends whatever the tablet does, but for the one wait without a
\* timeout: the send loop on a full buffer nobody drains.
StuckSending == pc = "w.data" /\ left > 0 /\ CanSend /\ BufferFull
TransactionEnds == pc # "idle" ~> (pc = "idle" \/ StuckSending)
=============================================================================
