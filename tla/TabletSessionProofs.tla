------------------------ MODULE TabletSessionProofs ------------------------
(* Proofs about TabletSession, for messages, buffers and sessions of any     *)
(* length.                                                                   *)
EXTENDS TabletSession, FiniteSetTheorems, FunctionTheorems, SequenceTheorems, TLAPS

-----------------------------------------------------------------------------
(* The inductive invariant, in parts *)

CodesIn(s) == {i \in DOMAIN s : s[i].kind = "code"}

\* The counts of the two ends, in step or not.
BoundsInv ==
  /\ pc \in {"w.ackSize", "w.data"} => left \in 0 .. size
  /\ pc # "r.data" => got = <<>>
  /\ tpc \in {"r.ackSize", "r.data"} => tleft <= len
  /\ tpc # "idle" => count > 0
  /\ link = "shut" => pc = "idle"
  /\ link \in {"closed", "lost"} => tpc = "idle"

\* Nothing comes before the code of the first transaction.
FirstInv ==
  /\ Begun >= 0
  /\ Begun = 0 => pc = "idle" /\ (toC # <<>> => IsKind(toC, "code"))

TypeInv == TypeOK /\ BoundsInv /\ FirstInv

\* Behind its first n items toC holds code bytes, and all but its last item ask
\* to close: the tablet waits behind any other code.
CodesAfter(n) ==
  \A i \in DOMAIN toC : i > n =>
    toC[i].kind = "code" /\ (i < Len(toC) => toC[i].val = "close")

\* internalWrite has sent everything.
AckAwaited == pc = "w.ackData" \/ (pc = "w.data" /\ left = 0)

\* Message k of n pieces is arriving.
Arriving(k, n) ==
  /\ n = Len(got) + left
  /\ \A i \in DOMAIN got : got[i] = Piece(k, i, n)
  /\ \A i \in DOMAIN toC : i <= left => toC[i] = Piece(k, Len(got) + i, n)

\* Both ACKs at once: a message without data.
Both == /\ size = 0 /\ Len(toC) > 1 /\ toC[1] = Ack /\ toC[2] = Ack
        /\ CodesAfter(2) /\ tgot = <<>>

\* What the computer is going to read, at each of its steps.
ToReadInv ==
  /\ pc = "idle" => CodesAfter(0)
  /\ pc \in {"r.ack", "r.ackSize", "w.size"} => toC = <<>>
  /\ pc = "r.size" => toC = <<>> \/ \E n \in 0 .. MaxLen : toC = <<Item("size", n)>>
  /\ pc = "r.data" => /\ left >= 0 /\ CodesAfter(left)
                      /\ \E k \in 1 .. count, n \in 0 .. MaxLen : Arriving(k, n)
  /\ pc = "w.ackSize" => toC = <<>> \/ toC = <<Ack>> \/ Both
  /\ pc = "w.data" /\ left > 0 => toC = <<>>
  /\ AckAwaited /\ toC # <<>> =>
       toC[1] = Ack /\ CodesAfter(1) /\ tgot = Message(Begun, size)

\* The tablet has done its part of every exchange the computer is at.
Ahead ==
  /\ toT = <<>>
  /\ \/ pc = "idle"
     \/ pc = "r.data" /\ left <= Len(toC)
     \/ pc = "w.ackSize" /\ Len(toC) > 1
     \/ AckAwaited /\ toC # <<>>
Asked(c) == Ahead /\ toC # <<>> /\ toC[Len(toC)] = Item("code", c)
Silent == toC = <<>> /\ toT = <<>>

\* The tablet holds the first pieces of what internalWrite sends, toT the next.
Leaving ==
  /\ Len(tgot) + Len(toT) = size - left
  /\ \A i \in DOMAIN tgot : tgot[i] = Piece(count, i, size)
  /\ \A i \in DOMAIN toT : toT[i] = Piece(count, Len(tgot) + i, size)

\* Where the computer can be, at each step of the tablet.
AtIdle == Ahead /\ \A i \in DOMAIN toC : toC[i].kind = "code" => toC[i].val = "close"
AtReadAck == \/ Asked("read")
             \/ pc = "r.ack" /\ Silent
             \/ pc = "r.size" /\ toC = <<>> /\ toT = <<Ack>>
AtReadSize == pc = "r.size" /\ Silent
AtReadAckSize ==
  /\ tleft = len
  /\ \/ pc = "r.size" /\ toC = <<Item("size", len)>> /\ toT = <<>>
     \/ pc = "r.ackSize" /\ left = len /\ Silent
     \/ /\ toC = <<>> /\ toT = <<Ack>>
        /\ (pc = "r.data" /\ left = len /\ got = <<>>) \/ (pc = "idle" /\ len = 0)
AtReadData ==
  \/ /\ pc = "r.data" /\ toT = <<>> /\ left = tleft + Len(toC)
     /\ Len(got) + left = len /\ Arriving(count, len)
  \/ pc = "idle" /\ tleft = 0 /\ Silent
AtWriteSize == \/ Asked("write")
               \/ pc = "w.size" /\ Silent
               \/ /\ pc = "w.ackSize" /\ left = size
                  /\ toC = <<>> /\ toT = <<Item("size", size)>>
AtWriteAckSize == /\ pc = "w.ackSize" /\ left = size /\ Silent
                  /\ tleft = size /\ tgot = <<>>
AtWriteData ==
  \/ /\ pc = "w.ackSize" /\ left = size /\ toC = <<Ack>> /\ toT = <<>>
     /\ tleft = size /\ tgot = <<>>
  \/ /\ pc \in {"w.data", "w.ackData"} /\ (pc = "w.ackData" => left = 0)
     /\ toC = <<>> /\ tleft = left + Len(toT) /\ Leaving

TogetherInv ==
  /\ tpc = "idle" => AtIdle
  /\ tpc = "r.ack" => AtReadAck
  /\ tpc = "r.size" => AtReadSize
  /\ tpc = "r.ackSize" => AtReadAckSize
  /\ tpc = "r.data" => AtReadData
  /\ tpc = "w.size" => AtWriteSize
  /\ tpc = "w.ackSize" => AtWriteAckSize
  /\ tpc = "w.data" => AtWriteData

ExchangeInv ==
  /\ ~late /\ link # "shut" => ToReadInv
  /\ ~late /\ link = "up" => TogetherInv

-----------------------------------------------------------------------------
(* Facts about the streams *)

\* What stands in a stream.
LEMMA ItemTypes ==
  /\ Ack \in Items /\ Nack \in Items /\ Ack.kind = "ack" /\ Nack.kind = "nack"
  /\ \A c \in Dirs \cup {"close"} :
       Item("code", c) \in Items /\ Item("code", c).kind = "code" /\ Item("code", c).val = c
  /\ \A n \in 0 .. MaxLen :
       Item("size", n) \in Items /\ Item("size", n).kind = "size" /\ Item("size", n).val = n
  /\ \A k \in 1 .. MaxTransactions, i \in 1 .. MaxLen, n \in 0 .. MaxLen :
       Piece(k, i, n) \in Items /\ Piece(k, i, n).kind = "data"
  BY DEF Items, Item, Ack, Nack, Piece

\* An empty stream is one.
LEMMA EmptyType == <<>> \in Seq(Items) /\ CodesIn(<<>>) = {}
  BY DEF CodesIn

\* What the fields of an item hold.
LEMMA ItemKinds ==
  \A x \in Items : /\ x.kind = "code" => x.val \in Dirs \cup {"close"}
                   /\ x.kind = "size" => x.val \in 0 .. MaxLen
  BY DEF Items

\* The bounds are numbers.
LEMMA Bounds == MaxLen \in Nat /\ MaxTransactions \in Nat /\ Room \in Nat
  BY LenAssumption, RoomAssumption

\* A stream after an item was put into it.
LEMMA Put1 ==
  ASSUME NEW s \in Seq(Items), NEW x \in Items
  PROVE  /\ Append(s, x) \in Seq(Items) /\ Len(Append(s, x)) = Len(s) + 1
         /\ DOMAIN Append(s, x) = 1 .. Len(s) + 1 /\ DOMAIN s = 1 .. Len(s) /\ Len(s) \in Nat
         /\ \A i \in DOMAIN s : Append(s, x)[i] = s[i]
         /\ Append(s, x)[Len(s) + 1] = x
         /\ Head(Append(s, x)) = IF s = <<>> THEN x ELSE Head(s)
  BY AppendProperties, HeadTailAppend

\* A stream after its first item was taken.
LEMMA Take1 ==
  ASSUME NEW s \in Seq(Items), s # <<>>
  PROVE  /\ Tail(s) \in Seq(Items) /\ Len(Tail(s)) = Len(s) - 1
         /\ DOMAIN Tail(s) = 1 .. Len(s) - 1 /\ DOMAIN s = 1 .. Len(s) /\ Len(s) \in Nat \ {0}
         /\ \A i \in 1 .. Len(s) - 1 : Tail(s)[i] = s[i + 1]
         /\ Head(s) = s[1] /\ Head(s) \in Items
  BY HeadTailProperties

\* The code bytes of a stream can be counted.
LEMMA CountCodes ==
  ASSUME NEW s \in Seq(Items)
  PROVE  /\ IsFiniteSet(CodesIn(s)) /\ Cardinality(CodesIn(s)) \in Nat
         /\ Cardinality(CodesIn(s)) = 0 <=> CodesIn(s) = {}
         /\ Cardinality(CodesIn(s)) <= Len(s)
<1>1. IsFiniteSet(1 .. Len(s)) /\ Cardinality(1 .. Len(s)) = Len(s)
  <2>1. Len(s) \in Nat /\ Len(s) \in Int /\ 1 \in Int
    OBVIOUS
  <2>2. IsFiniteSet(1 .. Len(s)) /\ Cardinality(1 .. Len(s)) = IF 1 > Len(s) THEN 0 ELSE Len(s) - 1 + 1
    BY <2>1, FS_Interval
  <2> QED
    BY <2>1, <2>2
<1>2. CodesIn(s) \in SUBSET (1 .. Len(s))
  BY DEF CodesIn
<1>3. IsFiniteSet(CodesIn(s)) /\ Cardinality(CodesIn(s)) <= Len(s)
  BY <1>1, <1>2, FS_Subset
<1> QED
  BY <1>3, FS_CardinalityType, FS_EmptySet

\* Putting an item in counts it if it is a code.
LEMMA CountPut ==
  ASSUME NEW s \in Seq(Items), NEW x \in Items
  PROVE  Cardinality(CodesIn(Append(s, x))) =
           IF x.kind = "code" THEN Cardinality(CodesIn(s)) + 1 ELSE Cardinality(CodesIn(s))
<1>1. CodesIn(Append(s, x)) =
        IF x.kind = "code" THEN CodesIn(s) \cup {Len(s) + 1} ELSE CodesIn(s)
  BY Put1 DEF CodesIn
<1>2. Len(s) + 1 \notin CodesIn(s) /\ IsFiniteSet(CodesIn(s))
  <2>1. DOMAIN s = 1 .. Len(s) /\ Len(s) \in Nat
    OBVIOUS
  <2>2. CodesIn(s) \subseteq DOMAIN s
    BY DEF CodesIn
  <2> QED
    BY <2>1, <2>2, CountCodes
<1> QED
  BY <1>1, <1>2, FS_AddElement

\* Taking one out does not count it any more.
LEMMA CountTake ==
  ASSUME NEW s \in Seq(Items), s # <<>>
  PROVE  Cardinality(CodesIn(Tail(s))) =
           IF IsKind(s, "code") THEN Cardinality(CodesIn(s)) - 1 ELSE Cardinality(CodesIn(s))
<1> DEFINE f == [i \in CodesIn(Tail(s)) |-> i + 1]
           T == CodesIn(s) \ {1}
<1>1. \A i \in CodesIn(Tail(s)) : i \in 1 .. Len(s) - 1 /\ i + 1 \in T
  BY Take1 DEF CodesIn
<1>2. \A j \in T : j - 1 \in CodesIn(Tail(s)) /\ (j - 1) + 1 = j
  BY Take1 DEF CodesIn
<1>3. f \in Bijection(CodesIn(Tail(s)), T)
  <2>1. f \in [CodesIn(Tail(s)) -> T]
    BY <1>1
  <2>2. \A i, j \in CodesIn(Tail(s)) : f[i] = f[j] => i = j
    BY <1>1
  <2>3. \A j \in T : \E i \in CodesIn(Tail(s)) : f[i] = j
    BY <1>2
  <2> HIDE DEF f, T
  <2> QED
    BY <2>1, <2>2, <2>3, Fun_IsBij
<1>4. Cardinality(T) = Cardinality(CodesIn(Tail(s)))
  <2>1. IsFiniteSet(CodesIn(Tail(s))) /\ ExistsBijection(CodesIn(Tail(s)), T)
    BY <1>3, Take1, CountCodes DEF ExistsBijection
  <2> QED
    BY <2>1, FS_Bijection
<1>5. 1 \in CodesIn(s) <=> IsKind(s, "code")
  BY Take1 DEF CodesIn, IsKind
<1>6. Cardinality(T) = IF 1 \in CodesIn(s) THEN Cardinality(CodesIn(s)) - 1
                                          ELSE Cardinality(CodesIn(s))
  BY CountCodes, FS_RemoveElement
<1> QED
  BY <1>4, <1>5, <1>6

\* The same for the transactions begun.
LEMMA BegunIs == Begun = count - Cardinality(CodesIn(toC))
  BY DEF Begun, CodesIn

-----------------------------------------------------------------------------
(* Types *)

\* The bound on the transactions begun.
LEMMA BegunType == TypeInv => Begun \in 0 .. MaxTransactions /\ (pc # "idle" => Begun \in 1 .. MaxTransactions)
<1> SUFFICES ASSUME TypeInv PROVE Begun \in 0 .. MaxTransactions /\ (pc # "idle" => Begun # 0)
  OBVIOUS
<1>1. count \in 0 .. MaxTransactions /\ toC \in Seq(Items)
  BY DEF TypeInv, TypeOK
<1>2. Cardinality(CodesIn(toC)) \in Nat
  BY <1>1, CountCodes
<1> QED
  BY <1>1, <1>2, BegunIs, Bounds DEF TypeInv, FirstInv

\* Nothing is begun, and the tablet and the bytes it sent stay what they are.
LEMMA FirstKept ==
  ASSUME FirstInv, UNCHANGED <<count, toC>>, pc' # "idle" => pc # "idle"
  PROVE  FirstInv'
<1>1. Begun' = Begun
  BY DEF Begun
<1> QED
  BY <1>1 DEF FirstInv, IsKind

\* Taking an item never takes a transaction back, and begins one if it is a code.
LEMMA FirstTaken ==
  ASSUME TypeInv, toC # <<>>, toC' = Tail(toC), UNCHANGED count
  PROVE  FirstInv' /\ Begun' > 0
<1>1. toC \in Seq(Items) /\ count \in Nat
  BY DEF TypeInv, TypeOK
<1>2. /\ Begun = count - Cardinality(CodesIn(toC))
      /\ Begun' = count - Cardinality(CodesIn(Tail(toC)))
  BY BegunIs DEF Begun, CodesIn
<1>3. Cardinality(CodesIn(toC)) \in Nat /\ Cardinality(CodesIn(Tail(toC))) \in Nat
  BY <1>1, CountCodes, Take1
<1>4. Begun' = IF IsKind(toC, "code") THEN Begun + 1 ELSE Begun
  BY <1>1, <1>2, <1>3, CountTake
<1>5. Begun \in Nat /\ (Begun = 0 => pc = "idle" /\ IsKind(toC, "code"))
  BY <1>1, <1>2, <1>3 DEF TypeInv, FirstInv
<1>6. Begun' \in Nat /\ Begun' > 0
  BY <1>4, <1>5
<1> QED
  BY <1>6 DEF FirstInv

\* Putting one in changes nothing, but that the tablet asks once more.
LEMMA FirstPut ==
  ASSUME TypeInv, NEW x \in Items, toC' = Append(toC, x), UNCHANGED pc,
         IF x.kind = "code" THEN count' = count + 1 ELSE count' = count /\ count > 0
  PROVE  FirstInv' /\ Begun' = Begun
<1>1. toC \in Seq(Items) /\ count \in Nat
  BY DEF TypeInv, TypeOK
<1>2. /\ Begun = count - Cardinality(CodesIn(toC))
      /\ Begun' = count' - Cardinality(CodesIn(Append(toC, x)))
  BY BegunIs DEF Begun, CodesIn
<1>3. Cardinality(CodesIn(toC)) \in Nat
  BY <1>1, CountCodes
<1>4. Begun' = Begun
  BY <1>1, <1>2, <1>3, CountPut
<1>5. Begun = 0 => IsKind(toC', "code")
  <2>1. CASE toC = <<>>
    <3>1. CodesIn(toC) = {}
      BY <2>1 DEF CodesIn
    <3>2. Cardinality(CodesIn(toC)) = 0
      BY <1>1, <3>1, CountCodes
    <3>3. Begun = 0 => x.kind = "code"
      BY <1>1, <1>2, <3>2
    <3> QED
      BY <1>1, <2>1, <3>3, Put1 DEF IsKind
  <2>2. CASE toC # <<>>
    BY <1>1, <2>2, Put1 DEF TypeInv, FirstInv, IsKind
  <2> QED
    BY <2>1, <2>2
<1> QED
  BY <1>4, <1>5 DEF TypeInv, FirstInv

\* Sending from the computer keeps the type of the stream to the tablet.
LEMMA PutType ==
  ASSUME TypeOK, NEW x \in Items
  PROVE  Append(toT, x) \in Seq(Items) /\ Put(toT, x) \in Seq(Items)
  BY DEF TypeOK, Put

\* The end of a transaction keeps the bounds.
LEMMA FinishTypes ==
  ASSUME TypeInv, NEW ok \in BOOLEAN, Finish(ok), toT' \in Seq(Items),
         UNCHANGED <<size, tabVars, toC, link>>
  PROVE  TypeInv'
<1>1. /\ pc' = "idle" /\ left' = 0 /\ got' = <<>> /\ late' \in BOOLEAN
      /\ UNCHANGED <<size, tpc, tleft, tgot, count, len, toC, link>>
  BY DEF Finish, Goto, TypeInv, TypeOK, tabVars
<1>2. TypeOK'
  BY <1>1, Bounds DEF TypeInv, TypeOK
<1>3. BoundsInv'
  BY <1>1 DEF TypeInv, BoundsInv
<1>4. FirstInv'
  BY <1>1, FirstKept DEF TypeInv
<1> QED
  BY <1>2, <1>3, <1>4 DEF TypeInv

\* handleReadyConnections
LEMMA BeginTypes ==
  ASSUME TypeInv, Begin
  PROVE  TypeInv'
<1>1. CASE SocketError
  <2>1. TypeOK' /\ BoundsInv'
    BY <1>1 DEF SocketError, TypeInv, TypeOK, BoundsInv, compVars, tabVars
  <2>2. FirstInv'
    BY <1>1, FirstKept DEF SocketError, TypeInv, compVars, tabVars
  <2> QED
    BY <2>1, <2>2 DEF TypeInv
<1>2. ASSUME NEW c \in Dirs \cup {"close"}, BeginTransaction(c)
      PROVE  TypeInv'
  <2>1. /\ pc = "idle" /\ toC # <<>> /\ toC' = Tail(toC)
        /\ UNCHANGED <<left, got, size, tpc, tleft, tgot, count, len, toT, late>>
        /\ \/ pc' \in {"r.ack", "w.size"} /\ link' = link /\ link # "shut"
           \/ pc' = "idle" /\ link' = "shut"
    BY <1>2 DEF BeginTransaction, Goto, tabVars
  <2>2. toC' \in Seq(Items)
    BY <2>1, Take1 DEF TypeInv, TypeOK
  <2>3. TypeOK' /\ BoundsInv'
    BY <2>1, <2>2 DEF TypeInv, TypeOK, BoundsInv, ReadSteps, WriteSteps
  <2>4. FirstInv'
    BY <2>1, FirstTaken
  <2> QED
    BY <2>3, <2>4 DEF TypeInv
<1>3. CASE RefuseTransaction
  <2>1. TypeOK' /\ BoundsInv'
    BY <1>3 DEF RefuseTransaction, TypeInv, TypeOK, BoundsInv, compVars, tabVars
  <2>2. FirstInv'
    BY <1>3, FirstKept DEF RefuseTransaction, TypeInv, compVars, tabVars
  <2> QED
    BY <2>1, <2>2 DEF TypeInv
<1> QED
  BY <1>1, <1>2, <1>3 DEF Begin

\* internalRead
LEMMA ReadTypes ==
  ASSUME TypeInv, Read \/ GiveUp
  PROVE  TypeInv'
<1>0. TypeOK /\ BoundsInv /\ FirstInv
  BY DEF TypeInv
<1>1. ASSUME NEW from \in {"r.ack", "r.ackSize"}, NEW to \in {"r.size", "r.data"},
             SendAck(from, to)
      PROVE  TypeInv'
  <2>1. CASE CanSend
    <3>1. /\ pc = from /\ pc' = to /\ toT' = Append(toT, Ack)
          /\ UNCHANGED <<left, got, size, tpc, tleft, tgot, count, len, toC, link, late>>
      BY <1>1, <2>1 DEF SendAck, Goto, tabVars
    <3>2. TypeOK'
      BY <1>0, <3>1, PutType, ItemTypes DEF TypeOK, ReadSteps
    <3>3. BoundsInv' /\ FirstInv'
      BY <1>0, <3>1, <2>1, FirstKept DEF BoundsInv, CanSend
    <3> QED
      BY <3>2, <3>3 DEF TypeInv
  <2>2. CASE ~CanSend
    BY <1>0, <1>1, <2>2, FinishTypes DEF SendAck, TypeOK
  <2> QED
    BY <2>1, <2>2
<1>2. CASE ReadSize
  <2>1. /\ pc = "r.size" /\ pc' = "r.ackSize" /\ toC # <<>> /\ toC' = Tail(toC)
        /\ left' \in SizesOf(Head(toC))
        /\ UNCHANGED <<got, size, tpc, tleft, tgot, count, len, toT, link, late>>
    BY <1>2 DEF ReadSize, Goto, tabVars
  <2>2. toC' \in Seq(Items) /\ left' \in -1 .. MaxLen + 1
    <3>1. Head(toC) \in Items /\ Tail(toC) \in Seq(Items)
      BY <1>0, <2>1, Take1 DEF TypeOK
    <3> QED
      BY <2>1, <3>1, ItemKinds, Bounds DEF SizesOf
  <2>3. TypeOK' /\ BoundsInv'
    BY <1>0, <2>1, <2>2 DEF TypeOK, BoundsInv, ReadSteps
  <2>4. FirstInv'
    BY <2>1, FirstTaken
  <2> QED
    BY <2>3, <2>4 DEF TypeInv
<1>3. CASE ReadData
  <2>1. /\ pc = "r.data" /\ left > 0 /\ toC # <<>> /\ toC' = Tail(toC)
        /\ got' = Append(got, Head(toC)) /\ left' = left - 1
        /\ UNCHANGED <<pc, size, tpc, tleft, tgot, count, len, toT, link, late>>
    BY <1>3 DEF ReadData, tabVars
  <2>2. /\ toC' \in Seq(Items) /\ got' \in Seq(Items) /\ left' \in -1 .. MaxLen + 1
    <3>1. Head(toC) \in Items /\ Tail(toC) \in Seq(Items)
      BY <1>0, <2>1, Take1 DEF TypeOK
    <3>2. left \in -1 .. MaxLen + 1 /\ got \in Seq(Items)
      BY <1>0 DEF TypeOK
    <3> QED
      BY <2>1, <3>1, <3>2, Bounds
  <2>3. TypeOK' /\ BoundsInv'
    BY <1>0, <2>1, <2>2 DEF TypeOK, BoundsInv
  <2>4. FirstInv'
    BY <2>1, FirstTaken
  <2> QED
    BY <2>3, <2>4 DEF TypeInv
<1>4. CASE EndRead
  BY <1>0, <1>4, FinishTypes DEF EndRead, TypeOK
<1>5. CASE MallocFails \/ GiveUp
  <2>1. Finish(FALSE) /\ UNCHANGED <<size, tabVars, toC, link>>
    BY <1>5 DEF MallocFails, GiveUp
  <2>2. toT' \in Seq(Items)
    <3>1. toT' \in {toT, Put(toT, Nack)}
      BY <1>5 DEF MallocFails, GiveUp
    <3> QED
      BY <1>0, <3>1, PutType, ItemTypes DEF TypeOK
  <2> QED
    BY <2>1, <2>2, FinishTypes
<1> QED
  BY <1>1, <1>2, <1>3, <1>4, <1>5 DEF Read

\* internalWrite
LEMMA WriteTypes ==
  ASSUME TypeInv, Write
  PROVE  TypeInv'
<1>0. TypeOK /\ BoundsInv /\ FirstInv
  BY DEF TypeInv
<1>1. ASSUME NEW n \in 0 .. MaxLen, SendSize(n)
      PROVE  TypeInv'
  <2>1. /\ pc = "w.size" /\ size' = n
        /\ UNCHANGED <<tpc, tleft, tgot, count, len, toC, link>>
        /\ \/ pc' = "w.ackSize" /\ left' = n /\ got' = got /\ late' = late
           \/ pc' = "idle" /\ left' = 0 /\ got' = <<>> /\ late' = TRUE
        /\ toT' \in {toT, Append(toT, Item("size", n))}
        /\ CanSend \/ pc' = "idle"
    BY <1>1 DEF SendSize, Finish, Goto, tabVars
  <2>2. toT' \in Seq(Items)
    <3>1. Item("size", n) \in Items
      BY ItemTypes
    <3>2. Append(toT, Item("size", n)) \in Seq(Items) /\ toT \in Seq(Items)
      BY <1>0, <3>1, PutType DEF TypeOK
    <3> QED
      BY <2>1, <3>2
  <2>3. TypeOK'
    <3>1. size' \in 0 .. MaxLen /\ left' \in -1 .. MaxLen + 1
      BY <2>1, Bounds
    <3>2. pc' \in {"idle"} \cup WriteSteps /\ got' \in Seq(Items) /\ late' \in BOOLEAN
      BY <1>0, <2>1, EmptyType DEF TypeOK, WriteSteps
    <3> QED
      BY <1>0, <2>1, <2>2, <3>1, <3>2 DEF TypeOK
  <2>4. BoundsInv' /\ FirstInv'
    BY <1>0, <2>1, FirstKept, Bounds DEF BoundsInv, CanSend
  <2> QED
    BY <2>3, <2>4 DEF TypeInv
<1>2. CASE ReadAck
  <2>1. /\ pc \in {"w.ackSize", "w.ackData"} /\ toC # <<>> /\ toC' = Tail(toC)
        /\ UNCHANGED <<size, tpc, tleft, tgot, count, len, toT, link>>
        /\ \/ pc = "w.ackSize" /\ pc' = "w.data" /\ UNCHANGED <<left, got, late>>
           \/ pc' = "idle" /\ left' = 0 /\ got' = <<>> /\ late' \in BOOLEAN
    BY <1>0, <1>2 DEF ReadAck, Finish, Goto, TypeOK, tabVars
  <2>2. toC' \in Seq(Items)
    BY <1>0, <2>1, Take1 DEF TypeOK
  <2>3. TypeOK' /\ BoundsInv'
    BY <1>0, <2>1, <2>2, Bounds DEF TypeOK, BoundsInv, WriteSteps
  <2>4. FirstInv'
    BY <2>1, FirstTaken
  <2> QED
    BY <2>3, <2>4 DEF TypeInv
<1>3. CASE SendData
  <2>1. /\ pc = "w.data" /\ left > 0 /\ left' = left - 1
        /\ toT' = Append(toT, Piece(Begun, size - left + 1, size))
        /\ UNCHANGED <<pc, got, size, tpc, tleft, tgot, count, len, toC, link, late>>
    BY <1>3 DEF SendData, tabVars
  <2>2. left \in 0 .. size /\ size \in 0 .. MaxLen
    BY <1>0, <2>1 DEF BoundsInv, TypeOK
  <2>3. size - left + 1 \in 1 .. MaxLen /\ left' \in 0 .. size /\ left' \in -1 .. MaxLen + 1
    BY <2>1, <2>2, Bounds
  <2>4. toT' \in Seq(Items)
    <3>1. Begun \in 1 .. MaxTransactions
      BY <2>1, BegunType
    <3>2. Piece(Begun, size - left + 1, size) \in Items
      BY <2>2, <2>3, <3>1, ItemTypes
    <3> QED
      BY <1>0, <2>1, <3>2, PutType
  <2>5. TypeOK'
    BY <1>0, <2>1, <2>3, <2>4 DEF TypeOK
  <2>6. BoundsInv' /\ FirstInv'
    BY <1>0, <2>1, <2>3, FirstKept DEF BoundsInv
  <2> QED
    BY <2>5, <2>6 DEF TypeInv
<1>4. CASE SendFails
  BY <1>0, <1>4, FinishTypes DEF SendFails, TypeOK
<1>5. CASE EndSend
  <2>1. pc = "w.data" /\ pc' = "w.ackData"
        /\ UNCHANGED <<left, got, size, tpc, tleft, tgot, count, len, toC, toT, link, late>>
    BY <1>5 DEF EndSend, Goto, tabVars
  <2>2. TypeOK'
    BY <1>0, <2>1 DEF TypeOK, WriteSteps
  <2>3. BoundsInv' /\ FirstInv'
    BY <1>0, <2>1, FirstKept DEF BoundsInv
  <2> QED
    BY <2>2, <2>3 DEF TypeInv
<1> QED
  BY <1>1, <1>2, <1>3, <1>4, <1>5 DEF Write

\* The tablet
LEMMA TabletTypes ==
  ASSUME TypeInv, TabletStep
  PROVE  TypeInv'
<1>0. TypeOK /\ BoundsInv /\ FirstInv
  BY DEF TypeInv
<1>1. ASSUME NEW c \in Dirs \cup {"close"}, TabletAsk(c)
      PROVE  TypeInv'
  <2>1. /\ count < MaxTransactions /\ count' = count + 1 /\ tleft' = 0 /\ toT' = <<>>
        /\ link = "up"
        /\ toC' = Append(toC, Item("code", c)) /\ tpc' \in {"idle", "r.ack", "w.size"}
        /\ UNCHANGED <<pc, left, got, size, tgot, len, link, late>>
    BY <1>1 DEF TabletAsk, compVars
  <2>2. Item("code", c) \in Items /\ Item("code", c).kind = "code"
    BY ItemTypes
  <2>3. toC' \in Seq(Items) /\ count' \in 0 .. MaxTransactions /\ count' > 0
    <3>1. toC \in Seq(Items) /\ count \in 0 .. MaxTransactions
      BY <1>0 DEF TypeOK
    <3> QED
      BY <2>1, <2>2, <3>1, Put1, Bounds
  <2>4. TypeOK' /\ BoundsInv'
    BY <1>0, <2>1, <2>3, Bounds DEF TypeOK, BoundsInv, TabletSteps
  <2>5. FirstInv'
    BY <2>1, <2>2, FirstPut
  <2> QED
    BY <2>4, <2>5 DEF TypeInv
<1>2. CASE TabletReceive
  <2>1. /\ toT # <<>> /\ toT' = Tail(toT)
        /\ UNCHANGED <<pc, left, got, size, count, len, toC, link, late>>
        /\ \/ /\ tpc' \in {"r.size", "r.data"} /\ UNCHANGED <<tleft, tgot>>
              /\ tpc \in {"r.ack", "r.ackSize"} /\ (tpc' = "r.data" => tpc = "r.ackSize")
           \/ /\ Head(toT).kind = "size" /\ tpc = "w.size" /\ tpc' = "w.ackSize"
              /\ tleft' = Head(toT).val /\ tgot' = <<>>
           \/ /\ tpc = "w.data" /\ tleft > 0 /\ tleft' = tleft - 1
              /\ tgot' = Append(tgot, Head(toT)) /\ tpc' = tpc
           \/ tpc' = "idle" /\ tleft' = 0 /\ tgot' = tgot
    BY <1>2 DEF TabletReceive, TabletWaits, compVars
  <2>2. toT' \in Seq(Items) /\ Head(toT) \in Items
    BY <1>0, <2>1, Take1 DEF TypeOK
  <2>3. tleft' \in 0 .. MaxLen /\ tgot' \in Seq(Items)
    <3>1. tleft \in 0 .. MaxLen /\ tgot \in Seq(Items)
      BY <1>0 DEF TypeOK
    <3>2. Head(toT).kind = "size" => Head(toT).val \in 0 .. MaxLen
      BY <2>2, ItemKinds
    <3>3. Append(tgot, Head(toT)) \in Seq(Items) /\ <<>> \in Seq(Items)
      BY <2>2, <3>1
    <3>4. tleft > 0 => tleft - 1 \in 0 .. MaxLen
      BY <3>1, Bounds
    <3>5. 0 \in 0 .. MaxLen
      BY Bounds
    <3> QED
      BY <2>1, <3>1, <3>2, <3>3, <3>4, <3>5
  <2>4. TypeOK' /\ BoundsInv'
    BY <1>0, <2>1, <2>2, <2>3 DEF TypeOK, BoundsInv, TabletSteps
  <2>5. FirstInv'
    BY <1>0, <2>1, FirstKept
  <2> QED
    BY <2>4, <2>5 DEF TypeInv
<1>3. ASSUME NEW x \in Items, NEW to \in TabletSteps, NEW from \in TabletSteps \ {"idle"},
             TabletSend(from, x, to),
             x.kind # "code", tleft' \in 0 .. MaxLen, len' \in 0 .. MaxLen,
             to \in {"r.ackSize", "r.data"} => tleft' <= len'
      PROVE  TypeInv'
  <2>1. /\ tpc = from /\ toC' = Append(toC, x) /\ tpc' = to
        /\ UNCHANGED <<pc, left, got, size, count, tgot, toT, link, late>>
    BY <1>3 DEF TabletSend, compVars
  <2>2. count > 0
    BY <1>0, <1>3, <2>1 DEF BoundsInv
  <2>3. toC' \in Seq(Items)
    BY <1>0, <2>1, Put1 DEF TypeOK
  <2>4. TypeOK' /\ BoundsInv'
    BY <1>0, <1>3, <2>1, <2>2, <2>3 DEF TypeOK, BoundsInv
  <2>5. FirstInv'
    BY <1>3, <2>1, <2>2, FirstPut
  <2> QED
    BY <2>4, <2>5 DEF TypeInv
<1>4. ASSUME NEW n \in 0 .. MaxLen, TabletSendSize(n)
      PROVE  TypeInv'
  <2>1. Item("size", n) \in Items /\ Item("size", n).kind # "code"
    BY ItemTypes
  <2>2. /\ TabletSend("r.size", Item("size", n), "r.ackSize") /\ tleft' = n /\ len' = n
    BY <1>4 DEF TabletSendSize
  <2>3. n <= n
    BY Bounds
  <2> QED
    BY <1>3, <2>1, <2>2, <2>3 DEF TabletSteps
<1>5. CASE TabletSendPiece
  <2>1. /\ tleft > 0 /\ tpc = "r.data" /\ tleft' = tleft - 1 /\ len' = len
        /\ TabletSend("r.data", Piece(count, len - tleft + 1, len), "r.data")
    BY <1>5 DEF TabletSendPiece, TabletSend
  <2>2. /\ tleft \in 0 .. MaxLen /\ len \in 0 .. MaxLen /\ tleft <= len
        /\ count \in 1 .. MaxTransactions
    BY <1>0, <2>1, Bounds DEF TypeOK, BoundsInv
  <2>3. Piece(count, len - tleft + 1, len) \in Items /\ Piece(count, len - tleft + 1, len).kind # "code"
    <3>1. len - tleft + 1 \in 1 .. MaxLen
      BY <2>1, <2>2, Bounds
    <3> QED
      BY <2>2, <3>1, ItemTypes
  <2>4. tleft' \in 0 .. MaxLen /\ len' \in 0 .. MaxLen /\ tleft' <= len'
    BY <2>1, <2>2, Bounds
  <2> QED
    BY <1>3, <2>1, <2>3, <2>4 DEF TabletSteps
<1>6. CASE TabletSendAck
  <2>1. /\ \/ TabletSend("w.ackSize", Ack, "w.data") \/ TabletSend("w.data", Ack, "idle")
        /\ UNCHANGED <<tleft, len>>
    BY <1>6 DEF TabletSendAck
  <2>2. tleft' \in 0 .. MaxLen /\ len' \in 0 .. MaxLen
    BY <1>0, <2>1 DEF TypeOK
  <2>3. Ack \in Items /\ Ack.kind # "code"
    BY ItemTypes
  <2> QED
    BY <1>3, <2>1, <2>2, <2>3 DEF TabletSteps
<1>7. CASE TabletEnd
  <2>1. tpc' = "idle" /\ UNCHANGED <<pc, left, got, size, tleft, tgot, count, len, toC, toT, link, late>>
    BY <1>7 DEF TabletEnd, compVars
  <2>2. TypeOK' /\ BoundsInv'
    BY <1>0, <2>1 DEF TypeOK, BoundsInv, TabletSteps
  <2>3. FirstInv'
    BY <1>0, <2>1, FirstKept
  <2> QED
    BY <2>2, <2>3 DEF TypeInv
<1>8. ASSUME NEW how \in {"closed", "lost"}, TabletGoes(how)
      PROVE  TypeInv'
  <2>1. /\ link' = how /\ tpc' = "idle" /\ toT' = <<>> /\ toC' \in {toC, <<>>}
        /\ UNCHANGED <<pc, left, got, size, tleft, tgot, count, len, late>>
    BY <1>8 DEF TabletGoes, compVars
  <2>2. TypeOK' /\ BoundsInv'
    <3>1. toC' \in Seq(Items) /\ toT' \in Seq(Items)
      BY <1>0, <2>1, EmptyType DEF TypeOK
    <3> QED
      BY <1>0, <2>1, <3>1 DEF TypeOK, BoundsInv, TabletSteps
  <2>3. FirstInv'
    <3>1. CASE toC' = toC
      BY <1>0, <2>1, <3>1, FirstKept
    <3>2. CASE toC' = <<>>
      <4>1. Begun' = count /\ count \in Nat
        <5>1. toC' \in Seq(Items) /\ CodesIn(toC') = {}
          BY <3>2 DEF CodesIn
        <5>2. Cardinality(CodesIn(toC')) = 0
          BY <5>1, CountCodes
        <5>3. Begun' = count' - Cardinality(CodesIn(toC'))
          BY DEF Begun, CodesIn
        <5> QED
          BY <1>0, <2>1, <5>2, <5>3 DEF TypeOK
      <4>2. Begun \in 0 .. MaxTransactions /\ (pc # "idle" => Begun > 0)
        BY BegunType, Bounds
      <4>3. Begun <= count
        <5>1. Cardinality(CodesIn(toC)) \in Nat
          BY <1>0, CountCodes DEF TypeOK
        <5> QED
          BY <4>1, <5>1, BegunIs
      <4> QED
        BY <2>1, <3>2, <4>1, <4>2, <4>3, Bounds DEF FirstInv
    <3> QED
      BY <2>1, <3>1, <3>2
  <2> QED
    BY <2>2, <2>3 DEF TypeInv
<1> QED
  BY <1>1, <1>2, <1>4, <1>5, <1>6, <1>7, <1>8 DEF TabletStep

\* Every step keeps the types, in step or not.
LEMMA TypesKept == TypeInv /\ [Next]_vars => TypeInv'
<1> SUFFICES ASSUME TypeInv, [Next]_vars PROVE TypeInv'
  OBVIOUS
<1>1. CASE UNCHANGED vars
  BY <1>1, FirstKept DEF vars, compVars, tabVars, TypeInv, TypeOK, BoundsInv
<1>2. CASE Computer
  BY <1>2, BeginTypes, ReadTypes, WriteTypes DEF Computer
<1> QED
  BY <1>1, <1>2, TabletTypes DEF Next

LEMMA TypesAtFirst == Init => TypeInv
<1> SUFFICES ASSUME Init PROVE TypeInv
  OBVIOUS
<1>1. /\ pc = "idle" /\ left = 0 /\ got = <<>> /\ size = 0 /\ tpc = "idle" /\ tleft = 0
      /\ tgot = <<>> /\ count = 0 /\ len = 0 /\ toC = <<>> /\ toT = <<>> /\ link = "up"
      /\ late = FALSE
  BY DEF Init
<1>2. TypeOK /\ BoundsInv
  <2>1. <<>> \in Seq(Items) /\ 0 \in 0 .. MaxLen /\ 0 \in -1 .. MaxLen + 1
        /\ 0 \in 0 .. MaxTransactions
    BY EmptyType, Bounds
  <2> QED
    BY <1>1, <2>1 DEF TypeOK, BoundsInv, TabletSteps
<1>3. Begun = 0
  <2>1. Begun = 0 - Cardinality({})
    BY <1>1, BegunIs, EmptyType
  <2> QED
    BY <2>1, FS_EmptySet
<1> QED
  BY <1>1, <1>2, <1>3 DEF TypeInv, FirstInv

LEMMA TypesAlways == Spec => []TypeInv
  BY TypesAtFirst, TypesKept, PTL DEF Spec

\* Every variable keeps its type, whatever the tablet sends and whenever the
\* computer gives up: a piece that internalWrite sends is one of its data, and
\* one that is read from the wire was sent by the tablet.
THEOREM TypeCorrect == Spec => []TypeOK
<1>1. TypeInv => TypeOK
  BY DEF TypeInv
<1> QED
  BY <1>1, TypesAlways, PTL

-----------------------------------------------------------------------------
(* The exchange, step by step *)

\* Streams of one item.
LEMMA OneItem ==
  /\ \A x : Len(<<x>>) = 1 /\ <<x>>[1] = x /\ Head(<<x>>) = x /\ DOMAIN <<x>> = {1}
  /\ \A x : Tail(<<x>>) = <<>> /\ <<x>> # <<>> /\ Append(<<>>, x) = <<x>>
  /\ \A s \in Seq(Items) : /\ s = <<>> <=> Len(s) = 0
                           /\ DOMAIN s = 1 .. Len(s) /\ Len(s) \in Nat
  /\ \A s \in Seq(Items) : Len(s) = 1 => Tail(s) = <<>>
  /\ Len(<<>>) = 0 /\ DOMAIN <<>> = {}
<1>1. \A x : Len(<<x>>) = 1 /\ <<x>>[1] = x /\ Head(<<x>>) = x /\ DOMAIN <<x>> = {1}
  OBVIOUS
<1>2. \A x : Tail(<<x>>) = <<>> /\ <<x>> # <<>> /\ Append(<<>>, x) = <<x>>
  OBVIOUS
<1>3. \A s \in Seq(Items) : s = <<>> <=> Len(s) = 0
  BY EmptySeq
<1>4. \A s \in Seq(Items) : Len(s) = 1 => Tail(s) = <<>>
  <2> SUFFICES ASSUME NEW s \in Seq(Items), Len(s) = 1 PROVE Tail(s) = <<>>
    OBVIOUS
  <2>1. Tail(s) \in Seq(Items) /\ Len(Tail(s)) = 0
    BY <1>3, Take1
  <2> QED
    BY <1>3, <2>1
<1>5. Len(<<>>) = 0 /\ DOMAIN <<>> = {}
  OBVIOUS
<1>6. \A s \in Seq(Items) : DOMAIN s = 1 .. Len(s) /\ Len(s) \in Nat
  OBVIOUS
<1> QED
  BY <1>1, <1>2, <1>3, <1>4, <1>5, <1>6

\* Once the computer has given up, or closed the socket, nothing is claimed.
LEMMA NothingClaimed == late' \/ link' = "shut" => ExchangeInv'
  BY DEF ExchangeInv

\* Giving an exchange up.
LEMMA FailureEnds == Finish(FALSE) => ExchangeInv'
  BY NothingClaimed DEF Finish

\* What the invariant says when it says something.
LEMMA Claims ==
  ASSUME TypeInv, ExchangeInv, ~late, link # "shut"
  PROVE  /\ ToReadInv /\ (link = "up" => TogetherInv)
         /\ toC \in Seq(Items) /\ toT \in Seq(Items) /\ got \in Seq(Items) /\ tgot \in Seq(Items)
         /\ left \in Int /\ size \in 0 .. MaxLen /\ tleft \in 0 .. MaxLen /\ len \in 0 .. MaxLen
         /\ count \in Nat /\ tpc \in TabletSteps /\ MaxLen \in Nat
<1>1. ToReadInv /\ (link = "up" => TogetherInv)
  BY DEF ExchangeInv
<1>2. /\ toC \in Seq(Items) /\ toT \in Seq(Items) /\ got \in Seq(Items) /\ tgot \in Seq(Items)
      /\ size \in 0 .. MaxLen /\ tleft \in 0 .. MaxLen /\ len \in 0 .. MaxLen
      /\ left \in -1 .. MaxLen + 1 /\ count \in 0 .. MaxTransactions /\ tpc \in TabletSteps
  BY DEF TypeInv, TypeOK
<1> QED
  BY <1>1, <1>2, Bounds

\* The steps at which the tablet has done its part.
LEMMA AheadSteps == Ahead => pc \in {"idle", "r.data", "w.ackSize", "w.data", "w.ackData"}
  BY DEF Ahead, AckAwaited

\* Where the tablet is, seen from the computer.
SeenFromComputer ==
  /\ pc = "r.ack" => tpc = "r.ack" /\ Silent
  /\ pc = "r.size" /\ toC # <<>> => tpc = "r.ackSize" /\ AtReadAckSize
  /\ pc = "r.ackSize" => tpc = "r.ackSize" /\ AtReadAckSize /\ Silent /\ left = len
  /\ pc = "w.size" => tpc = "w.size" /\ Silent
  /\ pc = "w.data" /\ left # 0 => tpc = "w.data" /\ AtWriteData
  /\ pc = "idle" /\ toC # <<>> => /\ tpc \in {"idle", "r.ack", "w.size"}
                                  /\ tpc = "r.ack" => Asked("read")
                                  /\ tpc = "w.size" => Asked("write")

LEMMA TabletAt == TogetherInv /\ tpc \in TabletSteps => SeenFromComputer
<1> SUFFICES ASSUME TogetherInv, tpc \in TabletSteps PROVE SeenFromComputer
  OBVIOUS
<1>1. ASSUME pc \in {"r.ack", "r.size", "r.ackSize", "w.size"}
      PROVE  ~Ahead
  BY <1>1, AheadSteps
<1>2. ASSUME pc = "w.data", left # 0
      PROVE  ~Ahead
  BY <1>2 DEF Ahead, AckAwaited
<1>3. CASE tpc = "idle"
  BY <1>1, <1>2, <1>3 DEF SeenFromComputer, TogetherInv, AtIdle
<1>4. CASE tpc = "r.ack"
  BY <1>1, <1>2, <1>4 DEF SeenFromComputer, TogetherInv, AtReadAck, Asked, Silent
<1>5. CASE tpc = "r.size"
  BY <1>5 DEF SeenFromComputer, TogetherInv, AtReadSize, Silent
<1>6. CASE tpc = "r.ackSize"
  BY <1>6 DEF SeenFromComputer, TogetherInv, AtReadAckSize, Silent
<1>7. CASE tpc = "r.data"
  BY <1>7 DEF SeenFromComputer, TogetherInv, AtReadData, Silent
<1>8. CASE tpc = "w.size"
  BY <1>1, <1>2, <1>8 DEF SeenFromComputer, TogetherInv, AtWriteSize, Asked, Silent
<1>9. CASE tpc = "w.ackSize"
  BY <1>9 DEF SeenFromComputer, TogetherInv, AtWriteAckSize
<1>10. CASE tpc = "w.data"
  BY <1>10 DEF SeenFromComputer, TogetherInv, AtWriteData
<1>11. \/ tpc = "idle" \/ tpc = "r.ack" \/ tpc = "r.size" \/ tpc = "r.ackSize"
       \/ tpc = "r.data" \/ tpc = "w.size" \/ tpc = "w.ackSize" \/ tpc = "w.data"
  BY DEF TabletSteps
<1> QED
  BY <1>3, <1>4, <1>5, <1>6, <1>7, <1>8, <1>9, <1>10, <1>11

\* handleReadyConnections takes a code byte for what it is, and meets a tablet
\* that waits for the ACK or the size.
LEMMA BeginInStep ==
  ASSUME TypeInv, ExchangeInv, NEW c \in Dirs \cup {"close"}, BeginTransaction(c)
  PROVE  ExchangeInv'
<1> SUFFICES ASSUME ~late', link' # "shut" PROVE ExchangeInv'
  BY NothingClaimed
<1>1. /\ pc = "idle" /\ toC # <<>> /\ toC' = Tail(toC) /\ c \in CodesOf(Head(toC))
      /\ link # "shut" /\ link' = link /\ ~late
      /\ \/ c = "read" /\ pc' = "r.ack"
         \/ c = "write" /\ pc' = "w.size"
      /\ UNCHANGED <<toT, tpc>>
  BY DEF BeginTransaction, Goto, tabVars
<1>2. /\ ToReadInv /\ (link = "up" => TogetherInv) /\ toC \in Seq(Items) /\ tpc \in TabletSteps
  BY <1>1, Claims
<1>3. CodesAfter(0)
  BY <1>1, <1>2 DEF ToReadInv
<1>4. Len(toC) = 1 /\ toC[1].kind = "code" /\ toC[1].val = c
  <2>1. 1 \in DOMAIN toC /\ Head(toC) = toC[1] /\ Len(toC) \in Nat /\ Len(toC) >= 1
    BY <1>1, <1>2, Take1
  <2>2. toC[1].kind = "code" /\ (1 < Len(toC) => toC[1].val = "close")
    BY <1>3, <2>1 DEF CodesAfter
  <2>3. toC[1].val = c
    BY <1>1, <2>1, <2>2 DEF CodesOf
  <2>4. c # "close"
    BY <1>1
  <2>5. ~(1 < Len(toC))
    BY <2>2, <2>3, <2>4
  <2>6. Len(toC) = 1
    BY <2>1, <2>5
  <2> QED
    BY <2>2, <2>3, <2>6
<1>5. toC' = <<>>
  BY <1>1, <1>2, <1>4, OneItem
<1>6. ToReadInv'
  BY <1>1, <1>5 DEF ToReadInv, AckAwaited
<1>7. ASSUME link = "up"
      PROVE  TogetherInv'
  <2>1. tpc # "idle"
    <3> SUFFICES ASSUME AtIdle PROVE FALSE
      BY <1>2, <1>7 DEF TogetherInv
    <3>1. 1 \in DOMAIN toC
      BY <1>2, <1>4
    <3> QED
      BY <1>1, <1>4, <3>1 DEF AtIdle
  <2>2. \A d : Asked(d) => d = c /\ toT = <<>>
    BY <1>4 DEF Asked, Ahead, Item
  <2>3. \/ tpc = "r.ack" /\ c = "read" /\ toT = <<>>
        \/ tpc = "w.size" /\ c = "write" /\ toT = <<>>
    BY <1>1, <1>2, <1>7, <2>1, <2>2, TabletAt DEF SeenFromComputer
  <2> QED
    BY <1>1, <1>5, <2>3 DEF TogetherInv, Silent, AtReadAck, AtWriteSize
<1> QED
  BY <1>1, <1>6, <1>7 DEF ExchangeInv

\* internalRead asks for the size and for the data when the tablet waits for it.
LEMMA SendAckInStep ==
  ASSUME TypeInv, ExchangeInv, SendAck("r.ack", "r.size") \/ SendAck("r.ackSize", "r.data")
  PROVE  ExchangeInv'
<1>1. CASE ~CanSend
  BY <1>1, FailureEnds DEF SendAck
<1>2. CASE CanSend
  <2> SUFFICES ASSUME ~late' PROVE ExchangeInv'
    BY NothingClaimed
  <2>1. /\ link = "up" /\ ~late /\ toT' = Append(toT, Ack)
        /\ \/ pc = "r.ack" /\ pc' = "r.size"
           \/ pc = "r.ackSize" /\ pc' = "r.data"
        /\ UNCHANGED <<left, got, size, tpc, tleft, tgot, count, len, toC, link>>
    BY <1>2 DEF CanSend, SendAck, Goto, tabVars
  <2>2. /\ ToReadInv /\ TogetherInv /\ toC \in Seq(Items) /\ tpc \in TabletSteps
        /\ len \in 0 .. MaxLen /\ count \in Nat /\ toT \in Seq(Items) /\ MaxLen \in Nat
    BY <2>1, Claims
  <2>3. toC = <<>> /\ got = <<>>
    BY <2>1, <2>2 DEF ToReadInv, TypeInv, BoundsInv
  <2>4. Silent /\ \/ pc = "r.ack" /\ tpc = "r.ack"
                  \/ pc = "r.ackSize" /\ tpc = "r.ackSize" /\ tleft = len /\ left = len
    BY <2>1, <2>2, TabletAt DEF SeenFromComputer, AtReadAckSize
  <2>5. toT' = <<Ack>> /\ toC' = <<>>
    BY <2>1, <2>3, <2>4, OneItem DEF Silent
  <2>6. CASE pc = "r.ack"
    BY <2>1, <2>4, <2>5, <2>6 DEF ExchangeInv, ToReadInv, TogetherInv, AckAwaited, AtReadAck
  <2>7. CASE pc = "r.ackSize"
    <3>1. count \in 1 .. count
      BY <2>2, <2>4, <2>7 DEF TypeInv, BoundsInv
    <3>2. Arriving(count, len)'
      BY <2>1, <2>2, <2>3, <2>4, <2>5, <2>7, OneItem DEF Arriving
    <3>3. CodesAfter(left)'
      BY <2>5, OneItem DEF CodesAfter
    <3>4. ToReadInv'
      BY <2>1, <2>2, <2>4, <2>5, <2>7, <3>1, <3>2, <3>3 DEF ToReadInv, AckAwaited
    <3> QED
      BY <2>1, <2>3, <2>4, <2>5, <2>7, <3>4 DEF ExchangeInv, TogetherInv, AtReadAckSize
  <2> QED
    BY <2>1, <2>6, <2>7
<1> QED
  BY <1>1, <1>2

\* internalRead takes the size for what it is.
LEMMA ReadSizeInStep ==
  ASSUME TypeInv, ExchangeInv, ReadSize
  PROVE  ExchangeInv'
<1> SUFFICES ASSUME ~late', link' # "shut" PROVE ExchangeInv'
  BY NothingClaimed
<1>1. /\ pc = "r.size" /\ pc' = "r.ackSize" /\ toC # <<>> /\ toC' = Tail(toC)
      /\ left' \in SizesOf(Head(toC)) /\ ~late /\ link # "shut"
      /\ UNCHANGED <<got, size, tpc, tleft, tgot, count, len, toT, link, late>>
  BY DEF ReadSize, Goto, tabVars
<1>2. ToReadInv /\ (link = "up" => TogetherInv) /\ tpc \in TabletSteps
  BY <1>1, Claims
<1>3. PICK n \in 0 .. MaxLen : toC = <<Item("size", n)>>
  BY <1>1, <1>2 DEF ToReadInv
<1>4. toC' = <<>> /\ left' = n
  <2>1. Head(toC) = Item("size", n) /\ Tail(toC) = <<>>
    BY <1>3, OneItem
  <2> QED
    BY <1>1, <2>1, ItemTypes DEF SizesOf
<1>5. ToReadInv'
  BY <1>1, <1>4 DEF ToReadInv, AckAwaited
<1>6. ASSUME link = "up"
      PROVE  TogetherInv'
  <2>1. tpc = "r.ackSize" /\ AtReadAckSize
    BY <1>1, <1>2, <1>6, TabletAt DEF SeenFromComputer
  <2>2. tleft = len /\ toC = <<Item("size", len)>> /\ toT = <<>>
    BY <1>1, <2>1 DEF AtReadAckSize
  <2>3. n = len
    <3>1. Item("size", n).val = Item("size", len).val
      BY <1>3, <2>2, OneItem
    <3> QED
      BY <3>1 DEF Item
  <2> QED
    BY <1>1, <1>4, <2>1, <2>2, <2>3 DEF TogetherInv, Silent, AtReadAckSize
<1> QED
  BY <1>1, <1>5, <1>6 DEF ExchangeInv

\* What is behind the item that is taken stays behind.
LEMMA CodesTaken ==
  ASSUME toC \in Seq(Items), toC # <<>>, toC' = Tail(toC), NEW n \in Int, CodesAfter(n)
  PROVE  CodesAfter(n - 1)'
<1> SUFFICES ASSUME NEW i \in DOMAIN toC', i > n - 1
             PROVE  toC'[i].kind = "code" /\ (i < Len(toC') => toC'[i].val = "close")
  BY DEF CodesAfter
<1>1. /\ DOMAIN toC' = 1 .. Len(toC) - 1 /\ DOMAIN toC = 1 .. Len(toC) /\ Len(toC) \in Nat
      /\ Len(toC') = Len(toC) - 1 /\ toC'[i] = toC[i + 1]
  BY Take1
<1>2. i \in Int /\ i + 1 \in DOMAIN toC /\ i + 1 > n
  BY <1>1
<1> QED
  BY <1>1, <1>2 DEF CodesAfter

\* Taking an item that is no code loses no question of the tablet.
LEMMA AskedTaken ==
  ASSUME toC \in Seq(Items), toC # <<>>, toC' = Tail(toC), toC[1].kind # "code", Ahead'
  PROVE  (\A c : Asked(c) => Asked(c)') /\ (AtIdle => AtIdle')
<1>1. /\ DOMAIN toC' = 1 .. Len(toC) - 1 /\ DOMAIN toC = 1 .. Len(toC) /\ Len(toC) \in Nat \ {0}
      /\ Len(toC') = Len(toC) - 1 /\ toC' \in Seq(Items)
      /\ \A i \in 1 .. Len(toC) - 1 : toC'[i] = toC[i + 1]
  BY Take1
<1>2. ASSUME NEW c, Asked(c)
      PROVE  Asked(c)'
  <2>1. toC[Len(toC)] = Item("code", c) /\ toC[Len(toC)].kind = "code"
    BY <1>2 DEF Asked, Item
  <2>2. Len(toC) # 1
    BY <2>1
  <2>3. Len(toC') >= 1 /\ toC'[Len(toC')] = toC[Len(toC)]
    BY <1>1, <2>2
  <2>4. toC' # <<>>
    <3>1. toC' \in Seq(Items) /\ Len(toC') # 0
      BY <1>1, <2>3
    <3> QED
      BY <3>1, OneItem
  <2> QED
    BY <2>1, <2>3, <2>4 DEF Asked
<1>3. ASSUME AtIdle
      PROVE  AtIdle'
  <2>1. \A i \in DOMAIN toC' : i + 1 \in DOMAIN toC /\ toC'[i] = toC[i + 1]
    BY <1>1
  <2>2. \A i \in DOMAIN toC' : toC'[i].kind = "code" => toC'[i].val = "close"
    BY <1>3, <2>1 DEF AtIdle
  <2> QED
    BY <2>2 DEF AtIdle
<1> QED
  BY <1>2, <1>3

\* The next piece that readAllSocketData reads is the next of its message.
LEMMA PieceTaken ==
  ASSUME toC \in Seq(Items), got \in Seq(Items), toC # <<>>, toC' = Tail(toC),
         left \in Int, left > 0, got' = Append(got, Head(toC)), left' = left - 1,
         NEW k, NEW n, Arriving(k, n)
  PROVE  Arriving(k, n)' /\ toC[1] = Piece(k, Len(got) + 1, n)
<1>1. /\ DOMAIN toC' = 1 .. Len(toC) - 1 /\ DOMAIN toC = 1 .. Len(toC) /\ Len(toC) \in Nat \ {0}
      /\ \A i \in 1 .. Len(toC) - 1 : toC'[i] = toC[i + 1]
      /\ Head(toC) = toC[1] /\ Head(toC) \in Items
  BY Take1
<1>2. /\ Len(got') = Len(got) + 1 /\ DOMAIN got' = 1 .. Len(got) + 1
      /\ DOMAIN got = 1 .. Len(got) /\ Len(got) \in Nat
      /\ \A i \in DOMAIN got : got'[i] = got[i]
      /\ got'[Len(got) + 1] = Head(toC)
  BY <1>1, Put1
<1>3. toC[1] = Piece(k, Len(got) + 1, n)
  BY <1>1 DEF Arriving
<1>4. n = Len(got') + left'
  BY <1>2 DEF Arriving
<1>5. ASSUME NEW i \in DOMAIN got'
      PROVE  got'[i] = Piece(k, i, n)
  BY <1>1, <1>2, <1>3, <1>5 DEF Arriving
<1>6. ASSUME NEW i \in DOMAIN toC', i <= left'
      PROVE  toC'[i] = Piece(k, Len(got') + i, n)
  <2>1. i + 1 \in DOMAIN toC /\ i + 1 <= left /\ toC'[i] = toC[i + 1] /\ i \in Int
    BY <1>1, <1>6
  <2>2. toC[i + 1] = Piece(k, Len(got) + (i + 1), n)
    BY <2>1 DEF Arriving
  <2>3. Len(got) + (i + 1) = Len(got') + i
    BY <1>2, <2>1
  <2> QED
    BY <2>1, <2>2, <2>3
<1> QED
  BY <1>3, <1>4, <1>5, <1>6 DEF Arriving

\* internalRead reads the next piece.
LEMMA ReadDataInStep ==
  ASSUME TypeInv, ExchangeInv, ReadData
  PROVE  ExchangeInv'
<1> SUFFICES ASSUME ~late', link' # "shut" PROVE ExchangeInv'
  BY NothingClaimed
<1>1. /\ pc = "r.data" /\ pc' = "r.data" /\ toC # <<>> /\ toC' = Tail(toC) /\ ~late
      /\ left > 0 /\ left' = left - 1 /\ got' = Append(got, Head(toC)) /\ link # "shut"
      /\ UNCHANGED <<size, tpc, tleft, tgot, count, len, toT, link, late>>
  BY DEF ReadData, tabVars
<1>2. /\ ToReadInv /\ (link = "up" => TogetherInv) /\ tpc \in TabletSteps
      /\ toC \in Seq(Items) /\ got \in Seq(Items) /\ left \in Int /\ tleft \in 0 .. MaxLen
      /\ len \in 0 .. MaxLen /\ MaxLen \in Nat
  BY <1>1, Claims
<1>3. PICK k \in 1 .. count, n \in 0 .. MaxLen : Arriving(k, n)
  BY <1>1, <1>2 DEF ToReadInv
<1>4. Arriving(k, n)' /\ toC[1].kind = "data"
  <2>1. Arriving(k, n)' /\ toC[1] = Piece(k, Len(got) + 1, n)
    BY <1>1, <1>2, <1>3, PieceTaken
  <2> QED
    BY <2>1 DEF Piece, Item
<1>5. CodesAfter(left)'
  <2>1. PICK l \in Int : l = left
    BY <1>2
  <2>2. CodesAfter(l)
    BY <1>1, <1>2, <2>1 DEF ToReadInv
  <2>3. CodesAfter(l - 1)'
    BY <1>1, <1>2, <2>2, CodesTaken
  <2> QED
    BY <1>1, <2>1, <2>3 DEF CodesAfter
<1>6. ToReadInv'
  <2>1. left' >= 0
    BY <1>1, <1>2
  <2> QED
    BY <1>1, <1>3, <1>4, <1>5, <2>1 DEF ToReadInv, AckAwaited
<1>7. Len(toC') = Len(toC) - 1 /\ Len(toC) \in Nat
  BY <1>1, <1>2, Take1
<1>8. Ahead => Ahead'
  BY <1>1, <1>2, <1>7 DEF Ahead, AckAwaited
<1>9. AtReadData => AtReadData'
  <2> SUFFICES ASSUME AtReadData PROVE AtReadData'
    OBVIOUS
  <2>1. /\ toT = <<>> /\ left = tleft + Len(toC) /\ Len(got) + left = len
        /\ Arriving(count, len)
    BY <1>1 DEF AtReadData
  <2>2. PICK c, m : c = count /\ m = len
    OBVIOUS
  <2>3. Arriving(c, m)'
    BY <1>1, <1>2, <2>1, <2>2, PieceTaken
  <2>4. Arriving(count, len)'
    BY <1>1, <2>2, <2>3
  <2>5. Len(got') = Len(got) + 1 /\ Len(got) \in Nat
    <3>1. Head(toC) \in Items
      BY <1>1, <1>2, Take1
    <3> QED
      BY <1>1, <1>2, <3>1, Put1
  <2>6. left' = tleft' + Len(toC') /\ Len(got') + left' = len'
    <3>1. left' = left - 1 /\ tleft' = tleft /\ len' = len
      BY <1>1
    <3>2. left \in Int /\ tleft \in Int /\ len \in Int
      BY <1>2
    <3> QED
      BY <1>7, <2>1, <2>5, <3>1, <3>2
  <2> QED
    BY <1>1, <2>1, <2>4, <2>6 DEF AtReadData
<1>10. TogetherInv => TogetherInv'
  <2> SUFFICES ASSUME TogetherInv PROVE TogetherInv'
    OBVIOUS
  <2>1. (Ahead => (\A c : Asked(c) => Asked(c)') /\ (AtIdle => AtIdle'))
    BY <1>1, <1>2, <1>4, <1>8, AskedTaken
  <2>2. tpc = "idle" => AtIdle'
    BY <2>1 DEF TogetherInv, AtIdle
  <2>3. tpc = "r.ack" => Asked("read")'
    BY <1>1, <2>1 DEF TogetherInv, AtReadAck, Asked
  <2>4. tpc = "w.size" => Asked("write")'
    BY <1>1, <2>1 DEF TogetherInv, AtWriteSize, Asked
  <2>5. tpc \notin {"r.size", "w.ackSize", "w.data", "r.ackSize"}
    BY <1>1 DEF TogetherInv, AtReadSize, AtWriteAckSize, AtWriteData, AtReadAckSize
  <2>6. tpc = "r.data" => AtReadData'
    BY <1>9 DEF TogetherInv
  <2> QED
    BY <1>1, <2>2, <2>3, <2>4, <2>5, <2>6 DEF TogetherInv, AtReadAck, AtWriteSize
<1> QED
  BY <1>1, <1>2, <1>6, <1>10 DEF ExchangeInv

\* internalRead returns with the message.
LEMMA EndReadInStep ==
  ASSUME TypeInv, ExchangeInv, EndRead
  PROVE  ExchangeInv'
<1> SUFFICES ASSUME ~late', link' # "shut" PROVE ExchangeInv'
  BY NothingClaimed
<1>1. /\ pc = "r.data" /\ pc' = "idle" /\ left = 0 /\ ~late /\ link # "shut"
      /\ UNCHANGED <<size, tpc, tleft, tgot, count, len, toC, toT, link>>
  BY DEF EndRead, Finish, Goto, tabVars
<1>2. /\ ToReadInv /\ (link = "up" => TogetherInv) /\ tpc \in TabletSteps
      /\ toC \in Seq(Items) /\ got \in Seq(Items) /\ tleft \in 0 .. MaxLen /\ MaxLen \in Nat
      /\ len \in 0 .. MaxLen
  BY <1>1, Claims
<1>3. CodesAfter(0)
  BY <1>1, <1>2 DEF ToReadInv
<1>4. ToReadInv'
  BY <1>1, <1>3 DEF ToReadInv, AckAwaited, CodesAfter
<1>5. Ahead => Ahead'
  BY <1>1 DEF Ahead
<1>6. TogetherInv => TogetherInv'
  <2> SUFFICES ASSUME TogetherInv PROVE TogetherInv'
    OBVIOUS
  <2>1. tpc = "idle" => AtIdle'
    BY <1>1, <1>5 DEF TogetherInv, AtIdle
  <2>2. tpc = "r.ack" => Asked("read")'
    BY <1>1, <1>5 DEF TogetherInv, AtReadAck, Asked
  <2>3. tpc = "w.size" => Asked("write")'
    BY <1>1, <1>5 DEF TogetherInv, AtWriteSize, Asked
  <2>4. tpc \notin {"r.size", "w.ackSize", "w.data"}
    BY <1>1 DEF TogetherInv, AtReadSize, AtWriteAckSize, AtWriteData
  <2>5. tpc = "r.ackSize" => AtReadAckSize'
    BY <1>1 DEF TogetherInv, AtReadAckSize
  <2>6. tpc = "r.data" => AtReadData'
    <3> SUFFICES ASSUME tpc = "r.data" PROVE AtReadData'
      OBVIOUS
    <3>1. toT = <<>> /\ left = tleft + Len(toC)
      BY <1>1 DEF TogetherInv, AtReadData
    <3>2. Len(toC) = 0 /\ tleft = 0
      BY <1>1, <1>2, <3>1
    <3>3. toC = <<>>
      BY <1>2, <3>2, OneItem
    <3> QED
      BY <1>1, <3>1, <3>2, <3>3 DEF AtReadData, Silent
  <2> QED
    BY <1>1, <2>1, <2>2, <2>3, <2>4, <2>5, <2>6 DEF TogetherInv, AtReadAck, AtWriteSize
<1> QED
  BY <1>1, <1>2, <1>4, <1>6 DEF ExchangeInv

\* internalWrite sends the size to a tablet that waits for it.
LEMMA SendSizeInStep ==
  ASSUME TypeInv, ExchangeInv, NEW n \in 0 .. MaxLen, SendSize(n)
  PROVE  ExchangeInv'
<1>1. CASE ~CanSend
  BY <1>1, FailureEnds DEF SendSize
<1>2. CASE CanSend
  <2> SUFFICES ASSUME ~late' PROVE ExchangeInv'
    BY NothingClaimed
  <2>1. /\ link = "up" /\ ~late /\ toT' = Append(toT, Item("size", n)) /\ left' = n /\ size' = n
        /\ pc = "w.size" /\ pc' = "w.ackSize"
        /\ UNCHANGED <<tpc, tleft, tgot, count, len, toC, link>>
    BY <1>2 DEF CanSend, SendSize, Goto, tabVars
  <2>2. ToReadInv /\ TogetherInv /\ tpc \in TabletSteps
    BY <2>1, Claims
  <2>3. tpc = "w.size" /\ toC = <<>> /\ toT = <<>>
    BY <2>1, <2>2, TabletAt DEF SeenFromComputer, Silent
  <2>4. toT' = <<Item("size", n)>>
    BY <2>1, <2>3, OneItem
  <2>5. ToReadInv'
    BY <2>1, <2>3 DEF ToReadInv, AckAwaited
  <2>6. AtWriteSize'
    BY <2>1, <2>3, <2>4 DEF AtWriteSize
  <2> QED
    BY <2>1, <2>3, <2>5, <2>6 DEF ExchangeInv, TogetherInv
<1> QED
  BY <1>1, <1>2

\* internalWrite sends the next piece of its data.
LEMMA SendDataInStep ==
  ASSUME TypeInv, ExchangeInv, SendData
  PROVE  ExchangeInv'
<1> SUFFICES ASSUME ~late' PROVE ExchangeInv'
  BY NothingClaimed
<1> DEFINE p == Piece(Begun, size - left + 1, size)
<1>1. /\ pc = "w.data" /\ pc' = "w.data" /\ left > 0 /\ left' = left - 1 /\ link = "up" /\ ~late
      /\ toT' = Append(toT, p)
      /\ UNCHANGED <<size, tpc, tleft, tgot, count, toC, link>>
  BY DEF SendData, CanSend, tabVars
<1>2. /\ ToReadInv /\ TogetherInv /\ tpc \in TabletSteps /\ toT \in Seq(Items)
      /\ tgot \in Seq(Items) /\ left \in Int /\ size \in 0 .. MaxLen /\ tleft \in 0 .. MaxLen
      /\ count \in Nat /\ MaxLen \in Nat
  BY <1>1, Claims
<1>3. tpc = "w.data" /\ toC = <<>> /\ tleft = left + Len(toT) /\ Leaving
  <2>1. left # 0
    BY <1>1
  <2>2. tpc = "w.data" /\ AtWriteData
    BY <1>1, <1>2, <2>1, TabletAt DEF SeenFromComputer
  <2> QED
    BY <1>1, <2>2 DEF AtWriteData
<1>4. Begun = count
  <2>1. CodesIn(toC) = {}
    BY <1>3, EmptyType
  <2>2. Cardinality(CodesIn(toC)) = 0
    BY <2>1, FS_EmptySet
  <2> QED
    BY <1>2, <2>2, BegunIs
<1>5. p \in Items
  <2>1. size - left + 1 \in 1 .. MaxLen
    <3>1. left \in 0 .. size
      BY <1>1 DEF TypeInv, BoundsInv
    <3> QED
      BY <1>1, <1>2, <3>1
  <2>2. Begun \in 1 .. MaxTransactions
    BY <1>1, BegunType
  <2> QED
    BY <1>2, <2>1, <2>2, ItemTypes
<1>6. /\ Len(toT') = Len(toT) + 1 /\ DOMAIN toT' = 1 .. Len(toT) + 1
      /\ DOMAIN toT = 1 .. Len(toT) /\ Len(toT) \in Nat
      /\ (\A i \in DOMAIN toT : toT'[i] = toT[i]) /\ toT'[Len(toT) + 1] = p
  <2> HIDE DEF p
  <2> QED
    BY <1>1, <1>2, <1>5, Put1
<1>7. Leaving'
  <2>1. Len(tgot) + Len(toT) = size - left /\ Len(tgot) \in Nat
    BY <1>2, <1>3 DEF Leaving
  <2>2. left' = left - 1 /\ size' = size /\ tgot' = tgot /\ count' = count
    BY <1>1
  <2>3. Len(tgot') + Len(toT') = size' - left'
    BY <1>2, <1>6, <2>1, <2>2
  <2>4. ASSUME NEW i \in DOMAIN toT'
        PROVE  toT'[i] = Piece(count, Len(tgot) + i, size)
    <3>1. CASE i \in DOMAIN toT
      BY <1>3, <1>6, <3>1 DEF Leaving
    <3>2. CASE i \notin DOMAIN toT
      <4>1. i = Len(toT) + 1
        BY <1>6, <3>2
      <4>2. Len(tgot) + i = size - left + 1
        BY <1>2, <1>6, <2>1, <4>1
      <4> QED
        BY <1>4, <1>6, <4>1, <4>2
    <3> QED
      BY <3>1, <3>2
  <2> QED
    BY <1>3, <2>2, <2>3, <2>4 DEF Leaving
<1>8. tleft' = left' + Len(toT')
  <2>1. left' = left - 1 /\ tleft' = tleft
    BY <1>1
  <2> QED
    BY <1>2, <1>3, <1>6, <2>1
<1>9. ToReadInv'
  BY <1>1, <1>3 DEF ToReadInv
<1> HIDE DEF p
<1>10. AtWriteData'
  BY <1>1, <1>3, <1>7, <1>8 DEF AtWriteData
<1> QED
  BY <1>1, <1>3, <1>9, <1>10 DEF ExchangeInv, TogetherInv

\* internalWrite has sent everything.
LEMMA EndSendInStep ==
  ASSUME TypeInv, ExchangeInv, EndSend
  PROVE  ExchangeInv'
<1> SUFFICES ASSUME ~late', link' # "shut" PROVE ExchangeInv'
  BY NothingClaimed
<1>1. /\ pc = "w.data" /\ pc' = "w.ackData" /\ left = 0 /\ ~late /\ link # "shut"
      /\ UNCHANGED <<left, size, tpc, tleft, tgot, count, len, toC, toT, link>>
  BY DEF EndSend, Goto, tabVars
<1>2. /\ ToReadInv /\ (link = "up" => TogetherInv) /\ tpc \in TabletSteps
  BY <1>1, Claims
<1>3. AckAwaited /\ AckAwaited' /\ Begun' = Begun /\ (CodesAfter(1) => CodesAfter(1)')
  BY <1>1 DEF AckAwaited, Begun, CodesAfter
<1>4. ToReadInv'
  <2>1. toC' # <<>> => toC'[1] = Ack /\ CodesAfter(1)' /\ tgot' = Message(Begun', size')
    BY <1>1, <1>2, <1>3 DEF ToReadInv
  <2> QED
    BY <1>1, <2>1 DEF ToReadInv
<1>5. TogetherInv => TogetherInv'
  <2> SUFFICES ASSUME TogetherInv PROVE TogetherInv'
    OBVIOUS
  <2>1. Ahead => Ahead'
    BY <1>1, <1>3 DEF Ahead
  <2>2. tpc = "idle" => AtIdle'
    BY <1>1, <2>1 DEF TogetherInv, AtIdle
  <2>3. tpc = "r.ack" => Asked("read")'
    BY <1>1, <2>1 DEF TogetherInv, AtReadAck, Asked
  <2>4. tpc = "w.size" => Asked("write")'
    BY <1>1, <2>1 DEF TogetherInv, AtWriteSize, Asked
  <2>5. tpc \notin {"r.size", "r.ackSize", "r.data", "w.ackSize"}
    BY <1>1 DEF TogetherInv, AtReadSize, AtReadAckSize, AtReadData, AtWriteAckSize
  <2>6. tpc = "w.data" => AtWriteData'
    BY <1>1 DEF TogetherInv, AtWriteData, Leaving
  <2> QED
    BY <1>1, <2>2, <2>3, <2>4, <2>5, <2>6 DEF TogetherInv, AtReadAck, AtWriteSize
<1> QED
  BY <1>1, <1>2, <1>4, <1>5 DEF ExchangeInv

\* internalWrite goes on to its data when the tablet has the size.
LEMMA SizeAckInStep ==
  ASSUME TypeInv, ExchangeInv, ~late', link' # "shut", pc = "w.ackSize", pc' = "w.data",
         toC # <<>>, toC' = Tail(toC),
         UNCHANGED <<left, got, size, tabVars, toT, link, late>>
  PROVE  ExchangeInv'
<1>1. UNCHANGED <<left, size, tpc, tleft, tgot, count, len, toT, link>> /\ ~late /\ link # "shut"
  BY DEF tabVars
<1>2. /\ ToReadInv /\ (link = "up" => TogetherInv) /\ tpc \in TabletSteps
      /\ toC \in Seq(Items) /\ size \in 0 .. MaxLen /\ MaxLen \in Nat
  BY <1>1, Claims
<1>3. toC = <<Ack>> \/ Both
  BY <1>2 DEF ToReadInv
<1>4. ASSUME toC = <<Ack>>
      PROVE  ExchangeInv'
  <2>1. toC' = <<>> /\ Len(toC) = 1
    BY <1>4, OneItem
  <2>2. ToReadInv'
    BY <2>1 DEF ToReadInv, AckAwaited
  <2>3. ASSUME TogetherInv
        PROVE  TogetherInv'
    <3>1. ~Ahead
      BY <2>1 DEF Ahead, AckAwaited
    <3>2. tpc \notin {"idle", "r.ack", "r.size", "r.ackSize", "r.data"}
      BY <2>3, <3>1 DEF TogetherInv, AtIdle, AtReadAck, Asked, AtReadSize, AtReadAckSize,
         AtReadData
    <3>3. tpc \notin {"w.size", "w.ackSize"}
      BY <2>3, <3>1 DEF TogetherInv, AtWriteSize, Asked, AtWriteAckSize, Silent
    <3>4. tpc = "w.data" /\ AtWriteData
      BY <1>2, <2>3, <3>2, <3>3 DEF TabletSteps, TogetherInv
    <3>5. left = size /\ toT = <<>> /\ tleft = size /\ tgot = <<>>
      BY <3>4 DEF AtWriteData
    <3>6. Leaving' /\ tleft' = left' + Len(toT')
      <4>1. Len(tgot') = 0 /\ DOMAIN tgot' = {} /\ Len(toT') = 0 /\ DOMAIN toT' = {}
        BY <1>1, <3>5, OneItem
      <4>2. left' = size /\ size' = size /\ tleft' = size /\ size \in Int
        BY <1>1, <1>2, <3>5
      <4> QED
        BY <4>1, <4>2 DEF Leaving
    <3>7. AtWriteData'
      BY <2>1, <3>6 DEF AtWriteData
    <3> QED
      BY <1>1, <3>4, <3>7 DEF TogetherInv
  <2> QED
    BY <1>1, <1>2, <2>2, <2>3 DEF ExchangeInv
<1>5. ASSUME Both
      PROVE  ExchangeInv'
  <2>1. size = 0 /\ Len(toC) > 1 /\ toC[1] = Ack /\ toC[2] = Ack /\ CodesAfter(2) /\ tgot = <<>>
    BY <1>5 DEF Both
  <2>2. left = 0
    <3>1. left \in 0 .. size
      BY DEF TypeInv, BoundsInv
    <3> QED
      BY <2>1, <3>1
  <2>3. /\ toC' \in Seq(Items) /\ Len(toC') = Len(toC) - 1 /\ Len(toC) \in Nat
        /\ toC'[1] = Ack
    <3>1. \A i \in 1 .. Len(toC) - 1 : toC'[i] = toC[i + 1]
      BY <1>2, Take1
    <3>2. toC' \in Seq(Items) /\ Len(toC') = Len(toC) - 1 /\ Len(toC) \in Nat
      BY <1>2, Take1
    <3>3. 1 \in 1 .. Len(toC) - 1 /\ 1 + 1 = 2
      BY <2>1, <3>2
    <3> QED
      BY <2>1, <3>1, <3>2, <3>3
  <2>4. toC' # <<>>
    <3>1. Len(toC') # 0
      BY <2>1, <2>3
    <3> QED
      BY <2>3, <3>1, OneItem
  <2>5. CodesAfter(1)'
    <3>1. CodesAfter(2 - 1)'
      BY <1>2, <2>1, CodesTaken
    <3> QED
      BY <3>1
  <2>6. tgot' = Message(Begun', size')
    <3>1. Message(Begun', 0) = <<>>
      BY DEF Message
    <3> QED
      BY <1>1, <2>1, <3>1
  <2>7. AckAwaited'
    BY <1>1, <2>2 DEF AckAwaited
  <2>8. ToReadInv'
    BY <1>1, <2>2, <2>3, <2>5, <2>6 DEF ToReadInv
  <2>9. ASSUME TogetherInv
        PROVE  TogetherInv'
    <3>1. Ahead => Ahead'
      BY <1>1, <2>4, <2>7 DEF Ahead
    <3>2. toC[1].kind # "code"
      BY <2>1, ItemTypes
    <3>3. Ahead => (\A c : Asked(c) => Asked(c)') /\ (AtIdle => AtIdle')
      BY <1>2, <3>1, <3>2, AskedTaken
    <3>4. tpc = "idle" => AtIdle'
      BY <2>9, <3>3 DEF TogetherInv, AtIdle
    <3>5. tpc = "r.ack" => Asked("read")'
      BY <2>9, <3>3 DEF TogetherInv, AtReadAck, Asked
    <3>6. tpc = "w.size" => Asked("write")'
      BY <2>9, <3>3 DEF TogetherInv, AtWriteSize, Asked
    <3>7. tpc \notin {"r.size", "r.ackSize", "r.data", "w.ackSize"}
      BY <2>9 DEF TogetherInv, AtReadSize, AtReadAckSize, AtReadData, AtWriteAckSize, Silent
    <3>8. tpc # "w.data"
      <4>1. toC # <<Ack>>
        BY <2>1, OneItem
      <4> QED
        BY <2>9, <4>1 DEF TogetherInv, AtWriteData
    <3> QED
      BY <1>1, <3>4, <3>5, <3>6, <3>7, <3>8 DEF TogetherInv, AtReadAck, AtWriteSize
  <2> QED
    BY <1>1, <1>2, <2>8, <2>9 DEF ExchangeInv
<1> QED
  BY <1>3, <1>4, <1>5

\* internalWrite is done when the tablet has the data.
LEMMA DataAckInStep ==
  ASSUME TypeInv, ExchangeInv, ~late', link' # "shut", pc = "w.ackData", toC # <<>>,
         toC' = Tail(toC), Finish(TRUE), UNCHANGED <<size, tabVars, toT, link>>
  PROVE  ExchangeInv'
<1>1. /\ UNCHANGED <<tpc, tleft, tgot, count, len, toT, link>> /\ ~late /\ link # "shut"
      /\ pc' = "idle"
  BY DEF tabVars, Finish, Goto
<1>2. /\ ToReadInv /\ (link = "up" => TogetherInv) /\ tpc \in TabletSteps /\ toC \in Seq(Items)
  BY <1>1, Claims
<1>3. toC[1] = Ack /\ CodesAfter(1)
  BY <1>2 DEF ToReadInv, AckAwaited
<1>4. CodesAfter(0)'
  <2>1. CodesAfter(1 - 1)'
    BY <1>2, <1>3, CodesTaken
  <2> QED
    BY <2>1
<1>5. ToReadInv'
  BY <1>1, <1>4 DEF ToReadInv, AckAwaited
<1>6. ASSUME TogetherInv
      PROVE  TogetherInv'
  <2>1. Ahead => Ahead'
    BY <1>1 DEF Ahead
  <2>2. toC[1].kind # "code"
    BY <1>3, ItemTypes
  <2>3. Ahead => (\A c : Asked(c) => Asked(c)') /\ (AtIdle => AtIdle')
    BY <1>2, <2>1, <2>2, AskedTaken
  <2>4. tpc = "idle" => AtIdle'
    BY <1>6, <2>3 DEF TogetherInv, AtIdle
  <2>5. tpc = "r.ack" => Asked("read")'
    BY <1>6, <2>3 DEF TogetherInv, AtReadAck, Asked
  <2>6. tpc = "w.size" => Asked("write")'
    BY <1>6, <2>3 DEF TogetherInv, AtWriteSize, Asked
  <2>7. tpc \notin {"r.size", "r.ackSize", "r.data", "w.ackSize", "w.data"}
    BY <1>6 DEF TogetherInv, AtReadSize, AtReadAckSize, AtReadData, AtWriteAckSize, AtWriteData
  <2> QED
    BY <1>1, <2>4, <2>5, <2>6, <2>7 DEF TogetherInv, AtReadAck, AtWriteSize
<1> QED
  BY <1>1, <1>2, <1>5, <1>6 DEF ExchangeInv

\* The worker thread, at any step of internalRead or internalWrite.
LEMMA ComputerInStep ==
  ASSUME TypeInv, ExchangeInv, Computer
  PROVE  ExchangeInv'
<1>1. CASE Begin
  <2>1. SocketError \/ RefuseTransaction => ExchangeInv'
    BY NothingClaimed DEF SocketError, RefuseTransaction
  <2> QED
    BY <1>1, <2>1, BeginInStep DEF Begin
<1>2. CASE Read
  <2>1. MallocFails => ExchangeInv'
    BY FailureEnds DEF MallocFails
  <2> QED
    BY <1>2, <2>1, SendAckInStep, ReadSizeInStep, ReadDataInStep, EndReadInStep DEF Read
<1>3. CASE Write
  <2>1. SendFails => ExchangeInv'
    BY FailureEnds DEF SendFails
  <2>2. ASSUME ReadAck, ~late', link' # "shut"
        PROVE  ExchangeInv'
    <3>1. ~Finish(FALSE)
      BY <2>2 DEF Finish
    <3>2. /\ pc \in {"w.ackSize", "w.ackData"} /\ toC # <<>> /\ toC' = Tail(toC)
          /\ UNCHANGED <<size, tabVars, toT, link>>
          /\ \/ pc = "w.ackData" /\ Finish(TRUE)
             \/ pc = "w.ackSize" /\ pc' = "w.data" /\ UNCHANGED <<left, got, late>>
      BY <2>2, <3>1 DEF ReadAck, Goto
    <3>3. CASE pc = "w.ackData" /\ Finish(TRUE)
      BY <2>2, <3>2, <3>3, DataAckInStep
    <3>4. CASE pc = "w.ackSize" /\ pc' = "w.data" /\ UNCHANGED <<left, got, late>>
      BY <2>2, <3>2, <3>4, SizeAckInStep
    <3> QED
      BY <3>2, <3>3, <3>4
  <2>3. ReadAck => ExchangeInv'
    BY <2>2, NothingClaimed
  <2> QED
    BY <1>3, <2>1, <2>3, SendSizeInStep, SendDataInStep, EndSendInStep DEF Write
<1>4. CASE GiveUp
  BY <1>4, FailureEnds DEF GiveUp
<1> QED
  BY <1>1, <1>2, <1>3, <1>4 DEF Computer

\* The computer sees the same.
LEMMA ToReadKept ==
  ToReadInv /\ UNCHANGED <<compVars, toC, tgot, count>> => ToReadInv'
<1> SUFFICES ASSUME ToReadInv, UNCHANGED <<compVars, toC, tgot, count>> PROVE ToReadInv'
  OBVIOUS
<1>1. UNCHANGED <<pc, left, got, size, toC, tgot, count>>
  BY DEF compVars
<1>2. /\ \A n : CodesAfter(n) => CodesAfter(n)'
      /\ \A k, n : Arriving(k, n) => Arriving(k, n)'
      /\ Begun' = Begun
  BY <1>1 DEF CodesAfter, Arriving, Begun
<1>3. CodesAfter(left) => CodesAfter(left)'
  BY <1>1 DEF CodesAfter
<1>4. Both => Both'
  BY <1>1, <1>2 DEF Both
<1>5. AckAwaited' <=> AckAwaited
  BY <1>1 DEF AckAwaited
<1>6. AckAwaited' /\ toC' # <<>> => toC'[1] = Ack /\ CodesAfter(1)' /\ tgot' = Message(Begun', size')
  BY <1>1, <1>2, <1>5 DEF ToReadInv
<1>7. pc' = "r.data" => /\ left' >= 0 /\ CodesAfter(left)'
                        /\ \E k \in 1 .. count', n \in 0 .. MaxLen : Arriving(k, n)'
  BY <1>1, <1>2, <1>3 DEF ToReadInv
<1> QED
  BY <1>1, <1>2, <1>4, <1>6, <1>7 DEF ToReadInv

\* The tablet asks for the next transaction.
LEMMA AskInStep ==
  ASSUME TypeInv, ExchangeInv, NEW c \in Dirs \cup {"close"}, TabletAsk(c)
  PROVE  ExchangeInv'
<1> SUFFICES ASSUME ~late' PROVE ExchangeInv'
  BY NothingClaimed
<1> DEFINE x == Item("code", c)
<1>1. /\ tpc = "idle" /\ link = "up" /\ ~late /\ toC' = Append(toC, x)
      /\ toT' = <<>> /\ count' = count + 1
      /\ tpc' = IF c = "read" THEN "r.ack" ELSE IF c = "write" THEN "w.size" ELSE "idle"
      /\ UNCHANGED <<pc, left, got, size, tgot, len, link>>
  BY DEF TabletAsk, compVars
<1>2. /\ ToReadInv /\ TogetherInv /\ toC \in Seq(Items) /\ left \in Int /\ count \in Nat
  BY <1>1, Claims
<1>3. AtIdle /\ Ahead
  BY <1>1, <1>2 DEF TogetherInv, AtIdle
<1>4. x \in Items /\ x.kind = "code" /\ x.val = c
  BY ItemTypes
<1> HIDE DEF x
<1>5. /\ toC' \in Seq(Items) /\ Len(toC') = Len(toC) + 1 /\ DOMAIN toC' = 1 .. Len(toC) + 1
      /\ DOMAIN toC = 1 .. Len(toC) /\ Len(toC) \in Nat
      /\ (\A i \in DOMAIN toC : toC'[i] = toC[i]) /\ toC'[Len(toC) + 1] = x
  BY <1>1, <1>2, <1>4, Put1
<1>6. toC' # <<>>
  <2>1. Len(toC') # 0
    BY <1>5
  <2> QED
    BY <1>5, <2>1, OneItem
<1>7. ASSUME NEW n \in Int, CodesAfter(n)
      PROVE  CodesAfter(n)'
  <2> SUFFICES ASSUME NEW i \in DOMAIN toC', i > n
               PROVE  toC'[i].kind = "code" /\ (i < Len(toC') => toC'[i].val = "close")
    BY DEF CodesAfter
  <2>1. CASE i \in DOMAIN toC
    BY <1>3, <1>5, <1>7, <2>1 DEF CodesAfter, AtIdle
  <2>2. CASE i \notin DOMAIN toC
    <3>1. i = Len(toC) + 1
      BY <1>5, <2>2
    <3> QED
      BY <1>4, <1>5, <3>1
  <2> QED
    BY <2>1, <2>2
<1>8. Begun' = Begun
  BY <1>1, <1>4, FirstPut
<1>9. ASSUME pc = "r.data"
      PROVE  /\ left' >= 0 /\ CodesAfter(left)'
             /\ \E k \in 1 .. count', n \in 0 .. MaxLen : Arriving(k, n)'
  <2>1. left <= Len(toC) /\ left >= 0 /\ CodesAfter(left)
    BY <1>2, <1>3, <1>9 DEF Ahead, AckAwaited, ToReadInv
  <2>2. CodesAfter(left)'
    <3>1. PICK l \in Int : l = left
      BY <1>2
    <3>2. CodesAfter(l)'
      BY <1>7, <2>1, <3>1
    <3> QED
      BY <1>1, <3>1, <3>2 DEF CodesAfter
  <2>3. PICK k \in 1 .. count, n \in 0 .. MaxLen : Arriving(k, n)
    BY <1>2, <1>9 DEF ToReadInv
  <2>4. Arriving(k, n)'
    <3>1. \A i \in DOMAIN toC' : i <= left => i \in DOMAIN toC
      BY <1>2, <1>5, <2>1
    <3> QED
      BY <1>1, <1>5, <2>3, <3>1 DEF Arriving
  <2>5. k \in 1 .. count'
    BY <1>1, <1>2
  <2> QED
    BY <1>1, <2>1, <2>2, <2>4, <2>5
<1>10. ASSUME pc = "w.ackSize"
       PROVE  Both'
  <2>1. Len(toC) > 1
    BY <1>3, <1>10 DEF Ahead, AckAwaited
  <2>2. Both
    <3>1. Len(<<>>) = 0 /\ Len(<<Ack>>) = 1
      BY OneItem
    <3>2. Len(toC) # 0 /\ Len(toC) # 1
      BY <1>5, <2>1
    <3>3. toC # <<>> /\ toC # <<Ack>>
      BY <3>1, <3>2
    <3> QED
      BY <1>2, <1>10, <3>3 DEF ToReadInv
  <2>3. toC'[1] = toC[1] /\ toC'[2] = toC[2] /\ Len(toC') > 1
    BY <1>5, <2>1
  <2>4. CodesAfter(2)'
    BY <1>7, <2>2 DEF Both
  <2> QED
    BY <1>1, <2>2, <2>3, <2>4 DEF Both
<1>11. ASSUME AckAwaited
       PROVE  toC'[1] = Ack /\ CodesAfter(1)' /\ tgot' = Message(Begun', size')
  <2>1. toC # <<>>
    BY <1>3, <1>11 DEF Ahead, AckAwaited
  <2>2. toC[1] = Ack /\ CodesAfter(1) /\ tgot = Message(Begun, size)
    BY <1>2, <1>11, <2>1 DEF ToReadInv
  <2>3. 1 \in DOMAIN toC
    BY <1>2, <2>1, Take1
  <2> QED
    BY <1>1, <1>5, <1>7, <1>8, <2>2, <2>3
<1>12. pc = "idle" => CodesAfter(0)'
  BY <1>2, <1>7 DEF ToReadInv
<1>13. /\ pc \notin {"r.ack", "r.size", "r.ackSize", "w.size"}
       /\ ~(pc = "w.data" /\ left > 0)
  BY <1>2, <1>3 DEF Ahead, AckAwaited
<1>14. ToReadInv'
  <2>1. AckAwaited' <=> AckAwaited
    BY <1>1 DEF AckAwaited
  <2>2. UNCHANGED <<pc, left>>
    BY <1>1
  <2> QED
    BY <1>9, <1>10, <1>11, <1>12, <1>13, <2>1, <2>2 DEF ToReadInv
<1>15. Ahead' /\ Asked(c)'
  <2>1. toT' = <<>> /\ UNCHANGED <<pc, left>>
    BY <1>1
  <2>2. left <= Len(toC) => left <= Len(toC')
    BY <1>2, <1>5
  <2>3. Len(toC) > 1 => Len(toC') > 1
    BY <1>5
  <2>4. AckAwaited' <=> AckAwaited
    BY <2>1 DEF AckAwaited
  <2>5. Ahead'
    BY <1>3, <1>6, <2>1, <2>2, <2>3, <2>4 DEF Ahead
  <2>6. toC'[Len(toC')] = Item("code", c)
    BY <1>5 DEF x
  <2> QED
    BY <1>6, <2>5, <2>6 DEF Asked
<1>16. c = "close" => AtIdle'
  <2> SUFFICES ASSUME c = "close", NEW i \in DOMAIN toC', toC'[i].kind = "code"
               PROVE  toC'[i].val = "close"
    BY <1>15 DEF AtIdle
  <2>1. CASE i \in DOMAIN toC
    BY <1>3, <1>5, <2>1 DEF AtIdle
  <2>2. CASE i \notin DOMAIN toC
    <3>1. i = Len(toC) + 1
      BY <1>5, <2>2
    <3> QED
      BY <1>4, <1>5, <3>1
  <2> QED
    BY <2>1, <2>2
<1>17. TogetherInv'
  <2>1. \/ c = "read" /\ tpc' = "r.ack"
        \/ c = "write" /\ tpc' = "w.size"
        \/ c = "close" /\ tpc' = "idle"
    BY <1>1 DEF Dirs
  <2> QED
    BY <1>15, <1>16, <2>1 DEF TogetherInv, AtReadAck, AtWriteSize
<1> QED
  BY <1>14, <1>17 DEF ExchangeInv

\* The tablet takes what the computer sent for what it is.
LEMMA ReceiveInStep ==
  ASSUME TypeInv, ExchangeInv, TabletReceive
  PROVE  ExchangeInv'
<1> SUFFICES ASSUME ~late', link' # "shut" PROVE ExchangeInv'
  BY NothingClaimed
<1> DEFINE x == Head(toT)
<1>1. /\ TabletWaits /\ toT # <<>> /\ toT' = Tail(toT) /\ ~late
      /\ UNCHANGED <<pc, left, got, size, count, len, toC, link>>
      /\ UNCHANGED compVars
  BY DEF TabletReceive, compVars
<1>2. link = "up"
  BY <1>1 DEF TabletWaits, TypeInv, TypeOK, BoundsInv
<1>3. /\ ToReadInv /\ TogetherInv /\ tpc \in TabletSteps /\ toT \in Seq(Items)
      /\ tgot \in Seq(Items) /\ left \in Int /\ size \in 0 .. MaxLen /\ tleft \in 0 .. MaxLen
      /\ len \in 0 .. MaxLen /\ MaxLen \in Nat
  BY <1>1, <1>2, Claims
<1>4. ~Ahead
  BY <1>1 DEF Ahead
<1>5. CASE tpc = "r.ack"
  <2>1. pc = "r.size" /\ toC = <<>> /\ toT = <<Ack>>
    BY <1>1, <1>3, <1>4, <1>5 DEF TogetherInv, AtReadAck, Asked, Silent
  <2>2. x = Ack /\ toT' = <<>>
    BY <1>1, <2>1, OneItem
  <2>3. tpc' = "r.size" /\ UNCHANGED <<tleft, tgot>>
    BY <1>5, <2>2 DEF TabletReceive
  <2>4. ToReadInv'
    BY <1>1, <1>3, <2>3, ToReadKept
  <2> QED
    BY <1>1, <2>1, <2>2, <2>3, <2>4 DEF ExchangeInv, TogetherInv, AtReadSize, Silent
<1>6. CASE tpc = "r.ackSize"
  <2>1. /\ toC = <<>> /\ toT = <<Ack>> /\ tleft = len
        /\ (pc = "r.data" /\ left = len /\ got = <<>>) \/ (pc = "idle" /\ len = 0)
    BY <1>1, <1>3, <1>6 DEF TogetherInv, AtReadAckSize, Silent
  <2>2. x = Ack /\ toT' = <<>>
    BY <1>1, <2>1, OneItem
  <2>3. tpc' = "r.data" /\ UNCHANGED <<tleft, tgot>>
    BY <1>6, <2>2 DEF TabletReceive
  <2>4. ToReadInv'
    BY <1>1, <1>3, <2>3, ToReadKept
  <2>5. AtReadData'
    <3>1. CASE pc = "r.data" /\ left = len /\ got = <<>>
      <4>1. Len(toC') = 0 /\ DOMAIN toC' = {} /\ Len(got') = 0 /\ DOMAIN got' = {}
        BY <1>1, <2>1, <3>1, OneItem
      <4>2. pc' = "r.data" /\ left' = len /\ tleft' = len /\ len' = len /\ len \in Int
        BY <1>1, <1>3, <2>1, <2>3, <3>1
      <4>3. Arriving(count, len)'
        BY <4>1, <4>2 DEF Arriving
      <4> QED
        BY <2>2, <4>1, <4>2, <4>3 DEF AtReadData
    <3>2. CASE pc = "idle" /\ len = 0
      BY <1>1, <2>1, <2>2, <2>3, <3>2 DEF AtReadData, Silent
    <3> QED
      BY <2>1, <3>1, <3>2
  <2> QED
    BY <1>1, <2>3, <2>4, <2>5 DEF ExchangeInv, TogetherInv
<1>7. CASE tpc = "w.size"
  <2>1. pc = "w.ackSize" /\ left = size /\ toC = <<>> /\ toT = <<Item("size", size)>>
    BY <1>1, <1>3, <1>4, <1>7 DEF TogetherInv, AtWriteSize, Asked, Silent
  <2>2. x = Item("size", size) /\ toT' = <<>>
    BY <1>1, <2>1, OneItem
  <2>3. x.kind = "size" /\ x.val = size
    BY <1>3, <2>2, ItemTypes
  <2>4. tpc' = "w.ackSize" /\ tleft' = size /\ tgot' = <<>>
    BY <1>7, <2>3 DEF TabletReceive
  <2>5. ToReadInv'
    BY <1>1, <2>1 DEF ToReadInv, AckAwaited
  <2> QED
    BY <1>1, <2>1, <2>2, <2>4, <2>5 DEF ExchangeInv, TogetherInv, AtWriteAckSize, Silent
<1>8. CASE tpc = "w.data" /\ tleft > 0
  <2>1. /\ pc \in {"w.data", "w.ackData"} /\ (pc = "w.ackData" => left = 0)
        /\ toC = <<>> /\ tleft = left + Len(toT) /\ Leaving
    BY <1>1, <1>3, <1>8 DEF TogetherInv, AtWriteData
  <2>2. /\ x \in Items /\ x = toT[1] /\ DOMAIN toT = 1 .. Len(toT) /\ Len(toT) \in Nat \ {0}
        /\ toT' \in Seq(Items) /\ Len(toT') = Len(toT) - 1 /\ DOMAIN toT' = 1 .. Len(toT) - 1
        /\ \A i \in 1 .. Len(toT) - 1 : toT'[i] = toT[i + 1]
    BY <1>1, <1>3, Take1
  <2> HIDE DEF x
  <2>3. x = Piece(count, Len(tgot) + 1, size) /\ x.kind = "data"
    <3>1. x = Piece(count, Len(tgot) + 1, size)
      BY <2>1, <2>2 DEF Leaving
    <3> QED
      BY <3>1 DEF Piece, Item
  <2>4. tpc' = "w.data" /\ tleft' = tleft - 1 /\ tgot' = Append(tgot, x)
    BY <1>8, <2>3 DEF TabletReceive, x
  <2>5. /\ Len(tgot') = Len(tgot) + 1 /\ DOMAIN tgot' = 1 .. Len(tgot) + 1
        /\ DOMAIN tgot = 1 .. Len(tgot) /\ Len(tgot) \in Nat
        /\ (\A i \in DOMAIN tgot : tgot'[i] = tgot[i]) /\ tgot'[Len(tgot) + 1] = x
    BY <1>3, <2>2, <2>4, Put1
  <2>6. Leaving'
    <3>1. Len(tgot) + Len(toT) = size - left
      BY <2>1 DEF Leaving
    <3>2. left' = left /\ size' = size /\ count' = count
      BY <1>1
    <3>3. Len(tgot') + Len(toT') = size' - left'
      BY <2>2, <2>5, <3>1, <3>2
    <3>4. ASSUME NEW i \in DOMAIN tgot'
          PROVE  tgot'[i] = Piece(count, i, size)
      <4>1. CASE i \in DOMAIN tgot
        BY <2>1, <2>5, <4>1 DEF Leaving
      <4>2. CASE i \notin DOMAIN tgot
        <5>1. i = Len(tgot) + 1
          BY <2>5, <4>2
        <5> QED
          BY <2>3, <2>5, <5>1
      <4> QED
        BY <4>1, <4>2
    <3>5. ASSUME NEW i \in DOMAIN toT'
          PROVE  toT'[i] = Piece(count, Len(tgot') + i, size)
      <4>1. i + 1 \in DOMAIN toT /\ toT'[i] = toT[i + 1] /\ i \in Int
        BY <2>2
      <4>2. toT[i + 1] = Piece(count, Len(tgot) + (i + 1), size)
        BY <2>1, <4>1 DEF Leaving
      <4>3. Len(tgot) + (i + 1) = Len(tgot') + i
        BY <2>5, <4>1
      <4> QED
        BY <4>1, <4>2, <4>3
    <3> QED
      BY <3>2, <3>3, <3>4, <3>5 DEF Leaving
  <2>7. tleft' = left' + Len(toT')
    <3>1. left' = left
      BY <1>1
    <3> QED
      BY <1>3, <2>1, <2>2, <2>4, <3>1
  <2>8. AtWriteData'
    BY <1>1, <2>1, <2>6, <2>7 DEF AtWriteData
  <2>9. ToReadInv'
    BY <1>1, <2>1 DEF ToReadInv
  <2> QED
    BY <1>1, <2>4, <2>8, <2>9 DEF ExchangeInv, TogetherInv
<1> QED
  BY <1>1, <1>5, <1>6, <1>7, <1>8 DEF TabletWaits

\* The tablet sends the size.
LEMMA TabletSizeInStep ==
  ASSUME TypeInv, ExchangeInv, NEW n \in 0 .. MaxLen, TabletSendSize(n)
  PROVE  ExchangeInv'
<1> SUFFICES ASSUME ~late' PROVE ExchangeInv'
  BY NothingClaimed
<1>1. /\ tpc = "r.size" /\ link = "up" /\ ~late /\ toC' = Append(toC, Item("size", n))
      /\ tpc' = "r.ackSize" /\ tleft' = n /\ len' = n
      /\ UNCHANGED <<pc, left, got, size, count, tgot, toT, link>>
  BY DEF TabletSendSize, TabletSend, compVars
<1>2. ToReadInv /\ TogetherInv
  BY <1>1, Claims
<1>3. pc = "r.size" /\ toC = <<>> /\ toT = <<>>
  BY <1>1, <1>2 DEF TogetherInv, AtReadSize, Silent
<1>4. toC' = <<Item("size", n)>>
  BY <1>1, <1>3, OneItem
<1>5. ToReadInv'
  BY <1>1, <1>3, <1>4 DEF ToReadInv, AckAwaited
<1> QED
  BY <1>1, <1>3, <1>4, <1>5 DEF ExchangeInv, TogetherInv, AtReadAckSize

\* The tablet sends the next piece.
LEMMA TabletPieceInStep ==
  ASSUME TypeInv, ExchangeInv, TabletSendPiece
  PROVE  ExchangeInv'
<1> SUFFICES ASSUME ~late' PROVE ExchangeInv'
  BY NothingClaimed
<1> DEFINE p == Piece(count, len - tleft + 1, len)
<1>1. /\ tpc = "r.data" /\ tpc' = "r.data" /\ link = "up" /\ ~late /\ toC' = Append(toC, p)
      /\ tleft > 0 /\ tleft' = tleft - 1
      /\ UNCHANGED <<pc, left, got, size, count, len, tgot, toT, link>>
  BY DEF TabletSendPiece, TabletSend, compVars
<1>2. /\ ToReadInv /\ TogetherInv /\ toC \in Seq(Items) /\ got \in Seq(Items) /\ left \in Int
      /\ tleft \in 0 .. MaxLen /\ len \in 0 .. MaxLen /\ count \in Nat /\ MaxLen \in Nat
  BY <1>1, Claims
<1>3. /\ pc = "r.data" /\ toT = <<>> /\ left = tleft + Len(toC)
      /\ Len(got) + left = len /\ Arriving(count, len)
  BY <1>1, <1>2 DEF TogetherInv, AtReadData
<1>4. tleft <= len /\ count > 0
  BY <1>1 DEF TypeInv, BoundsInv
<1>5. p \in Items
  <2>1. len - tleft + 1 \in 1 .. MaxLen
    BY <1>1, <1>2, <1>4
  <2>2. count \in 1 .. MaxTransactions
    BY <1>4, Bounds DEF TypeInv, TypeOK
  <2> QED
    BY <1>2, <2>1, <2>2, ItemTypes
<1>6. /\ Len(toC') = Len(toC) + 1 /\ DOMAIN toC' = 1 .. Len(toC) + 1
      /\ DOMAIN toC = 1 .. Len(toC) /\ Len(toC) \in Nat
      /\ (\A i \in DOMAIN toC : toC'[i] = toC[i]) /\ toC'[Len(toC) + 1] = p
  <2> HIDE DEF p
  <2> QED
    BY <1>1, <1>2, <1>5, Put1
<1>7. ASSUME NEW i \in DOMAIN toC'
      PROVE  toC'[i] = Piece(count, Len(got) + i, len)
  <2>1. CASE i \in DOMAIN toC
    <3>1. i <= left
      BY <1>1, <1>2, <1>3, <1>6, <2>1
    <3> QED
      BY <1>3, <1>6, <2>1, <3>1 DEF Arriving
  <2>2. CASE i \notin DOMAIN toC
    <3>1. i = Len(toC) + 1 /\ Len(got) \in Nat
      BY <1>2, <1>6, <2>2
    <3>2. Len(got) + i = len - tleft + 1
      BY <1>2, <1>3, <1>6, <3>1
    <3> QED
      BY <1>6, <3>1, <3>2
  <2> QED
    BY <2>1, <2>2
<1> HIDE DEF p
<1>8. /\ left' = left /\ tleft' = tleft - 1 /\ len' = len /\ got' = got /\ count' = count
  BY <1>1
<1>9. left' = tleft' + Len(toC') /\ Len(got') + left' = len'
  BY <1>2, <1>3, <1>6, <1>8
<1>10. Arriving(count, len)'
  <2>1. len = Len(got) + left
    BY <1>3 DEF Arriving
  <2> QED
    BY <1>3, <1>7, <1>8, <2>1 DEF Arriving
<1>11. CodesAfter(left)'
  <2>1. \A i \in DOMAIN toC' : ~(i > left)
    BY <1>1, <1>2, <1>3, <1>6
  <2> QED
    BY <1>8, <2>1 DEF CodesAfter
<1>12. ToReadInv'
  <2>1. left' >= 0 /\ count' \in 1 .. count'
    BY <1>1, <1>2, <1>3, <1>4, <1>6, <1>8
  <2>2. len' \in 0 .. MaxLen
    BY <1>2, <1>8
  <2>3. \E k \in 1 .. count', n \in 0 .. MaxLen : Arriving(k, n)'
    <3>1. PICK k, n : k = count /\ n = len
      OBVIOUS
    <3>2. Arriving(k, n)'
      BY <1>8, <1>10, <3>1
    <3>3. k \in 1 .. count' /\ n \in 0 .. MaxLen
      BY <1>8, <2>1, <2>2, <3>1
    <3> QED
      BY <3>2, <3>3
  <2>4. pc' = "r.data"
    BY <1>1, <1>3
  <2> QED
    BY <1>11, <2>1, <2>3, <2>4 DEF ToReadInv, AckAwaited
<1>13. AtReadData'
  BY <1>1, <1>3, <1>9, <1>10 DEF AtReadData
<1> QED
  BY <1>1, <1>12, <1>13 DEF ExchangeInv, TogetherInv

\* The tablet has the size, or the data.
LEMMA TabletAckInStep ==
  ASSUME TypeInv, ExchangeInv, TabletSendAck
  PROVE  ExchangeInv'
<1> SUFFICES ASSUME ~late' PROVE ExchangeInv'
  BY NothingClaimed
<1>1. /\ link = "up" /\ ~late /\ toC' = Append(toC, Ack)
      /\ \/ tpc = "w.ackSize" /\ tpc' = "w.data"
         \/ tpc = "w.data" /\ tleft = 0 /\ tpc' = "idle"
      /\ UNCHANGED <<pc, left, got, size, count, tgot, toT, link, tleft, len>>
  BY DEF TabletSendAck, TabletSend, compVars
<1>2. /\ ToReadInv /\ TogetherInv /\ toC \in Seq(Items) /\ toT \in Seq(Items)
      /\ tgot \in Seq(Items) /\ left \in Int /\ size \in 0 .. MaxLen /\ count \in Nat
  BY <1>1, Claims
<1>3. Ack \in Items /\ Ack.kind = "ack"
  BY ItemTypes
<1>4. CASE tpc = "w.ackSize" /\ tpc' = "w.data"
  <2>1. pc = "w.ackSize" /\ left = size /\ toC = <<>> /\ toT = <<>> /\ tleft = size /\ tgot = <<>>
    BY <1>2, <1>4 DEF TogetherInv, AtWriteAckSize, Silent
  <2>2. toC' = <<Ack>>
    BY <1>1, <2>1, OneItem
  <2>3. ToReadInv'
    BY <1>1, <2>1, <2>2 DEF ToReadInv, AckAwaited
  <2> QED
    BY <1>1, <1>4, <2>1, <2>2, <2>3 DEF ExchangeInv, TogetherInv, AtWriteData
<1>5. ASSUME tpc = "w.data", tleft = 0, tpc' = "idle", pc = "w.ackSize"
      PROVE  ExchangeInv'
  <2>1. toC = <<Ack>> /\ toT = <<>> /\ size = 0 /\ tgot = <<>>
    BY <1>2, <1>5 DEF TogetherInv, AtWriteData
  <2>2. Len(toC') = 2 /\ DOMAIN toC' = {1, 2} /\ toC'[1] = Ack /\ toC'[2] = Ack
    BY <1>1, <2>1
  <2>3. CodesAfter(2)'
    BY <2>2 DEF CodesAfter
  <2>4. Both'
    BY <1>1, <2>1, <2>2, <2>3 DEF Both
  <2>5. ToReadInv'
    BY <1>1, <1>5, <2>4 DEF ToReadInv, AckAwaited
  <2>6. Ahead'
    BY <1>1, <1>5, <2>1, <2>2 DEF Ahead
  <2>7. AtIdle'
    BY <1>3, <2>2, <2>6 DEF AtIdle
  <2> QED
    BY <1>5, <2>5, <2>7 DEF ExchangeInv, TogetherInv
<1>6. ASSUME tpc = "w.data", tleft = 0, tpc' = "idle", pc # "w.ackSize"
      PROVE  ExchangeInv'
  <2>1. /\ pc \in {"w.data", "w.ackData"} /\ (pc = "w.ackData" => left = 0)
        /\ toC = <<>> /\ 0 = left + Len(toT) /\ Leaving
    BY <1>2, <1>6 DEF TogetherInv, AtWriteData
  <2>2. left = 0 /\ toT = <<>>
    <3>1. left >= 0
      BY <1>2, <2>1 DEF TypeInv, BoundsInv
    <3>2. Len(toT) \in Nat
      BY <1>2
    <3>3. left = 0 /\ Len(toT) = 0
      BY <1>2, <2>1, <3>1, <3>2
    <3> QED
      BY <1>2, <3>3, OneItem
  <2>3. toC' = <<Ack>>
    BY <1>1, <2>1, OneItem
  <2>4. Len(toC') = 1 /\ DOMAIN toC' = {1} /\ toC'[1] = Ack
    BY <2>3, OneItem
  <2>5. Begun' = count
    <3>1. Begun' = Begun
      <4>1. count > 0 /\ count' = count
        BY <1>1, <1>6 DEF TypeInv, BoundsInv
      <4> QED
        BY <1>1, <1>3, <4>1, FirstPut
    <3>2. Cardinality(CodesIn(toC)) = 0
      BY <2>1, EmptyType, FS_EmptySet
    <3> QED
      BY <1>2, <3>1, <3>2, BegunIs
  <2>6. tgot = Message(count, size)
    <3>1. Len(tgot) = size
      <4>1. Len(tgot) + Len(toT) = size - left /\ Len(toT) = 0 /\ Len(tgot) \in Nat
        BY <1>2, <2>1, <2>2, OneItem DEF Leaving
      <4> QED
        BY <1>2, <2>2, <4>1, Bounds
    <3>2. DOMAIN tgot = 1 .. size
      BY <1>2, <3>1
    <3>3. tgot = [i \in 1 .. size |-> tgot[i]]
      BY <1>2, <3>2
    <3>4. \A i \in 1 .. size : tgot[i] = Piece(count, i, size)
      BY <2>1, <3>2 DEF Leaving
    <3> QED
      BY <3>3, <3>4 DEF Message
  <2>7. AckAwaited' /\ pc' \in {"w.data", "w.ackData"} /\ (pc' = "w.data" => left' = 0)
    BY <1>1, <2>1, <2>2 DEF AckAwaited
  <2>8. CodesAfter(1)'
    BY <2>4 DEF CodesAfter
  <2>9. ToReadInv'
    <3>1. tgot' = Message(Begun', size')
      BY <1>1, <2>5, <2>6
    <3> QED
      BY <2>4, <2>7, <2>8, <3>1 DEF ToReadInv
  <2>10. Ahead'
    <3>1. toC' # <<>> /\ toT' = <<>>
      BY <1>1, <2>2, <2>3, OneItem
    <3> QED
      BY <2>7, <3>1 DEF Ahead
  <2>11. AtIdle'
    BY <1>3, <2>4, <2>10 DEF AtIdle
  <2> QED
    BY <1>6, <2>9, <2>11 DEF ExchangeInv, TogetherInv
<1> QED
  BY <1>1, <1>4, <1>5, <1>6

\* The tablet has sent its message.
LEMMA TabletEndInStep ==
  ASSUME TypeInv, ExchangeInv, TabletEnd
  PROVE  ExchangeInv'
<1> SUFFICES ASSUME ~late', link' # "shut" PROVE ExchangeInv'
  BY NothingClaimed
<1>1. /\ tpc = "r.data" /\ tpc' = "idle" /\ ~late /\ link # "shut" /\ tleft = 0
      /\ UNCHANGED <<pc, left, got, size, count, len, tgot, toC, toT, link>>
      /\ UNCHANGED compVars
  BY DEF TabletEnd, compVars
<1>2. link = "up"
  BY <1>1 DEF TypeInv, TypeOK, BoundsInv
<1>3. ToReadInv /\ TogetherInv /\ toC \in Seq(Items)
  BY <1>1, <1>2, Claims
<1>4. ToReadInv'
  BY <1>1, <1>3, ToReadKept
<1>5. AtReadData
  BY <1>1, <1>3 DEF TogetherInv
<1>6. AtIdle'
  <2>1. CASE pc = "idle" /\ Silent
    BY <1>1, <2>1, OneItem DEF AtIdle, Ahead, Silent
  <2>2. CASE pc = "r.data" /\ toT = <<>> /\ left = tleft + Len(toC) /\ Arriving(count, len)
    <3>1. Len(toC) \in Nat /\ DOMAIN toC = 1 .. Len(toC)
      BY <1>3
    <3>2. left = Len(toC)
      BY <1>1, <2>2, <3>1
    <3>3. \A i \in DOMAIN toC : i <= left
      BY <3>1, <3>2
    <3>4. \A i \in DOMAIN toC : toC[i].kind = "data"
      BY <2>2, <3>3 DEF Arriving, Piece, Item
    <3>5. Ahead'
      BY <1>1, <2>2, <3>1, <3>2 DEF Ahead
    <3> QED
      BY <1>1, <3>4, <3>5 DEF AtIdle
  <2> QED
    BY <1>5, <2>1, <2>2 DEF AtReadData
<1> QED
  BY <1>1, <1>4, <1>6 DEF ExchangeInv, TogetherInv

\* The tablet goes: what it sent stays readable, or is lost altogether.
LEMMA GoesInStep ==
  ASSUME TypeInv, ExchangeInv, NEW how \in {"closed", "lost"}, TabletGoes(how)
  PROVE  ExchangeInv'
<1> SUFFICES ASSUME ~late' PROVE ExchangeInv'
  BY NothingClaimed
<1>1. /\ link = "up" /\ link' = how /\ ~late /\ toC' = IF how = "lost" THEN <<>> ELSE toC
      /\ UNCHANGED <<pc, left, got, size, count, len, tgot>>
      /\ UNCHANGED compVars
  BY DEF TabletGoes, compVars
<1>2. ToReadInv
  BY <1>1, Claims
<1>3. CASE toC' = toC
  BY <1>1, <1>2, <1>3, ToReadKept DEF ExchangeInv
<1>4. CASE toC' = <<>>
  <2>1. DOMAIN toC' = {}
    BY <1>4, OneItem
  <2>2. \A n : CodesAfter(n)'
    BY <2>1 DEF CodesAfter
  <2>3. CodesAfter(left)'
    BY <2>1 DEF CodesAfter
  <2>4. ASSUME pc = "r.data"
        PROVE  left' >= 0 /\ \E k \in 1 .. count', n \in 0 .. MaxLen : Arriving(k, n)'
    <3>1. PICK k \in 1 .. count, n \in 0 .. MaxLen : Arriving(k, n)
      BY <1>2, <2>4 DEF ToReadInv
    <3>2. Arriving(k, n)'
      BY <1>1, <2>1, <3>1 DEF Arriving
    <3>3. left >= 0
      BY <1>2, <2>4 DEF ToReadInv
    <3> QED
      BY <1>1, <3>1, <3>2, <3>3
  <2>5. ToReadInv'
    BY <1>1, <1>4, <2>2, <2>3, <2>4 DEF ToReadInv
  <2> QED
    BY <1>1, <2>5 DEF ExchangeInv
<1> QED
  BY <1>1, <1>3, <1>4

\* The tablet, at any step of the exchange.
LEMMA TabletInStep ==
  ASSUME TypeInv, ExchangeInv, TabletStep
  PROVE  ExchangeInv'
  BY AskInStep, ReceiveInStep, TabletSizeInStep, TabletPieceInStep, TabletAckInStep,
     TabletEndInStep, GoesInStep DEF TabletStep

LEMMA ExchangeKept == TypeInv /\ ExchangeInv /\ [Next]_vars => ExchangeInv'
<1> SUFFICES ASSUME TypeInv, ExchangeInv, [Next]_vars PROVE ExchangeInv'
  OBVIOUS
<1>1. CASE UNCHANGED vars
  <2>1. /\ UNCHANGED <<pc, left, got, size, tpc, tleft, tgot, count, len, toC, toT, link, late>>
        /\ UNCHANGED compVars
    BY <1>1 DEF vars, compVars, tabVars
  <2>2. ToReadInv => ToReadInv'
    BY <2>1, ToReadKept
  <2>3. AtReadData => AtReadData'
    BY <2>1 DEF AtReadData, Arriving, Silent
  <2>4. (AtIdle => AtIdle') /\ (AtReadAck => AtReadAck') /\ (AtWriteSize => AtWriteSize')
    BY <2>1 DEF AtIdle, AtReadAck, AtWriteSize, Asked, Ahead, AckAwaited, Silent
  <2>5. (AtReadSize => AtReadSize') /\ (AtReadAckSize => AtReadAckSize')
    BY <2>1 DEF AtReadSize, AtReadAckSize, Silent
  <2>6. (AtWriteAckSize => AtWriteAckSize') /\ (AtWriteData => AtWriteData')
    BY <2>1 DEF AtWriteAckSize, AtWriteData, Leaving, Silent
  <2>7. TogetherInv => TogetherInv'
    BY <2>1, <2>3, <2>4, <2>5, <2>6 DEF TogetherInv
  <2> QED
    BY <2>1, <2>2, <2>7 DEF ExchangeInv
<1>2. CASE Computer
  BY <1>2, ComputerInStep
<1>3. CASE TabletStep
  BY <1>3, TabletInStep
<1> QED
  BY <1>1, <1>2, <1>3 DEF Next

LEMMA ExchangeAtFirst == Init => ExchangeInv
<1> SUFFICES ASSUME Init PROVE ExchangeInv
  OBVIOUS
<1>1. pc = "idle" /\ tpc = "idle" /\ toC = <<>> /\ toT = <<>>
  BY DEF Init
<1>2. DOMAIN toC = {}
  BY <1>1, OneItem
<1>3. ToReadInv
  BY <1>1, <1>2 DEF ToReadInv, CodesAfter, AckAwaited
<1>4. TogetherInv
  BY <1>1, <1>2 DEF TogetherInv, AtIdle, Ahead
<1> QED
  BY <1>3, <1>4 DEF ExchangeInv

LEMMA ExchangeAlways == Spec => [](TypeInv /\ ExchangeInv)
<1>1. Init => TypeInv /\ ExchangeInv
  BY TypesAtFirst, ExchangeAtFirst
<1>2. TypeInv /\ ExchangeInv /\ [Next]_vars => (TypeInv /\ ExchangeInv)'
  BY TypesKept, ExchangeKept
<1> QED
  BY <1>1, <1>2, PTL DEF Spec

-----------------------------------------------------------------------------
(* What follows *)

\* internalRead and internalWrite have no header to find: that what they read
\* next is what they expect follows from where the tablet is.
THEOREM NeverOutOfStep == Spec => []InStep
<1>1. TypeInv /\ ExchangeInv => InStep
  <2> SUFFICES ASSUME TypeInv, ExchangeInv, ~late, toC # <<>>, link # "shut"
               PROVE  Head(toC).kind = CASE pc = "idle"   -> "code"
                                         [] pc = "r.size" -> "size"
                                         [] pc = "r.data" /\ left > 0 -> "data"
                                         [] pc \in {"w.ackSize", "w.ackData"} -> "ack"
                                         [] OTHER -> Head(toC).kind
    BY DEF InStep
  <2>1. ToReadInv /\ toC \in Seq(Items) /\ left \in Int
    BY Claims
  <2>2. Head(toC) = toC[1] /\ 1 \in DOMAIN toC
    BY <2>1, Take1
  <2>3. ASSUME pc = "idle"
        PROVE  Head(toC).kind = "code"
    BY <2>1, <2>2, <2>3 DEF ToReadInv, CodesAfter
  <2>4. ASSUME pc = "r.size"
        PROVE  Head(toC).kind = "size"
    <3>1. PICK n \in 0 .. MaxLen : toC = <<Item("size", n)>>
      BY <2>1, <2>4 DEF ToReadInv
    <3> QED
      BY <3>1, OneItem, ItemTypes
  <2>5. ASSUME pc = "r.data", left > 0
        PROVE  Head(toC).kind = "data"
    <3>1. PICK k \in 1 .. count, n \in 0 .. MaxLen : Arriving(k, n)
      BY <2>1, <2>5 DEF ToReadInv
    <3>2. 1 <= left
      BY <2>1, <2>5
    <3> QED
      BY <2>2, <3>1, <3>2 DEF Arriving, Piece, Item
  <2>6. ASSUME pc \in {"w.ackSize", "w.ackData"}
        PROVE  Head(toC).kind = "ack"
    <3>1. toC[1] = Ack
      BY <2>1, <2>6, OneItem DEF ToReadInv, AckAwaited, Both
    <3> QED
      BY <2>2, <3>1, ItemTypes
  <2> QED
    BY <2>3, <2>4, <2>5, <2>6
<1> QED
  BY <1>1, ExchangeAlways, PTL

\* A read that ends with success has one message, whole: pieces of two messages
\* never mix, though internalRead only counts bytes.
THEOREM ReadsAreWhole == Spec => []ReadIsWhole
<1>1. TypeInv /\ ExchangeInv => ReadIsWhole
  <2> SUFFICES ASSUME TypeInv, ExchangeInv, ~late, pc = "r.data", left = 0
               PROVE  \E k \in 1 .. count, n \in 0 .. MaxLen : got = Message(k, n)
    BY DEF ReadIsWhole
  <2>1. link # "shut"
    BY DEF TypeInv, BoundsInv
  <2>2. ToReadInv /\ got \in Seq(Items)
    BY <2>1, Claims
  <2>3. PICK k \in 1 .. count, n \in 0 .. MaxLen : Arriving(k, n)
    BY <2>2 DEF ToReadInv
  <2>4. Len(got) = n /\ DOMAIN got = 1 .. n
    BY <2>2, <2>3 DEF Arriving
  <2>5. got = [i \in 1 .. n |-> got[i]]
    BY <2>2, <2>4
  <2>6. \A i \in 1 .. n : got[i] = Piece(k, i, n)
    BY <2>3, <2>4 DEF Arriving
  <2>7. got = Message(k, n)
    BY <2>5, <2>6 DEF Message
  <2> QED
    BY <2>7
<1> QED
  BY <1>1, ExchangeAlways, PTL

\* The last ACK internalWrite reads is the tablet's answer to the whole message,
\* never one that was left over.
THEOREM WritesAreWhole == Spec => []WriteIsWhole
<1>1. TypeInv /\ ExchangeInv => WriteIsWhole
  <2> SUFFICES ASSUME TypeInv, ExchangeInv, ~late, pc = "w.ackData", toC # <<>>
               PROVE  tgot = Message(Begun, size)
    BY DEF WriteIsWhole
  <2>1. link # "shut"
    BY DEF TypeInv, BoundsInv
  <2>2. ToReadInv
    BY <2>1, Claims
  <2> QED
    BY <2>2 DEF ToReadInv, AckAwaited
<1> QED
  BY <1>1, ExchangeAlways, PTL

\* The computer and the tablet never both wait for the other in step: the 15 s
\* of readAllSocketData only end a wait for a tablet that fell silent.
THEOREM NeverAStandoff == Spec => []NoStandoff
<1>1. TypeInv /\ ExchangeInv => NoStandoff
  <2> SUFFICES ASSUME TypeInv, ExchangeInv, ~late, link = "up", pc \in Waiting, TabletWaits,
                      toC = <<>>, toT = <<>>, pc = "r.data" => left > 0
               PROVE  FALSE
    BY DEF NoStandoff
  <2>1. TogetherInv /\ left \in Int
    BY Claims
  <2>2. Len(toC) = 0 /\ Len(toT) = 0
    BY OneItem
  <2>3. ~Ahead
    BY <2>1, <2>2 DEF Ahead, AckAwaited, Waiting
  <2>4. tpc # "r.ack"
    BY <2>1, <2>3 DEF TogetherInv, AtReadAck, Asked, Waiting
  <2>5. tpc # "r.ackSize"
    BY <2>1 DEF TogetherInv, AtReadAckSize, Waiting
  <2>6. tpc # "w.size"
    BY <2>1, <2>3 DEF TogetherInv, AtWriteSize, Asked, Waiting
  <2>7. ~(tpc = "w.data" /\ tleft > 0)
    <3> SUFFICES ASSUME tpc = "w.data", tleft > 0 PROVE FALSE
      OBVIOUS
    <3>1. pc = "w.ackData" /\ left = 0 /\ tleft = left + Len(toT)
      BY <2>1 DEF TogetherInv, AtWriteData, Waiting
    <3> QED
      BY <2>2, <3>1
  <2> QED
    BY <2>4, <2>5, <2>6, <2>7 DEF TabletWaits
<1> QED
  BY <1>1, ExchangeAlways, PTL
=============================================================================
