--------------------------- MODULE MatchSyncProofs ---------------------------
(* Proofs about MatchSync, for any matches, number of points and of lists. *)
EXTENDS MatchSync, SequenceTheorems, TLAPS

-----------------------------------------------------------------------------
(* The inductive invariant, in parts *)

ListType ==
  /\ scouted \in Seq(Matches) /\ sentList \in Seq(Matches) /\ list \in Seq(Matches)
  /\ first \in 0 .. Len(list) /\ lists \in 0 .. MaxLists
  /\ answer \subseteq DOMAIN list
StoreType ==
  /\ sent \subseteq Matches /\ toResend \subseteq Matches /\ answered \in BOOLEAN
  /\ pc \in {"idle", "store"} /\ match \in Matches
  /\ upto \in 0 .. PointCount /\ at \in 1 .. PointCount + 1 /\ (pc = "store" => at <= upto)
  /\ rows \subseteq Matches \X Points /\ again \in BOOLEAN /\ cut \subseteq Matches
  /\ faults \subseteq {"select failed", "second list"}

\* A is a beginning of the tablet's matches.
Oldest(s, n) == n <= Len(s) /\ n <= Len(scouted) /\ \A i \in 1 .. n : s[i] = scouted[i]

\* The first list of a connection is still a beginning of what the tablet sends.
PositionInv ==
  /\ lists = 0 => list = <<>>
  /\ Oldest(list, first) /\ Oldest(sentList, Len(sentList)) /\ first <= Len(sentList)

\* A match is stored from its first point on, and only what is cut short stays
\* in part.
StoreInv ==
  /\ pc = "store" => match \in sent
  /\ pc = "store" /\ match \notin cut => upto = PointCount /\ \A p \in 1 .. at - 1 : <<match, p>> \in rows
  /\ \A m \in Matches : ~NoRow(m) => m \in sent /\ (Whole(m) \/ m \in cut \/ (pc = "store" /\ match = m))

Received(m) == Whole(m) \/ (~NoRow(m) /\ m \in cut)
AnswerInv == answered => \A i \in 1 .. first : i \notin answer => Received(list[i])

\* What is asked for has no row, nor is it being stored.
ResendInv ==
  faults = {} => \A m \in toResend : NoRow(m) /\ ~(pc = "store" /\ match = m)

Inv == ListType /\ StoreType /\ PositionInv /\ StoreInv /\ AnswerInv /\ ResendInv /\ NothingStoredTwice

-----------------------------------------------------------------------------
(* Types *)

\* Sequences and numbers of the exchange keep their types.
LEMMA ListTypeStep == ListType /\ StoreType /\ [Next]_vars => ListType'
<1> SUFFICES ASSUME ListType, StoreType, [Next]_vars PROVE ListType'
  OBVIOUS
<1> USE ListsAssumption
<1>1. ASSUME NEW m \in Matches, Scout(m) PROVE ListType'
  BY <1>1 DEF Scout, ListType, conn
<1>2. CASE ReceiveList
  <2>1. /\ list' = list \o scouted /\ sentList' = scouted /\ scouted' = scouted
        /\ first' \in {Len(scouted), first} /\ (lists = 0 => first' = Len(scouted))
        /\ lists' = lists + 1 /\ lists < MaxLists /\ answer' = {}
    BY <1>2 DEF ReceiveList, tablet
  <2>2. list' \in Seq(Matches) /\ Len(list') = Len(list) + Len(scouted)
    BY <2>1 DEF ListType
  <2>3. first' \in 0 .. Len(list')
    BY <2>1, <2>2 DEF ListType
  <2>4. lists' \in 0 .. MaxLists
    BY <2>1 DEF ListType
  <2> QED
    BY <2>1, <2>2, <2>3, <2>4 DEF ListType
<1>3. ASSUME NEW failed \in SUBSET DOMAIN list, SendUnreceived(failed) PROVE ListType'
  BY <1>3 DEF SendUnreceived, ListType, tablet
<1>4. CASE Disconnect \/ Restart
  <2>1. /\ sentList' = <<>> /\ list' = <<>> /\ first' = 0 /\ lists' = 0 /\ answer' = {} /\ scouted' = scouted
    BY <1>4 DEF Disconnect, Restart, tablet
  <2>2. <<>> \in Seq(Matches) /\ Len(<<>>) = 0
    OBVIOUS
  <2> QED
    BY <2>1, <2>2 DEF ListType
<1>5. CASE Match \/ UNCHANGED vars
  <2>1. UNCHANGED <<scouted, sentList, list, first, lists, answer>>
    BY <1>5 DEF Match, ReceiveMatch, StorePoint, vars, tablet, conn
  <2> QED
    BY <2>1 DEF ListType
<1> QED
  BY <1>1, <1>2, <1>3, <1>4, <1>5 DEF Next, Sync

\* So do the sets and the insert loop.
LEMMA StoreTypeStep == ListType /\ StoreType /\ [Next]_vars => StoreType'
<1> SUFFICES ASSUME ListType, StoreType, [Next]_vars PROVE StoreType'
  OBVIOUS
<1> USE PointsAssumption
<1>1. ASSUME NEW m \in Matches, Scout(m) PROVE StoreType'
  BY <1>1 DEF Scout, StoreType, conn, store
<1>2. CASE ReceiveList \/ Disconnect
  BY <1>2 DEF ReceiveList, Disconnect, StoreType, tablet, store
<1>3. ASSUME NEW failed \in SUBSET DOMAIN list, SendUnreceived(failed) PROVE StoreType'
  <2>1. toResend' \subseteq Matches
    <3>1. toResend' = {sentList[i] : i \in answer' \cap DOMAIN sentList}
      BY <1>3 DEF SendUnreceived
    <3>2. \A i \in DOMAIN sentList : sentList[i] \in Matches
      BY DEF ListType
    <3> QED
      BY <3>1, <3>2
  <2>2. faults' \subseteq {"select failed", "second list"}
    <3>1. faults' \subseteq faults \cup {"select failed", "second list"}
      BY <1>3 DEF SendUnreceived
    <3> QED
      BY <3>1 DEF StoreType
  <2>3. answered' = TRUE /\ UNCHANGED <<sent, pc, match, at, upto, rows, again, cut>>
    BY <1>3 DEF SendUnreceived, tablet, store
  <2>4. answered' \in BOOLEAN /\ again' \in BOOLEAN
    BY <2>3 DEF StoreType
  <2>5. /\ sent' \subseteq Matches /\ pc' \in {"idle", "store"} /\ match' \in Matches
        /\ rows' \subseteq Matches \X Points /\ cut' \subseteq Matches
    BY <2>3 DEF StoreType
  <2>6. upto' \in 0 .. PointCount /\ at' \in 1 .. PointCount + 1 /\ (pc' = "store" => at' <= upto')
    BY <2>3 DEF StoreType
  <2> QED
    BY <2>1, <2>2, <2>4, <2>5, <2>6 DEF StoreType
<1>4. ASSUME NEW m \in Matches, NEW parsed \in 0 .. PointCount, ReceiveMatch(m, parsed) PROVE StoreType'
  <2>1. /\ sent' \subseteq Matches /\ toResend' \subseteq Matches /\ match' \in Matches /\ cut' \subseteq Matches
        /\ UNCHANGED <<answered, rows, faults>> /\ pc' \in {"idle", "store"}
    BY <1>4 DEF ReceiveMatch, StoreType
  <2>2. again' \in BOOLEAN
    BY <1>4 DEF ReceiveMatch
  <2>3. at' = 1 /\ upto' = parsed /\ (pc' = "store" => parsed # 0)
    BY <1>4 DEF ReceiveMatch
  <2>4. upto' \in 0 .. PointCount /\ at' \in 1 .. PointCount + 1 /\ (pc' = "store" => at' <= upto')
    BY <2>3
  <2>5. rows' \subseteq Matches \X Points /\ answered' \in BOOLEAN /\ faults' \subseteq {"select failed", "second list"}
    BY <2>1 DEF StoreType
  <2> QED
    BY <2>1, <2>2, <2>4, <2>5 DEF StoreType
<1>5. ASSUME NEW ok \in BOOLEAN, StorePoint(ok) PROVE StoreType'
  <2>1. /\ UNCHANGED <<sent, toResend, answered, match, upto, again, faults>> /\ pc = "store"
        /\ at' = at + 1 /\ pc' = IF at = upto THEN "idle" ELSE "store"
    BY <1>5 DEF StorePoint, tablet, conn
  <2>2. at <= upto /\ at \in 1 .. PointCount + 1 /\ upto \in 0 .. PointCount
    BY <2>1 DEF StoreType
  <2>3. at \in Points
    BY <2>2 DEF Points
  <2>4. rows' \subseteq Matches \X Points /\ cut' \subseteq Matches
    <3>1. rows' \subseteq rows \cup {<<match, at>>} /\ cut' \subseteq cut \cup {match}
      BY <1>5 DEF StorePoint
    <3>2. rows \cup {<<match, at>>} \subseteq Matches \X Points /\ cut \cup {match} \subseteq Matches
      <4>1. <<match, at>> \in Matches \X Points /\ rows \subseteq Matches \X Points /\ cut \cup {match} \subseteq Matches
        BY <2>3 DEF StoreType
      <4> QED
        BY <4>1
    <3> QED
      BY <3>1, <3>2
  <2>5. at' \in 1 .. PointCount + 1 /\ (pc' = "store" => at' <= upto)
    BY <2>1, <2>2
  <2> QED
    BY <2>1, <2>4, <2>5 DEF StoreType
<1>6. CASE Restart
  BY <1>6 DEF Restart, StoreType, tablet
<1>7. CASE UNCHANGED vars
  BY <1>7 DEF vars, tablet, conn, store, StoreType
<1> QED
  BY <1>1, <1>2, <1>3, <1>4, <1>5, <1>6, <1>7 DEF Next, Sync, Match

-----------------------------------------------------------------------------
(* Positions *)

\* What is a beginning of the tablet's matches stays one when it scouts more.
LEMMA OldestKept ==
  ASSUME ListType, NEW s \in Seq(Matches), NEW n \in Nat, Oldest(s, n),
         scouted' = scouted \/ \E m \in Matches : scouted' = Append(scouted, m), s' = s, n' = n
  PROVE  Oldest(s, n)'
<1>1. Len(scouted) <= Len(scouted') /\ \A i \in 1 .. Len(scouted) : scouted'[i] = scouted[i]
  BY DEF ListType
<1>2. Len(scouted) \in Nat /\ Len(scouted') \in Nat /\ Len(s) \in Nat
  BY DEF ListType
<1> QED
  BY <1>1, <1>2 DEF Oldest

\* A connection's first list comes when it has none, and names the matches scouted.
LEMMA PositionStep == ListType /\ PositionInv /\ [Next]_vars => PositionInv'
<1> SUFFICES ASSUME ListType, PositionInv, [Next]_vars PROVE PositionInv'
  OBVIOUS
<1>0. /\ list \in Seq(Matches) /\ sentList \in Seq(Matches) /\ scouted \in Seq(Matches)
      /\ first \in Nat /\ Len(list) \in Nat /\ Len(sentList) \in Nat /\ Len(scouted) \in Nat /\ lists \in Nat
  BY ListsAssumption DEF ListType
<1>1. CASE UNCHANGED <<sentList, list, first, lists>> /\ (scouted' = scouted \/ \E m \in Matches : scouted' = Append(scouted, m))
  <2>1. Oldest(list, first)'
    BY <1>0, <1>1, OldestKept DEF PositionInv
  <2>2. Oldest(sentList, Len(sentList))'
    BY <1>0, <1>1, OldestKept DEF PositionInv
  <2> QED
    BY <1>1, <2>1, <2>2 DEF PositionInv
<1>2. CASE ReceiveList
  <2>1. /\ list' = list \o scouted /\ sentList' = scouted /\ scouted' = scouted /\ lists' = lists + 1
        /\ first' = IF lists = 0 THEN Len(scouted) ELSE first
    BY <1>2 DEF ReceiveList, tablet
  <2>2. lists' # 0
    BY <1>0, <2>1
  <2>3. Oldest(sentList, Len(sentList))'
    BY <1>0, <2>1 DEF Oldest
  <2>4. CASE lists = 0
    <3>1. list' = scouted /\ first' = Len(scouted)
      BY <1>0, <2>1, <2>4 DEF PositionInv
    <3>2. Oldest(list, first)' /\ (first <= Len(sentList))'
      BY <1>0, <2>1, <3>1 DEF Oldest
    <3> QED
      BY <2>2, <2>3, <3>2 DEF PositionInv
  <2>5. CASE lists # 0
    <3>1. first' = first /\ first <= Len(list) /\ first <= Len(scouted) /\ \A i \in 1 .. first : list[i] = scouted[i]
      BY <2>1, <2>5 DEF PositionInv, Oldest
    <3>2. Len(list') = Len(list) + Len(scouted) /\ \A i \in 1 .. Len(list) : list'[i] = list[i]
      BY <1>0, <2>1
    <3>3. Oldest(list, first)' /\ (first <= Len(sentList))'
      BY <1>0, <2>1, <3>1, <3>2 DEF Oldest
    <3> QED
      BY <2>2, <2>3, <3>3 DEF PositionInv
  <2> QED
    BY <2>4, <2>5
<1>3. CASE Disconnect \/ Restart
  <2>1. list' = <<>> /\ sentList' = <<>> /\ first' = 0 /\ scouted' = scouted
    BY <1>3 DEF Disconnect, Restart, tablet
  <2>2. Len(list') = 0 /\ Len(sentList') = 0
    BY <2>1
  <2> QED
    BY <1>0, <2>1, <2>2 DEF PositionInv, Oldest
<1>4. \/ Disconnect \/ Restart \/ ReceiveList
      \/ UNCHANGED <<sentList, list, first, lists>> /\ (scouted' = scouted \/ \E m \in Matches : scouted' = Append(scouted, m))
  BY DEF Next, Sync, Match, Scout, SendUnreceived, ReceiveMatch, StorePoint, vars, tablet, conn
<1> QED
  BY <1>1, <1>2, <1>3, <1>4

\* Positions of the first list mean the same match to both ends.
LEMMA SamePosition ==
  ASSUME ListType, PositionInv, NEW i \in 1 .. first
  PROVE  i \in DOMAIN list /\ i \in DOMAIN sentList /\ list[i] = sentList[i] /\ sentList[i] \in Matches
<1>1. /\ list \in Seq(Matches) /\ sentList \in Seq(Matches) /\ first \in Nat
      /\ Len(list) \in Nat /\ Len(sentList) \in Nat
  BY DEF ListType
<1>2. first <= Len(list) /\ first <= Len(sentList)
  BY DEF PositionInv, Oldest
<1>3. i \in 1 .. Len(list) /\ i \in 1 .. Len(sentList)
  BY <1>1, <1>2
<1>4. list[i] = scouted[i] /\ sentList[i] = scouted[i]
  BY <1>3 DEF PositionInv, Oldest
<1> QED
  BY <1>1, <1>3, <1>4

-----------------------------------------------------------------------------
(* The table *)

\* Rows, and the causes a match is in part, are never taken back.
LEMMA OnlyMore == [Next]_vars => rows \subseteq rows' /\ cut \subseteq cut' /\ sent \subseteq sent' /\ faults \subseteq faults'
  BY DEF Next, Sync, Match, Scout, ReceiveList, SendUnreceived, ReceiveMatch, StorePoint, Disconnect, Restart,
    vars, tablet, conn, store

\* A match is stored from its first point to its last, or is noted as cut.
LEMMA StoreStep == StoreType /\ StoreInv /\ [Next]_vars => StoreInv'
<1> SUFFICES ASSUME StoreType, StoreInv, [Next]_vars PROVE StoreInv'
  OBVIOUS
<1> USE PointsAssumption
<1>1. CASE UNCHANGED <<pc, match, at, upto, rows, cut, sent>>
  BY <1>1 DEF StoreInv, NoRow, Whole
<1>2. ASSUME NEW m \in Matches, NEW parsed \in 0 .. PointCount, ReceiveMatch(m, parsed) PROVE StoreInv'
  <2>1. /\ pc = "idle" /\ match' = m /\ m \in sent' /\ sent \subseteq sent' /\ at' = 1 /\ upto' = parsed
        /\ pc' = (IF parsed = 0 THEN "idle" ELSE "store")
        /\ rows' = rows /\ cut \subseteq cut' /\ (parsed \in 1 .. PointCount - 1 => m \in cut')
    BY <1>2 DEF ReceiveMatch
  <2>2. pc' = "store" /\ m \notin cut' => parsed = PointCount
    BY <2>1
  <2>3. \A p \in 1 .. at' - 1 : FALSE
    BY <2>1
  <2> QED
    BY <2>1, <2>2, <2>3 DEF StoreInv, NoRow, Whole
<1>3. ASSUME NEW ok \in BOOLEAN, StorePoint(ok) PROVE StoreInv'
  <2>1. /\ pc = "store" /\ pc' = (IF at = upto THEN "idle" ELSE "store") /\ at' = at + 1
        /\ UNCHANGED <<match, upto, sent>>
        /\ (ok => rows' = rows \cup {<<match, at>>} /\ cut' = cut)
        /\ (~ok => rows' = rows /\ cut' = cut \cup {match})
    BY <1>3 DEF StorePoint, tablet
  <2>2. at \in Nat /\ upto \in Nat /\ at <= upto /\ match \in Matches
    <3>1. pc = "store"
      BY <2>1
    <3>2. upto \in 0 .. PointCount /\ at \in 1 .. PointCount + 1 /\ at <= upto /\ match \in Matches
      BY <3>1 DEF StoreType
    <3> QED
      BY <3>2
  <2>3. ASSUME match \notin cut' PROVE upto = PointCount /\ \A p \in 1 .. at : <<match, p>> \in rows'
    <3>1. ok /\ match \notin cut
      BY <2>1, <2>3
    <3>2. upto = PointCount /\ \A p \in 1 .. at - 1 : <<match, p>> \in rows
      BY <2>1, <3>1 DEF StoreInv
    <3>3. \A p \in 1 .. at : p \in 1 .. at - 1 \/ p = at
      BY <2>2
    <3> QED
      BY <2>1, <3>1, <3>2, <3>3
  <2>4. pc' = "idle" => Whole(match)' \/ match \in cut'
    BY <2>1, <2>3 DEF Whole, Points
  <2>5. ASSUME NEW m \in Matches, ~NoRow(m)', m # match PROVE m \in sent' /\ (Whole(m)' \/ m \in cut')
    <3>1. \A p \in Points : <<m, p>> \in rows' <=> <<m, p>> \in rows
      BY <2>1, <2>5
    <3>2. m \in sent /\ (Whole(m) \/ m \in cut)
      BY <2>5, <3>1 DEF StoreInv, NoRow
    <3> QED
      BY <2>1, <3>1, <3>2 DEF Whole
  <2>6. pc' = "store" \/ pc' = "idle"
    BY <2>1
  <2>7. match \in sent
    BY <2>1 DEF StoreInv
  <2>8. at' - 1 = at
    BY <2>1, <2>2
  <2> QED
    BY <2>1, <2>3, <2>4, <2>5, <2>6, <2>7, <2>8 DEF StoreInv
<1>4. CASE Restart
  BY <1>4 DEF Restart, StoreInv, NoRow, Whole, tablet
<1>5. \/ UNCHANGED <<pc, match, at, upto, rows, cut, sent>>
      \/ \E m \in Matches, parsed \in 0 .. PointCount : ReceiveMatch(m, parsed)
      \/ \E ok \in BOOLEAN : StorePoint(ok)
      \/ Restart
  BY DEF Next, Sync, Match, Scout, ReceiveList, SendUnreceived, Disconnect, vars, tablet, conn, store
<1> QED
  BY <1>1, <1>2, <1>3, <1>4, <1>5

\* What counts as received stays so.
LEMMA ReceivedKept ==
  ASSUME [Next]_vars, NEW m \in Matches, Received(m)
  PROVE  Whole(m)' \/ (~NoRow(m)' /\ m \in cut')
<1>1. rows \subseteq rows' /\ cut \subseteq cut'
  BY OnlyMore
<1> QED
  BY <1>1 DEF Received, Whole, NoRow

-----------------------------------------------------------------------------
(* The answer *)

\* The first list of a connection is not changed while an answer to it counts.
LEMMA AnswerStep ==
  ListType /\ StoreType /\ PositionInv /\ StoreInv /\ AnswerInv /\ [Next]_vars => AnswerInv'
<1> SUFFICES ASSUME ListType, StoreType, PositionInv, StoreInv, AnswerInv, [Next]_vars, answered',
                    NEW i \in 1 .. first', i \notin answer'
             PROVE  Received(list[i])'
  BY DEF AnswerInv
<1>1. CASE UNCHANGED <<list, first, answered, answer>>
  <2>1. i \in 1 .. first /\ i \notin answer /\ answered /\ list' = list
    BY <1>1
  <2>2. Received(list[i])
    BY <2>1 DEF AnswerInv
  <2>3. list[i] \in Matches
    BY <2>1, SamePosition
  <2> QED
    BY <2>1, <2>2, <2>3, ReceivedKept DEF Received, Whole, NoRow
<1>2. ASSUME NEW failed \in SUBSET DOMAIN list, SendUnreceived(failed) PROVE Received(list[i])'
  <2>1. /\ pc = "idle" /\ answer' = {j \in DOMAIN list : j \in failed \/ NoRow(list[j])}
        /\ UNCHANGED <<list, first, rows, cut>>
    BY <1>2 DEF SendUnreceived, store
  <2>2. i \in DOMAIN list /\ list[i] \in Matches
    BY <2>1, SamePosition
  <2>3. ~NoRow(list[i])
    BY <2>1, <2>2
  <2>4. Whole(list[i]) \/ list[i] \in cut
    BY <2>1, <2>2, <2>3 DEF StoreInv
  <2> QED
    BY <2>1, <2>3, <2>4 DEF Received, Whole, NoRow
<1>3. CASE ReceiveList \/ Disconnect \/ Restart
  <2>1. answered' = FALSE
    BY <1>3 DEF ReceiveList, Disconnect, Restart
  <2> QED
    BY <2>1
<1>4. \/ UNCHANGED <<list, first, answered, answer>> \/ ReceiveList \/ Disconnect \/ Restart
      \/ \E failed \in SUBSET DOMAIN list : SendUnreceived(failed)
  BY DEF Next, Sync, Match, Scout, ReceiveMatch, StorePoint, vars, tablet, conn, store
<1> QED
  BY <1>1, <1>2, <1>3, <1>4

\* Without a fault the positions of the answer are those of the tablet's list.
LEMMA ResendStep ==
  ListType /\ StoreType /\ PositionInv /\ StoreInv /\ ResendInv /\ [Next]_vars => ResendInv'
<1> SUFFICES ASSUME ListType, StoreType, PositionInv, StoreInv, ResendInv, [Next]_vars, faults' = {},
                    NEW n \in toResend'
             PROVE  NoRow(n)' /\ ~(pc' = "store" /\ match' = n)
  BY DEF ResendInv
<1>0. faults = {}
  BY OnlyMore
<1>1. CASE UNCHANGED <<toResend, pc, match, rows>>
  BY <1>0, <1>1 DEF ResendInv, NoRow
<1>2. ASSUME NEW failed \in SUBSET DOMAIN list, SendUnreceived(failed)
      PROVE  NoRow(n)' /\ ~(pc' = "store" /\ match' = n)
  <2>1. /\ pc = "idle" /\ pc' = pc /\ rows' = rows
        /\ answer' = {j \in DOMAIN list : j \in failed \/ NoRow(list[j])}
        /\ toResend' = {sentList[i] : i \in answer' \cap DOMAIN sentList}
    BY <1>2 DEF SendUnreceived, store
  <2>2. failed = {} /\ ~(Len(list) > first)
    BY <1>2 DEF SendUnreceived
  <2>3. PICK i \in answer' : n = sentList[i]
    BY <2>1
  <2>4. i \in DOMAIN list /\ NoRow(list[i])
    BY <2>1, <2>2, <2>3
  <2>5. i \in 1 .. first
    BY <2>2, <2>4 DEF ListType
  <2>6. sentList[i] = list[i]
    BY <2>5, SamePosition
  <2> QED
    BY <2>1, <2>3, <2>4, <2>6 DEF NoRow
<1>3. ASSUME NEW m \in Matches, NEW parsed \in 0 .. PointCount, ReceiveMatch(m, parsed)
      PROVE  NoRow(n)' /\ ~(pc' = "store" /\ match' = n)
  <2>1. toResend' = toResend \ {m} /\ match' = m /\ rows' = rows
    BY <1>3 DEF ReceiveMatch
  <2>2. n \in toResend /\ n # m
    BY <2>1
  <2> QED
    BY <1>0, <2>1, <2>2 DEF ResendInv, NoRow
<1>4. ASSUME NEW ok \in BOOLEAN, StorePoint(ok) PROVE NoRow(n)' /\ ~(pc' = "store" /\ match' = n)
  <2>1. /\ pc = "store" /\ toResend' = toResend /\ match' = match
        /\ rows' \subseteq rows \cup {<<match, at>>}
    BY <1>4 DEF StorePoint, conn
  <2>2. NoRow(n) /\ match # n
    BY <1>0, <2>1 DEF ResendInv
  <2> QED
    BY <2>1, <2>2 DEF NoRow
<1>5. CASE ReceiveList \/ Disconnect \/ Restart
  <2>1. toResend' = {}
    BY <1>5 DEF ReceiveList, Disconnect, Restart
  <2> QED
    BY <2>1
<1>6. \/ UNCHANGED <<toResend, pc, match, rows>> \/ ReceiveList \/ Disconnect \/ Restart
      \/ \E failed \in SUBSET DOMAIN list : SendUnreceived(failed)
      \/ \E m \in Matches, parsed \in 0 .. PointCount : ReceiveMatch(m, parsed)
      \/ \E ok \in BOOLEAN : StorePoint(ok)
  BY DEF Next, Sync, Match, Scout, vars, conn, store
<1> QED
  BY <1>1, <1>2, <1>3, <1>4, <1>5, <1>6

\* A match received has no row: it was never sent, or it was asked for.
LEMMA OnceStep ==
  StoreType /\ StoreInv /\ ResendInv /\ NothingStoredTwice /\ [Next]_vars => NothingStoredTwice'
<1> SUFFICES ASSUME StoreType, StoreInv, ResendInv, NothingStoredTwice, [Next]_vars, faults' = {}
             PROVE  ~again'
  BY DEF NothingStoredTwice
<1>0. faults = {}
  BY OnlyMore
<1>1. ~again
  BY <1>0 DEF NothingStoredTwice
<1>2. ASSUME NEW m \in Matches, NEW parsed \in 0 .. PointCount, ReceiveMatch(m, parsed) PROVE ~again'
  <2>1. m \notin sent \/ m \in toResend
    BY <1>2 DEF ReceiveMatch
  <2>2. NoRow(m)
    BY <1>0, <2>1 DEF StoreInv, ResendInv
  <2>3. \A p \in 1 .. parsed : p \in Points
    BY PointsAssumption DEF Points
  <2>4. again' = (again \/ \E p \in 1 .. parsed : <<m, p>> \in rows)
    BY <1>2 DEF ReceiveMatch
  <2> QED
    BY <1>1, <2>2, <2>3, <2>4 DEF NoRow
<1>3. again' = again \/ \E m \in Matches, parsed \in 0 .. PointCount : ReceiveMatch(m, parsed)
  BY DEF Next, Sync, Match, Scout, ReceiveList, SendUnreceived, StorePoint, Disconnect, Restart, vars, store
<1> QED
  BY <1>1, <1>2, <1>3

-----------------------------------------------------------------------------
(* The theorems *)

\* Nothing is known and nothing stored at the start.
LEMMA Initially == Init => Inv
<1> SUFFICES ASSUME Init PROVE Inv
  OBVIOUS
<1>1. <<>> \in Seq(Matches) /\ Len(<<>>) = 0 /\ DOMAIN <<>> = {}
  OBVIOUS
<1>2. ListType
  BY <1>1, ListsAssumption DEF Init, ListType
<1>3. StoreType
  <2>1. /\ sent = {} /\ toResend = {} /\ rows = {} /\ cut = {} /\ faults = {}
        /\ pc = "idle" /\ match \in Matches /\ answered = FALSE /\ again = FALSE
    BY DEF Init
  <2>2. at = 1 /\ upto = 0
    BY DEF Init
  <2>3. at \in 1 .. PointCount + 1 /\ upto \in 0 .. PointCount
    BY <2>2, PointsAssumption
  <2> QED
    BY <2>1, <2>3 DEF StoreType
<1>4. PositionInv
  BY <1>1 DEF Init, PositionInv, Oldest
<1>5. StoreInv
  <2>1. pc = "idle" /\ rows = {}
    BY DEF Init
  <2> QED
    BY <2>1 DEF StoreInv, NoRow
<1>6. AnswerInv /\ ResendInv /\ NothingStoredTwice
  BY DEF Init, AnswerInv, ResendInv, NothingStoredTwice
<1> QED
  BY <1>2, <1>3, <1>4, <1>5, <1>6 DEF Inv

\* Inv is inductive, and holds of every execution.
THEOREM Invariance == Spec => []Inv
<1>1. Inv /\ [Next]_vars => Inv'
  BY ListTypeStep, StoreTypeStep, PositionStep, StoreStep, AnswerStep, ResendStep, OnceStep DEF Inv
<1> QED
  BY Initially, <1>1, PTL DEF Spec

\* Every variable keeps to its type: an insert loop stays within its match.
THEOREM TypeCorrect == Spec => []TypeOK
<1>1. Inv => TypeOK
  BY DEF Inv, ListType, StoreType, TypeOK
<1> QED
  BY <1>1, Invariance, PTL

\* The answer hides no match that is missing, within the first list of a connection,
\* unless a store of it was cut short; of later lists nothing is said.
THEOREM NothingHidden == Spec => []NotAskedIsReceived
<1>1. Inv => NotAskedIsReceived
  <2> SUFFICES ASSUME Inv, answered, NEW i \in 1 .. first, i \notin answer
               PROVE  Whole(sentList[i]) \/ (~NoRow(sentList[i]) /\ sentList[i] \in cut)
    BY DEF NotAskedIsReceived
  <2>1. Received(list[i])
    BY DEF Inv, AnswerInv
  <2>2. list[i] = sentList[i]
    BY SamePosition DEF Inv
  <2> QED
    BY <2>1, <2>2 DEF Received
<1> QED
  BY <1>1, Invariance, PTL

\* However often the tablet lists and resends, no point is stored twice.
THEOREM StoredOnce == Spec => []NothingStoredTwice
<1>1. Inv => NothingStoredTwice
  BY DEF Inv
<1> QED
  BY <1>1, Invariance, PTL

\* What MatchUpload has left to insert.
ToInsert == IF pc = "store" THEN {match} \X (at .. upto) ELSE {}
Faulty   == IF again THEN {"received again"} ELSE {}

\* Every step of the exchange is a step MatchUpload allows on the table, or none.
LEMMA UploadStep == StoreType /\ [Next]_vars => [Upload!Next]_(Upload!vars)
<1> SUFFICES ASSUME StoreType, [Next]_vars PROVE [Upload!Next]_(Upload!vars)
  OBVIOUS
<1>1. CASE UNCHANGED store
  BY <1>1 DEF store, Upload!vars
<1>2. ASSUME NEW m \in Matches, NEW parsed \in 0 .. PointCount, ReceiveMatch(m, parsed)
      PROVE  [Upload!Next]_(Upload!vars)
  <2>1. /\ pc = "idle" /\ pc' = (IF parsed = 0 THEN "idle" ELSE "store")
        /\ match' = m /\ at' = 1 /\ upto' = parsed /\ rows' = rows
    BY <1>2 DEF ReceiveMatch
  <2>2. again' = (again \/ \E p \in 1 .. parsed : <<m, p>> \in rows)
    BY <1>2 DEF ReceiveMatch
  <2>3. CASE parsed = 0
    <3>1. pc' = "idle" /\ 1 .. parsed = {}
      BY <2>1, <2>3
    <3>2. again' = again
      BY <2>2, <3>1 DEF StoreType
    <3> QED
      BY <2>1, <3>1, <3>2 DEF Upload!vars
  <2>4. CASE parsed # 0
    <3> DEFINE points == {m} \X (1 .. parsed)
    <3>1. parsed \in 1 .. PointCount
      BY <2>4, PointsAssumption
    <3>2. points \in {{n} \X (1 .. k) : n \in Matches, k \in 1 .. PointCount}
      BY <3>1
    <3>3. pc = "idle" /\ pc' = "store" /\ ToInsert' = points /\ rows' = rows
      BY <2>1, <2>4 DEF ToInsert
    <3>4. (\E p \in 1 .. parsed : <<m, p>> \in rows) <=> points \cap rows # {}
      <4>1. ASSUME NEW p \in 1 .. parsed, <<m, p>> \in rows PROVE points \cap rows # {}
        <5>1. <<m, p>> \in points
          OBVIOUS
        <5> QED
          BY <4>1, <5>1
      <4>2. ASSUME NEW q \in points \cap rows PROVE \E p \in 1 .. parsed : <<m, p>> \in rows
        <5>1. q = <<m, q[2]>> /\ q[2] \in 1 .. parsed /\ q \in rows
          OBVIOUS
        <5> QED
          BY <5>1
      <4> QED
        BY <4>1, <4>2
    <3>5. Faulty' = IF points \cap rows # {} THEN Faulty \cup {"received again"} ELSE Faulty
      BY <2>2, <3>4 DEF Faulty
    <3>6. Upload!ReceiveMatch(points)
      BY <3>3, <3>5 DEF Upload!ReceiveMatch, Upload!Blame, ToInsert, Faulty
    <3>7. Upload!Store
      BY <3>2, <3>6 DEF Upload!Store
    <3> QED
      BY <3>7 DEF Upload!Next
  <2> QED
    BY <2>3, <2>4
<1>3. ASSUME NEW ok \in BOOLEAN, StorePoint(ok) PROVE [Upload!Next]_(Upload!vars)
  <2> DEFINE p == <<match, at>>
  <2>1. /\ pc = "store" /\ pc' = (IF at = upto THEN "idle" ELSE "store") /\ at' = at + 1
        /\ UNCHANGED <<match, upto, again>>
        /\ rows' = IF ok THEN rows \cup {p} ELSE rows
    BY <1>3 DEF StorePoint
  <2>2. at \in 1 .. PointCount + 1 /\ upto \in 0 .. PointCount /\ at <= upto /\ match \in Matches
    BY <2>1 DEF StoreType
  <2>3. at \in at .. upto /\ (at + 1) .. upto = (at .. upto) \ {at} /\ (at = upto <=> at .. upto = {at})
    BY <2>2
  <2>4. p \in ToInsert /\ p \in Matches \X Points
    <3>1. ToInsert = {match} \X (at .. upto)
      BY <2>1 DEF ToInsert
    <3>0. at \in 1 .. PointCount
      BY <2>2, PointsAssumption
    <3>2. p \in {match} \X (at .. upto)
      BY <2>3
    <3>3. p \in Matches \X (1 .. PointCount)
      BY <2>2, <3>0
    <3> QED
      BY <3>1, <3>2, <3>3 DEF Points
  <2>5. ToInsert' = ToInsert \ {p}
    <3>1. CASE at = upto
      BY <2>1, <2>3, <3>1 DEF ToInsert
    <3>2. CASE at # upto
      BY <2>1, <2>3, <3>2 DEF ToInsert
    <3> QED
      BY <3>1, <3>2
  <2>6. pc' = IF ToInsert = {p} THEN "idle" ELSE "store"
    <3>1. ToInsert = {match} \X (at .. upto)
      BY <2>1 DEF ToInsert
    <3>2. ASSUME at .. upto = {at} PROVE ToInsert = {p}
      BY <3>1, <3>2
    <3>3. ASSUME ToInsert = {p}, NEW k \in at .. upto PROVE k = at
      <4>1. <<match, k>> \in ToInsert
        BY <3>1
      <4> QED
        BY <3>3, <4>1
    <3>4. ToInsert = {p} <=> at .. upto = {at}
      BY <2>3, <3>2, <3>3
    <3> QED
      BY <2>1, <2>3, <3>4
  <2>7. (rows \X {0})' = IF ok THEN (rows \X {0}) \cup {<<p, 0>>} ELSE rows \X {0}
    BY <2>1
  <2>8. Upload!StorePoint(p, ok)
    BY <2>1, <2>4, <2>5, <2>6, <2>7 DEF Upload!StorePoint, Upload!Unassigned, ToInsert
  <2>9. Upload!Store
    BY <2>4, <2>8 DEF Upload!Store
  <2> QED
    BY <2>9 DEF Upload!Next
<1>4. CASE Restart
  <2>1. pc = "store" /\ pc' = "idle" /\ UNCHANGED <<rows, again>>
    BY <1>4 DEF Restart
  <2>2. Upload!Blame("died copying", pc \in {"insert", "delete"})
    BY <2>1 DEF Upload!Blame
  <2>3. Upload!Restart
    BY <2>1, <2>2 DEF Upload!Restart, Upload!Return, Upload!Unassigned
  <2> QED
    BY <2>3 DEF Upload!Next
<1>5. \/ UNCHANGED store \/ Restart
      \/ \E m \in Matches, parsed \in 0 .. PointCount : ReceiveMatch(m, parsed)
      \/ \E ok \in BOOLEAN : StorePoint(ok)
  BY DEF Next, Sync, Match, Scout, ReceiveList, SendUnreceived, Disconnect, vars
<1> QED
  BY <1>2, <1>3, <1>1, <1>4, <1>5

\* The exchange implements what MatchUpload assumes of the tablets.
THEOREM SyncImplementsUpload == Spec => TableOfMatchUpload
<1>1. Init => Upload!Init
  BY DEF Init, Upload!Init, Upload!Unassigned
<1>2. Inv => StoreType
  BY DEF Inv
<1> QED
  BY <1>1, <1>2, UploadStep, Invariance, PTL DEF Spec, TableOfMatchUpload, Upload!Spec
=============================================================================
