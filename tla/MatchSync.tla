------------------------------ MODULE MatchSync ------------------------------
(***************************************************************************)
(* How a tablet and the computer agree on what is still missing.  The       *)
(* tablet sends the list of its matches (TRANS_RECV_TAB_MATCH_LIST,         *)
(* bluetoothConductor.hpp 191-208), asks which of them the computer has     *)
(* not received (TRANS_SEND_TAB_UNRECVD_MATCHES, 75-102) and sends those    *)
(* again (TRANS_RECV_MATCH, 168-182; DatabaseMan.hpp 44-53).  The answer    *)
(* gives positions in the list the computer keeps for the connection.  The  *)
(* handlers run on the GUI thread; the tablet is external.                  *)
(***************************************************************************)
EXTENDS Integers, Sequences

CONSTANTS Matches,       \* matches the tablet scouts
          PointCount,    \* data points of a match
          MaxLists       \* bound: lists sent in one connection

ASSUME PointsAssumption == PointCount \in Nat \ {0}
ASSUME ListsAssumption == MaxLists \in Nat

VARIABLES scouted,    \* external: the tablet's matches, the oldest first
          sent,       \* external: matches it has sent once
          sentList,   \* external: the list it sent last in this connection
          toResend,   \* external: matches it was asked for
          list,       \* tabletMatches of the connection
          first,      \* length of the first list of the connection
          lists,      \* how many there were
          answered,   \* the tablet has asked since its last list
          answer,     \* the positions it was told then
          pc,         \* "idle" or "store"
          match,      \* the match being stored
          at, upto,   \* the point to insert next, and the last one parsed
          rows,       \* external: rows of matchtransaction, <<match, point>>
          again,      \* a point was received that had a row
          cut,        \* matches stored in part
          faults      \* what has gone wrong so far

tablet == <<scouted, sent>>
conn   == <<sentList, toResend, list, first, lists, answered, answer>>
store  == <<pc, match, at, upto, rows, again, cut>>
vars   == <<tablet, conn, store, faults>>

Points == 1 .. PointCount
NoRow(m) == \A p \in Points : <<m, p>> \notin rows
Whole(m) == \A p \in Points : <<m, p>> \in rows

Init ==
  /\ scouted = <<>> /\ sent = {}
  /\ sentList = <<>> /\ toResend = {} /\ list = <<>> /\ first = 0 /\ lists = 0
  /\ answered = FALSE /\ answer = {}
  /\ pc = "idle" /\ match \in Matches /\ at = 1 /\ upto = 0
  /\ rows = {} /\ again = FALSE /\ cut = {} /\ faults = {}

Blame(f, happened) == faults' = IF happened THEN faults \cup {f} ELSE faults

-----------------------------------------------------------------------------
(* The tablet *)

Scout(m) ==
  /\ \A i \in DOMAIN scouted : scouted[i] # m
  /\ scouted' = Append(scouted, m)
  /\ UNCHANGED <<sent, conn, store, faults>>

\* A new connection has a new BtTabObj with an empty list.
Disconnect ==
  /\ pc = "idle" /\ lists > 0
  /\ sentList' = <<>> /\ toResend' = {} /\ list' = <<>> /\ first' = 0 /\ lists' = 0
  /\ answered' = FALSE /\ answer' = {}
  /\ UNCHANGED <<tablet, store, faults>>

-----------------------------------------------------------------------------
(* The handlers *)

\* The lines of a list are appended to what the connection has already.
ReceiveList ==
  /\ pc = "idle" /\ scouted # <<>> /\ lists < MaxLists
  /\ list' = list \o scouted /\ sentList' = scouted
  /\ first' = IF lists = 0 THEN Len(scouted) ELSE first
  /\ lists' = lists + 1 /\ toResend' = {} /\ answered' = FALSE /\ answer' = {}
  /\ UNCHANGED <<tablet, store, faults>>

\* One SELECT per entry of the list; one that fails looks like no rows.  The
\* tablet looks the positions up in the list it sent last.
SendIncomplete(failed) ==
  /\ pc = "idle"
  /\ answer' = {i \in DOMAIN list : i \in failed \/ ~Whole(list[i])} /\ answered' = TRUE
  /\ toResend' = {sentList[i] : i \in answer' \cap DOMAIN sentList}
  /\ faults' = faults \cup (IF failed # {} THEN {"select failed"} ELSE {})
                      \cup (IF Len(list) > first THEN {"second list"} ELSE {})
  /\ UNCHANGED <<sentList, list, first, lists, tablet, store>>
SendFromZero(failed) ==
  /\ pc = "idle"
  /\ answer' = {i \in DOMAIN list : i - 1 \in failed \/ (i > 1 /\ NoRow(list[i - 1]))} /\ answered' = TRUE
  /\ toResend' = {sentList[i] : i \in answer' \cap DOMAIN sentList}
  /\ faults' = faults \cup (IF failed # {} THEN {"select failed"} ELSE {})
                      \cup (IF Len(list) > first THEN {"second list"} ELSE {})
  /\ UNCHANGED <<sentList, list, first, lists, tablet, store>>
SendUnreceived(failed) ==
  /\ pc = "idle"
  /\ answer' = {i \in DOMAIN list : i \in failed \/ NoRow(list[i])} /\ answered' = TRUE
  /\ toResend' = {sentList[i] : i \in answer' \cap DOMAIN sentList}
  /\ faults' = faults \cup (IF failed # {} THEN {"select failed"} ELSE {})
                      \cup (IF Len(list) > first THEN {"second list"} ELSE {})
  /\ UNCHANGED <<sentList, list, first, lists, tablet, store>>

\* A match the tablet sends by itself once, or was asked for.  parseMatch
\* keeps the points before the first malformed one, none if it is no JSON.
ReceiveMatch(m, parsed) ==
  /\ pc = "idle"
  /\ \E i \in DOMAIN scouted : scouted[i] = m
  /\ m \notin sent \/ m \in toResend
  /\ sent' = sent \cup {m} /\ toResend' = toResend \ {m}
  /\ parsed \in 0 .. PointCount
  /\ match' = m /\ at' = 1 /\ upto' = parsed
  /\ pc' = IF parsed = 0 THEN "idle" ELSE "store"
  /\ again' = (again \/ \E p \in 1 .. parsed : <<m, p>> \in rows)
  /\ cut' = IF parsed \in 1 .. PointCount - 1 THEN cut \cup {m} ELSE cut
  /\ UNCHANGED <<scouted, sentList, list, first, lists, answered, answer, rows, faults>>

\* One INSERT of addMatchDatapoints.
StorePointPastEnd(ok) ==
  /\ pc = "store"
  /\ rows' = IF ok THEN rows \cup {<<match, at>>} ELSE rows
  /\ cut' = IF ok THEN cut ELSE cut \cup {match}
  /\ at' = at + 1 /\ pc' = IF at > upto THEN "idle" ELSE "store"
  /\ UNCHANGED <<tablet, conn, match, upto, again, faults>>
StorePoint(ok) ==
  /\ pc = "store"
  /\ rows' = IF ok THEN rows \cup {<<match, at>>} ELSE rows
  /\ cut' = IF ok THEN cut ELSE cut \cup {match}
  /\ at' = at + 1 /\ pc' = IF at = upto THEN "idle" ELSE "store"
  /\ UNCHANGED <<tablet, conn, match, upto, again, faults>>

\* The program ends while it stores a match, and is started again.
Restart ==
  /\ pc = "store" /\ pc' = "idle" /\ cut' = cut \cup {match}
  /\ sentList' = <<>> /\ toResend' = {} /\ list' = <<>> /\ first' = 0 /\ lists' = 0
  /\ answered' = FALSE /\ answer' = {}
  /\ UNCHANGED <<tablet, match, at, upto, rows, again, faults>>

-----------------------------------------------------------------------------
Sync  == ReceiveList \/ \E failed \in SUBSET DOMAIN list : SendUnreceived(failed)
Match == \/ \E m \in Matches, parsed \in 0 .. PointCount : ReceiveMatch(m, parsed)
         \/ \E ok \in BOOLEAN : StorePoint(ok)

Next == (\E m \in Matches : Scout(m)) \/ Sync \/ Match \/ Disconnect \/ Restart
Spec == Init /\ [][Next]_vars

-----------------------------------------------------------------------------
(* Properties *)

TypeOK ==
  /\ scouted \in Seq(Matches) /\ sent \subseteq Matches
  /\ sentList \in Seq(Matches) /\ toResend \subseteq Matches
  /\ list \in Seq(Matches) /\ first \in 0 .. Len(list) /\ lists \in 0 .. MaxLists
  /\ answered \in BOOLEAN /\ answer \subseteq DOMAIN list
  /\ pc \in {"idle", "store"} /\ match \in Matches
  /\ upto \in 0 .. PointCount /\ at \in 1 .. PointCount + 1 /\ (pc = "store" => at <= upto)
  /\ rows \subseteq Matches \X Points /\ again \in BOOLEAN /\ cut \subseteq Matches
  /\ faults \subseteq {"select failed", "second list"}

\* A match the tablet is not asked for has been received, in whole, or a store
\* of it was cut short: then it is never asked for again.  Behind the length of
\* the first list of the connection the answer promises nothing.
NotAskedIsReceived ==
  answered => \A i \in 1 .. first :
    i \notin answer => Whole(sentList[i]) \/ (~NoRow(sentList[i]) /\ sentList[i] \in cut)

\* No point is stored twice, however often lists and matches are sent, unless a
\* SELECT failed or an answer was read with the positions of a second list.
NothingStoredTwice == again => faults # {}

\* What the exchange does to the table is what MatchUpload takes a tablet to do:
\* points of one match, each inserted once or not, in a handler that may die.
Upload == INSTANCE MatchUpload WITH
  Points <- Matches \X Points, Matches <- {{m} \X (1 .. n) : m \in Matches, n \in 1 .. PointCount},
  MaxUploads <- 0, todo <- IF pc = "store" THEN {match} \X (at .. upto) ELSE {},
  resp <- {}, batch <- 0, db <- rows \X {0}, next <- 1, backend <- {}, stored <- rows,
  faults <- IF again THEN {"received again"} ELSE {}
TableOfMatchUpload == Upload!Spec
=============================================================================
