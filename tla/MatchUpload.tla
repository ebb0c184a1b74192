----------------------------- MODULE MatchUpload -----------------------------
(***************************************************************************)
(* Table matchtransaction between the tablets and the backend: the inserts  *)
(* of a received match (DatabaseMan.hpp, addMatchDatapoints) and the upload *)
(* button (main.cpp 278-322) with the two requests it makes                 *)
(* (restReqHandler.hpp).  Both run on the GUI thread, so they never         *)
(* interleave; but every SQL statement is its own transaction, a failed one *)
(* returns an empty result nobody looks at, and the program may die between *)
(* any two of them.                                                         *)
(***************************************************************************)
EXTENDS Integers, FiniteSets

CONSTANTS Points,      \* data points scouted
          Matches,     \* the sets of points tablets send as a match
          MaxUploads   \* bound: upload numbers the backend hands out

ASSUME MatchesAssumption == Matches \subseteq (SUBSET Points) \ {{}}
ASSUME UploadsAssumption == MaxUploads \in Nat

VARIABLES pc,       \* "idle" or the statement the handler is at
          todo,     \* points still to insert or to copy
          resp,     \* dbResp: the points of the batch
          batch,    \* the batch's number
          db,       \* external: rows of matchtransaction, <<point, UploadID>>
          next,     \* external: the backend's next number (it hands none out twice)
          backend,  \* external: rows the backend has stored
          stored,   \* points that ever were in the table
          faults    \* what has gone wrong so far

vars == <<pc, todo, resp, batch, db, next, backend, stored, faults>>

Unassigned == 0                  \* UploadID of a row not uploaded yet
Garbage == MaxUploads + 1        \* a reply that is no number
OtherZero == MaxUploads + 2      \* "00": zero to SQL, but not the text "0"
Numbers == 1 .. MaxUploads
Labels  == Numbers \cup {Unassigned}
Texts   == Labels \cup {OtherZero}     \* what the text box may hold
Labelled(n) == {p \in Points : <<p, n>> \in db}
Selected(b) == Labelled(IF b = OtherZero THEN Unassigned ELSE b)

Init ==
  /\ pc = "idle" /\ todo = {} /\ resp = {} /\ batch = Unassigned
  /\ db = {} /\ next = 1 /\ backend = {} /\ stored = {} /\ faults = {}

\* The handler's locals go out of scope.
Return == pc' = "idle" /\ todo' = {} /\ resp' = {} /\ batch' = Unassigned
Blame(f, happened) == faults' = IF happened THEN faults \cup {f} ELSE faults

-----------------------------------------------------------------------------
(* addMatchDatapoints: one INSERT per point of the match, UploadID 0 *)

ReceiveMatch(m) ==
  /\ pc = "idle"
  /\ pc' = "store" /\ todo' = m
  /\ Blame("received again", m \cap stored # {})
  /\ UNCHANGED <<resp, batch, db, next, backend, stored>>

StorePoint(p, ok) ==
  /\ pc = "store" /\ p \in todo
  /\ todo' = todo \ {p}
  /\ pc' = IF todo = {p} THEN "idle" ELSE "store"
  /\ IF ok THEN db' = db \cup {<<p, Unassigned>>} /\ stored' = stored \cup {p}
           ELSE UNCHANGED <<db, stored>>
  /\ UNCHANGED <<resp, batch, next, backend, faults>>

-----------------------------------------------------------------------------
(* The upload button *)

\* select * from matchtransaction where UploadID = batch; a query that fails
\* returns the rows it had got.  Only an empty box or the text "0" asks for a number; any
\* other zero selects the same rows and sends them as they are.
PressAppendsNewRows(b, got) ==
  /\ pc = "idle" /\ b \in Texts
  /\ batch' = b /\ got = Selected(b) /\ resp' = got \cup Labelled(Unassigned)
  /\ todo' = Labelled(Unassigned)
  /\ pc' = IF b = Unassigned THEN "number" ELSE "insert"
  /\ UNCHANGED <<db, next, backend, stored, faults>>
Press(b, got) ==
  /\ pc = "idle" /\ b \in Texts
  /\ batch' = b
  /\ got \subseteq Selected(b) /\ resp' = got
  /\ Blame("select cut short", got \notin {{}, Selected(b)})
  /\ pc' = IF b = Unassigned THEN "number" ELSE "headers"
  /\ UNCHANGED <<todo, db, next, backend, stored>>

\* requests/getNextUploadID.php: nothing, a number, or some other text.
NoNumber ==
  /\ pc = "number" /\ Return
  /\ UNCHANGED <<db, next, backend, stored, faults>>

AssignThenAlwaysDelete(n) ==
  /\ pc = "number" /\ next <= MaxUploads /\ n \in {next, Garbage}
  /\ next' = IF n = next THEN next + 1 ELSE next
  /\ batch' = n /\ todo' = resp
  /\ pc' = IF resp = {} THEN "delete" ELSE "insert"
  /\ UNCHANGED <<resp, db, backend, stored, faults>>
AssignThenSend(n) ==
  /\ pc = "number" /\ next <= MaxUploads /\ n \in {next, Garbage}
  /\ next' = IF n = next THEN next + 1 ELSE next
  /\ batch' = n /\ pc' = "headers"
  /\ UNCHANGED <<todo, resp, db, backend, stored, faults>>
AssignNumber(n) ==
  /\ pc = "number" /\ next <= MaxUploads
  /\ n \in {next, Garbage}
  /\ next' = IF n = next THEN next + 1 ELSE next
  /\ batch' = n /\ todo' = resp
  /\ pc' = IF resp = {} THEN "headers" ELSE "insert"
  /\ UNCHANGED <<resp, db, backend, stored, faults>>

\* The loop over dbResp: INSERT the row under its number ...
InsertRowAsText(p, ok) ==
  /\ pc = "insert" /\ p \in todo
  /\ todo' = todo \ {p}
  /\ db' = IF ok THEN db \cup {<<p, batch>>} ELSE db
  /\ Blame("insert failed", ~ok)
  /\ pc' = "delete"
  /\ UNCHANGED <<resp, batch, next, backend, stored>>
InsertRow(p, ok) ==
  /\ pc = "insert" /\ p \in todo
  /\ ok => batch # Garbage           \* no SQL number
  /\ todo' = todo \ {p}
  /\ db' = IF ok THEN db \cup {<<p, batch>>} ELSE db
  /\ Blame("insert failed", ~ok)
  /\ pc' = "delete"
  /\ UNCHANGED <<resp, batch, next, backend, stored>>

\* ... then DELETE all rows without one: those still to be inserted live in
\* dbResp only.
NeverDelete(ok) ==
  /\ pc = "delete" /\ ok
  /\ pc' = IF todo = {} THEN "headers" ELSE "insert"
  /\ UNCHANGED <<todo, resp, batch, db, next, backend, stored, faults>>
DeleteUnassigned(ok) ==
  /\ pc = "delete"
  /\ db' = IF ok THEN {r \in db : r[2] # Unassigned} ELSE db
  /\ Blame("last delete failed", ~ok /\ todo = {})
  /\ pc' = IF todo = {} THEN "headers" ELSE "insert"
  /\ UNCHANGED <<todo, resp, batch, next, backend, stored>>

\* getHeaders; columnNames.at() on the empty list of a failed query ends the
\* program.
GetHeaders(ok) ==
  /\ pc = "headers"
  /\ IF ok \/ resp = {} THEN pc' = "post" /\ UNCHANGED <<todo, resp, batch>> ELSE Return
  /\ UNCHANGED <<db, next, backend, stored, faults>>

\* requests/uploadMatchData.php, the reply is only logged; the backend stores
\* all of it or nothing.
Post(arrives) ==
  /\ pc = "post" /\ Return
  /\ backend' = IF arrives THEN backend \cup (resp \X {batch}) ELSE backend
  /\ UNCHANGED <<db, next, stored, faults>>

\* The program dies and is started again: the table survives.
Restart ==
  /\ pc # "idle"
  /\ Return
  /\ Blame("died copying", pc \in {"insert", "delete"})
  /\ UNCHANGED <<db, next, backend, stored>>

-----------------------------------------------------------------------------
Store  == (\E m \in Matches : ReceiveMatch(m)) \/ (\E p \in Points, ok \in BOOLEAN : StorePoint(p, ok))
Select == \E b \in Texts, got \in SUBSET Points : Press(b, got)
Assign == NoNumber \/ \E n \in Numbers \cup {Garbage} : AssignNumber(n)
Copy   == \E ok \in BOOLEAN : DeleteUnassigned(ok) \/ \E p \in Points : InsertRow(p, ok)
Send   == \E ok \in BOOLEAN : GetHeaders(ok) \/ Post(ok)

Next == Store \/ Select \/ Assign \/ Copy \/ Send \/ Restart
Spec == Init /\ [][Next]_vars

-----------------------------------------------------------------------------
(* Properties *)

FaultKinds ==
  {"received again", "select cut short", "insert failed", "last delete failed", "died copying"}

TypeOK ==
  /\ pc \in {"idle", "store", "number", "insert", "delete", "headers", "post"}
  /\ todo \subseteq Points /\ resp \subseteq Points
  /\ batch \in Texts \cup {Garbage}
  /\ db \subseteq Points \X Labels
  /\ next \in 1 .. MaxUploads + 1
  /\ backend \subseteq Points \X (Texts \cup {Garbage})
  /\ stored \subseteq Points /\ faults \subseteq FaultKinds

\* Deleting all unassigned rows after the FIRST insert loses nothing while the
\* program lives, inserts succeed and no query ends half way: what is not in the
\* table is in dbResp, still to be inserted by this very loop.
NoPointLost ==
  faults \cap {"select cut short", "insert failed", "died copying"} = {} =>
    \A p \in stored : \/ \E n \in Labels : <<p, n>> \in db
                      \/ pc \in {"insert", "delete"} /\ p \in todo

\* A batch the backend holds can be sent again by its number: the table has
\* every one of its rows under that number, whatever died in between, unless an
\* insert failed.  What another spelling of zero sent has no number to be sent
\* again by.
SentIsKept ==
  "insert failed" \notin faults =>
    \A r \in backend : r[1] \in Points /\ (r \in db \/ r[2] = OtherZero)

\* A point reaches the backend under one number only: the copies leave no
\* unassigned row behind that a later batch would pick up again.  Rows sent by
\* another spelling of zero stay unassigned, and are the one exception.
OneNumberPerPoint ==
  faults \subseteq {"insert failed", "select cut short"} =>
    \A r, s \in backend : r[1] = s[1] => r[2] = s[2] \/ OtherZero \in {r[2], s[2]}

\* Once the backend has a batch, its number labels the same rows for good: a
\* batch sent again is the batch that was sent before.
SentBatchIsFinal ==
  [][\A n \in Numbers : (\E r \in backend : r[2] = n) => Labelled(n)' = Labelled(n)]_vars
=============================================================================
