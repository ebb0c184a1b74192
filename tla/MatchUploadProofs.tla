-------------------------- MODULE MatchUploadProofs --------------------------
(* Proofs about MatchUpload, for any points, matches and upload numbers. *)
EXTENDS MatchUpload, TLAPS

-----------------------------------------------------------------------------
(* The inductive invariant, in parts *)

Copying == pc \in {"insert", "delete"}
Sending == pc \in {"headers", "post"}
InsertsFine == "insert failed" \notin faults
SelectsFine == "select cut short" \notin faults

\* What the query selected is everything the DELETE of the loop will remove.
SelectInv ==
  pc = "number" => /\ batch = Unassigned
                   /\ SelectsFine => resp = {} \/ Labelled(Unassigned) \subseteq resp

\* In the loop the rows done are in the table under the new number, the others
\* in todo; no row without a number is outside dbResp.
CopyInv ==
  Copying => /\ batch \in Numbers \cup {Garbage}
             /\ todo \subseteq resp
             /\ SelectsFine => Labelled(Unassigned) \subseteq resp
             /\ InsertsFine => \A p \in resp \ todo : <<p, batch>> \in db

\* What is about to be sent is in the table under the number it is sent with.
SendInv ==
  Sending => /\ batch # Unassigned
             /\ InsertsFine /\ batch # OtherZero => \A p \in resp : <<p, batch>> \in db

BackendInv == \A r \in backend : r[2] # Unassigned

\* Numbers in use have been given out, and the one being copied is new to the
\* backend.
FreshInv ==
  /\ \A r \in db : r[2] < next
  /\ \A r \in backend : r[2] \in Numbers => r[2] < next
  /\ Sending /\ batch \in Numbers /\ resp # {} => batch < next
  /\ Copying /\ batch \in Numbers => batch < next /\ \A r \in backend : r[2] # batch

IInv == TypeOK /\ SelectInv /\ CopyInv /\ SendInv /\ BackendInv /\ FreshInv
Inv  == IInv /\ NoPointLost /\ SentIsKept

-----------------------------------------------------------------------------
(* One lemma per part, one step per action *)

\* Every statement of the two handlers keeps the types.
LEMMA TypeStep == TypeOK /\ CopyInv /\ [Next]_vars => TypeOK'
<1> SUFFICES ASSUME TypeOK, CopyInv, [Next]_vars PROVE TypeOK'
  OBVIOUS
<1> USE UploadsAssumption, MatchesAssumption
<1>1. ASSUME NEW m \in Matches, ReceiveMatch(m) PROVE TypeOK'
  BY <1>1 DEF ReceiveMatch, TypeOK, FaultKinds, Blame
<1>2. ASSUME NEW p \in Points, NEW ok \in BOOLEAN, StorePoint(p, ok) PROVE TypeOK'
  <2>1. pc' \in {"idle", "store"} /\ todo' \subseteq Points /\ UNCHANGED <<resp, batch, next, backend, faults>>
    BY <1>2 DEF StorePoint, TypeOK
  <2>2. db' \subseteq Points \X Labels
    BY <1>2 DEF StorePoint, TypeOK, Labels
  <2>3. stored' \subseteq Points
    BY <1>2 DEF StorePoint, TypeOK
  <2> QED
    BY <2>1, <2>2, <2>3 DEF TypeOK
<1>3. ASSUME NEW b \in Texts, NEW got \in SUBSET Points, Press(b, got) PROVE TypeOK'
  BY <1>3 DEF Press, TypeOK, FaultKinds, Blame
<1>4. ASSUME NoNumber PROVE TypeOK'
  BY <1>4 DEF NoNumber, TypeOK, Texts, Labels, Return
<1>5. ASSUME NEW n \in Numbers \cup {Garbage}, AssignNumber(n) PROVE TypeOK'
  <2>1. next' \in 1 .. MaxUploads + 1
    <3>1. next \in 1 .. MaxUploads + 1 /\ next <= MaxUploads /\ next' \in {next, next + 1}
      BY <1>5 DEF AssignNumber, TypeOK
    <3> QED
      BY <3>1
  <2>2. batch' \in Texts \cup {Garbage}
    BY <1>5 DEF AssignNumber, Texts, Labels
  <2>3. pc' \in {"headers", "insert"} /\ todo' \subseteq Points /\ UNCHANGED <<resp, db, backend, stored, faults>>
    BY <1>5 DEF AssignNumber, TypeOK
  <2> QED
    BY <2>1, <2>2, <2>3 DEF TypeOK
<1>6. ASSUME NEW p \in Points, NEW ok \in BOOLEAN, InsertRow(p, ok) PROVE TypeOK'
  <2>1. db' \subseteq Points \X Labels
    <3>1. CASE ok
      <4>1. batch \in Labels
        BY <1>6, <3>1 DEF InsertRow, CopyInv, Copying, Labels
      <4>2. db' = db \cup {<<p, batch>>}
        BY <1>6, <3>1 DEF InsertRow
      <4>3. <<p, batch>> \in Points \X Labels
        BY <4>1
      <4>4. db \subseteq Points \X Labels
        BY DEF TypeOK
      <4> QED
        BY <4>2, <4>3, <4>4
    <3>2. CASE ~ok
      BY <1>6, <3>2 DEF InsertRow, TypeOK
    <3> QED
      BY <3>1, <3>2
  <2>2. faults' \subseteq FaultKinds
    BY <1>6 DEF InsertRow, TypeOK, Blame, FaultKinds
  <2>3. pc' = "delete" /\ todo' \subseteq Points /\ UNCHANGED <<resp, batch, next, backend, stored>>
    BY <1>6 DEF InsertRow, TypeOK
  <2> QED
    BY <2>1, <2>2, <2>3 DEF TypeOK
<1>7. ASSUME NEW ok \in BOOLEAN, DeleteUnassigned(ok) PROVE TypeOK'
  BY <1>7 DEF DeleteUnassigned, TypeOK, FaultKinds, Blame
<1>8. ASSUME NEW ok \in BOOLEAN, GetHeaders(ok) PROVE TypeOK'
  BY <1>8 DEF GetHeaders, TypeOK, Texts, Labels, Return
<1>9. ASSUME NEW ok \in BOOLEAN, Post(ok) PROVE TypeOK'
  BY <1>9 DEF Post, TypeOK, Texts, Labels, Return
<1>10. ASSUME Restart PROVE TypeOK'
  BY <1>10 DEF Restart, TypeOK, FaultKinds, Texts, Labels, Return, Blame
<1>11. CASE UNCHANGED vars
  BY <1>11 DEF vars, TypeOK
<1> QED
  BY <1>1, <1>2, <1>3, <1>4, <1>5, <1>6, <1>7, <1>8, <1>9, <1>10, <1>11 DEF Next, Store, Select, Assign, Copy, Send

\* The upload button has selected every unassigned row when it asks for a number.
LEMMA SelectStep == TypeOK /\ SelectInv /\ [Next]_vars => SelectInv'
<1> SUFFICES ASSUME TypeOK, SelectInv, [Next]_vars PROVE SelectInv'
  OBVIOUS
<1> USE UploadsAssumption
<1>1. ASSUME NEW m \in Matches, ReceiveMatch(m) PROVE SelectInv'
  BY <1>1 DEF ReceiveMatch, SelectInv
<1>2. ASSUME NEW p \in Points, NEW ok \in BOOLEAN, StorePoint(p, ok) PROVE SelectInv'
  BY <1>2 DEF StorePoint, SelectInv
<1>3. ASSUME NEW b \in Texts, NEW got \in SUBSET Points, Press(b, got) PROVE SelectInv'
  <2>1. batch' = b /\ resp' = got /\ pc' = (IF b = Unassigned THEN "number" ELSE "headers") /\ UNCHANGED db
    BY <1>3 DEF Press
  <2>2. SelectsFine' => resp' \in {{}, Selected(b)}
    BY <1>3 DEF Press, SelectsFine, Blame
  <2>3. b = Unassigned => Selected(b) = Labelled(Unassigned)
    BY DEF Selected, OtherZero, Unassigned
  <2> QED
    BY <2>1, <2>2, <2>3 DEF SelectInv, Labelled
<1>4. ASSUME NoNumber PROVE SelectInv'
  BY <1>4 DEF NoNumber, SelectInv, Return
<1>5. ASSUME NEW n \in Numbers \cup {Garbage}, AssignNumber(n) PROVE SelectInv'
  BY <1>5 DEF AssignNumber, SelectInv
<1>6. ASSUME NEW p \in Points, NEW ok \in BOOLEAN, InsertRow(p, ok) PROVE SelectInv'
  BY <1>6 DEF InsertRow, SelectInv
<1>7. ASSUME NEW ok \in BOOLEAN, DeleteUnassigned(ok) PROVE SelectInv'
  BY <1>7 DEF DeleteUnassigned, SelectInv
<1>8. ASSUME NEW ok \in BOOLEAN, GetHeaders(ok) PROVE SelectInv'
  BY <1>8 DEF GetHeaders, SelectInv, Return
<1>9. ASSUME NEW ok \in BOOLEAN, Post(ok) PROVE SelectInv'
  BY <1>9 DEF Post, SelectInv, Return
<1>10. ASSUME Restart PROVE SelectInv'
  BY <1>10 DEF Restart, SelectInv, Return
<1>11. CASE UNCHANGED vars
  BY <1>11 DEF vars, SelectInv, SelectsFine, Labelled
<1> QED
  BY <1>1, <1>2, <1>3, <1>4, <1>5, <1>6, <1>7, <1>8, <1>9, <1>10, <1>11 DEF Next, Store, Select, Assign, Copy, Send

\* The copying loop keeps every row it took from dbResp in todo or under the number.
LEMMA CopyStep == TypeOK /\ SelectInv /\ CopyInv /\ [Next]_vars => CopyInv'
<1> SUFFICES ASSUME TypeOK, SelectInv, CopyInv, [Next]_vars PROVE CopyInv'
  OBVIOUS
<1> USE UploadsAssumption
<1>1. ASSUME NEW m \in Matches, ReceiveMatch(m) PROVE CopyInv'
  BY <1>1 DEF ReceiveMatch, CopyInv, Copying
<1>2. ASSUME NEW p \in Points, NEW ok \in BOOLEAN, StorePoint(p, ok) PROVE CopyInv'
  BY <1>2 DEF StorePoint, CopyInv, Copying
<1>3. ASSUME NEW b \in Texts, NEW got \in SUBSET Points, Press(b, got) PROVE CopyInv'
  BY <1>3 DEF Press, CopyInv, Copying
<1>4. ASSUME NoNumber PROVE CopyInv'
  BY <1>4 DEF NoNumber, CopyInv, Copying, Return
<1>5. ASSUME NEW n \in Numbers \cup {Garbage}, AssignNumber(n) PROVE CopyInv'
  BY <1>5 DEF AssignNumber, SelectInv, CopyInv, Copying, SelectsFine, InsertsFine, Labelled
<1>6. ASSUME NEW p \in Points, NEW ok \in BOOLEAN, InsertRow(p, ok) PROVE CopyInv'
  BY <1>6 DEF InsertRow, CopyInv, Copying, InsertsFine, SelectsFine, Labelled, Blame
<1>7. ASSUME NEW ok \in BOOLEAN, DeleteUnassigned(ok) PROVE CopyInv'
  <2>1. /\ pc = "delete" /\ pc' = (IF todo = {} THEN "headers" ELSE "insert")
        /\ UNCHANGED <<todo, resp, batch, next, backend, stored>>
        /\ db' \subseteq db /\ \A r \in db : r[2] # Unassigned => r \in db'
    BY <1>7 DEF DeleteUnassigned
  <2>2. \A f \in {"select cut short", "insert failed", "died copying"} : f \in faults' <=> f \in faults
    BY <1>7 DEF DeleteUnassigned, Blame
  <2>3. batch # Unassigned
    BY <2>1 DEF CopyInv, Copying, Numbers, Unassigned, Garbage
  <2> QED
    BY <2>1, <2>2, <2>3 DEF CopyInv, Copying, InsertsFine, SelectsFine, Labelled
<1>8. ASSUME NEW ok \in BOOLEAN, GetHeaders(ok) PROVE CopyInv'
  BY <1>8 DEF GetHeaders, CopyInv, Copying, Return
<1>9. ASSUME NEW ok \in BOOLEAN, Post(ok) PROVE CopyInv'
  BY <1>9 DEF Post, CopyInv, Copying, Return
<1>10. ASSUME Restart PROVE CopyInv'
  BY <1>10 DEF Restart, CopyInv, Copying, Return
<1>11. CASE UNCHANGED vars
  BY <1>11 DEF vars, CopyInv, Copying, InsertsFine, SelectsFine, Labelled
<1> QED
  BY <1>1, <1>2, <1>3, <1>4, <1>5, <1>6, <1>7, <1>8, <1>9, <1>10, <1>11 DEF Next, Store, Select, Assign, Copy, Send

\* The loop ends with the whole batch labelled.
LEMMA SendStep == TypeOK /\ CopyInv /\ SendInv /\ [Next]_vars => SendInv'
<1> SUFFICES ASSUME TypeOK, CopyInv, SendInv, [Next]_vars PROVE SendInv'
  OBVIOUS
<1> USE UploadsAssumption
<1>1. ASSUME NEW m \in Matches, ReceiveMatch(m) PROVE SendInv'
  BY <1>1 DEF ReceiveMatch, SendInv, Sending
<1>2. ASSUME NEW p \in Points, NEW ok \in BOOLEAN, StorePoint(p, ok) PROVE SendInv'
  BY <1>2 DEF StorePoint, SendInv, Sending
<1>3. ASSUME NEW b \in Texts, NEW got \in SUBSET Points, Press(b, got) PROVE SendInv'
  BY <1>3 DEF Press, SendInv, Sending, Labelled, Selected
<1>4. ASSUME NoNumber PROVE SendInv'
  BY <1>4 DEF NoNumber, SendInv, Sending, Return
<1>5. ASSUME NEW n \in Numbers \cup {Garbage}, AssignNumber(n) PROVE SendInv'
  <2>1. batch' # Unassigned
    <3>1. batch' = n
      BY <1>5 DEF AssignNumber
    <3> QED
      BY <3>1 DEF Numbers, Unassigned, Garbage
  <2>2. pc' = "headers" => resp' = {}
    BY <1>5 DEF AssignNumber
  <2>3. pc' # "post"
    BY <1>5 DEF AssignNumber
  <2> QED
    BY <2>1, <2>2, <2>3 DEF SendInv, Sending
<1>6. ASSUME NEW p \in Points, NEW ok \in BOOLEAN, InsertRow(p, ok) PROVE SendInv'
  BY <1>6 DEF InsertRow, SendInv, Sending
<1>7. ASSUME NEW ok \in BOOLEAN, DeleteUnassigned(ok) PROVE SendInv'
  <2>1. /\ pc = "delete" /\ pc' = (IF todo = {} THEN "headers" ELSE "insert")
        /\ UNCHANGED <<todo, resp, batch, next, backend, stored>>
        /\ db' \subseteq db /\ \A r \in db : r[2] # Unassigned => r \in db'
    BY <1>7 DEF DeleteUnassigned
  <2>2. \A f \in {"select cut short", "insert failed", "died copying"} : f \in faults' <=> f \in faults
    BY <1>7 DEF DeleteUnassigned, Blame
  <2>3. batch # Unassigned
    BY <2>1 DEF CopyInv, Copying, Numbers, Unassigned, Garbage
  <2>4. InsertsFine => \A p \in resp \ todo : <<p, batch>> \in db'
    BY <2>1, <2>3 DEF CopyInv, Copying
  <2> QED
    BY <2>1, <2>2, <2>3, <2>4 DEF SendInv, Sending, InsertsFine
<1>8. ASSUME NEW ok \in BOOLEAN, GetHeaders(ok) PROVE SendInv'
  BY <1>8 DEF GetHeaders, SendInv, Sending, InsertsFine, Return
<1>9. ASSUME NEW ok \in BOOLEAN, Post(ok) PROVE SendInv'
  BY <1>9 DEF Post, SendInv, Sending, Return
<1>10. ASSUME Restart PROVE SendInv'
  BY <1>10 DEF Restart, SendInv, Sending, Return
<1>11. CASE UNCHANGED vars
  BY <1>11 DEF vars, SendInv, Sending, InsertsFine
<1> QED
  BY <1>1, <1>2, <1>3, <1>4, <1>5, <1>6, <1>7, <1>8, <1>9, <1>10, <1>11 DEF Next, Store, Select, Assign, Copy, Send

\* The upload posts no row without a number.
LEMMA BackendStep == TypeOK /\ SendInv /\ BackendInv /\ [Next]_vars => BackendInv'
<1> SUFFICES ASSUME TypeOK, SendInv, BackendInv, [Next]_vars PROVE BackendInv'
  OBVIOUS
<1> USE UploadsAssumption
<1>1. ASSUME NEW m \in Matches, ReceiveMatch(m) PROVE BackendInv'
  BY <1>1 DEF ReceiveMatch, BackendInv
<1>2. ASSUME NEW p \in Points, NEW ok \in BOOLEAN, StorePoint(p, ok) PROVE BackendInv'
  BY <1>2 DEF StorePoint, BackendInv
<1>3. ASSUME NEW b \in Texts, NEW got \in SUBSET Points, Press(b, got) PROVE BackendInv'
  BY <1>3 DEF Press, BackendInv
<1>4. ASSUME NoNumber PROVE BackendInv'
  BY <1>4 DEF NoNumber, BackendInv
<1>5. ASSUME NEW n \in Numbers \cup {Garbage}, AssignNumber(n) PROVE BackendInv'
  BY <1>5 DEF AssignNumber, BackendInv
<1>6. ASSUME NEW p \in Points, NEW ok \in BOOLEAN, InsertRow(p, ok) PROVE BackendInv'
  BY <1>6 DEF InsertRow, BackendInv
<1>7. ASSUME NEW ok \in BOOLEAN, DeleteUnassigned(ok) PROVE BackendInv'
  BY <1>7 DEF DeleteUnassigned, BackendInv
<1>8. ASSUME NEW ok \in BOOLEAN, GetHeaders(ok) PROVE BackendInv'
  BY <1>8 DEF GetHeaders, BackendInv
<1>9. ASSUME NEW ok \in BOOLEAN, Post(ok) PROVE BackendInv'
  BY <1>9 DEF Post, SendInv, Sending, BackendInv
<1>10. ASSUME Restart PROVE BackendInv'
  BY <1>10 DEF Restart, BackendInv
<1>11. CASE UNCHANGED vars
  BY <1>11 DEF vars, BackendInv
<1> QED
  BY <1>1, <1>2, <1>3, <1>4, <1>5, <1>6, <1>7, <1>8, <1>9, <1>10, <1>11 DEF Next, Store, Select, Assign, Copy, Send

\* Numbers of the backend are new: the loop writes under none the backend has.
LEMMA FreshStep == TypeOK /\ CopyInv /\ SendInv /\ FreshInv /\ [Next]_vars => FreshInv'
<1> SUFFICES ASSUME TypeOK, CopyInv, SendInv, FreshInv, [Next]_vars PROVE FreshInv'
  OBVIOUS
<1> USE UploadsAssumption
<1>1. ASSUME NEW m \in Matches, ReceiveMatch(m) PROVE FreshInv'
  BY <1>1 DEF ReceiveMatch, FreshInv, Copying, Sending
<1>2. ASSUME NEW p \in Points, NEW ok \in BOOLEAN, StorePoint(p, ok) PROVE FreshInv'
  BY <1>2 DEF StorePoint, TypeOK, FreshInv, Copying, Sending, Unassigned
<1>3. ASSUME NEW b \in Texts, NEW got \in SUBSET Points, Press(b, got) PROVE FreshInv'
  <2>1. /\ UNCHANGED <<db, next, backend>> /\ pc' \in {"number", "headers"}
        /\ batch' = b /\ resp' \subseteq Selected(b)
    BY <1>3 DEF Press
  <2>2. ASSUME b \in Numbers, NEW p \in Selected(b) PROVE b < next
    <3>1. b # OtherZero
      BY <2>2 DEF Numbers, OtherZero
    <3>2. <<p, b>> \in db
      BY <2>2, <3>1 DEF Selected, Labelled
    <3> QED
      BY <3>2 DEF FreshInv
  <2> QED
    BY <2>1, <2>2 DEF FreshInv, Copying, Sending
<1>4. ASSUME NoNumber PROVE FreshInv'
  BY <1>4 DEF NoNumber, FreshInv, Copying, Return
<1>5. ASSUME NEW n \in Numbers \cup {Garbage}, AssignNumber(n) PROVE FreshInv'
  BY <1>5 DEF AssignNumber, TypeOK, FreshInv, Labels, Numbers, Unassigned, Garbage
<1>6. ASSUME NEW p \in Points, NEW ok \in BOOLEAN, InsertRow(p, ok) PROVE FreshInv'
  <2>1. /\ pc = "insert" /\ pc' = "delete" /\ UNCHANGED <<resp, batch, next, backend>>
        /\ db' \subseteq db \cup {<<p, batch>>}
        /\ batch = Garbage => db' = db
    BY <1>6 DEF InsertRow
  <2>2. batch \in Numbers \cup {Garbage}
    BY <2>1 DEF CopyInv, Copying
  <2>3. batch \in Numbers => batch < next
    BY <2>1 DEF FreshInv, Copying
  <2>4. \A r \in db' : r[2] < next
    BY <2>1, <2>2, <2>3 DEF FreshInv
  <2> QED
    BY <2>1, <2>4 DEF FreshInv, Copying
<1>7. ASSUME NEW ok \in BOOLEAN, DeleteUnassigned(ok) PROVE FreshInv'
  BY <1>7 DEF DeleteUnassigned, FreshInv, Copying
<1>8. ASSUME NEW ok \in BOOLEAN, GetHeaders(ok) PROVE FreshInv'
  BY <1>8 DEF GetHeaders, FreshInv, Copying, Sending, Return
<1>9. ASSUME NEW ok \in BOOLEAN, Post(ok) PROVE FreshInv'
  BY <1>9 DEF Post, FreshInv, Copying, Sending, Return
<1>10. ASSUME Restart PROVE FreshInv'
  BY <1>10 DEF Restart, FreshInv, Copying, Return
<1>11. CASE UNCHANGED vars
  BY <1>11 DEF vars, FreshInv, Copying, Sending
<1> QED
  BY <1>1, <1>2, <1>3, <1>4, <1>5, <1>6, <1>7, <1>8, <1>9, <1>10, <1>11 DEF Next, Store, Select, Assign, Copy, Send

\* No statement of the two handlers loses a point: only the DELETE of the loop
\* removes rows, and what it removes is labelled already or still in todo.
LEMMA NoPointLostStep == TypeOK /\ CopyInv /\ NoPointLost /\ [Next]_vars => NoPointLost'
<1> SUFFICES ASSUME TypeOK, CopyInv, NoPointLost, [Next]_vars PROVE NoPointLost'
  OBVIOUS
<1> USE UploadsAssumption
<1>1. ASSUME NEW m \in Matches, ReceiveMatch(m) PROVE NoPointLost'
  BY <1>1 DEF ReceiveMatch, NoPointLost, Blame
<1>2. ASSUME NEW p \in Points, NEW ok \in BOOLEAN, StorePoint(p, ok) PROVE NoPointLost'
  BY <1>2 DEF StorePoint, NoPointLost, Labels
<1>3. ASSUME NEW b \in Texts, NEW got \in SUBSET Points, Press(b, got) PROVE NoPointLost'
  BY <1>3 DEF Press, NoPointLost, Blame
<1>4. ASSUME NoNumber PROVE NoPointLost'
  BY <1>4 DEF NoNumber, NoPointLost
<1>5. ASSUME NEW n \in Numbers \cup {Garbage}, AssignNumber(n) PROVE NoPointLost'
  BY <1>5 DEF AssignNumber, NoPointLost
<1>6. ASSUME NEW p \in Points, NEW ok \in BOOLEAN, InsertRow(p, ok) PROVE NoPointLost'
  <2>1. /\ pc = "insert" /\ pc' = "delete" /\ todo' = todo \ {p} /\ UNCHANGED stored
        /\ db \subseteq db'
        /\ ok => batch # Garbage /\ <<p, batch>> \in db'
    BY <1>6 DEF InsertRow
  <2>2. faults' \cap {"select cut short", "insert failed", "died copying"} = {} => ok /\ faults \cap {"select cut short", "insert failed", "died copying"} = {}
    BY <1>6 DEF InsertRow, Blame
  <2>3. ok => batch \in Labels
    BY <2>1 DEF CopyInv, Copying, Labels
  <2> QED
    BY <2>1, <2>2, <2>3 DEF NoPointLost
<1>7. ASSUME NEW ok \in BOOLEAN, DeleteUnassigned(ok) PROVE NoPointLost'
  <2>1. /\ pc = "delete" /\ pc' = (IF todo = {} THEN "headers" ELSE "insert")
        /\ UNCHANGED <<todo, resp, batch, next, backend, stored>>
        /\ db' \subseteq db /\ \A r \in db : r[2] # Unassigned => r \in db'
    BY <1>7 DEF DeleteUnassigned
  <2>2. \A f \in {"select cut short", "insert failed", "died copying"} : f \in faults' <=> f \in faults
    BY <1>7 DEF DeleteUnassigned, Blame
  <2>3. SUFFICES ASSUME faults' \cap {"select cut short", "insert failed", "died copying"} = {}, NEW p \in stored
                   PROVE  (\E n \in Labels : <<p, n>> \in db') \/ (pc' \in {"insert", "delete"} /\ p \in todo)
    BY <2>1 DEF NoPointLost
  <2>4. faults \cap {"select cut short", "insert failed", "died copying"} = {}
    BY <2>2, <2>3
  <2>5. CASE p \in todo
    BY <2>1, <2>5
  <2>6. CASE p \notin todo
    <3>1. PICK n \in Labels : <<p, n>> \in db
      BY <2>4, <2>6 DEF NoPointLost
    <3>2. CASE n # Unassigned
      BY <2>1, <3>1, <3>2
    <3>3. CASE n = Unassigned
      <4>1. p \in resp \ todo
        <5>1. Labelled(Unassigned) \subseteq resp
          BY <2>1, <2>4 DEF CopyInv, Copying, SelectsFine
        <5> QED
          BY <2>6, <3>1, <3>3, <5>1 DEF Labelled, TypeOK
      <4>2. <<p, batch>> \in db /\ batch # Unassigned
        <5>1. InsertsFine
          BY <2>4 DEF InsertsFine
        <5>2. <<p, batch>> \in db /\ batch \in Numbers \cup {Garbage}
          BY <2>1, <4>1, <5>1 DEF CopyInv, Copying
        <5> QED
          BY <5>2 DEF Numbers, Unassigned, Garbage
      <4>3. batch \in Labels
        BY <2>1, <4>1, <4>2 DEF CopyInv, Copying, TypeOK, Labels
      <4> QED
        BY <2>1, <4>2, <4>3
    <3> QED
      BY <3>2, <3>3
  <2> QED
    BY <2>5, <2>6
<1>8. ASSUME NEW ok \in BOOLEAN, GetHeaders(ok) PROVE NoPointLost'
  BY <1>8 DEF GetHeaders, NoPointLost
<1>9. ASSUME NEW ok \in BOOLEAN, Post(ok) PROVE NoPointLost'
  BY <1>9 DEF Post, NoPointLost
<1>10. ASSUME Restart PROVE NoPointLost'
  BY <1>10 DEF Restart, NoPointLost, Blame
<1>11. CASE UNCHANGED vars
  BY <1>11 DEF vars, NoPointLost
<1> QED
  BY <1>1, <1>2, <1>3, <1>4, <1>5, <1>6, <1>7, <1>8, <1>9, <1>10, <1>11 DEF Next, Store, Select, Assign, Copy, Send

\* The post adds rows that are in the table under its number, and nothing removes
\* a row that has one.
LEMMA SentIsKeptStep == TypeOK /\ SendInv /\ BackendInv /\ SentIsKept /\ [Next]_vars => SentIsKept'
<1> SUFFICES ASSUME TypeOK, SendInv, BackendInv, SentIsKept, [Next]_vars PROVE SentIsKept'
  OBVIOUS
<1> USE UploadsAssumption
<1>1. ASSUME NEW m \in Matches, ReceiveMatch(m) PROVE SentIsKept'
  BY <1>1 DEF ReceiveMatch, SentIsKept, Blame
<1>2. ASSUME NEW p \in Points, NEW ok \in BOOLEAN, StorePoint(p, ok) PROVE SentIsKept'
  BY <1>2 DEF StorePoint, SentIsKept
<1>3. ASSUME NEW b \in Texts, NEW got \in SUBSET Points, Press(b, got) PROVE SentIsKept'
  BY <1>3 DEF Press, SentIsKept, Blame
<1>4. ASSUME NoNumber PROVE SentIsKept'
  BY <1>4 DEF NoNumber, SentIsKept
<1>5. ASSUME NEW n \in Numbers \cup {Garbage}, AssignNumber(n) PROVE SentIsKept'
  BY <1>5 DEF AssignNumber, SentIsKept
<1>6. ASSUME NEW p \in Points, NEW ok \in BOOLEAN, InsertRow(p, ok) PROVE SentIsKept'
  BY <1>6 DEF InsertRow, SentIsKept, Blame
<1>7. ASSUME NEW ok \in BOOLEAN, DeleteUnassigned(ok) PROVE SentIsKept'
  BY <1>7 DEF DeleteUnassigned, BackendInv, SentIsKept, Blame
<1>8. ASSUME NEW ok \in BOOLEAN, GetHeaders(ok) PROVE SentIsKept'
  BY <1>8 DEF GetHeaders, SentIsKept
<1>9. ASSUME NEW ok \in BOOLEAN, Post(ok) PROVE SentIsKept'
  <2>1. pc = "post" /\ UNCHANGED <<db, faults>> /\ backend' \subseteq backend \cup (resp \X {batch})
    BY <1>9 DEF Post
  <2>2. InsertsFine /\ batch # OtherZero => \A p \in resp : <<p, batch>> \in db
    BY <2>1 DEF SendInv, Sending
  <2>3. ASSUME InsertsFine, NEW r \in backend' PROVE r[1] \in Points /\ (r \in db \/ r[2] = OtherZero)
    <3>1. CASE r \in backend
      BY <2>3, <3>1 DEF SentIsKept, InsertsFine
    <3>2. CASE r \in resp \X {batch}
      BY <2>2, <2>3, <3>2 DEF TypeOK
    <3> QED
      BY <2>1, <3>1, <3>2
  <2> QED
    BY <2>1, <2>3 DEF SentIsKept, InsertsFine
<1>10. ASSUME Restart PROVE SentIsKept'
  BY <1>10 DEF Restart, SentIsKept, Blame
<1>11. CASE UNCHANGED vars
  BY <1>11 DEF vars, SentIsKept
<1> QED
  BY <1>1, <1>2, <1>3, <1>4, <1>5, <1>6, <1>7, <1>8, <1>9, <1>10, <1>11 DEF Next, Store, Select, Assign, Copy, Send

-----------------------------------------------------------------------------
(* One number per point: the parts of its invariant, under the faults it allows *)

\* Faults after which OneNumberPerPoint is still promised.
Sound == faults \subseteq {"insert failed", "select cut short"}

\* Every row and every point of a batch was stored once, and what is being
\* stored is new.
StoredInv ==
  /\ \A r \in db : r[1] \in stored
  /\ pc = "store" => todo \cap stored = {}
  /\ pc = "number" \/ Copying \/ Sending => resp \subseteq stored

\* A point has one label, or two while the loop copies it.
OneLabelInv ==
  \A r, s \in db : r[1] = s[1] =>
    \/ r[2] = s[2]
    \/ Copying /\ r[2] \in {Unassigned, batch} /\ s[2] \in {Unassigned, batch}

\* The labels of the points of the batch, before, in and after the loop.
BatchInv ==
  /\ pc = "number" => \A p \in resp : <<p, Unassigned>> \in db
  /\ Copying => \A r \in db : r[1] \in resp => r[2] \in {Unassigned, batch}
  /\ Sending /\ batch # OtherZero => \A r \in db : r[1] \in resp => r[2] = batch

\* What the backend has under a number has no other one in the table, and is not
\* in the batch being copied.
BackInv ==
  \A r \in backend : r[2] # OtherZero =>
    /\ r[1] \in stored
    /\ \A s \in db : s[1] = r[1] => s[2] = r[2]
    /\ pc = "number" \/ Copying => r[1] \notin resp
    /\ Sending /\ batch # OtherZero /\ r[1] \in resp => r[2] = batch

\* OneNumberPerPoint without its condition.
OneNumber == \A r, s \in backend : r[1] = s[1] => r[2] = s[2] \/ OtherZero \in {r[2], s[2]}

Unique == StoredInv /\ OneLabelInv /\ BatchInv /\ BackInv /\ OneNumber
UniqueInv == Sound => Unique

\* Whatever a step adds to the faults, it takes none back.
LEMMA SoundBefore == [Next]_vars /\ Sound' => Sound
  BY DEF Sound, Next, vars, Store, Select, Assign, Copy, Send, ReceiveMatch, StorePoint, Press, NoNumber,
    AssignNumber, InsertRow, DeleteUnassigned, GetHeaders, Post, Restart, Blame

\* A statement that ends a handler leaves nothing to be copied or sent.
LEMMA UniqueAtReturn ==
  ASSUME Unique, Return, UNCHANGED <<db, backend, stored>>, ~Copying
  PROVE  Unique'
<1>1. pc' = "idle"
  BY DEF Return
<1>2. StoredInv'
  BY <1>1 DEF Unique, StoredInv, Copying, Sending
<1>3. OneLabelInv'
  BY <1>1 DEF Unique, OneLabelInv
<1>4. BatchInv'
  BY <1>1 DEF BatchInv, Copying, Sending
<1>5. BackInv'
  BY <1>1 DEF Unique, BackInv, Copying, Sending
<1>6. OneNumber'
  BY DEF Unique, OneNumber
<1> QED
  BY <1>2, <1>3, <1>4, <1>5, <1>6 DEF Unique

\* Under the faults it allows, every statement keeps one number per point.
LEMMA UniqueStep ==
  ASSUME TypeOK, SelectInv, CopyInv, BackendInv, Unique, Sound', [Next]_vars
  PROVE  Unique'
<1> USE UploadsAssumption
<1>1. ASSUME NEW m \in Matches, ReceiveMatch(m) PROVE Unique'
  <2>1. pc = "idle" /\ pc' = "store" /\ todo' = m /\ UNCHANGED <<resp, batch, db, backend, stored>>
    BY <1>1 DEF ReceiveMatch
  <2>2. m \cap stored = {}
    BY <1>1 DEF ReceiveMatch, Blame, Sound
  <2>3. StoredInv' /\ OneLabelInv' /\ BatchInv'
    BY <2>1, <2>2 DEF Unique, StoredInv, OneLabelInv, BatchInv, Copying, Sending
  <2>4. BackInv' /\ OneNumber'
    BY <2>1 DEF Unique, BackInv, OneNumber, Copying, Sending
  <2> QED
    BY <2>3, <2>4 DEF Unique
<1>2. ASSUME NEW p \in Points, NEW ok \in BOOLEAN, StorePoint(p, ok) PROVE Unique'
  <2>1. /\ pc = "store" /\ pc' \in {"idle", "store"} /\ p \in todo /\ todo' = todo \ {p}
        /\ UNCHANGED <<resp, batch, backend>>
        /\ \/ db' = db \cup {<<p, Unassigned>>} /\ stored' = stored \cup {p}
           \/ UNCHANGED <<db, stored>>
    BY <1>2 DEF StorePoint
  <2>2. p \notin stored /\ \A r \in db \cup backend : r[1] = p => r \in backend /\ r[2] = OtherZero
    BY <2>1 DEF Unique, StoredInv, BackInv
  <2>3. StoredInv'
    BY <2>1 DEF Unique, StoredInv, Copying, Sending
  <2>4. OneLabelInv' /\ BatchInv'
    BY <2>1, <2>2 DEF Unique, StoredInv, OneLabelInv, BatchInv, Copying, Sending
  <2>5. BackInv' /\ OneNumber'
    BY <2>1, <2>2 DEF Unique, StoredInv, BackInv, OneNumber, Copying, Sending
  <2> QED
    BY <2>3, <2>4, <2>5 DEF Unique
<1>3. ASSUME NEW b \in Texts, NEW got \in SUBSET Points, Press(b, got) PROVE Unique'
  <2>1. /\ pc = "idle" /\ UNCHANGED <<todo, db, backend, stored>>
        /\ batch' = b /\ pc' = IF b = Unassigned THEN "number" ELSE "headers"
    BY <1>3 DEF Press
  <2>2. b # OtherZero => \A q \in resp' : <<q, b>> \in db
    BY <1>3 DEF Press, Selected, Labelled
  <2>3. \A q \in resp' : q \in stored
    BY <1>3 DEF Press, Selected, Labelled, Unique, StoredInv
  <2>4. b # OtherZero => \A r \in db : r[1] \in resp' => r[2] = b
    BY <2>1, <2>2 DEF Unique, OneLabelInv, Copying
  <2>5. b # OtherZero => \A r \in backend : r[2] # OtherZero /\ r[1] \in resp' => r[2] = b
    BY <2>2 DEF Unique, BackInv
  <2>6. StoredInv' /\ OneLabelInv'
    BY <2>1, <2>3 DEF Unique, StoredInv, OneLabelInv, Copying
  <2>7. BatchInv'
    BY <2>1, <2>2, <2>4 DEF BatchInv, Copying, Unassigned, OtherZero
  <2>8. BackInv'
    BY <2>1, <2>5 DEF Unique, BackInv, BackendInv, Copying, Sending, Unassigned, OtherZero
  <2>9. OneNumber'
    BY <2>1 DEF Unique, OneNumber
  <2> QED
    BY <2>6, <2>7, <2>8, <2>9 DEF Unique
<1>4. ASSUME NoNumber PROVE Unique'
  BY <1>4, UniqueAtReturn DEF NoNumber, Copying
<1>5. ASSUME NEW n \in Numbers \cup {Garbage}, AssignNumber(n) PROVE Unique'
  <2>1. /\ pc = "number" /\ pc' = (IF resp = {} THEN "headers" ELSE "insert")
        /\ batch' = n /\ UNCHANGED <<resp, db, backend, stored>>
    BY <1>5 DEF AssignNumber
  <2>2. StoredInv'
    BY <2>1 DEF Unique, StoredInv, Copying, Sending
  <2>3. OneLabelInv'
    BY <2>1 DEF Unique, OneLabelInv, Copying
  <2>4. \A r \in db : r[1] \in resp => r[2] = Unassigned
    BY <2>1 DEF Unique, OneLabelInv, BatchInv, Copying
  <2>5. BatchInv'
    BY <2>1, <2>4 DEF BatchInv, Copying, Sending
  <2>6. BackInv' /\ OneNumber'
    BY <2>1 DEF Unique, BackInv, OneNumber, Copying, Sending
  <2> QED
    BY <2>2, <2>3, <2>5, <2>6 DEF Unique
<1>6. ASSUME NEW p \in Points, NEW ok \in BOOLEAN, InsertRow(p, ok) PROVE Unique'
  <2>1. /\ pc = "insert" /\ pc' = "delete" /\ p \in todo /\ UNCHANGED <<resp, batch, backend, stored>>
        /\ db' = db \/ db' = db \cup {<<p, batch>>}
    BY <1>6 DEF InsertRow
  <2>2. p \in resp /\ p \in stored
    BY <2>1 DEF CopyInv, Unique, StoredInv, Copying
  <2>3. \A r \in backend : r[1] = p => r[2] = OtherZero
    BY <2>1, <2>2 DEF Unique, BackInv, Copying
  <2>4. \A r \in db : r[1] = p => r[2] \in {Unassigned, batch}
    BY <2>1, <2>2 DEF Unique, BatchInv, Copying
  <2>5. StoredInv'
    BY <2>1, <2>2 DEF Unique, StoredInv, Copying, Sending
  <2>6. OneLabelInv'
    BY <2>1, <2>4 DEF Unique, OneLabelInv, Copying
  <2>7. BatchInv'
    BY <2>1 DEF Unique, BatchInv, Copying, Sending
  <2>8. BackInv' /\ OneNumber'
    BY <2>1, <2>3 DEF Unique, BackInv, OneNumber, Copying, Sending
  <2> QED
    BY <2>5, <2>6, <2>7, <2>8 DEF Unique
<1>7. ASSUME NEW ok \in BOOLEAN, DeleteUnassigned(ok) PROVE Unique'
  <2>1. /\ pc = "delete" /\ pc' = (IF todo = {} THEN "headers" ELSE "insert")
        /\ UNCHANGED <<resp, batch, backend, stored>> /\ db' \subseteq db
    BY <1>7 DEF DeleteUnassigned
  <2>2. pc' = "headers" => \A r \in db' : r[2] # Unassigned
    BY <1>7 DEF DeleteUnassigned, Blame, Sound
  <2>3. StoredInv'
    BY <2>1 DEF Unique, StoredInv, Copying, Sending
  <2>4. OneLabelInv'
    BY <2>1, <2>2 DEF Unique, OneLabelInv, Copying
  <2>5. BatchInv'
    BY <2>1, <2>2 DEF Unique, BatchInv, Copying, Sending
  <2>6. BackInv'
    BY <2>1 DEF Unique, BackInv, Copying, Sending
  <2>7. OneNumber'
    BY <2>1 DEF Unique, OneNumber
  <2> QED
    BY <2>3, <2>4, <2>5, <2>6, <2>7 DEF Unique
<1>8. ASSUME NEW ok \in BOOLEAN, GetHeaders(ok) PROVE Unique'
  <2>1. pc = "headers" /\ UNCHANGED <<db, backend, stored>>
    BY <1>8 DEF GetHeaders
  <2>2. CASE Return
    BY <2>1, <2>2, UniqueAtReturn DEF Copying
  <2>3. CASE pc' = "post" /\ UNCHANGED <<todo, resp, batch>>
    <3>1. StoredInv' /\ OneLabelInv' /\ BatchInv'
      BY <2>1, <2>3 DEF Unique, StoredInv, OneLabelInv, BatchInv, Copying, Sending
    <3>2. BackInv' /\ OneNumber'
      BY <2>1, <2>3 DEF Unique, BackInv, OneNumber, Copying, Sending
    <3> QED
      BY <3>1, <3>2 DEF Unique
  <2> QED
    BY <1>8, <2>2, <2>3 DEF GetHeaders
<1>9. ASSUME NEW ok \in BOOLEAN, Post(ok) PROVE Unique'
  <2>1. /\ pc = "post" /\ pc' = "idle" /\ UNCHANGED <<db, stored>>
        /\ backend' = backend \/ backend' = backend \cup (resp \X {batch})
    BY <1>9 DEF Post, Return
  <2>2. \A r \in resp \X {batch} : r[1] \in resp /\ r[1] \in stored /\ r[2] = batch
    BY <2>1 DEF Unique, StoredInv, Sending
  <2>3. batch # OtherZero => \A r \in db : r[1] \in resp => r[2] = batch
    BY <2>1 DEF Unique, BatchInv, Sending
  <2>4. batch # OtherZero => \A r \in backend : r[2] # OtherZero /\ r[1] \in resp => r[2] = batch
    BY <2>1 DEF Unique, BackInv, Sending
  <2>5. StoredInv' /\ OneLabelInv' /\ BatchInv'
    BY <2>1 DEF Unique, StoredInv, OneLabelInv, BatchInv, Copying, Sending
  <2>6. BackInv'
    BY <2>1, <2>2, <2>3 DEF Unique, BackInv, Copying, Sending
  <2>7. OneNumber'
    BY <2>1, <2>2, <2>4 DEF Unique, OneNumber
  <2> QED
    BY <2>5, <2>6, <2>7 DEF Unique
<1>10. ASSUME Restart PROVE Unique'
  <2>1. ~Copying
    BY <1>10 DEF Restart, Blame, Sound, Copying
  <2> QED
    BY <1>10, <2>1, UniqueAtReturn DEF Restart
<1>11. CASE UNCHANGED vars
  <2>1. StoredInv' /\ OneLabelInv' /\ BatchInv'
    BY <1>11 DEF vars, Unique, StoredInv, OneLabelInv, BatchInv, Copying, Sending
  <2>2. BackInv' /\ OneNumber'
    BY <1>11 DEF vars, Unique, BackInv, OneNumber, Copying, Sending
  <2> QED
    BY <2>1, <2>2 DEF Unique
<1> QED
  BY <1>1, <1>2, <1>3, <1>4, <1>5, <1>6, <1>7, <1>8, <1>9, <1>10, <1>11 DEF Next, Store, Select, Assign, Copy, Send

-----------------------------------------------------------------------------
(* Theorems *)

\* At the start of the program, with an empty table, the invariant holds.
LEMMA Initially == Init => Inv
  BY UploadsAssumption DEF Init, Inv, IInv, TypeOK, SelectInv, CopyInv, SendInv, BackendInv, FreshInv,
    Copying, Sending, NoPointLost, SentIsKept, Texts, Labels, Numbers, Unassigned, Garbage

\* Every statement of the handlers preserves the whole invariant.
LEMMA Preserved == Inv /\ [Next]_vars => Inv'
  BY TypeStep, SelectStep, CopyStep, SendStep, BackendStep, FreshStep, NoPointLostStep, SentIsKeptStep
    DEF Inv, IInv

\* The invariant holds throughout, whatever statements fail and whenever the
\* program dies.
THEOREM Invariance == Spec => []Inv
<1>1. Init => Inv
  BY Initially
<1>2. Inv /\ [Next]_vars => Inv'
  BY Preserved
<1> QED
  BY <1>1, <1>2, PTL DEF Spec

\* Types are kept; no row of the table carries text or an unknown number.
THEOREM TypeCorrect == Spec => []TypeOK
<1>1. Inv => TypeOK
  BY DEF Inv, IInv
<1> QED
  BY <1>1, Invariance, PTL

\* NoPointLost: the DELETE inside the upload loop (main.cpp 300) loses no point
\* while inserts succeed, no query is cut short and the program does not end while
\* it copies.
THEOREM NothingLost == Spec => []NoPointLost
<1>1. Inv => NoPointLost
  BY DEF Inv
<1> QED
  BY <1>1, Invariance, PTL

\* SentIsKept: what uploadToBackend delivered can be sent again from the table,
\* unless an insert failed, or another spelling of zero sent it without a number.
THEOREM SentStaysKept == Spec => []SentIsKept
<1>1. Inv => SentIsKept
  BY DEF Inv
<1> QED
  BY <1>1, Invariance, PTL

\* One step of SentBatchIsFinal.
SentBatchKeepsItsRows ==
  \A n \in Numbers : (\E r \in backend : r[2] = n) => Labelled(n)' = Labelled(n)

\* Inserting, copying and deleting rows (DatabaseMan.hpp 47, main.cpp 299-300)
\* leave the rows of a number the backend has as they are.
LEMMA FinalStep == Inv /\ [Next]_vars => SentBatchKeepsItsRows
<1> SUFFICES ASSUME Inv, [Next]_vars, NEW n \in Numbers, NEW r \in backend, r[2] = n
             PROVE  Labelled(n)' = Labelled(n)
  BY DEF SentBatchKeepsItsRows
<1> n # Unassigned
  BY DEF Numbers, Unassigned
<1> SUFFICES ASSUME NEW p \in Points PROVE <<p, n>> \in db' <=> <<p, n>> \in db
  BY DEF Labelled
<1>1. ASSUME NEW q \in Points, NEW ok \in BOOLEAN, StorePoint(q, ok) PROVE <<p, n>> \in db' <=> <<p, n>> \in db
  <2>1. db' = db \/ db' = db \cup {<<q, Unassigned>>}
    BY <1>1 DEF StorePoint
  <2> QED
    BY <2>1
<1>2. ASSUME NEW q \in Points, NEW ok \in BOOLEAN, InsertRow(q, ok) PROVE <<p, n>> \in db' <=> <<p, n>> \in db
  <2>1. /\ pc = "insert"
        /\ ok => batch # Garbage /\ db' = db \cup {<<q, batch>>}
        /\ ~ok => db' = db
    BY <1>2 DEF InsertRow
  <2>2. batch \in Numbers => batch # n
    BY <2>1 DEF Inv, IInv, FreshInv, Copying
  <2>3. batch \in Numbers \cup {Garbage}
    BY <2>1 DEF Inv, IInv, CopyInv, Copying
  <2> QED
    BY <2>1, <2>2, <2>3
<1>3. ASSUME NEW ok \in BOOLEAN, DeleteUnassigned(ok) PROVE <<p, n>> \in db' <=> <<p, n>> \in db
  <2>1. db' = db \/ db' = {s \in db : s[2] # Unassigned}
    BY <1>3 DEF DeleteUnassigned
  <2> QED
    BY <2>1
<1>4. CASE db' = db
  BY <1>4
<1> QED
  BY <1>1, <1>2, <1>3, <1>4 DEF Next, Store, Select, Assign, Copy, Send, ReceiveMatch, Press, NoNumber,
    AssignNumber, GetHeaders, Post, Restart, vars

\* SentBatchIsFinal: a batch sent again is the batch that was sent before.
THEOREM SentFinal == Spec => SentBatchIsFinal
<1>1. Inv /\ [Next]_vars => [SentBatchKeepsItsRows]_vars
  BY FinalStep
<1> QED
  BY <1>1, Invariance, PTL DEF Spec, SentBatchIsFinal, SentBatchKeepsItsRows

\* OneNumberPerPoint: the copy the upload button makes (main.cpp 299-300) leaves no
\* row that a later batch would send under another number.
THEOREM OneNumberEach == Spec => []OneNumberPerPoint
<1>1. Init => UniqueInv
  BY DEF Init, UniqueInv, Unique, StoredInv, OneLabelInv, BatchInv, BackInv, OneNumber, Copying, Sending
<1>2. Inv /\ UniqueInv /\ [Next]_vars => UniqueInv'
  BY SoundBefore, UniqueStep DEF UniqueInv, Inv, IInv
<1>3. UniqueInv => OneNumberPerPoint
  BY DEF UniqueInv, Unique, OneNumber, OneNumberPerPoint, Sound
<1> QED
  BY <1>1, <1>2, <1>3, Invariance, PTL DEF Spec
=============================================================================
