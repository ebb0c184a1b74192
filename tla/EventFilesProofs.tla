--------------------------- MODULE EventFilesProofs ---------------------------
(* Proofs about EventFiles, for any set of event keys. *)
EXTENDS EventFiles, TLAPS

-----------------------------------------------------------------------------
(* The inductive invariant, in parts *)

MatchesFor(e) == {Of(e), Default}

\* What an update has written so far, if it met no fault but a team it could not
\* read.
UpdateInv ==
  faults \cap EventFaults \subseteq CutShort =>
    /\ pc \in {"teams", "write teams", "compID", "write compID"} =>
         file["compMatchNums"] \in MatchesFor(event)
    /\ pc \in {"matches", "write matches", "teams", "write teams"} =>
         "teams cut short" \notin faults
    /\ pc \in {"compID", "write compID"} => file["teamCompList"] = Teams(event, faults)
    /\ pc \in {"idle", "write scouters"} => \E e \in Events :
         /\ file["compMatchNums"] \in MatchesFor(e)
         /\ file["teamCompList"] = Teams(e, faults) /\ file["compID"] = Of(e)

\* The list of scouters is what the last query returned, but while it is written, or
\* the program died then.
RosterInv ==
  faults \cap RosterFaults \subseteq CutShort /\ pc # "write scouters" =>
    file["scouterList"] = Scouters(faults)

Inv == TypeOK /\ UpdateInv /\ RosterInv

-----------------------------------------------------------------------------
(* One lemma per part, one step per action *)

\* A file keeps its type when it is emptied or filled.
LEMMA FileTypes ==
  ASSUME TypeOK, NEW f \in Files, NEW c \in Contents, Fill(f, c) \/ Truncate(f)
  PROVE  file' \in [Files -> Contents]
<1>1. Empty \in Contents
  BY DEF Contents
<1> QED
  BY <1>1 DEF TypeOK, Fill, Truncate

\* Every statement of the handlers keeps the types.
LEMMA TypeStep == TypeOK /\ [Next]_vars => TypeOK'
<1> SUFFICES ASSUME TypeOK, [Next]_vars PROVE TypeOK'
  OBVIOUS
<1> USE DEF Outside
<1>1. ASSUME NEW e \in Events, UpdateEvent(e) PROVE TypeOK'
  BY <1>1 DEF UpdateEvent, TypeOK
<1>2. ASSUME NEW ok \in BOOLEAN, GetMatchData(ok) PROVE TypeOK'
  <2>1. file' \in [Files -> Contents]
    <3>1. CASE ok
      BY <1>2, <3>1, FileTypes DEF GetMatchData, Files, Contents
    <3>2. CASE ~ok
      BY <1>2, <3>2 DEF GetMatchData, TypeOK
    <3> QED
      BY <3>1, <3>2
  <2> QED
    BY <1>2, <2>1 DEF GetMatchData, TypeOK, Blame, EventFaults
<1>3. ASSUME NEW matches \in Contents, WriteMatches(matches) PROVE TypeOK'
  <2>1. file' \in [Files -> Contents]
    BY <1>3, FileTypes DEF WriteMatches, Files
  <2> QED
    BY <1>3, <2>1 DEF WriteMatches, TypeOK
<1>4. ASSUME NEW teams \in BOOLEAN, NEW ok \in BOOLEAN, GetTeams(teams, ok) PROVE TypeOK'
  <2>1. file' \in [Files -> Contents]
    <3>1. CASE teams /\ ok
      BY <1>4, <3>1, FileTypes DEF GetTeams, Files, Contents
    <3>2. CASE ~(teams /\ ok)
      BY <1>4, <3>2 DEF GetTeams, TypeOK
    <3> QED
      BY <3>1, <3>2
  <2>2. faults' \subseteq EventFaults \cup RosterFaults
    BY <1>4 DEF GetTeams, TypeOK, EventFaults
  <2> QED
    BY <1>4, <2>1, <2>2 DEF GetTeams, TypeOK
<1>5. ASSUME NEW whole \in BOOLEAN, WriteTeams(whole) PROVE TypeOK'
  <2>1. (IF whole THEN Of(event) ELSE PartOf(event)) \in Contents
    BY DEF Contents, TypeOK
  <2>2. file' \in [Files -> Contents]
    BY <1>5, <2>1, FileTypes DEF WriteTeams, Files
  <2> QED
    BY <1>5, <2>2 DEF WriteTeams, TypeOK, Blame, EventFaults
<1>6. ASSUME NEW ok \in BOOLEAN, OpenCompID(ok) PROVE TypeOK'
  <2>1. file' \in [Files -> Contents]
    <3>1. CASE ok
      BY <1>6, <3>1, FileTypes DEF OpenCompID, Files, Contents
    <3>2. CASE ~ok
      BY <1>6, <3>2 DEF OpenCompID, TypeOK
    <3> QED
      BY <3>1, <3>2
  <2> QED
    BY <1>6, <2>1 DEF OpenCompID, TypeOK, Blame, EventFaults
<1>7. ASSUME WriteCompID PROVE TypeOK'
  <2>1. file' \in [Files -> Contents]
    BY <1>7, FileTypes DEF WriteCompID, Files, Contents, TypeOK
  <2> QED
    BY <1>7, <2>1 DEF WriteCompID, TypeOK
<1>8. ASSUME UpdateScouters PROVE TypeOK'
  <2>1. file' \in [Files -> Contents]
    BY <1>8, FileTypes DEF UpdateScouters, Files, Contents
  <2> QED
    BY <1>8, <2>1 DEF UpdateScouters, TypeOK
<1>9. ASSUME NEW whole \in BOOLEAN, WriteScouters(whole) PROVE TypeOK'
  <2>1. (IF whole THEN Roster ELSE PartOfRoster) \in Contents
    BY DEF Contents
  <2>2. file' \in [Files -> Contents]
    BY <1>9, <2>1, FileTypes DEF WriteScouters, Files
  <2> QED
    BY <1>9, <2>2 DEF WriteScouters, TypeOK, RosterFaults
<1>10. CASE TabletAsks
  BY <1>10 DEF TabletAsks, TypeOK
<1>11. CASE SendFiles
  BY <1>11 DEF SendFiles, TypeOK
<1>12. CASE Network
  BY <1>12 DEF Network, TypeOK
<1>13. CASE Restart
  BY <1>13 DEF Restart, TypeOK, EventFaults, RosterFaults
<1>14. CASE UNCHANGED vars
  BY <1>14 DEF vars, TypeOK
<1> QED
  BY <1>1, <1>2, <1>3, <1>4, <1>5, <1>6, <1>7, <1>8, <1>9, <1>10, <1>11, <1>12, <1>13, <1>14
    DEF Next, Request, Write, Button

\* The faults of an update that its handler reports, or dies of.
LEMMA Reported == {"teams not got", "file not opened", "died updating"} \subseteq EventFaults \ CutShort
  BY DEF EventFaults, CutShort

\* Any fault of an update but that one ends its claim.
LEMMA OtherFault ==
  ASSUME NEW f \in EventFaults \ CutShort, f \in faults'
  PROVE  UpdateInv'
  BY DEF UpdateInv

\* The statements of an update leave the files of its event behind, in order.
LEMMA UpdateStep == TypeOK /\ UpdateInv /\ [Next]_vars => UpdateInv'
<1> SUFFICES ASSUME TypeOK, UpdateInv, [Next]_vars PROVE UpdateInv'
  OBVIOUS
<1> USE DEF Outside
<1>1. ASSUME NEW e \in Events, UpdateEvent(e) PROVE UpdateInv'
  BY <1>1 DEF UpdateEvent, UpdateInv, EventFaults
<1>2. ASSUME NEW ok \in BOOLEAN, GetMatchData(ok) PROVE UpdateInv'
  <2>1. CASE ok
    BY <1>2, <2>1 DEF GetMatchData, Blame, UpdateInv
  <2>2. CASE ~ok
    <3>1. "file not opened" \in faults'
      BY <1>2, <2>2 DEF GetMatchData, Blame
    <3> QED
      BY <3>1, OtherFault, Reported
  <2> QED
    BY <2>1, <2>2
<1>3. ASSUME NEW matches \in Contents, WriteMatches(matches) PROVE UpdateInv'
  <2>1. /\ pc = "write matches" /\ pc' = "teams" /\ UNCHANGED <<event, faults>>
        /\ file'["compMatchNums"] \in MatchesFor(event)
    BY <1>3 DEF WriteMatches, Fill, Files, TypeOK, MatchesFor
  <2> QED
    BY <2>1 DEF UpdateInv, MatchesFor
<1>4. ASSUME NEW teams \in BOOLEAN, NEW ok \in BOOLEAN, GetTeams(teams, ok) PROVE UpdateInv'
  <2>1. CASE teams /\ ok
    <3>1. /\ pc = "teams" /\ pc' = "write teams" /\ UNCHANGED <<event, faults>>
          /\ file'["compMatchNums"] = file["compMatchNums"]
      BY <1>4, <2>1 DEF GetTeams, Truncate, Files, TypeOK
    <3> QED
      BY <3>1 DEF UpdateInv, MatchesFor
  <2>2. CASE ~(teams /\ ok)
    <3>1. "teams not got" \in faults' \/ "file not opened" \in faults'
      BY <1>4, <2>2 DEF GetTeams
    <3> QED
      BY <3>1, OtherFault, Reported
  <2> QED
    BY <2>1, <2>2
<1>5. ASSUME NEW whole \in BOOLEAN, WriteTeams(whole) PROVE UpdateInv'
  <2>1. /\ pc = "write teams" /\ pc' = "compID" /\ event' = event
        /\ file'["compMatchNums"] = file["compMatchNums"]
        /\ file'["teamCompList"] = IF whole THEN Of(event) ELSE PartOf(event)
    BY <1>5 DEF WriteTeams, Fill, Files, TypeOK
  <2>2. faults' = IF whole THEN faults ELSE faults \cup {"teams cut short"}
    BY <1>5 DEF WriteTeams, Blame
  <2> SUFFICES ASSUME faults' \cap EventFaults \subseteq CutShort PROVE UpdateInv'
    BY DEF UpdateInv
  <2>3. "teams cut short" \notin faults /\ file["compMatchNums"] \in MatchesFor(event)
    BY <2>1, <2>2 DEF UpdateInv, CutShort
  <2>4. file'["teamCompList"] = Teams(event, faults')
    BY <2>1, <2>2, <2>3 DEF Teams
  <2> QED
    BY <2>1, <2>3, <2>4 DEF UpdateInv, MatchesFor, Of, Teams
<1>6. ASSUME NEW ok \in BOOLEAN, OpenCompID(ok) PROVE UpdateInv'
  <2>1. CASE ok
    <3>1. /\ pc = "compID" /\ pc' = "write compID" /\ UNCHANGED event /\ faults' = faults
          /\ file'["compMatchNums"] = file["compMatchNums"] /\ file'["teamCompList"] = file["teamCompList"]
      BY <1>6, <2>1 DEF OpenCompID, Truncate, Files, TypeOK, Blame
    <3> QED
      BY <3>1 DEF UpdateInv, MatchesFor, Of, Teams
  <2>2. CASE ~ok
    <3>1. "file not opened" \in faults'
      BY <1>6, <2>2 DEF OpenCompID, Blame
    <3> QED
      BY <3>1, OtherFault, Reported
  <2> QED
    BY <2>1, <2>2
<1>7. ASSUME WriteCompID PROVE UpdateInv'
  <2>1. /\ pc = "write compID" /\ pc' = "idle" /\ UNCHANGED <<event, faults>> /\ event \in Events
        /\ file'["compMatchNums"] = file["compMatchNums"] /\ file'["teamCompList"] = file["teamCompList"]
        /\ file'["compID"] = Of(event)
    BY <1>7 DEF WriteCompID, Fill, Files, TypeOK
  <2> QED
    BY <2>1 DEF UpdateInv, MatchesFor, Teams
<1>8. ASSUME UpdateScouters \/ \E whole \in BOOLEAN : WriteScouters(whole) PROVE UpdateInv'
  <2>1. /\ pc \in {"idle", "write scouters"} /\ pc' \in {"idle", "write scouters"}
        /\ \A f \in Files \ {"scouterList"} : file'[f] = file[f]
    BY <1>8 DEF UpdateScouters, WriteScouters, Fill, Truncate, Files, TypeOK
  <2>2. faults' \cap EventFaults = faults \cap EventFaults
    BY <1>8 DEF UpdateScouters, WriteScouters, RosterFaults, EventFaults
  <2>3. \A e : Teams(e, faults') = Teams(e, faults)
    BY <2>2 DEF Teams, EventFaults
  <2> QED
    BY <2>1, <2>2, <2>3 DEF UpdateInv, MatchesFor, Files
<1>9. CASE TabletAsks \/ SendFiles \/ Network \/ UNCHANGED vars
  <2>1. UNCHANGED <<pc, event, file, faults>>
    BY <1>9 DEF TabletAsks, SendFiles, Network, vars
  <2> QED
    BY <2>1 DEF UpdateInv, MatchesFor, Of, Teams
<1>10. CASE Restart
  <2>1. CASE pc = "write scouters"
    <3>1. pc' = "idle" /\ UNCHANGED file /\ faults' = faults \cup {"died writing scouters"}
      BY <1>10, <2>1 DEF Restart
    <3>2. faults' \cap EventFaults = faults \cap EventFaults
      BY <3>1 DEF EventFaults
    <3>3. \A e : Teams(e, faults') = Teams(e, faults)
      BY <3>1 DEF Teams
    <3> QED
      BY <2>1, <3>1, <3>2, <3>3 DEF UpdateInv, MatchesFor
  <2>2. CASE pc # "write scouters"
    <3>1. "died updating" \in faults'
      BY <1>10, <2>2 DEF Restart
    <3> QED
      BY <3>1, OtherFault, Reported
  <2> QED
    BY <2>1, <2>2
<1> QED
  BY <1>1, <1>2, <1>3, <1>4, <1>5, <1>6, <1>7, <1>8, <1>9, <1>10 DEF Next, Request, Write, Button

\* Only the update of the scouters touches their list.
LEMMA RosterStep == TypeOK /\ RosterInv /\ [Next]_vars => RosterInv'
<1> SUFFICES ASSUME TypeOK, RosterInv, [Next]_vars PROVE RosterInv'
  OBVIOUS
<1>1. CASE UpdateScouters
  BY <1>1 DEF UpdateScouters, RosterInv
<1>2. ASSUME NEW whole \in BOOLEAN, WriteScouters(whole) PROVE RosterInv'
  <2>1. /\ file'["scouterList"] = IF whole THEN Roster ELSE PartOfRoster
        /\ faults' = (faults \ RosterFaults) \cup (IF whole THEN {} ELSE {"scouters cut short"})
    BY <1>2 DEF WriteScouters, Fill, TypeOK, Files
  <2>2. "scouters cut short" \in faults' <=> ~whole
    BY <2>1 DEF RosterFaults
  <2>3. file'["scouterList"] = Scouters(faults')
    BY <2>1, <2>2 DEF Scouters
  <2> QED
    BY <2>3 DEF RosterInv
<1>3. CASE Restart
  <2>1. CASE pc = "write scouters"
    BY <1>3, <2>1 DEF Restart, RosterInv, RosterFaults, CutShort
  <2>2. CASE pc # "write scouters"
    <3>1. UNCHANGED file /\ faults' = faults \cup {"died updating"}
      BY <1>3, <2>2 DEF Restart
    <3>2. faults' \cap RosterFaults = faults \cap RosterFaults
      BY <3>1 DEF RosterFaults
    <3>3. Scouters(faults') = Scouters(faults)
      BY <3>1 DEF Scouters
    <3> QED
      BY <2>2, <3>1, <3>2, <3>3 DEF RosterInv
  <2> QED
    BY <2>1, <2>2
<1>4. CASE Request \/ WriteCompID \/ (\E e \in Events : UpdateEvent(e))
             \/ (\E whole \in BOOLEAN : WriteTeams(whole))
             \/ (\E matches \in Contents : WriteMatches(matches)) \/ (\E ok \in BOOLEAN : OpenCompID(ok))
  <2>1. file'["scouterList"] = file["scouterList"]
    BY <1>4 DEF Request, WriteTeams, WriteCompID, UpdateEvent, WriteMatches, OpenCompID, GetMatchData,
      GetTeams, Fill, Truncate, TypeOK, Files
  <2>2. pc # "write scouters"
    BY <1>4 DEF Request, WriteTeams, WriteCompID, UpdateEvent, WriteMatches, OpenCompID, GetMatchData, GetTeams
  <2>3. faults \cap RosterFaults = faults' \cap RosterFaults
    BY <1>4 DEF Request, WriteTeams, WriteCompID, UpdateEvent, WriteMatches, OpenCompID, GetMatchData, GetTeams,
      Blame, RosterFaults, EventFaults
  <2>4. Scouters(faults') = Scouters(faults)
    BY <2>3 DEF Scouters, RosterFaults
  <2> QED
    BY <2>1, <2>2, <2>3, <2>4 DEF RosterInv
<1>5. CASE TabletAsks \/ SendFiles \/ Network \/ UNCHANGED vars
  BY <1>5 DEF TabletAsks, SendFiles, Network, vars, RosterInv
<1> QED
  BY <1>1, <1>2, <1>3, <1>4, <1>5 DEF Next, Write, Button

\* Between two buttons the files are one event's, if the last updates met no fault
\* but a list cut short.
LEMMA IdleIsOneEvent ==
  ASSUME TypeOK, UpdateInv, RosterInv, pc = "idle", faults \subseteq CutShort
  PROVE  OneEvent(file, faults)
<1>1. PICK e \in Events : /\ file["compMatchNums"] \in {Of(e), Default}
                          /\ file["teamCompList"] = Teams(e, faults) /\ file["compID"] = Of(e)
  BY DEF UpdateInv, MatchesFor
<1>2. file["scouterList"] = Scouters(faults)
  BY DEF RosterInv
<1>3. file = FilesOf(e, file["compMatchNums"], faults)
  BY <1>1, <1>2 DEF TypeOK, FilesOf, Files
<1> QED
  BY <1>1, <1>3 DEF OneEvent

-----------------------------------------------------------------------------
(* Theorems *)

\* The files the repository ships are one event's.
LEMMA Initially == Init => Inv
<1> SUFFICES ASSUME Init PROVE Inv
  OBVIOUS
<1>1. PICK matches \in MatchesFor(event) : file = FilesOf(event, matches, {})
  BY DEF Init, MatchesFor
<1>2. /\ file["scouterList"] = Scouters({}) /\ file["compMatchNums"] = matches
      /\ file["teamCompList"] = Teams(event, {}) /\ file["compID"] = Of(event)
  BY <1>1 DEF FilesOf, Files
<1>3. file \in [Files -> Contents]
  <2>1. event \in Events
    BY DEF Init
  <2>2. matches \in Contents /\ Roster \in Contents /\ Of(event) \in Contents
    BY <2>1 DEF MatchesFor, Contents
  <2>3. \A f \in Files : FilesOf(event, matches, {})[f] \in Contents
    BY <2>2 DEF FilesOf, Files, Scouters, Teams
  <2> QED
    BY <1>1, <2>3 DEF FilesOf
<1>4. TypeOK
  BY <1>3 DEF Init, TypeOK
<1>5. UpdateInv /\ RosterInv
  BY <1>2 DEF Init, UpdateInv, RosterInv
<1> QED
  BY <1>4, <1>5 DEF Inv

\* Every statement preserves the whole invariant.
LEMMA Preserved == Inv /\ [Next]_vars => Inv'
  BY TypeStep, UpdateStep, RosterStep DEF Inv

\* The invariant holds throughout, whatever requests fail and whenever the
\* program dies.
THEOREM Invariance == Spec => []Inv
<1> QED
  BY Initially, Preserved, PTL DEF Spec

\* Types are kept, whatever requests fail, whichever list is cut short and whenever
\* the program dies: a file never holds anything but what a handler writes.
THEOREM TypeCorrect == Spec => []TypeOK
<1>1. Inv => TypeOK
  BY DEF Inv
<1> QED
  BY <1>1, Invariance, PTL

\* TabletsGetOneEvent: the four files read for TRANS_SEND_LOCAL_DB
\* (bluetoothConductor.hpp 25-46) are one event's, the list of teams or of scouters in
\* part exactly if its last update did not read it to the end, unless another fault
\* of the last updates (no answer to the request for the teams, a file that could not be
\* opened, the program dying) says why not.
THEOREM FilesAgree == Spec => TabletsGetOneEvent
<1>1. Inv /\ [Next]_vars => [SendFiles /\ faults \subseteq CutShort => OneEvent(file, faults)]_vars
  BY IdleIsOneEvent DEF Inv, SendFiles
<1> QED
  BY <1>1, Invariance, PTL DEF Spec, TabletsGetOneEvent
=============================================================================
