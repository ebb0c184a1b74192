------------------------------ MODULE EventFiles ------------------------------
(***************************************************************************)
(* The four files about an event that the computer sends to every tablet    *)
(* (resources/csv).  Three come from The Blue Alliance, each by its own     *)
(* request (main.cpp 324-335, restReqHandler.hpp 31-110, jsonParser.hpp),   *)
(* the list of scouters from the database (main.cpp 263-276).  The reply to *)
(* a tablet reads all four (bluetoothConductor.hpp 24-74).  All of it runs  *)
(* on the GUI thread.  An ofstream empties its file when it is opened and   *)
(* writes when it is closed; the program may die in between.                *)
(***************************************************************************)
EXTENDS Integers

CONSTANT Events      \* event keys

VARIABLES pc,       \* "idle" or the statement the handler is at
          event,    \* tbaDataEvent.getText()
          file,     \* contents of the four files
          faults,   \* what the last update of each kind could not do
          net,      \* external: "up", or a request gets no answer
          asked     \* external: a tablet waits for the files

vars == <<pc, event, file, faults, net, asked>>

Files == {"scouterList", "teamCompList", "compMatchNums", "compID"}
Empty   == [kind |-> "empty"]
Roster  == [kind |-> "scouters"]
Default == [kind |-> "150 matches"]          \* no event has a say in it
Of(e)   == [kind |-> "event", event |-> e]
PartOfRoster == [kind |-> "first scouters"]
PartOf(e) == [kind |-> "first teams", event |-> e]
Contents == {Empty, Roster, PartOfRoster, Default} \cup {Of(e) : e \in Events}
            \cup {PartOf(e) : e \in Events}

EventFaults  == {"teams not got", "teams cut short", "file not opened", "died updating"}
RosterFaults == {"scouters cut short", "died writing scouters"}
CutShort     == {"teams cut short", "scouters cut short"}

\* The files of an event, those whose update was cut short in part.
Scouters(cut) == IF "scouters cut short" \in cut THEN PartOfRoster ELSE Roster
Teams(e, cut) == IF "teams cut short" \in cut THEN PartOf(e) ELSE Of(e)
FilesOf(e, matches, cut) ==
  [f \in Files |-> CASE f = "scouterList"   -> Scouters(cut)
                     [] f = "teamCompList"  -> Teams(e, cut)
                     [] f = "compMatchNums" -> matches
                     [] f = "compID"        -> Of(e)]

\* As the repository ships them.
Init ==
  /\ pc = "idle" /\ event \in Events
  /\ file \in {FilesOf(event, matches, {}) : matches \in {Of(event), Default}}
  /\ faults = {} /\ net = "up" /\ asked = FALSE

Blame(f, happened) == faults' = IF happened THEN faults \cup {f} ELSE faults
Truncate(f) == file' = [file EXCEPT ![f] = Empty]
Fill(f, c)  == file' = [file EXCEPT ![f] = c]
Outside == UNCHANGED <<net, asked>>

-----------------------------------------------------------------------------
(* Update from The Blue Alliance *)

\* The reply to event/<key>/simple is at least seven characters long and no
\* error message; anything else leaves a toast.
UpdateEvent(e) ==
  /\ pc = "idle" /\ net = "up"
  /\ event' = e /\ pc' = "matches" /\ faults' = faults \ EventFaults
  /\ UNCHANGED file /\ Outside

\* getMatchData asks for the matches, then opens its file in any case.
GetMatchData(opens) ==
  /\ pc = "matches" /\ net = "up"
  /\ IF opens THEN Truncate("compMatchNums") ELSE UNCHANGED file
  /\ pc' = IF opens THEN "write matches" ELSE "teams"
  /\ Blame("file not opened", ~opens)
  /\ UNCHANGED event /\ Outside

\* No list of matches, or fewer than 40 in it, and 150 are written.
WriteMatchesFound(matches) ==
  /\ pc = "write matches" /\ matches = Of(event)
  /\ Fill("compMatchNums", matches) \/ Fill("compMatchNums", [kind |-> "0 matches"])
  /\ pc' = "teams"
  /\ UNCHANGED <<event, faults>> /\ Outside
WriteMatches(matches) ==
  /\ pc = "write matches" /\ matches \in {Of(event), Default}
  /\ Fill("compMatchNums", matches) /\ pc' = "teams"
  /\ UNCHANGED <<event, faults>> /\ Outside

\* getteamsatcomphdata: its file is opened only for a list of teams; a failed
\* request, or an event without teams, leaves the old one.
GetTeams(teams, opens) ==
  /\ pc = "teams" /\ net = "up"
  /\ IF teams /\ opens THEN Truncate("teamCompList") ELSE UNCHANGED file
  /\ pc' = IF teams /\ opens THEN "write teams" ELSE "compID"
  /\ faults' = faults \cup (IF ~teams THEN {"teams not got"} ELSE IF ~opens THEN {"file not opened"} ELSE {})
  /\ UNCHANGED event /\ Outside

\* parseTeams keeps the teams before the first one it cannot read, and tells
\* nobody.
WriteTeams(whole) ==
  /\ pc = "write teams" /\ pc' = "compID"
  /\ Fill("teamCompList", IF whole THEN Of(event) ELSE PartOf(event))
  /\ Blame("teams cut short", ~whole)
  /\ UNCHANGED event /\ Outside

\* The name of the event is written whatever became of the other two.
OpenCompIDOrStartOver(opens) ==
  /\ pc = "compID"
  /\ IF opens THEN Truncate("compID") ELSE UNCHANGED file
  /\ pc' = IF opens THEN "write compID" ELSE "matches"
  /\ Blame("file not opened", ~opens)
  /\ UNCHANGED event /\ Outside
OpenCompID(opens) ==
  /\ pc = "compID"
  /\ IF opens THEN Truncate("compID") ELSE UNCHANGED file
  /\ pc' = IF opens THEN "write compID" ELSE "idle"
  /\ Blame("file not opened", ~opens)
  /\ UNCHANGED event /\ Outside

WriteCompID ==
  /\ pc = "write compID" /\ Fill("compID", Of(event)) /\ pc' = "idle"
  /\ UNCHANGED <<event, faults>> /\ Outside

-----------------------------------------------------------------------------
(* Update of the scouters *)

\* A query without rows ends the program at result[0], before the file is
\* opened; a file that cannot be opened stays as it was.
UpdateScouters ==
  /\ pc = "idle" /\ Truncate("scouterList") /\ pc' = "write scouters"
  /\ UNCHANGED <<event, faults>> /\ Outside

\* Database::query takes a row that cannot be fetched for the end of the result.
WriteScouters(whole) ==
  /\ pc = "write scouters" /\ pc' = "idle"
  /\ Fill("scouterList", IF whole THEN Roster ELSE PartOfRoster)
  /\ faults' = (faults \ RosterFaults) \cup (IF whole THEN {} ELSE {"scouters cut short"})
  /\ UNCHANGED event /\ Outside

-----------------------------------------------------------------------------
(* The tablets, the network and the end of the program *)

TabletAsks ==
  /\ ~asked /\ asked' = TRUE
  /\ UNCHANGED <<pc, event, file, faults, net>>

\* TRANS_SEND_LOCAL_DB, and the hash of the same text: all four files are read
\* in one go, between two buttons.
SendFilesDuringUpdate ==
  /\ asked /\ asked' = FALSE
  /\ UNCHANGED <<pc, event, file, faults, net>>
SendFiles ==
  /\ pc = "idle" /\ asked /\ asked' = FALSE
  /\ UNCHANGED <<pc, event, file, faults, net>>

\* curl has no timeout: a request that gets no answer keeps the frame.
Network ==
  /\ net' = IF net = "up" THEN "silent" ELSE "up"
  /\ UNCHANGED <<pc, event, file, faults, asked>>

Restart ==
  /\ pc # "idle" /\ pc' = "idle" /\ asked' = FALSE
  /\ faults' = faults \cup {IF pc = "write scouters" THEN "died writing scouters" ELSE "died updating"}
  /\ UNCHANGED <<event, file, net>>

-----------------------------------------------------------------------------
Request == \E ok, teams \in BOOLEAN : GetMatchData(ok) \/ GetTeams(teams, ok)
Write ==
  \/ \E matches \in Contents : WriteMatches(matches)
  \/ \E whole \in BOOLEAN : WriteTeams(whole) \/ WriteScouters(whole)
  \/ \E opens \in BOOLEAN : OpenCompID(opens)
  \/ WriteCompID
Button == UpdateScouters \/ \E e \in Events : UpdateEvent(e)

Next == Request \/ Write \/ Button \/ TabletAsks \/ SendFiles \/ Network \/ Restart
Spec == Init /\ [][Next]_vars

\* The GUI thread goes on, and looks at the tablets once in every frame.
Fairness == WF_vars(Request) /\ WF_vars(Write) /\ SF_vars(SendFiles)
FairSpec == Spec /\ Fairness

-----------------------------------------------------------------------------
(* Properties *)

TypeOK ==
  /\ pc \in {"idle", "matches", "write matches", "teams", "write teams", "compID", "write compID", "write scouters"}
  /\ event \in Events
  /\ file \in [Files -> Contents]
  /\ faults \subseteq EventFaults \cup RosterFaults
  /\ net \in {"up", "silent"} /\ asked \in BOOLEAN

\* The four files describe one event, and are whole but for those cut short.
OneEvent(f, cut) ==
  \E e \in Events : f \in {FilesOf(e, matches, cut) : matches \in {Of(e), Default}}

\* A tablet never gets the teams or matches of one event under the name of
\* another, nor an empty file, unless the last update of the files could not do
\* its work.  It gets a list of teams or of scouters cut short exactly if the last
\* update of that list did not read it to its end, which the program does not
\* notice.  A later update that can do its work repairs what earlier ones left.
TabletsGetOneEvent ==
  [][SendFiles /\ faults \subseteq CutShort => OneEvent(file, faults)]_vars

\* A tablet that asks is answered, or the program died, unless a request stays
\* without an answer for ever.
TabletAnswered == <>[](net = "up") => (asked ~> ~asked)
=============================================================================
