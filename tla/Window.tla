------------------------------- MODULE Window -------------------------------
(***************************************************************************)
(* The main loop as far as the user sees it: scenes and tabs, and which     *)
(* button a press of the mouse sets off (main.cpp 163-389, button.hpp       *)
(* 50-92, textBox.hpp 23-31, empty.hpp, tabHandler.hpp).  A frame asks the  *)
(* tabs, then the buttons of its scene, where the last frame drew them,     *)
(* draws, and polls the mouse and the keys at its end.  What the buttons do *)
(* besides changing the scene, and the E key, is in the other modules.  A   *)
(* kill button stands for that of any tablet listed at the time.            *)
(***************************************************************************)
EXTENDS Integers, FiniteSets

CONSTANTS ScannerButtons,   \* AmplifyBlue, AmplifyRed
          DatabaseButtons,  \* rest, DB, scouterUpdate: all before upload
          KillButtons,      \* of the tablets in the Bluetooth list
          MaxStray          \* bound: buttons clicked by chance in a frame

ASSUME ButtonsAssumption ==
  /\ {"mainTab", "databaseTab", "bluetoothTab", "upload", "tba", "pong", "disconnectAll",
      "pongback", "pongreset", "background"}
       \cap (ScannerButtons \cup DatabaseButtons \cup KillButtons) = {}
  /\ ScannerButtons \cap DatabaseButtons = {}
  /\ KillButtons \cap (ScannerButtons \cup DatabaseButtons) = {}
ASSUME StrayAssumption == MaxStray \in Nat

VARIABLES pc,           \* where the frame is: "tabs", "scene" or "poll"
          scene,        \* currentScene
          disabled,     \* tabs disabled
          latch,        \* buttons whose lastClickState is set ...
          strayed,      \* ... by chance, before they were ever drawn
          drawn, shown, \* scenes drawn at least once, and the one drawn last
          selected,     \* text boxes selected
          mouse,        \* polled: what is under the mouse button held down
          f11,          \* polled: "up", "pressed", or "used" once acted upon
          released,     \* polled: the kill button the mouse was let go on
          due,          \* at the poll: the buttons that are to be set off
          aim,          \* buttons in view when the mouse came to where it is
          lastPress,    \* what the mouse was held on last
          hold,         \* buttons set off since the mouse is where it is
          unasked,      \* tabs not asked in this frame
          again,        \* "button" or "key": set off twice by one press
          faults        \* what has gone wrong since the mouse was up

input == <<mouse, released, due, aim, lastPress>>
vars  == <<pc, scene, disabled, latch, strayed, drawn, shown, selected, f11, input,
           hold, unasked, again, faults>>

Tabs   == {"mainTab", "databaseTab", "bluetoothTab"}
TabOf  == [SCANNING |-> "mainTab", DATABASE |-> "databaseTab", BLUETOOTH |-> "bluetoothTab"]
Scenes == {"SCANNING", "DATABASE", "BLUETOOTH", "PONG"}

ButtonsOf == [SCANNING  |-> ScannerButtons,
              DATABASE  |-> DatabaseButtons \cup {"upload", "tba"},
              BLUETOOTH |-> {"disconnectAll", "pong"} \cup KillButtons,
              PONG      |-> {"pongback", "pongreset"}]
BoxesOf   == [SCANNING |-> {"matchBox"}, DATABASE |-> {"uploadBatch", "tbaEvent"},
              BLUETOOTH |-> {}, PONG |-> {}]
Buttons == Tabs \cup UNION {ButtonsOf[s] : s \in Scenes}
Boxes   == UNION {BoxesOf[s] : s \in Scenes}

\* Where the mouse may be held down.  Two buttons of different scenes are drawn at
\* the same place: both at the bottom right, and both at the top right.
Up         == {}
Background == {"background"}
Shared     == {{"pongback", "disconnectAll"}, {"pong", "pongreset"}}
Releases   == {{}} \cup {{k} : k \in KillButtons}
Places     == {{w} : w \in (Buttons \ {"pong"}) \cup Boxes} \cup Shared \cup {Up, Background}

Init ==
  /\ pc = "tabs" /\ scene = "SCANNING" /\ disabled = {"mainTab"} /\ latch = {} /\ strayed = {}
  /\ drawn = {} /\ shown = "SCANNING" /\ selected = {}
  /\ mouse = Up /\ f11 = "up" /\ released = {} /\ due = {} /\ aim = {} /\ lastPress = Up
  /\ hold = {} /\ unasked = {} /\ again = {} /\ faults = {}

-----------------------------------------------------------------------------
(* Button::isPressed: a button clicked is set off unless it was clicked when it
   was asked last.  Button::isReleased, of the kill buttons: one the mouse is let
   go on is set off if it was. *)

Pressed(clicked) == clicked \ (latch \cup KillButtons)
ReleasedAnyhow(asked) == asked \cap released
Released(asked) == asked \cap released \cap latch
SetsOff(asked, clicked) == Pressed(clicked) \cup Released(asked)

PressNoLatch(asked, clicked) ==
  /\ latch' = latch \ asked /\ strayed' = strayed \ asked
  /\ hold' = hold \cup SetsOff(asked, clicked)
PressKeepsLatch(asked, clicked) ==
  /\ latch' = latch \cup clicked /\ strayed' = (strayed \ asked) \cup (clicked \ mouse)
  /\ hold' = hold \cup SetsOff(asked, clicked)
Press(asked, clicked) ==
  /\ latch' = (latch \ asked) \cup clicked
  /\ strayed' = (strayed \ asked) \cup (clicked \ mouse)
  /\ hold' = hold \cup SetsOff(asked, clicked)
Twice(off) == IF off \cap hold # {} THEN {"button"} ELSE {}

\* A scene may be asked before it is on the screen, and before it ever was; what
\* was clicked by chance then may be let go on.
Unseen(off) ==
  (IF shown # scene /\ off # {} THEN {"scene not on the screen"} ELSE {})
  \cup (IF off \cap released \cap strayed # {} THEN {"not drawn yet"} ELSE {})

-----------------------------------------------------------------------------
(* A frame *)

\* F11 switches to the full screen or back.  The tabs are asked in their order up to
\* the first one pressed, which shows its scene; a tab disabled keeps its
\* lastClickState.
Before(t) == CASE t = "mainTab" -> {}
               [] t = "databaseTab" -> {"mainTab"}
               [] t = "bluetoothTab" -> {"mainTab", "databaseTab"}

ShowSceneKeepDisabled(s) ==
  /\ scene' = s
  /\ disabled' = disabled \cup {TabOf[s]}
ShowScene(s) ==
  /\ scene' = s
  /\ disabled' = {TabOf[s]}

AskTabs ==
  /\ pc = "tabs" /\ pc' = "scene"
  /\ f11' = IF f11 = "up" THEN "up" ELSE "used"
  /\ LET clicked == mouse \cap (Tabs \ disabled)
     IN  /\ \/ \E s \in DOMAIN TabOf :
                 /\ TabOf[s] \in Pressed(clicked)
                 /\ unasked' = disabled \cup (Tabs \ (Before(TabOf[s]) \cup {TabOf[s]}))
                 /\ ShowScene(s)
            \/ /\ Pressed(clicked) = {}
               /\ unasked' = disabled /\ UNCHANGED <<scene, disabled>>
         /\ Press(Tabs \ unasked', clicked)
         /\ again' = again \cup Twice(Pressed(clicked)) \cup (IF f11 = "used" THEN {"key"} ELSE {})
         /\ faults' = faults \cup Unseen(Pressed(clicked))
  /\ UNCHANGED <<drawn, shown, selected, input>>

\* A button never drawn, one of a scene never shown or that of a tablet just listed,
\* reads coordinates nobody has set: with the mouse button down it may be clicked
\* wherever the mouse is.
Stray(asked, stray) ==
  /\ stray \subseteq asked /\ Cardinality(stray) <= MaxStray
  /\ stray # {} => mouse # Up
  /\ scene \in drawn => stray \subseteq KillButtons
Asked(asked, clicked, cut) ==
  /\ Press(asked, clicked)
  /\ again' = again \cup Twice(SetsOff(asked, clicked))
  /\ faults' = faults \cup Unseen(SetsOff(asked, clicked)) \cup cut

\* The boxes of the scene are drawn, and a box is selected by a press on it until
\* one beside it.
DrawAnything ==
  /\ pc' = "poll" /\ drawn' = drawn \cup {scene} /\ shown' = scene
  /\ selected' = IF mouse = Up THEN selected ELSE (selected \ BoxesOf[scene]) \cup mouse
DrawKeepSelected ==
  /\ pc' = "poll" /\ drawn' = drawn \cup {scene} /\ shown' = scene
  /\ selected' = selected \cup (mouse \cap BoxesOf[scene])
Draw ==
  /\ pc' = "poll" /\ drawn' = drawn \cup {scene} /\ shown' = scene
  /\ selected' = IF mouse = Up THEN selected
                 ELSE (selected \ BoxesOf[scene]) \cup (mouse \cap BoxesOf[scene])

\* No button of this scene leads to another one.
ScannerFrame(stray) ==
  /\ pc = "scene" /\ scene = "SCANNING"
  /\ LET clicked == (mouse \cap ButtonsOf[scene]) \cup stray
     IN  Stray(ButtonsOf[scene], stray) /\ Asked(ButtonsOf[scene], clicked, {})
  /\ Draw
  /\ UNCHANGED <<scene, disabled, f11, input, unasked>>

\* An upload that gets no number leaves the frame at once: nothing after it is
\* asked, drawn or polled, and the next frame sees the same mouse and keys.
DatabaseFrame(stray, numberless) ==
  /\ pc = "scene" /\ scene = "DATABASE"
  /\ LET asked   == IF numberless THEN ButtonsOf[scene] \ {"tba"} ELSE ButtonsOf[scene]
         clicked == (mouse \cap asked) \cup stray
     IN  /\ Stray(asked, stray) /\ Asked(asked, clicked, IF numberless THEN {"frame cut"} ELSE {})
         /\ numberless => "upload" \in Pressed(clicked)
  /\ IF numberless THEN pc' = "tabs" /\ UNCHANGED <<drawn, shown, selected>> ELSE Draw
  /\ UNCHANGED <<scene, disabled, f11, input, unasked>>

\* getNameList asks the kill buttons.
BluetoothFrame(stray) ==
  /\ pc = "scene" /\ scene = "BLUETOOTH"
  /\ LET clicked == (mouse \cap ButtonsOf[scene]) \cup stray
     IN  /\ Stray(ButtonsOf[scene], stray) /\ Asked(ButtonsOf[scene], clicked, {})
         /\ scene' = IF "pong" \in Pressed(clicked) THEN "PONG" ELSE scene
  /\ Draw
  /\ UNCHANGED <<disabled, f11, input, unasked>>

PongFrameTabsOn(stray) ==
  /\ pc = "scene" /\ scene = "PONG"
  /\ LET clicked == (mouse \cap ButtonsOf[scene]) \cup stray
     IN  /\ Stray(ButtonsOf[scene], stray) /\ Asked(ButtonsOf[scene], clicked, {})
         /\ IF "pongback" \in Pressed(clicked)
            THEN scene' = "BLUETOOTH" /\ disabled' = {"bluetoothTab"}
            ELSE UNCHANGED <<scene, disabled>>
  /\ Draw
  /\ UNCHANGED <<f11, input, unasked>>
PongFrame(stray) ==
  /\ pc = "scene" /\ scene = "PONG"
  /\ LET clicked == (mouse \cap ButtonsOf[scene]) \cup stray
     IN  /\ Stray(ButtonsOf[scene], stray) /\ Asked(ButtonsOf[scene], clicked, {})
         /\ IF "pongback" \in Pressed(clicked)
            THEN scene' = "BLUETOOTH" /\ disabled' = {"bluetoothTab"}
            ELSE disabled' = Tabs /\ scene' = scene
  /\ Draw
  /\ UNCHANGED <<f11, input, unasked>>

\* EndDrawing, after the tabs are drawn; the user sees the scene just drawn.  What is
\* in view is set off by a press, or by a release of the press a kill button saw, but
\* for a tab not asked in this frame, a button latched by chance, and the buttons of a
\* scene just left.
InView == ButtonsOf[shown] \cup (IF scene = "PONG" THEN {} ELSE Tabs \ disabled)
Excused == unasked \cup strayed \cup (IF scene = shown THEN {} ELSE ButtonsOf[shown])
EndDrawing(m, r, key) ==
  /\ pc = "poll" /\ pc' = "tabs"
  /\ m \in Places /\ mouse' = m /\ key \in {"up", "pressed"} /\ f11' = key
  /\ r \in Releases /\ released' = r /\ (r # {} => m = Up /\ mouse # Up)
  /\ due' = (InView \ Excused) \cap (((m \ mouse) \ KillButtons) \cup (mouse \cap r))
  /\ aim' = IF m = mouse THEN aim ELSE InView
  /\ lastPress' = IF m = Up THEN lastPress ELSE m
  /\ hold' = IF m = mouse /\ m # Up THEN hold ELSE {}
  /\ IF m = Up THEN again' = {} /\ faults' = {} ELSE UNCHANGED <<again, faults>>
  /\ UNCHANGED <<scene, disabled, latch, strayed, drawn, shown, selected, unasked>>

-----------------------------------------------------------------------------
Frame == \/ AskTabs
         \/ \E stray \in SUBSET ButtonsOf[scene] :
              \/ ScannerFrame(stray) \/ BluetoothFrame(stray) \/ PongFrame(stray)
              \/ \E numberless \in BOOLEAN : DatabaseFrame(stray, numberless)
Input == \E m \in Places, r \in Releases, key \in {"up", "pressed"} : EndDrawing(m, r, key)

Next == Frame \/ Input
Spec == Init /\ [][Next]_vars

-----------------------------------------------------------------------------
(* Properties *)

TypeOK ==
  /\ pc \in {"tabs", "scene", "poll"} /\ scene \in Scenes
  /\ disabled \subseteq Tabs /\ unasked \subseteq Tabs
  /\ latch \subseteq Buttons /\ strayed \subseteq latch /\ due \subseteq Buttons
  /\ aim \subseteq Buttons /\ hold \subseteq Buttons
  /\ drawn \subseteq Scenes /\ shown \in Scenes /\ selected \subseteq Boxes
  /\ mouse \in Places /\ lastPress \in Places /\ released \in Releases
  /\ f11 \in {"up", "pressed", "used"}
  /\ again \subseteq {"button", "key"} /\ faults \subseteq {"scene not on the screen", "not drawn yet", "frame cut"}

\* The tab of the scene shown is the disabled one, whichever way the scene was
\* reached; pong, reached by no tab, has all of them disabled from its first frame on.
TabsMatchScene ==
  IF scene = "PONG" THEN disabled = Tabs \/ disabled = {"bluetoothTab"}
                    ELSE disabled = {TabOf[scene]}

\* However long the mouse is held, it sets off a button once, and F11 switches once
\* for a press: even when a frame that uploads is cut and seen again, the upload is
\* not; but the key is.
OncePerPress ==
  /\ "button" \notin again
  /\ "key" \in again => "frame cut" \in faults

\* What a press sets off was in view when it began, whatever frames it is held
\* through; but a scene is asked before it is on the screen: "Back" of pong, held
\* into the next frame, resets all tablets by the button that will be drawn there.
\* And a tablet is removed only by a kill button the mouse was held down on until
\* it was let go there, however the scenes changed; but a tablet just listed may
\* take any press for one on its button.
OnlyWhatIsInView ==
  /\ hold \subseteq aim \/ "scene not on the screen" \in faults
  /\ hold \cap KillButtons \subseteq lastPress \/ "not drawn yet" \in faults

\* A press on a button in view, or a release on a kill button pressed, is not lost,
\* but for three (Excused): a press on a tab not asked in the last frame, whose
\* lastClickState was not brought up to date while it was disabled; on a button
\* latched by chance before its first drawing; and on a button of the scene just
\* left, which was drawn once more: "Reset" of pong, right after "Back".
NoPressLost == pc = "poll" => due \subseteq hold

\* What is typed goes to the text box pressed last, also when the scene has changed
\* meanwhile: no box of the scene shown is selected otherwise.
TypedWhereLastPressed ==
  pc = "poll" => selected \cap BoxesOf[scene] \subseteq lastPress
=============================================================================
