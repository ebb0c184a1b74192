---------------------------- MODULE WindowProofs ----------------------------
(* Proofs about Window, for any buttons of the scenes and tablets in the list. *)
EXTENDS Window, TLAPS

-----------------------------------------------------------------------------
(* The inductive invariant, in parts *)

MouseInv ==
  /\ mouse # Up => lastPress = mouse
  /\ mouse = Up => hold \subseteq KillButtons /\ (pc # "poll" => hold = {})
  /\ released # {} => mouse = Up
  /\ shown \in drawn \/ (drawn = {} /\ mouse = Up /\ pc # "poll")

\* A frame seen twice follows one that was cut.
KeyInv ==
  /\ pc = "tabs" /\ f11 = "used" => "frame cut" \in faults
  /\ "key" \in again => "frame cut" \in faults

\* What the mouse has set off is latched while it is held: a scene button that
\* is not was set off by mistake, and its scene has been drawn since.
HeldInv ==
  /\ hold \cap Tabs \subseteq mouse \cap latch
  /\ \A b \in hold : b \in latch \/ (b \notin mouse /\ \E s \in drawn : b \in ButtonsOf[s])
  /\ "DATABASE" \notin drawn /\ hold \cap ButtonsOf["DATABASE"] # {} => "upload" \in hold
  /\ "button" \notin again

\* What the mouse is on was in view when it came there, or is latched.
ViewInv ==
  /\ scene = "PONG" /\ shown = "PONG" => disabled = Tabs
  /\ "scene not on the screen" \notin faults =>
       /\ hold \subseteq aim
       /\ shown = scene => mouse \cap ButtonsOf[scene] \subseteq aim \cup latch
       /\ (scene # "PONG" \/ shown = "PONG") => mouse \cap (Tabs \ disabled) \subseteq aim \cup latch

TypedInv == pc = "poll" \/ mouse = Up => selected \cap BoxesOf[scene] \subseteq lastPress

\* A kill button stays latched out of sight only in the scenes of the other tabs, or
\* by chance: one let go on was pressed last.
KillInv ==
  /\ "BLUETOOTH" \notin drawn =>
       /\ scene # "PONG"
       /\ scene = "BLUETOOTH" => pc = "scene" /\ mouse \cap ButtonsOf["BLUETOOTH"] = {}
  /\ scene = "PONG" \/ (pc = "poll" /\ scene = "BLUETOOTH" /\ shown # "BLUETOOTH") =>
       latch \cap KillButtons \subseteq strayed
  /\ pc # "poll" /\ scene = "BLUETOOTH" =>
       /\ released \cap latch \subseteq strayed \cup lastPress
       /\ shown = "BLUETOOTH" => released \subseteq aim
FiredInv == hold \cap KillButtons \subseteq lastPress \/ "not drawn yet" \in faults

\* At a poll the latches asked in this frame are as the mouse is, but for those set
\* by chance; after it, nothing keeps a button that is due from being set off.
LatchInv ==
  /\ pc # "tabs" => latch \cap (Tabs \ unasked) \subseteq mouse
  /\ pc = "poll" => /\ latch \cap ButtonsOf[shown] \subseteq mouse \cup strayed
                    /\ mouse \cap ButtonsOf[shown] \subseteq latch
DueInv ==
  \A b \in due :
    \/ b \in hold
    \/ pc = "tabs" /\ b \in Tabs \cap mouse /\ b \notin latch /\ b \notin disabled
    \/ pc # "poll" /\ b \in ButtonsOf[scene] \cap mouse /\ b \notin latch /\ b \notin KillButtons
    \/ pc # "poll" /\ b \in ButtonsOf[scene] \cap KillButtons /\ b \in released /\ b \in latch

Inv == /\ TypeOK /\ MouseInv /\ KeyInv /\ HeldInv /\ TabsMatchScene /\ ViewInv
       /\ TypedInv /\ KillInv /\ FiredInv /\ LatchInv /\ DueInv

-----------------------------------------------------------------------------
(* Names: which buttons and places are different ones *)

\* No button belongs to two scenes, and no tab to any.
LEMMA Names ==
  /\ \A s \in Scenes : Tabs \cap ButtonsOf[s] = {} /\ ButtonsOf[s] \subseteq Buttons
  /\ \A s, u \in Scenes : s # u => ButtonsOf[s] \cap ButtonsOf[u] = {}
  /\ KillButtons \subseteq ButtonsOf["BLUETOOTH"] /\ KillButtons \cap Tabs = {}
  /\ {"pong", "pongback", "upload"} \cap KillButtons = {}
<1>1. /\ ButtonsOf["SCANNING"] = ScannerButtons /\ ButtonsOf["DATABASE"] = DatabaseButtons \cup {"upload", "tba"}
      /\ ButtonsOf["BLUETOOTH"] = {"disconnectAll", "pong"} \cup KillButtons
      /\ ButtonsOf["PONG"] = {"pongback", "pongreset"}
  BY DEF ButtonsOf
<1>2. \A s \in Scenes : s \in {"SCANNING", "DATABASE", "BLUETOOTH", "PONG"}
  BY DEF Scenes
<1>3. \A s \in Scenes : Tabs \cap ButtonsOf[s] = {}
  BY <1>1, <1>2, ButtonsAssumption DEF Tabs
<1>4. \A s \in Scenes : ButtonsOf[s] \subseteq Buttons
  BY DEF Buttons
<1>5. ASSUME NEW s \in Scenes, NEW u \in Scenes, s # u PROVE ButtonsOf[s] \cap ButtonsOf[u] = {}
  <2>1. CASE s = "SCANNING"
    BY <1>1, <1>2, <1>5, <2>1, ButtonsAssumption
  <2>2. CASE s = "DATABASE"
    BY <1>1, <1>2, <1>5, <2>2, ButtonsAssumption
  <2>3. CASE s = "BLUETOOTH"
    BY <1>1, <1>2, <1>5, <2>3, ButtonsAssumption
  <2>4. CASE s = "PONG"
    BY <1>1, <1>2, <1>5, <2>4, ButtonsAssumption
  <2> QED
    BY <1>2, <2>1, <2>2, <2>3, <2>4
<1>6. /\ KillButtons \subseteq ButtonsOf["BLUETOOTH"] /\ KillButtons \cap Tabs = {}
      /\ {"pong", "pongback", "upload"} \cap KillButtons = {}
  BY <1>1, ButtonsAssumption DEF Tabs
<1> QED
  BY <1>3, <1>4, <1>5, <1>6

\* The mouse on a tab is on nothing else.
LEMMA TabAlone == ASSUME NEW m \in Places, NEW t \in Tabs \cap m PROVE m = {t}
<1>1. CASE \E w \in (Buttons \ {"pong"}) \cup Boxes : m = {w}
  BY <1>1
<1>2. CASE m \in Shared
  BY <1>2 DEF Shared, Tabs
<1>3. CASE m \in {Up, Background}
  BY <1>3 DEF Up, Background, Tabs
<1> QED
  BY <1>1, <1>2, <1>3 DEF Places

\* It is on no kill button when it is on "pong", and lets go of nothing else.
LEMMA PongAlone == ASSUME NEW m \in Places, "pong" \in m PROVE m \cap KillButtons = {}
<1>1. CASE \E w \in (Buttons \ {"pong"}) \cup Boxes : m = {w}
  BY <1>1 DEF Boxes, BoxesOf, Scenes
<1>2. CASE m \in Shared
  BY <1>2, ButtonsAssumption DEF Shared
<1>3. CASE m \in {Up, Background}
  BY <1>3 DEF Up, Background
<1> QED
  BY <1>1, <1>2, <1>3 DEF Places
LEMMA LetGo == TypeOK => released \subseteq KillButtons
  BY DEF TypeOK, Releases

\* The scene a tab shows, and its name.
LEMMA TabNames ==
  \A s \in DOMAIN TabOf : s \in Scenes /\ s # "PONG" /\ TabOf[s] \in Tabs
BY DEF TabOf, Scenes, Tabs

-----------------------------------------------------------------------------
(* What the frames of all scenes have in common *)

SceneStep(asked, clicked) ==
  /\ pc = "scene" /\ asked \subseteq ButtonsOf[scene]
  /\ clicked \subseteq asked /\ mouse \cap asked \subseteq clicked
  /\ clicked \subseteq mouse \cup KillButtons \/ scene \notin drawn
  /\ mouse = Up => clicked = {}
  /\ latch' = (latch \ asked) \cup clicked /\ strayed' = (strayed \ asked) \cup (clicked \ mouse)
  /\ hold' = hold \cup SetsOff(asked, clicked)
  /\ again' = again \cup Twice(SetsOff(asked, clicked))
  /\ faults \subseteq faults'
  /\ faults' \subseteq faults \cup {"scene not on the screen", "not drawn yet", "frame cut"}
  /\ shown # scene /\ SetsOff(asked, clicked) # {} => "scene not on the screen" \in faults'
  /\ SetsOff(asked, clicked) \cap released \cap strayed # {} => "not drawn yet" \in faults'
  /\ f11' = f11 /\ mouse' = mouse /\ released' = released /\ due' = due /\ aim' = aim
  /\ lastPress' = lastPress /\ unasked' = unasked

\* The frame comes to its poll.
Ends(asked) == asked = ButtonsOf[scene] /\ Draw

\* Where the scene's buttons lead.
Leads(clicked) ==
  \/ scene' = scene /\ disabled' = disabled /\ scene # "PONG"
  \/ scene = "BLUETOOTH" /\ scene' = "PONG" /\ disabled' = disabled /\ "pong" \in Pressed(clicked)
  \/ scene = "PONG" /\ scene' = "PONG" /\ disabled' = Tabs
  \/ /\ scene = "PONG" /\ scene' = "BLUETOOTH" /\ disabled' = {"bluetoothTab"}
     /\ "pongback" \in Pressed(clicked)

Cut(clicked) ==
  /\ scene = "DATABASE" /\ "upload" \in Pressed(clicked) /\ "frame cut" \in faults'
  /\ pc' = "tabs" /\ drawn' = drawn /\ shown' = shown /\ selected' = selected
  /\ scene' = scene /\ disabled' = disabled

SceneFrame ==
  \E stray \in SUBSET ButtonsOf[scene] :
    \/ ScannerFrame(stray) \/ BluetoothFrame(stray) \/ PongFrame(stray)
    \/ \E numberless \in BOOLEAN : DatabaseFrame(stray, numberless)

\* The four frames differ in nothing else the invariant speaks of.
LEMMA SceneFrames ==
  ASSUME TypeOK, SceneFrame
  PROVE  \E asked, clicked : SceneStep(asked, clicked) /\ ((Ends(asked) /\ Leads(clicked)) \/ Cut(clicked))
<1>1. ASSUME NEW asked, NEW stray, NEW cut \in {{}, {"frame cut"}}, Stray(asked, stray),
             pc = "scene", asked \subseteq ButtonsOf[scene],
             Asked(asked, (mouse \cap asked) \cup stray, cut), UNCHANGED <<f11, input, unasked>>
      PROVE  SceneStep(asked, (mouse \cap asked) \cup stray) /\ cut \subseteq faults'
  <2> DEFINE clicked == (mouse \cap asked) \cup stray
  <2>1. /\ latch' = (latch \ asked) \cup clicked /\ hold' = hold \cup SetsOff(asked, clicked)
        /\ strayed' = (strayed \ asked) \cup (clicked \ mouse)
        /\ again' = again \cup Twice(SetsOff(asked, clicked))
        /\ faults' = faults \cup Unseen(SetsOff(asked, clicked)) \cup cut
    BY <1>1 DEF Asked, Press
  <2>2. clicked \subseteq mouse \cup KillButtons \/ scene \notin drawn
    BY <1>1 DEF Stray
  <2>3. mouse = Up => clicked = {}
    BY <1>1 DEF Stray, Up
  <2>5. clicked \subseteq asked
    BY <1>1 DEF Stray
  <2>7. mouse \cap asked \subseteq clicked
    BY DEF clicked
  <2> HIDE DEF clicked
  <2>8. /\ shown # scene /\ SetsOff(asked, clicked) # {} => "scene not on the screen" \in faults'
        /\ SetsOff(asked, clicked) \cap released \cap strayed # {} => "not drawn yet" \in faults'
    BY <2>1 DEF Unseen
  <2>4. faults' \subseteq faults \cup {"scene not on the screen", "not drawn yet", "frame cut"}
    BY <2>1 DEF Unseen
  <2>6. faults \subseteq faults' /\ cut \subseteq faults'
    BY <2>1
  <2>9. SceneStep(asked, clicked)
    BY <1>1, <2>1, <2>2, <2>3, <2>4, <2>5, <2>6, <2>7, <2>8 DEF SceneStep, input
  <2> QED
    BY <2>6, <2>9 DEF clicked
<1>2. ASSUME NEW stray \in SUBSET ButtonsOf[scene], ScannerFrame(stray)
      PROVE  \E asked, clicked : SceneStep(asked, clicked) /\ Ends(asked) /\ Leads(clicked)
  <2>1. SceneStep(ButtonsOf[scene], (mouse \cap ButtonsOf[scene]) \cup stray)
    BY <1>1, <1>2 DEF ScannerFrame
  <2> QED
    BY <1>2, <2>1 DEF ScannerFrame, Ends, Leads
<1>3. ASSUME NEW stray \in SUBSET ButtonsOf[scene], BluetoothFrame(stray)
      PROVE  \E asked, clicked : SceneStep(asked, clicked) /\ Ends(asked) /\ Leads(clicked)
  <2>1. SceneStep(ButtonsOf[scene], (mouse \cap ButtonsOf[scene]) \cup stray)
    BY <1>1, <1>3 DEF BluetoothFrame
  <2>2. Leads((mouse \cap ButtonsOf[scene]) \cup stray)
    BY <1>3 DEF BluetoothFrame, Leads
  <2> QED
    BY <1>3, <2>1, <2>2 DEF BluetoothFrame, Ends
<1>4. ASSUME NEW stray \in SUBSET ButtonsOf[scene], PongFrame(stray)
      PROVE  \E asked, clicked : SceneStep(asked, clicked) /\ Ends(asked) /\ Leads(clicked)
  <2>1. SceneStep(ButtonsOf[scene], (mouse \cap ButtonsOf[scene]) \cup stray)
    BY <1>1, <1>4 DEF PongFrame
  <2>2. Leads((mouse \cap ButtonsOf[scene]) \cup stray)
    BY <1>4 DEF PongFrame, Leads
  <2> QED
    BY <1>4, <2>1, <2>2 DEF PongFrame, Ends
<1>5. ASSUME NEW stray \in SUBSET ButtonsOf[scene], DatabaseFrame(stray, FALSE)
      PROVE  \E asked, clicked : SceneStep(asked, clicked) /\ Ends(asked) /\ Leads(clicked)
  <2>1. SceneStep(ButtonsOf[scene], (mouse \cap ButtonsOf[scene]) \cup stray)
    BY <1>1, <1>5 DEF DatabaseFrame
  <2> QED
    BY <1>5, <2>1 DEF DatabaseFrame, Ends, Leads
<1>6. ASSUME NEW stray \in SUBSET ButtonsOf[scene], DatabaseFrame(stray, TRUE)
      PROVE  \E asked, clicked : SceneStep(asked, clicked) /\ Cut(clicked)
  <2> DEFINE asked == ButtonsOf[scene] \ {"tba"}
             clicked == (mouse \cap asked) \cup stray
  <2>1. SceneStep(asked, clicked) /\ {"frame cut"} \subseteq faults'
    BY <1>1, <1>6 DEF DatabaseFrame
  <2>2. Cut(clicked)
    BY <1>6, <2>1 DEF DatabaseFrame, Cut
  <2> QED
    BY <2>1, <2>2
<1> QED
  BY <1>2, <1>3, <1>4, <1>5, <1>6 DEF SceneFrame

-----------------------------------------------------------------------------
(* What asking the tabs comes to *)

TabClicked == mouse \cap (Tabs \ disabled)
Shows(s) ==
  /\ TabOf[s] \in TabClicked \ latch /\ mouse = {TabOf[s]} /\ TabOf[s] \notin unasked'
  /\ scene' = s /\ disabled' = {TabOf[s]}
Stays == TabClicked \subseteq latch /\ unasked' = disabled /\ scene' = scene /\ disabled' = disabled

TabsStep ==
  /\ pc = "tabs" /\ pc' = "scene"
  /\ latch' = (latch \ (Tabs \ unasked')) \cup TabClicked /\ hold' = hold \cup (TabClicked \ latch)
  /\ strayed' = strayed \ (Tabs \ unasked')
  /\ again' = again \cup Twice(TabClicked \ latch) \cup (IF f11 = "used" THEN {"key"} ELSE {})
  /\ f11' = IF f11 = "up" THEN "up" ELSE "used"
  /\ faults \subseteq faults' /\ faults' \subseteq faults \cup {"scene not on the screen", "not drawn yet"}
  /\ shown # scene /\ TabClicked \ latch # {} => "scene not on the screen" \in faults'
  /\ disabled \subseteq unasked' /\ unasked' \subseteq Tabs
  /\ Stays \/ \E s \in DOMAIN TabOf : Shows(s)
  /\ drawn' = drawn /\ shown' = shown /\ selected' = selected
  /\ mouse' = mouse /\ released' = released /\ due' = due /\ aim' = aim /\ lastPress' = lastPress

\* Of the tabs only the one pressed can be under the mouse.
LEMMA TabsSteps == ASSUME TypeOK, AskTabs PROVE TabsStep
<1>0. Pressed(TabClicked) = TabClicked \ latch
  BY Names DEF Pressed, TabClicked
<1>1. /\ latch' = (latch \ (Tabs \ unasked')) \cup TabClicked /\ hold' = hold \cup (TabClicked \ latch)
      /\ strayed' = strayed \ (Tabs \ unasked')
  <2>1. Press(Tabs \ unasked', TabClicked)
    BY DEF AskTabs, TabClicked
  <2>2. Released(Tabs \ unasked') = {}
    BY Names, LetGo DEF Released
  <2>3. SetsOff(Tabs \ unasked', TabClicked) = TabClicked \ latch
    BY <1>0, <2>2 DEF SetsOff
  <2>4. TabClicked \ mouse = {}
    BY DEF TabClicked
  <2> QED
    BY <2>1, <2>3, <2>4 DEF Press
<1>2. /\ again' = again \cup Twice(TabClicked \ latch) \cup (IF f11 = "used" THEN {"key"} ELSE {})
      /\ faults' = faults \cup Unseen(TabClicked \ latch)
      /\ pc = "tabs" /\ pc' = "scene" /\ f11' = IF f11 = "up" THEN "up" ELSE "used"
      /\ drawn' = drawn /\ shown' = shown /\ selected' = selected
      /\ mouse' = mouse /\ released' = released /\ due' = due /\ aim' = aim /\ lastPress' = lastPress
  <2>1. \A x : x = TabClicked => Pressed(x) = TabClicked \ latch
    BY <1>0
  <2> QED
    BY <2>1 DEF AskTabs, TabClicked, input
<1>3. disabled \subseteq Tabs /\ mouse \in Places
  BY DEF TypeOK
<1>4. ASSUME NEW s \in DOMAIN TabOf, TabOf[s] \in Pressed(TabClicked), ShowScene(s),
             unasked' = disabled \cup (Tabs \ (Before(TabOf[s]) \cup {TabOf[s]}))
      PROVE  Shows(s) /\ disabled \subseteq unasked' /\ unasked' \subseteq Tabs
  <2>1. TabOf[s] \in mouse \cap Tabs /\ TabOf[s] \notin disabled
    BY <1>0, <1>4 DEF TabClicked
  <2>2. mouse = {TabOf[s]}
    BY <1>3, <2>1, TabAlone
  <2> QED
    BY <1>0, <1>3, <1>4, <2>1, <2>2 DEF Shows, ShowScene
<1>5. ASSUME Pressed(TabClicked) = {}, unasked' = disabled, UNCHANGED <<scene, disabled>>
      PROVE  Stays /\ disabled \subseteq unasked' /\ unasked' \subseteq Tabs
  BY <1>0, <1>3, <1>5 DEF Stays
<1>6. /\ Stays \/ \E s \in DOMAIN TabOf : Shows(s)
      /\ disabled \subseteq unasked' /\ unasked' \subseteq Tabs
  BY <1>4, <1>5 DEF AskTabs, TabClicked
<1>7. faults' \subseteq faults \cup {"scene not on the screen", "not drawn yet"} /\ faults \subseteq faults'
  BY <1>2 DEF Unseen
<1>8. shown # scene /\ TabClicked \ latch # {} => "scene not on the screen" \in faults'
  BY <1>2 DEF Unseen
<1> QED
  BY <1>1, <1>2, <1>6, <1>7, <1>8 DEF TabsStep

\* Every step is one of four kinds.
LEMMA Steps ==
  ASSUME TypeOK, [Next]_vars
  PROVE  \/ TabsStep
         \/ \E asked, clicked : SceneStep(asked, clicked) /\ ((Ends(asked) /\ Leads(clicked)) \/ Cut(clicked))
         \/ \E m \in Places, r \in Releases, key \in {"up", "pressed"} : EndDrawing(m, r, key)
         \/ UNCHANGED vars
<1>1. CASE AskTabs
  BY <1>1, TabsSteps
<1>2. CASE SceneFrame
  BY <1>2, SceneFrames
<1> QED
  BY <1>1, <1>2 DEF Next, Frame, SceneFrame, Input

\* What a scene sets off is asked, and is a kill button if the mouse is up.
LEMMA OffAsked ==
  ASSUME TypeOK, NEW asked, NEW clicked, SceneStep(asked, clicked)
  PROVE  /\ SetsOff(asked, clicked) \subseteq asked
         /\ mouse = Up => SetsOff(asked, clicked) \subseteq KillButtons
         /\ released = {} => SetsOff(asked, clicked) = Pressed(clicked)
<1>1. clicked \subseteq asked /\ (mouse = Up => clicked = {})
  BY DEF SceneStep
<1> QED
  BY <1>1, LetGo DEF SetsOff, Pressed, Released

-----------------------------------------------------------------------------
(* Every step keeps each part *)

\* The mouse is up before a press, and what it set off is forgotten when it moves.
LEMMA MouseStep == TypeOK /\ MouseInv /\ [Next]_vars => MouseInv'
<1> SUFFICES ASSUME TypeOK, MouseInv, [Next]_vars PROVE MouseInv'
  OBVIOUS
<1>1. CASE TabsStep
  BY <1>1 DEF TabsStep, MouseInv, TabClicked, Up
<1>2. ASSUME NEW asked, NEW clicked, SceneStep(asked, clicked), Ends(asked) PROVE MouseInv'
  <2>1. /\ pc = "scene" /\ pc' = "poll" /\ drawn' = drawn \cup {scene} /\ shown' = scene
        /\ hold' = hold \cup SetsOff(asked, clicked)
        /\ mouse' = mouse /\ released' = released /\ lastPress' = lastPress
    BY <1>2 DEF SceneStep, Ends, Draw
  <2>2. mouse = Up => SetsOff(asked, clicked) \subseteq KillButtons
    BY <1>2, OffAsked
  <2> QED
    BY <2>1, <2>2 DEF MouseInv
<1>3. ASSUME NEW asked, NEW clicked, SceneStep(asked, clicked), Cut(clicked) PROVE MouseInv'
  <2>1. "upload" \in clicked /\ mouse # Up
    BY <1>3 DEF SceneStep, Cut, Pressed
  <2> QED
    BY <1>3, <2>1 DEF SceneStep, Cut, MouseInv
<1>4. ASSUME NEW m \in Places, NEW r \in Releases, NEW key \in {"up", "pressed"}, EndDrawing(m, r, key) PROVE MouseInv'
  BY <1>4 DEF EndDrawing, MouseInv
<1>5. CASE UNCHANGED vars
  BY <1>5 DEF vars, input, MouseInv
<1> QED
  BY <1>1, <1>2, <1>3, <1>4, <1>5, Steps

\* F11 acted upon is polled away, unless the frame is cut.
LEMMA KeyStep == TypeOK /\ KeyInv /\ [Next]_vars => KeyInv'
<1> SUFFICES ASSUME TypeOK, KeyInv, [Next]_vars PROVE KeyInv'
  OBVIOUS
<1>1. CASE TabsStep
  BY <1>1 DEF TabsStep, KeyInv, Twice
<1>2. ASSUME NEW asked, NEW clicked, SceneStep(asked, clicked), Ends(asked) PROVE KeyInv'
  BY <1>2 DEF SceneStep, Ends, Draw, KeyInv, Twice
<1>3. ASSUME NEW asked, NEW clicked, SceneStep(asked, clicked), Cut(clicked) PROVE KeyInv'
  BY <1>3 DEF SceneStep, Cut, KeyInv, Twice
<1>4. ASSUME NEW m \in Places, NEW r \in Releases, NEW key \in {"up", "pressed"}, EndDrawing(m, r, key) PROVE KeyInv'
  BY <1>4 DEF EndDrawing, KeyInv
<1>5. CASE UNCHANGED vars
  BY <1>5 DEF vars, input, KeyInv
<1> QED
  BY <1>1, <1>2, <1>3, <1>4, <1>5, Steps

\* Scene and tabs change together, on either way into a scene.
LEMMA SceneTabStep == TypeOK /\ TabsMatchScene /\ [Next]_vars => TabsMatchScene'
<1> SUFFICES ASSUME TypeOK, TabsMatchScene, [Next]_vars PROVE TabsMatchScene'
  OBVIOUS
<1>0. TabOf["BLUETOOTH"] = "bluetoothTab"
  BY DEF TabOf
<1>1. CASE TabsStep
  BY <1>1, TabNames DEF TabsStep, Stays, Shows, TabsMatchScene
<1>2. ASSUME NEW clicked, Leads(clicked) PROVE TabsMatchScene'
  BY <1>0, <1>2 DEF Leads, TabsMatchScene
<1>3. ASSUME NEW clicked, Cut(clicked) PROVE TabsMatchScene'
  BY <1>3 DEF Cut, TabsMatchScene
<1>4. ASSUME NEW m \in Places, NEW r \in Releases, NEW key \in {"up", "pressed"}, EndDrawing(m, r, key) PROVE TabsMatchScene'
  BY <1>4 DEF EndDrawing, TabsMatchScene
<1>5. CASE UNCHANGED vars
  BY <1>5 DEF vars, TabsMatchScene
<1> QED
  BY <1>1, <1>2, <1>3, <1>4, <1>5, Steps

\* A scene shown again with a box still selected is shown by a press beside it.
LEMMA TypedStep == TypeOK /\ MouseInv /\ TypedInv /\ [Next]_vars => TypedInv'
<1> SUFFICES ASSUME TypeOK, MouseInv, TypedInv, [Next]_vars PROVE TypedInv'
  OBVIOUS
<1>0. BoxesOf["PONG"] = {} /\ BoxesOf["BLUETOOTH"] = {}
  BY DEF BoxesOf
<1>1. CASE TabsStep
  BY <1>1 DEF TabsStep, Stays, Shows, TypedInv, Up
<1>2. ASSUME NEW asked, NEW clicked, SceneStep(asked, clicked), Ends(asked), Leads(clicked) PROVE TypedInv'
  <2>1. lastPress' = lastPress /\ mouse' = mouse /\ (mouse = Up => clicked = {})
    BY <1>2 DEF SceneStep, Up
  <2>2. scene' = scene \/ BoxesOf[scene'] = {}
    BY <1>0, <1>2 DEF Leads
  <2>3. CASE mouse = Up
    <3>1. scene' = scene /\ selected' = selected
      BY <1>2, <2>1, <2>3 DEF Ends, Draw, Leads, Pressed
    <3> QED
      BY <2>1, <2>3, <3>1 DEF TypedInv
  <2>4. CASE mouse # Up
    <3>1. selected' = (selected \ BoxesOf[scene]) \cup (mouse \cap BoxesOf[scene]) /\ lastPress = mouse
      BY <1>2, <2>4 DEF Ends, Draw, MouseInv
    <3> QED
      BY <2>1, <2>2, <3>1 DEF TypedInv
  <2> QED
    BY <2>3, <2>4
<1>3. ASSUME NEW asked, NEW clicked, SceneStep(asked, clicked), Cut(clicked) PROVE TypedInv'
  BY <1>3 DEF SceneStep, Cut, TypedInv
<1>4. ASSUME NEW m \in Places, NEW r \in Releases, NEW key \in {"up", "pressed"}, EndDrawing(m, r, key) PROVE TypedInv'
  BY <1>4 DEF EndDrawing, TypedInv
<1>5. CASE UNCHANGED vars
  BY <1>5 DEF vars, input, TypedInv
<1> QED
  BY <1>1, <1>2, <1>3, <1>4, <1>5, Steps

\* A button set off once is latched as long as the mouse stays on it.
LEMMA HeldStep == TypeOK /\ MouseInv /\ HeldInv /\ [Next]_vars => HeldInv'
<1> SUFFICES ASSUME TypeOK, MouseInv, HeldInv, [Next]_vars PROVE HeldInv'
  OBVIOUS
<1>0. scene \in Scenes /\ drawn \subseteq Scenes /\ "DATABASE" \in Scenes
  BY DEF TypeOK, Scenes
<1>1. CASE TabsStep
  <2>1. TabClicked \cap hold \subseteq latch /\ TabClicked \subseteq mouse \cap Tabs /\ Tabs \cap ButtonsOf["DATABASE"] = {}
    BY <1>0, Names DEF HeldInv, TabClicked
  <2>2. "button" \notin again'
    BY <1>1, <2>1 DEF TabsStep, HeldInv, Twice
  <2>3. ASSUME NEW b \in hold \cap Tabs PROVE b \in latch'
    BY <1>1, <2>3 DEF TabsStep, HeldInv, TabClicked
  <2>4. hold' \cap Tabs \subseteq mouse' \cap latch'
    BY <1>1, <2>1, <2>3 DEF TabsStep, HeldInv
  <2>5. ASSUME NEW b \in hold' PROVE b \in latch' \/ (b \notin mouse' /\ \E s \in drawn' : b \in ButtonsOf[s])
    <3>1. CASE b \in TabClicked
      BY <1>1, <3>1 DEF TabsStep
    <3>2. CASE b \notin TabClicked
      <4>1. b \in hold
        BY <1>1, <2>5, <3>2 DEF TabsStep
      <4> QED
        BY <1>1, <2>3, <4>1 DEF TabsStep, HeldInv
    <3> QED
      BY <3>1, <3>2
  <2>6. "DATABASE" \notin drawn' /\ hold' \cap ButtonsOf["DATABASE"] # {} => "upload" \in hold'
    BY <1>1, <2>1 DEF TabsStep, HeldInv
  <2> QED
    BY <2>2, <2>4, <2>5, <2>6 DEF HeldInv
<1>2. ASSUME NEW asked, NEW clicked, SceneStep(asked, clicked), (Ends(asked) /\ Leads(clicked)) \/ Cut(clicked)
      PROVE  HeldInv'
  <2> DEFINE off == SetsOff(asked, clicked)
  <2>0. off \subseteq asked
    BY <1>2, OffAsked
  <2>1. /\ asked \subseteq ButtonsOf[scene] /\ clicked \subseteq asked /\ mouse \cap asked \subseteq clicked
        /\ clicked \subseteq mouse \cup KillButtons \/ scene \notin drawn
        /\ latch' = (latch \ asked) \cup clicked /\ hold' = hold \cup off
        /\ again' = again \cup Twice(off) /\ mouse' = mouse
    BY <1>2 DEF SceneStep
  <2>2. /\ Tabs \cap ButtonsOf[scene] = {}
        /\ \A s \in drawn : s # scene => ButtonsOf[s] \cap ButtonsOf[scene] = {}
    BY <1>0, Names
  <2>10. ASSUME NEW b \in off
         PROVE  b \in Pressed(clicked) \/ (mouse = Up /\ hold = {})
    <3>1. CASE b \in Released(asked)
      <4>1. mouse = Up
        BY <3>1 DEF Released, MouseInv
      <4> QED
        BY <1>2, <4>1 DEF MouseInv, SceneStep
    <3> QED
      BY <3>1 DEF SetsOff
  <2>3. off \cap hold = {}
    <3>1. ASSUME NEW b \in hold, b \in Pressed(clicked) PROVE FALSE
      <4>1. b \in clicked /\ b \notin latch /\ b \notin KillButtons
        BY <3>1 DEF Pressed
      <4>2. b \notin mouse /\ \E s \in drawn : b \in ButtonsOf[s]
        BY <4>1 DEF HeldInv
      <4>3. scene \in drawn
        BY <2>1, <2>2, <4>1, <4>2
      <4> QED
        BY <2>1, <4>1, <4>2, <4>3
    <3> QED
      BY <2>10, <3>1
  <2>11. \A b \in off : b \in latch' \/ b \notin mouse
    <3>1. Pressed(clicked) \subseteq clicked
      BY DEF Pressed
    <3> QED
      BY <2>1, <2>10, <3>1 DEF Up
  <2>4. "button" \notin again'
    BY <2>1, <2>3 DEF HeldInv, Twice
  <2> HIDE DEF off
  <2>5. hold' \cap Tabs \subseteq mouse' \cap latch'
    BY <2>0, <2>1, <2>2 DEF HeldInv
  <2>6. ASSUME Ends(asked)
        PROVE  \A b \in hold' : b \in latch' \/ (b \notin mouse' /\ \E s \in drawn' : b \in ButtonsOf[s])
    <3>1. drawn' = drawn \cup {scene}
      BY <2>6 DEF Ends, Draw
    <3> QED
      BY <2>0, <2>1, <2>11, <3>1 DEF HeldInv
  <2>7. ASSUME Ends(asked)
        PROVE  "DATABASE" \notin drawn' /\ hold' \cap ButtonsOf["DATABASE"] # {} => "upload" \in hold'
    <3>1. drawn' = drawn \cup {scene}
      BY <2>7 DEF Ends, Draw
    <3>2. scene # "DATABASE" => ButtonsOf["DATABASE"] \cap ButtonsOf[scene] = {}
      BY <1>0, Names
    <3> QED
      BY <2>0, <2>1, <3>1, <3>2 DEF HeldInv
  <2>8. ASSUME Cut(clicked)
        PROVE  \A b \in hold' : b \in latch' \/ (b \notin mouse' /\ \E s \in drawn' : b \in ButtonsOf[s])
    <3>1. scene = "DATABASE" /\ "upload" \in Pressed(clicked) /\ "upload" \in clicked \ latch /\ drawn' = drawn
      BY <2>8 DEF Cut, Pressed
    <3>2. "upload" \in ButtonsOf["DATABASE"]
      BY <2>1, <3>1
    <3>3. "DATABASE" \notin drawn => "upload" \notin hold
      BY <2>2, <3>1, <3>2 DEF HeldInv
    <3>4. "DATABASE" \notin drawn => hold \cap ButtonsOf["DATABASE"] = {}
      BY <3>3 DEF HeldInv
    <3>5. mouse # Up
      BY <1>2, <3>1 DEF SceneStep
    <3>6. off \subseteq latch'
      BY <2>1, <2>10, <3>5 DEF Pressed
    <3> QED
      BY <2>1, <3>1, <3>4, <3>6 DEF HeldInv
  <2>9. ASSUME Cut(clicked)
        PROVE  "DATABASE" \notin drawn' /\ hold' \cap ButtonsOf["DATABASE"] # {} => "upload" \in hold'
    BY <2>1, <2>9 DEF Cut, SetsOff, off
  <2> QED
    BY <1>2, <2>4, <2>5, <2>6, <2>7, <2>8, <2>9 DEF HeldInv
<1>4. ASSUME NEW m \in Places, NEW r \in Releases, NEW key \in {"up", "pressed"}, EndDrawing(m, r, key) PROVE HeldInv'
  <2>1. /\ hold' = IF m = mouse /\ m # Up THEN hold ELSE {}
        /\ again' \subseteq again /\ latch' = latch /\ drawn' = drawn /\ mouse' = m
    BY <1>4 DEF EndDrawing
  <2> QED
    BY <2>1 DEF HeldInv
<1>5. CASE UNCHANGED vars
  BY <1>5 DEF vars, input, HeldInv
<1> QED
  BY <1>1, <1>2, <1>4, <1>5, Steps

\* A scene is on the screen when its buttons are asked, or the fault is on record.
LEMMA ViewStep == TypeOK /\ MouseInv /\ TabsMatchScene /\ ViewInv /\ KillInv /\ [Next]_vars => ViewInv'
<1> SUFFICES ASSUME TypeOK, MouseInv, TabsMatchScene, ViewInv, KillInv, [Next]_vars PROVE ViewInv'
  OBVIOUS
<1>0. scene \in Scenes /\ shown \in Scenes /\ mouse \in Places
  BY DEF TypeOK
<1>1. CASE TabsStep
  <2>1. /\ latch' = (latch \ (Tabs \ unasked')) \cup TabClicked /\ hold' = hold \cup (TabClicked \ latch)
        /\ faults \subseteq faults' /\ shown' = shown /\ mouse' = mouse /\ aim' = aim
        /\ shown # scene /\ TabClicked \ latch # {} => "scene not on the screen" \in faults'
        /\ TabClicked \subseteq mouse \cap Tabs
        /\ disabled \subseteq unasked'
    BY <1>1 DEF TabsStep, TabClicked
  <2>2. Tabs \cap ButtonsOf[scene] = {}
    BY <1>0, Names
  <2>3. CASE Stays
    <3>1. scene' = scene /\ disabled' = disabled /\ TabClicked \subseteq latch'
      BY <2>1, <2>3 DEF Stays
    <3> QED
      BY <2>1, <2>2, <2>3, <3>1 DEF ViewInv, Stays, TabClicked
  <2>4. ASSUME NEW s \in DOMAIN TabOf, Shows(s) PROVE ViewInv'
    <3>1. /\ scene' = s /\ s # "PONG" /\ mouse \cap (Tabs \ disabled') = {}
          /\ mouse \cap ButtonsOf[s] = {} /\ TabClicked \ latch # {}
      BY <2>4, TabNames, Names DEF Shows
    <3>2. "scene not on the screen" \notin faults' => TabClicked \subseteq aim \cup latch
      BY <2>1, <3>1 DEF ViewInv, TabClicked
    <3> QED
      BY <2>1, <3>1, <3>2 DEF ViewInv
  <2> QED
    BY <1>1, <2>3, <2>4 DEF TabsStep
<1>2. ASSUME NEW asked, NEW clicked, SceneStep(asked, clicked), "scene not on the screen" \notin faults'
      PROVE  /\ hold' \subseteq aim' /\ "scene not on the screen" \notin faults
             /\ Pressed(clicked) \subseteq mouse
  <2>1. /\ hold' = hold \cup SetsOff(asked, clicked) /\ aim' = aim
        /\ SetsOff(asked, clicked) # {} => shown = scene
        /\ "scene not on the screen" \notin faults /\ hold \subseteq aim
    BY <1>2 DEF SceneStep, ViewInv
  <2>2. SetsOff(asked, clicked) = Pressed(clicked) \cup Released(asked)
    BY DEF SetsOff
  <2>3. Pressed(clicked) \subseteq (mouse \cap ButtonsOf[scene]) \ latch
    <3>1. CASE Pressed(clicked) = {}
      BY <3>1
    <3>2. CASE Pressed(clicked) # {}
      <4>1. clicked # {} /\ shown = scene
        BY <2>1, <2>2, <3>2 DEF Pressed
      <4>2. scene \in drawn
        BY <1>2, <4>1 DEF SceneStep, MouseInv
      <4> QED
        BY <1>2, <4>2 DEF SceneStep, Pressed
    <3> QED
      BY <3>1, <3>2
  <2>4. ASSUME NEW b \in Released(asked) PROVE b \in aim
    <3>1. b \in released /\ b \in KillButtons /\ b \in ButtonsOf[scene] /\ pc = "scene"
      BY <1>2, LetGo DEF SceneStep, Released
    <3>2. scene = "BLUETOOTH"
      BY <1>0, <3>1, Names DEF Scenes
    <3>3. shown = "BLUETOOTH"
      BY <2>1, <2>2, <3>2
    <3> QED
      BY <3>1, <3>2, <3>3 DEF KillInv
  <2>5. Pressed(clicked) \subseteq aim
    <3>1. CASE Pressed(clicked) = {}
      BY <3>1
    <3>2. CASE Pressed(clicked) # {}
      <4>1. shown = scene
        BY <2>1, <2>2, <3>2
      <4> QED
        BY <2>1, <2>3, <4>1 DEF ViewInv
    <3> QED
      BY <3>1, <3>2
  <2> QED
    BY <2>1, <2>2, <2>3, <2>4, <2>5
<1>3. ASSUME NEW asked, NEW clicked, SceneStep(asked, clicked), Ends(asked), Leads(clicked) PROVE ViewInv'
  <2>1. /\ mouse' = mouse /\ aim' = aim /\ shown' = scene
        /\ mouse \cap ButtonsOf[scene] \subseteq latch'
        /\ \A t \in Tabs : t \in latch => t \in latch'
    <3>1. Tabs \cap ButtonsOf[scene] = {}
      BY <1>0, Names
    <3> QED
      BY <1>3, <3>1 DEF SceneStep, Ends, Draw
  <2>2. scene' = "PONG" /\ shown' = "PONG" => disabled' = Tabs
    BY <1>3, <2>1 DEF Leads
  <2>3. ASSUME "scene not on the screen" \notin faults', scene' # "PONG" \/ shown' = "PONG"
        PROVE  mouse' \cap (Tabs \ disabled') \subseteq aim' \cup latch'
    <3>1. CASE scene' = scene /\ disabled' = disabled /\ scene # "PONG"
      BY <1>2, <1>3, <2>1, <2>3, <3>1 DEF ViewInv
    <3>2. CASE scene = "PONG" /\ scene' = "BLUETOOTH" /\ "pongback" \in Pressed(clicked)
      <4>1. "pongback" \in mouse
        BY <1>2, <1>3, <2>3, <3>2
      <4>2. mouse \cap Tabs = {}
        BY <1>0, <4>1, TabAlone DEF Tabs
      <4> QED
        BY <2>1, <4>2
    <3>3. CASE disabled' = Tabs
      BY <3>3
    <3>4. CASE scene = "BLUETOOTH" /\ scene' = "PONG"
      BY <2>1, <2>3, <3>4
    <3> QED
      BY <1>3, <3>1, <3>2, <3>3, <3>4 DEF Leads
  <2> QED
    BY <1>2, <1>3, <2>1, <2>2, <2>3 DEF ViewInv
<1>4. ASSUME NEW asked, NEW clicked, SceneStep(asked, clicked), Cut(clicked) PROVE ViewInv'
  <2>1. /\ mouse' = mouse /\ aim' = aim /\ shown' = shown /\ scene' = scene /\ disabled' = disabled
        /\ mouse \cap latch \subseteq latch'
    BY <1>4 DEF SceneStep, Cut
  <2> QED
    BY <1>2, <1>4, <2>1 DEF ViewInv
<1>5. ASSUME NEW m \in Places, NEW r \in Releases, NEW key \in {"up", "pressed"}, EndDrawing(m, r, key) PROVE ViewInv'
  <2>1. /\ scene' = scene /\ shown' = shown /\ disabled' = disabled /\ latch' = latch /\ mouse' = m
        /\ aim' = IF m = mouse THEN aim ELSE InView
        /\ hold' = IF m = mouse /\ m # Up THEN hold ELSE {}
        /\ m = Up \/ faults' = faults
    BY <1>5 DEF EndDrawing
  <2>2. CASE m = mouse
    BY <2>1, <2>2 DEF ViewInv, MouseInv, Up
  <2>3. CASE m # mouse
    <3>1. aim' = ButtonsOf[shown] \cup (IF scene = "PONG" THEN {} ELSE Tabs \ disabled) /\ hold' = {}
      BY <2>1, <2>3 DEF InView
    <3> QED
      BY <2>1, <3>1 DEF ViewInv
  <2> QED
    BY <2>2, <2>3
<1>6. CASE UNCHANGED vars
  BY <1>6 DEF vars, input, ViewInv
<1> QED
  BY <1>1, <1>3, <1>4, <1>5, <1>6, Steps

\* The latches asked in a frame are at its poll as the mouse is.
LEMMA LatchStep == TypeOK /\ LatchInv /\ [Next]_vars => LatchInv'
<1> SUFFICES ASSUME TypeOK, LatchInv, [Next]_vars PROVE LatchInv'
  OBVIOUS
<1>0. scene \in Scenes /\ Tabs \cap ButtonsOf[scene] = {}
  BY Names DEF TypeOK
<1>1. CASE TabsStep
  BY <1>1 DEF TabsStep, TabClicked, LatchInv
<1>2. ASSUME NEW asked, NEW clicked, SceneStep(asked, clicked), Ends(asked) PROVE LatchInv'
  <2>1. /\ pc = "scene" /\ unasked' = unasked /\ mouse' = mouse /\ shown' = scene
        /\ latch' = (latch \ ButtonsOf[scene]) \cup clicked /\ clicked \subseteq ButtonsOf[scene]
        /\ clicked \ mouse \subseteq strayed' /\ mouse \cap ButtonsOf[scene] \subseteq clicked
    BY <1>2 DEF SceneStep, Ends, Draw
  <2> QED
    BY <1>0, <2>1 DEF LatchInv
<1>3. ASSUME NEW asked, NEW clicked, SceneStep(asked, clicked), Cut(clicked) PROVE LatchInv'
  BY <1>3 DEF SceneStep, Cut, LatchInv
<1>4. ASSUME NEW m \in Places, NEW r \in Releases, NEW key \in {"up", "pressed"}, EndDrawing(m, r, key) PROVE LatchInv'
  BY <1>4 DEF EndDrawing, LatchInv
<1>5. CASE UNCHANGED vars
  BY <1>5 DEF vars, input, LatchInv
<1> QED
  BY <1>1, <1>2, <1>3, <1>4, <1>5, Steps

\* Off the Bluetooth scene, a press the kill buttons saw is over before the pong
\* game starts, and one in the other scenes leaves the mouse on something else.
LEMMA KillStep == TypeOK /\ MouseInv /\ LatchInv /\ KillInv /\ [Next]_vars => KillInv'
<1> SUFFICES ASSUME TypeOK, MouseInv, LatchInv, KillInv, [Next]_vars PROVE KillInv'
  OBVIOUS
<1>0. /\ scene \in Scenes /\ "BLUETOOTH" \in Scenes /\ "PONG" \in Scenes
      /\ KillButtons \subseteq ButtonsOf["BLUETOOTH"] /\ KillButtons \cap Tabs = {}
      /\ KillButtons \cap ButtonsOf["PONG"] = {} /\ Tabs \cap ButtonsOf["BLUETOOTH"] = {}
      /\ released \subseteq KillButtons
  BY Names, LetGo DEF TypeOK, Scenes
<1>1. CASE TabsStep
  <2>1. /\ pc = "tabs" /\ pc' = "scene" /\ drawn' = drawn /\ shown' = shown /\ mouse' = mouse
        /\ released' = released /\ lastPress' = lastPress /\ aim' = aim
        /\ latch' \cap KillButtons = latch \cap KillButtons
        /\ strayed' \cap KillButtons = strayed \cap KillButtons
    BY <1>0, <1>1 DEF TabsStep, TabClicked
  <2>2. CASE Stays
    BY <1>0, <2>1, <2>2 DEF Stays, KillInv
  <2>3. ASSUME NEW s \in DOMAIN TabOf, Shows(s) PROVE KillInv'
    <3>1. scene' = s /\ s # "PONG" /\ mouse = {TabOf[s]} /\ TabOf[s] \in Tabs
      BY <2>3, TabNames DEF Shows
    <3>2. released = {}
      BY <3>1 DEF MouseInv, Up
    <3> QED
      BY <1>0, <2>1, <3>1, <3>2 DEF KillInv
  <2> QED
    BY <1>1, <2>2, <2>3 DEF TabsStep
<1>2. ASSUME NEW asked, NEW clicked, SceneStep(asked, clicked), Ends(asked), Leads(clicked) PROVE KillInv'
  <2>1. /\ pc = "scene" /\ pc' = "poll" /\ drawn' = drawn \cup {scene} /\ shown' = scene
        /\ latch' = (latch \ ButtonsOf[scene]) \cup clicked /\ clicked \subseteq ButtonsOf[scene]
        /\ strayed' = (strayed \ ButtonsOf[scene]) \cup (clicked \ mouse)
        /\ clicked \subseteq mouse \cup KillButtons \/ scene \notin drawn
    BY <1>2 DEF SceneStep, Ends, Draw
  <2>2. CASE scene' = scene /\ scene # "PONG"
    BY <2>1, <2>2 DEF KillInv
  <2>3. CASE scene = "BLUETOOTH" /\ scene' = "PONG" /\ "pong" \in Pressed(clicked)
    <3>1. "pong" \in clicked /\ "pong" \notin KillButtons
      BY <2>3, Names DEF Pressed
    <3>2. mouse \cap KillButtons = {}
      <4>1. CASE "pong" \in mouse
        BY <4>1, PongAlone DEF TypeOK
      <4>2. CASE "pong" \notin mouse
        BY <1>0, <2>1, <2>3, <3>1, <4>2 DEF KillInv
      <4> QED
        BY <4>1, <4>2
    <3> QED
      BY <1>0, <2>1, <2>3, <3>2 DEF KillInv
  <2>4. CASE scene = "PONG" /\ scene' \in {"PONG", "BLUETOOTH"}
    <3>1. "BLUETOOTH" \in drawn' /\ latch \cap KillButtons \subseteq strayed
      BY <2>1, <2>4 DEF KillInv
    <3>2. latch' \cap KillButtons \subseteq strayed'
      BY <1>0, <2>1, <2>4, <3>1
    <3> QED
      BY <2>1, <3>1, <3>2 DEF KillInv
  <2> QED
    BY <1>2, <2>2, <2>3, <2>4 DEF Leads
<1>3. ASSUME NEW asked, NEW clicked, SceneStep(asked, clicked), Cut(clicked) PROVE KillInv'
  BY <1>3 DEF SceneStep, Cut, KillInv
<1>4. ASSUME NEW m \in Places, NEW r \in Releases, NEW key \in {"up", "pressed"}, EndDrawing(m, r, key) PROVE KillInv'
  <2>1. /\ pc = "poll" /\ pc' = "tabs" /\ released' = r /\ (r # {} => m = Up /\ mouse # Up)
        /\ aim' = (IF m = mouse THEN aim ELSE InView) /\ lastPress' = (IF m = Up THEN lastPress ELSE m)
        /\ scene' = scene /\ shown' = shown /\ drawn' = drawn /\ latch' = latch /\ strayed' = strayed
        /\ mouse' = m /\ r \subseteq KillButtons
    BY <1>4 DEF EndDrawing, Releases
  <2>2. "BLUETOOTH" \notin drawn => scene # "PONG" /\ scene # "BLUETOOTH"
    BY <2>1 DEF KillInv
  <2>3. scene = "PONG" => latch \cap KillButtons \subseteq strayed
    BY DEF KillInv
  <2>4. ASSUME scene = "BLUETOOTH", r # {}
        PROVE  r \cap latch \subseteq strayed \cup lastPress' /\ (shown = "BLUETOOTH" => r \subseteq aim')
    <3>1. m # mouse /\ lastPress' = mouse
      BY <2>1, <2>4 DEF MouseInv
    <3>2. CASE shown = "BLUETOOTH"
      <4>1. ButtonsOf[shown] \subseteq aim'
        BY <2>1, <3>1 DEF InView
      <4> QED
        BY <1>0, <2>1, <3>1, <3>2, <4>1 DEF LatchInv
    <3>3. CASE shown # "BLUETOOTH"
      BY <2>1, <2>4, <3>3 DEF KillInv
    <3> QED
      BY <3>2, <3>3
  <2> QED
    BY <2>1, <2>2, <2>3, <2>4 DEF KillInv
<1>5. CASE UNCHANGED vars
  BY <1>5 DEF vars, input, KillInv
<1> QED
  BY <1>1, <1>2, <1>3, <1>4, <1>5, Steps

\* A kill button is set off by a release only, of what it saw as pressed.
LEMMA FiredStep == TypeOK /\ MouseInv /\ KillInv /\ FiredInv /\ [Next]_vars => FiredInv'
<1> SUFFICES ASSUME TypeOK, MouseInv, KillInv, FiredInv, [Next]_vars PROVE FiredInv'
  OBVIOUS
<1>0. scene \in Scenes /\ "BLUETOOTH" \in Scenes
  BY DEF TypeOK, Scenes
<1>1. CASE TabsStep
  <2>1. TabClicked \cap KillButtons = {}
    BY Names DEF TabClicked
  <2> QED
    BY <1>1, <2>1 DEF TabsStep, FiredInv
<1>2. ASSUME NEW asked, NEW clicked, SceneStep(asked, clicked) PROVE FiredInv'
  <2>1. /\ hold' = hold \cup SetsOff(asked, clicked) /\ lastPress' = lastPress /\ faults \subseteq faults'
        /\ SetsOff(asked, clicked) \cap released \cap strayed # {} => "not drawn yet" \in faults'
    BY <1>2 DEF SceneStep
  <2>2. ASSUME NEW b \in SetsOff(asked, clicked) \cap KillButtons
        PROVE  b \in lastPress \/ "not drawn yet" \in faults'
    <3>1. b \in released /\ b \in latch /\ b \in ButtonsOf[scene] /\ pc = "scene"
      BY <1>2, <2>2 DEF SetsOff, Pressed, Released, SceneStep
    <3>2. scene = "BLUETOOTH"
      BY <1>0, <2>2, <3>1, Names
    <3>3. b \in strayed \cup lastPress
      BY <3>1, <3>2 DEF KillInv
    <3> QED
      BY <2>1, <2>2, <3>1, <3>3
  <2> QED
    BY <2>1, <2>2 DEF FiredInv
<1>3. ASSUME NEW m \in Places, NEW r \in Releases, NEW key \in {"up", "pressed"}, EndDrawing(m, r, key) PROVE FiredInv'
  <2>1. /\ hold' = (IF m = mouse /\ m # Up THEN hold ELSE {}) /\ (m # Up => faults' = faults)
        /\ lastPress' = (IF m = Up THEN lastPress ELSE m)
    BY <1>3 DEF EndDrawing
  <2> QED
    BY <2>1 DEF FiredInv, MouseInv
<1>4. CASE UNCHANGED vars
  BY <1>4 DEF vars, input, FiredInv
<1> QED
  BY <1>1, <1>2, <1>3, <1>4, Steps

\* A button that is due is asked in the next frame that is not cut, and no latch
\* hides the press from it.
LEMMA DueStep == TypeOK /\ MouseInv /\ LatchInv /\ DueInv /\ [Next]_vars => DueInv'
<1> SUFFICES ASSUME TypeOK, MouseInv, LatchInv, DueInv, [Next]_vars PROVE DueInv'
  OBVIOUS
<1>0. scene \in Scenes /\ shown \in Scenes /\ Tabs \cap ButtonsOf[scene] = {} /\ KillButtons \cap Tabs = {}
  BY Names DEF TypeOK
<1>1. CASE TabsStep
  <2>1. /\ pc = "tabs" /\ pc' = "scene" /\ mouse' = mouse /\ due' = due /\ released' = released
        /\ hold' = hold \cup (TabClicked \ latch)
        /\ \A b : b \notin Tabs => (b \in latch' <=> b \in latch)
    BY <1>1 DEF TabsStep, TabClicked
  <2>2. CASE Stays
    <3>1. scene' = scene
      BY <2>2 DEF Stays
    <3> QED
      BY <1>0, <2>1, <3>1 DEF DueInv, TabClicked
  <2>3. ASSUME NEW s \in DOMAIN TabOf, Shows(s) PROVE DueInv'
    <3>1. mouse = {TabOf[s]} /\ TabOf[s] \in Tabs
      BY <2>3, TabNames DEF Shows
    <3>2. released = {}
      BY <3>1 DEF MouseInv, Up
    <3> QED
      BY <1>0, <2>1, <3>1, <3>2 DEF DueInv, TabClicked
  <2> QED
    BY <1>1, <2>2, <2>3 DEF TabsStep
<1>2. ASSUME NEW asked, NEW clicked, SceneStep(asked, clicked), NEW b \in due, b \in asked
      PROVE  b \in hold'
  <2>1. /\ pc = "scene" /\ hold' = hold \cup Pressed(clicked) \cup Released(asked)
        /\ mouse \cap asked \subseteq clicked
    BY <1>2 DEF SceneStep, SetsOff
  <2>2. CASE b \in mouse /\ b \notin latch /\ b \notin KillButtons
    BY <1>2, <2>1, <2>2 DEF Pressed
  <2>3. CASE b \in released /\ b \in latch
    BY <1>2, <2>1, <2>3 DEF Released
  <2> QED
    BY <2>1, <2>2, <2>3 DEF DueInv
<1>3. ASSUME NEW asked, NEW clicked, SceneStep(asked, clicked), Ends(asked) PROVE DueInv'
  <2>1. pc = "scene" /\ due' = due /\ hold \subseteq hold' /\ asked = ButtonsOf[scene]
    BY <1>3 DEF SceneStep, Ends
  <2>2. ASSUME NEW b \in due PROVE b \in hold'
    <3>1. CASE b \in asked
      BY <1>2, <1>3, <3>1
    <3>2. CASE b \notin asked
      BY <2>1, <3>2 DEF DueInv
    <3> QED
      BY <3>1, <3>2
  <2> QED
    BY <2>1, <2>2 DEF DueInv
<1>4. ASSUME NEW asked, NEW clicked, SceneStep(asked, clicked), Cut(clicked) PROVE DueInv'
  <2>1. /\ pc = "scene" /\ pc' = "tabs" /\ due' = due /\ hold \subseteq hold' /\ mouse' = mouse
        /\ scene' = scene /\ latch' = (latch \ asked) \cup clicked /\ clicked \subseteq asked
        /\ (mouse = Up => clicked = {}) /\ "upload" \in clicked
    BY <1>4 DEF SceneStep, Cut, Pressed
  <2>2. released = {}
    BY <2>1 DEF MouseInv
  <2>3. ASSUME NEW b \in due
        PROVE  b \in hold' \/ (b \in ButtonsOf[scene] \cap mouse /\ b \notin latch' /\ b \notin KillButtons)
    <3>1. CASE b \in asked
      BY <1>2, <1>4, <3>1
    <3>2. CASE b \notin asked
      BY <2>1, <2>2, <3>2 DEF DueInv
    <3> QED
      BY <3>1, <3>2
  <2> QED
    BY <2>1, <2>3 DEF DueInv
<1>5. ASSUME NEW m \in Places, NEW r \in Releases, NEW key \in {"up", "pressed"}, EndDrawing(m, r, key) PROVE DueInv'
  <2>1. /\ pc = "poll" /\ pc' = "tabs" /\ mouse' = m /\ released' = r /\ r \subseteq KillButtons
        /\ due' = (InView \ Excused) \cap (((m \ mouse) \ KillButtons) \cup (mouse \cap r))
        /\ scene' = scene /\ latch' = latch /\ disabled' = disabled
    BY <1>5 DEF EndDrawing, Releases
  <2>2. ASSUME NEW b \in due'
        PROVE  /\ b \notin unasked /\ b \notin strayed
               /\ (b \in ButtonsOf[shown] /\ shown = scene) \/ b \in Tabs \ disabled
    BY <2>1 DEF InView, Excused
  <2>3. ASSUME NEW b \in due', b \in m \ mouse, b \notin KillButtons
        PROVE  \/ b \in Tabs \cap m /\ b \notin latch /\ b \notin disabled
               \/ b \in ButtonsOf[scene] \cap m /\ b \notin latch
    BY <2>1, <2>2, <2>3 DEF LatchInv
  <2>4. ASSUME NEW b \in due', b \in mouse \cap r
        PROVE  b \in ButtonsOf[scene] \cap KillButtons /\ b \in latch
    BY <1>0, <2>1, <2>2, <2>4 DEF LatchInv
  <2> QED
    BY <2>1, <2>3, <2>4 DEF DueInv
<1>6. CASE UNCHANGED vars
  BY <1>6 DEF vars, input, DueInv
<1> QED
  BY <1>1, <1>3, <1>4, <1>5, <1>6, Steps

\* A frame asks, draws and polls what there is.
LEMMA TypeStep == TypeOK /\ [Next]_vars => TypeOK'
<1> SUFFICES ASSUME TypeOK, [Next]_vars PROVE TypeOK'
  OBVIOUS
<1>0. /\ scene \in Scenes /\ shown \in Scenes /\ Tabs \subseteq Buttons
      /\ ButtonsOf[scene] \subseteq Buttons /\ ButtonsOf[shown] \subseteq Buttons
      /\ BoxesOf[scene] \subseteq Boxes
  BY Names DEF TypeOK, Buttons, Boxes
<1>1. CASE TabsStep
  <2>1. TabClicked \subseteq Buttons
    BY <1>0 DEF TabClicked
  <2>2. scene' \in Scenes /\ disabled' \subseteq Tabs
    BY <1>1, TabNames DEF TabsStep, Stays, Shows, TypeOK
  <2>3. again' \subseteq {"button", "key"}
    BY <1>1 DEF TabsStep, Twice, TypeOK
  <2>4. f11' \in {"up", "pressed", "used"} /\ pc' = "scene"
    BY <1>1 DEF TabsStep
  <2>5. latch' \subseteq Buttons /\ hold' \subseteq Buttons /\ strayed' \subseteq latch'
    BY <1>1, <2>1 DEF TabsStep, TypeOK
  <2>6. faults' \subseteq {"scene not on the screen", "not drawn yet", "frame cut"}
    BY <1>1 DEF TabsStep, TypeOK
  <2> QED
    BY <1>1, <2>2, <2>3, <2>4, <2>5, <2>6 DEF TabsStep, TypeOK
<1>2. ASSUME NEW asked, NEW clicked, SceneStep(asked, clicked)
      PROVE  /\ latch' \subseteq Buttons /\ hold' \subseteq Buttons
             /\ again' \subseteq {"button", "key"}
             /\ faults' \subseteq {"scene not on the screen", "not drawn yet", "frame cut"}
             /\ f11' \in {"up", "pressed", "used"} /\ unasked' \subseteq Tabs /\ due' \subseteq Buttons
             /\ aim' \subseteq Buttons /\ mouse' \in Places /\ lastPress' \in Places
             /\ released' \in Releases /\ strayed' \subseteq latch'
  <2>1. clicked \subseteq Buttons /\ SetsOff(asked, clicked) \subseteq Buttons
    BY <1>0, <1>2, OffAsked DEF SceneStep
  <2>2. again' \subseteq {"button", "key"}
    BY <1>2 DEF SceneStep, Twice, TypeOK
  <2> QED
    BY <1>2, <2>1, <2>2 DEF SceneStep, TypeOK
<1>3. ASSUME NEW asked, NEW clicked, SceneStep(asked, clicked), Ends(asked), Leads(clicked) PROVE TypeOK'
  <2>1. scene' \in Scenes /\ disabled' \subseteq Tabs
    BY <1>3 DEF Leads, TypeOK, Scenes, Tabs
  <2>2. pc' = "poll" /\ drawn' \subseteq Scenes /\ shown' \in Scenes /\ selected' \subseteq Boxes
    BY <1>0, <1>3 DEF Ends, Draw, TypeOK
  <2> QED
    BY <1>2, <1>3, <2>1, <2>2 DEF TypeOK
<1>4. ASSUME NEW asked, NEW clicked, SceneStep(asked, clicked), Cut(clicked) PROVE TypeOK'
  <2>1. /\ pc' = "tabs" /\ drawn' = drawn /\ shown' = shown /\ selected' = selected
        /\ scene' = scene /\ disabled' = disabled
    BY <1>4 DEF Cut
  <2> QED
    BY <1>2, <1>4, <2>1 DEF TypeOK
<1>5. ASSUME NEW m \in Places, NEW r \in Releases, NEW key \in {"up", "pressed"}, EndDrawing(m, r, key) PROVE TypeOK'
  <2>1. InView \subseteq Buttons
    BY <1>0 DEF InView
  <2>2. /\ pc' = "tabs" /\ mouse' = m /\ f11' = key /\ released' = r /\ due' \subseteq InView
        /\ aim' \in {aim, InView} /\ lastPress' \in {lastPress, m} /\ hold' \in {hold, {}}
        /\ again' \in {again, {}} /\ faults' \in {faults, {}}
        /\ UNCHANGED <<scene, disabled, latch, strayed, drawn, shown, selected, unasked>>
    BY <1>5 DEF EndDrawing
  <2>3. /\ due' \subseteq Buttons /\ aim' \subseteq Buttons /\ hold' \subseteq Buttons
        /\ mouse' \in Places /\ lastPress' \in Places /\ released' \in Releases
    BY <2>1, <2>2 DEF TypeOK
  <2>4. /\ again' \subseteq {"button", "key"} /\ f11' \in {"up", "pressed", "used"}
        /\ faults' \subseteq {"scene not on the screen", "not drawn yet", "frame cut"}
    BY <2>2 DEF TypeOK
  <2> QED
    BY <2>2, <2>3, <2>4 DEF TypeOK
<1>6. CASE UNCHANGED vars
  BY <1>6 DEF vars, input, TypeOK
<1> QED
  BY <1>1, <1>3, <1>4, <1>5, <1>6, Steps

-----------------------------------------------------------------------------
(* The theorems *)

LEMMA Initially == Init => Inv
<1> SUFFICES ASSUME Init PROVE Inv
  OBVIOUS
<1>1. TypeOK
  BY DEF Init, TypeOK, Scenes, Tabs, Places, Up, Releases
<1>2. TabsMatchScene
  BY DEF Init, TabsMatchScene, TabOf
<1>3. MouseInv /\ KeyInv /\ HeldInv
  BY DEF Init, MouseInv, KeyInv, HeldInv, Up
<1>4. ViewInv /\ TypedInv
  BY DEF Init, ViewInv, TypedInv, Up
<1>5. KillInv /\ FiredInv /\ LatchInv /\ DueInv
  BY DEF Init, KillInv, FiredInv, LatchInv, DueInv
<1> QED
  BY <1>1, <1>2, <1>3, <1>4, <1>5 DEF Inv

\* The inductive invariant holds always: the parts rest on one another as the
\* lemmas say.
THEOREM Invariance == Spec => []Inv
<1>1. Inv /\ [Next]_vars => Inv'
  BY TypeStep, MouseStep, KeyStep, HeldStep, SceneTabStep, ViewStep, TypedStep,
     KillStep, FiredStep, LatchStep, DueStep DEF Inv
<1> QED
  BY Initially, <1>1, PTL DEF Spec

\* The main loop keeps its types (main.cpp 163-389), whatever the buttons are.
THEOREM TypeCorrect == Spec => []TypeOK
<1>1. Inv => TypeOK
  BY DEF Inv
<1> QED
  BY Invariance, <1>1, PTL

\* The tab of the scene shown is the disabled one (main.cpp 189-208, 363-371).
THEOREM TabsAgree == Spec => []TabsMatchScene
<1>1. Inv => TabsMatchScene
  BY DEF Inv
<1> QED
  BY Invariance, <1>1, PTL

\* A press sets a button off once (button.hpp 54-62), also when an upload cuts the
\* frame (main.cpp 293) and the next one sees the same mouse.
THEOREM PressedOnce == Spec => []OncePerPress
<1>1. Inv => OncePerPress
  BY DEF Inv, HeldInv, KeyInv, OncePerPress
<1> QED
  BY Invariance, <1>1, PTL

\* What a press sets off was in view when it began, unless its scene was asked
\* before it was drawn (main.cpp 363-373); and a kill button is set off by the release
\* of a press on it (button.hpp 63-78), unless that of a tablet just listed took
\* another press for one on it.
THEOREM SetOffInView == Spec => []OnlyWhatIsInView
<1>1. Inv => OnlyWhatIsInView
  BY DEF Inv, ViewInv, FiredInv, OnlyWhatIsInView
<1> QED
  BY Invariance, <1>1, PTL

\* A press on a button in view, or the release of a kill button pressed, sets it off
\* (button.hpp 54-78) by the next frame that is not cut, but for those of Excused: a
\* tab not asked in the frame before, a button latched by chance before its first
\* drawing, and the buttons of a scene just left, drawn once more.
THEOREM PressCounts == Spec => []NoPressLost
<1>1. Inv => NoPressLost
  BY DEF Inv, DueInv, NoPressLost
<1> QED
  BY Invariance, <1>1, PTL

\* No box of the scene shown is selected but the one pressed last (textBox.hpp
\* 23-31), though boxes of other scenes keep their selection.
THEOREM TypedRight == Spec => []TypedWhereLastPressed
<1>1. Inv => TypedWhereLastPressed
  BY DEF Inv, TypedInv, TypedWhereLastPressed
<1> QED
  BY Invariance, <1>1, PTL
=============================================================================
