------------------------------ MODULE TextBox ------------------------------
(***************************************************************************)
(* A text box (textBox.hpp 23-49, 82-102): the batch number and the event   *)
(* key come from one.  A poll of raylib hands over at most QueueLimit       *)
(* characters and whether backspace went down, but not in which order, and  *)
(* the next poll forgets what was not read.                                 *)
(***************************************************************************)
EXTENDS Integers, Sequences, FiniteSetsExt, SequencesExt

CONSTANTS Chars,       \* characters from " " to "z"
          SizeLimit,   \* of the box, 10 or 15 in the code
          QueueLimit,  \* external: raylib's queue of characters, 16
          MaxKeys,     \* bound: keys typed between two polls
          NUL

ASSUME LimitsAssumption == SizeLimit \in Nat \ {0} /\ QueueLimit \in Nat \ {0} /\ MaxKeys \in Nat
ASSUME NULAssumption == {NUL, "odd", "backspace"} \cap Chars = {}

VARIABLES pc,            \* "poll" or "draw"
          text,          \* the buffer, SizeLimit + 1 bytes
          currentChar, selected,
          keys,          \* external: the keys typed between the last two polls
          queue, back,   \* what raylib makes of them
          meant,         \* what the keys typed into the box add up to
          faults         \* what has gone wrong so far

vars == <<pc, text, currentChar, selected, keys, queue, back, meant, faults>>

\* "odd" stands for the characters after "z": braces, accents, other scripts.
Keys == Chars \cup {"odd", "backspace"}
\* The characters among them.
Typed(ks) ==
  LET typed[n \in 0 .. Len(ks)] ==
        IF n = 0 THEN <<>>
        ELSE IF ks[n] = "backspace" THEN typed[n - 1] ELSE Append(typed[n - 1], ks[n])
  IN  typed[Len(ks)]

Init ==
  /\ pc = "poll" /\ text = [i \in 0 .. SizeLimit |-> NUL] /\ currentChar = 0 /\ selected = FALSE
  /\ keys = <<>> /\ queue = <<>> /\ back = FALSE /\ meant = <<>> /\ faults = {}

-----------------------------------------------------------------------------
\* EndDrawing polls the keys typed meanwhile.
Poll(ks) ==
  /\ pc = "poll" /\ pc' = "draw"
  /\ keys' = ks
  /\ queue' = SubSeq(Typed(ks), 1, Min({Len(Typed(ks)), QueueLimit}))
  /\ back' = \E i \in DOMAIN ks : ks[i] = "backspace"
  /\ UNCHANGED <<text, currentChar, selected, meant, faults>>

\* Another scene is drawn.
DrawOther ==
  /\ pc = "draw" /\ pc' = "poll"
  /\ UNCHANGED <<text, currentChar, selected, keys, queue, back, meant, faults>>

\* What a person expects of one key.
Edit(s, k) ==
  CASE k = "backspace" -> IF s = <<>> THEN s ELSE Front(s)
    [] k \in Chars     -> IF Len(s) < SizeLimit THEN Append(s, k) ELSE s
    [] OTHER           -> s

\* ... and of some, one after the other.
Edited(s, ks) ==
  LET edited[n \in 0 .. Len(ks)] == IF n = 0 THEN s ELSE Edit(edited[n - 1], ks[n])
  IN  edited[Len(ks)]

\* Keys that a poll mixes up or the loop over the characters loses.
MixedUp ==
     (IF \E i, j \in DOMAIN keys : i < j /\ keys[i] # "backspace" /\ keys[j] = "backspace"
      THEN {"order lost"} ELSE {})
  \cup (IF Cardinality({i \in DOMAIN keys : keys[i] = "backspace"}) > 1
      THEN {"backspace lost"} ELSE {})
  \cup (IF \E i, j \in DOMAIN keys : i < j /\ keys[i] = "odd" /\ keys[j] \in Chars
      THEN {"stopped at odd"} ELSE {})
  \cup (IF Len(Typed(keys)) > QueueLimit THEN {"queue full"} ELSE {})

\* The characters the loop takes: up to the first odd one or the limit.
TakenAll(from) ==
  Max({n \in 0 .. Len(queue) : \A i \in 1 .. n : queue[i] \in Chars})
TakenLess(from) ==
  Max({n \in 0 .. Len(queue) : (n = 0 \/ from + n < SizeLimit) /\ \A i \in 1 .. n : queue[i] \in Chars})
Taken(from) ==
  Max({n \in 0 .. Len(queue) : from + n <= SizeLimit /\ \A i \in 1 .. n : queue[i] \in Chars})

\* Backspace first, then the characters; each write puts the end behind itself.
UpdateTextNoEnd ==
  LET from == IF back /\ currentChar > 0 THEN currentChar - 1 ELSE currentChar
      n    == Taken(from)
  IN  /\ currentChar' = from + n
      /\ text' = [i \in 0 .. SizeLimit |->
                    IF i \in from .. from + n - 1 THEN queue[i - from + 1] ELSE text[i]]
UpdateText ==
  LET from == IF back /\ currentChar > 0 THEN currentChar - 1 ELSE currentChar
      n    == Taken(from)
  IN  /\ currentChar' = from + n
      /\ text' = [i \in 0 .. SizeLimit |->
                    IF i \in from .. from + n - 1 THEN queue[i - from + 1]
                    ELSE IF i = from + n /\ (back \/ n > 0) THEN NUL ELSE text[i]]

\* The mouse is up, or held down on the box or beside it.
Draw(mouse) ==
  /\ pc = "draw" /\ pc' = "poll"
  /\ selected' = CASE mouse = "up" -> selected [] mouse = "on" -> TRUE [] mouse = "beside" -> FALSE
  /\ IF selected'
     THEN UpdateText /\ meant' = Edited(meant, keys) /\ faults' = faults \cup MixedUp
     ELSE UNCHANGED <<text, currentChar, meant, faults>>
  /\ UNCHANGED <<keys, queue, back>>

-----------------------------------------------------------------------------
Frame == DrawOther \/ \E mouse \in {"up", "on", "beside"} : Draw(mouse)
Input == \E ks \in BoundedSeq(Keys, MaxKeys) : Poll(ks)

Next == Frame \/ Input
Spec == Init /\ [][Next]_vars

-----------------------------------------------------------------------------
(* Properties *)

TypeOK ==
  /\ pc \in {"poll", "draw"} /\ text \in [0 .. SizeLimit -> Chars \cup {NUL}]
  /\ currentChar \in 0 .. SizeLimit /\ selected \in BOOLEAN
  /\ keys \in BoundedSeq(Keys, MaxKeys) /\ back \in BOOLEAN
  /\ queue \in BoundedSeq(Keys \ {"backspace"}, QueueLimit)
  /\ meant \in BoundedSeq(Chars, SizeLimit)
  /\ faults \subseteq {"order lost", "backspace lost", "stopped at odd", "queue full"}

\* getText, the text up to its end: it ends within the buffer, and where the next
\* character will be written, whatever is typed and deleted at its limits.
getText == LET end == Min({i \in 0 .. SizeLimit : text[i] = NUL})
           IN  [i \in 1 .. end |-> text[i - 1]]
EndsAtCurrentChar ==
  text[currentChar] = NUL /\ \A i \in 0 .. currentChar - 1 : text[i] # NUL

\* The box holds what was typed into it, unless one frame had to take a character
\* before a backspace, two backspaces, anything after an odd character or more
\* characters than raylib keeps.
HoldsWhatWasTyped == faults = {} => getText = meant
=============================================================================
