----------------------------- MODULE ErrorTexts -----------------------------
(***************************************************************************)
(* The texts of Winsock's errors (winsockErrorDesc.hpp): one static map,     *)
(* which every lookup empties, fills and then reads.  The GUI thread looks a *)
(* text up when E is pressed or a call fails (main.cpp 186, btIncludes.hpp   *)
(* 37-45), the worker of a tablet when its read fails (btTabObj.hpp 131),    *)
(* with no lock between them.                                               *)
(***************************************************************************)
EXTENDS Integers

CONSTANTS Threads,    \* the GUI thread and the workers
          CodeCount   \* entries of the map, in the order of their inserts

ASSUME CodesAssumption == CodeCount \in Nat \ {0}

VARIABLES pc,          \* per thread: "idle", "clear", "insert" or "at"
          code,        \* per thread: the code it looks up
          upto,        \* per thread: the entry to insert next
          errorCodes,  \* entries the map has
          ended,       \* the program has ended, by an exception or otherwise
          faults       \* what has gone wrong so far

vars == <<pc, code, upto, errorCodes, ended, faults>>

Codes   == 1 .. CodeCount
Unknown == CodeCount + 1           \* a code the map has no entry for
InGet(t) == pc[t] # "idle"

Init ==
  /\ pc = [t \in Threads |-> "idle"] /\ code = [t \in Threads |-> Unknown]
  /\ upto = [t \in Threads |-> 1] /\ errorCodes = {}
  /\ ended = FALSE /\ faults = {}

-----------------------------------------------------------------------------
\* get: init is never set, so initVector is always called.
Get(t, c) ==
  /\ ~ended /\ pc[t] = "idle"
  /\ pc' = [pc EXCEPT ![t] = "clear"] /\ code' = [code EXCEPT ![t] = c]
  /\ faults' = faults \cup (IF c = Unknown THEN {"unknown code"} ELSE {})
                      \cup (IF \E u \in Threads : InGet(u) THEN {"overlap"} ELSE {})
  /\ UNCHANGED <<upto, errorCodes, ended>>

Clear(t) ==
  /\ ~ended /\ pc[t] = "clear"
  /\ pc' = [pc EXCEPT ![t] = "insert"] /\ upto' = [upto EXCEPT ![t] = 1]
  /\ errorCodes' = {}
  /\ UNCHANGED <<code, ended, faults>>

InsertButLast(t) ==
  /\ ~ended /\ pc[t] = "insert"
  /\ errorCodes' = IF upto[t] < CodeCount THEN errorCodes \cup {upto[t]} ELSE errorCodes
  /\ upto' = [upto EXCEPT ![t] = IF @ < CodeCount THEN @ + 1 ELSE @]
  /\ pc' = IF upto[t] < CodeCount THEN pc ELSE [pc EXCEPT ![t] = "at"]
  /\ UNCHANGED <<code, ended, faults>>
Insert(t) ==
  /\ ~ended /\ pc[t] = "insert"
  /\ errorCodes' = errorCodes \cup {upto[t]}
  /\ upto' = [upto EXCEPT ![t] = IF @ < CodeCount THEN @ + 1 ELSE @]
  /\ pc' = IF upto[t] < CodeCount THEN pc ELSE [pc EXCEPT ![t] = "at"]
  /\ UNCHANGED <<code, ended, faults>>

\* at() throws when there is no entry: nobody catches it, on the GUI thread now, from
\* a worker when the GUI thread takes its result.
At(t) ==
  /\ ~ended /\ pc[t] = "at"
  /\ pc' = [pc EXCEPT ![t] = "idle"]
  /\ ended' = (code[t] \notin errorCodes)
  /\ UNCHANGED <<code, upto, errorCodes, faults>>

\* Two threads in the map at once: the data race may also corrupt it.
Corrupt ==
  /\ ~ended /\ \E t, u \in Threads : t # u /\ InGet(t) /\ InGet(u)
  /\ ended' = TRUE
  /\ UNCHANGED <<pc, code, upto, errorCodes, faults>>

-----------------------------------------------------------------------------
Next == Corrupt \/ \E t \in Threads :
          (\E c \in Codes \cup {Unknown} : Get(t, c)) \/ Clear(t) \/ Insert(t) \/ At(t)
Spec == Init /\ [][Next]_vars

-----------------------------------------------------------------------------
(* Properties *)

TypeOK ==
  /\ pc \in [Threads -> {"idle", "clear", "insert", "at"}]
  /\ code \in [Threads -> Codes \cup {Unknown}] /\ upto \in [Threads -> Codes]
  /\ errorCodes \subseteq Codes
  /\ ended \in BOOLEAN /\ faults \subseteq {"unknown code", "overlap"}

\* A lookup alone finds the text of every code there is: the program is ended by one
\* only when two overlap or the code is none of them.
AloneFindsItsText == ended => faults # {}
=============================================================================
