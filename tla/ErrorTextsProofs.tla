-------------------------- MODULE ErrorTextsProofs --------------------------
(* Proofs about ErrorTexts, for any threads and any number of codes. *)
EXTENDS ErrorTexts, TLAPS

-----------------------------------------------------------------------------
(* The inductive invariant, in parts *)

\* Two threads are never in a lookup unnoticed.
OverlapInv == \A t, u \in Threads : t # u /\ InGet(t) /\ InGet(u) => "overlap" \in faults

\* What a thread alone has inserted is there.
FilledInv ==
  "overlap" \notin faults => \A t \in Threads :
    /\ pc[t] = "insert" => \A c \in Codes : c < upto[t] => c \in errorCodes
    /\ pc[t] = "at" => Codes \subseteq errorCodes

AskedInv == \A t \in Threads : InGet(t) /\ code[t] \notin Codes => "unknown code" \in faults

Inv == TypeOK /\ OverlapInv /\ FilledInv /\ AskedInv /\ AloneFindsItsText

-----------------------------------------------------------------------------
(* Every step keeps it *)

\* An insert stays among the codes.
LEMMA TypeStep == TypeOK /\ [Next]_vars => TypeOK'
<1> SUFFICES ASSUME TypeOK, [Next]_vars PROVE TypeOK'
  OBVIOUS
<1> USE CodesAssumption
<1>1. ASSUME NEW t \in Threads, NEW c \in Codes \cup {Unknown}, Get(t, c) PROVE TypeOK'
  <2>1. pc' \in [Threads -> {"idle", "clear", "insert", "at"}] /\ code' \in [Threads -> Codes \cup {Unknown}]
    BY <1>1 DEF Get, TypeOK
  <2>2. UNCHANGED <<upto, errorCodes, ended>>
    BY <1>1 DEF Get
  <2>3. faults' \subseteq {"unknown code", "overlap"}
    <3>1. faults' \subseteq faults \cup {"unknown code", "overlap"}
      BY <1>1 DEF Get
    <3> QED
      BY <3>1 DEF TypeOK
  <2> QED
    BY <2>1, <2>2, <2>3 DEF TypeOK
<1>2. ASSUME NEW t \in Threads, Clear(t) PROVE TypeOK'
  <2>1. /\ pc' = [pc EXCEPT ![t] = "insert"] /\ upto' = [upto EXCEPT ![t] = 1] /\ errorCodes' = {}
        /\ UNCHANGED <<code, ended, faults>>
    BY <1>2 DEF Clear
  <2>2. 1 \in Codes
    BY DEF Codes
  <2> QED
    BY <2>1, <2>2 DEF TypeOK
<1>3. ASSUME NEW t \in Threads, Insert(t) PROVE TypeOK'
  <2>1. /\ errorCodes' = errorCodes \cup {upto[t]}
        /\ upto' = [upto EXCEPT ![t] = IF @ < CodeCount THEN @ + 1 ELSE @]
        /\ pc' = IF upto[t] < CodeCount THEN pc ELSE [pc EXCEPT ![t] = "at"]
        /\ UNCHANGED <<code, ended, faults>>
    BY <1>3 DEF Insert
  <2>2. upto[t] \in Codes
    BY DEF TypeOK
  <2>3. (IF upto[t] < CodeCount THEN upto[t] + 1 ELSE upto[t]) \in Codes
    BY <2>2 DEF Codes
  <2>4. pc' \in [Threads -> {"idle", "clear", "insert", "at"}]
    BY <2>1 DEF TypeOK
  <2> QED
    BY <2>1, <2>2, <2>3, <2>4 DEF TypeOK
<1>4. ASSUME NEW t \in Threads, At(t) PROVE TypeOK'
  BY <1>4 DEF At, TypeOK
<1>5. CASE Corrupt \/ UNCHANGED vars
  BY <1>5 DEF Corrupt, vars, TypeOK
<1> QED
  BY <1>1, <1>2, <1>3, <1>4, <1>5 DEF Next

\* A lookup that begins while another runs is noticed.
LEMMA OverlapStep == TypeOK /\ OverlapInv /\ [Next]_vars => OverlapInv'
<1> SUFFICES ASSUME TypeOK, OverlapInv, [Next]_vars PROVE OverlapInv'
  OBVIOUS
<1>1. ASSUME NEW t \in Threads, NEW c \in Codes \cup {Unknown}, Get(t, c) PROVE OverlapInv'
  <2>1. \A u \in Threads \ {t} : pc'[u] = pc[u]
    BY <1>1 DEF Get, TypeOK
  <2>2. faults \subseteq faults' /\ ((\E u \in Threads : InGet(u)) => "overlap" \in faults')
    BY <1>1 DEF Get
  <2> QED
    BY <2>1, <2>2 DEF OverlapInv, InGet
<1>2. ASSUME NEW t \in Threads, Clear(t) \/ Insert(t) \/ At(t) PROVE OverlapInv'
  <2>1. /\ faults' = faults /\ InGet(t)
        /\ \A u \in Threads : u # t => pc'[u] = pc[u]
    BY <1>2 DEF Clear, Insert, At, InGet, TypeOK
  <2> QED
    BY <2>1 DEF OverlapInv, InGet
<1>3. CASE Corrupt \/ UNCHANGED vars
  BY <1>3 DEF Corrupt, vars, OverlapInv, InGet
<1> QED
  BY <1>1, <1>2, <1>3 DEF Next

\* A code asked for that is none of the map's is noticed.
LEMMA AskedStep == TypeOK /\ AskedInv /\ [Next]_vars => AskedInv'
<1> SUFFICES ASSUME TypeOK, AskedInv, [Next]_vars PROVE AskedInv'
  OBVIOUS
<1>1. ASSUME NEW t \in Threads, NEW c \in Codes \cup {Unknown}, Get(t, c) PROVE AskedInv'
  <2>1. \A u \in Threads \ {t} : pc'[u] = pc[u] /\ code'[u] = code[u]
    BY <1>1 DEF Get, TypeOK
  <2>2. code'[t] = c /\ faults \subseteq faults' /\ (c = Unknown => "unknown code" \in faults')
    BY <1>1 DEF Get, TypeOK
  <2> QED
    BY <2>1, <2>2 DEF AskedInv, InGet
<1>2. ASSUME NEW t \in Threads, Clear(t) \/ Insert(t) \/ At(t) PROVE AskedInv'
  <2>1. /\ faults' = faults /\ InGet(t) /\ code' = code
        /\ \A u \in Threads : u # t => pc'[u] = pc[u]
    BY <1>2 DEF Clear, Insert, At, InGet, TypeOK
  <2> QED
    BY <2>1 DEF AskedInv, InGet
<1>3. CASE Corrupt \/ UNCHANGED vars
  BY <1>3 DEF Corrupt, vars, AskedInv, InGet
<1> QED
  BY <1>1, <1>2, <1>3 DEF Next

\* Alone, a thread finds what it has inserted so far, and at the end all of it.
LEMMA FilledStep == TypeOK /\ OverlapInv /\ FilledInv /\ [Next]_vars => FilledInv'
<1> SUFFICES ASSUME TypeOK, OverlapInv, FilledInv, [Next]_vars, "overlap" \notin faults', NEW u \in Threads
             PROVE  /\ pc'[u] = "insert" => \A c \in Codes : c < upto'[u] => c \in errorCodes'
                    /\ pc'[u] = "at" => Codes \subseteq errorCodes'
  BY DEF FilledInv
<1> USE CodesAssumption
<1> DEFINE Filled(v) == /\ pc[v] = "insert" => \A c \in Codes : c < upto[v] => c \in errorCodes
                        /\ pc[v] = "at" => Codes \subseteq errorCodes
<1>0. "overlap" \notin faults
  BY DEF Next, Get, Clear, Insert, At, Corrupt, vars
<1>1. Filled(u) /\ \A v \in Threads : v # u /\ InGet(v) => ~InGet(u)
  BY <1>0 DEF FilledInv, OverlapInv
<1>2. ASSUME NEW t \in Threads, NEW c \in Codes \cup {Unknown}, Get(t, c) PROVE Filled(u)'
  <2>1. (u # t => pc'[u] = pc[u]) /\ (u = t => pc'[u] = "clear") /\ UNCHANGED <<upto, errorCodes>>
    BY <1>2 DEF Get, TypeOK
  <2> QED
    BY <1>1, <2>1
<1>3. ASSUME NEW t \in Threads, Clear(t) PROVE Filled(u)'
  <2>1. InGet(t) /\ (u # t => pc'[u] = pc[u]) /\ (u = t => pc'[u] = "insert" /\ upto'[u] = 1)
    BY <1>3 DEF Clear, InGet, TypeOK
  <2>2. u # t => pc[u] = "idle"
    BY <1>1, <2>1 DEF InGet
  <2>3. \A c \in Codes : ~ (c < 1)
    BY DEF Codes
  <2> QED
    BY <2>1, <2>2, <2>3
<1>4. ASSUME NEW t \in Threads, Insert(t) PROVE Filled(u)'
  <2>1. InGet(t) /\ pc[t] = "insert" /\ (u # t => pc'[u] = pc[u])
    BY <1>4 DEF Insert, InGet, TypeOK
  <2>2. u # t => pc[u] = "idle"
    BY <1>1, <2>1 DEF InGet
  <2>3. CASE u = t
    <3>1. upto[t] \in Codes /\ errorCodes' = errorCodes \cup {upto[t]}
      BY <1>4 DEF Insert, TypeOK
    <3>2. \A c \in Codes : c < upto[t] => c \in errorCodes
      BY <1>1, <2>1, <2>3
    <3>3. CASE upto[t] < CodeCount
      <4>1. pc'[t] = "insert" /\ upto'[t] = upto[t] + 1
        BY <1>4, <2>1, <3>3 DEF Insert, TypeOK
      <4>2. \A c \in Codes : c < upto[t] + 1 => c < upto[t] \/ c = upto[t]
        BY <3>1 DEF Codes
      <4> QED
        BY <2>3, <3>1, <3>2, <4>1, <4>2
    <3>4. CASE ~(upto[t] < CodeCount)
      <4>1. pc'[t] = "at"
        BY <1>4, <3>4 DEF Insert, TypeOK
      <4>2. \A c \in Codes : c < upto[t] \/ c = upto[t]
        BY <3>1, <3>4 DEF Codes
      <4> QED
        BY <2>3, <3>1, <3>2, <4>1, <4>2
    <3> QED
      BY <3>3, <3>4
  <2> QED
    BY <2>1, <2>2, <2>3
<1>5. ASSUME NEW t \in Threads, At(t) PROVE Filled(u)'
  <2>1. (u # t => pc'[u] = pc[u]) /\ (u = t => pc'[u] = "idle") /\ UNCHANGED <<upto, errorCodes>>
    BY <1>5 DEF At, TypeOK
  <2> QED
    BY <1>1, <2>1
<1>6. CASE Corrupt \/ UNCHANGED vars
  BY <1>1, <1>6 DEF Corrupt, vars
<1> QED
  BY <1>2, <1>3, <1>4, <1>5, <1>6 DEF Next

\* The program ends in at(), or in a race.
LEMMA EndStep ==
  TypeOK /\ OverlapInv /\ FilledInv /\ AskedInv /\ AloneFindsItsText /\ [Next]_vars => AloneFindsItsText'
<1> SUFFICES ASSUME TypeOK, OverlapInv, FilledInv, AskedInv, AloneFindsItsText, [Next]_vars, ended'
             PROVE  faults' # {}
  BY DEF AloneFindsItsText
<1>1. ASSUME NEW t \in Threads, At(t) PROVE faults' # {}
  <2>1. pc[t] = "at" /\ code[t] \notin errorCodes /\ faults' = faults
    BY <1>1 DEF At
  <2> QED
    BY <2>1 DEF FilledInv, AskedInv, InGet
<1>2. CASE Corrupt
  BY <1>2 DEF Corrupt, OverlapInv
<1>3. CASE ended' = ended /\ faults \subseteq faults'
  BY <1>3 DEF AloneFindsItsText
<1>4. Corrupt \/ (\E t \in Threads : At(t)) \/ (ended' = ended /\ faults \subseteq faults')
  BY DEF Next, Get, Clear, Insert, vars
<1> QED
  BY <1>1, <1>2, <1>3, <1>4

-----------------------------------------------------------------------------
(* The theorems *)

\* Inv is inductive, and holds of every execution.
THEOREM Invariance == Spec => []Inv
<1>1. Init => Inv
  <2> SUFFICES ASSUME Init PROVE Inv
    OBVIOUS
  <2>1. /\ pc = [t \in Threads |-> "idle"] /\ code = [t \in Threads |-> Unknown]
        /\ upto = [t \in Threads |-> 1] /\ errorCodes = {}
        /\ ended = FALSE /\ faults = {}
    BY DEF Init
  <2>2. 1 \in Codes
    BY CodesAssumption DEF Codes
  <2>3. \A t \in Threads : pc[t] = "idle"
    BY <2>1
  <2>4. TypeOK
    BY <2>1, <2>2 DEF TypeOK
  <2>5. OverlapInv /\ FilledInv /\ AskedInv
    BY <2>3 DEF OverlapInv, FilledInv, AskedInv, InGet
  <2>6. AloneFindsItsText
    BY <2>1 DEF AloneFindsItsText
  <2> QED
    BY <2>4, <2>5, <2>6 DEF Inv
<1>2. Inv /\ [Next]_vars => Inv'
  BY TypeStep, OverlapStep, AskedStep, FilledStep, EndStep DEF Inv
<1> QED
  BY <1>1, <1>2, PTL DEF Spec

\* The lookups keep to the entries of the map, whatever the number of both.
THEOREM TypeCorrect == Spec => []TypeOK
<1>1. Inv => TypeOK
  BY DEF Inv
<1> QED
  BY <1>1, Invariance, PTL

\* However many threads look texts up, only overlapping lookups and unknown codes
\* end the program.
THEOREM FoundAlone == Spec => []AloneFindsItsText
<1>1. Inv => AloneFindsItsText
  BY DEF Inv
<1> QED
  BY <1>1, Invariance, PTL
=============================================================================
