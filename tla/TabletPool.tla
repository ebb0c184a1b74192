----------------------------- MODULE TabletPool -----------------------------
(***************************************************************************)
(* What the Bluetooth side promises, seen from outside: each connected      *)
(* tablet has one transaction at a time, a transaction is settled only      *)
(* after its worker has ended, and a tablet is removed only between         *)
(* transactions.  The promise lasts while the pool is intact; once the      *)
(* vector moved an element under a live transaction nothing is promised     *)
(* until all tablets are disconnected.                                      *)
(***************************************************************************)
CONSTANT Tablets

VARIABLES state,    \* of each connection
          intact    \* the promise still holds

poolVars == <<state, intact>>

States == {"absent", "idle", "working", "answered", "gone"}
Present(t) == state[t] \notin {"absent", "gone"}

PoolInit == state = [t \in Tablets |-> "absent"] /\ intact = TRUE

Move(t, from, to) ==
  /\ intact /\ intact' = TRUE
  /\ state[t] \in from /\ \E s \in to : state' = [state EXCEPT ![t] = s]

Connect(t) == Move(t, {"absent"}, {"idle"})
Start(t)   == Move(t, {"idle"}, {"working", "answered"})
Answer(t)  == Move(t, {"working"}, {"answered"})
Settle(t)  == Move(t, {"answered"}, {"idle"})
Remove(t)  == Move(t, {"idle", "answered"}, {"gone"})

\* The disconnect button, once no transaction is under way; it also ends a
\* disturbance.
RemoveAll ==
  /\ intact => \A t \in Tablets : state[t] # "working"
  /\ intact' = TRUE
  /\ state' = [t \in Tablets |-> IF Present(t) THEN "gone" ELSE state[t]]

\* An element moved or died under a live transaction.
Disturb == intact' = FALSE /\ state' \in [Tablets -> States]

PoolNext == \/ RemoveAll \/ Disturb
            \/ \E t \in Tablets : Connect(t) \/ Start(t) \/ Answer(t) \/ Settle(t) \/ Remove(t)
PoolSpec == PoolInit /\ [][PoolNext]_poolVars
=============================================================================
