------------------------------ MODULE WatchBook ------------------------------
(***************************************************************************)
(* What the store, the poller and the API together promise about watches,  *)
(* whoever acts and in whatever order: a watch is armed once and fires     *)
(* only while armed, a watch that does not repeat fires once, every report *)
(* is of a fire, and no report of a fire is made twice.  Nothing here says *)
(* why a watch fires, nor that a fire is always reported.                  *)
(***************************************************************************)
EXTENDS Naturals

CONSTANT Watches

VARIABLES
  state,     \* the state of each watch
  repeating, \* the watches that stay armed when they fire
  fired,     \* how many times each has fired
  told       \* how many fires of each have been reported

bookVars == <<state, repeating, fired, told>>

Init ==
  /\ state = [w \in Watches |-> "absent"]
  /\ repeating = {}
  /\ fired = [w \in Watches |-> 0]
  /\ told = [w \in Watches |-> 0]

Arm(w) ==
  /\ state[w] = "absent"
  /\ state' = [state EXCEPT ![w] = "armed"]
  /\ repeating' \in {repeating, repeating \cup {w}}
  /\ UNCHANGED <<fired, told>>

Fire(w) ==
  /\ state[w] = "armed"
  /\ state' = [state EXCEPT ![w] = IF w \in repeating THEN "armed" ELSE "fired"]
  /\ fired' = [fired EXCEPT ![w] = @ + 1]
  /\ UNCHANGED <<repeating, told>>

Tell(w) ==
  /\ told[w] < fired[w]
  /\ told' = [told EXCEPT ![w] = @ + 1]
  /\ UNCHANGED <<state, repeating, fired>>

(* Some watches change state together: armed ones expire, ones that exist  *)
(* are cancelled, and ones that are no longer armed are removed.           *)
MoveAll(ws, to) ==
  /\ state' = [w \in Watches |-> IF w \in ws THEN to ELSE state[w]]
  /\ UNCHANGED <<repeating, fired, told>>

Expire(ws) == (\A w \in ws : state[w] = "armed") /\ MoveAll(ws, "expired")

Cancel(ws) ==
  /\ \A w \in ws : state[w] \notin {"absent", "deleted"}
  /\ MoveAll(ws, "cancelled")

Remove(ws) ==
  /\ \A w \in ws : state[w] \notin {"absent", "armed", "deleted"}
  /\ MoveAll(ws, "deleted")

Next ==
  \/ \E w \in Watches : Arm(w) \/ Fire(w) \/ Tell(w)
  \/ \E ws \in SUBSET Watches : Expire(ws) \/ Cancel(ws) \/ Remove(ws)

Spec == Init /\ [][Next]_bookVars

-----------------------------------------------------------------------------
(* A watch that does not repeat fires at most once and never again after   *)
(* it left the armed state; nothing is reported that did not fire          *)
(* (MarkFired: "a concurrent tick cannot fire it twice").                  *)
FiresAtMostOnce ==
  \A w \in Watches :
    /\ told[w] <= fired[w]
    /\ w \notin repeating => fired[w] <= (IF state[w] \in {"absent", "armed"}
                                          THEN 0 ELSE 1)
=============================================================================
