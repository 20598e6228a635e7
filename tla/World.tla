------------------------------- MODULE World -------------------------------
(***************************************************************************)
(* What the daemon looks at and does not control: the clock, where the     *)
(* rentable vehicles stand, and the answers of the upstream API (Entur)    *)
(* that reports them.  A place is what a fence covers, a centre and a      *)
(* radius; a vehicle stands in one place or in none of those watched.      *)
(***************************************************************************)
EXTENDS Integers, FiniteSets

CONSTANTS
  Places,     \* the areas a fence may cover
  Elsewhere,  \* where a vehicle is when no fence could see it
  Vehicles,   \* vehicle ids; an id names one vehicle for as long as it lives
  Watches,    \* watch ids; randomID() never issues one twice
  MaxClock,   \* bound: the clock stops here, in units of one poll interval
  Env         \* which faults and requests the environment makes in this run

EnvEvents == {"blink", "upstream", "crash", "stop", "reconnect",
              "save", "delete", "cancel"}

ASSUME WorldAssumption ==
  /\ Elsewhere \notin Places
  /\ MaxClock \in Nat
  /\ Env \subseteq EnvEvents

VARIABLES
  clock,  \* what p.now() and s.now() return
  pos,    \* the place each vehicle stands in
  still   \* history: for a watch, the vehicles that have not moved since the
          \* baseline of the watch was read

worldVars == <<clock, pos, still>>

WorldInit ==
  /\ clock = 0
  /\ pos \in [Vehicles -> Places \cup {Elsewhere}]
  /\ still = [w \in Watches |-> {}]

WorldTypeOK ==
  /\ clock \in 0 .. MaxClock
  /\ pos \in [Vehicles -> Places \cup {Elsewhere}]
  /\ still \in [Watches -> SUBSET Vehicles]

(* One poll interval goes by.                                              *)
ClockTick ==
  /\ clock < MaxClock
  /\ clock' = clock + 1
  /\ UNCHANGED <<pos, still>>

(* A vehicle is ridden away, ridden in, or picked up by its operator.      *)
Move(v, q) ==
  /\ pos[v] # q
  /\ pos' = [pos EXCEPT ![v] = q]
  /\ still' = [w \in Watches |-> still[w] \ {v}]
  /\ UNCHANGED clock

(* What the API may answer to one query about some places: the vehicles in *)
(* them, or fewer when it lets a vehicle blink out of an answer.           *)
Answers(places) ==
  LET there == {v \in Vehicles : pos[v] \in places}
  IN  IF "blink" \in Env THEN SUBSET there ELSE {there}
=============================================================================
