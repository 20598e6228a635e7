------------------------------ MODULE Coalesce ------------------------------
(***************************************************************************)
(* poll/poll.go and geo/geo.go: one query for all fences where a circle    *)
(* around them is small enough, its answer cut up again fence by fence,    *)
(* and the reading of how far the nearest vehicle of each operator is.     *)
(***************************************************************************)
EXTENDS Upstream, Sequences

CONSTANTS
  Fences,           \* the fences, in the order the store lists them
  Sites,            \* where they may lie: functions to a centre and a radius
  MaxQueryRadiusM,
  ReachM,           \* how far the nearest vehicle is looked for
  ProbeCount        \* and how many vehicles that query asks for

FenceIds == {Fences[i] : i \in DOMAIN Fences}

ASSUME CoalesceAssumption ==
  /\ Sites \subseteq [FenceIds -> [at : Int, radius : Nat \ {0}]]
  /\ Fences \in Seq(FenceIds)
  /\ MaxQueryRadiusM \in Nat /\ ReachM \in Nat /\ ProbeCount \in 1 .. MaxResults

VARIABLES
  place,     \* the site of this run
  reply,     \* for each fence, what the query of its group came back with
  done,      \* how many fences the tick has dealt with; -1 before its queries
  inside,    \* the vehicles the tick counted in the fence it served last
  reading,   \* how far the nearest of each operator is from that fence
  truncated  \* the report says an answer was cut

tickVars == <<reply, done, inside, reading, truncated>>

Failed  == [vehicles |-> {}, truncated |-> FALSE, failed |-> TRUE]
Unread  == -2  \* nobody looked
Nowhere == -1  \* nothing within ReachM: a reading without a distance

Away(f, v) == Abs(fleet[v].at - place[f].at)

-----------------------------------------------------------------------------
(* groupFences                                                             *)

(* n times the radius of the circle around the middle of all fences that   *)
(* covers every one of them, and n times that middle.                      *)
SumOfCentres == MapThenSumSet(LAMBDA f : place[f].at, FenceIds)

BoundingRadius ==
  LET n == Cardinality(FenceIds)
  IN  Max({Abs(SumOfCentres - n * place[f].at) + n * place[f].radius : f \in FenceIds})

(* Faulty: the fraction of a metre the radius has is cut off.              *)
GroupOfRoundedDown(f) ==
  LET n == Cardinality(FenceIds)
  IN  IF BoundingRadius <= n * MaxQueryRadiusM
      THEN Query(SumOfCentres, n, BoundingRadius \div n, {}, 0, 0)
      ELSE Query(place[f].at, 1, place[f].radius, {}, 0, 0)

(* The query that serves a fence.                                          *)
GroupOf(f) ==
  LET n == Cardinality(FenceIds)
  IN  IF BoundingRadius <= n * MaxQueryRadiusM
      THEN Query(SumOfCentres, n, BoundingRadius \div n + 1, {}, 0, 0)
      ELSE Query(place[f].at, 1, place[f].radius, {}, 0, 0)

(* Faulty: an answer is handed on as it came.                              *)
WithinAll(vehicles, f) == vehicles

Within(vehicles, f) == {v \in vehicles : Away(f, v) <= place[f].radius}

-----------------------------------------------------------------------------
(* recordNearest: an operator with a vehicle in the fence is read off the  *)
(* answer, any other is looked for, and a look that fails records nothing. *)
Closest(vehicles, f) == Min({Away(f, v) : v \in vehicles})

NearestOf(vehicles, f) == IF vehicles = {} THEN Nowhere ELSE Closest(vehicles, f)

(* Faulty: one vehicle is asked for.                                       *)
ProbeOne(f, o) == Query(place[f].at, 1, ReachM, {o}, 0, 1)

Probe(f, o) == Query(place[f].at, 1, ReachM, {o}, 0, ProbeCount)

Readings(vehicles, f, o) ==
  LET present == {v \in vehicles : OpOf[v] = o}
  IN  IF present # {} THEN {Closest(present, f)}
      ELSE {Unread} \cup {NearestOf(r.vehicles, f) : r \in Results(Probe(f, o))}

-----------------------------------------------------------------------------
TickInit ==
  /\ place \in Sites
  /\ reply = [f \in FenceIds |-> Failed]
  /\ done = -1
  /\ inside = {}
  /\ reading = [o \in Operators |-> Unread]
  /\ truncated = FALSE

(* Tick: the queries run at once and are waited for; each may fail.        *)
Fetch ==
  LET queries == {GroupOf(f) : f \in FenceIds}
      outcomes(q) == {Failed} \cup Results(q)
  IN  /\ done = -1
      /\ \E answer \in [queries -> UNION {outcomes(q) : q \in queries}] :
           /\ \A q \in queries : answer[q] \in outcomes(q)
           /\ reply' = [f \in FenceIds |-> answer[GroupOf(f)]]
      /\ done' = 0
      /\ UNCHANGED <<place, inside, reading, truncated>>

(* The turn of the next fence: recordFence and recordNearest.              *)
Turn == Fences[done + 1]

Serve ==
  /\ done \in 0 .. Len(Fences) - 1
  /\ reply[Turn] # Failed
  /\ LET vehicles == Within(reply[Turn].vehicles, Turn)
         readings(o) == Readings(vehicles, Turn, o)
     IN  /\ inside' = vehicles
         /\ reading' \in [Operators -> UNION {readings(o) : o \in Operators}]
         /\ \A o \in Operators : reading'[o] \in readings(o)
  /\ truncated' = (truncated \/ reply[Turn].truncated)
  /\ done' = done + 1
  /\ UNCHANGED <<place, reply>>

(* A fence whose query failed is passed over.                              *)
Skip ==
  /\ done \in 0 .. Len(Fences) - 1
  /\ reply[Turn] = Failed
  /\ done' = done + 1
  /\ UNCHANGED <<place, reply, inside, reading, truncated>>

(* The fence the tick has just counted, if there is one.                   *)
Served == {Fences[i] : i \in {j \in {done} \cap DOMAIN Fences : reply[Fences[j]] # Failed}}
=============================================================================
