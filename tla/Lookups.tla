------------------------------ MODULE Lookups ------------------------------
(***************************************************************************)
(* One tick, and before it one board or one watch made, of a fleet that is *)
(* parked: the tick asks with a shared query, the board and the baseline   *)
(* of the watch with one of their own, and they have to agree.             *)
(***************************************************************************)
EXTENDS Coalesce, Board

CONSTANTS
  Ground,     \* where vehicles may be parked
  RangeOf,    \* how far their batteries last
  Serviced,   \* the vehicles that may be given a full one, of FullM metres,
  FullM,      \* or be put in and out of service
  Asked,      \* the fences clients ask about
  Asks,       \* the radius they ask for, 0 for the fence's own, and the limit
  WatchKinds  \* the operators and the range a watch may ask for

ASSUME LookupsAssumption ==
  /\ Ground \subseteq Int /\ RangeOf \in [Vehicles -> Nat]
  /\ Serviced \subseteq Vehicles /\ FullM \in Nat /\ Asked \subseteq FenceIds
  /\ Asks \subseteq [radius : Nat, limit : Nat]
  /\ WatchKinds \subseteq [operators : SUBSET Operators, minRange : Nat]

VARIABLES
  armed,  \* the watch made, with its baseline
  before  \* history: the fleet when that was asked for

vars == <<fleet, place, tickVars, told, armed, before>>

NoWatch == [fence |-> {}, watch |-> {}, baseline |-> {}, truncated |-> FALSE]

Init ==
  /\ \E parked \in [Vehicles -> [at : Ground, rentable : BOOLEAN]] :
       fleet = [v \in Vehicles |-> [at |-> parked[v].at, rentable |-> parked[v].rentable,
                                   range |-> RangeOf[v]]]
  /\ TickInit
  /\ told = NoBoard
  /\ armed = NoWatch /\ before = fleet

(* One request a run, before the tick.                                     *)
Quiet == told = NoBoard /\ armed = NoWatch /\ done = -1

(* GET /v1/board?fence=...                                                 *)
Ask(f) ==
  /\ Quiet
  /\ \E ask \in Asks :
       ComputeBoard(place[f].at, IF ask.radius > 0 THEN ask.radius ELSE place[f].radius,
                    {}, ask.limit)
  /\ UNCHANGED <<fleet, place, tickVars, armed, before>>

(* createWatch: the baseline is asked for with the filters of the watch.   *)
Arm(f) ==
  /\ Quiet
  /\ \E watch \in WatchKinds :
       \E result \in Results(Query(place[f].at, 1, place[f].radius,
                                   watch.operators, watch.minRange, 0)) :
         armed' = [fence |-> {f}, watch |-> {watch},
                   baseline |-> result.vehicles, truncated |-> result.truncated]
  /\ UNCHANGED <<fleet, place, tickVars, told, before>>

(* Once a watch is made, a vehicle gets a battery, or is reserved, or free. *)
Service(v) ==
  /\ armed # NoWatch /\ done = -1 /\ fleet = before
  /\ fleet' \in {[fleet EXCEPT ![v].range = FullM],
                 [fleet EXCEPT ![v].rentable = ~ @]}
  /\ UNCHANGED <<place, tickVars, told, armed, before>>

Tick == (Fetch \/ Serve \/ Skip) /\ UNCHANGED <<fleet, told, armed, before>>

Next ==
  \/ Tick
  \/ \E f \in Asked : Ask(f) \/ Arm(f)
  \/ \E v \in Serviced : Service(v)

Spec == Init /\ [][Next]_vars

(* Faulty: the range a watch asks for is not looked at again.              *)
MatchesAnyRange(vehicles, watch) ==
  {v \in vehicles : OpOf[v] \in OperatorIDs(watch.operators)}

Matches(vehicles, watch) ==
  {v \in vehicles : /\ OpOf[v] \in OperatorIDs(watch.operators)
                    /\ fleet[v].range >= watch.minRange}

-----------------------------------------------------------------------------
Rentable(f, radius) == {v \in Vehicles : fleet[v].rentable /\ Away(f, v) <= radius}

(* A tick counts in each fence exactly what can be rented in it, however   *)
(* its query was shared, or its report says that an answer was cut         *)
(* (groupFences, BoundingRadiusM, within).                                 *)
NothingOverlooked ==
  \A f \in Served : truncated \/ inside = Rentable(f, place[f].radius)

(* A reading is the distance to the nearest vehicle of the operator that   *)
(* can be rented, or says there is none within reach or in the fence,      *)
(* unless an answer was cut or as many as are asked for stand nearer and   *)
(* cannot be rented (recordNearest, nearestOf).                            *)
ReadingsAreTrue ==
  \A f \in Served, o \in Operators :
    LET own == {v \in Rentable(f, Max({ReachM, place[f].radius})) : OpOf[v] = o}
        nearest == NearestOf(own, f)
        spoilt == {v \in Vehicles : /\ OpOf[v] = o /\ ~ fleet[v].rentable
                                    /\ Away(f, v) <= IF own = {} THEN ReachM ELSE nearest}
    IN  \/ reading[o] \in {Unread, nearest}
        \/ truncated
        \/ Cardinality(spoilt) >= ProbeCount

(* The board of a fence and the tick's record of it name the same numbers  *)
(* and the same nearest vehicle, unless the tick's answer was cut or the   *)
(* board's own was (computeBoard, Assemble, recordFence).                  *)
BoardAgreesWithTick ==
  \A f \in Served : \A q \in told.query : \A summary \in told.summary :
    (/\ q = Query(place[f].at, 1, place[f].radius, {}, 0, 0)
     /\ ~ truncated
     /\ \E result \in Results(q) : ~ result.truncated)
    => \A o \in Operators :
         LET own == {v \in inside : OpOf[v] = o}
         IN  IF own = {} THEN o \notin DOMAIN summary
             ELSE /\ o \in DOMAIN summary
                  /\ summary[o].count = Cardinality(own)
                  /\ summary[o].nearest = reading[o]

(* A watch on a parked fleet fires only for a vehicle that was serviced    *)
(* since its baseline was read, at which time it could not be rented, or   *)
(* not go as far as the watch asks; unless the baseline was cut (baseline, *)
(* within, matches).                                                       *)
ParkedFleetFiresNothing ==
  \A f \in armed.fence \cap Served : \A watch \in armed.watch :
    \A v \in Matches(inside, watch) \ armed.baseline :
      \/ armed.truncated
      \/ /\ fleet[v] # before[v]
         /\ ~ before[v].rentable \/ before[v].range < watch.minRange
=============================================================================
