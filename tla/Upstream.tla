------------------------------ MODULE Upstream ------------------------------
(***************************************************************************)
(* entur/client.go: one question to the mobility API and what the client   *)
(* makes of the answer.  The ground is a line, and a place on it a number  *)
(* of metres: what the properties tell apart is who is nearer to what.     *)
(***************************************************************************)
EXTENDS Integers, FiniteSets, FiniteSetsExt

CONSTANTS
  Vehicles,
  Operators,   \* the operators table, entur.go
  OpOf,        \* the operator of each vehicle
  MaxResults   \* the API sends no more vehicles than this

ASSUME UpstreamAssumption ==
  /\ IsFiniteSet(Vehicles) /\ OpOf \in [Vehicles -> Operators]
  /\ MaxResults \in Nat \ {0}

VARIABLE
  fleet  \* where each vehicle is parked, whether it can be rented (in
         \* service, not reserved, a standing scooter), and how far its
         \* battery lasts, in metres

Abs(x) == IF x < 0 THEN -x ELSE x

(* A query is about the point sum / n: the middle of n fences, or one      *)
(* place.  Limit 0 stands for the most the API sends.                      *)
Query(sum, n, radius, operators, minRange, limit) ==
  [sum |-> sum, n |-> n, radius |-> radius, operators |-> operators,
   minRange |-> minRange, limit |-> limit]

(* n times the distance from the queried point.                            *)
Far(q, v) == Abs(q.n * fleet[v].at - q.sum)

Inside(q, v) == Far(q, v) <= q.n * q.radius

OperatorIDs(operators) == IF operators = {} THEN Operators ELSE operators

Limit(q) == IF q.limit = 0 \/ q.limit > MaxResults THEN MaxResults ELSE q.limit

(* The API selects the nearest vehicles of the operators asked for, also   *)
(* those nobody can rent.                                                  *)
Sent(q) ==
  LET near == {v \in Vehicles : OpOf[v] \in OperatorIDs(q.operators) /\ Inside(q, v)}
  IN  {raw \in kSubset(Min({Limit(q), Cardinality(near)}), near) :
         \A v \in raw, other \in near \ raw : Far(q, v) <= Far(q, other)}

Convert(raw, q) ==
  {v \in raw : fleet[v].rentable /\ fleet[v].range >= q.minRange /\ Inside(q, v)}

(* Faulty: the cap is compared with what is left after the filters.        *)
TruncatedAfterFilters(raw, q) ==
  Cardinality(Convert(raw, q)) >= Limit(q) /\ Limit(q) = MaxResults

Truncated(raw, q) == Cardinality(raw) >= Limit(q) /\ Limit(q) = MaxResults

(* What a query may come back with.                                        *)
Results(q) ==
  {[vehicles |-> Convert(raw, q), truncated |-> Truncated(raw, q)] : raw \in Sent(q)}
=============================================================================
