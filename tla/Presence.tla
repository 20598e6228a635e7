------------------------------ MODULE Presence ------------------------------
(***************************************************************************)
(* store/presence.go: the sightings of the vehicles in one fence, kept as  *)
(* stints.  A tick takes its time, asks the API, and commits one           *)
(* transaction; a tick that gets no answer commits nothing.  A consumer    *)
(* follows the arrivals window by window (GET /v1/arrivals, api/api.go).   *)
(***************************************************************************)
EXTENDS Integers, FiniteSets

CONSTANTS
  Vehicles,
  Processes,  \* the processes that tick on the same database
  Stale,      \* how long a vehicle may go unseen, in clock steps
  MaxClock    \* bound

ASSUME PresenceAssumption == Stale \in Nat \ {0} /\ MaxClock \in Nat

VARIABLES
  clock,
  rows,    \* table presence
  at,      \* the time of the tick of each process, -1 between ticks
  seen,    \* what it was answered
  sighted,   \* history: the times of the committed sightings of each vehicle
  until,     \* of the consumer: where its last window ended
  got,       \* the arrivals it was told of,
  twice,     \* those it was told of again,
  overtaken  \* and history: the times of ticks under way when it asked

tickVars == <<rows, at, seen, sighted>>
reader == <<until, got, twice, overtaken>>
vars == <<clock, tickVars, reader>>

Row == [vehicle : Vehicles, first : Nat, last : Nat]

Init ==
  /\ clock = 0
  /\ rows = {}
  /\ at = [p \in Processes |-> -1]
  /\ seen = [p \in Processes |-> {}]
  /\ sighted = [v \in Vehicles |-> {}]
  /\ until = 0 /\ got = {} /\ twice = {} /\ overtaken = {}

ClockTick ==
  /\ clock < MaxClock
  /\ clock' = clock + 1
  /\ UNCHANGED <<tickVars, reader>>

(* The API answers with what happens to be there, or lets it blink out.    *)
Fetch(p) ==
  /\ at[p] = -1
  /\ at' = [at EXCEPT ![p] = clock]
  /\ \E answer \in SUBSET Vehicles : seen' = [seen EXCEPT ![p] = answer]
  /\ UNCHANGED <<clock, rows, sighted, reader>>

(* Faulty: a vehicle unseen for exactly Stale starts a new stint.          *)
FreshStrictly(v, now) == {r \in rows : r.vehicle = v /\ r.last > now - Stale}

(* The open stints at a time: the latest one of each vehicle last seen no  *)
(* longer than Stale ago.                                                  *)
Fresh(v, now) == {r \in rows : r.vehicle = v /\ r.last >= now - Stale}

Open(now) ==
  {r \in rows : /\ r \in Fresh(r.vehicle, now)
                /\ \A other \in Fresh(r.vehicle, now) : other.first <= r.first}

(* Faulty: the stint that is extended starts again.                        *)
ObserveRestarts(p) ==
  LET now == at[p]
      extended == {r \in Open(now) : r.vehicle \in seen[p]}
  IN  /\ now # -1
      /\ rows' = (rows \ extended)
                 \cup {[vehicle |-> v, first |-> now, last |-> now] : v \in seen[p]}
      /\ sighted' = [v \in Vehicles |->
                       IF v \in seen[p] THEN sighted[v] \cup {now} ELSE sighted[v]]
      /\ at' = [at EXCEPT ![p] = -1]
      /\ seen' = [seen EXCEPT ![p] = {}]
      /\ UNCHANGED <<clock, reader>>

(* ObservePresence: a vehicle with an open stint has that extended, any    *)
(* other is an arrival.                                                    *)
ObservePresence(p) ==
  LET now == at[p]
      extended == {r \in Open(now) : r.vehicle \in seen[p]}
      arrived == seen[p] \ {r.vehicle : r \in extended}
  IN  /\ now # -1
      /\ rows' = (rows \ extended)
                 \cup {[r EXCEPT !.last = now] : r \in extended}
                 \cup {[vehicle |-> v, first |-> now, last |-> now] : v \in arrived}
      /\ sighted' = [v \in Vehicles |->
                       IF v \in seen[p] THEN sighted[v] \cup {now} ELSE sighted[v]]
      /\ at' = [at EXCEPT ![p] = -1]
      /\ seen' = [seen EXCEPT ![p] = {}]
      /\ UNCHANGED <<clock, reader>>

(* The query fails, or the tick ends before it commits.                    *)
Lose(p) ==
  /\ at[p] # -1
  /\ at' = [at EXCEPT ![p] = -1]
  /\ seen' = [seen EXCEPT ![p] = {}]
  /\ UNCHANGED <<clock, rows, sighted, reader>>

(* Faulty: both ends belong to the window.                                 *)
ArrivalsClosed(from, to) == {r \in rows : from <= r.first /\ r.first <= to}

(* The rows of the half-open window.                                       *)
Arrivals(from, to) == {r \in rows : from <= r.first /\ r.first < to}

(* arrivals and window: the answer covers the time up to now, and says so. *)
Read ==
  LET told == {<<r.vehicle, r.first>> : r \in Arrivals(until, clock)}
  IN  /\ until < clock
      /\ until' = clock
      /\ got' = got \cup told
      /\ twice' = twice \cup (got \cap told)
      /\ overtaken' = overtaken \cup {at[p] : p \in {q \in Processes : at[q] \in 0 .. clock - 1}}
      /\ UNCHANGED <<clock, tickVars>>

Next ==
  \/ ClockTick
  \/ Read
  \/ \E p \in Processes : Fetch(p) \/ ObservePresence(p) \/ Lose(p)

Spec == Init /\ [][Next]_vars

-----------------------------------------------------------------------------
(* The table is the history of sightings, cut where a vehicle was unseen   *)
(* for longer than Stale: no stint is lost, split, joined or dated wrong,  *)
(* however sightings, blinks and failed ticks follow each other            *)
(* (ObservePresence).                                                      *)
Follows(s, t, times) == s < t /\ ~ \E u \in times : s < u /\ u < t
Starts(times) ==
  {t \in times : \A s \in times : Follows(s, t, times) => t - s > Stale}
Ends(times) ==
  {t \in times : \A u \in times : Follows(t, u, times) => u - t > Stale}

StintsAreRuns ==
  rows = {r \in [vehicle : Vehicles, first : 0 .. MaxClock, last : 0 .. MaxClock] :
            LET times == sighted[r.vehicle]
            IN  /\ r.first \in Starts(times)
                /\ r.last \in Ends(times)
                /\ r.first <= r.last
                /\ ~ \E s \in Starts(times) : r.first < s /\ s <= r.last}

(* A consumer that asks from where its last window ended is told of every  *)
(* arrival once, except the arrivals of a tick that was under way when the *)
(* window it belongs to was read: those it is never told of (Arrivals,     *)
(* ObservePresence commits under the time the tick began).                 *)
EachArrivalOnce ==
  /\ twice = {}
  /\ \A r \in rows : r.first < until => <<r.vehicle, r.first>> \in got \/ r.first \in overtaken
=============================================================================
