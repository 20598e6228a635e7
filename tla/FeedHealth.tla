----------------------------- MODULE FeedHealth -----------------------------
(***************************************************************************)
(* What the poll loop knows about the feeds of the operators around one    *)
(* fence, and what it does with that: recordFence writes a count for every *)
(* operator, recordNearest a reading of the nearest vehicle, in the fence  *)
(* on every tick and within reach every NearestInterval; DarkOperators     *)
(* tells a feed that stopped from an operator that is not there; evaluate  *)
(* holds a scarcity watch back on a dark feed.                             *)
(*                                                                         *)
(* An operator is modelled by its nearest vehicle.  Of the rows of table   *)
(* nearest only what DarkOperators asks for is kept: the latest reading of *)
(* an operator, and when it last had a distance.                           *)
(***************************************************************************)
EXTENDS Integers, FiniteSets

CONSTANTS
  Operators,        \* entur.Operators(), by their place in that list
  Watches,          \* the scarcity watches of the fence: the sets of operators
                    \* they ask for, {} for all; their threshold is zero
  NearestInterval,  \* in poll intervals
  Lookback,         \* how far back DarkOperators looks
  MaxClock,         \* bound
  MaxChanges,       \* bound: how often vehicles move, feeds stop or return
                    \* and the fence is made again
  Env               \* what may happen: see Happenings

Happenings == {"move", "dark", "shutdown", "probe", "restart", "remake"}

ASSUME FeedHealthAssumption ==
  /\ Operators \subseteq Nat /\ IsFiniteSet(Operators) /\ Operators # {}
  /\ Watches \subseteq SUBSET Operators
  /\ NearestInterval \in Nat \ {0} /\ Lookback \in Nat
  /\ MaxClock \in Nat /\ MaxChanges \in Nat
  /\ Env \subseteq Happenings

VARIABLES
  clock, changes,
  where,      \* where the nearest vehicle of each operator really is
  up,         \* the operators whose feed is published
  since,      \* history: when the operator last came into view or went out of
              \* it, -1 for never; in view is a published vehicle within reach
  lost,       \* history: the operators whose last probe failed
  born,       \* history: when the fence was made
  pc, now,    \* where the tick is, and the time it took at its start
  inside,     \* the operators its query found in the fence
  todo,       \* the operators the current loop of the tick has left
  probes,     \* the answers to its probes
  nearestAt,  \* p.nearestAt of the fence, -1 for no entry
  latest,     \* the latest reading of an operator
  seenAt,     \* the time of its latest reading with a distance, -1 for none
  sample,     \* its latest row in table sample
  held, fired \* the watches the tick held back, and those it fired

world == <<clock, changes, where, up, since, lost, born>>
rows == <<latest, seenAt, sample>>
vars == <<world, rows, pc, now, inside, todo, probes, nearestAt, held, fired>>

Spots == {"inside", "reach", "away"}
Readings == {"no row", "none", "some"}
PCs == {"idle", "query", "sample", "closest", "probe", "nearest", "evaluate"}

(* In view.                                                                *)
Visible(o) == o \in up /\ where[o] # "away"

Init ==
  /\ clock = 0 /\ changes = 0
  /\ where \in [Operators -> Spots]
  /\ up = Operators
  /\ since = [o \in Operators |-> IF where[o] = "away" THEN -1 ELSE 0]
  /\ lost = {}
  /\ born = 0
  /\ pc = "idle" /\ now = -1
  /\ inside = {} /\ todo = {} /\ held = {} /\ fired = {}
  /\ probes = [o \in Operators |-> "no row"]
  /\ nearestAt = -1
  /\ latest = [o \in Operators |-> "no row"]
  /\ seenAt = [o \in Operators |-> -1]
  /\ sample = [o \in Operators |-> [at |-> -1, count |-> 0]]

-----------------------------------------------------------------------------
(* The world.                                                              *)
Becomes(where2, up2) ==
  /\ changes < MaxChanges
  /\ changes' = changes + 1
  /\ where' = where2
  /\ up' = up2
  /\ since' = [o \in Operators |-> IF Visible(o) # Visible(o)' THEN clock ELSE since[o]]
  /\ UNCHANGED <<clock, lost, born, rows, pc, now, inside, todo, probes, nearestAt,
                 held, fired>>

Move ==
  /\ "move" \in Env
  /\ \E o \in Operators : \E spot \in Spots \ {where[o]} :
       Becomes([where EXCEPT ![o] = spot], up)

GoDark ==
  /\ "dark" \in Env
  /\ \E o \in up : Becomes(where, up \ {o})

ComeBack ==
  /\ "dark" \in Env
  /\ \E o \in Operators \ up : Becomes(where, up \cup {o})

(* "every operator quiet at once, as happens overnight in Norway"          *)
Shutdown ==
  /\ "shutdown" \in Env
  /\ up # {}
  /\ Becomes(where, {})

ClockTick ==
  /\ clock < MaxClock
  /\ clock' = clock + 1
  /\ UNCHANGED <<changes, where, up, since, lost, born, rows, pc, now, inside, todo,
                 probes, nearestAt, held, fired>>

-----------------------------------------------------------------------------
(* The tick.                                                               *)
BeginTick ==
  /\ pc = "idle"
  /\ clock > now
  /\ pc' = "query"
  /\ now' = clock
  /\ held' = {} /\ fired' = {}
  /\ UNCHANGED <<world, rows, inside, todo, probes, nearestAt>>

(* The one query of the fence; the loops over what it found are next.      *)
Query ==
  /\ pc = "query"
  /\ pc' = "sample"
  /\ inside' = {o \in up : where[o] = "inside"}
  /\ todo' = Operators
  /\ UNCHANGED <<world, rows, now, probes, nearestAt, held, fired>>

(* Faulty: no row for an operator that is not there.                       *)
RecordsPresent(o) ==
  /\ pc = "sample"
  /\ o \in todo
  /\ sample' = IF o \in inside THEN [sample EXCEPT ![o] = [at |-> now, count |-> 1]]
               ELSE sample
  /\ todo' = IF todo = {o} THEN inside ELSE todo \ {o}
  /\ pc' = IF todo = {o} THEN "closest" ELSE "sample"
  /\ UNCHANGED <<world, latest, seenAt, now, inside, probes, nearestAt, held, fired>>

(* recordFence: a count for every operator, zero for those not there, in   *)
(* the order a Go map is read.                                             *)
RecordSample(o) ==
  /\ pc = "sample"
  /\ o \in todo
  /\ sample' = [sample EXCEPT ![o] = [at |-> now,
                                      count |-> IF o \in inside THEN 1 ELSE 0]]
  /\ todo' = IF todo = {o} THEN inside ELSE todo \ {o}
  /\ pc' = IF todo = {o} THEN "closest" ELSE "sample"
  /\ UNCHANGED <<world, latest, seenAt, now, inside, probes, nearestAt, held, fired>>

RecordNearest(o, reading) ==
  /\ latest' = [latest EXCEPT ![o] = reading]
  /\ seenAt' = [seenAt EXCEPT ![o] = IF reading = "some" THEN now ELSE @]
  /\ UNCHANGED sample

RecordClosest(o) ==
  /\ pc = "closest"
  /\ o \in todo
  /\ RecordNearest(o, "some")
  /\ todo' = todo \ {o}
  /\ UNCHANGED <<world, pc, now, inside, probes, nearestAt, held, fired>>

(* The wider lookup is made, for the operators not found in the fence, or  *)
(* it is too early for it.  The time is taken before the probes answer.    *)
ProbeDue == nearestAt = -1 \/ now - nearestAt >= NearestInterval

StartProbes ==
  /\ pc = "closest" /\ todo = {} /\ ProbeDue
  /\ pc' = "probe"
  /\ nearestAt' = now
  /\ todo' = Operators \ inside
  /\ UNCHANGED <<world, rows, now, inside, probes, held, fired>>

(* Faulty: the time of the last lookup is noted whether it was made or not. *)
SkipsAndNotes ==
  /\ pc = "closest" /\ todo = {} /\ ~ProbeDue
  /\ pc' = "evaluate"
  /\ nearestAt' = now
  /\ UNCHANGED <<world, rows, now, inside, todo, probes, held, fired>>

SkipProbes ==
  /\ pc = "closest" /\ todo = {} /\ ~ProbeDue
  /\ pc' = "evaluate"
  /\ UNCHANGED <<world, rows, now, inside, todo, probes, nearestAt, held, fired>>

(* The probes run at once and answer in any order; one may fail.           *)
Answer(o) ==
  /\ pc = "probe"
  /\ o \in todo
  /\ todo' = todo \ {o}
  /\ \/ /\ probes' = [probes EXCEPT ![o] = IF Visible(o) THEN "some" ELSE "none"]
        /\ lost' = lost \ {o}
     \/ /\ "probe" \in Env
        /\ lost' = lost \cup {o}
        /\ UNCHANGED probes
  /\ UNCHANGED <<clock, changes, where, up, since, born, rows, pc, now, inside,
                 nearestAt, held, fired>>

AllAnswered ==
  /\ pc = "probe" /\ todo = {}
  /\ pc' = "nearest"
  /\ todo' = {o \in Operators : probes[o] # "no row"}
  /\ UNCHANGED <<world, rows, now, inside, probes, nearestAt, held, fired>>

(* Their readings are stored in the order of entur.Operators().            *)
RecordProbed(o) ==
  /\ pc = "nearest"
  /\ o \in todo /\ \A other \in todo : o <= other
  /\ RecordNearest(o, probes[o])
  /\ todo' = todo \ {o}
  /\ UNCHANGED <<world, pc, now, inside, probes, nearestAt, held, fired>>

(* DarkOperators at a time: a reading of nothing, after one of something   *)
(* within Lookback, while some peer has something.                         *)
Healthy == \E o \in Operators : latest[o] = "some"
Recently(o, at) == seenAt[o] >= 0 /\ seenAt[o] >= at - Lookback
(* Faulty: "nothing within reach while a competitor is busy" is enough.    *)
DarkByState(at) == {o \in Operators : Healthy /\ latest[o] = "none"}

DarkOperators(at) ==
  {o \in Operators : Healthy /\ latest[o] = "none" /\ Recently(o, at)}

(* LatestCounts: the rows of the latest tick that has any.  The statements  *)
(* of GET /api/v1/status ask this and DarkOperators between any two steps. *)
LastSample == CHOOSE at \in {sample[o].at : o \in Operators} :
                \A o \in Operators : sample[o].at <= at
LatestCounts ==
  [o \in Operators |-> IF sample[o].at = LastSample THEN sample[o].count ELSE 0]

DependsOn(w) == IF w = {} THEN Operators ELSE w

(* Faulty: a watch without a restriction depends on nothing.               *)
darkForNamed(w, dark) == w \cap dark # {}

(* evaluate, for the scarcity watches of the fence; they repeat.           *)
darkFor(w, dark) == DependsOn(w) \cap dark # {}

(* Faulty: without waiting for the readings of the probes.                 *)
EvaluatesEarly ==
  /\ pc \in {"evaluate", "nearest"}
  /\ pc' = "idle"
  /\ held' = {w \in Watches : darkFor(w, DarkOperators(now))}
  /\ fired' = {w \in Watches : DependsOn(w) \cap inside = {}} \ held'
  /\ probes' = [o \in Operators |-> "no row"]
  /\ UNCHANGED <<world, rows, now, inside, todo, nearestAt>>

Evaluate ==
  /\ pc \in {"evaluate", "nearest"} /\ todo = {}
  /\ pc' = "idle"
  /\ held' = {w \in Watches : darkFor(w, DarkOperators(now))}
  /\ fired' = {w \in Watches : DependsOn(w) \cap inside = {}} \ held'
  /\ probes' = [o \in Operators |-> "no row"]
  /\ UNCHANGED <<world, rows, now, inside, todo, nearestAt>>

(* The daemon dies and comes back: the rows stay, the poller's map is new. *)
Restart ==
  /\ "restart" \in Env
  /\ pc # "idle" \/ nearestAt # -1
  /\ pc' = "idle"
  /\ nearestAt' = -1
  /\ inside' = {} /\ todo' = {} /\ held' = {} /\ fired' = {}
  /\ probes' = [o \in Operators |-> "no row"]
  /\ UNCHANGED <<world, rows, now>>

(* Between two ticks the fence is deleted, its rows with it, and made      *)
(* again under its old id with its watches; p.nearestAt hears nothing.     *)
Remake ==
  /\ "remake" \in Env
  /\ pc = "idle" /\ changes < MaxChanges
  /\ changes' = changes + 1
  /\ born' = clock
  /\ latest' = [o \in Operators |-> "no row"]
  /\ seenAt' = [o \in Operators |-> -1]
  /\ sample' = [o \in Operators |-> [at |-> -1, count |-> 0]]
  /\ inside' = {} /\ held' = {} /\ fired' = {}
  /\ UNCHANGED <<clock, where, up, since, lost, pc, now, todo, probes, nearestAt>>

World == Move \/ GoDark \/ ComeBack \/ Shutdown \/ ClockTick

Tick ==
  \/ BeginTick \/ Query \/ StartProbes \/ SkipProbes \/ AllAnswered \/ Evaluate
  \/ \E o \in Operators :
       RecordSample(o) \/ RecordClosest(o) \/ Answer(o) \/ RecordProbed(o)

Next == World \/ Tick \/ Restart \/ Remake

Spec == Init /\ [][Next]_vars

-----------------------------------------------------------------------------
TypeOK ==
  /\ clock \in 0 .. MaxClock /\ changes \in 0 .. MaxChanges
  /\ now \in -1 .. MaxClock /\ nearestAt \in -1 .. MaxClock
  /\ where \in [Operators -> Spots] /\ up \subseteq Operators /\ lost \subseteq Operators
  /\ since \in [Operators -> Int]
  /\ born \in 0 .. MaxClock
  /\ pc \in PCs
  /\ inside \subseteq Operators /\ todo \subseteq Operators
  /\ probes \in [Operators -> Readings] /\ latest \in [Operators -> Readings]
  /\ seenAt \in [Operators -> Int]
  /\ sample \in [Operators -> [at : Int, count : Nat]]
  /\ held \subseteq Watches /\ fired \subseteq Watches
  /\ pc \in {"idle", "query", "evaluate"} => todo = {}

Evaluates == pc # "idle" /\ pc' = "idle" /\ nearestAt' # -1

(* A reading is at most NearestInterval behind the world: where nothing    *)
(* has changed for that long, the fence is that old and no probe was lost, *)
(* the watches are evaluated on what is so; a fence made again under an    *)
(* old id, which p.nearestAt still remembers, is read as soon (the order   *)
(* of nearestAt, probes and rows in recordNearest; poll.go:514-614).       *)
ReadingIsCurrent ==
  [][Evaluates => \A o \in Operators \ lost :
       now - since[o] >= NearestInterval /\ now - born >= NearestInterval
         => latest[o] = IF Visible(o) THEN "some" ELSE "none"]_vars

(* A scarcity watch fires on a feed that stopped only while the last probe *)
(* is older than the stop or was lost, or when no peer is known to have a  *)
(* vehicle or the feed has shown none for Lookback (poll.go:332-340,       *)
(* nearest.go:156-199).                                                    *)
HoldsBackOnDark ==
  [][Evaluates => \A w \in fired' : \A o \in DependsOn(w) \ (up \cup lost) :
       \/ now - since[o] < NearestInterval
       \/ \A q \in Operators : latest[q] # "some"
       \/ seenAt[o] = -1
       \/ now - seenAt[o] > Lookback]_vars

(* Only an operator that did show a vehicle within reach, Lookback ago or  *)
(* later, is called dark: "An operator with no history of vehicles here is *)
(* absent, not broken" (nearest.go:181-182).                               *)
AbsentIsNotDark ==
  \A o \in DarkOperators(clock) :
    \/ Visible(o)
    \/ since[o] >= 0 /\ since[o] >= clock - Lookback

(* Between ticks the latest counts are those of the last tick, also where  *)
(* that found nothing: "a missing row is indistinguishable from a missing  *)
(* poll" (poll.go:289-291, nearest.go:112-139).                            *)
CountsOfLastTick ==
  pc = "idle" /\ nearestAt # -1
    => LatestCounts = [o \in Operators |-> IF o \in inside THEN 1 ELSE 0]

=============================================================================
