-------------------------- MODULE FeedHealthProofs --------------------------
(***************************************************************************)
(* Proofs about FeedHealth.                                                *)
(***************************************************************************)
EXTENDS FeedHealth, TLAPS

(* The time of a tick and of a reading has come.                           *)
Times ==
  /\ now <= clock
  /\ \A o \in Operators : seenAt[o] <= clock

(* What was in view at some time still is, or has gone out of it since.    *)
InViewAt(o, at) == Visible(o) \/ since[o] >= at

(* Whatever the tick holds in its hands, it has read after it began; no    *)
(* answer to a probe is left from the tick before.                         *)
Fresh ==
  /\ pc \in {"idle", "query"} => \A o \in Operators : probes[o] = "no row"
  /\ pc \notin {"idle", "query"} => \A o \in inside : InViewAt(o, now)
  /\ pc = "closest" => todo \subseteq inside
  /\ \A o \in Operators : probes[o] = "some" => InViewAt(o, now)

(* A row with a distance tells of a vehicle that was in view.              *)
Seen == \A o \in Operators : seenAt[o] >= 0 => InViewAt(o, seenAt[o])

Inv == TypeOK /\ Times /\ Fresh /\ Seen

(* -1 stands for the time before the first.                               *)
LEMMA Before == -1 \in -1 .. MaxClock /\ 0 \in 0 .. MaxClock /\ 0 \in 0 .. MaxChanges
<1>1. MaxClock \in Int /\ MaxChanges \in Int /\ MaxClock >= 0 /\ MaxChanges >= 0
  BY FeedHealthAssumption
<1> QED BY <1>1

(* Nothing is recorded before the first tick.                              *)
LEMMA InitInv == Init => Inv
<1> SUFFICES ASSUME Init PROVE Inv
  OBVIOUS
<1>1. /\ since \in [Operators -> Int] /\ seenAt \in [Operators -> Int]
      /\ \A o \in Operators : seenAt[o] = -1
  <2>1. -1 \in Int /\ 0 \in Int
    OBVIOUS
  <2> QED BY <2>1 DEF Init
<1>2. sample \in [Operators -> [at : Int, count : Nat]]
  <2>1. [at |-> -1, count |-> 0] \in [at : Int, count : Nat]
    OBVIOUS
  <2> QED BY <2>1 DEF Init
<1>3. /\ probes \in [Operators -> Readings] /\ latest \in [Operators -> Readings]
      /\ \A o \in Operators : probes[o] = "no row"
  BY DEF Init, Readings
<1>4. /\ clock \in 0 .. MaxClock /\ changes \in 0 .. MaxChanges
      /\ now \in -1 .. MaxClock /\ nearestAt \in -1 .. MaxClock
      /\ born \in 0 .. MaxClock
  BY Before DEF Init
<1>5. TypeOK
  BY <1>1, <1>2, <1>3, <1>4 DEF Init, TypeOK, PCs
<1>6. Times
  <2>1. clock = 0 /\ now = -1
    BY DEF Init
  <2> QED BY <1>1, <2>1 DEF Times
<1>7. Fresh
  BY <1>3 DEF Init, Fresh
<1>8. Seen
  BY <1>1 DEF Seen
<1> QED BY <1>5, <1>6, <1>7, <1>8 DEF Inv

(* Whatever happens to the world, an operator that comes into view or goes *)
(* out of it does so now.                                                  *)
LEMMA BecomesInv ==
  ASSUME Inv, NEW where2 \in [Operators -> Spots], NEW up2 \in SUBSET Operators,
         Becomes(where2, up2)
  PROVE  Inv'
<1> USE FeedHealthAssumption DEF Inv
<1>1. /\ since' \in [Operators -> Int] /\ clock \in Int
      /\ \A o \in Operators :
           since'[o] = IF Visible(o) # Visible(o)' THEN clock ELSE since[o]
  BY DEF Becomes, TypeOK
<1>2. /\ UNCHANGED <<clock, lost, born, latest, seenAt, sample, pc, now, inside, todo,
                     probes, nearestAt, held, fired>>
      /\ changes < MaxChanges /\ changes' = changes + 1
      /\ where' = where2 /\ up' = up2
  BY DEF Becomes, rows
<1>3. TypeOK'
  BY <1>1, <1>2 DEF TypeOK
<1>4. ASSUME NEW o \in Operators, NEW at \in Int, at <= clock, InViewAt(o, at)
      PROVE  InViewAt(o, at)'
  <2>1. CASE Visible(o) = Visible(o)'
    BY <1>1, <1>4, <2>1 DEF InViewAt
  <2>2. CASE Visible(o) # Visible(o)'
    BY <1>1, <1>4, <2>2 DEF InViewAt
  <2> QED BY <2>1, <2>2
<1>5. Times'
  BY <1>2 DEF Times
<1>6. Fresh'
  <2>1. now \in Int /\ now <= clock /\ inside \subseteq Operators
    BY DEF Times, TypeOK
  <2> QED BY <1>2, <1>4, <2>1 DEF Fresh, InViewAt, Visible
<1>7. Seen'
  <2>1. ASSUME NEW o \in Operators PROVE seenAt[o] \in Int /\ seenAt[o] <= clock
    BY DEF Times, TypeOK
  <2> QED BY <1>2, <1>4, <2>1 DEF Seen, InViewAt, Visible
<1> QED BY <1>3, <1>5, <1>6, <1>7

(* The world changes around the loop, and time passes.                     *)
LEMMA WorldInv == Inv /\ World => Inv'
<1> SUFFICES ASSUME Inv, World PROVE Inv'
  OBVIOUS
<1>1. CASE Move
  <2>1. PICK o \in Operators, spot \in Spots : Becomes([where EXCEPT ![o] = spot], up)
    BY <1>1 DEF Move
  <2>2. [where EXCEPT ![o] = spot] \in [Operators -> Spots] /\ up \in SUBSET Operators
    BY DEF Inv, TypeOK
  <2> QED BY <2>1, <2>2, BecomesInv
<1>2. CASE GoDark \/ ComeBack \/ Shutdown
  <2>1. PICK up2 \in SUBSET Operators : Becomes(where, up2)
    BY <1>2 DEF GoDark, ComeBack, Shutdown, Inv, TypeOK
  <2>2. where \in [Operators -> Spots]
    BY DEF Inv, TypeOK
  <2> QED BY <2>1, <2>2, BecomesInv
<1>3. CASE ClockTick
  <2> USE <1>3 DEF Inv, ClockTick, rows
  <2>1. TypeOK'
    BY FeedHealthAssumption DEF TypeOK
  <2>2. Times'
    BY FeedHealthAssumption DEF TypeOK, Times
  <2>3. Fresh' /\ Seen'
    BY DEF Fresh, Seen, InViewAt, Visible
  <2> QED BY <2>1, <2>2, <2>3
<1> QED BY <1>1, <1>2, <1>3 DEF World

(* The steps of a tick up to its loops, and those that write no reading.   *)
LEMMA QuietInv ==
  Inv /\ (BeginTick \/ Query \/ StartProbes \/ SkipProbes \/ AllAnswered \/ Evaluate)
    => Inv'
<1> SUFFICES ASSUME Inv, BeginTick \/ Query \/ StartProbes \/ SkipProbes
                           \/ AllAnswered \/ Evaluate
             PROVE  Inv'
  OBVIOUS
<1> USE FeedHealthAssumption DEF Inv, world, rows, Times, Seen, InViewAt, Visible
<1>1. CASE BeginTick
  <2>1. TypeOK'
    BY <1>1 DEF BeginTick, TypeOK, PCs
  <2>2. Times'
    BY <1>1 DEF BeginTick, TypeOK
  <2>3. Seen'
    BY <1>1 DEF BeginTick
  <2>4. Fresh'
    BY <1>1 DEF BeginTick, Fresh
  <2> QED BY <2>1, <2>2, <2>3, <2>4
<1>2. CASE Query
  <2>1. TypeOK'
    BY <1>2 DEF Query, TypeOK, PCs
  <2>2. Times' /\ Seen' /\ Fresh'
    BY <1>2 DEF Query, TypeOK, Fresh
  <2> QED BY <2>1, <2>2
<1>3. CASE StartProbes
  <2>1. TypeOK'
    BY <1>3 DEF StartProbes, TypeOK, PCs
  <2>2. Times' /\ Seen' /\ Fresh'
    BY <1>3 DEF StartProbes, Fresh
  <2> QED BY <2>1, <2>2
<1>4. CASE SkipProbes
  <2>1. TypeOK'
    BY <1>4 DEF SkipProbes, TypeOK, PCs
  <2>2. Times' /\ Seen' /\ Fresh'
    BY <1>4 DEF SkipProbes, Fresh
  <2> QED BY <2>1, <2>2
<1>5. CASE AllAnswered
  <2>1. TypeOK'
    BY <1>5 DEF AllAnswered, TypeOK, PCs
  <2>2. Times' /\ Seen' /\ Fresh'
    BY <1>5 DEF AllAnswered, Fresh
  <2> QED BY <2>1, <2>2
<1>6. CASE Evaluate
  <2>1. TypeOK'
    <3>1. held' \subseteq Watches /\ fired' \subseteq Watches
      BY <1>6 DEF Evaluate
    <3>2. probes' \in [Operators -> Readings]
      BY <1>6 DEF Evaluate, Readings
    <3> QED BY <1>6, <3>1, <3>2 DEF Evaluate, TypeOK, PCs
  <2>2. Times' /\ Seen' /\ Fresh'
    BY <1>6 DEF Evaluate, Fresh
  <2> QED BY <2>1, <2>2
<1> QED BY <1>1, <1>2, <1>3, <1>4, <1>5, <1>6

(* A reading is of the tick's own time; one with a distance tells of what  *)
(* was in view then.                                                       *)
LEMMA ReadingInv ==
  ASSUME Inv, NEW o \in Operators, NEW reading \in Readings, RecordNearest(o, reading),
         reading = "some" => InViewAt(o, now),
         UNCHANGED world, UNCHANGED <<now, inside>>
  PROVE  /\ latest' \in [Operators -> Readings] /\ seenAt' \in [Operators -> Int]
         /\ sample' = sample
         /\ Times' /\ Seen'
<1> USE FeedHealthAssumption DEF Inv
<1>1. /\ latest' \in [Operators -> Readings] /\ sample' = sample
      /\ seenAt' \in [Operators -> Int]
  BY DEF RecordNearest, TypeOK
<1>2. ASSUME NEW p \in Operators
      PROVE  seenAt'[p] = IF p = o /\ reading = "some" THEN now ELSE seenAt[p]
  BY DEF RecordNearest, TypeOK
<1>3. Times'
  BY <1>2 DEF Times, world
<1>4. Seen'
  BY <1>2 DEF Seen, InViewAt, Visible, world
<1> QED BY <1>1, <1>3, <1>4

(* The writes and the answers of one tick.                                 *)
LEMMA LoopInv ==
  ASSUME Inv, NEW o \in Operators,
         RecordSample(o) \/ RecordClosest(o) \/ Answer(o) \/ RecordProbed(o)
  PROVE  Inv'
<1> USE DEF Inv, world
<1>1. CASE RecordSample(o)
  <2>1. sample' \in [Operators -> [at : Int, count : Nat]]
    BY <1>1, FeedHealthAssumption DEF RecordSample, TypeOK
  <2>2. TypeOK'
    BY <1>1, <2>1 DEF RecordSample, TypeOK, PCs
  <2>3. Times' /\ Seen' /\ Fresh'
    BY <1>1 DEF RecordSample, Times, Seen, Fresh, InViewAt, Visible
  <2> QED BY <2>2, <2>3
<1>2. CASE RecordClosest(o)
  <2>1. o \in inside /\ InViewAt(o, now)
    BY <1>2 DEF RecordClosest, Fresh
  <2>2. /\ latest' \in [Operators -> Readings] /\ seenAt' \in [Operators -> Int]
        /\ sample' = sample /\ Times' /\ Seen'
    BY <1>2, <2>1, ReadingInv DEF RecordClosest, Readings
  <2>3. TypeOK'
    BY <1>2, <2>2 DEF RecordClosest, TypeOK
  <2>4. Fresh'
    BY <1>2 DEF RecordClosest, Fresh, InViewAt, Visible
  <2> QED BY <2>2, <2>3, <2>4
<1>3. CASE Answer(o)
  <2>1. probes' \in [Operators -> Readings] /\ lost' \subseteq Operators
    BY <1>3 DEF Answer, TypeOK, Readings
  <2>2. TypeOK'
    BY <1>3, <2>1 DEF Answer, TypeOK, rows
  <2>3. Times' /\ Seen'
    BY <1>3 DEF Answer, Times, Seen, InViewAt, Visible, rows
  <2>4. ASSUME NEW p \in Operators, probes'[p] = "some" PROVE InViewAt(p, now)
    BY <1>3, <2>4 DEF Answer, Fresh, InViewAt, TypeOK
  <2>5. Fresh'
    BY <1>3, <2>4 DEF Answer, Fresh, InViewAt, Visible
  <2> QED BY <2>2, <2>3, <2>5
<1>4. CASE RecordProbed(o)
  <2>1. probes[o] \in Readings /\ (probes[o] = "some" => InViewAt(o, now))
    BY DEF TypeOK, Fresh
  <2>2. /\ latest' \in [Operators -> Readings] /\ seenAt' \in [Operators -> Int]
        /\ sample' = sample /\ Times' /\ Seen'
    BY <1>4, <2>1, ReadingInv DEF RecordProbed
  <2>3. TypeOK'
    BY <1>4, <2>2 DEF RecordProbed, TypeOK
  <2>4. Fresh'
    BY <1>4 DEF RecordProbed, Fresh, InViewAt, Visible
  <2> QED BY <2>2, <2>3, <2>4
<1> QED BY <1>1, <1>2, <1>3, <1>4

(* The process restarts: its tick is lost and its rows stay.               *)
LEMMA RestartInv == Inv /\ Restart => Inv'
<1> SUFFICES ASSUME Inv, Restart PROVE Inv'
  OBVIOUS
<1> USE DEF Inv
<1>1. /\ UNCHANGED <<clock, changes, where, up, since, lost, born, latest, seenAt,
                     sample, now>>
      /\ pc' = "idle" /\ nearestAt' = -1
      /\ inside' = {} /\ todo' = {} /\ held' = {} /\ fired' = {}
      /\ probes' = [o \in Operators |-> "no row"]
  BY DEF Restart, world, rows
<1>2. /\ probes' \in [Operators -> Readings]
      /\ \A o \in Operators : probes'[o] = "no row"
  BY <1>1 DEF Readings
<1>3. nearestAt' \in -1 .. MaxClock
  BY <1>1, Before
<1>4. TypeOK'
  BY <1>1, <1>2, <1>3 DEF TypeOK, PCs
<1>5. Times' /\ Seen' /\ Fresh'
  BY <1>1, <1>2 DEF Times, Seen, Fresh, InViewAt, Visible
<1> QED BY <1>4, <1>5

(* The fence is deleted and made again: its rows go.                       *)
LEMMA RemakeInv == Inv /\ Remake => Inv'
<1> SUFFICES ASSUME Inv, Remake PROVE Inv'
  OBVIOUS
<1> USE DEF Inv
<1>1. /\ UNCHANGED <<clock, where, up, since, lost, pc, now, todo, probes, nearestAt>>
      /\ pc = "idle"
      /\ changes < MaxChanges /\ changes' = changes + 1 /\ born' = clock
      /\ inside' = {} /\ held' = {} /\ fired' = {}
  BY DEF Remake
<1>2. latest' \in [Operators -> Readings]
  BY DEF Remake, Readings
<1>3. /\ seenAt' \in [Operators -> Int]
      /\ \A o \in Operators : seenAt'[o] = -1
  <2>1. -1 \in Int
    OBVIOUS
  <2> QED BY <2>1 DEF Remake
<1>4. sample' \in [Operators -> [at : Int, count : Nat]]
  <2>1. [at |-> -1, count |-> 0] \in [at : Int, count : Nat]
    OBVIOUS
  <2> QED BY <2>1 DEF Remake
<1>5. TypeOK'
  BY <1>1, <1>2, <1>3, <1>4, FeedHealthAssumption DEF TypeOK
<1>6. Times'
  BY <1>1, <1>3, FeedHealthAssumption DEF Times, TypeOK
<1>7. Seen'
  BY <1>3 DEF Seen
<1>8. Fresh'
  BY <1>1 DEF Fresh, InViewAt, Visible
<1> QED BY <1>5, <1>6, <1>7, <1>8

(* So the invariant holds throughout.                                      *)
LEMMA Invariance == Spec => []Inv
<1>1. Inv /\ UNCHANGED vars => Inv'
  BY DEF vars, world, rows, Inv, TypeOK, Times, Fresh, Seen, InViewAt, Visible
<1>2. Inv /\ [Next]_vars => Inv'
  BY <1>1, WorldInv, QuietInv, LoopInv, RestartInv, RemakeInv DEF Next, Tick
<1> QED BY InitInv, <1>2, PTL DEF Spec

(* The types, for any operators, watches and bounds.                       *)
THEOREM TypesHold == Spec => []TypeOK
<1>1. Inv => TypeOK
  BY DEF Inv
<1> QED BY Invariance, <1>1, PTL

(* No operator is called dark that had nothing within reach for Lookback,  *)
(* whatever feeds stop, probes fail, fences are made again and restarts    *)
(* come between (nearest.go:181-182).                                      *)
THEOREM DarkWereThere == Spec => []AbsentIsNotDark
<1>1. Inv => AbsentIsNotDark
  <2> SUFFICES ASSUME Inv, NEW o \in DarkOperators(clock), ~Visible(o)
               PROVE  since[o] >= 0 /\ since[o] >= clock - Lookback
    BY DEF AbsentIsNotDark
  <2>1. o \in Operators /\ seenAt[o] >= 0 /\ seenAt[o] >= clock - Lookback
    BY DEF DarkOperators, Recently
  <2>2. /\ since[o] >= seenAt[o]
        /\ since[o] \in Int /\ seenAt[o] \in Int /\ clock \in Int /\ Lookback \in Int
    BY <2>1, FeedHealthAssumption DEF Inv, Seen, InViewAt, TypeOK
  <2> QED BY <2>1, <2>2
<1> QED BY Invariance, <1>1, PTL
-----------------------------------------------------------------------------
(* What the tick has counted so far, and what the last one counted.        *)
Count(o) == IF o \in inside THEN 1 ELSE 0

CountedAt(at, os) == \A o \in os : sample[o].at = at /\ sample[o].count = Count(o)

Counted ==
  /\ pc = "sample" => CountedAt(now, Operators \ todo)
  /\ pc \in {"closest", "probe", "nearest", "evaluate"} \/ (pc = "idle" /\ nearestAt # -1)
       => \E at \in Int : CountedAt(at, Operators)

(* Only recordFence writes a count, and it writes one for every operator.  *)
LEMMA CountedStep == Inv /\ Counted /\ [Next]_vars => Counted'
<1> SUFFICES ASSUME Inv, Counted, [Next]_vars PROVE Counted'
  OBVIOUS
<1>0. /\ now \in Int /\ todo \subseteq Operators
      /\ sample \in [Operators -> [at : Int, count : Nat]]
  BY DEF Inv, TypeOK
<1>1. CASE World \/ UNCHANGED vars
  <2>1. UNCHANGED <<pc, now, todo, nearestAt, sample, inside>>
    BY <1>1 DEF World, Move, GoDark, ComeBack, Shutdown, Becomes, ClockTick, rows, vars
  <2> QED BY <2>1 DEF Counted, CountedAt, Count
<1>2. CASE BeginTick
  BY <1>2 DEF BeginTick, Counted
<1>3. CASE Query
  BY <1>3 DEF Query, Counted, CountedAt
<1>4. CASE StartProbes \/ SkipProbes \/ AllAnswered \/ Evaluate
  <2>1. /\ pc \in {"closest", "probe", "nearest", "evaluate"} /\ pc' # "sample"
        /\ UNCHANGED <<sample, inside>>
    BY <1>4 DEF StartProbes, SkipProbes, AllAnswered, Evaluate, rows
  <2> QED BY <2>1 DEF Counted, CountedAt, Count
<1>5. ASSUME NEW o \in Operators, RecordSample(o) PROVE Counted'
  <2>1. /\ UNCHANGED <<now, inside>> /\ CountedAt(now, Operators \ todo)
        /\ sample' = [sample EXCEPT ![o] = [at |-> now, count |-> Count(o)]]
    BY <1>5 DEF RecordSample, Counted, Count
  <2>2. /\ sample'[o].at = now /\ sample'[o].count = Count(o)
        /\ \A q \in Operators \ {o} : sample'[q] = sample[q]
    BY <1>0, <2>1
  <2>5. \A q \in (Operators \ todo) \cup {o} : sample'[q].at = now /\ sample'[q].count = Count(q)
    BY <2>1, <2>2 DEF CountedAt
  <2>3. CASE todo = {o}
    <3>1. (Operators \ todo) \cup {o} = Operators /\ pc' = "closest"
      BY <1>5, <2>3 DEF RecordSample
    <3>2. \E at \in Int : \A q \in Operators : sample'[q].at = at /\ sample'[q].count = Count(q)
      BY <1>0, <2>5, <3>1
    <3> QED BY <2>1, <3>1, <3>2 DEF Counted, CountedAt, Count
  <2>4. CASE todo # {o}
    <3>1. todo' = todo \ {o} /\ pc' = "sample"
      BY <1>5, <2>4 DEF RecordSample
    <3> QED BY <2>1, <2>5, <3>1 DEF Counted, CountedAt, Count
  <2> QED BY <2>3, <2>4
<1>6. ASSUME NEW o \in Operators, RecordClosest(o) \/ Answer(o) \/ RecordProbed(o)
      PROVE  Counted'
  <2>1. /\ pc \in {"closest", "probe", "nearest"} /\ pc' = pc
        /\ UNCHANGED <<sample, inside, nearestAt>>
    BY <1>6 DEF RecordClosest, Answer, RecordProbed, RecordNearest, rows
  <2> QED BY <2>1 DEF Counted, CountedAt, Count
<1>7. CASE Restart
  BY <1>7 DEF Restart, Counted
<1>8. CASE Remake
  <2>1. inside' = {} /\ pc' = "idle"
    BY <1>8 DEF Remake
  <2>2. \A o \in Operators : sample'[o].at = -1 /\ sample'[o].count = 0
    BY <1>8 DEF Remake
  <2>3. -1 \in Int
    OBVIOUS
  <2>4. \E at \in Int : \A o \in Operators : sample'[o].at = at /\ sample'[o].count = 0
    BY <2>2, <2>3
  <2> QED BY <2>1, <2>4 DEF Counted, CountedAt, Count
<1> QED BY <1>1, <1>2, <1>3, <1>4, <1>5, <1>6, <1>7, <1>8 DEF Next, Tick

(* Between ticks the status page counts what the last tick found, whoever  *)
(* was there, whenever the tick was and however often the daemon died in   *)
(* the middle of one (poll.go:289-291).                                    *)
THEOREM CountsAreOfLastTick == Spec => []CountsOfLastTick
<1>1. Init => Counted
  BY DEF Init, Counted
<1>2. Counted => CountsOfLastTick
  <2> SUFFICES ASSUME Counted, pc = "idle", nearestAt # -1
               PROVE  LatestCounts = [o \in Operators |-> Count(o)]
    BY DEF CountsOfLastTick, Count
  <2>1. PICK at \in Int : CountedAt(at, Operators)
    BY DEF Counted
  <2>2. \A o \in Operators : sample[o].at = at /\ sample[o].count = Count(o)
    BY <2>1 DEF CountedAt
  <2>3. {sample[o].at : o \in Operators} = {at}
    BY <2>2, FeedHealthAssumption
  <2>4. LastSample = at
    BY <2>2, <2>3 DEF LastSample
  <2> QED BY <2>2, <2>4 DEF LatestCounts
<1> QED BY <1>1, <1>2, CountedStep, Invariance, PTL DEF Spec

-----------------------------------------------------------------------------
(* What there is to know of an operator, and what it takes for its latest  *)
(* reading to be no older than a given time: it says so, or something      *)
(* happened since.                                                         *)
View(o) == IF Visible(o) THEN "some" ELSE "none"

UpToDate(o, at) ==
  \/ o \in lost
  \/ since[o] >= at
  \/ latest[o] = View(o)
  \/ born >= at /\ latest[o] = "no row"

(* The operators whose readings recordNearest is about to get or to store. *)
Pending ==
  IF pc = "probe" THEN Operators \ inside ELSE IF pc = "nearest" THEN todo ELSE {}

(* p.nearestAt tells when the wider lookup was made that the readings are  *)
(* from, and a tick that goes without one has had one recently.            *)
Lookups ==
  /\ nearestAt <= now
  /\ pc \in {"probe", "nearest"} => nearestAt = now
  /\ pc = "evaluate" => now - nearestAt < NearestInterval

(* The probes are about the operators not found in the fence, each is      *)
(* answered or lost, and an answer holds until something changes.          *)
Probed ==
  /\ pc = "probe" =>
       /\ todo \cap inside = {}
       /\ \A o \in Operators \ (inside \cup todo) : o \in lost \/ probes[o] # "no row"
  /\ pc = "nearest" => \A o \in todo : probes[o] # "no row"

Answered ==
  \A o \in Operators : probes[o] # "no row" => probes[o] = View(o) \/ since[o] >= now

(* So the readings that are not being taken right now are as old as the    *)
(* last lookup at most, those of the operators in the fence not even that. *)
Known ==
  /\ pc = "closest" => \A o \in inside \ todo : UpToDate(o, now)
  /\ nearestAt # -1 => \A o \in Operators \ Pending : UpToDate(o, nearestAt)

Unread == \A o \in Operators : seenAt[o] >= -1 /\ (latest[o] = "no row" => seenAt[o] = -1)

Current == Lookups /\ Probed /\ Answered /\ Known /\ Unread

(* Nothing is known, and nothing asked, to begin with.                     *)
LEMMA InitCurrent == Init => Current
<1> SUFFICES ASSUME Init PROVE Current
  OBVIOUS
<1>1. pc = "idle" /\ nearestAt = -1 /\ now = -1 /\ \A o \in Operators : probes[o] = "no row"
  BY DEF Init
<1>2. \A o \in Operators : seenAt[o] = -1
  BY DEF Init
<1>3. -1 <= -1 /\ -1 >= -1
  OBVIOUS
<1>4. Lookups /\ Unread
  BY <1>1, <1>2, <1>3 DEF Lookups, Unread
<1>5. Probed /\ Answered /\ Known
  BY <1>1 DEF Probed, Answered, Known
<1> QED BY <1>4, <1>5 DEF Current

(* An operator that comes into view or goes out of it does so now.         *)
LEMMA BecomesCurrent ==
  ASSUME Inv, Current, NEW where2, NEW up2, Becomes(where2, up2)
  PROVE  Current'
<1> USE DEF Current
<1>1. UNCHANGED <<lost, born, latest, seenAt, pc, now, inside, todo, probes, nearestAt>>
  BY DEF Becomes, rows
<1>2. /\ now \in Int /\ nearestAt \in Int /\ clock \in Int /\ nearestAt <= now /\ now <= clock
      /\ inside \subseteq Operators /\ todo \subseteq Operators
  BY DEF Inv, TypeOK, Times, Lookups
<1>3. \A o \in Operators : since'[o] = clock \/ (View(o)' = View(o) /\ since'[o] = since[o])
  BY DEF Becomes, View
<1>4. \A o \in Operators : \A at \in Int : at <= clock /\ UpToDate(o, at) => UpToDate(o, at)'
  BY <1>1, <1>3 DEF UpToDate
<1>5. Lookups' /\ Probed' /\ Unread'
  BY <1>1 DEF Lookups, Probed, Unread
<1>6. Answered'
  BY <1>1, <1>2, <1>3 DEF Answered
<1>7. Known'
  <2>1. Pending' = Pending
    BY <1>1 DEF Pending
  <2>2. ASSUME pc = "closest", NEW o \in inside \ todo PROVE UpToDate(o, now)'
    BY <1>1, <1>2, <1>4, <2>2 DEF Known, UpToDate
  <2>3. ASSUME nearestAt # -1, NEW o \in Operators \ Pending PROVE UpToDate(o, nearestAt)'
    <3>1. nearestAt <= clock
      BY <1>2
    <3> QED BY <1>1, <1>2, <1>4, <2>3, <3>1 DEF Known, UpToDate
  <2> QED BY <1>1, <2>1, <2>2, <2>3 DEF Known, UpToDate, View, Visible
<1> QED BY <1>5, <1>6, <1>7

(* The world at large.                                                     *)
LEMMA WorldCurrent == Inv /\ Current /\ World => Current'
<1> SUFFICES ASSUME Inv, Current, World PROVE Current'
  OBVIOUS
<1>1. CASE Move \/ GoDark \/ ComeBack \/ Shutdown
  <2>1. \E where2, up2 : Becomes(where2, up2)
    BY <1>1 DEF Move, GoDark, ComeBack, Shutdown
  <2> QED BY <2>1, BecomesCurrent
<1>2. CASE ClockTick
  BY <1>2 DEF ClockTick, rows, Current, Lookups, Probed, Answered, Known, Unread, UpToDate,
              Pending, View, Visible
<1> QED BY <1>1, <1>2 DEF World

(* A step that takes no reading and no answer changes what is pending.     *)
LEMMA QuietCurrent ==
  ASSUME Inv, Current,
         BeginTick \/ Query \/ StartProbes \/ SkipProbes \/ AllAnswered \/ Evaluate
  PROVE  Current'
<1> USE DEF Current
<1>1. UNCHANGED <<clock, where, up, since, lost, born, latest, seenAt>>
  BY DEF BeginTick, Query, StartProbes, SkipProbes, AllAnswered, Evaluate, world, rows
<1>2. /\ now \in Int /\ nearestAt \in Int /\ clock \in Int /\ NearestInterval \in Int
      /\ nearestAt <= now /\ now <= clock
      /\ inside \subseteq Operators /\ todo \subseteq Operators
  BY FeedHealthAssumption DEF Inv, TypeOK, Times, Lookups
<1>3. Unread' /\ \A o \in Operators : View(o)' = View(o)
  BY <1>1 DEF Unread, View, Visible
<1>4. ASSUME NEW o \in Operators, NEW at PROVE UpToDate(o, at)' = UpToDate(o, at)
  BY <1>1, <1>3 DEF UpToDate
<1>5. ASSUME nearestAt' = nearestAt, pc' # "closest",
             Operators \ Pending' \subseteq Operators \ Pending
      PROVE  Known'
  BY <1>1, <1>5 DEF Known, UpToDate, View, Visible
<1>6. CASE BeginTick
  <2>1. Lookups'
    BY <1>2, <1>6 DEF BeginTick, Lookups
  <2>2. Probed' /\ Answered'
    BY <1>6 DEF BeginTick, Probed, Answered, Inv, Fresh
  <2>3. Known'
    BY <1>5, <1>6 DEF BeginTick, Pending
  <2> QED BY <1>3, <2>1, <2>2, <2>3
<1>7. CASE Query
  <2>1. Lookups' /\ Probed'
    BY <1>7 DEF Query, Lookups, Probed
  <2>2. Answered'
    BY <1>1, <1>3, <1>7 DEF Query, Answered
  <2>3. Known'
    BY <1>5, <1>7 DEF Query, Pending
  <2> QED BY <1>3, <2>1, <2>2, <2>3
<1>8. CASE StartProbes
  <2>1. Lookups'
    BY <1>2, <1>8 DEF StartProbes, Lookups
  <2>2. Probed'
    BY <1>8 DEF StartProbes, Probed
  <2>3. Answered'
    BY <1>1, <1>3, <1>8 DEF StartProbes, Answered
  <2>4. Known'
    <3>1. pc' = "probe" /\ Pending' = Operators \ inside /\ nearestAt' = now
      BY <1>8 DEF StartProbes, Pending
    <3>2. \A o \in inside : UpToDate(o, now)
      BY <1>8 DEF StartProbes, Known
    <3> QED BY <1>1, <1>2, <3>1, <3>2 DEF Known, UpToDate, View, Visible
  <2> QED BY <1>3, <2>1, <2>2, <2>3, <2>4
<1>9. CASE SkipProbes
  <2>1. Lookups'
    BY <1>2, <1>9 DEF SkipProbes, ProbeDue, Lookups
  <2>2. Probed'
    BY <1>9 DEF SkipProbes, Probed
  <2>3. Answered'
    BY <1>1, <1>3, <1>9 DEF SkipProbes, Answered
  <2>4. Known'
    BY <1>5, <1>9 DEF SkipProbes, Pending
  <2> QED BY <1>3, <2>1, <2>2, <2>3, <2>4
<1>10. CASE AllAnswered
  <2>1. Lookups'
    BY <1>10 DEF AllAnswered, Lookups
  <2>2. Probed'
    BY <1>10 DEF AllAnswered, Probed
  <2>3. Answered'
    BY <1>1, <1>3, <1>10 DEF AllAnswered, Answered
  <2>4. Known'
    <3>1. pc' = "nearest" /\ Pending' = {o \in Operators : probes[o] # "no row"}
          /\ nearestAt' = nearestAt
      BY <1>10 DEF AllAnswered, Pending
    <3>2. ASSUME nearestAt # -1, NEW o \in Operators, probes[o] = "no row"
          PROVE  UpToDate(o, nearestAt)
      <4>1. CASE o \in inside
        BY <1>10, <3>2, <4>1 DEF AllAnswered, Known, Pending
      <4>2. CASE o \notin inside
        BY <1>10, <3>2, <4>2 DEF AllAnswered, Probed, UpToDate
      <4> QED BY <4>1, <4>2
    <3> QED BY <1>1, <3>1, <3>2 DEF Known, UpToDate, View, Visible
  <2> QED BY <1>3, <2>1, <2>2, <2>3, <2>4
<1>11. CASE Evaluate
  <2>1. Lookups' /\ Probed'
    BY <1>11 DEF Evaluate, Lookups, Probed
  <2>2. Answered'
    BY <1>11 DEF Evaluate, Answered
  <2>3. Known'
    BY <1>5, <1>11 DEF Evaluate, Pending
  <2> QED BY <1>3, <2>1, <2>2, <2>3
<1> QED BY <1>6, <1>7, <1>8, <1>9, <1>10, <1>11

(* What is read is so, or has changed since the tick began.                *)
LEMMA ReadingCurrent ==
  ASSUME Inv, Current, NEW o \in Operators, NEW reading \in {"none", "some"},
         RecordNearest(o, reading), reading = View(o) \/ since[o] >= now,
         UNCHANGED <<world, now, nearestAt>>
  PROVE  /\ Unread'
         /\ UpToDate(o, now)' /\ (nearestAt # -1 => UpToDate(o, nearestAt)')
         /\ \A q \in Operators \ {o} : \A at \in Int : UpToDate(q, at) => UpToDate(q, at)'
<1>1. /\ now \in Int /\ now >= -1 /\ nearestAt \in Int /\ nearestAt <= now
      /\ since \in [Operators -> Int] /\ latest \in [Operators -> Readings]
      /\ seenAt \in [Operators -> Int]
  BY DEF Inv, TypeOK, Current, Lookups
<1>2. /\ latest'[o] = reading /\ seenAt'[o] \in {seenAt[o], now}
      /\ \A q \in Operators \ {o} : latest'[q] = latest[q] /\ seenAt'[q] = seenAt[q]
  BY <1>1 DEF RecordNearest
<1>3. Unread'
  BY <1>1, <1>2 DEF Current, Unread
<1>4. \A q \in Operators : View(q)' = View(q)
  BY DEF View, Visible, world
<1>5. UpToDate(o, now)' /\ (nearestAt # -1 => UpToDate(o, nearestAt)')
  <2>1. reading = View(o) \/ (since[o] >= now /\ since[o] >= nearestAt)
    BY <1>1
  <2> QED BY <1>2, <1>4, <2>1 DEF UpToDate, world
<1>6. \A q \in Operators \ {o} : \A at \in Int : UpToDate(q, at) => UpToDate(q, at)'
  BY <1>2, <1>4 DEF UpToDate, world
<1> QED BY <1>3, <1>5, <1>6

(* The loops of a tick.                                                    *)
LEMMA LoopCurrent ==
  ASSUME Inv, Current, NEW o \in Operators,
         RecordSample(o) \/ RecordClosest(o) \/ Answer(o) \/ RecordProbed(o)
  PROVE  Current'
<1> USE DEF Current
<1>1. /\ now \in Int /\ nearestAt \in Int /\ probes \in [Operators -> Readings]
      /\ inside \subseteq Operators /\ todo \subseteq Operators
  BY DEF Inv, TypeOK
<1>2. CASE RecordSample(o)
  <2>1. UNCHANGED <<world, latest, seenAt, now, inside, probes, nearestAt>>
        /\ pc = "sample" /\ pc' \in {"sample", "closest"}
    BY <1>2 DEF RecordSample
  <2>2. Lookups' /\ Probed' /\ Unread'
    BY <2>1 DEF Lookups, Probed, Unread
  <2>3. Answered'
    BY <2>1 DEF Answered, View, Visible, world
  <2>4. Known'
    <3>1. pc' = "closest" => todo' = inside
      BY <1>2 DEF RecordSample
    <3>2. Pending = {} /\ Pending' = {}
      BY <2>1 DEF Pending
    <3> QED BY <2>1, <3>1, <3>2 DEF Known, UpToDate, View, Visible, world
  <2> QED BY <2>2, <2>3, <2>4
<1>3. CASE RecordClosest(o)
  <2>1. /\ UNCHANGED <<world, pc, now, inside, probes, nearestAt>>
        /\ RecordNearest(o, "some") /\ pc = "closest" /\ todo' = todo \ {o} /\ o \in todo
    BY <1>3 DEF RecordClosest
  <2>2. "some" = View(o) \/ since[o] >= now
    BY <2>1 DEF Inv, Fresh, InViewAt, View
  <2>3. /\ Unread' /\ UpToDate(o, now)' /\ (nearestAt # -1 => UpToDate(o, nearestAt)')
        /\ \A q \in Operators \ {o} : \A at \in Int : UpToDate(q, at) => UpToDate(q, at)'
    BY <2>1, <2>2, ReadingCurrent
  <2>4. Lookups' /\ Probed'
    BY <2>1 DEF Lookups, Probed
  <2>5. Answered'
    BY <2>1 DEF Answered, View, Visible, world
  <2>6. ASSUME NEW q \in inside \ todo' PROVE UpToDate(q, now)'
    BY <1>1, <2>1, <2>3, <2>6 DEF Known
  <2>7. ASSUME nearestAt # -1, NEW q \in Operators PROVE UpToDate(q, nearestAt)'
    <3>1. q \notin Pending
      BY <2>1 DEF Pending
    <3> QED BY <1>1, <2>1, <2>3, <2>7, <3>1 DEF Known, UpToDate
  <2>8. Known'
    BY <2>1, <2>6, <2>7 DEF Known, UpToDate
  <2> QED BY <2>3, <2>4, <2>5, <2>8
<1>4. CASE Answer(o)
  <2>1. /\ UNCHANGED <<where, up, since, born, latest, seenAt, pc, now, inside, nearestAt>>
        /\ pc = "probe" /\ todo' = todo \ {o} /\ o \in todo
        /\ \/ probes' = [probes EXCEPT ![o] = View(o)] /\ lost' = lost \ {o}
           \/ lost' = lost \cup {o} /\ probes' = probes
    BY <1>4 DEF Answer, View, rows
  <2>2. \A q \in Operators : View(q)' = View(q)
    BY <2>1 DEF View, Visible
  <2>3. Lookups' /\ Unread'
    BY <2>1 DEF Lookups, Unread
  <2>4. Answered'
    BY <1>1, <2>1, <2>2 DEF Answered
  <2>5. \A q \in Operators \ {o} : probes'[q] = probes[q] /\ (q \in lost' <=> q \in lost)
    BY <1>1, <2>1
  <2>6. o \in lost' \/ probes'[o] # "no row"
    BY <1>1, <2>1 DEF View
  <2>7. Probed'
    BY <2>1, <2>5, <2>6 DEF Probed
  <2>8. Known'
    <3>1. Pending' = Pending /\ o \in Pending
      BY <1>1, <2>1 DEF Pending, Probed
    <3>2. ASSUME nearestAt # -1, NEW q \in Operators \ Pending
          PROVE  UpToDate(q, nearestAt)'
      BY <2>1, <2>2, <2>5, <3>1, <3>2 DEF Known, UpToDate
    <3> QED BY <2>1, <3>1, <3>2 DEF Known, UpToDate
  <2> QED BY <2>3, <2>4, <2>7, <2>8
<1>5. CASE RecordProbed(o)
  <2>1. /\ UNCHANGED <<world, pc, now, inside, probes, nearestAt>>
        /\ RecordNearest(o, probes[o]) /\ pc = "nearest" /\ todo' = todo \ {o}
        /\ o \in todo
    BY <1>5 DEF RecordProbed
  <2>2. probes[o] \in {"none", "some"} /\ (probes[o] = View(o) \/ since[o] >= now)
    BY <1>1, <2>1 DEF Probed, Answered, Readings
  <2>3. /\ Unread' /\ (nearestAt # -1 => UpToDate(o, nearestAt)')
        /\ \A q \in Operators \ {o} : \A at \in Int : UpToDate(q, at) => UpToDate(q, at)'
    BY <2>1, <2>2, ReadingCurrent
  <2>4. Lookups' /\ Probed'
    BY <2>1 DEF Lookups, Probed
  <2>5. Answered'
    BY <2>1 DEF Answered, View, Visible, world
  <2>6. ASSUME nearestAt # -1, NEW q \in Operators \ Pending'
        PROVE  UpToDate(q, nearestAt)'
    <3>1. q = o \/ q \in Operators \ Pending
      BY <2>1, <2>6 DEF Pending
    <3> QED BY <1>1, <2>1, <2>3, <2>6, <3>1 DEF Known, UpToDate
  <2>7. Known'
    BY <2>1, <2>6 DEF Known, UpToDate
  <2> QED BY <2>3, <2>4, <2>5, <2>7
<1> QED BY <1>2, <1>3, <1>4, <1>5

(* A restart forgets when the last lookup was, so that the next tick makes *)
(* one; a fence made again has no readings, and is younger than the lookup *)
(* that p.nearestAt remembers.                                             *)
LEMMA RestartCurrent == Inv /\ Current /\ (Restart \/ Remake) => Current'
<1> SUFFICES ASSUME Inv, Current, Restart \/ Remake PROVE Current'
  OBVIOUS
<1> USE DEF Current
<1>1. /\ now \in Int /\ now >= -1 /\ nearestAt \in Int /\ clock \in Int
      /\ nearestAt <= now /\ now <= clock
  BY DEF Inv, TypeOK, Times, Lookups
<1>2. CASE Restart
  <2>1. /\ UNCHANGED <<where, up, since, lost, born, latest, seenAt, now>>
        /\ pc' = "idle" /\ nearestAt' = -1
        /\ \A o \in Operators : probes'[o] = "no row"
    BY <1>2 DEF Restart, world, rows
  <2>2. Lookups'
    BY <1>1, <2>1 DEF Lookups
  <2>3. Probed' /\ Answered' /\ Known' /\ Unread'
    BY <2>1 DEF Probed, Answered, Known, Unread
  <2> QED BY <2>2, <2>3
<1>3. CASE Remake
  <2>1. /\ UNCHANGED <<where, up, since, lost, pc, now, nearestAt, probes>>
        /\ pc = "idle" /\ born' = clock /\ \A o \in Operators : latest'[o] = "no row"
    BY <1>3 DEF Remake
  <2>2. \A o \in Operators : seenAt'[o] = -1
    BY <1>3 DEF Remake
  <2>3. Lookups' /\ Probed'
    BY <2>1 DEF Lookups, Probed
  <2>4. Answered'
    BY <2>1 DEF Answered, View, Visible
  <2>5. Unread'
    <3>1. -1 >= -1
      OBVIOUS
    <3> QED BY <2>2, <3>1 DEF Unread
  <2>6. Known'
    <3>1. clock >= nearestAt
      BY <1>1
    <3>2. born' >= nearestAt
      BY <2>1, <3>1
    <3> QED BY <2>1, <3>2 DEF Known, UpToDate
  <2> QED BY <2>3, <2>4, <2>5, <2>6
<1> QED BY <1>2, <1>3

(* So the readings are current throughout.                                 *)
LEMMA StaysCurrent == Spec => []Current
<1>1. Inv /\ Current /\ UNCHANGED vars => Current'
  BY DEF vars, world, rows, Current, Lookups, Probed, Answered, Known, Unread, UpToDate,
         Pending, View, Visible
<1>2. Inv /\ Current /\ [Next]_vars => Current'
  BY <1>1, WorldCurrent, QuietCurrent, LoopCurrent, RestartCurrent DEF Next, Tick
<1> QED BY InitCurrent, <1>2, Invariance, PTL DEF Spec

(* A tick gets to its watches in one way, and by then the readings of all  *)
(* operators are in.                                                       *)
LEMMA EvaluatesOnReadings ==
  ASSUME Inv, Current, [Next]_vars, Evaluates
  PROVE  /\ Evaluate /\ nearestAt \in Int /\ now - nearestAt < NearestInterval
         /\ \A o \in Operators : UpToDate(o, nearestAt)
<1>1. /\ now \in Int /\ nearestAt \in Int /\ NearestInterval \in Nat \ {0}
  BY FeedHealthAssumption DEF Inv, TypeOK
<1>2. Evaluate
  BY DEF Evaluates, Next, Tick, World, Move, GoDark, ComeBack, Shutdown, Becomes, ClockTick,
         BeginTick, Query, StartProbes, SkipProbes, AllAnswered, RecordSample, RecordClosest,
         Answer, RecordProbed, Restart, Remake, vars
<1>3. now - nearestAt < NearestInterval
  <2>1. nearestAt = now \/ now - nearestAt < NearestInterval
    BY <1>2 DEF Evaluate, Current, Lookups
  <2> QED BY <1>1, <2>1
<1>4. nearestAt # -1 /\ Pending = {}
  BY <1>2 DEF Evaluate, Evaluates, Pending
<1> QED BY <1>1, <1>2, <1>3, <1>4 DEF Current, Known

(* The watches are evaluated on readings that are at most NearestInterval  *)
(* behind the world, whatever moves, stops, fails, restarts or is made     *)
(* again in between.                                                       *)
THEOREM ReadingsAreCurrent == Spec => ReadingIsCurrent
<1>1. Inv /\ Current /\ [Next]_vars =>
        (Evaluates => \A o \in Operators \ lost :
           now - since[o] >= NearestInterval /\ now - born >= NearestInterval
             => latest[o] = IF Visible(o) THEN "some" ELSE "none")
  <2> SUFFICES ASSUME Inv, Current, [Next]_vars, Evaluates, NEW o \in Operators \ lost,
                      now - since[o] >= NearestInterval, now - born >= NearestInterval
               PROVE  latest[o] = View(o)
    BY DEF View
  <2>1. /\ now \in Int /\ since[o] \in Int /\ born \in Int /\ NearestInterval \in Int
    BY FeedHealthAssumption DEF Inv, TypeOK
  <2>2. UpToDate(o, nearestAt) /\ nearestAt \in Int /\ now - nearestAt < NearestInterval
    BY EvaluatesOnReadings
  <2>3. ~(since[o] >= nearestAt) /\ ~(born >= nearestAt)
    BY <2>1, <2>2
  <2> QED BY <2>2, <2>3 DEF UpToDate
<1> QED BY <1>1, Invariance, StaysCurrent, PTL DEF Spec, ReadingIsCurrent

(* A scarcity watch is held back on a feed that stopped, except where the  *)
(* code cannot know it yet or any more.                                    *)
THEOREM DarkIsHeldBack == Spec => HoldsBackOnDark
<1>1. Inv /\ Current /\ [Next]_vars =>
        (Evaluates => \A w \in fired' : \A o \in DependsOn(w) \ (up \cup lost) :
           \/ now - since[o] < NearestInterval
           \/ \A q \in Operators : latest[q] # "some"
           \/ seenAt[o] = -1
           \/ now - seenAt[o] > Lookback)
  <2> SUFFICES ASSUME Inv, Current, [Next]_vars, Evaluates, NEW w \in fired',
                      NEW o \in DependsOn(w) \ (up \cup lost),
                      ~(now - since[o] < NearestInterval),
                      NEW q \in Operators, latest[q] = "some",
                      seenAt[o] # -1, ~(now - seenAt[o] > Lookback)
               PROVE  FALSE
    OBVIOUS
  <2>1. /\ w \in Watches /\ DependsOn(w) \cap DarkOperators(now) = {}
    BY EvaluatesOnReadings DEF Evaluate, darkFor
  <2>2. o \in Operators
    BY <2>1, FeedHealthAssumption DEF DependsOn
  <2>3. /\ now \in Int /\ since[o] \in Int /\ seenAt[o] \in Int /\ NearestInterval \in Int
        /\ Lookback \in Int
    BY <2>2, FeedHealthAssumption DEF Inv, TypeOK
  <2>4. UpToDate(o, nearestAt) /\ nearestAt \in Int /\ now - nearestAt < NearestInterval
    BY <2>2, EvaluatesOnReadings
  <2>5. ~(since[o] >= nearestAt)
    BY <2>3, <2>4
  <2>6. latest[o] = "none"
    BY <2>2, <2>4, <2>5 DEF UpToDate, View, Visible, Current, Unread
  <2>7. Recently(o, now)
    <3>1. seenAt[o] >= -1
      BY <2>2 DEF Current, Unread
    <3>2. seenAt[o] >= 0 /\ seenAt[o] >= now - Lookback
      BY <2>3, <3>1
    <3> QED BY <3>2 DEF Recently
  <2> QED BY <2>1, <2>2, <2>6, <2>7 DEF DarkOperators, Healthy
<1> QED BY <1>1, Invariance, StaysCurrent, PTL DEF Spec, HoldsBackOnDark
=============================================================================
