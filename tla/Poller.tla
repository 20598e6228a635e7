------------------------------- MODULE Poller -------------------------------
(***************************************************************************)
(* internal/poll: the poll loop.  A tick expires the overdue watches,      *)
(* loads the fences and the armed watches, queries the upstream API for    *)
(* all the fences at once, and then serves the fences one by one: records  *)
(* what is there, evaluates the watches of the fence and fires those that  *)
(* match.  Every statement, and every answer of the API, is a step of its  *)
(* own: the HTTP handlers and another process may act between any two.     *)
(*                                                                         *)
(* A process is the daemon, which ticks until it is stopped, or a run of   *)
(* the same program with -once, which exits after its tick.                *)
(***************************************************************************)
EXTENDS Store

CONSTANTS
  Daemon,     \* the process that serves the API; the others run -once
  Home,       \* the fence of the configured location
  HomePlace,
  NoWatch,    \* no watch is being reported
  OneCircle   \* the sets of places that fit in one query (MaxQueryRadiusM)

ASSUME PollerAssumption ==
  /\ Daemon \in Processes
  /\ Home \in Fences
  /\ HomePlace \in Places
  /\ NoWatch \notin Watches
  /\ OneCircle \subseteq SUBSET Places

PCs == {"down", "idle", "fences", "watches", "fetch", "serve", "event"}

(* The variables of a tick: at is its now; snap and gen the fences as it   *)
(* loaded them; armed the watches it loaded; waiting the fences whose      *)
(* query is out, todo those whose answer got is not yet served; job the    *)
(* watches of the fence being served that are still to be evaluated.       *)
Tick == [at: Int, snap: [Fences -> Places \cup {NoPlace}],
         gen: [Fences -> Nat], armed: SUBSET Watches,
         waiting: SUBSET Fences, todo: SUBSET Fences,
         got: [Fences -> SUBSET Vehicles], job: SUBSET Watches]

BlankTick(at) ==
  [at |-> at, snap |-> [f \in Fences |-> NoPlace],
   gen |-> [f \in Fences |-> 0], armed |-> {}, waiting |-> {}, todo |-> {},
   got |-> [f \in Fences |-> {}], job |-> {}]

VARIABLES
  pc,      \* where each process is in run() and Tick
  live,    \* whether the context of a process is not cancelled
  tick,    \* the variables of its tick, blank between ticks
  firing   \* the watch it has marked fired and not yet reported

pollVars == <<pc, live, tick, firing>>

PollerInit ==
  /\ pc = [p \in Processes |-> "down"]
  /\ live = [p \in Processes |-> TRUE]
  /\ tick = [p \in Processes |-> BlankTick(-1)]
  /\ firing = [p \in Processes |-> NoWatch]

PollerTypeOK ==
  /\ pc \in [Processes -> PCs]
  /\ live \in [Processes -> BOOLEAN]
  /\ tick \in [Processes -> Tick]
  /\ firing \in [Processes -> Watches \cup {NoWatch}]
  /\ \A p \in Processes : pc[p] = "event" <=> firing[p] \in Watches

-----------------------------------------------------------------------------
Goto(p, l) == pc' = [pc EXCEPT ![p] = l]

InTick(p) == pc[p] \notin {"down", "idle"}

(* Every statement of a tick runs under the context of the process and     *)
(* fails once that is cancelled.                                           *)
At(p, l) == pc[p] = l /\ live[p]

(* The tick is over, with or without an error: Run waits for the next      *)
(* interval, -once exits.                                                  *)
Return(p) ==
  /\ Goto(p, IF p = Daemon THEN "idle" ELSE "down")
  /\ tick' = [tick EXCEPT ![p] = BlankTick(@.at)]
  /\ firing' = [firing EXCEPT ![p] = NoWatch]
  /\ UNCHANGED live

(* run: open the database, save the home fence.                            *)
Start(p) ==
  /\ pc[p] = "down"
  /\ Goto(p, "idle")
  /\ live' = [live EXCEPT ![p] = TRUE]
  /\ Open(p)
  /\ SaveFence(Home, HomePlace)
  /\ UNCHANGED <<worldVars, tick, firing>>

(* Take the time and expire.  Ticks of one process are an interval apart,  *)
(* also over a restart (RestartSec); only at the end of the modelled time  *)
(* do they go on without it.                                               *)
BeginTick(p) ==
  /\ At(p, "idle")
  /\ clock > tick[p].at \/ clock = MaxClock
  /\ Goto(p, "fences")
  /\ tick' = [tick EXCEPT ![p] = BlankTick(clock)]
  /\ ExpireWatches(clock)
  /\ UNCHANGED <<worldVars, live, firing>>

LoadFences(p) ==
  /\ At(p, "fences")
  /\ \E f \in Fences : Exists(f)
  /\ Goto(p, "watches")
  /\ tick' = [tick EXCEPT ![p].snap = fence, ![p].gen = gen]
  /\ UNCHANGED <<worldVars, storeVars, live, firing>>

NoFences(p) ==
  /\ At(p, "fences")
  /\ ~ \E f \in Fences : Exists(f)
  /\ Return(p)
  /\ UNCHANGED <<worldVars, storeVars>>

Snapped(p) == {f \in Fences : tick[p].snap[f] # NoPlace}

LoadWatches(p) ==
  /\ At(p, "watches")
  /\ Goto(p, "fetch")
  /\ tick' = [tick EXCEPT ![p].armed = ArmedWatches(tick[p].at),
                          ![p].waiting = Snapped(p)]
  /\ UNCHANGED <<worldVars, storeVars, live, firing>>

-----------------------------------------------------------------------------
PlacesOf(p, fs) == {tick[p].snap[f] : f \in fs}

(* groupFences: one query for all the fences when one circle of at most    *)
(* MaxQueryRadiusM covers them, a query for each otherwise.                *)
Groups(p) ==
  LET fs == Snapped(p)
  IN  IF PlacesOf(p, fs) \in OneCircle THEN {fs} ELSE {{f} : f \in fs}

(* The queries are answered in any order; the last answer ends the wait.   *)
Answered(p, g, served, seen) ==
  /\ tick' = [tick EXCEPT
       ![p].waiting = @ \ g,
       ![p].todo = @ \cup served,
       ![p].got = [f \in Fences |-> IF f \in g THEN seen[f] ELSE @[f]]]
  /\ Goto(p, IF tick[p].waiting = g THEN "serve" ELSE "fetch")
  /\ UNCHANGED <<worldVars, storeVars, live, firing>>

(* within: the one answer is trimmed to each fence as it was loaded.       *)
FetchGroup(p, g) ==
  /\ At(p, "fetch")
  /\ g \subseteq tick[p].waiting
  /\ \E seen \in Answers(PlacesOf(p, g)) :
       Answered(p, g, g, [f \in g |-> {v \in seen : pos[v] = tick[p].snap[f]}])

(* Faulty: one failed query ends the tick.                                 *)
FailureEndsTick(p, g) ==
  /\ "upstream" \in Env
  /\ At(p, "fetch")
  /\ g \subseteq tick[p].waiting
  /\ Return(p)
  /\ UNCHANGED <<worldVars, storeVars>>

(* A failed query leaves its fences out of the tick, and no others.        *)
FetchFails(p, g) ==
  /\ "upstream" \in Env
  /\ At(p, "fetch")
  /\ g \subseteq tick[p].waiting
  /\ Answered(p, g, {}, [f \in g |-> {}])

-----------------------------------------------------------------------------
(* Faulty: the watches of a fence are looked up after it was polled.       *)
LooksUpLate(p, f) ==
  /\ At(p, "serve")
  /\ tick[p].job = {}
  /\ f \in tick[p].todo
  /\ CanObserve(p, f)
  /\ Observe(f, tick[p].gen[f])
  /\ tick' = [tick EXCEPT
       ![p].todo = @ \ {f},
       ![p].job = {w \in ArmedWatches(tick[p].at) : row[w].fence = f}]
  /\ UNCHANGED <<worldVars, pc, live, firing>>

(* recordFence, recordNearest and DarkOperators.  What they write is one   *)
(* step: a deletion between two of the writes fails the next one and takes *)
(* the rows of the ones before with it, as a deletion before them all      *)
(* would.                                                                  *)
RecordFence(p, f) ==
  /\ At(p, "serve")
  /\ tick[p].job = {}
  /\ f \in tick[p].todo
  /\ CanObserve(p, f)
  /\ Observe(f, tick[p].gen[f])
  /\ tick' = [tick EXCEPT
       ![p].todo = @ \ {f},
       ![p].job = {w \in tick[p].armed : row[w].fence = f}]
  /\ UNCHANGED <<worldVars, pc, live, firing>>

(* An error from the database returns from Tick, whatever fences are left. *)
(* Apart from the foreign key it has one cause here: ObservePresence reads *)
(* before it writes, and another process may have written in between.      *)
RecordFails(p, f) ==
  /\ At(p, "serve")
  /\ tick[p].job = {}
  /\ f \in tick[p].todo
  /\ CanObserve(p, f) => \E q \in Processes \ {p} : pc[q] # "down"
  /\ Return(p)
  /\ UNCHANGED <<worldVars, storeVars>>

(* evaluate: the vehicles of the answer a watch cares about, and those it  *)
(* would report.                                                           *)
Matching(p, w) == tick[p].got[row[w].fence] \cap row[w].wants

Hits(p, w) == IF row[w].kind = "appearance"
              THEN Matching(p, w) \ row[w].baseline
              ELSE Matching(p, w)

Matches(p, w) == IF row[w].kind = "appearance"
                 THEN Hits(p, w) # {}
                 ELSE Cardinality(Matching(p, w)) <= row[w].threshold

Evaluating(p, w) == At(p, "serve") /\ w \in tick[p].job

Drop(p, w) == tick' = [tick EXCEPT ![p].job = @ \ {w}]

(* Nothing to report, or the row is no longer armed: another process, a    *)
(* handler or a deletion was there first, and ErrNotFound is no error.     *)
Pass(p, w) ==
  /\ Evaluating(p, w)
  /\ ~Matches(p, w) \/ wstate[w] # "armed"
  /\ Drop(p, w)
  /\ UNCHANGED <<worldVars, storeVars, pc, live, firing>>

(* A scarcity watch is held back while a feed it depends on looks dark;    *)
(* which ticks that concerns is the business of FeedHealth.                *)
HoldBack(p, w) ==
  /\ Evaluating(p, w)
  /\ row[w].kind = "scarcity"
  /\ Drop(p, w)
  /\ UNCHANGED <<worldVars, storeVars, pc, live, firing>>

(* Faulty: the first watch that fires ends the turn of its fence.          *)
FiresOnlyOne(p, w) ==
  /\ Evaluating(p, w)
  /\ Matches(p, w)
  /\ MarkFired(w, tick[p].at)
  /\ tick' = [tick EXCEPT ![p].job = {}]
  /\ Goto(p, "event")
  /\ firing' = [firing EXCEPT ![p] = w]
  /\ UNCHANGED <<worldVars, live>>

Fire(p, w) ==
  /\ Evaluating(p, w)
  /\ Matches(p, w)
  /\ MarkFired(w, tick[p].at)
  /\ Drop(p, w)
  /\ Goto(p, "event")
  /\ firing' = [firing EXCEPT ![p] = w]
  /\ UNCHANGED <<worldVars, live>>

(* Faulty: the notification is still at hand when the next one is made.    *)
ReportsAndKeeps(p) ==
  /\ At(p, "event")
  /\ CanRecordEvent(p, firing[p])
  /\ RecordEvent(firing[p])
  /\ Goto(p, "serve")
  /\ UNCHANGED <<worldVars, live, tick, firing>>

(* RecordEvent, and dispatch: the delivery goes its own way from here.     *)
Report(p) ==
  /\ At(p, "event")
  /\ CanRecordEvent(p, firing[p])
  /\ RecordEvent(firing[p])
  /\ Goto(p, "serve")
  /\ firing' = [firing EXCEPT ![p] = NoWatch]
  /\ UNCHANGED <<worldVars, live, tick>>

ReportFails(p) ==
  /\ At(p, "event")
  /\ ~CanRecordEvent(p, firing[p])
  /\ Return(p)
  /\ UNCHANGED <<worldVars, storeVars>>

EndTick(p) ==
  /\ At(p, "serve")
  /\ tick[p].todo = {}
  /\ tick[p].job = {}
  /\ Return(p)
  /\ UNCHANGED <<worldVars, storeVars>>

-----------------------------------------------------------------------------
(* SIGTERM cancels the context.  The statement that is next fails, and     *)
(* that ends the tick.                                                     *)
Sigterm(p) ==
  /\ "stop" \in Env
  /\ pc[p] # "down"
  /\ live[p]
  /\ live' = [live EXCEPT ![p] = FALSE]
  /\ UNCHANGED <<worldVars, storeVars, pc, tick, firing>>

Cancelled(p) ==
  /\ InTick(p)
  /\ ~live[p]
  /\ Return(p)
  /\ UNCHANGED <<worldVars, storeVars>>

(* Run returns, and run after it.                                          *)
Exit(p) ==
  /\ pc[p] = "idle"
  /\ ~live[p]
  /\ Goto(p, "down")
  /\ UNCHANGED <<worldVars, storeVars, live, tick, firing>>

(* The process dies, or the machine does; the database is durable.         *)
Crash(p) ==
  /\ "crash" \in Env
  /\ pc[p] # "down"
  /\ Goto(p, "down")
  /\ tick' = [tick EXCEPT ![p] = BlankTick(@.at)]
  /\ firing' = [firing EXCEPT ![p] = NoWatch]
  /\ UNCHANGED <<worldVars, storeVars, live>>

LoseConnection(p) ==
  /\ pc[p] # "down"
  /\ Reconnect(p)
  /\ UNCHANGED <<worldVars, pollVars>>

TickStep(p) ==
  \/ BeginTick(p) \/ LoadFences(p) \/ NoFences(p) \/ LoadWatches(p)
  \/ \E g \in Groups(p) : FetchGroup(p, g) \/ FetchFails(p, g)
  \/ \E f \in Fences : RecordFence(p, f) \/ RecordFails(p, f)
  \/ \E w \in Watches : Pass(p, w) \/ HoldBack(p, w) \/ Fire(p, w)
  \/ Report(p) \/ ReportFails(p) \/ EndTick(p) \/ Cancelled(p)

ProcessStep(p) ==
  Start(p) \/ Sigterm(p) \/ Exit(p) \/ Crash(p) \/ LoseConnection(p)
=============================================================================
