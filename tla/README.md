# A specification of scootless

`scootlessd` watches the rentable scooters around a few places.  It polls the
mobility API of Entur, keeps a history in SQLite, and tells a phone when a
*watch* matches: something new has turned up (`appearance`), or too little is
left (`scarcity`).  This directory specifies the daemon in TLA+: what its tick,
its HTTP handlers and its notifications do to the state they share, checked by
TLC on small instances; the results that matter most are proved with TLAPS for
instances of any size.

Paths are relative to the root of the repository (`src/` here).

## 1. The system

| part | state | operations | talks to |
|---|---|---|---|
| store (`internal/store`) | tables fence, watch, event, sample, presence, nearest; one connection | one method per statement or transaction | - |
| poll loop (`internal/poll`) | the variables of a running tick, `nearestAt`, `wg` | `Run`, `Tick`, `recordFence`, `recordNearest`, `evaluate`, `dispatch` | store, upstream, sinks |
| API (`internal/api`) | none between requests | create/delete fence, create/cancel/list watches, status, history, arrivals, board, stream | store, upstream |
| Entur client (`internal/entur`) | none | `Vehicles`, `ByID` | upstream |
| geo (`internal/geo`) | none | distance, bearing, bounding circle | - |
| board (`internal/board`) | none | `Assemble` | - |
| notify (`internal/notify`) | the MQTT connection | `Multi.Publish`, `MQTT.publish`, `Ntfy.Publish` | broker, ntfy server |
| `cmd/scootlessd` | context, deferred calls | `run`: start, `-once`, stop | all of the above |
| `cmd/scootless-track` | what it last saw of each vehicle | one loop around `ByID` | upstream |
| `scootless.py`, `scoot-watch.py` | none shared | command-line precursors | upstream |
| config, cors, authentication | none | read once, or per request | - |

What makes it hard:

- **Two kinds of actors on one database.**  The tick is a long sequence of
  statements with network round trips in the middle; handlers run between any
  two of them, and `-once` is a second process on the same file.
- **Steps that belong together and are not one statement.**  `MarkFired` and
  `RecordEvent`; resolving a fence, reading its baseline and inserting its
  watch; the rows of one tick.
- **Answers about different times.**  The watches are loaded before the fences
  are queried; a baseline is read before its watch exists; whether a feed is
  dark is judged on readings that may be a probe interval old.
- **Stops.**  SIGTERM cancels the context that the statement in hand runs
  under; a crash leaves whatever was committed.
- **Partial failure.**  A query, a probe or a sink fails and the rest goes on.
- **Answers that were cut.**  The API sends the nearest 500 of a circle, one
  circle serves several fences, and filters are applied to what is left.
- **Tickers.**  The poll loop and every stream ask at intervals of their own,
  and a query may take longer than one.
- **Foreign keys that are enforced or not.**  The schema sets
  `PRAGMA foreign_keys = ON`, on the connection it is run on.  The pool has one
  connection, so they are enforced - until `database/sql` replaces it.

What must hold: a watch fires once, and its fire is reported; it fires on
arrivals, not on what stood there; it ends; its fence stays while it is armed
and leaves nothing behind when it goes; a healthy fence is served whatever
happens to another; a scarcity watch does not fire on a feed that stopped;
stints are what was seen, and a consumer is told of each arrival once; what a
tick counts and a board offers is what stands there, or an answer was cut; the
API is asked no more often than agreed; a healthy sink delivers, and a stop ends
the process.
`PROJECT.json` lists the hazards line by line.

## 2. The modules

```
World  <-- Store <-- Poller --+
             ^                +--> Scootlessd --> MCScootlessd
             +------ Api -----+    |     \--> WatchBook --> WatchBookProofs
                                   |          (abstract, by INSTANCE)
                                   +--> ScootlessdProofs
Upstream  <-- Coalesce --+
          <-- Board -----+--> Lookups --> MCLookups
                                  \--> LookupsProofs
Track --> Diary (abstract, by INSTANCE)      Cadence --> MCCadence
   \-- TrackProofs                              \-- CadenceProofs
FeedHealth --> FeedHealthProofs
Presence   --> PresenceProofs
Delivery   --> DeliveryProofs
```

**World** - clock, vehicles, answers.  A *place* is what a fence covers; a
vehicle stands in one place or `Elsewhere`, where no fence sees it, which is
also where it is while it is reserved, disabled or being ridden (`convert` drops
those).  `Answers` is what `Client.Vehicles` may return: exactly what is there,
or, with `"blink"` in `Env`, any part of it.

**Store** - tables as functions.  `fence[f]` is the place of a fence or
`NoPlace`; `wstate`, `row`, `firedAt` are the columns of a watch (`absent` and
`deleted` for no row); `events` counts its event rows; `hist[f]` holds the
*incarnations* of a fence (`gen`) that have observation rows under its id, which
is what tells old history from new.  `fk[p]` says whether the connection of a
process enforces foreign keys.  `fires` and `gen` are history variables.
`UPDATE watch ... WHERE` is `SetStates` of the rows that match.  The filter of a
watch (operators, minimum range) is the set of vehicles it lets through, `wants`.

**Poller** - the tick as a program counter per process:

| step | `poll.go` |
|---|---|
| `BeginTick` | take `now`, `ExpireWatches` |
| `LoadFences` / `NoFences` | `Fences`; nothing to do |
| `LoadWatches` | `ArmedWatches`, `groupFences` |
| `FetchGroup`, `FetchFails` | the answers, in any order; `within` |
| `RecordFence`, `RecordFails` | `recordFence`, `recordNearest`, `DarkOperators` |
| `Pass`, `HoldBack`, `Fire` | `evaluate` up to `MarkFired` |
| `Report`, `ReportFails` | `RecordEvent`, `dispatch` |
| `EndTick`, `Cancelled` | the returns of `Tick` |
| `Start`, `Sigterm`, `Exit`, `Crash`, `LoseConnection` | `run` and its surroundings |

Served fences come in any order (SQL orders them by a name that is not unique),
and so do watches of one second.  The writes of `RecordFence` are one step; the
comment there says why.  `HoldBack` may hold back any scarcity watch; which ones
it does hold back is the subject of FeedHealth.

**Api** - `createWatch` is a process of its own (`call[c]`): resolve, read the
baseline, insert, with failure possible before each; every other handler that
writes is one step.  Refused requests (400, 404, 409) change nothing.
`resolveHere` uses an id only once, as `randomID` does.

**Scootlessd** - composes the four.  Handlers run while the daemon is up and
requests end with it.

**WatchBook** - the abstract specification: what is promised about watches
without a word about ticks, requests or rows.  `KeepsBook` in Scootlessd is the
refinement: `state <- wstate`, `fired <- fires`, `told <- events`, and the
watches that repeat.

**FeedHealth** - one fence, several operators, each modelled by its nearest
vehicle: inside the fence, within reach of a probe, or away.  The steps of
`recordFence` and `recordNearest` in their order (counts, readings of the fence,
probes, readings of the probes), `nearestAt`, `DarkOperators`, and the decision
of `evaluate` for scarcity watches.  Rows are stored one per step, since the
status page may read in between: `LatestCounts` and `DarkOperators(clock)` are
what its two reads return at that moment.  A restart forgets `nearestAt` and
keeps the rows; a fence that is deleted and made again (`Remake`) loses its rows
and keeps its entry in `nearestAt`.

**Presence** - `ObservePresence` as a transaction of any number of processes.
An answer is any set of vehicles: whether one that is missing has left or
blinked makes no difference to the table.  The history variable is the
sightings themselves.  `Read` is a consumer of `GET /v1/arrivals` that asks each
time from where its last window ended; `overtaken` remembers the ticks that were
under way when it asked.

**Delivery** - `buildSink`, which looks for the broker once, `dispatch`,
`Multi`, and the sinks with their time limits; `run` from its start over ticking
and `p.Wait` to letting go of the broker.  `excused` is a history
variable: which notifications a sink held while its far side was not well.

**Upstream** - one query and its answer, with the ground a line and distances
whole metres: the API sends the nearest `Limit` vehicles of the operators asked
for (`Sent`, the only part that is not in this repository), the client drops
what cannot be rented, has not the range or is outside (`Convert`) and says
whether the cap was reached (`Truncated`).

**Coalesce** - a tick from `groupFences` over the answers to `within` and
`recordNearest`: one circle around the middle of all fences if it is small
enough, a circle each otherwise.  The middle of n fences need not be a whole
metre, so distances to it are kept n-fold.

**Board** - `Prefs`, score, penalty, rounding and ranking, and `computeBoard`.
Scores are whole tenths, as `round1` leaves them; scores that are equal keep the
order of distance, and vehicles at one distance come in any order.

**Lookups** - composes the two over one parked fleet: a board or a watch is asked
for, then a tick runs.  Between a watch and the tick a vehicle may be given a
battery, or be reserved or free again (`Service`).

**Cadence** - when the API is asked.  Each loop - the poll loop, one stream per
display - is off, working, or waiting in its `select`; `left` and `pending` are
its ticker.  Time goes by for all of them at once, and only when nothing in the
program can run, so that what takes time is queries and waiting.

**Track** - `scootless-track`: `Look` is a `ByID` that answers, with the `switch`
over every vehicle, `Fail` one that does not; then the deadline, then the
`select`.  `page` is what the printed events say of each vehicle, `answer` a
history variable.  **Diary** is its abstract specification, for a reader of the
events who knows nothing of lookups: `KeepsDiary` is the refinement, which maps
`page` to `page`.

**MCScootlessd**, **MCLookups**, **MCCadence** - constants for TLC.  The other
modules are run as they are.

## 3. The checks

Passing runs:

| run | shows | states |
|---|---|---|
| Core | two watches on two fences that share a query, one-shot appearance, failing queries, cancellations: types, every fire is reported, arrivals only, no match missed on a tick nothing disturbs | 590 k |
| TwoProcesses | the daemon and a `-once` run on one database, stopped and killed, repeating and one-shot watches: fired once, and every step is one WatchBook allows | 2.1 M |
| Deletions | two fences deleted, made again and moved while ticks, requests and cancellations run, keys enforced: no watch without its fence, nothing left behind, healthy fences served although another's query fails | 1.1 M |
| Retires | every watch ends (liveness), with blinking vehicles, failing queries, stops, deletions, moves and a lost connection | 540 k |
| Feeds | vehicles move, feeds stop and return one by one or all at once, probes fail, the daemon restarts, the fence is made again: held back on dark, readings are current, absent is not dark, counts are those of the last tick | 5.2 M |
| Stints | stints are the runs of sightings; a consumer is told of each arrival once, but for those of a tick that was under way when it asked | 527 k |
| Deliveries | a sink that was well has delivered at the end, the broker also at the start, and a stop ends the process (liveness) | 23 k |
| Lookups | nothing in a fence is overlooked, readings are true, board and tick agree, a parked fleet fires nothing but for vehicles serviced since, no better scooter is left out of a board, and the gap between operators holds - or an answer was cut | 1.8 M |
| Cadence | no loop asks three times within its interval; displays hear something in time; the loop goes on ticking, streams of gone displays end, and a stop ends the process (liveness) | 237 k |
| Track | the events say what the last answer said and are news; following ends (liveness) | 18 k |

Each property has at least one faulty variant of the code it is about (the
definitions marked *Faulty* in the modules) that violates it in the same run.

Runs that end in a counterexample, each a place where the code does not do what
a comment or a document says; `PROJECT.json` quotes the line:

| run | what happens |
|---|---|
| DeleteFired | a fence whose watch has fired cannot be deleted: its event rows are in the way of the foreign key that the comment takes for unenforced |
| StoppedReport | a SIGTERM between `MarkFired` and `RecordEvent` loses the notification for good |

Core leaves out what would break its properties - no stop between the two
statements, no deleted or moved fence - and no blinks; Deletions has no replaced connection.
`Env` in each cfg says what may happen.

### Disagreements without a run of their own

Seen while modelling, by the same modules with another `Env` or by reading; no
property above covers them, and a change of the code would be a reason to add
one.

- **A moved fence.**  `SaveFence` moves a fence while watches are armed on it and
  leaves their baselines (`internal/store/store.go:70`): with `"save"` in `Env`
  and two places, `ReportsArrivalsOnly` fails, since the next tick reports
  whatever stands in the new place.  `README.md:129-132` says "fire when a
  vehicle turns up that was not there when the watch was armed", and
  `internal/store/fence_delete.go:21` that "a consumer moves one fence rather
  than making a second".
- **Late rows.**  A tick goes on with the fences it loaded
  (`internal/poll/poll.go:234`): when one is deleted and its id used again for
  another place meanwhile, the tick writes the old place's counts and sightings
  under the new fence; `internal/store/fence_delete.go:20-22` wants to prevent
  that "rows left behind would later be read as a new fence's own past".
- **A fiction.**  Between two probes `DarkOperators` does not know that a feed
  has just stopped (`internal/poll/poll.go:549`), and a scarcity watch fires,
  which `poll.go:242-244` and `333-335` want to rule out.  `HoldsBackOnDark`
  names when.
- **A cut answer** of the shared query costs a fence at its edge vehicles that a
  query of its own would have returned.  `Tick` notes it in its report, which is
  logged; the rows say nothing of it, and `computeBoard` and `baseline` do not
  look at `Truncated` at all.  `internal/geo/geo.go:55-57` says "over-fetching a
  little costs nothing".
- **Not nearest first.**  `within` measures distances anew and keeps the order
  of the shared query (`internal/poll/poll.go:443-455`), so that the vehicle a
  notification names (`internal/notify/ntfy.go`, `Vehicles[0]`) is not always
  the nearest one.
- **Brands.**  By the numbers of `DefaultPrefs` a Bolt more than 250 m nearer
  beats a Voi, and a Voi a Ryde with a low battery that is 500 m farther;
  `internal/board/board.go:46-47` says "only when there's no Voi around either"
  and "only when the nearest Ryde is >~750 m away".  `BrandHolds` states what
  the code keeps.
- **A stream keeps the place** its fence had when the display connected
  (`internal/api/api.go:968`), so that board and stream differ once it is moved;
  `api.go:901-902` says "so they can never drift apart".
- **Two queries close together.**  A tick that came due while a query was out is
  taken at once, so that two ticks may begin less than `MinInterval` apart;
  `NoThreeInAnInterval` is what holds.  A query may take 8 s and the interval be
  5 s, where `internal/entur/client.go:38` says "deliberately shorter than the
  poll interval".
- **The tracker** measures "reappeared" from where a vehicle was first seen or
  last came back, also when it told a "moved" since
  (`cmd/scootless-track/main.go:115`), and tells "vanished" of one that is
  reserved or disabled, since `convert` drops it; `internal/entur/client.go:365`
  says absent "from the feed entirely".
- **A broker that is down at the start** is not looked for again
  (`cmd/scootlessd/main.go:177-182`) until the daemon is restarted.
- **A late `DELETE`.**  `SetState` moves a watch by id
  whatever its state (`internal/store/watch.go:134`), so `DELETE` turns a fired
  watch into a cancelled one; in `docs/BACKEND.md:107-117` only an armed watch
  is cancelled.
- **Cooldown.**  `MarkFired` fires a repeating watch on every tick
  (`internal/store/watch.go:116`); `docs/BACKEND.md:123-124` says repeating
  watches "still respect a cooldown".
- **Fences made for a watch** stay when it is over (`internal/api/api.go:306`)
  and are polled; `README.md:136-137` says "Nothing polls forever".
- **A request and a deletion.**  `createWatch` looks its fence up once
  (`internal/api/api.go:246-276`).  While keys are enforced the insert fails;
  on a replaced connection a watch is armed on a fence that is gone, what
  `internal/store/fence_delete.go:15-17` calls "the worst shape".
- **A deletion between `MarkFired` and `RecordEvent`** takes the watch's row
  away, and the report with it, like the stop of StoppedReport.
- **Blinks.**  The baseline is one live answer (`internal/api/api.go:315`);
  `internal/store/presence.go:120-121` says `PresentIDs` is used, which would
  tolerate a blink.  Only a test calls it.
- **A deleted fence ends the tick** for the fences after it
  (`internal/poll/poll.go:237`), against `internal/poll/poll.go:225-226`.
- **Ridden away.**  An operator whose last vehicle was taken looks like a feed
  that stopped (`internal/store/nearest.go:193`, against 141-142).
- **The status page during a tick** shows zero for operators whose row is not
  written yet (`internal/store/nearest.go:117`, against 112-113), and may call
  some operators dark while all are quiet (`internal/poll/poll.go:609`, against
  `internal/store/nearest.go:152-154`).
- **Outages.**  After one longer than `Stale`, what is parked there gets a new
  row (`internal/store/presence.go:80`, against `internal/store/schema.go:56-58`).
- **Two processes** may commit their sightings in the opposite order of their
  times, and `last_seen` goes back (`internal/store/presence.go:73`).
- **A mute broker** leaves a goroutine behind for every notification
  (`internal/notify/notify.go:178`, against `internal/poll/poll.go:375-376`).

### Bounds

- `MaxClock` 2 poll intervals in the core: one tick to load, one to fire, one
  to expire.  3 in FeedHealth, one more than `NearestInterval`, so that a probe,
  a tick without one and the next probe all happen.  At `MaxClock` the core lets
  ticks go on at the same time, so nothing is cut off half way.
- One vehicle, one or two watches, one client in the core.  Properties are about
  one watch and its fence; two watches show that firing one does not cost the
  other its turn, and a second fence shows the same of fences.
- `MaxGen` 1: one deletion of an id is enough for an old and a new incarnation.
- FeedHealth: two operators, one that is dark and one peer; `Lookback` 2 lies
  both inside and outside the modelled time; `MaxChanges` 2, so that a feed can
  stop after a vehicle moved, two feeds can stop, or one stop and return.
- Presence: `Stale` 1 and `MaxClock` 4 make sightings exactly at the limit and
  beyond, and two stints of one vehicle, with a window of the consumer between
  any two of them.  Vehicles do not interact there; two show just that.
- Two notifications, three sinks; the log sink cannot fail.
- Lookups: four vehicles and a cap of three, so that one vehicle too many is
  possible and two are not; two fences that share a query with a radius that is
  no whole metre, that overlap, or that are too far apart, one of them wider than
  the reach; a probe asks for two vehicles of an operator that has three.
  Positions lie on the edges of the fences and of the gaps; preferences are those
  of `DefaultPrefs`.
- Cadence: a step is two seconds and a half, the poll interval at its floor of
  two steps, one display below it and one above; a query may take three steps,
  longer than the interval.  `Grace` is one step.  Each display connects once.
  `since` counts up to `Long`, the longest interval, and `silent` a little further.
- Track: spots ten metres apart and a jitter of fifteen: two steps of creeping
  are news, one is not.  A deadline of two is met before, at and after a look.

Watches are symmetric in Core, which has no liveness property.  The core checks
deadlock.  FeedHealth and Presence stop when their bounded clock does, Delivery
when the process has ended: their cfgs switch the deadlock check off.

### Fairness

*Retires.*  Weak fairness of the clock; of `Start` of the daemon, since the unit
has `Restart=always`; of `Exit`; and of the next step of a tick, since every
statement and every query returns (the HTTP client and SQLite have timeouts).
Strong fairness of `BeginTick`: a daemon that is stopped every single time
between its start and its first statement never expires anything, and nothing in
the code could help it.  No query needs to succeed, no client to ask and nothing
to move.

*Deliveries.*  Weak fairness of the outcome of each delivery - the far side
answered, or a timer fires - of `Dial`, which has a timeout, and of `run`.  No
far side needs to answer or recover.

*Cadence.*  Weak fairness of each loop - a query ends by its timeout, a `select`
takes what is ready - of the end of the process and of time.  No query needs to
succeed, and no display to hang up.

*Track.*  Weak fairness of a lookup's end, of the ticker and of time.  Strong
fairness of `Stop`: after the signal a lookup fails at once, so the `select`
finds the ticker not yet due at most turns, and where both are ready it chooses
at random.

## 4. The proofs

`ScootlessdProofs` proves nine theorems about `Safe`, for any sets of places,
vehicles, fences, watches, clients and requests, any finite set of processes and
any bounds, from the named assumptions of the modules.

- **TypeCorrect**: `TypeOK`, one lemma for the steps of a tick, one for those of
  a process, one for the handlers and one for the environment; one for each
  operator of Store.
- **NeverFiredTwice**: `FiredOnce`.  `StepEffects` first reduces the many
  actions to five kinds as far as watches are concerned: nothing, a fire, a
  report, an insert, and an end of some watches.  `FiredOnce` is not inductive:
  an insert must not hit an id that already has a row, although `randomID` was
  called two steps earlier.  `DrawnOnce` adds that an id drawn by a request in
  progress has no row and is drawn by no other request, and a report needs
  `events + Owing <= fires` with the processes that still owe it counted.
- **ImplementsBook**: `KeepsBook`.  Each of the five kinds is an action of
  WatchBook or a stutter, under the same invariant: `Tell` needs
  `told < fired`, which `FiredOnce` and a non-empty `Owing` give, `Arm` needs
  `DrawnOnce`.
- **BookFiresOnce** (`WatchBookProofs`): WatchBook alone keeps a watch that does
  not repeat from firing twice, so whatever implements it does.
- **DeletionIsClean** and **NoWatchIsOrphaned**: for `"reconnect" \notin Env`,
  foreign keys stay enforced, a row needs its fence, and a deletion takes all
  the rows of a fence; `KeyInv` is inductive.  The assumption is needed:
  `createWatch` does not look at its fence again before the insert
  (`internal/api/api.go:276`), so only the foreign key refuses it.

The other four are about whole ticks.  `Bystanders` says first that a step of one process leaves the tick of another
alone or ends it with its process, so that each argument follows one tick.
`TickInvariant` (types, `DrawnOnce` and the shape of a tick: what it holds at
each program counter, and that what it serves it has loaded) is their common
ground.

- **NoFireIsLost**: `EveryFireReported`.  `Answerable` adds to it that every
  context is live, that no watch is deleted, and that a fire in the hands of a
  process is of a watch that has a row.  It assumes that `Env` has no
  `"stop"` and no `"crash"`, either of which may fall between `MarkFired` and
  `RecordEvent` (StoppedReport), and no `"delete"`, which takes the row the
  event refers to away; a failed query, a cancelled watch, a moved fence, a
  second process and a replaced connection do no harm.
- **TicksServeHealthy**: `TickServesHealthy`, without any assumption.  A tick
  fails only in `RecordFence` and `RecordEvent`.  `Dated` says that a loaded fence that is gone,
  or a loaded watch that is, has a newer incarnation than the tick loaded, so
  that the fence was deleted meanwhile.
- **TicksMissNothing**: `MissesNothing`, for `Processes = {Daemon}`.  `Attentive`
  follows a loaded watch with something to report: it is still to be looked at,
  is over, or has fired since the tick began.  With a second process the last
  is not stable: a tick that began earlier may fire the watch later and set
  `firedAt` back.
- **OnlyArrivals**: `ReportsArrivalsOnly`, without `"save"` and `"blink"`.
  Request, row and tick each know a fence by the place they once read.  `Steady`
  says that there is *one* assignment of places to fence ids (`Site`) that all
  of them agree with, also after a fence was deleted and, like `Home`, made
  again, and that whoever has not moved since a baseline was read is in it if it stands
  there (`Covers`); `Familiar` says the same of the answers a tick holds.
  Without the first assumption a moved fence refutes it, without the second a
  vehicle that was blinking when the baseline was read.

`TrackProofs` proves three of Track, for any vehicles, spots, jitter and deadline:

- **TypesHold**: `TypeOK`, which says also that a vehicle that is seen was found
  once and has a place.
- **DiaryHolds**: `DiaryIsCurrent`.  It is not inductive: a look that finds a
  vehicle where it was says nothing, and then the page must be of the place the
  look compared with.  `StatesMatch` ties the page of a vehicle to the state
  kept of it: blank before it was found, gone while it is not seen, otherwise an
  event about the place `at`, and the last answer within `Jitter` of that.
- **ImplementsDiary**: `KeepsDiary`, with the same invariant: what `Tell` prints
  of a vehicle is news after the page that `StatesMatch` says there is.

`CadenceProofs` proves three of Cadence, for any displays, intervals and time
limits (`LongAssumption` only says that the history counts at least to the
longest interval):

- **TypesHold**: `TypeOK`.
- **DisplaysHear**: `Hears`.  `StreamOK` says what a connected display waits
  for: while its board is made, it has been silent for at most an interval and
  the time that took; while nothing is pending, its silence and what is left of
  the ticker's round are an interval together.
- **AsksInTime**: `NoThreeInAnInterval`.  `TickerOK` relates the history to the
  ticker: while a tick is pending, it fired after the loop last began to work,
  and the ticker has gone a whole round since the time before.  That needs that
  the channel holds one tick: with two, both could have fired long ago.

`FeedHealthProofs` proves all five of FeedHealth, for any operators and bounds:

- **TypesHold**: `TypeOK`.
- **DarkWereThere**: `AbsentIsNotDark`.  A row with a distance tells of a
  vehicle that was in view at its time (`Seen`); for that, whatever the tick
  holds must have been read after it began (`Fresh`), the answers of probes
  included, of which none may be left from the tick before.
- **CountsAreOfLastTick**: `CountsOfLastTick`.  `Counted` says of the middle of a
  tick which operators have their row already, and afterwards that all rows are
  of one time, whichever it was.
- **ReadingsAreCurrent** and **DarkIsHeldBack**: `ReadingIsCurrent` and
  `HoldsBackOnDark`, from one invariant, `Current`.  A reading is `UpToDate` with
  regard to a time if it is what there is to see, or something happened since:
  the feed changed, a probe was lost, the fence was made again.  All readings
  are so with regard to `nearestAt`, except those the tick is just probing
  (`Known`, `Pending`); an answer to a probe is so with regard to the tick
  (`Answered`), every operator not found in the fence has its probe (`Probed`),
  and a tick that probes nothing has a lookup less than an interval ago
  (`Lookups`).  `nearestAt` outlives the rows, so the fence made again
  needs its own disjunct.

`PresenceProofs` proves both of Presence:

- **ArrivesOnce**: `EachArrivalOnce`, for any number of processes.  Windows do
  not overlap (`Told`: what was told lies before the end of the last one), and a
  tick that can still write into a window already read was under way when it was
  read (`Windows`).
- **StintsAreHistory**: `StintsAreRuns`, for at most one process; a second one may
  commit a sighting older than the last, and `last_seen` goes back (section 3).
  `AfterGap` and `WithinStale` say what one more sighting does to the stints of
  a set of sightings, `OpenIsLatest` that the statement extends the row of the
  latest sighting and no other.  Both need that rows of one vehicle begin at
  different times (`Single`) and that the latest sighting has a row
  (`Remembered`).

`DeliveryProofs` proves **HealthyDelivers**: `HealthySinkDelivers`, for any sinks
and notifications.  `Excuses` says of every delivery that is out, has failed or
was never made what its excuse is, and `Order` that nothing is handed out before
the sinks are set up and nothing is held once they are closed.

`LookupsProofs` proves all six of Lookups, for any fleet on the line, any fences,
cap, reach and preferences.  The assumptions say that the fleet is finite, since
the middle of the fences is a sum and an answer is cut by number, and that a
probe asks for no more vehicles than the API sends (ten of five hundred,
`internal/poll/poll.go:59`).  The invariant says where each number came from: a
reply from the query that serves its fence (`Replied`), counts and readings from
a reply (`Counted`), a board from a result of its query (`Told`), a baseline
from one of its own (`Armed`).  The rest is about the operators:

- `SentIs` and `UncutIsWhole`: what is left out of an answer is no nearer than
  what is in it, and an answer that was not cut is the only one there can be.
- **NothingIsOverlooked**: `NothingOverlooked`.  `Covered`: the query that serves
  a fence reaches all of it (`BoundingRadiusBounds`, and the triangle inequality
  in n-fold metres, `Reaches`), although its radius is rounded.
- **ReadingsAreRight**: `ReadingsAreTrue`.  `Probed`: the nearest of an operator
  is in the answer, or everything in it is nearer and cannot be rented.  The
  proof found the property too strong as it was stated before: nothing keeps a
  fence from being wider than `ReachM`, and its reading may then be of a vehicle
  beyond the reach.  The run has such a fence now.
- **BoardAndTickAgree**: `BoardAgreesWithTick`, since both counts are of a whole
  answer.
- **ParkedFleetIsQuiet**: `ParkedFleetFiresNothing`, since whatever matches was
  in the baseline if it matched then.
- **BoardLeavesNothingBetterOut**: `NothingBetterLeftOut`, also of answers that
  were cut.  `NearerScoresMore`: score, penalty and rounding keep the order of
  what dominates; `Listed`: a ranking leaves nobody out.
- **BoardKeepsTheGap**: `BrandHolds`.  `GapHolds`: cutting toward zero moves a
  score by less than a tenth, two scores differ by less than two tenths more or
  less than they should, and distances are whole.

Extremes and sums over finite sets (`Largest`, `SumsExist`) are proved by descent
through the subsets, which are well-founded, since the induction rule for finite
sets takes an operator the provers cannot instantiate.

Every safety property of the passing runs, action properties and refinements
included, is proved.  Only model-checked is liveness, which like everything under
fairness is out of the prover's reach: `EveryWatchRetires`, `Stops`, `Ends`,
`KeepsTicking`, `StreamEnds`, `Exits`.  What a proof assumes of `Env` or of the
processes stands in its theorem, and why above.

## 5. Not modelled

- Distances and bearings in the core: places do not overlap, and whether fences
  share a query is the constant `OneCircle`.  Two fences at one place are
  possible.  Lookups has distances, on a line: the sphere, and with it the error
  of a centroid taken in degrees, is left out.
- Truncation in the core; Lookups has it.
- The goroutine that waits for the token of an MQTT message.
- `NearestHistory`, `Samples` and `Events`, which only answer a query; the rows
  of the status page.
- cors, authentication and configuration: they look at one request, or at the
  environment once, and keep nothing.  `scootless.py` and `scoot-watch.py` share
  no state with the daemon.
- Payloads, wording and parsing: they decide nothing that the properties are
  about.
- Arbitrary database errors.  The causes modelled are a cancelled context, a
  violated foreign key, and, with a second process, a transaction that read
  before the other one wrote.
- A stop of the Go runtime in the middle of a statement other than as a crash
  before or after it.

## 6. Plan

Done: the watch core (World, Store, Poller, Api, Scootlessd, WatchBook) with its
theorems; FeedHealth, Presence with a consumer, Delivery from start to stop,
Cadence and Track, each with theorems; Lookups (Upstream, Coalesce, Board).

All safety properties of these are proved.  What is left is to say more than the
runs do: `StintsAreRuns` for several processes whose ticks commit in the order of
their times, and `MissesNothing` beside a `-once` run; that a tick of Coalesce
and Lookups returns answers of the kind the core takes for granted (`Answers`),
so that the promises of the core hold of distances too; and the statements that
the liveness runs rest on, one step at a time, without fairness (no watch ever
leaves the end it reached, a time limit never grows).
