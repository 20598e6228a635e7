-------------------------- MODULE ScootlessdProofs --------------------------
(***************************************************************************)
(* Scootlessd for every value of its constants: the types, the promises of *)
(* WatchBook, what foreign keys add to them, and what a whole tick does.   *)
(***************************************************************************)
EXTENDS Scootlessd, TLAPS, FiniteSetTheorems

(* Every statement that writes leaves tables of the declared types: a      *)
(* method of internal/store never leaves a watch without its columns.      *)
LEMMA SaveFenceTypes ==
  ASSUME StoreTypeOK, NEW f \in Fences, NEW place \in Places,
         SaveFence(f, place), fk' \in [Processes -> BOOLEAN]
  PROVE  StoreTypeOK'
BY DEF StoreTypeOK, SaveFence, watchVars

(* The observation rows of a tick: recordFence and recordNearest.          *)
LEMMA ObserveTypes ==
  ASSUME StoreTypeOK, NEW f \in Fences, NEW g \in Nat, Observe(f, g)
  PROVE  StoreTypeOK'
BY DEF StoreTypeOK, Observe, watchVars

(* The insert of createWatch gives the watch its row.                      *)
LEMMA CreateWatchTypes ==
  ASSUME StoreTypeOK, NEW w \in Watches, NEW r \in Row, CreateWatch(w, r)
  PROVE  StoreTypeOK'
BY DEF StoreTypeOK, CreateWatch, fenceVars, States

(* MarkFired counts a fire and keeps the state among the known ones.       *)
LEMMA MarkFiredTypes ==
  ASSUME StoreTypeOK, NEW w \in Watches, NEW now \in Int, MarkFired(w, now)
  PROVE  StoreTypeOK'
BY DEF StoreTypeOK, MarkFired, fenceVars, States

(* An update of states touches only watches that have a row.               *)
LEMMA SetStatesTypes ==
  ASSUME StoreTypeOK, NEW ws \in SUBSET Watches, NEW st \in States,
         SetStates(ws, st), \A w \in ws : wstate[w] # "absent"
  PROVE  StoreTypeOK'
BY DEF StoreTypeOK, SetStates, fenceVars

(* RecordEvent adds one event row.                                         *)
LEMMA RecordEventTypes ==
  ASSUME StoreTypeOK, NEW w \in Watches, RecordEvent(w)
  PROVE  StoreTypeOK'
BY DEF StoreTypeOK, RecordEvent, fenceVars

(* DeleteFence removes the rows of a fence from every table.               *)
LEMMA DeleteFenceTypes ==
  ASSUME StoreTypeOK, NEW p, NEW f \in Fences, DeleteFence(p, f)
  PROVE  StoreTypeOK'
<1>1. wstate' \in [Watches -> States]
  BY DEF StoreTypeOK, DeleteFence, States
<1>2. \A w \in Watches : wstate'[w] # "absent" => row[w] \in Row
  BY DEF StoreTypeOK, DeleteFence, WatchesOf, Stored
<1>3. QED
  BY <1>1, <1>2 DEF StoreTypeOK, DeleteFence

-----------------------------------------------------------------------------
(* The assumptions of the modules, together.                               *)
LEMMA Assumptions ==
  /\ Elsewhere \notin Places /\ MaxClock \in Nat
  /\ NoPlace \notin Places /\ IsFiniteSet(Processes)
  /\ Daemon \in Processes /\ Home \in Fences /\ HomePlace \in Places
  /\ NoWatch \notin Watches
  /\ Requests \subseteq Request /\ Sites \in [Fences -> SUBSET Places]
  /\ Server = Daemon
BY WorldAssumption, StoreAssumption, PollerAssumption, ApiAssumption,
   ScootlessdAssumption

-----------------------------------------------------------------------------
(* The tick of a process: what its steps do to its own variables.          *)
LEMMA BlankIsTick == \A at \in Int : BlankTick(at) \in Tick
BY DEF BlankTick, Tick

(* Leaving a tick, by any return of Tick, forgets all of it but its time.  *)
LEMMA ReturnTypes ==
  ASSUME PollerTypeOK, NEW p \in Processes, Return(p)
  PROVE  PollerTypeOK'
<1>1. tick[p].at \in Int
  BY DEF PollerTypeOK, Tick
<1>2. tick' \in [Processes -> Tick]
  BY <1>1, BlankIsTick DEF Return, PollerTypeOK
<1>3. pc' \in [Processes -> PCs] /\ firing' \in [Processes -> Watches \cup {NoWatch}]
  BY DEF Return, PollerTypeOK, Goto, PCs
<1>4. \A q \in Processes : pc'[q] = "event" <=> firing'[q] \in Watches
  BY Assumptions DEF Return, PollerTypeOK, Goto
<1>5. QED
  BY <1>2, <1>3, <1>4 DEF PollerTypeOK, Return

(* Evaluating a watch takes it off the list of the fence.                  *)
LEMMA DropTypes ==
  ASSUME PollerTypeOK, NEW p \in Processes, NEW w \in Watches, Drop(p, w)
  PROVE  tick' \in [Processes -> Tick]
<1>1. tick[p] \in Tick
  BY DEF PollerTypeOK
<1>2. [tick[p] EXCEPT !.job = @ \ {w}] \in Tick
  BY <1>1 DEF Tick
<1>3. tick' = [tick EXCEPT ![p] = [tick[p] EXCEPT !.job = @ \ {w}]]
  BY DEF Drop
<1>4. QED
  BY <1>2, <1>3 DEF PollerTypeOK

(* An answered query only moves fences between the sets of the tick.       *)
LEMMA AnsweredTypes ==
  ASSUME PollerTypeOK, NEW p \in Processes, NEW g \in SUBSET Fences,
         NEW served \in SUBSET Fences, NEW seen \in [g -> SUBSET Vehicles],
         pc[p] = "fetch", Answered(p, g, served, seen)
  PROVE  PollerTypeOK'
<1> DEFINE t == [tick[p] EXCEPT
                   !.waiting = @ \ g, !.todo = @ \cup served,
                   !.got = [f \in Fences |-> IF f \in g THEN seen[f] ELSE @[f]]]
<1>1. tick[p] \in Tick
  BY DEF PollerTypeOK
<1>2. t \in Tick
  BY <1>1 DEF Tick
<1>3. tick' = [tick EXCEPT ![p] = t]
  BY DEF Answered
<1>4. tick' \in [Processes -> Tick]
  BY <1>2, <1>3 DEF PollerTypeOK
<1>5. QED
  BY <1>4 DEF PollerTypeOK, Answered, Goto, PCs

(* The queries of a tick are about fences that exist.                      *)
LEMMA GroupsAreFences ==
  \A p \in Processes : \A g \in Groups(p) : g \subseteq Fences
BY DEF Groups, Snapped

-----------------------------------------------------------------------------
(* No step of another component touches the variables of one.              *)
LEMMA WorldUnchanged == WorldTypeOK /\ UNCHANGED worldVars => WorldTypeOK'
BY DEF WorldTypeOK, worldVars

(* The tables.                                                             *)
LEMMA StoreUnchanged == StoreTypeOK /\ UNCHANGED storeVars => StoreTypeOK'
BY DEF StoreTypeOK, storeVars, fenceVars, watchVars

(* The ticks.                                                              *)
LEMMA PollerUnchanged == PollerTypeOK /\ UNCHANGED pollVars => PollerTypeOK'
BY DEF PollerTypeOK, pollVars

(* The requests in progress.                                               *)
LEMMA ApiUnchanged == ApiTypeOK /\ UNCHANGED call => ApiTypeOK'
BY DEF ApiTypeOK

(* Every step of a tick keeps the types, the successful ones and the ones  *)
(* that return an error alike.                                             *)
LEMMA TickTypes ==
  ASSUME TypeOK, NEW p \in Processes, TickStep(p)
  PROVE  WorldTypeOK' /\ StoreTypeOK' /\ PollerTypeOK'
<1> USE DEF TypeOK
<1>0. tick[p] \in Tick
  BY DEF PollerTypeOK
<1>1. CASE BeginTick(p)
  <2>1. clock \in Int
    BY DEF WorldTypeOK
  <2>2. StoreTypeOK'
    <3> DEFINE ws == {w \in Watches : wstate[w] = "armed" /\ row[w].expires <= clock}
    <3>1. SetStates(ws, "expired")
      BY <1>1 DEF BeginTick, ExpireWatches
    <3>2. \A w \in ws : wstate[w] # "absent"
      OBVIOUS
    <3>3. ws \in SUBSET Watches
      OBVIOUS
    <3> HIDE DEF ws
    <3>4. QED
      BY <3>1, <3>2, <3>3, SetStatesTypes DEF States
  <2>3. tick' \in [Processes -> Tick]
    BY <1>1, <2>1, BlankIsTick DEF BeginTick, PollerTypeOK
  <2>4. PollerTypeOK'
    BY <1>1, <2>3 DEF BeginTick, PollerTypeOK, At, Goto, PCs
  <2>5. QED
    BY <1>1, <2>2, <2>4, WorldUnchanged DEF BeginTick
<1>2. CASE LoadFences(p)
  <2> DEFINE t == [tick[p] EXCEPT !.snap = fence, !.gen = gen]
  <2>1. t \in Tick
    BY <1>0 DEF Tick, StoreTypeOK
  <2>2. tick' = [tick EXCEPT ![p] = t]
    BY <1>2 DEF LoadFences
  <2>3. tick' \in [Processes -> Tick]
    BY <2>1, <2>2 DEF PollerTypeOK
  <2>4. PollerTypeOK'
    BY <1>2, <2>3 DEF LoadFences, PollerTypeOK, At, Goto, PCs
  <2>5. QED
    BY <1>2, <2>4, WorldUnchanged, StoreUnchanged DEF LoadFences
<1>3. CASE LoadWatches(p)
  <2> DEFINE t == [tick[p] EXCEPT !.armed = ArmedWatches(tick[p].at),
                                  !.waiting = Snapped(p)]
  <2>1. ArmedWatches(tick[p].at) \in SUBSET Watches /\ Snapped(p) \in SUBSET Fences
    BY DEF ArmedWatches, Snapped
  <2>2. t \in Tick
    BY <1>0, <2>1 DEF Tick
  <2>3. tick' = [tick EXCEPT ![p] = t]
    BY <1>3 DEF LoadWatches
  <2>4. tick' \in [Processes -> Tick]
    BY <2>2, <2>3 DEF PollerTypeOK
  <2>5. PollerTypeOK'
    BY <1>3, <2>4 DEF LoadWatches, PollerTypeOK, At, Goto, PCs
  <2>6. QED
    BY <1>3, <2>5, WorldUnchanged, StoreUnchanged DEF LoadWatches
<1>4. ASSUME NEW g \in Groups(p), FetchGroup(p, g) \/ FetchFails(p, g)
      PROVE  WorldTypeOK' /\ StoreTypeOK' /\ PollerTypeOK'
  <2>1. g \in SUBSET Fences
    BY GroupsAreFences
  <2>2. PICK served \in SUBSET Fences, seen \in [g -> SUBSET Vehicles] :
           Answered(p, g, served, seen)
    <3>1. CASE FetchGroup(p, g)
      <4>1. PICK a \in Answers(PlacesOf(p, g)) :
               Answered(p, g, g, [f \in g |-> {v \in a : pos[v] = tick[p].snap[f]}])
        BY <3>1 DEF FetchGroup
      <4>2. a \subseteq Vehicles
        BY DEF Answers
      <4>3. QED
        BY <2>1, <4>1, <4>2
    <3>2. CASE FetchFails(p, g)
      BY <2>1, <3>2 DEF FetchFails
    <3>3. QED
      BY <1>4, <3>1, <3>2
  <2>3. pc[p] = "fetch"
    BY <1>4 DEF FetchGroup, FetchFails, At
  <2>4. PollerTypeOK'
    BY <2>1, <2>2, <2>3, AnsweredTypes
  <2>5. UNCHANGED <<worldVars, storeVars>>
    BY <2>2 DEF Answered
  <2>6. QED
    BY <2>4, <2>5, WorldUnchanged, StoreUnchanged
<1>5. ASSUME NEW f \in Fences, RecordFence(p, f)
      PROVE  WorldTypeOK' /\ StoreTypeOK' /\ PollerTypeOK'
  <2> DEFINE job == {w \in tick[p].armed : row[w].fence = f}
             t == [tick[p] EXCEPT !.todo = @ \ {f}, !.job = job]
  <2>1. tick[p].gen[f] \in Nat /\ job \in SUBSET Watches
    BY <1>0 DEF Tick
  <2>2. StoreTypeOK'
    BY <1>5, <2>1, ObserveTypes DEF RecordFence
  <2>3. tick' = [tick EXCEPT ![p] = t]
    BY <1>5 DEF RecordFence
  <2> HIDE DEF job
  <2>4. t \in Tick
    BY <1>0, <2>1 DEF Tick
  <2>5. tick' \in [Processes -> Tick]
    BY <2>3, <2>4 DEF PollerTypeOK
  <2>6. PollerTypeOK'
    BY <1>5, <2>5 DEF RecordFence, PollerTypeOK
  <2>7. QED
    BY <1>5, <2>2, <2>6, WorldUnchanged DEF RecordFence
<1>6. ASSUME NEW w \in Watches, Pass(p, w) \/ HoldBack(p, w)
      PROVE  WorldTypeOK' /\ StoreTypeOK' /\ PollerTypeOK'
  <2>1. Drop(p, w) /\ UNCHANGED <<worldVars, storeVars, pc, live, firing>>
    BY <1>6 DEF Pass, HoldBack
  <2>2. tick' \in [Processes -> Tick]
    BY <2>1, DropTypes
  <2>3. PollerTypeOK'
    BY <2>1, <2>2 DEF PollerTypeOK
  <2>4. QED
    BY <2>1, <2>3, WorldUnchanged, StoreUnchanged
<1>7. ASSUME NEW w \in Watches, Fire(p, w)
      PROVE  WorldTypeOK' /\ StoreTypeOK' /\ PollerTypeOK'
  <2>1. tick[p].at \in Int
    BY <1>0 DEF Tick
  <2>2. StoreTypeOK'
    BY <1>7, <2>1, MarkFiredTypes DEF Fire
  <2>3. tick' \in [Processes -> Tick]
    BY <1>7, DropTypes DEF Fire
  <2>4. PollerTypeOK'
    BY <1>7, <2>3 DEF Fire, PollerTypeOK, Goto, PCs
  <2>5. QED
    BY <1>7, <2>2, <2>4, WorldUnchanged DEF Fire
<1>8. CASE Report(p)
  <2>1. firing[p] \in Watches
    BY <1>8 DEF Report, At, PollerTypeOK
  <2>2. StoreTypeOK'
    BY <1>8, <2>1, RecordEventTypes DEF Report
  <2>3. PollerTypeOK'
    BY <1>8, Assumptions DEF Report, PollerTypeOK, Goto, PCs
  <2>4. QED
    BY <1>8, <2>2, <2>3, WorldUnchanged DEF Report
<1>9. CASE Return(p) /\ UNCHANGED <<worldVars, storeVars>>
  BY <1>9, ReturnTypes, WorldUnchanged, StoreUnchanged
<1>10. QED
  BY <1>1, <1>2, <1>3, <1>4, <1>5, <1>6, <1>7, <1>8, <1>9
     DEF TickStep, NoFences, RecordFails, ReportFails, EndTick, Cancelled

(* So do starting, stopping and dying.                                     *)
LEMMA ProcessTypes ==
  ASSUME TypeOK, NEW p \in Processes, ProcessStep(p)
  PROVE  WorldTypeOK' /\ StoreTypeOK' /\ PollerTypeOK'
<1> USE DEF TypeOK
<1>1. CASE Start(p)
  <2>1. fk' \in [Processes -> BOOLEAN]
    BY <1>1 DEF Start, Open, StoreTypeOK
  <2>2. StoreTypeOK'
    BY <1>1, <2>1, SaveFenceTypes, Assumptions DEF Start
  <2>3. PollerTypeOK'
    BY <1>1 DEF Start, PollerTypeOK, Goto, PCs
  <2>4. QED
    BY <1>1, <2>2, <2>3, WorldUnchanged DEF Start
<1>2. CASE Sigterm(p)
  <2>1. PollerTypeOK'
    BY <1>2 DEF Sigterm, PollerTypeOK
  <2>2. QED
    BY <1>2, <2>1, WorldUnchanged, StoreUnchanged DEF Sigterm
<1>3. CASE Exit(p)
  <2>1. PollerTypeOK'
    BY <1>3 DEF Exit, PollerTypeOK, Goto, PCs
  <2>2. QED
    BY <1>3, <2>1, WorldUnchanged, StoreUnchanged DEF Exit
<1>4. CASE Crash(p)
  <2>1. tick[p].at \in Int
    BY DEF PollerTypeOK, Tick
  <2>2. tick' \in [Processes -> Tick]
    BY <1>4, <2>1, BlankIsTick DEF Crash, PollerTypeOK
  <2>3. PollerTypeOK'
    BY <1>4, <2>2, Assumptions DEF Crash, PollerTypeOK, Goto, PCs
  <2>4. QED
    BY <1>4, <2>3, WorldUnchanged, StoreUnchanged DEF Crash
<1>5. CASE LoseConnection(p)
  <2>1. StoreTypeOK'
    BY <1>5 DEF LoseConnection, Reconnect, StoreTypeOK, fenceVars, watchVars
  <2>2. QED
    BY <1>5, <2>1, WorldUnchanged, PollerUnchanged DEF LoseConnection
<1>6. QED
  BY <1>1, <1>2, <1>3, <1>4, <1>5 DEF ProcessStep

(* And every step of createWatch.                                          *)
LEMMA CreateWatchCallTypes ==
  ASSUME TypeOK, NEW c \in Clients, createWatch(c)
  PROVE  WorldTypeOK' /\ StoreTypeOK' /\ ApiTypeOK'
<1> USE DEF TypeOK
<1>0. call[c] \in CallType
  BY DEF ApiTypeOK
<1>1. ASSUME NEW r \in Requests, NEW f \in Fences, resolveNamed(c, f, r)
      PROVE  WorldTypeOK' /\ StoreTypeOK' /\ ApiTypeOK'
  <2>1. fence[f] \in Places /\ r \in Request
    BY <1>1, Assumptions DEF resolveNamed, Exists, StoreTypeOK
  <2>2. ApiTypeOK'
    BY <1>1, <2>1 DEF resolveNamed, SetCall, ApiTypeOK, CallType
  <2>3. QED
    BY <1>1, <2>2, WorldUnchanged, StoreUnchanged DEF resolveNamed
<1>2. ASSUME NEW r \in Requests, NEW f \in Fences, NEW place \in Sites[f],
             resolveHere(c, f, place, r)
      PROVE  WorldTypeOK' /\ StoreTypeOK' /\ ApiTypeOK'
  <2>1. place \in Places /\ r \in Request
    BY Assumptions
  <2>2. ApiTypeOK'
    BY <1>2, <2>1 DEF resolveHere, SetCall, ApiTypeOK, CallType
  <2>3. StoreTypeOK'
    BY <1>2, <2>1, SaveFenceTypes DEF resolveHere, StoreTypeOK
  <2>4. QED
    BY <1>2, <2>2, <2>3, WorldUnchanged DEF resolveHere
<1>3. ASSUME NEW w \in Watches, readBaseline(c, w)
      PROVE  WorldTypeOK' /\ StoreTypeOK' /\ ApiTypeOK'
  <2>1. call[c] \in [stage: {"resolved"}, fence: Fences, place: Places, req: Requests]
    BY <1>0, <1>3 DEF readBaseline, CallType, NoCall
  <2>2. PICK seen \in Answers({call[c].place}) :
           SetCall(c, [stage |-> "ready", fence |-> call[c].fence,
                       req |-> call[c].req, watch |-> w,
                       baseline |-> seen \cap call[c].req.wants])
    BY <1>3 DEF readBaseline
  <2>3. seen \subseteq Vehicles
    BY DEF Answers
  <2>4. ApiTypeOK'
    BY <2>1, <2>2, <2>3 DEF SetCall, ApiTypeOK, CallType
  <2>5. WorldTypeOK'
    BY <1>3 DEF readBaseline, WorldTypeOK
  <2>6. QED
    BY <1>3, <2>4, <2>5, StoreUnchanged DEF readBaseline
<1>4. CASE insertWatch(c)
  <2>1. call[c] \in [stage: {"ready"}, fence: Fences, req: Requests,
                     watch: Watches, baseline: SUBSET Vehicles]
    BY <1>0, <1>4 DEF insertWatch, CallType, NoCall
  <2>2. call[c].req \in Request
    BY <2>1, Assumptions
  <2>3. clock \in Int
    BY DEF WorldTypeOK
  <2>4. NewRow(c) \in Row
    BY <2>1, <2>2, <2>3 DEF NewRow, Row, Request
  <2>5. StoreTypeOK'
    BY <1>4, <2>1, <2>4, CreateWatchTypes DEF insertWatch
  <2>6. ApiTypeOK'
    BY <1>4 DEF insertWatch, SetCall, ApiTypeOK, CallType
  <2>7. QED
    BY <1>4, <2>5, <2>6, WorldUnchanged DEF insertWatch
<1>5. CASE requestFails(c)
  <2>1. ApiTypeOK'
    BY <1>5 DEF requestFails, SetCall, ApiTypeOK, CallType
  <2>2. QED
    BY <1>5, <2>1, WorldUnchanged, StoreUnchanged DEF requestFails
<1>6. QED
  BY <1>1, <1>2, <1>3, <1>4, <1>5 DEF createWatch

(* And the handlers that are one call of the store.                        *)
LEMMA HandlerTypes ==
  ASSUME TypeOK, Handler
  PROVE  WorldTypeOK' /\ StoreTypeOK' /\ ApiTypeOK'
<1> USE DEF TypeOK
<1>1. ASSUME NEW f \in Fences, NEW place \in Places, createFence(f, place)
      PROVE  WorldTypeOK' /\ StoreTypeOK' /\ ApiTypeOK'
  BY <1>1, SaveFenceTypes, WorldUnchanged, ApiUnchanged DEF createFence, StoreTypeOK
<1>2. ASSUME NEW f \in Fences, deleteFence(f)
      PROVE  WorldTypeOK' /\ StoreTypeOK' /\ ApiTypeOK'
  BY <1>2, DeleteFenceTypes, WorldUnchanged, ApiUnchanged DEF deleteFence
<1>3. ASSUME NEW w \in Watches, cancelWatch(w)
      PROVE  WorldTypeOK' /\ StoreTypeOK' /\ ApiTypeOK'
  <2>1. SetStates({w}, "cancelled") /\ wstate[w] # "absent"
    BY <1>3 DEF cancelWatch, SetState, Stored
  <2>2. StoreTypeOK'
    BY <2>1, SetStatesTypes DEF States
  <2>3. QED
    BY <1>3, <2>2, WorldUnchanged, ApiUnchanged DEF cancelWatch
<1>4. ASSUME NEW ds, cancelAllWatches(ds)
      PROVE  WorldTypeOK' /\ StoreTypeOK' /\ ApiTypeOK'
  <2> DEFINE ws == {w \in Watches : wstate[w] = "armed" /\ row[w].device \in ds}
  <2>1. SetStates(ws, "cancelled")
    BY <1>4 DEF cancelAllWatches, CancelArmed
  <2>2. ws \in SUBSET Watches /\ \A w \in ws : wstate[w] # "absent"
    OBVIOUS
  <2> HIDE DEF ws
  <2>3. StoreTypeOK'
    BY <2>1, <2>2, SetStatesTypes DEF States
  <2>4. QED
    BY <1>4, <2>3, WorldUnchanged, ApiUnchanged DEF cancelAllWatches
<1>5. QED
  BY <1>1, <1>2, <1>3, <1>4, CreateWatchCallTypes DEF Handler

(* The clock and the vehicles.                                             *)
LEMMA EnvironmentTypes ==
  ASSUME TypeOK, Environment
  PROVE  WorldTypeOK'
BY Assumptions DEF TypeOK, WorldTypeOK, Environment, ClockTick, Move

(* Requests in progress end with the daemon, and are untouched by the      *)
(* other steps of a process.                                               *)
LEMMA HangUpTypes ==
  ASSUME TypeOK, NEW p \in Processes, HangUp(p)
  PROVE  ApiTypeOK'
BY DEF TypeOK, HangUp, ApiTypeOK, CallType

(* Every table is empty and every process down to begin with.              *)
LEMMA InitTypes == Init => TypeOK
<1> SUFFICES ASSUME Init PROVE TypeOK
  OBVIOUS
<1>1. WorldTypeOK
  BY Assumptions DEF Init, WorldInit, WorldTypeOK
<1>2. StoreTypeOK
  BY DEF Init, StoreInit, StoreTypeOK, States
<1>3. PollerTypeOK
  BY Assumptions, BlankIsTick DEF Init, PollerInit, PollerTypeOK, PCs
<1>4. ApiTypeOK
  BY DEF Init, ApiInit, ApiTypeOK, CallType
<1>5. QED
  BY <1>1, <1>2, <1>3, <1>4 DEF TypeOK

(* The steps together.                                                     *)
LEMMA TypeStep ==
  ASSUME TypeOK, [Next]_vars
  PROVE  TypeOK'
<1> USE DEF TypeOK
<1>1. CASE World
  BY <1>1, EnvironmentTypes, StoreUnchanged, PollerUnchanged, ApiUnchanged DEF World
<1>2. CASE Serve
  BY <1>2, HandlerTypes, PollerUnchanged DEF Serve
<1>3. ASSUME NEW p \in Processes, Poll(p) PROVE TypeOK'
  BY <1>3, TickTypes, HangUpTypes DEF Poll
<1>4. ASSUME NEW p \in Processes, Run(p) PROVE TypeOK'
  BY <1>4, ProcessTypes, HangUpTypes DEF Run
<1>5. CASE UNCHANGED vars
  BY <1>5, WorldUnchanged, StoreUnchanged, PollerUnchanged, ApiUnchanged DEF vars
<1>6. QED
  BY <1>1, <1>2, <1>3, <1>4, <1>5 DEF Next

(* Type correctness: whatever interleaving of processes, handlers and      *)
(* world, no table and no variable leaves its type; in particular a watch  *)
(* that was ever inserted keeps its columns, and a process reports a watch *)
(* exactly between its MarkFired and its RecordEvent.                      *)
THEOREM TypeCorrect == Safe => []TypeOK
BY InitTypes, TypeStep, PTL DEF Safe

-----------------------------------------------------------------------------
(* What a step can do to the watches.  Everything below follows from this  *)
(* list and not from the actions again.                                    *)
NoNewFire == \A q \in Processes : firing'[q] \in {firing[q], NoWatch}

Quiet == UNCHANGED watchVars /\ NoNewFire

Fired == \E p \in Processes, w \in Watches : Fire(p, w)

Reported == \E p \in Processes : Report(p)

Inserted == \E c \in Clients : insertWatch(c) /\ UNCHANGED firing

Moved(ws, to) ==
  /\ wstate' = [w \in Watches |-> IF w \in ws THEN to ELSE wstate[w]]
  /\ UNCHANGED <<row, events, fires, firing>>

Ended ==
  \E ws \in SUBSET Watches :
    \/ Moved(ws, "expired") /\ \A w \in ws : wstate[w] = "armed"
    \/ Moved(ws, "cancelled") /\ \A w \in ws : Stored(w)
    \/ Moved(ws, "deleted") /\ \A w \in ws : Stored(w) /\ wstate[w] # "armed"

(* Every step of the daemon is one of those five.                          *)
LEMMA StepEffects ==
  ASSUME TypeOK, [Next]_vars
  PROVE  Quiet \/ Fired \/ Reported \/ Inserted \/ Ended
<1>1. CASE World
  BY <1>1 DEF World, Quiet, NoNewFire, storeVars, pollVars
<1>2. CASE Serve
  <2>1. UNCHANGED firing /\ Handler
    BY <1>2 DEF Serve, pollVars
  <2>2. ASSUME NEW c \in Clients, createWatch(c) PROVE Quiet \/ Inserted
    BY <2>1, <2>2
       DEF createWatch, resolveNamed, resolveHere, readBaseline, requestFails,
           SaveFence, Quiet, NoNewFire, Inserted, storeVars
  <2>3. ASSUME NEW f \in Fences, NEW place \in Places, createFence(f, place)
        PROVE  Quiet
    BY <2>1, <2>3 DEF createFence, SaveFence, Quiet, NoNewFire
  <2>4. ASSUME NEW f \in Fences, deleteFence(f) PROVE Ended
    <3>1. Moved(WatchesOf(f), "deleted")
      BY <2>1, <2>4 DEF deleteFence, DeleteFence, Moved
    <3>2. \A w \in WatchesOf(f) : Stored(w) /\ wstate[w] # "armed"
      BY <2>4 DEF deleteFence, DeleteFence, DeleteOutcome, WatchesOf
    <3>3. WatchesOf(f) \in SUBSET Watches
      BY DEF WatchesOf
    <3>4. QED
      BY <3>1, <3>2, <3>3 DEF Ended
  <2>5. ASSUME NEW w \in Watches, cancelWatch(w) PROVE Ended
    <3>1. Moved({w}, "cancelled") /\ Stored(w)
      BY <2>1, <2>5 DEF cancelWatch, SetState, SetStates, Moved
    <3>2. QED
      BY <3>1 DEF Ended
  <2>6. ASSUME NEW ds, cancelAllWatches(ds) PROVE Ended
    <3> DEFINE ws == {w \in Watches : wstate[w] = "armed" /\ row[w].device \in ds}
    <3>1. Moved(ws, "cancelled")
      BY <2>1, <2>6 DEF cancelAllWatches, CancelArmed, SetStates, Moved
    <3>2. ws \in SUBSET Watches /\ \A w \in ws : Stored(w)
      BY DEF Stored
    <3>3. QED
      BY <3>1, <3>2 DEF Ended
  <2>7. QED
    BY <2>1, <2>2, <2>3, <2>4, <2>5, <2>6 DEF Handler
<1>3. ASSUME NEW p \in Processes, TickStep(p)
      PROVE  Quiet \/ Fired \/ Reported \/ Ended
  <2>1. CASE BeginTick(p)
    <3> DEFINE ws == {w \in Watches : wstate[w] = "armed" /\ row[w].expires <= clock}
    <3>1. Moved(ws, "expired")
      BY <2>1 DEF BeginTick, ExpireWatches, SetStates, Moved
    <3>2. ws \in SUBSET Watches /\ \A w \in ws : wstate[w] = "armed"
      OBVIOUS
    <3>3. QED
      BY <3>1, <3>2 DEF Ended
  <2>2. CASE Return(p) /\ UNCHANGED storeVars
    BY <2>2 DEF Return, Quiet, NoNewFire, storeVars, TypeOK, PollerTypeOK
  <2>3. ASSUME NEW g \in Groups(p), FetchGroup(p, g) \/ FetchFails(p, g)
        PROVE  Quiet
    BY <2>3 DEF FetchGroup, FetchFails, Answered, Quiet, NoNewFire, storeVars
  <2>4. ASSUME NEW f \in Fences, RecordFence(p, f) PROVE Quiet
    BY <2>4 DEF RecordFence, Observe, Quiet, NoNewFire
  <2>5. ASSUME NEW w \in Watches, Pass(p, w) \/ HoldBack(p, w) PROVE Quiet
    BY <2>5 DEF Pass, HoldBack, Quiet, NoNewFire, storeVars
  <2>6. CASE LoadFences(p) \/ LoadWatches(p)
    BY <2>6 DEF LoadFences, LoadWatches, Quiet, NoNewFire, storeVars
  <2>7. QED
    BY <1>3, <2>1, <2>2, <2>3, <2>4, <2>5, <2>6
       DEF TickStep, NoFences, RecordFails, ReportFails, EndTick, Cancelled,
           Fired, Reported
<1>4. ASSUME NEW p \in Processes, ProcessStep(p) PROVE Quiet
  BY <1>4 DEF ProcessStep, Start, SaveFence, Sigterm, Exit, Crash, LoseConnection,
              Reconnect, Quiet, NoNewFire, storeVars, pollVars, TypeOK, PollerTypeOK
<1>5. CASE UNCHANGED vars
  BY <1>5 DEF vars, Quiet, NoNewFire, storeVars, pollVars
<1>6. QED
  BY <1>1, <1>2, <1>3, <1>4, <1>5 DEF Next, Poll, Run

-----------------------------------------------------------------------------
(* An id drawn by a request belongs to no watch yet, and to no other       *)
(* request: what makes the insert of createWatch the only way to be armed. *)
DrawnOnce ==
  \A c \in Clients : call[c].stage = "ready" =>
    /\ wstate[call[c].watch] = "absent"
    /\ \A d \in Clients \ {c} :
         call[d].stage = "ready" => call[d].watch # call[c].watch

(* No step brings back a watch, and only insertWatch takes one from absent.*)
LEMMA AbsentStays ==
  ASSUME TypeOK, [Next]_vars, NEW w \in Watches, wstate[w] = "absent",
         wstate'[w] # "absent"
  PROVE  \E c \in Clients : insertWatch(c) /\ call[c].watch = w
<1>1. ~Quiet /\ ~Reported
  BY DEF Quiet, watchVars, Reported, Report, RecordEvent
<1>2. ~Fired
  BY DEF Fired, Fire, MarkFired, TypeOK, StoreTypeOK
<1>3. ~Ended
  BY DEF Ended, Moved, Stored
<1>4. QED
  BY <1>1, <1>2, <1>3, StepEffects
     DEF Inserted, insertWatch, CreateWatch, TypeOK, StoreTypeOK

(* An id stays drawn once.                                                 *)
LEMMA DrawnStep ==
  ASSUME TypeOK, DrawnOnce, [Next]_vars
  PROVE  DrawnOnce'
<1> SUFFICES ASSUME NEW c \in Clients, call'[c].stage = "ready"
             PROVE  /\ wstate'[call'[c].watch] = "absent"
                    /\ \A d \in Clients \ {c} :
                         call'[d].stage = "ready" => call'[d].watch # call'[c].watch
  BY DEF DrawnOnce
<1>0. /\ call \in [Clients -> CallType]
      /\ \A d \in Clients : call[d].stage = "ready" => call[d].watch \in Watches
  <2>1. call \in [Clients -> CallType]
    BY DEF TypeOK, ApiTypeOK
  <2>2. QED
    BY <2>1 DEF CallType, NoCall
<1>1. CASE \E d \in Clients, w \in Watches : readBaseline(d, w)
  <2>1. PICK d \in Clients, w \in Watches : readBaseline(d, w)
    BY <1>1
  <2>2. /\ call' = [call EXCEPT ![d] = call'[d]]
        /\ call'[d].stage = "ready" /\ call'[d].watch = w
        /\ wstate' = wstate
    BY <1>0, <2>1 DEF readBaseline, SetCall, storeVars, watchVars
  <2>3. wstate[w] = "absent"
        /\ \A e \in Clients : call[e].stage = "ready" => call[e].watch # w
    BY <2>1 DEF readBaseline, FreshWatch
  <2>4. \A e \in Clients \ {d} : call'[e] = call[e]
    BY <1>0, <2>2
  <2>5. QED
    BY <2>2, <2>3, <2>4 DEF DrawnOnce
<1>2. CASE \A d \in Clients : call'[d].stage = "ready" => call'[d] = call[d]
  <2>1. \A d \in Clients \ {c} :
          call'[d].stage = "ready" => call'[d].watch # call'[c].watch
    BY <1>2 DEF DrawnOnce
  <2>2. wstate[call[c].watch] = "absent" /\ call[c].watch \in Watches
    BY <1>0, <1>2 DEF DrawnOnce
  <2>3. wstate'[call[c].watch] = "absent"
    <3> SUFFICES ASSUME wstate'[call[c].watch] # "absent" PROVE FALSE
      OBVIOUS
    <3>1. PICK d \in Clients : insertWatch(d) /\ call[d].watch = call[c].watch
      BY <2>2, AbsentStays
    <3>2. call[d].stage = "ready" /\ call'[d] = NoCall
      BY <1>0, <3>1 DEF insertWatch, SetCall
    <3>3. d # c
      BY <3>2 DEF NoCall
    <3>4. QED
      BY <1>2, <3>1, <3>2, <3>3 DEF DrawnOnce
  <2>4. QED
    BY <1>2, <2>1, <2>3
<1>3. QED
  <2>1. ASSUME NEW d \in Clients, createWatch(d),
               ~ \E w \in Watches : readBaseline(d, w)
        PROVE  \A e \in Clients : call'[e].stage = "ready" => call'[e] = call[e]
    BY <1>0, <2>1 DEF createWatch, resolveNamed, resolveHere, insertWatch,
                      requestFails, SetCall, NoCall
  <2>2. CASE \E p \in Processes : HangUp(p)
    BY <1>2, <2>2 DEF HangUp, NoCall
  <2>3. CASE UNCHANGED call
    BY <1>2, <2>3
  <2>4. QED
    BY <1>1, <1>2, <2>1, <2>2, <2>3
       DEF Next, World, Serve, Handler, createFence, deleteFence, cancelWatch,
           cancelAllWatches, Poll, Run, vars

-----------------------------------------------------------------------------
(* There are finitely many processes, so what a watch owes can be counted. *)
LEMMA OwingIsFinite ==
  \A w \in Watches : IsFiniteSet(Owing(w)) /\ Cardinality(Owing(w)) \in Nat
BY Assumptions, FS_Subset, FS_CardinalityType DEF Owing

(* A process that returns from its tick, or dies, owes nothing any more.   *)
LEMMA OwingShrinks ==
  ASSUME NoNewFire, NEW w \in Watches
  PROVE  /\ IsFiniteSet(Owing(w)') /\ Cardinality(Owing(w)') \in Nat
         /\ Cardinality(Owing(w)') <= Cardinality(Owing(w))
<1>1. Owing(w)' \subseteq Owing(w)
  BY Assumptions DEF Owing, NoNewFire
<1>2. QED
  BY <1>1, OwingIsFinite, FS_Subset, FS_CardinalityType

(* FiredOnce with what keeps it: fired watches never become armed again,   *)
(* because the id of a row is drawn once.                                  *)
FiredInv == TypeOK /\ DrawnOnce /\ FiredOnce

(* The count of fires and reports survives every kind of step: a fire adds *)
(* to both what was fired and what is owed, a report moves one over.       *)
LEMMA FiredStep ==
  ASSUME FiredInv, [Next]_vars
  PROVE  FiredOnce'
<1> USE DEF FiredInv
<1>0. /\ wstate \in [Watches -> States] /\ events \in [Watches -> Nat]
      /\ fires \in [Watches -> Nat]
      /\ firing \in [Processes -> Watches \cup {NoWatch}]
  BY DEF TypeOK, StoreTypeOK, PollerTypeOK
<1>1. CASE Quiet
  <2>1. UNCHANGED <<wstate, row, events, fires>> /\ NoNewFire
    BY <1>1 DEF Quiet, watchVars
  <2>2. QED
    BY <1>0, <2>1, OwingShrinks, OwingIsFinite DEF FiredOnce
<1>2. CASE Fired
  <2>1. PICK p \in Processes, w \in Watches : Fire(p, w)
    BY <1>2 DEF Fired
  <2>2. /\ wstate[w] = "armed" /\ UNCHANGED <<row, events>>
        /\ fires' = [fires EXCEPT ![w] = @ + 1]
        /\ wstate' = [wstate EXCEPT ![w] = IF row[w].repeat THEN @ ELSE "fired"]
        /\ firing' = [firing EXCEPT ![p] = w]
    BY <2>1 DEF Fire, MarkFired
  <2>3. firing[p] \notin Watches
    BY <2>1 DEF Fire, Evaluating, At, TypeOK, PollerTypeOK
  <2>4. Owing(w)' = Owing(w) \cup {p} /\ p \notin Owing(w)
    BY <1>0, <2>2, <2>3 DEF Owing
  <2>5. Cardinality(Owing(w)') = Cardinality(Owing(w)) + 1
    BY <2>4, OwingIsFinite, FS_AddElement
  <2>6. \A x \in Watches \ {w} : Owing(x)' = Owing(x)
    BY <1>0, <2>2, <2>3 DEF Owing
  <2>7. \A x \in Watches : events'[x] + Cardinality(Owing(x)') <= fires'[x]
    BY <1>0, <2>2, <2>5, <2>6, OwingIsFinite DEF FiredOnce
  <2>8. \A x \in Watches :
          /\ wstate'[x] = "armed" /\ ~row[x].repeat => fires'[x] = 0
          /\ wstate'[x] = "absent" => fires'[x] = 0
          /\ wstate'[x] # "absent" /\ ~row[x].repeat => fires'[x] <= 1
    BY <1>0, <2>2 DEF FiredOnce
  <2>9. QED
    BY <2>2, <2>7, <2>8 DEF FiredOnce
<1>3. CASE Reported
  <2>1. PICK p \in Processes : Report(p)
    BY <1>3 DEF Reported
  <2>0. PICK w \in Watches : w = firing[p]
    BY <2>1 DEF Report, At, TypeOK, PollerTypeOK
  <2>2. /\ UNCHANGED <<wstate, row, fires>>
        /\ events' = [events EXCEPT ![w] = @ + 1]
        /\ firing' = [firing EXCEPT ![p] = NoWatch]
    BY <2>0, <2>1 DEF Report, RecordEvent
  <2>3. Owing(w)' = Owing(w) \ {p} /\ p \in Owing(w)
    BY <1>0, <2>0, <2>2, Assumptions DEF Owing
  <2>4. Cardinality(Owing(w)') = Cardinality(Owing(w)) - 1
    BY <2>2, <2>3, OwingIsFinite, FS_RemoveElement
  <2>5. \A x \in Watches \ {w} : Owing(x)' = Owing(x)
    BY <1>0, <2>0, <2>2, Assumptions DEF Owing
  <2>6. \A x \in Watches : events'[x] + Cardinality(Owing(x)') <= fires[x]
    BY <1>0, <2>2, <2>4, <2>5, OwingIsFinite DEF FiredOnce
  <2>7. QED
    BY <2>2, <2>6 DEF FiredOnce
<1>4. CASE Inserted
  <2>1. PICK c \in Clients : insertWatch(c) /\ UNCHANGED firing
    BY <1>4 DEF Inserted
  <2> DEFINE w == call[c].watch
  <2>2. /\ UNCHANGED <<events, fires, firing>>
        /\ wstate' = [wstate EXCEPT ![w] = "armed"]
        /\ row' = [row EXCEPT ![w] = NewRow(c)]
        /\ wstate[w] = "absent"
    BY <2>1 DEF insertWatch, CreateWatch, DrawnOnce
  <2>3. row \in [Watches -> Row \cup {NoRow}]
    BY DEF TypeOK, StoreTypeOK
  <2>4. \A x \in Watches : Owing(x)' = Owing(x)
    BY <2>2 DEF Owing
  <2>5. QED
    BY <1>0, <2>2, <2>3, <2>4 DEF FiredOnce
<1>5. CASE Ended
  <2>1. PICK ws \in SUBSET Watches, to \in {"expired", "cancelled", "deleted"} :
           Moved(ws, to) /\ \A w \in ws : wstate[w] # "absent"
    BY <1>5 DEF Ended, Stored
  <2>2. \A x \in Watches : Owing(x)' = Owing(x)
    BY <2>1 DEF Moved, Owing
  <2>3. QED
    BY <1>0, <2>1, <2>2 DEF Moved, FiredOnce
<1>6. QED
  BY <1>1, <1>2, <1>3, <1>4, <1>5, StepEffects

(* So it holds throughout.                                                 *)
LEMMA FiredInvariant == Safe => []FiredInv
<1>1. Init => DrawnOnce /\ FiredOnce
  <2> SUFFICES ASSUME Init PROVE DrawnOnce /\ FiredOnce
    OBVIOUS
  <2>1. DrawnOnce
    BY DEF Init, ApiInit, NoCall, DrawnOnce
  <2>2. \A w \in Watches : Owing(w) = {}
    BY Assumptions DEF Init, PollerInit, Owing
  <2>3. \A w \in Watches : Cardinality(Owing(w)) = 0
    BY <2>2, OwingIsFinite, FS_EmptySet
  <2>4. QED
    BY <2>1, <2>3 DEF Init, StoreInit, FiredOnce
<1>2. FiredInv /\ [Next]_vars => DrawnOnce' /\ FiredOnce'
  BY DrawnStep, FiredStep DEF FiredInv
<1>3. QED
  BY <1>1, <1>2, TypeCorrect, PTL DEF FiredInv, Safe

(* A watch that does not repeat fires at most once, over its whole life    *)
(* and however many processes evaluate it, and there are never more        *)
(* reports of a watch than fires: MarkFired's single statement is enough.  *)
THEOREM NeverFiredTwice == Safe => []FiredOnce
BY FiredInvariant, PTL DEF FiredInv

-----------------------------------------------------------------------------
(* Each of the five kinds of step is a step of WatchBook or leaves its     *)
(* variables alone.                                                        *)
LEMMA BookStep ==
  ASSUME FiredInv, [Next]_vars
  PROVE  [Book!Next]_(Book!bookVars)
<1> USE DEF FiredInv
<1> DEFINE rep == {w \in Watches : wstate[w] # "absent" /\ row[w].repeat}
<1>0. /\ wstate \in [Watches -> States] /\ events \in [Watches -> Nat]
      /\ fires \in [Watches -> Nat]
      /\ row \in [Watches -> Row \cup {NoRow}]
  BY DEF TypeOK, StoreTypeOK
<1>1. CASE Quiet
  BY <1>1 DEF Quiet, watchVars, Book!bookVars
<1>2. CASE Fired
  <2>1. PICK p \in Processes, w \in Watches : Fire(p, w)
    BY <1>2 DEF Fired
  <2>2. /\ wstate[w] = "armed" /\ UNCHANGED <<row, events>>
        /\ fires' = [fires EXCEPT ![w] = @ + 1]
        /\ wstate' = [wstate EXCEPT ![w] = IF row[w].repeat THEN @ ELSE "fired"]
    BY <2>1 DEF Fire, MarkFired
  <2>3. wstate' = [wstate EXCEPT ![w] = IF w \in rep THEN "armed" ELSE "fired"]
    BY <2>2
  <2>4. rep' = rep
    BY <1>0, <2>2
  <2>5. Book!Fire(w)
    BY <2>2, <2>3, <2>4 DEF Book!Fire
  <2>6. QED
    BY <2>5 DEF Book!Next
<1>3. CASE Reported
  <2>1. PICK p \in Processes : Report(p)
    BY <1>3 DEF Reported
  <2>0. PICK w \in Watches : w = firing[p]
    BY <2>1 DEF Report, At, TypeOK, PollerTypeOK
  <2>2. /\ UNCHANGED <<wstate, row, fires>>
        /\ events' = [events EXCEPT ![w] = @ + 1]
    BY <2>0, <2>1 DEF Report, RecordEvent
  <2>3. events[w] < fires[w]
    <3>1. Owing(w) # {}
      BY <2>0 DEF Owing
    <3>2. Cardinality(Owing(w)) \in Nat /\ Cardinality(Owing(w)) # 0
      BY <3>1, OwingIsFinite, FS_EmptySet
    <3>3. QED
      BY <1>0, <3>2 DEF FiredOnce
  <2>4. Book!Tell(w)
    BY <2>2, <2>3 DEF Book!Tell
  <2>5. QED
    BY <2>4 DEF Book!Next
<1>4. CASE Inserted
  <2>1. PICK c \in Clients : insertWatch(c)
    BY <1>4 DEF Inserted
  <2>0. call[c] \in CallType /\ call[c].stage = "ready"
    BY <2>1 DEF insertWatch, TypeOK, ApiTypeOK
  <2>3. PICK w \in Watches : w = call[c].watch
    BY <2>0 DEF CallType, NoCall
  <2>2. /\ UNCHANGED <<events, fires>>
        /\ wstate' = [wstate EXCEPT ![w] = "armed"]
        /\ row' = [row EXCEPT ![w] = NewRow(c)]
        /\ wstate[w] = "absent"
    BY <2>1, <2>3 DEF insertWatch, CreateWatch, DrawnOnce
  <2>4. rep' \in {rep, rep \cup {w}}
    BY <1>0, <2>2, <2>3
  <2>5. Book!Arm(w)
    BY <2>2, <2>4 DEF Book!Arm
  <2>6. QED
    BY <2>3, <2>5 DEF Book!Next
<1>5. CASE Ended
  <2>1. PICK ws \in SUBSET Watches :
          \/ Moved(ws, "expired") /\ \A w \in ws : wstate[w] = "armed"
          \/ Moved(ws, "cancelled") /\ \A w \in ws : Stored(w)
          \/ Moved(ws, "deleted") /\ \A w \in ws : Stored(w) /\ wstate[w] # "armed"
    BY <1>5 DEF Ended
  <2>2. UNCHANGED <<events, fires>> /\ rep' = rep
    BY <1>0, <2>1 DEF Moved, Stored
  <2>3. Book!Expire(ws) \/ Book!Cancel(ws) \/ Book!Remove(ws)
    BY <2>1, <2>2
       DEF Moved, Stored, Book!Expire, Book!Cancel, Book!Remove, Book!MoveAll
  <2>4. QED
    BY <2>3 DEF Book!Next
<1>6. QED
  BY <1>1, <1>2, <1>3, <1>4, <1>5, StepEffects

(* The daemon implements WatchBook: no interleaving of ticks, handlers,    *)
(* deletions, stops, crashes and other processes makes a watch do what its *)
(* life cycle does not allow.                                              *)
THEOREM ImplementsBook == Safe => KeepsBook
<1>1. Init => Book!Init
  BY DEF Init, StoreInit, Book!Init
<1>2. FiredInv /\ [Next]_vars => [Book!Next]_(Book!bookVars)
  BY BookStep
<1>3. QED
  BY <1>1, <1>2, FiredInvariant, PTL DEF Safe, KeepsBook, Book!Spec

-----------------------------------------------------------------------------
(* With foreign keys enforced on every connection, no row outlives its     *)
(* fence.                                                                  *)
Enforced == \A p \in Processes : fk[p]

KeyInv ==
  /\ TypeOK
  /\ Enforced
  /\ NothingLeftBehind

(* A fence that stays where it is, or appears, keeps what it has.          *)
LEMMA KeysKept ==
  ASSUME KeyInv, fk' = fk,
         \A f \in Fences : Exists(f) => Exists(f)',
         \A f \in Fences : ~Exists(f) => hist'[f] = hist[f],
         \A w \in Watches : Stored(w)' => Stored(w) /\ row'[w] = row[w]
  PROVE  Enforced' /\ NothingLeftBehind'
BY DEF KeyInv, Enforced, NothingLeftBehind, WatchesOf

(* No step of anyone creates an orphan or turns the enforcement off, as    *)
(* long as the pool keeps the connection that Open prepared.               *)
LEMMA KeyStep ==
  ASSUME "reconnect" \notin Env, KeyInv, [Next]_vars
  PROVE  Enforced' /\ NothingLeftBehind'
<1> DEFINE Goal == Enforced' /\ NothingLeftBehind'
<1>0. /\ fence \in [Fences -> Places \cup {NoPlace}]
      /\ hist \in [Fences -> SUBSET Nat]
      /\ wstate \in [Watches -> States] /\ row \in [Watches -> Row \cup {NoRow}]
      /\ fk \in [Processes -> BOOLEAN] /\ \A p \in Processes : fk[p]
      /\ NoPlace \notin Places /\ HomePlace \in Places /\ Daemon \in Processes
      /\ Server = Daemon
  BY Assumptions DEF KeyInv, Enforced, TypeOK, StoreTypeOK
<1>1. CASE UNCHANGED storeVars
  BY <1>0, <1>1, KeysKept DEF storeVars, fenceVars, watchVars, Exists, Stored
<1>2. ASSUME NEW f \in Fences, NEW place \in Places, SaveFence(f, place),
             Enforced'
      PROVE  Goal
  BY <1>0, <1>2
     DEF SaveFence, watchVars, Exists, Stored, WatchesOf, KeyInv, NothingLeftBehind
<1>3. ASSUME NEW ws \in SUBSET Watches, NEW to \in States, SetStates(ws, to),
             \A w \in ws : Stored(w)
      PROVE  Goal
  BY <1>0, <1>3, KeysKept DEF SetStates, fenceVars, Exists, Stored
<1>4. ASSUME NEW p \in Processes, TickStep(p) PROVE Goal
  <2>1. CASE BeginTick(p)
    <3> DEFINE ws == {w \in Watches : wstate[w] = "armed" /\ row[w].expires <= clock}
    <3>1. SetStates(ws, "expired")
      BY <2>1 DEF BeginTick, ExpireWatches
    <3>2. ws \in SUBSET Watches /\ \A w \in ws : Stored(w)
      BY DEF Stored
    <3> HIDE DEF ws
    <3>3. QED
      BY <1>3, <3>1, <3>2 DEF States
  <2>2. ASSUME NEW f \in Fences, RecordFence(p, f) PROVE Goal
    <3>1. Exists(f) /\ Observe(f, tick[p].gen[f])
      BY <1>0, <2>2 DEF RecordFence, CanObserve
    <3>2. QED
      BY <1>0, <3>1, KeysKept DEF Observe, watchVars, Exists, Stored
  <2>3. ASSUME NEW w \in Watches, Fire(p, w) PROVE Goal
    BY <1>0, <2>3, KeysKept DEF Fire, MarkFired, fenceVars, Exists, Stored
  <2>4. CASE Report(p)
    BY <1>0, <2>4, KeysKept DEF Report, RecordEvent, fenceVars, Exists, Stored
  <2>5. QED
    BY <1>1, <1>4, <2>1, <2>2, <2>3, <2>4
       DEF TickStep, LoadFences, NoFences, LoadWatches, FetchGroup, FetchFails,
           Answered, RecordFails, Pass, HoldBack, ReportFails, EndTick, Cancelled
<1>5. ASSUME NEW p \in Processes, ProcessStep(p) PROVE Goal
  <2>1. CASE Start(p)
    BY <1>0, <1>2, <2>1, Assumptions DEF Start, Open, Enforced
  <2>2. QED
    BY <1>1, <1>5, <2>1
       DEF ProcessStep, Sigterm, Exit, Crash, LoseConnection, Reconnect
<1>6. ASSUME NEW c \in Clients, createWatch(c) PROVE Goal
  <2>1. ASSUME NEW r, NEW f \in Fences, NEW place \in Sites[f],
               resolveHere(c, f, place, r)
        PROVE  Goal
    BY <1>0, <1>2, <2>1, Assumptions DEF resolveHere, Enforced
  <2>2. CASE insertWatch(c)
    <3>1. call[c] \in CallType /\ call[c].stage = "ready"
      BY <2>2 DEF insertWatch, KeyInv, TypeOK, ApiTypeOK
    <3>2. PICK w \in Watches, f \in Fences : w = call[c].watch /\ f = call[c].fence
      BY <3>1 DEF CallType, NoCall
    <3>3. /\ UNCHANGED <<fence, hist, fk>> /\ Exists(f)
          /\ wstate' = [wstate EXCEPT ![w] = "armed"]
          /\ row' = [row EXCEPT ![w] = NewRow(c)]
          /\ NewRow(c).fence = f
      BY <1>0, <2>2, <3>2
         DEF insertWatch, CreateWatch, CanCreateWatch, NewRow, fenceVars
    <3>4. QED
      BY <1>0, <3>3 DEF KeyInv, Enforced, NothingLeftBehind, Exists, WatchesOf, Stored
  <2>3. QED
    BY <1>1, <1>6, <2>1, <2>2 DEF createWatch, resolveNamed, readBaseline, requestFails
<1>7. CASE Handler
  <2>1. ASSUME NEW f \in Fences, NEW place \in Places, createFence(f, place)
        PROVE  Goal
    BY <1>0, <1>2, <2>1 DEF createFence, Enforced
  <2>2. ASSUME NEW f \in Fences, deleteFence(f) PROVE Goal
    BY <1>0, <2>2
       DEF deleteFence, DeleteFence, KeyInv, Enforced, NothingLeftBehind, Exists, WatchesOf,
           Stored
  <2>3. ASSUME NEW w \in Watches, cancelWatch(w) PROVE Goal
    BY <1>3, <2>3 DEF cancelWatch, SetState, States
  <2>4. ASSUME NEW ds, cancelAllWatches(ds) PROVE Goal
    <3> DEFINE ws == {w \in Watches : wstate[w] = "armed" /\ row[w].device \in ds}
    <3>1. SetStates(ws, "cancelled")
      BY <2>4 DEF cancelAllWatches, CancelArmed
    <3>2. ws \in SUBSET Watches /\ \A w \in ws : Stored(w)
      BY DEF Stored
    <3> HIDE DEF ws
    <3>3. QED
      BY <1>3, <3>1, <3>2 DEF States
  <2>5. QED
    BY <1>6, <1>7, <2>1, <2>2, <2>3, <2>4 DEF Handler
<1>8. QED
  BY <1>1, <1>4, <1>5, <1>7 DEF Next, World, Serve, Poll, Run, vars

(* So foreign keys stay enforced, and orphans do not appear.               *)
LEMMA KeyInvariant ==
  ASSUME "reconnect" \notin Env
  PROVE  Safe => []KeyInv
<1>1. Init => Enforced /\ NothingLeftBehind
  BY DEF Init, Enforced, StoreInit, NothingLeftBehind, WatchesOf, Stored
<1>2. KeyInv /\ [Next]_vars => Enforced' /\ NothingLeftBehind'
  BY KeyStep
<1>3. QED
  BY <1>1, <1>2, TypeCorrect, PTL DEF KeyInv, Safe

(* While the connection that Open prepared lives, a deleted fence leaves   *)
(* nothing behind, whatever tick or request was under way.                 *)
THEOREM DeletionIsClean ==
  ASSUME "reconnect" \notin Env
  PROVE  Safe => []NothingLeftBehind
BY KeyInvariant, PTL DEF KeyInv

(* And nobody waits on a watch whose fence is gone: the foreign key closes *)
(* the gap between resolveFence and the insert that DeleteFence's own      *)
(* check leaves open.                                                      *)
THEOREM NoWatchIsOrphaned ==
  ASSUME "reconnect" \notin Env
  PROVE  Safe => []ArmedHasFence
<1>1. KeyInv => ArmedHasFence
  BY DEF KeyInv, TypeOK, StoreTypeOK, Row, ArmedHasFence, NothingLeftBehind,
         WatchesOf, Stored
<1>2. QED
  BY <1>1, KeyInvariant, PTL

-----------------------------------------------------------------------------
(* A whole tick: what it does to a watch, from the fences and watches it   *)
(* loads to the report it sends, for any number of fences, watches,        *)
(* vehicles and processes.  No fire is lost, none is late, and only what   *)
(* arrived is reported, each under the events that could spoil it.         *)

(* A watch that has a row, or had one, keeps its columns, and its id is    *)
(* not used again.                                                         *)
LEMMA RowsStay ==
  ASSUME TypeOK, DrawnOnce, [Next]_vars, NEW w \in Watches, wstate[w] # "absent"
  PROVE  wstate'[w] # "absent" /\ row'[w] = row[w]
<1> USE DEF TypeOK, StoreTypeOK
<1>1. CASE Quiet \/ Reported
  BY <1>1 DEF Quiet, watchVars, Reported, Report, RecordEvent
<1>2. CASE Fired
  BY <1>2 DEF Fired, Fire, MarkFired
<1>3. CASE Inserted
  BY <1>3 DEF Inserted, insertWatch, CreateWatch, DrawnOnce
<1>4. CASE Ended
  BY <1>4 DEF Ended, Moved
<1>5. QED
  BY <1>1, <1>2, <1>3, <1>4, StepEffects

(* Only DeleteFence takes a row away, and never an armed one.              *)
LEMMA DeletedByDelete ==
  ASSUME TypeOK, [Next]_vars, NEW w \in Watches, wstate[w] # "deleted",
         wstate'[w] = "deleted"
  PROVE  \E f \in Fences : deleteFence(f) /\ w \in WatchesOf(f)
<1> USE DEF TypeOK, StoreTypeOK
<1>1. ASSUME NEW ws \in SUBSET Watches, NEW st \in States, SetStates(ws, st), st # "deleted"
      PROVE  FALSE
  BY <1>1 DEF SetStates
<1>2. CASE Handler
  <2>1. ASSUME NEW c \in Clients, createWatch(c) PROVE FALSE
    BY <2>1 DEF createWatch, resolveNamed, resolveHere, SaveFence, readBaseline,
                insertWatch, CreateWatch, requestFails, storeVars, watchVars
  <2>2. ASSUME NEW f \in Fences, NEW place \in Places, createFence(f, place) PROVE FALSE
    BY <2>2 DEF createFence, SaveFence, watchVars
  <2>3. ASSUME NEW x \in Watches, cancelWatch(x) PROVE FALSE
    BY <2>3 DEF cancelWatch, SetState, SetStates
  <2>4. ASSUME NEW ds, cancelAllWatches(ds) PROVE FALSE
    BY <2>4 DEF cancelAllWatches, CancelArmed, SetStates
  <2>5. ASSUME NEW f \in Fences, deleteFence(f) PROVE w \in WatchesOf(f)
    BY <2>5 DEF deleteFence, DeleteFence
  <2>6. QED
    BY <1>2, <2>1, <2>2, <2>3, <2>4, <2>5 DEF Handler
<1>3. ASSUME NEW p \in Processes, TickStep(p) PROVE FALSE
  <2>1. CASE UNCHANGED storeVars
    BY <2>1 DEF storeVars, watchVars
  <2>2. QED
    BY <1>3, <2>1
       DEF TickStep, BeginTick, ExpireWatches, SetStates, LoadFences, NoFences, LoadWatches,
           FetchGroup, FetchFails, Answered, RecordFence, Observe, watchVars, RecordFails,
           Pass, HoldBack, Fire, MarkFired, Report, RecordEvent, ReportFails, EndTick,
           Cancelled
<1>4. ASSUME NEW p \in Processes, ProcessStep(p) PROVE FALSE
  BY <1>4 DEF ProcessStep, Start, SaveFence, Sigterm, Exit, Crash, LoseConnection,
              Reconnect, storeVars, watchVars
<1>5. QED
  BY <1>2, <1>3, <1>4 DEF Next, World, Serve, Poll, Run, vars, storeVars, watchVars

(* A step of a tick is about the process that takes it, and leaves fences  *)
(* and vehicles alone.                                                     *)
LEMMA OneTick ==
  ASSUME TypeOK, NEW p \in Processes, TickStep(p)
  PROVE  /\ \A q \in Processes \ {p} :
              tick'[q] = tick[q] /\ pc'[q] = pc[q] /\ firing'[q] = firing[q]
         /\ UNCHANGED <<worldVars, fence, gen, row, live>>
         /\ pc[p] # "down" /\ pc'[p] \in PCs
<1> USE DEF TypeOK, PollerTypeOK
<1>1. CASE Return(p) /\ UNCHANGED <<worldVars, storeVars>> /\ pc[p] # "down"
  BY <1>1 DEF Return, Goto, storeVars, fenceVars, watchVars, PCs
<1>2. CASE BeginTick(p)
  BY <1>2 DEF BeginTick, At, Goto, ExpireWatches, SetStates, fenceVars, PCs
<1>3. CASE LoadFences(p) \/ LoadWatches(p)
  BY <1>3 DEF LoadFences, LoadWatches, At, Goto, storeVars, fenceVars, watchVars, PCs
<1>4. ASSUME NEW g \in Groups(p), FetchGroup(p, g) \/ FetchFails(p, g)
      PROVE  /\ \A q \in Processes \ {p} :
                  tick'[q] = tick[q] /\ pc'[q] = pc[q] /\ firing'[q] = firing[q]
             /\ UNCHANGED <<worldVars, fence, gen, row, live>>
             /\ pc[p] # "down" /\ pc'[p] \in PCs
  BY <1>4 DEF FetchGroup, FetchFails, Answered, At, Goto, storeVars, fenceVars,
              watchVars, PCs
<1>5. ASSUME NEW f \in Fences, RecordFence(p, f)
      PROVE  /\ \A q \in Processes \ {p} :
                  tick'[q] = tick[q] /\ pc'[q] = pc[q] /\ firing'[q] = firing[q]
             /\ UNCHANGED <<worldVars, fence, gen, row, live>>
             /\ pc[p] # "down" /\ pc'[p] \in PCs
  BY <1>5 DEF RecordFence, Observe, At, watchVars
<1>6. ASSUME NEW w \in Watches, Pass(p, w) \/ HoldBack(p, w) \/ Fire(p, w)
      PROVE  /\ \A q \in Processes \ {p} :
                  tick'[q] = tick[q] /\ pc'[q] = pc[q] /\ firing'[q] = firing[q]
             /\ UNCHANGED <<worldVars, fence, gen, row, live>>
             /\ pc[p] # "down" /\ pc'[p] \in PCs
  BY <1>6 DEF Pass, HoldBack, Fire, Evaluating, MarkFired, Drop, At, Goto, storeVars,
              fenceVars, watchVars, PCs
<1>7. CASE Report(p)
  BY <1>7 DEF Report, RecordEvent, At, Goto, fenceVars, PCs
<1>8. QED
  BY <1>1, <1>2, <1>3, <1>4, <1>5, <1>6, <1>7
     DEF TickStep, NoFences, RecordFails, ReportFails, EndTick, Cancelled, InTick, At

(* What happens to the tick of a process that does not take a step of it:  *)
(* nothing while it runs, or the process dies and the tick with it.        *)
Bystander(p) ==
  \/ /\ tick'[p] = tick[p] /\ firing'[p] = firing[p]
     /\ pc'[p] = pc[p] \/ {pc[p], pc'[p]} \subseteq {"down", "idle"}
  \/ /\ "crash" \in Env /\ pc'[p] = "down"
     /\ tick'[p] = BlankTick(tick[p].at) /\ firing'[p] = NoWatch

(* Every step that is not one of its tick leaves a process a bystander.    *)
LEMMA Bystanders ==
  ASSUME TypeOK, [Next]_vars, NEW p \in Processes, ~TickStep(p)
  PROVE  Bystander(p)
<1> USE DEF TypeOK, PollerTypeOK
<1>1. CASE UNCHANGED pollVars
  BY <1>1 DEF pollVars, Bystander
<1>2. ASSUME NEW q \in Processes, TickStep(q) PROVE Bystander(p)
  BY <1>2, OneTick DEF Bystander
<1>3. ASSUME NEW q \in Processes, Start(q) PROVE Bystander(p)
  BY <1>3 DEF Start, Goto, Bystander
<1>4. ASSUME NEW q \in Processes, Sigterm(q) PROVE Bystander(p)
  BY <1>4 DEF Sigterm, Bystander
<1>5. ASSUME NEW q \in Processes, Exit(q) PROVE Bystander(p)
  BY <1>5 DEF Exit, Goto, Bystander
<1>6. ASSUME NEW q \in Processes, Crash(q) PROVE Bystander(p)
  BY <1>6 DEF Crash, Goto, Bystander
<1>7. ASSUME NEW q \in Processes, LoseConnection(q) PROVE Bystander(p)
  BY <1>1, <1>7 DEF LoseConnection
<1>8. QED
  BY <1>1, <1>2, <1>3, <1>4, <1>5, <1>6, <1>7
     DEF Next, World, Serve, Poll, Run, ProcessStep, vars

-----------------------------------------------------------------------------
(* Without deletions, and with no context cancelled in the middle of a     *)
(* tick, every fire is reported.                                           *)
Answerable ==
  /\ TypeOK
  /\ \A p \in Processes : live[p]
  /\ \A w \in Watches : wstate[w] # "deleted"
  /\ \A p \in Processes : firing[p] \in Watches => wstate[firing[p]] # "absent"
  /\ EveryFireReported

(* A process that holds a fire hands it on, and does not lose it.          *)
LEMMA NothingDropped ==
  ASSUME "stop" \notin Env, "crash" \notin Env, Answerable, [Next]_vars
  PROVE  \A p \in Processes : firing'[p] = firing[p] \/ Fire(p, firing'[p]) \/ Report(p)
<1> SUFFICES ASSUME NEW p \in Processes
             PROVE  firing'[p] = firing[p] \/ Fire(p, firing'[p]) \/ Report(p)
  OBVIOUS
<1> USE DEF Answerable, TypeOK, PollerTypeOK
<1>1. CASE TickStep(p)
  <2>1. CASE Return(p) /\ pc[p] # "event"
    BY <2>1, Assumptions DEF Return
  <2>2. ~ReportFails(p)
    BY DEF ReportFails, At, CanRecordEvent, Stored
  <2>3. ~Cancelled(p)
    BY DEF Cancelled
  <2>4. ASSUME NEW w \in Watches, Fire(p, w) PROVE Fire(p, firing'[p])
    BY <2>4 DEF Fire
  <2>5. QED
    BY <1>1, <2>1, <2>2, <2>3, <2>4
       DEF TickStep, BeginTick, LoadFences, NoFences, LoadWatches, FetchGroup, FetchFails,
           Answered, RecordFence, RecordFails, Pass, HoldBack, EndTick, At
<1>2. CASE ~TickStep(p)
  BY <1>2, Bystanders DEF Bystander
<1>3. QED
  BY <1>1, <1>2

(* What a fire and a report do to what is owed.                            *)
LEMMA FireOwes ==
  ASSUME TypeOK, NEW p \in Processes, NEW w \in Watches, Fire(p, w)
  PROVE  \A x \in Watches :
           Cardinality(Owing(x)') = Cardinality(Owing(x)) + IF x = w THEN 1 ELSE 0
<1>1. /\ firing \in [Processes -> Watches \cup {NoWatch}] /\ firing[p] \notin Watches
      /\ firing' = [firing EXCEPT ![p] = w]
  BY DEF Fire, Evaluating, At, TypeOK, PollerTypeOK
<1>2. Owing(w)' = Owing(w) \cup {p} /\ p \notin Owing(w)
  BY <1>1 DEF Owing
<1>3. \A x \in Watches \ {w} : Owing(x)' = Owing(x)
  BY <1>1 DEF Owing
<1>4. QED
  BY <1>2, <1>3, OwingIsFinite, FS_AddElement

(* A report settles one.                                                   *)
LEMMA ReportSettles ==
  ASSUME TypeOK, NEW p \in Processes, NEW w \in Watches, w = firing[p], Report(p)
  PROVE  \A x \in Watches :
           Cardinality(Owing(x)') = Cardinality(Owing(x)) - IF x = w THEN 1 ELSE 0
<1>1. /\ firing \in [Processes -> Watches \cup {NoWatch}] /\ NoWatch \notin Watches
      /\ firing' = [firing EXCEPT ![p] = NoWatch]
  BY Assumptions DEF Report, TypeOK, PollerTypeOK
<1>2. Owing(w)' = Owing(w) \ {p} /\ p \in Owing(w)
  BY <1>1 DEF Owing
<1>3. \A x \in Watches \ {w} : Owing(x)' = Owing(x)
  BY <1>1 DEF Owing
<1>4. QED
  BY <1>2, <1>3, OwingIsFinite, FS_RemoveElement

(* Without deletions, every step keeps fires and reports in balance.       *)
LEMMA BalanceStep ==
  ASSUME "stop" \notin Env, "crash" \notin Env, "delete" \notin Env,
         Answerable, DrawnOnce, [Next]_vars
  PROVE  Answerable'
<1> USE DEF Answerable
<1>0. /\ wstate \in [Watches -> States] /\ events \in [Watches -> Nat]
      /\ fires \in [Watches -> Nat]
      /\ firing \in [Processes -> Watches \cup {NoWatch}]
  BY DEF TypeOK, StoreTypeOK, PollerTypeOK
<1>1. TypeOK'
  BY TypeStep
<1>2. \A p \in Processes : live'[p]
  <2>1. ASSUME NEW p \in Processes, TickStep(p) PROVE live' = live
    BY <2>1, OneTick
  <2>2. ASSUME NEW p \in Processes, ProcessStep(p)
        PROVE  live' = live \/ live' = [live EXCEPT ![p] = TRUE]
    BY <2>2 DEF ProcessStep, Start, Sigterm, Exit, Crash, LoseConnection, pollVars
  <2>3. live \in [Processes -> BOOLEAN]
    BY DEF TypeOK, PollerTypeOK
  <2>4. QED
    BY <2>1, <2>2, <2>3 DEF Next, World, Serve, Poll, Run, pollVars, vars
<1>3. \A w \in Watches : wstate'[w] # "deleted"
  <2>1. ASSUME NEW w \in Watches, wstate'[w] = "deleted" PROVE FALSE
    <3>1. \E f \in Fences : deleteFence(f)
      BY <2>1, DeletedByDelete
    <3>2. QED
      BY <3>1 DEF deleteFence
  <2>2. QED
    BY <2>1
<1>4. \A p \in Processes : firing'[p] \in Watches => wstate'[firing'[p]] # "absent"
  <2> SUFFICES ASSUME NEW p \in Processes, NEW w \in Watches, w = firing'[p]
               PROVE  wstate'[w] # "absent"
    OBVIOUS
  <2>1. wstate[w] # "absent"
    BY <1>0, NothingDropped, Assumptions DEF Fire, MarkFired, Report
  <2>2. QED
    BY <2>1, RowsStay
<1>5. EveryFireReported'
  <2>1. CASE Fired
    <3>1. PICK p \in Processes, w \in Watches : Fire(p, w)
      BY <2>1 DEF Fired
    <3>2. UNCHANGED events /\ fires' = [fires EXCEPT ![w] = @ + 1]
      BY <3>1 DEF Fire, MarkFired
    <3>3. QED
      BY <1>0, <3>1, <3>2, FireOwes, OwingIsFinite DEF EveryFireReported
  <2>2. CASE Reported
    <3>1. PICK p \in Processes : Report(p)
      BY <2>2 DEF Reported
    <3>2. PICK w \in Watches : w = firing[p]
      BY <3>1 DEF Report, At, TypeOK, PollerTypeOK
    <3>3. UNCHANGED fires /\ events' = [events EXCEPT ![w] = @ + 1]
      BY <3>1, <3>2 DEF Report, RecordEvent
    <3>4. QED
      BY <1>0, <3>1, <3>2, <3>3, ReportSettles, OwingIsFinite DEF EveryFireReported
  <2>3. CASE ~Fired /\ ~Reported
    <3>1. UNCHANGED <<events, fires>>
      BY <2>3, StepEffects DEF Quiet, watchVars, Inserted, insertWatch, CreateWatch,
                               Ended, Moved
    <3>2. \A w \in Watches : Owing(w)' = Owing(w)
      <4>1. ASSUME NEW p \in Processes, Fire(p, firing'[p]) PROVE Fired
        <5>1. firing'[p] \in Watches
          BY <4>1 DEF Fire, Evaluating, TypeOK, PollerTypeOK, Tick
        <5>2. QED
          BY <4>1, <5>1 DEF Fired
      <4>2. \A p \in Processes : firing'[p] = firing[p]
        BY <2>3, <4>1, NothingDropped DEF Reported
      <4>3. QED
        BY <4>2 DEF Owing
    <3>3. QED
      BY <3>1, <3>2 DEF EveryFireReported
  <2>4. QED
    BY <2>1, <2>2, <2>3
<1>6. QED
  BY <1>1, <1>2, <1>3, <1>4, <1>5

(* While nobody deletes and nothing dies or is stopped, no fire is lost:   *)
(* what was fired and not yet recorded is in the hands of a process.       *)
THEOREM NoFireIsLost ==
  ASSUME "stop" \notin Env, "crash" \notin Env, "delete" \notin Env
  PROVE  Safe => []EveryFireReported
<1>1. Init => Answerable
  <2> SUFFICES ASSUME Init PROVE Answerable
    OBVIOUS
  <2>1. TypeOK
    BY InitTypes
  <2>2. \A w \in Watches : Owing(w) = {}
    BY Assumptions DEF Init, PollerInit, Owing
  <2>3. \A w \in Watches : Cardinality(Owing(w)) = 0
    BY <2>2, OwingIsFinite, FS_EmptySet
  <2>4. QED
    BY <2>1, <2>3, Assumptions
       DEF Answerable, Init, StoreInit, PollerInit, EveryFireReported
<1>2. Answerable /\ DrawnOnce /\ [Next]_vars => Answerable'
  BY BalanceStep
<1>3. QED
  BY <1>1, <1>2, FiredInvariant, PTL DEF Safe, FiredInv, Answerable
-----------------------------------------------------------------------------
(* The shape of a tick: what it has loaded by each of its statements, and  *)
(* that what is left to serve was loaded.                                  *)
Shape(p) ==
  /\ pc[p] \in {"down", "idle", "fences"} => tick[p] = BlankTick(tick[p].at)
  /\ pc[p] = "watches" => /\ tick[p].armed = {} /\ tick[p].todo = {} /\ tick[p].job = {}
                          /\ \A f \in Fences : tick[p].got[f] = {}
  /\ pc[p] = "fetch" => tick[p].job = {}
  /\ tick[p].todo \subseteq Snapped(p)
  /\ \A w \in tick[p].armed : wstate[w] # "absent"
  /\ \A w \in tick[p].job : w \in tick[p].armed /\ row[w].fence \in Snapped(p)
  /\ pc[p] = "event" => firing[p] \in tick[p].armed /\ row[firing[p]].fence \in Snapped(p)

(* Nothing is loaded in a blank tick.                                      *)
LEMMA BlankFields ==
  ASSUME NEW p \in Processes, tick[p] = BlankTick(tick[p].at)
  PROVE  /\ Snapped(p) = {} /\ tick[p].armed = {} /\ tick[p].todo = {} /\ tick[p].job = {}
         /\ \A f \in Fences : tick[p].snap[f] = NoPlace /\ tick[p].got[f] = {}
BY DEF BlankTick, Snapped

(* What a tick has loaded is in the tables.                                *)
LEMMA TickFields ==
  ASSUME TypeOK, NEW p \in Processes
  PROVE  /\ tick[p] \in Tick /\ tick \in [Processes -> Tick]
         /\ tick[p].at \in Int /\ tick[p].gen \in [Fences -> Nat]
         /\ tick[p].armed \in SUBSET Watches /\ tick[p].job \in SUBSET Watches
         /\ tick[p].todo \in SUBSET Fences /\ tick[p].waiting \in SUBSET Fences
         /\ tick[p].got \in [Fences -> SUBSET Vehicles]
         /\ tick[p].snap \in [Fences -> Places \cup {NoPlace}]
BY DEF TypeOK, PollerTypeOK, Tick

(* Its own steps keep the shape of a tick.                                 *)
LEMMA OwnShape ==
  ASSUME TypeOK, DrawnOnce, [Next]_vars, NEW p \in Processes, Shape(p), TickStep(p)
  PROVE  Shape(p)'
<1>0. /\ tick \in [Processes -> Tick] /\ tick[p] \in Tick /\ pc \in [Processes -> PCs]
      /\ wstate \in [Watches -> States] /\ firing \in [Processes -> Watches \cup {NoWatch}]
  BY DEF TypeOK, PollerTypeOK, StoreTypeOK
<1>1. \A w \in Watches : wstate[w] # "absent" => wstate'[w] # "absent" /\ row'[w] = row[w]
  BY RowsStay
<1>2. CASE Return(p)
  <2>1. tick'[p] = BlankTick(tick[p].at) /\ pc'[p] \in {"down", "idle"}
    BY <1>0, <1>2 DEF Return, Goto
  <2>2. tick'[p] = BlankTick(tick'[p].at)
    BY <2>1 DEF BlankTick
  <2>3. QED
    BY <2>1, <2>2 DEF Shape, Snapped, BlankTick
<1>3. CASE BeginTick(p)
  <2>1. tick'[p] = BlankTick(clock) /\ pc'[p] = "fences"
    BY <1>0, <1>3 DEF BeginTick, Goto
  <2>2. tick'[p] = BlankTick(tick'[p].at)
    BY <2>1 DEF BlankTick
  <2>3. QED
    BY <2>1, <2>2 DEF Shape, Snapped, BlankTick
<1>4. CASE LoadFences(p)
  <2>1. tick'[p] = [BlankTick(tick[p].at) EXCEPT !.snap = fence, !.gen = gen]
        /\ pc'[p] = "watches"
    BY <1>0, <1>4 DEF LoadFences, At, Goto, Shape
  <2>2. QED
    BY <2>1 DEF Shape, Snapped, BlankTick
<1>5. CASE LoadWatches(p)
  <2>1. /\ pc'[p] = "fetch" /\ wstate' = wstate
        /\ tick'[p] = [tick[p] EXCEPT !.armed = ArmedWatches(tick[p].at),
                                      !.waiting = Snapped(p)]
    BY <1>0, <1>5 DEF LoadWatches, Goto, storeVars, watchVars
  <2>2. /\ tick'[p].snap = tick[p].snap /\ tick'[p].todo = {} /\ tick'[p].job = {}
        /\ tick'[p].armed = ArmedWatches(tick[p].at)
    BY <1>0, <1>5, <2>1 DEF LoadWatches, At, Shape, Tick
  <2>3. QED
    BY <2>1, <2>2 DEF Shape, Snapped, ArmedWatches
<1>6. ASSUME NEW g \in Groups(p), FetchGroup(p, g) \/ FetchFails(p, g)
      PROVE  Shape(p)'
  <2>1. PICK served \in SUBSET g : \E seen : Answered(p, g, served, seen)
    BY <1>6 DEF FetchGroup, FetchFails
  <2>2. /\ tick'[p].snap = tick[p].snap /\ tick'[p].todo = tick[p].todo \cup served
        /\ tick'[p].job = tick[p].job /\ tick'[p].armed = tick[p].armed
        /\ pc'[p] \in {"fetch", "serve"} /\ wstate' = wstate /\ row' = row
    BY <1>0, <2>1 DEF Answered, Tick, Goto, storeVars, watchVars
  <2>3. g \subseteq Snapped(p) /\ pc[p] = "fetch"
    BY <1>6 DEF Groups, FetchGroup, FetchFails, At
  <2>4. QED
    BY <2>2, <2>3 DEF Shape, Snapped
<1>7. ASSUME NEW f \in Fences, RecordFence(p, f) PROVE Shape(p)'
  <2>1. /\ tick'[p].snap = tick[p].snap /\ tick'[p].todo = tick[p].todo \ {f}
        /\ tick'[p].job = {w \in tick[p].armed : row[w].fence = f}
        /\ tick'[p].armed = tick[p].armed
        /\ pc'[p] = "serve" /\ wstate' = wstate /\ row' = row /\ f \in tick[p].todo
    BY <1>0, <1>7 DEF RecordFence, Observe, At, Tick, watchVars
  <2>2. QED
    BY <1>0, <2>1 DEF Shape, Snapped, Tick
<1>8. ASSUME NEW w \in Watches, Pass(p, w) \/ HoldBack(p, w) \/ Fire(p, w)
      PROVE  Shape(p)'
  <2>0. tick'[p] = [tick[p] EXCEPT !.job = @ \ {w}]
    BY <1>0, <1>8 DEF Pass, HoldBack, Fire, Drop
  <2>1. /\ tick'[p].snap = tick[p].snap /\ tick'[p].todo = tick[p].todo
        /\ tick'[p].job = tick[p].job \ {w} /\ tick'[p].armed = tick[p].armed
    BY <1>0, <2>0 DEF Tick
  <2>2. /\ w \in tick[p].job
        /\ pc'[p] # "serve" => pc'[p] = "event" /\ firing'[p] = w
        /\ pc'[p] \in {"serve", "event"}
    BY <1>0, <1>8 DEF Pass, HoldBack, Fire, Evaluating, At, Goto
  <2>3. QED
    BY <1>0, <1>1, <2>1, <2>2 DEF Shape, Snapped, Tick
<1>9. CASE Report(p)
  <2>1. pc'[p] = "serve" /\ tick' = tick
    BY <1>0, <1>9 DEF Report, Goto
  <2>2. QED
    BY <1>0, <1>1, <2>1 DEF Shape, Snapped, Tick
<1>10. QED
  BY <1>2, <1>3, <1>4, <1>5, <1>6, <1>7, <1>8, <1>9
     DEF TickStep, NoFences, RecordFails, ReportFails, EndTick, Cancelled

(* So do the steps of everybody else.                                      *)
LEMMA OtherShape ==
  ASSUME TypeOK, DrawnOnce, [Next]_vars, NEW p \in Processes, Shape(p), ~TickStep(p)
  PROVE  Shape(p)'
<1>0. /\ tick[p] \in Tick /\ pc[p] = "event" <=> firing[p] \in Watches
  BY DEF TypeOK, PollerTypeOK
<1>1. \A w \in Watches : wstate[w] # "absent" => wstate'[w] # "absent" /\ row'[w] = row[w]
  BY RowsStay
<1>2. ASSUME tick'[p] = tick[p], firing'[p] = firing[p],
             pc'[p] = pc[p] \/ {pc[p], pc'[p]} \subseteq {"down", "idle"}
      PROVE  Shape(p)'
  <2>1. Snapped(p)' = Snapped(p)
    BY <1>2 DEF Snapped
  <2>2. /\ pc'[p] \in {"down", "idle", "fences"} => pc[p] \in {"down", "idle", "fences"}
        /\ pc'[p] \in {"watches", "fetch", "event"} => pc'[p] = pc[p]
    BY <1>2
  <2>3. \A w \in tick[p].armed : w \in Watches
    BY TickFields
  <2>4. QED
    BY <1>0, <1>1, <1>2, <2>1, <2>2, <2>3 DEF Shape
<1>3. CASE tick'[p] = BlankTick(tick[p].at) /\ pc'[p] = "down"
  <2>1. tick'[p] = BlankTick(tick'[p].at)
    BY <1>3 DEF BlankTick
  <2>2. QED
    BY <1>3, <2>1 DEF Shape, Snapped, BlankTick
<1>4. QED
  BY <1>2, <1>3, Bystanders DEF Bystander

(* The ticks of all processes, with the types and the ids they rest on.    *)
Shaped == \A p \in Processes : Shape(p)

TickInv == TypeOK /\ DrawnOnce /\ Shaped

(* A tick keeps its shape throughout.                                      *)
LEMMA TickInvariant == Safe => []TickInv
<1>1. Init => Shaped
  <2> SUFFICES ASSUME Init, NEW p \in Processes PROVE Shape(p)
    BY DEF Shaped
  <2>1. tick[p] = BlankTick(-1) /\ pc[p] = "down"
    BY DEF Init, PollerInit
  <2>2. tick[p] = BlankTick(tick[p].at)
    BY <2>1 DEF BlankTick
  <2>3. QED
    BY <2>1, <2>2 DEF Shape, Snapped, BlankTick
<1>2. TickInv /\ [Next]_vars => Shaped'
  BY OwnShape, OtherShape DEF TickInv, Shaped
<1>3. QED
  BY <1>1, <1>2, FiredInvariant, PTL DEF TickInv, FiredInv, Safe
-----------------------------------------------------------------------------
(* A fence that a tick loaded and that is gone, or a watch that is gone    *)
(* with it, was deleted after the fence was loaded: its id has a new       *)
(* incarnation.                                                            *)
Gone(p, f) == gen[f] > tick[p].gen[f]

Dated(p) ==
  /\ \A f \in Snapped(p) : tick[p].gen[f] <= gen[f] /\ (~Exists(f) => Gone(p, f))
  /\ \A w \in tick[p].armed :
       wstate[w] = "deleted" /\ row[w].fence \in Snapped(p) => Gone(p, row[w].fence)

(* Incarnations are counted up, and a fence goes only with one.            *)
LEMMA FencesStep ==
  ASSUME TypeOK, [Next]_vars, NEW f \in Fences
  PROVE  gen'[f] >= gen[f] /\ (Exists(f) /\ ~Exists(f)' => gen'[f] > gen[f])
<1>0. /\ gen \in [Fences -> Nat] /\ fence \in [Fences -> Places \cup {NoPlace}]
      /\ NoPlace \notin Places /\ HomePlace \in Places /\ Sites \in [Fences -> SUBSET Places]
  BY Assumptions DEF TypeOK, StoreTypeOK
<1>1. CASE UNCHANGED <<fence, gen>>
  BY <1>0, <1>1 DEF Exists
<1>2. ASSUME NEW g \in Fences, NEW place \in Places, SaveFence(g, place)
      PROVE  gen'[f] >= gen[f] /\ (Exists(f) /\ ~Exists(f)' => gen'[f] > gen[f])
  BY <1>0, <1>2 DEF SaveFence, Exists
<1>3. ASSUME NEW g \in Fences, deleteFence(g)
      PROVE  gen'[f] >= gen[f] /\ (Exists(f) /\ ~Exists(f)' => gen'[f] > gen[f])
  BY <1>0, <1>3 DEF deleteFence, DeleteFence, Exists
<1>4. CASE Handler
  BY <1>0, <1>1, <1>2, <1>3, <1>4
     DEF Handler, createWatch, resolveNamed, resolveHere, readBaseline, insertWatch,
         CreateWatch, requestFails, createFence, cancelWatch, SetState, SetStates,
         cancelAllWatches, CancelArmed, storeVars, fenceVars
<1>5. ASSUME NEW p \in Processes, TickStep(p) PROVE UNCHANGED <<fence, gen>>
  BY <1>5, OneTick
<1>6. ASSUME NEW p \in Processes, ProcessStep(p)
      PROVE  UNCHANGED <<fence, gen>> \/ SaveFence(Home, HomePlace)
  BY <1>6 DEF ProcessStep, Start, Sigterm, Exit, Crash, LoseConnection, Reconnect,
              storeVars, fenceVars
<1>7. QED
  BY <1>1, <1>2, <1>4, <1>5, <1>6, Assumptions
     DEF Next, World, Serve, Poll, Run, vars, storeVars, fenceVars

(* A step that leaves what a tick loaded alone keeps it dated.             *)
LEMMA StillDated ==
  ASSUME TickInv, [Next]_vars, NEW p \in Processes, Dated(p),
         tick'[p].snap = tick[p].snap, tick'[p].gen = tick[p].gen,
         tick'[p].armed = tick[p].armed
  PROVE  Dated(p)'
<1>0. /\ gen \in [Fences -> Nat] /\ gen' \in [Fences -> Nat] /\ tick[p].gen \in [Fences -> Nat]
  BY TickFields, TypeStep DEF TickInv, TypeOK, StoreTypeOK
<1>1. Snapped(p)' = Snapped(p) /\ Snapped(p) \subseteq Fences
  BY DEF Snapped
<1>2. \A f \in Snapped(p) : tick[p].gen[f] <= gen'[f] /\ (Exists(f)' \/ gen'[f] > tick[p].gen[f])
  BY <1>0, <1>1, FencesStep DEF TickInv, Dated, Gone
<1>3. ASSUME NEW w \in tick[p].armed, wstate'[w] = "deleted", row'[w].fence \in Snapped(p)
      PROVE  gen'[row'[w].fence] > tick[p].gen[row'[w].fence]
  <2>1. row'[w] = row[w] /\ w \in Watches
    BY TickFields, RowsStay DEF TickInv, Shaped, Shape
  <2> DEFINE f == row[w].fence
  <2>2. CASE wstate[w] = "deleted"
    BY <1>0, <1>1, <1>3, <2>1, <2>2, FencesStep DEF TickInv, Dated, Gone
  <2>3. CASE wstate[w] # "deleted"
    <3>1. ~Exists(f)'
      <4>1. deleteFence(f)
        BY <1>1, <1>3, <2>1, <2>3, DeletedByDelete DEF TickInv, WatchesOf
      <4>2. QED
        BY <1>1, <1>3, <2>1, <4>1 DEF deleteFence, DeleteFence, Exists, TickInv, TypeOK, StoreTypeOK
    <3>2. QED
      BY <1>2, <1>3, <2>1, <3>1
  <2>4. QED
    BY <2>2, <2>3
<1>4. QED
  BY <1>0, <1>1, <1>2, <1>3 DEF Dated, Gone

(* Nothing is loaded in a blank tick, and nothing of it has to be dated.   *)
LEMMA DatedStep ==
  ASSUME TickInv, [Next]_vars, NEW p \in Processes, Dated(p)
  PROVE  Dated(p)'
<1>0. /\ tick \in [Processes -> Tick] /\ tick[p] \in Tick /\ gen \in [Fences -> Nat]
  BY TickFields DEF TickInv, TypeOK, StoreTypeOK
<1>1. CASE tick'[p] = BlankTick(tick'[p].at)
  BY <1>1 DEF Dated, Snapped, BlankTick
<1>2. CASE /\ tick'[p].snap = tick[p].snap /\ tick'[p].gen = tick[p].gen
           /\ tick'[p].armed = tick[p].armed
  BY <1>2, StillDated
<1>3. CASE LoadFences(p)
  <2>1. tick'[p].snap = fence /\ tick'[p].gen = gen /\ tick'[p].armed = {}
        /\ gen' = gen /\ fence' = fence
    BY <1>0, <1>3, BlankFields
       DEF LoadFences, At, TickInv, Shaped, Shape, Tick, storeVars, fenceVars
  <2>2. QED
    BY <1>0, <2>1 DEF Dated, Snapped, Exists, Gone
<1>4. CASE LoadWatches(p)
  <2>1. /\ tick'[p].snap = tick[p].snap /\ tick'[p].gen = tick[p].gen
        /\ tick'[p].armed = ArmedWatches(tick[p].at)
        /\ UNCHANGED <<fence, gen, wstate, row>>
    BY <1>0, <1>4 DEF LoadWatches, Tick, storeVars, fenceVars, watchVars
  <2>2. QED
    BY <2>1 DEF Dated, Snapped, Exists, Gone, ArmedWatches
<1>5. CASE TickStep(p)
  <2>1. CASE Return(p)
    <3>1. tick'[p] = BlankTick(tick[p].at)
      BY <1>0, <2>1 DEF Return
    <3>2. QED
      BY <1>1, <3>1 DEF BlankTick
  <2>2. CASE BeginTick(p)
    <3>1. tick'[p] = BlankTick(clock)
      BY <1>0, <2>2 DEF BeginTick
    <3>2. QED
      BY <1>1, <3>1 DEF BlankTick
  <2>3. ASSUME NEW g \in Groups(p), FetchGroup(p, g) \/ FetchFails(p, g) PROVE Dated(p)'
    BY <1>0, <1>2, <2>3 DEF FetchGroup, FetchFails, Answered, Tick
  <2>4. ASSUME NEW f \in Fences, RecordFence(p, f) PROVE Dated(p)'
    BY <1>0, <1>2, <2>4 DEF RecordFence, Tick
  <2>5. ASSUME NEW w \in Watches, Pass(p, w) \/ HoldBack(p, w) \/ Fire(p, w)
        PROVE  Dated(p)'
    BY <1>0, <1>2, <2>5 DEF Pass, HoldBack, Fire, Drop, Tick
  <2>6. CASE Report(p)
    BY <1>0, <1>2, <2>6 DEF Report
  <2>7. QED
    BY <1>3, <1>4, <1>5, <2>1, <2>2, <2>3, <2>4, <2>5, <2>6
       DEF TickStep, NoFences, RecordFails, ReportFails, EndTick, Cancelled
<1>6. CASE ~TickStep(p)
  <2>1. CASE tick'[p] = BlankTick(tick[p].at)
    BY <1>1, <2>1 DEF BlankTick
  <2>2. QED
    BY <1>2, <1>6, <2>1, Bystanders DEF Bystander, TickInv
<1>7. QED
  BY <1>5, <1>6

(* Every tick is dated.                                                    *)
AllDated == \A p \in Processes : Dated(p)

(* They are, without any assumption.                                       *)
LEMMA DatedInvariant == Safe => []AllDated
<1>1. Init => AllDated
  BY DEF Init, PollerInit, BlankTick, AllDated, Dated, Snapped
<1>2. TickInv /\ AllDated /\ [Next]_vars => AllDated'
  BY DatedStep DEF AllDated
<1>3. QED
  BY <1>1, <1>2, TickInvariant, PTL DEF Safe

(* The ways a tick returns early with its context live, each with what     *)
(* must have happened for it.                                              *)
LEMMA CutShortDisturbed ==
  ASSUME TickInv, AllDated, NEW p \in Processes, TickStep(p), CutShort(p)
  PROVE  ~Undisturbed(p)
<1>0. /\ pc \in [Processes -> PCs] /\ Shape(p) /\ Dated(p) /\ live[p]
      /\ tick[p].gen \in [Fences -> Nat] /\ gen \in [Fences -> Nat]
  BY TickFields DEF TickInv, Shaped, AllDated, TypeOK, PollerTypeOK, StoreTypeOK, CutShort
<1>1. ASSUME NEW f \in Snapped(p), Gone(p, f) PROVE ~Undisturbed(p)
  <2>1. gen[f] \in Int /\ tick[p].gen[f] \in Int
    BY <1>0 DEF Snapped
  <2>2. tick[p].gen[f] # gen[f]
    BY <1>1, <2>1 DEF Gone
  <2>3. QED
    BY <1>1, <2>2 DEF Undisturbed
<1>2. ASSUME NEW f \in Fences, RecordFails(p, f) PROVE ~Undisturbed(p)
  <2>1. f \in Snapped(p)
    BY <1>0, <1>2 DEF RecordFails, Shape
  <2>2. CASE CanObserve(p, f)
    BY <1>2, <2>2 DEF RecordFails, Undisturbed
  <2>3. CASE ~CanObserve(p, f)
    BY <1>0, <1>1, <2>1, <2>3 DEF CanObserve, Dated
  <2>4. QED
    BY <2>2, <2>3
<1>3. CASE ReportFails(p)
  <2>1. firing[p] \in tick[p].armed /\ row[firing[p]].fence \in Snapped(p)
    BY <1>0, <1>3 DEF ReportFails, At, Shape
  <2>2. wstate[firing[p]] = "deleted"
    BY <1>0, <1>3, <2>1 DEF ReportFails, CanRecordEvent, Stored, Shape
  <2>3. QED
    BY <1>0, <1>1, <2>1, <2>2 DEF Dated
<1>4. ~NoFences(p) /\ ~EndTick(p)
  BY <1>0, BlankFields DEF NoFences, EndTick, CutShort, Shape, At
<1>5. ~Cancelled(p)
  BY <1>0 DEF Cancelled
<1>6. pc'[p] \in {"idle", "down"} /\ pc[p] \notin {"idle", "down"}
  BY DEF CutShort, InTick
<1>7. QED
  BY <1>0, <1>2, <1>3, <1>4, <1>5, <1>6
     DEF TickStep, BeginTick, LoadFences, LoadWatches, FetchGroup, FetchFails, Answered,
         RecordFence, Pass, HoldBack, Fire, Report, Goto

(* A tick gives up on fences whose query was answered only when one of     *)
(* them, or a watch on one, was deleted under it, or another process was   *)
(* at the database; a failed query alone never makes it.                   *)
THEOREM TicksServeHealthy == Safe => TickServesHealthy
<1>1. TickInv /\ AllDated =>
        \A p \in Processes : TickStep(p) /\ CutShort(p) => ~Undisturbed(p)
  BY CutShortDisturbed
<1>2. QED
  BY <1>1, TickInvariant, DatedInvariant, PTL DEF TickServesHealthy
-----------------------------------------------------------------------------
(* A watch that is over stays over, and only a fire dates one.             *)
LEMMA OverIsOver ==
  ASSUME TickInv, [Next]_vars, NEW w \in Watches, wstate[w] # "absent"
  PROVE  /\ wstate'[w] = "armed" => wstate[w] = "armed"
         /\ firedAt'[w] # firedAt[w] => \E p \in Processes : Fire(p, w)
<1>0. /\ wstate \in [Watches -> States] /\ firedAt \in [Watches -> Int]
      /\ firing \in [Processes -> Watches \cup {NoWatch}] /\ TypeOK /\ DrawnOnce
  BY DEF TickInv, TypeOK, StoreTypeOK, PollerTypeOK
<1>1. wstate'[w] = "armed" => wstate[w] = "armed"
  BY <1>0, StepEffects
     DEF Quiet, watchVars, Reported, Report, RecordEvent, Fired, Fire, MarkFired, Ended,
         Moved, Inserted, insertWatch, CreateWatch, DrawnOnce
<1>2. ASSUME ~ \E p \in Processes, x \in Watches : Fire(p, x) PROVE firedAt' = firedAt
  <2>1. CASE UNCHANGED storeVars
    BY <2>1 DEF storeVars, watchVars
  <2>2. CASE Handler
    BY <2>1, <2>2
       DEF Handler, createWatch, resolveNamed, resolveHere, SaveFence, readBaseline,
           insertWatch, CreateWatch, requestFails, createFence, deleteFence, DeleteFence,
           cancelWatch, SetState, SetStates, cancelAllWatches, CancelArmed, watchVars
  <2>3. ASSUME NEW p \in Processes, TickStep(p) PROVE firedAt' = firedAt
    BY <1>2, <2>1, <2>3
       DEF TickStep, BeginTick, ExpireWatches, SetStates, LoadFences, NoFences,
           LoadWatches, FetchGroup, FetchFails, Answered, RecordFence, Observe,
           RecordFails, Pass, HoldBack, Report, RecordEvent, ReportFails, EndTick,
           Cancelled, watchVars
  <2>4. ASSUME NEW p \in Processes, ProcessStep(p) PROVE firedAt' = firedAt
    BY <2>1, <2>4
       DEF ProcessStep, Start, SaveFence, Sigterm, Exit, Crash, LoseConnection, Reconnect,
           watchVars
  <2>5. QED
    BY <2>1, <2>2, <2>3, <2>4 DEF Next, World, Serve, Poll, Run, vars
<1>3. ASSUME NEW p \in Processes, NEW x \in Watches, Fire(p, x), x # w
      PROVE  firedAt'[w] = firedAt[w]
  BY <1>0, <1>3 DEF Fire, MarkFired
<1>4. QED
  BY <1>1, <1>2, <1>3

(* A loaded watch that has something to report is still to be looked at,   *)
(* or is over, or has fired since the tick began.                          *)
DealtWith(p, w) ==
  row[w].kind = "appearance" /\ Hits(p, w) # {} =>
    \/ row[w].fence \in tick[p].todo
    \/ w \in tick[p].job
    \/ wstate[w] # "armed"
    \/ firedAt[w] >= tick[p].at

Attentive(p) == \A w \in tick[p].armed : DealtWith(p, w)

(* A step that neither answers a query nor serves keeps a tick attentive.  *)
LEMMA StillAttentive ==
  ASSUME TickInv, [Next]_vars, NEW p \in Processes, Attentive(p),
         tick'[p] = tick[p], \A q \in Processes, w \in Watches : ~Fire(q, w)
  PROVE  Attentive(p)'
<1> SUFFICES ASSUME NEW w \in tick[p].armed PROVE DealtWith(p, w)'
  BY DEF Attentive
<1>1. w \in Watches /\ wstate[w] # "absent"
  BY TickFields DEF TickInv, Shaped, Shape
<1>2. row'[w] = row[w]
  BY <1>1, RowsStay DEF TickInv
<1>3. wstate[w] # "armed" => wstate'[w] # "armed"
  BY <1>1, OverIsOver
<1>4. firedAt'[w] = firedAt[w]
  BY <1>1, OverIsOver
<1>5. DealtWith(p, w) /\ Hits(p, w)' = Hits(p, w)
  BY <1>2 DEF Attentive, Hits, Matching
<1>6. QED
  BY <1>2, <1>3, <1>4, <1>5 DEF DealtWith

(* The only process keeps its tick attentive.                              *)
LEMMA AttentiveStep ==
  ASSUME Processes = {Daemon}, TickInv, [Next]_vars, NEW p \in Processes, Attentive(p)
  PROVE  Attentive(p)'
<1>0. /\ tick \in [Processes -> Tick] /\ tick[p] \in Tick /\ Shape(p)
      /\ firedAt \in [Watches -> Int] /\ tick[p].armed \in SUBSET Watches
  BY TickFields DEF TickInv, TypeOK, StoreTypeOK, Shaped
<1>1. CASE tick'[p] = BlankTick(tick'[p].at)
  BY <1>1 DEF Attentive, BlankTick
<1>2. ASSUME tick'[p] = tick[p], \A w \in Watches : ~Fire(p, w) PROVE Attentive(p)'
  BY <1>2, StillAttentive
<1>3. CASE LoadFences(p)
  <2>1. tick'[p].armed = {}
    BY <1>0, <1>3, BlankFields DEF LoadFences, At, Shape, Tick
  <2>2. QED
    BY <2>1 DEF Attentive
<1>4. CASE LoadWatches(p)
  <2>1. tick'[p].got = tick[p].got /\ row' = row
        /\ tick'[p].armed = ArmedWatches(tick[p].at) /\ \A f \in Fences : tick[p].got[f] = {}
    BY <1>0, <1>4 DEF LoadWatches, At, Shape, Tick, storeVars, watchVars
  <2>2. \A w \in tick'[p].armed : row[w] \in Row
    BY <2>1 DEF ArmedWatches, TickInv, TypeOK, StoreTypeOK
  <2>3. ASSUME NEW w \in tick'[p].armed, row[w].kind = "appearance" PROVE Hits(p, w)' = {}
    BY <2>1, <2>2, <2>3 DEF Hits, Matching, Row
  <2>4. QED
    BY <2>1, <2>3 DEF Attentive, DealtWith
<1>5. ASSUME NEW g \in Groups(p), FetchGroup(p, g) \/ FetchFails(p, g)
      PROVE  Attentive(p)'
  <2>1. PICK served \in SUBSET g, seen \in [g -> SUBSET Vehicles] :
           Answered(p, g, served, seen)
           /\ (served = g \/ seen = [f \in g |-> {}])
    BY <1>5 DEF FetchGroup, FetchFails, Answers
  <2>2. /\ tick'[p].todo = tick[p].todo \cup served /\ tick'[p].job = tick[p].job
        /\ tick'[p].armed = tick[p].armed /\ tick'[p].at = tick[p].at
        /\ tick'[p].got = [f \in Fences |-> IF f \in g THEN seen[f] ELSE tick[p].got[f]]
        /\ UNCHANGED <<wstate, row, firedAt>>
    BY <1>0, <2>1 DEF Answered, Tick, storeVars, watchVars
  <2>3. ASSUME NEW w \in tick[p].armed PROVE DealtWith(p, w)'
    <3>1. row[w].fence \in Fences
      BY <1>0 DEF Shape, TickInv, TypeOK, StoreTypeOK, Row
    <3>2. CASE row[w].fence \notin g
      <4>1. Hits(p, w)' = Hits(p, w)
        BY <2>2, <3>1, <3>2 DEF Hits, Matching
      <4>2. QED
        BY <2>2, <2>3, <4>1 DEF DealtWith, Attentive
    <3>3. CASE row[w].fence \in g /\ served = g
      BY <2>2, <3>3 DEF DealtWith
    <3>4. CASE row[w].fence \in g /\ seen = [f \in g |-> {}]
      <4>1. row[w].kind = "appearance" => Hits(p, w)' = {}
        BY <2>2, <3>1, <3>4 DEF Hits, Matching
      <4>2. QED
        BY <2>2, <4>1 DEF DealtWith
    <3>5. QED
      BY <2>1, <3>2, <3>3, <3>4
  <2>4. QED
    BY <2>2, <2>3 DEF Attentive
<1>6. ASSUME NEW f \in Fences, RecordFence(p, f) PROVE Attentive(p)'
  <2>1. /\ tick'[p].todo = tick[p].todo \ {f} /\ tick[p].job = {}
        /\ tick'[p].job = {w \in tick[p].armed : row[w].fence = f}
        /\ tick'[p].armed = tick[p].armed /\ tick'[p].at = tick[p].at
        /\ tick'[p].got = tick[p].got
        /\ UNCHANGED <<wstate, row, firedAt>>
    BY <1>0, <1>6 DEF RecordFence, Observe, Tick, watchVars
  <2>2. QED
    BY <2>1 DEF Attentive, DealtWith, Hits, Matching
<1>7. ASSUME NEW w \in Watches, Pass(p, w) \/ HoldBack(p, w) \/ Fire(p, w)
      PROVE  Attentive(p)'
  <2>0. tick'[p] = [tick[p] EXCEPT !.job = @ \ {w}]
    BY <1>0, <1>7 DEF Pass, HoldBack, Fire, Drop
  <2>1. /\ tick'[p].todo = tick[p].todo /\ tick'[p].job = tick[p].job \ {w}
        /\ tick'[p].armed = tick[p].armed /\ tick'[p].at = tick[p].at
        /\ tick'[p].got = tick[p].got /\ row' = row /\ tick[p].at \in Int
    BY <1>0, <1>7, <2>0 DEF Tick, Pass, HoldBack, Fire, MarkFired, storeVars, watchVars
  <2>2. ASSUME NEW x \in tick[p].armed PROVE DealtWith(p, x)'
    <3>1. Hits(p, x)' = Hits(p, x) /\ DealtWith(p, x)
      BY <2>1 DEF Hits, Matching, Attentive
    <3>2. CASE Fire(p, w)
      <4>1. firedAt' = [firedAt EXCEPT ![w] = tick[p].at]
            /\ wstate' = [wstate EXCEPT ![w] = IF row[w].repeat THEN @ ELSE "fired"]
        BY <3>2 DEF Fire, MarkFired
      <4>2. x # w => wstate'[x] = wstate[x] /\ firedAt'[x] = firedAt[x]
        BY <4>1, <1>0 DEF TickInv, TypeOK, StoreTypeOK
      <4>3. x = w => firedAt'[x] = tick[p].at
        BY <4>1, <1>0
      <4>4. QED
        BY <2>1, <3>1, <4>2, <4>3 DEF DealtWith
    <3>3. CASE Pass(p, w) \/ HoldBack(p, w)
      <4>1. UNCHANGED <<wstate, firedAt>>
        BY <3>3 DEF Pass, HoldBack, storeVars, watchVars
      <4>2. row[w].kind = "appearance" => Hits(p, w) = {} \/ wstate[w] # "armed"
        BY <3>3 DEF Pass, HoldBack, Matches
      <4>3. QED
        BY <2>1, <3>1, <4>1, <4>2 DEF DealtWith
    <3>4. QED
      BY <1>7, <3>2, <3>3
  <2>3. QED
    BY <2>1, <2>2 DEF Attentive
<1>8. CASE Report(p)
  <2>1. tick' = tick /\ \A w \in Watches : ~Fire(p, w)
    BY <1>8 DEF Report, Fire, Evaluating, At
  <2>2. QED
    BY <1>2, <2>1
<1>9. CASE Return(p) \/ BeginTick(p)
  <2>1. ASSUME NEW at, tick'[p] = BlankTick(at) PROVE Attentive(p)'
    BY <1>1, <2>1 DEF BlankTick
  <2>2. tick'[p] = BlankTick(tick[p].at) \/ tick'[p] = BlankTick(clock)
    BY <1>0, <1>9 DEF Return, BeginTick
  <2>3. QED
    BY <2>1, <2>2
<1>10. CASE ~TickStep(p)
  <2>1. CASE tick'[p] = BlankTick(tick[p].at)
    BY <1>1, <2>1 DEF BlankTick
  <2>2. \A w \in Watches : ~Fire(p, w)
    BY <1>10 DEF TickStep
  <2>3. QED
    BY <1>2, <1>10, <2>1, <2>2, Bystanders DEF Bystander, TickInv
<1>11. QED
  BY <1>3, <1>4, <1>5, <1>6, <1>7, <1>8, <1>9, <1>10
     DEF TickStep, NoFences, RecordFails, ReportFails, EndTick, Cancelled

(* All ticks are, when there is but one.                                   *)
AllAttentive == \A p \in Processes : Attentive(p)

(* A tick of a daemon that has the database to itself misses nothing.  (A  *)
(* second process with an older time could fire the watch later and put    *)
(* its firedAt back to before this tick.)                                  *)
THEOREM TicksMissNothing ==
  ASSUME Processes = {Daemon}
  PROVE  Safe => MissesNothing
<1>1. Init => AllAttentive
  BY DEF Init, PollerInit, BlankTick, AllAttentive, Attentive
<1>2. TickInv /\ AllAttentive /\ [Next]_vars => AllAttentive'
  BY AttentiveStep DEF AllAttentive
<1>3. TickInv /\ AllAttentive =>
        \A p \in Processes, w \in Watches : EndTick(p) => ~Missed(p, w)
  <2> SUFFICES ASSUME TickInv, AllAttentive, NEW p \in Processes, NEW w \in Watches,
                      EndTick(p), Missed(p, w)
               PROVE  FALSE
    OBVIOUS
  <2>1. DealtWith(p, w) /\ tick[p].todo = {} /\ tick[p].job = {}
    BY DEF AllAttentive, Attentive, Missed, EndTick
  <2>2. firedAt[w] \in Int /\ tick[p].at \in Int
    BY TickFields DEF TickInv, TypeOK, StoreTypeOK
  <2>3. QED
    BY <2>1, <2>2 DEF DealtWith, Missed
<1>4. QED
  BY <1>1, <1>2, <1>3, TickInvariant, PTL DEF Safe, MissesNothing
-----------------------------------------------------------------------------
(* Where a fence id is, or was when it was last in the table, as long as   *)
(* nobody moves a fence: the place that the ticks, the requests and the    *)
(* watches that name the id go by.                                         *)
Site == [Fences -> Places \cup {NoPlace}]

Covers(w, place, wants, baseline) ==
  \A v \in still[w] \cap wants : pos[v] = place => v \in baseline

Laid(site) == \A f \in Fences : fence[f] \in {NoPlace, site[f]}

TicksKnow(site) ==
  \A p \in Processes, f \in Fences : tick[p].snap[f] \in {NoPlace, site[f]}

CallsKnow(site) ==
  \A c \in Clients :
    /\ call[c].stage = "resolved" => call[c].place = site[call[c].fence]
    /\ call[c].stage = "ready" =>
         /\ site[call[c].fence] # NoPlace
         /\ Covers(call[c].watch, site[call[c].fence], call[c].req.wants, call[c].baseline)

RowsKnow(site) ==
  \A w \in Watches : wstate[w] # "absent" =>
    /\ site[row[w].fence] # NoPlace
    /\ Covers(w, site[row[w].fence], row[w].wants, row[w].baseline)

HomeKnown(site) ==
  /\ site[Home] \in {NoPlace, HomePlace}
  /\ pc[Daemon] # "down" => site[Home] = HomePlace

Known(site) ==
  TicksKnow(site) /\ CallsKnow(site) /\ RowsKnow(site) /\ HomeKnown(site)

Steady ==
  \E site \in Site :
    /\ Laid(site) /\ Known(site)
    /\ \A f \in Fences : gen[f] = 0 => fence[f] = site[f]

(* What has not moved since a baseline was read stays in one place.        *)
LEMMA StillKept ==
  ASSUME TypeOK, [Next]_vars, NEW w \in Watches, ~ \E c \in Clients : readBaseline(c, w)
  PROVE  \A v \in still'[w] : v \in still[w] /\ pos'[v] = pos[v]
<1>0. still \in [Watches -> SUBSET Vehicles] /\ pos \in [Vehicles -> Places \cup {Elsewhere}]
  BY DEF TypeOK, WorldTypeOK
<1>1. CASE UNCHANGED worldVars
  BY <1>1 DEF worldVars
<1>2. CASE Environment
  BY <1>0, <1>2 DEF Environment, ClockTick, Move
<1>3. ASSUME NEW c \in Clients, NEW x \in Watches, readBaseline(c, x)
      PROVE  \A v \in still'[w] : v \in still[w] /\ pos'[v] = pos[v]
  BY <1>0, <1>3 DEF readBaseline
<1>4. CASE Handler
  BY <1>1, <1>3, <1>4
     DEF Handler, createWatch, resolveNamed, resolveHere, insertWatch, requestFails,
         createFence, deleteFence, cancelWatch, cancelAllWatches
<1>5. ASSUME NEW p \in Processes, TickStep(p) PROVE UNCHANGED worldVars
  BY <1>5, OneTick
<1>6. ASSUME NEW p \in Processes, ProcessStep(p) PROVE UNCHANGED worldVars
  BY <1>6 DEF ProcessStep, Start, Sigterm, Exit, Crash, LoseConnection
<1>7. QED
  BY <1>1, <1>2, <1>4, <1>5, <1>6 DEF Next, World, Serve, Poll, Run, vars

(* The snapshot of a tick changes when the fences are loaded, and is lost. *)
LEMMA SnapStep ==
  ASSUME TypeOK, [Next]_vars, NEW p \in Processes, NEW f \in Fences
  PROVE  tick'[p].snap[f] \in {NoPlace, tick[p].snap[f], fence[f]}
<1>0. tick \in [Processes -> Tick] /\ tick[p] \in Tick
  BY TickFields
<1>1. ASSUME NEW at, tick'[p] = BlankTick(at)
      PROVE  tick'[p].snap[f] \in {NoPlace, tick[p].snap[f], fence[f]}
  BY <1>1 DEF BlankTick
<1>2. CASE tick'[p].snap = tick[p].snap
  BY <1>2
<1>3. CASE TickStep(p)
  <2>1. CASE Return(p) \/ BeginTick(p)
    <3>1. tick'[p] = BlankTick(tick[p].at) \/ tick'[p] = BlankTick(clock)
      BY <1>0, <2>1 DEF Return, BeginTick
    <3>2. QED
      BY <1>1, <3>1
  <2>2. CASE LoadFences(p)
    BY <1>0, <2>2 DEF LoadFences, Tick
  <2>3. CASE LoadWatches(p)
    BY <1>0, <1>2, <2>3 DEF LoadWatches, Tick
  <2>4. ASSUME NEW g \in Groups(p), FetchGroup(p, g) \/ FetchFails(p, g)
        PROVE  tick'[p].snap = tick[p].snap
    BY <1>0, <2>4 DEF FetchGroup, FetchFails, Answered, Tick
  <2>5. ASSUME NEW x \in Fences, RecordFence(p, x) PROVE tick'[p].snap = tick[p].snap
    BY <1>0, <2>5 DEF RecordFence, Tick
  <2>6. ASSUME NEW w \in Watches, Pass(p, w) \/ HoldBack(p, w) \/ Fire(p, w)
        PROVE  tick'[p].snap = tick[p].snap
    BY <1>0, <2>6 DEF Pass, HoldBack, Fire, Drop, Tick
  <2>7. CASE Report(p)
    BY <1>2, <2>7 DEF Report
  <2>8. QED
    BY <1>2, <1>3, <2>1, <2>2, <2>3, <2>4, <2>5, <2>6, <2>7
       DEF TickStep, NoFences, RecordFails, ReportFails, EndTick, Cancelled
<1>4. CASE ~TickStep(p)
  BY <1>1, <1>2, <1>4, Bystanders DEF Bystander
<1>5. QED
  BY <1>3, <1>4

(* A step from a known site to a site that still agrees with the fences    *)
(* keeps it known: to the requests,                                        *)
LEMMA CallsStep ==
  ASSUME "blink" \notin Env, TickInv, [Next]_vars, NEW site \in Site,
         Laid(site), Known(site), Laid(site)'
  PROVE  CallsKnow(site)'
<1>0. /\ call \in [Clients -> CallType] /\ still \in [Watches -> SUBSET Vehicles]
      /\ pos \in [Vehicles -> Places \cup {Elsewhere}]
      /\ fence \in [Fences -> Places \cup {NoPlace}]
  BY DEF TickInv, TypeOK, ApiTypeOK, WorldTypeOK, StoreTypeOK
<1>1. ASSUME NEW c \in Clients, call'[c] = call[c] PROVE
         /\ call'[c].stage = "resolved" => call'[c].place = site[call'[c].fence]
         /\ call'[c].stage = "ready" =>
              /\ site[call'[c].fence] # NoPlace
              /\ Covers(call[c].watch, site[call[c].fence], call[c].req.wants, call[c].baseline)'
  <2>1. CASE call[c].stage = "ready"
    <3>1. call[c].watch \in Watches
      BY <1>0, <2>1 DEF CallType, NoCall
    <3>2. ~ \E d \in Clients : readBaseline(d, call[c].watch)
      BY <2>1 DEF readBaseline, FreshWatch
    <3>3. \A v \in still'[call[c].watch] : v \in still[call[c].watch] /\ pos'[v] = pos[v]
      BY <3>1, <3>2, StillKept DEF TickInv
    <3>4. QED
      BY <1>1, <2>1, <3>3 DEF Known, CallsKnow, Covers
  <2>2. QED
    BY <1>1, <2>1 DEF Known, CallsKnow
<1>2. ASSUME \A c \in Clients : call'[c] = call[c] \/ call'[c] = NoCall
      PROVE  CallsKnow(site)'
  BY <1>1, <1>2 DEF CallsKnow, NoCall
<1>3. ASSUME NEW c \in Clients, NEW r \in Requests, NEW f \in Fences, resolveNamed(c, f, r)
      PROVE  CallsKnow(site)'
  <2>1. call'[c].stage = "resolved" /\ call'[c].fence = f /\ call'[c].place = fence[f]
        /\ fence[f] # NoPlace
    BY <1>0, <1>3 DEF resolveNamed, SetCall, Exists
  <2>2. \A d \in Clients \ {c} : call'[d] = call[d]
    BY <1>0, <1>3 DEF resolveNamed, SetCall
  <2>3. QED
    BY <1>1, <2>1, <2>2 DEF CallsKnow, Laid
<1>4. ASSUME NEW c \in Clients, NEW r \in Requests, NEW f \in Fences,
             NEW place \in Sites[f], resolveHere(c, f, place, r)
      PROVE  CallsKnow(site)'
  <2>1. call'[c].stage = "resolved" /\ call'[c].fence = f /\ call'[c].place = fence'[f]
        /\ fence'[f] # NoPlace
    BY <1>0, <1>4, Assumptions DEF resolveHere, SaveFence, SetCall
  <2>2. \A d \in Clients \ {c} : call'[d] = call[d]
    BY <1>0, <1>4 DEF resolveHere, SetCall
  <2>3. QED
    BY <1>1, <2>1, <2>2 DEF CallsKnow, Laid
<1>5. ASSUME NEW c \in Clients, NEW w \in Watches, readBaseline(c, w)
      PROVE  CallsKnow(site)'
  <2>1. call[c].stage = "resolved" /\ call[c].place \in Places
    BY <1>0, <1>5 DEF readBaseline, CallType, NoCall
  <2> DEFINE place == call[c].place
             wants == call[c].req.wants
             there == {v \in Vehicles : pos[v] = place}
  <2>2. call'[c] = [stage |-> "ready", fence |-> call[c].fence, req |-> call[c].req,
                    watch |-> w, baseline |-> there \cap wants]
    BY <1>0, <1>5 DEF readBaseline, SetCall, Answers
  <2>3. \A d \in Clients \ {c} : call'[d] = call[d]
    BY <1>0, <1>5 DEF readBaseline, SetCall
  <2>4. pos' = pos /\ still'[w] = Vehicles
    BY <1>0, <1>5 DEF readBaseline
  <2>5. place = site[call[c].fence] /\ place # NoPlace
    BY <2>1, Assumptions DEF Known, CallsKnow
  <2>6. /\ call'[c].stage = "ready" /\ site[call'[c].fence] # NoPlace
        /\ Covers(call[c].watch, site[call[c].fence], call[c].req.wants, call[c].baseline)'
    BY <2>2, <2>4, <2>5 DEF Covers
  <2>7. QED
    BY <1>1, <2>3, <2>6 DEF CallsKnow
<1>6. ASSUME NEW c \in Clients, insertWatch(c) \/ requestFails(c)
      PROVE  CallsKnow(site)'
  BY <1>0, <1>2, <1>6 DEF insertWatch, requestFails, SetCall
<1>7. CASE UNCHANGED call
  BY <1>2, <1>7
<1>8. ASSUME NEW p \in Processes, HangUp(p) PROVE CallsKnow(site)'
  BY <1>2, <1>8 DEF HangUp
<1>9. QED
  BY <1>3, <1>4, <1>5, <1>6, <1>7, <1>8
     DEF Next, World, Serve, Handler, createWatch, createFence, deleteFence, cancelWatch,
         cancelAllWatches, Poll, Run, vars

(* and to the watches.                                                     *)
LEMMA RowsStep ==
  ASSUME TickInv, [Next]_vars, NEW site \in Site, Known(site)
  PROVE  RowsKnow(site)'
<1> SUFFICES ASSUME NEW w \in Watches, wstate'[w] # "absent"
             PROVE  /\ site[row'[w].fence] # NoPlace
                    /\ Covers(w, site[row[w].fence], row[w].wants, row[w].baseline)'
  BY DEF RowsKnow
<1>0. call \in [Clients -> CallType] /\ row \in [Watches -> Row \cup {NoRow}]
  BY DEF TickInv, TypeOK, ApiTypeOK, StoreTypeOK
<1>1. CASE wstate[w] # "absent"
  <2>1. row'[w] = row[w]
    BY <1>1, RowsStay DEF TickInv
  <2>2. \A v \in still'[w] : v \in still[w] /\ pos'[v] = pos[v]
    BY <1>1, StillKept DEF TickInv, readBaseline, FreshWatch
  <2>3. QED
    BY <1>1, <2>1, <2>2 DEF Known, RowsKnow, Covers
<1>2. CASE wstate[w] = "absent"
  <2>1. PICK c \in Clients : insertWatch(c) /\ call[c].watch = w
    BY <1>2, AbsentStays DEF TickInv
  <2>2. /\ row'[w].fence = call[c].fence /\ row'[w].wants = call[c].req.wants
        /\ row'[w].baseline = call[c].baseline
    BY <1>0, <2>1 DEF insertWatch, CreateWatch, NewRow
  <2>3. UNCHANGED <<pos, still>> /\ call[c].stage = "ready"
    BY <2>1 DEF insertWatch, worldVars
  <2>4. QED
    BY <2>1, <2>2, <2>3 DEF Known, CallsKnow, Covers
<1>3. QED
  BY <1>1, <1>2

(* With the ticks, a step keeps all that goes by a site.                   *)
LEMMA KnownStep ==
  ASSUME "blink" \notin Env, TickInv, [Next]_vars, NEW site \in Site,
         Laid(site), Known(site), Laid(site)', HomeKnown(site)'
  PROVE  Known(site)'
<1>1. TicksKnow(site)'
  BY SnapStep DEF TickInv, Laid, Known, TicksKnow
<1>2. QED
  BY <1>1, CallsStep, RowsStep DEF Known

(* A place can be given to an id that has none: nothing goes by it yet.    *)
LEMMA SiteChosen ==
  ASSUME TickInv, NEW site \in Site, Laid(site), Known(site), NEW f \in Fences,
         NEW place \in Places, site[f] = NoPlace, f = Home => place = HomePlace
  PROVE  /\ [site EXCEPT ![f] = place] \in Site
         /\ Laid([site EXCEPT ![f] = place]) /\ Known([site EXCEPT ![f] = place])
<1> DEFINE new == [site EXCEPT ![f] = place]
<1>0. /\ call \in [Clients -> CallType] /\ NoPlace \notin Places /\ Home \in Fences
      /\ \A w \in Watches : wstate[w] # "absent" => row[w] \in Row
      /\ HomePlace \in Places
  BY Assumptions DEF TickInv, TypeOK, ApiTypeOK, StoreTypeOK
<1>1. /\ new \in Site /\ new[f] = place /\ \A g \in Fences \ {f} : new[g] = site[g]
  BY DEF Site
<1> HIDE DEF new
<1>2. Laid(new)
  BY <1>1 DEF Laid
<1>3. TicksKnow(new)
  BY <1>1 DEF Known, TicksKnow
<1>4. ASSUME NEW c \in Clients
      PROVE  /\ call[c].stage = "resolved" => call[c].place = new[call[c].fence]
             /\ call[c].stage = "ready" =>
                  /\ new[call[c].fence] # NoPlace
                  /\ Covers(call[c].watch, new[call[c].fence], call[c].req.wants,
                            call[c].baseline)
  <2>1. CASE call[c].stage = "resolved"
    <3>1. call[c].fence \in Fences /\ call[c].place \in Places
      BY <1>0, <2>1 DEF CallType, NoCall
    <3>2. call[c].fence # f
      BY <1>0, <2>1, <3>1 DEF Known, CallsKnow
    <3>3. QED
      BY <1>1, <2>1, <3>1, <3>2 DEF Known, CallsKnow
  <2>2. CASE call[c].stage = "ready"
    <3>1. call[c].fence \in Fences /\ call[c].fence # f
      BY <1>0, <2>2 DEF CallType, NoCall, Known, CallsKnow
    <3>2. QED
      BY <1>1, <2>2, <3>1 DEF Known, CallsKnow
  <2>3. QED
    BY <2>1, <2>2
<1>5. RowsKnow(new)
  <2>1. ASSUME NEW w \in Watches, wstate[w] # "absent"
        PROVE  row[w].fence \in Fences /\ row[w].fence # f
    BY <1>0, <2>1 DEF Known, RowsKnow, Row
  <2>2. QED
    BY <1>1, <2>1 DEF Known, RowsKnow
<1>6. HomeKnown(new)
  BY <1>0, <1>1 DEF Known, HomeKnown
<1>7. Known(new)
  BY <1>3, <1>4, <1>5, <1>6 DEF Known, CallsKnow
<1>8. QED
  BY <1>1, <1>2, <1>7 DEF new
(* Every step leaves ids where they are, or gives one to an id that never  *)
(* had any: the home fence when the daemon starts for the first time, and  *)
(* the fence of a request "here".                                          *)
LEMMA SteadyStep ==
  ASSUME "blink" \notin Env, "save" \notin Env, TickInv, Steady, [Next]_vars
  PROVE  Steady'
<1> PICK site \in Site : /\ Laid(site) /\ Known(site)
                         /\ \A f \in Fences : gen[f] = 0 => fence[f] = site[f]
  BY DEF Steady
<1>0. /\ fence \in [Fences -> Places \cup {NoPlace}] /\ gen \in [Fences -> Nat]
      /\ pc \in [Processes -> PCs] /\ NoPlace \notin Places /\ HomePlace \in Places
      /\ Home \in Fences /\ Daemon \in Processes /\ Server = Daemon
      /\ Sites \in [Fences -> SUBSET Places]
  BY Assumptions DEF TickInv, TypeOK, StoreTypeOK, PollerTypeOK
<1>1. ASSUME fence' = fence \/ \E f \in Fences : fence' = [fence EXCEPT ![f] = NoPlace] /\ gen'[f] # 0,
             \A f \in Fences : gen'[f] = 0 => gen[f] = 0,
             pc'[Daemon] = "down" \/ pc[Daemon] # "down"
      PROVE  Steady'
  <2>1. Laid(site)' /\ \A f \in Fences : gen'[f] = 0 => fence'[f] = site[f]
    BY <1>0, <1>1 DEF Laid
  <2>2. HomeKnown(site)'
    BY <1>1 DEF Known, HomeKnown
  <2>3. Known(site)'
    BY <2>1, <2>2, KnownStep
  <2>4. QED
    BY <2>1, <2>3 DEF Steady
<1>2. ASSUME NEW f \in Fences, NEW place \in Places, gen' = gen,
             fence' = [fence EXCEPT ![f] = place],
             site[f] \in {NoPlace, place}, f = Home => place = HomePlace,
             pc'[Daemon] = "down" \/ pc[Daemon] # "down" \/ f = Home
      PROVE  Steady'
  <2> DEFINE new == [site EXCEPT ![f] = place]
  <2>1. new \in Site /\ Laid(new) /\ Known(new)
    <3>1. CASE site[f] = NoPlace
      BY <1>2, <3>1, SiteChosen
    <3>2. CASE site[f] = place
      BY <3>2 DEF Site
    <3>3. QED
      BY <1>2, <3>1, <3>2
  <2>2. new[f] = place /\ \A g \in Fences \ {f} : new[g] = site[g]
    BY DEF Site
  <2> HIDE DEF new
  <2>3. Laid(new)' /\ \A g \in Fences : gen'[g] = 0 => fence'[g] = new[g]
    BY <1>0, <1>2, <2>1, <2>2 DEF Laid
  <2>4. HomeKnown(new)'
    BY <1>0, <1>2, <2>1, <2>2 DEF Known, HomeKnown
  <2>5. Known(new)'
    BY <2>1, <2>3, <2>4, KnownStep
  <2>6. QED
    BY <2>1, <2>3, <2>5 DEF Steady
<1>3. CASE Serve
  <2>1. pc' = pc /\ pc[Daemon] # "down" /\ Handler
    BY <1>3 DEF Serve, pollVars
  <2>2. CASE UNCHANGED <<fence, gen>>
    BY <1>1, <2>1, <2>2
  <2>3. ASSUME NEW c, NEW r, NEW f \in Fences, NEW place \in Sites[f],
               resolveHere(c, f, place, r)
        PROVE  Steady'
    <3>1. /\ gen' = gen /\ fence' = [fence EXCEPT ![f] = place] /\ place \in Places
          /\ site[f] = NoPlace
      BY <1>0, <2>3 DEF resolveHere, SaveFence, Exists
    <3>2. f # Home
      BY <1>0, <2>1, <3>1 DEF Known, HomeKnown
    <3>3. QED
      BY <1>2, <2>1, <3>1, <3>2
  <2>4. ASSUME NEW f \in Fences, deleteFence(f) PROVE Steady'
    <3>1. \/ UNCHANGED <<fence, gen>>
          \/ fence' = [fence EXCEPT ![f] = NoPlace] /\ gen' = [gen EXCEPT ![f] = @ + 1]
      BY <1>0, <2>4 DEF deleteFence, DeleteFence, Exists
    <3>2. QED
      BY <1>0, <1>1, <2>1, <3>1
  <2>5. QED
    BY <2>1, <2>2, <2>3, <2>4
       DEF Handler, createWatch, resolveNamed, readBaseline, insertWatch, CreateWatch,
           requestFails, createFence, cancelWatch, SetState, SetStates, cancelAllWatches,
           CancelArmed, storeVars, fenceVars
<1>4. ASSUME NEW p \in Processes, TickStep(p) PROVE Steady'
  <2>1. UNCHANGED <<fence, gen>> /\ pc[p] # "down"
        /\ \A q \in Processes \ {p} : pc'[q] = pc[q]
    BY <1>4, OneTick DEF TickInv
  <2>2. QED
    BY <1>0, <1>1, <2>1
<1>5. ASSUME NEW p \in Processes, Start(p) PROVE Steady'
  <2>1. /\ gen' = gen /\ fence' = [fence EXCEPT ![Home] = HomePlace]
    BY <1>5 DEF Start, SaveFence
  <2>2. site[Home] \in {NoPlace, HomePlace}
    BY DEF Known, HomeKnown
  <2>3. QED
    BY <1>0, <1>2, <2>1, <2>2
<1>6. ASSUME NEW p \in Processes, ProcessStep(p), ~Start(p) PROVE Steady'
  <2>1. UNCHANGED <<fence, gen>> /\ (pc'[Daemon] = "down" \/ pc[Daemon] # "down")
    BY <1>0, <1>6
       DEF ProcessStep, Sigterm, Exit, Crash, LoseConnection, Reconnect, Goto, pollVars,
           storeVars, fenceVars
  <2>2. QED
    BY <1>1, <2>1
<1>7. CASE World \/ UNCHANGED vars
  BY <1>1, <1>7 DEF World, vars, storeVars, fenceVars, pollVars
<1>8. QED
  BY <1>3, <1>4, <1>5, <1>6, <1>7 DEF Next, Poll, Run

(* What a tick has seen in a fence and has not moved since the baseline of *)
(* a watch is in that baseline.                                            *)
Familiar(p) ==
  \A w \in tick[p].armed :
    tick[p].got[row[w].fence] \cap row[w].wants \cap still[w] \subseteq row[w].baseline

(* It stays so as long as no fence is moved.                               *)
LEMMA FamiliarStep ==
  ASSUME TickInv, Steady, [Next]_vars, NEW p \in Processes, Familiar(p)
  PROVE  Familiar(p)'
<1>0. /\ tick \in [Processes -> Tick] /\ tick[p] \in Tick /\ Shape(p)
      /\ tick[p].armed \in SUBSET Watches
  BY TickFields DEF TickInv, Shaped
<1>1. ASSUME NEW at, tick'[p] = BlankTick(at) PROVE Familiar(p)'
  BY <1>1 DEF Familiar, BlankTick
<1>2. ASSUME NEW w \in tick[p].armed
      PROVE  /\ row'[w] = row[w] /\ row[w].fence \in Fences
             /\ \A v \in still'[w] : v \in still[w] /\ pos'[v] = pos[v]
  <2>1. w \in Watches /\ wstate[w] # "absent" /\ row[w].fence \in Fences
    BY <1>0, <1>2 DEF Shape, TickInv, TypeOK, StoreTypeOK, Row
  <2>2. QED
    BY <2>1, RowsStay, StillKept DEF TickInv, readBaseline, FreshWatch
<1>3. CASE tick'[p].armed = tick[p].armed /\ tick'[p].got = tick[p].got
  BY <1>2, <1>3 DEF Familiar
<1>4. CASE TickStep(p)
  <2>1. CASE Return(p) \/ BeginTick(p)
    <3>1. tick'[p] = BlankTick(tick[p].at) \/ tick'[p] = BlankTick(clock)
      BY <1>0, <2>1 DEF Return, BeginTick
    <3>2. QED
      BY <1>1, <3>1
  <2>2. CASE LoadFences(p)
    BY <1>0, <1>3, <2>2 DEF LoadFences, Tick
  <2>3. CASE LoadWatches(p)
    <3>1. tick'[p].got = tick[p].got /\ row' = row
          /\ tick'[p].armed = ArmedWatches(tick[p].at) /\ \A f \in Fences : tick[p].got[f] = {}
      BY <1>0, <2>3 DEF LoadWatches, At, Shape, Tick, storeVars, watchVars
    <3>2. \A w \in tick'[p].armed : row[w].fence \in Fences
      BY <3>1 DEF ArmedWatches, TickInv, TypeOK, StoreTypeOK, Row
    <3>3. QED
      BY <3>1, <3>2 DEF Familiar
  <2>4. ASSUME NEW g \in Groups(p), FetchGroup(p, g) PROVE Familiar(p)'
    <3>1. PICK seen \in Answers(PlacesOf(p, g)) :
             Answered(p, g, g, [f \in g |-> {v \in seen : pos[v] = tick[p].snap[f]}])
      BY <2>4 DEF FetchGroup
    <3>2. /\ tick'[p].armed = tick[p].armed /\ UNCHANGED <<pos, still, row>>
          /\ tick'[p].got = [f \in Fences |->
                               IF f \in g THEN {v \in seen : pos[v] = tick[p].snap[f]}
                               ELSE tick[p].got[f]]
      BY <1>0, <3>1 DEF Answered, Tick, storeVars, watchVars, worldVars
    <3>3. ASSUME NEW w \in tick[p].armed, row[w].fence \in g
          PROVE  tick'[p].got[row[w].fence] \cap row[w].wants \cap still[w]
                   \subseteq row[w].baseline
      <4> PICK site \in Site : Laid(site) /\ Known(site)
        BY DEF Steady
      <4> DEFINE f == row[w].fence
      <4>1. f \in Fences /\ f \in Snapped(p) /\ wstate[w] # "absent" /\ w \in Watches
        BY <1>0, <1>2, <3>3 DEF Groups, Shape
      <4>2. tick[p].snap[f] = site[f]
        BY <4>1 DEF Snapped, Known, TicksKnow
      <4>3. Covers(w, site[f], row[w].wants, row[w].baseline)
        BY <4>1 DEF Known, RowsKnow
      <4>4. tick'[p].got[f] = {v \in seen : pos[v] = tick[p].snap[f]}
        BY <3>2, <3>3, <4>1
      <4>5. QED
        BY <4>2, <4>3, <4>4 DEF Covers
    <3>4. QED
      BY <1>2, <3>2, <3>3 DEF Familiar
  <2>5. ASSUME NEW g \in Groups(p), FetchFails(p, g) PROVE Familiar(p)'
    <3>1. /\ tick'[p].armed = tick[p].armed /\ UNCHANGED <<still, row>>
          /\ tick'[p].got = [f \in Fences |-> IF f \in g THEN {} ELSE tick[p].got[f]]
      BY <1>0, <2>5 DEF FetchFails, Answered, Tick, storeVars, watchVars, worldVars
    <3>2. QED
      BY <1>2, <3>1 DEF Familiar
  <2>6. ASSUME NEW f \in Fences, RecordFence(p, f) PROVE Familiar(p)'
    BY <1>0, <1>3, <2>6 DEF RecordFence, Tick
  <2>7. ASSUME NEW w \in Watches, Pass(p, w) \/ HoldBack(p, w) \/ Fire(p, w)
        PROVE  Familiar(p)'
    BY <1>0, <1>3, <2>7 DEF Pass, HoldBack, Fire, Drop, Tick
  <2>8. CASE Report(p)
    BY <1>3, <2>8 DEF Report
  <2>9. QED
    BY <1>4, <2>1, <2>2, <2>3, <2>4, <2>5, <2>6, <2>7, <2>8
       DEF TickStep, NoFences, RecordFails, ReportFails, EndTick, Cancelled
<1>5. CASE ~TickStep(p)
  BY <1>1, <1>3, <1>5, Bystanders DEF Bystander, TickInv
<1>6. QED
  BY <1>4, <1>5

(* Every tick does, as long as no fence is moved and the API does not      *)
(* leave out what is there.                                                *)
ArrivalInv == Steady /\ \A p \in Processes : Familiar(p)

(* A fire is told by its trace in pc and firing.                           *)
LEMMA FiresIsFire ==
  ASSUME TickInv, [Next]_vars, NEW p \in Processes, NEW w \in Watches, Fires(p, w)
  PROVE  Fire(p, w)
<1>0. pc \in [Processes -> PCs] /\ firing \in [Processes -> Watches \cup {NoWatch}]
  BY DEF TickInv, TypeOK, PollerTypeOK
<1>1. TickStep(p)
  BY Bystanders DEF TickInv, Fires, Bystander
<1>2. ASSUME NEW x \in Watches, Fire(p, x) PROVE Fire(p, w)
  BY <1>0, <1>2 DEF Fire, Fires
<1>3. QED
  BY <1>0, <1>1, <1>2
     DEF Fires, TickStep, BeginTick, LoadFences, NoFences, LoadWatches, FetchGroup,
         FetchFails, Answered, RecordFence, RecordFails, Pass, HoldBack, Report,
         ReportFails, EndTick, Cancelled, Return, At, Goto

(* What an appearance watch reports has arrived: it fires for something,   *)
(* and nothing it fires for stood still since its baseline was read.       *)
THEOREM OnlyArrivals ==
  ASSUME "blink" \notin Env, "save" \notin Env
  PROVE  Safe => ReportsArrivalsOnly
<1>1. Init => ArrivalInv
  <2> SUFFICES ASSUME Init PROVE ArrivalInv
    OBVIOUS
  <2> DEFINE site == [f \in Fences |-> NoPlace]
  <2>1. site \in Site /\ Laid(site) /\ \A f \in Fences : fence[f] = site[f]
    BY DEF Init, StoreInit, Site, Laid
  <2>2. TicksKnow(site)
    BY DEF Init, PollerInit, BlankTick, TicksKnow
  <2>3. CallsKnow(site) /\ RowsKnow(site)
    BY DEF Init, ApiInit, NoCall, StoreInit, CallsKnow, RowsKnow
  <2>4. HomeKnown(site)
    BY Assumptions DEF Init, PollerInit, HomeKnown
  <2>5. \A p \in Processes : Familiar(p)
    BY DEF Init, PollerInit, BlankTick, Familiar
  <2> HIDE DEF site
  <2>6. QED
    BY <2>1, <2>2, <2>3, <2>4, <2>5 DEF ArrivalInv, Steady, Known
<1>2. TickInv /\ ArrivalInv /\ [Next]_vars => ArrivalInv'
  BY SteadyStep, FamiliarStep DEF ArrivalInv
<1>3. TickInv /\ ArrivalInv /\ [Next]_vars =>
        \A p \in Processes, w \in Watches :
          Fires(p, w) /\ row[w].kind = "appearance"
            => /\ Hits(p, w) # {}
               /\ Hits(p, w) \cap still[w] = {}
  <2> SUFFICES ASSUME TickInv, ArrivalInv, [Next]_vars, NEW p \in Processes,
                      NEW w \in Watches, Fires(p, w), row[w].kind = "appearance"
               PROVE  Hits(p, w) # {} /\ Hits(p, w) \cap still[w] = {}
    OBVIOUS
  <2>1. Fire(p, w)
    BY FiresIsFire
  <2>2. w \in tick[p].armed /\ Hits(p, w) # {}
    BY <2>1 DEF Fire, Evaluating, Matches, TickInv, Shaped, Shape
  <2>3. Familiar(p)
    BY DEF ArrivalInv
  <2>4. QED
    BY <2>2, <2>3 DEF Familiar, Hits, Matching
<1>4. QED
  BY <1>1, <1>2, <1>3, TickInvariant, PTL DEF Safe, ReportsArrivalsOnly
=============================================================================
