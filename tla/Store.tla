------------------------------- MODULE Store -------------------------------
(***************************************************************************)
(* internal/store: the SQLite tables that the poll loop and the HTTP       *)
(* handlers share.  One operator per method that writes; each says what it *)
(* does to every table.  Every method is one statement or one transaction, *)
(* so it is one step of whoever calls it.                                  *)
(*                                                                         *)
(* The observation tables (sample, presence, nearest) are abstracted to    *)
(* which incarnation of the fence their rows are about: hist[f] holds the  *)
(* incarnations with a row under f.                                        *)
(***************************************************************************)
EXTENDS World

CONSTANTS
  Fences,     \* fence ids
  NoPlace,    \* no row in the fence table
  Devices,    \* what a client names itself
  NoRow,      \* no row in the watch table yet
  Processes,  \* the processes that opened the database file
  MaxGen      \* bound: how often one fence id is deleted

ASSUME StoreAssumption ==
  /\ NoPlace \notin Places
  /\ MaxGen \in Nat
  /\ IsFiniteSet(Processes)

Kinds == {"appearance", "scarcity"}
States == {"absent", "armed", "fired", "expired", "cancelled", "deleted"}

(* A watch row without the columns that change.  wants stands for          *)
(* OperatorKeys and MinRangeM: the vehicles the filter lets through.       *)
Row == [fence: Fences, kind: Kinds, wants: SUBSET Vehicles,
        threshold: Nat, repeat: BOOLEAN, device: Devices,
        baseline: SUBSET Vehicles, expires: Int]

VARIABLES
  fence,    \* the fence table: the place of each fence, or NoPlace
  gen,      \* history: how many times a fence id has been deleted
  hist,     \* the incarnations of a fence with observation rows under its id
  wstate,   \* watch.state, with absent and deleted for no row
  row,      \* the other columns of a watch, as inserted
  firedAt,  \* watch.fired_at, -1 for NULL
  events,   \* how many event rows a watch has
  fires,    \* history: how many times MarkFired has fired a watch
  fk        \* whether the connection of a process enforces foreign keys

fenceVars == <<fence, gen, hist>>
watchVars == <<wstate, row, firedAt, events, fires>>
storeVars == <<fenceVars, watchVars, fk>>

StoreInit ==
  /\ fence = [f \in Fences |-> NoPlace]
  /\ gen = [f \in Fences |-> 0]
  /\ hist = [f \in Fences |-> {}]
  /\ wstate = [w \in Watches |-> "absent"]
  /\ row = [w \in Watches |-> NoRow]
  /\ firedAt = [w \in Watches |-> -1]
  /\ events = [w \in Watches |-> 0]
  /\ fires = [w \in Watches |-> 0]
  /\ fk = [p \in Processes |-> TRUE]

StoreTypeOK ==
  /\ fence \in [Fences -> Places \cup {NoPlace}]
  /\ gen \in [Fences -> Nat]
  /\ hist \in [Fences -> SUBSET Nat]
  /\ wstate \in [Watches -> States]
  /\ row \in [Watches -> Row \cup {NoRow}]
  /\ \A w \in Watches : wstate[w] # "absent" => row[w] \in Row
  /\ firedAt \in [Watches -> Int]
  /\ events \in [Watches -> Nat]
  /\ fires \in [Watches -> Nat]
  /\ fk \in [Processes -> BOOLEAN]

-----------------------------------------------------------------------------
Exists(f) == fence[f] # NoPlace

(* A watch with a row in the table; the watches with a row on a fence.     *)
Stored(w) == wstate[w] \notin {"absent", "deleted"}
WatchesOf(f) == {w \in Watches : Stored(w) /\ row[w].fence = f}

(* Open: the pragma in the schema reaches the one connection of the pool.  *)
Open(p) == fk' = [fk EXCEPT ![p] = TRUE]

(* The pool replaces a connection that was interrupted in the middle of a  *)
(* statement.  Open's pragmas are not run on the new one.                  *)
Reconnect(p) ==
  /\ "reconnect" \in Env
  /\ fk[p]
  /\ fk' = [fk EXCEPT ![p] = FALSE]
  /\ UNCHANGED <<fenceVars, watchVars>>

SaveFence(f, place) ==
  /\ fence' = [fence EXCEPT ![f] = place]
  /\ UNCHANGED <<gen, hist, watchVars>>

(* Faulty variants, here and below, are what a run must be able to tell    *)
(* from the code.  These two: foreign keys are never enforced.             *)
ObservesAnything(p, f) == TRUE
CreatesAnything(p, f) == TRUE

(* RecordSample, ObservePresence and RecordNearest of one tick: rows about *)
(* the incarnation g of the fence, refused by the foreign key if enforced. *)
CanObserve(p, f) == fk[p] => Exists(f)

Observe(f, g) ==
  /\ hist' = [hist EXCEPT ![f] = @ \cup {g}]
  /\ UNCHANGED <<fence, gen, watchVars, fk>>

CanCreateWatch(p, f) == fk[p] => Exists(f)

CreateWatch(w, r) ==
  /\ wstate' = [wstate EXCEPT ![w] = "armed"]
  /\ row' = [row EXCEPT ![w] = r]
  /\ UNCHANGED <<fenceVars, firedAt, events, fires, fk>>

ArmedWatches(now) ==
  {w \in Watches : wstate[w] = "armed" /\ row[w].expires > now}

(* Faulty: an update by id, whatever state the row is in.                  *)
MarksAnyState(w, now) ==
  /\ firedAt' = [firedAt EXCEPT ![w] = now]
  /\ wstate' = [wstate EXCEPT ![w] = IF row[w].repeat THEN @ ELSE "fired"]
  /\ fires' = [fires EXCEPT ![w] = @ + 1]
  /\ UNCHANGED <<fenceVars, row, events, fk>>

(* The update matches an armed row only; ErrNotFound otherwise.            *)
MarkFired(w, now) ==
  /\ wstate[w] = "armed"
  /\ firedAt' = [firedAt EXCEPT ![w] = now]
  /\ wstate' = [wstate EXCEPT ![w] = IF row[w].repeat THEN @ ELSE "fired"]
  /\ fires' = [fires EXCEPT ![w] = @ + 1]
  /\ UNCHANGED <<fenceVars, row, events, fk>>

(* An UPDATE of the state of all the watches in a set.                     *)
SetStates(ws, st) ==
  /\ wstate' = [w \in Watches |-> IF w \in ws THEN st ELSE wstate[w]]
  /\ UNCHANGED <<fenceVars, row, firedAt, events, fires, fk>>

SetState(w, st) == Stored(w) /\ SetStates({w}, st)

(* Faulty: all rows that are overdue, and only watches that do not repeat. *)
ExpiresAnyState(now) ==
  SetStates({w \in Watches : Stored(w) /\ row[w].expires <= now}, "expired")

ExpiresOneShots(now) ==
  SetStates({w \in Watches : wstate[w] = "armed" /\ row[w].expires <= now
                             /\ ~row[w].repeat}, "expired")

ExpireWatches(now) ==
  SetStates({w \in Watches : wstate[w] = "armed" /\ row[w].expires <= now},
            "expired")

(* devices is one device, or all of them when the request names none.      *)
CancelArmed(devices) ==
  SetStates({w \in Watches : wstate[w] = "armed" /\ row[w].device \in devices},
            "cancelled")

CanRecordEvent(p, w) == fk[p] => Stored(w)

(* Faulty: no event for a watch that was cancelled after it fired.         *)
RecordsUncancelled(w) ==
  /\ events' = [events EXCEPT ![w] = IF wstate[w] = "cancelled" THEN @ ELSE @ + 1]
  /\ UNCHANGED <<fenceVars, wstate, row, firedAt, fires, fk>>

RecordEvent(w) ==
  /\ events' = [events EXCEPT ![w] = @ + 1]
  /\ UNCHANGED <<fenceVars, wstate, row, firedAt, fires, fk>>

(* DeleteFence: what the transaction of process p does to fence f.  An     *)
(* armed watch refuses it (ErrFenceInUse); an event row of a watch it      *)
(* would delete fails it, where foreign keys are enforced.                 *)
DeleteOutcome(p, f) ==
  IF \E w \in WatchesOf(f) : wstate[w] = "armed" THEN "in use"
  ELSE IF fk[p] /\ \E w \in WatchesOf(f) : events[w] > 0 THEN "error"
  ELSE "done"

(* The rows go even when there is no fence row: the deletes come first and *)
(* the transaction commits whether or not the last one matched.            *)
DeleteFence(p, f) ==
  /\ DeleteOutcome(p, f) = "done"
  /\ wstate' = [w \in Watches |->
                  IF w \in WatchesOf(f) THEN "deleted" ELSE wstate[w]]
  /\ hist' = [hist EXCEPT ![f] = {}]
  /\ fence' = [fence EXCEPT ![f] = NoPlace]
  /\ gen' = [gen EXCEPT ![f] = IF Exists(f) THEN @ + 1 ELSE @]
  /\ UNCHANGED <<row, firedAt, events, fires, fk>>
=============================================================================
