----------------------------- MODULE Scootlessd -----------------------------
(***************************************************************************)
(* The daemon: the poll loop and the API handlers over one database, in a  *)
(* world of moving vehicles, beside other processes on the same database.  *)
(***************************************************************************)
EXTENDS Poller, Api

ASSUME ScootlessdAssumption == Server = Daemon

vars == <<worldVars, storeVars, pollVars, call>>

Init == WorldInit /\ StoreInit /\ PollerInit /\ ApiInit

(* The handlers run while the daemon does; its requests die with it.       *)
Serve == pc[Daemon] # "down" /\ Handler /\ UNCHANGED pollVars

HangUp(p) ==
  IF p = Daemon /\ pc'[p] = "down" THEN call' = [c \in Clients |-> NoCall]
  ELSE UNCHANGED call

Poll(p) == TickStep(p) /\ HangUp(p)

Run(p) == ProcessStep(p) /\ HangUp(p)

Environment ==
  \/ ClockTick
  \/ \E v \in Vehicles, q \in Places \cup {Elsewhere} : Move(v, q)

World == Environment /\ UNCHANGED <<storeVars, pollVars, call>>

Next ==
  \/ World
  \/ Serve
  \/ \E p \in Processes : Poll(p) \/ Run(p)

Safe == Init /\ [][Next]_vars

(* Time passes, the daemon is started again when it is down (Restart=      *)
(* always) and takes its next step when it can; and it is not stopped      *)
(* every single time just before the tick with which Run begins.  No       *)
(* vehicle has to move, no client has to ask, no query has to succeed, and *)
(* no other process has to run.                                            *)
Fairness ==
  /\ WF_vars(ClockTick /\ UNCHANGED <<storeVars, pollVars, call>>)
  /\ WF_vars(Start(Daemon) /\ HangUp(Daemon))
  /\ WF_vars(Exit(Daemon) /\ HangUp(Daemon))
  /\ WF_vars(Poll(Daemon))
  /\ SF_vars(BeginTick(Daemon) /\ HangUp(Daemon))

Spec == Safe /\ Fairness

TypeOK ==
  /\ WorldTypeOK
  /\ StoreTypeOK
  /\ PollerTypeOK
  /\ ApiTypeOK

-----------------------------------------------------------------------------
(* What a watch owes: the processes that fired it and have not reported it *)
(* yet (between MarkFired and RecordEvent in evaluate).                    *)
Owing(w) == {p \in Processes : firing[p] = w}

(* The four promises of WatchBook are kept, by every interleaving of the   *)
(* tick with the handlers and with a second process (watch.go: MarkFired,  *)
(* SetState, ExpireWatches, CancelArmed, DeleteFence, RecordEvent).        *)
Book == INSTANCE WatchBook
          WITH state <- wstate,
               repeating <- {w \in Watches : wstate[w] # "absent"
                                             /\ row[w].repeat},
               fired <- fires,
               told <- events

KeepsBook == Book!Spec

(* Nothing is reported that did not fire, counting what each process still *)
(* holds, and a watch that does not repeat fires at most once (MarkFired   *)
(* and RecordEvent in evaluate, poll.go:349-371).                          *)
FiredOnce ==
  \A w \in Watches :
    /\ events[w] + Cardinality(Owing(w)) <= fires[w]
    /\ wstate[w] = "armed" /\ ~row[w].repeat => fires[w] = 0
    /\ wstate[w] = "absent" => fires[w] = 0
    /\ wstate[w] # "absent" /\ ~row[w].repeat => fires[w] <= 1

(* Every fire is reported: recorded as an event and handed to the sink, or *)
(* about to be.  The watch is disarmed before its event is written, so a   *)
(* fire whose report fails is lost for good (poll.go:349-371).             *)
EveryFireReported ==
  \A w \in Watches : fires[w] = events[w] + Cardinality(Owing(w))

(* What a fired watch reports arrived after the watch was made: none of    *)
(* the vehicles stood still since the baseline was read.  It takes the     *)
(* baseline to be read before the insert, the watches to be loaded before  *)
(* the fetch, and both answers to be about the same place (createWatch and *)
(* Tick: poll.go:192-216, api.go:260-276).                                 *)
Fires(p, w) == pc[p] = "serve" /\ firing'[p] = w /\ pc'[p] = "event"

ReportsArrivalsOnly ==
  [][\A p \in Processes, w \in Watches :
       Fires(p, w) /\ row[w].kind = "appearance"
         => /\ Hits(p, w) # {}
            /\ Hits(p, w) \cap still[w] = {}]_vars

(* An armed watch always has its fence, so that some tick will look for    *)
(* it: createWatch resolves a fence it inserts against later, DeleteFence  *)
(* refuses while a watch is armed (fence_delete.go:13-17).                 *)
ArmedHasFence ==
  \A w \in Watches : wstate[w] = "armed" => Exists(row[w].fence)

(* A deleted fence leaves neither history nor watches behind, also when a  *)
(* tick that loaded it is still running (fence_delete.go:19-22).           *)
NothingLeftBehind ==
  \A f \in Fences : ~Exists(f) => hist[f] = {} /\ WatchesOf(f) = {}

(* A tick that ends while its context is live has served every fence whose *)
(* query was answered, unless a fence it had loaded was deleted under it   *)
(* or another process was at the database (Tick, poll.go:218-272).         *)
CutShort(p) ==
  /\ InTick(p) /\ live[p]
  /\ pc'[p] \in {"idle", "down"}
  /\ tick[p].todo # {} \/ tick[p].job # {}

Undisturbed(p) ==
  /\ \A f \in Snapped(p) : tick[p].gen[f] = gen[f]
  /\ \A q \in Processes \ {p} : pc[q] = "down"

TickServesHealthy ==
  [][\A p \in Processes : TickStep(p) /\ CutShort(p) => ~Undisturbed(p)]_vars

(* A tick that ends undisturbed has missed nothing: a watch it loaded,     *)
(* whose fence was answered for with a vehicle it asks for that is not in  *)
(* its baseline, has fired or is no longer armed (Tick and evaluate).      *)
Missed(p, w) ==
  /\ w \in tick[p].armed
  /\ row[w].kind = "appearance"
  /\ Hits(p, w) # {}
  /\ wstate[w] = "armed"
  /\ firedAt[w] < tick[p].at

MissesNothing ==
  [][\A p \in Processes, w \in Watches :
       EndTick(p) => ~Missed(p, w)]_vars

(* No watch stays armed forever (watch.go:144-145), whether or not the     *)
(* upstream API ever answers and however often the daemon is stopped.      *)
EveryWatchRetires ==
  \A w \in Watches : wstate[w] = "armed" ~> wstate[w] # "armed"

-----------------------------------------------------------------------------
(* What the documentation says and the code does not do.                   *)

(* "DeleteFence removes a fence and the history recorded against it.  It   *)
(* refuses while an armed watch still references the fence"                *)
(* (fence_delete.go:11-13): there is no third outcome.                     *)
DeleteSucceeds ==
  \A f \in Fences : DeleteOutcome(Daemon, f) # "error"
=============================================================================
