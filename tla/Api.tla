-------------------------------- MODULE Api --------------------------------
(***************************************************************************)
(* internal/api: the handlers that change state.  createWatch touches the  *)
(* database, then the upstream API, then the database again, so a request  *)
(* is a small process (call[c]); the other handlers are one call of the    *)
(* store.  Requests refused by validation change nothing and are left out. *)
(***************************************************************************)
EXTENDS Store

CONSTANTS
  Clients,      \* requests that createWatch may be handling at a time
  Requests,     \* what they may ask for
  AdhocFences,  \* the ids randomID() may draw for a fence "here"
  Sites,        \* Sites[f]: where clients may put fence f
  Server        \* the process that serves the API

Request == [kind: Kinds, wants: SUBSET Vehicles, threshold: Nat,
            repeat: BOOLEAN, device: Devices, ttl: Nat \ {0}]

ASSUME ApiAssumption ==
  /\ Requests \subseteq Request
  /\ AdhocFences \subseteq Fences
  /\ Sites \in [Fences -> SUBSET Places]
  /\ Server \in Processes

(* A createWatch in progress: the fence it resolved and where that was,    *)
(* then the id and the baseline of the watch to insert.                    *)
Stages == {"none", "resolved", "ready"}

NoCall == [stage |-> "none"]

CallType ==
  {NoCall}
  \cup [stage: {"resolved"}, fence: Fences, place: Places, req: Requests]
  \cup [stage: {"ready"}, fence: Fences, req: Requests, watch: Watches,
        baseline: SUBSET Vehicles]

VARIABLE call

ApiInit == call = [c \in Clients |-> NoCall]

ApiTypeOK == call \in [Clients -> CallType]

SetCall(c, value) == call' = [call EXCEPT ![c] = value]

(* randomID: an id that no watch has, and no request has drawn.            *)
FreshWatch(w) ==
  /\ wstate[w] = "absent"
  /\ \A c \in Clients : call[c].stage = "ready" => call[c].watch # w

-----------------------------------------------------------------------------
(* createWatch.  resolveFence, for a fence that exists...                  *)
resolveNamed(c, f, r) ==
  /\ call[c] = NoCall
  /\ Exists(f)
  /\ SetCall(c, [stage |-> "resolved", fence |-> f, place |-> fence[f],
                 req |-> r])
  /\ UNCHANGED <<worldVars, storeVars>>

(* ...or for one around where the client stands.                           *)
resolveHere(c, f, place, r) ==
  /\ call[c] = NoCall
  /\ f \in AdhocFences
  /\ ~Exists(f)
  /\ gen[f] = 0
  /\ SaveFence(f, place)
  /\ SetCall(c, [stage |-> "resolved", fence |-> f, place |-> place,
                 req |-> r])
  /\ UNCHANGED <<worldVars, fk>>

(* baseline: what is there now, asked for live.  From here on, still[w]    *)
(* follows which vehicles have not moved since.                            *)
readBaseline(c, w) ==
  /\ call[c].stage = "resolved"
  /\ FreshWatch(w)
  /\ \E seen \in Answers({call[c].place}) :
       SetCall(c, [stage |-> "ready", fence |-> call[c].fence,
                   req |-> call[c].req, watch |-> w,
                   baseline |-> seen \cap call[c].req.wants])
  /\ still' = [still EXCEPT ![w] = Vehicles]
  /\ UNCHANGED <<clock, pos, storeVars>>

NewRow(c) ==
  LET r == call[c].req
  IN  [fence |-> call[c].fence, kind |-> r.kind, wants |-> r.wants,
       threshold |-> r.threshold, repeat |-> r.repeat, device |-> r.device,
       baseline |-> call[c].baseline, expires |-> clock + r.ttl]

(* Bound: a watch expires within the modelled time.                        *)
insertWatch(c) ==
  /\ call[c].stage = "ready"
  /\ clock + call[c].req.ttl <= MaxClock
  /\ CanCreateWatch(Server, call[c].fence)
  /\ CreateWatch(call[c].watch, NewRow(c))
  /\ SetCall(c, NoCall)
  /\ UNCHANGED worldVars

(* 502 or 500 from either half: the upstream API did not answer, the       *)
(* foreign key refused the row, or the client hung up and the context of   *)
(* the request went with it.  A fence made for the request stays.          *)
requestFails(c) ==
  /\ call[c] # NoCall
  /\ SetCall(c, NoCall)
  /\ UNCHANGED <<worldVars, storeVars>>

-----------------------------------------------------------------------------
createFence(f, place) ==
  /\ "save" \in Env
  /\ place \in Sites[f]
  /\ fence[f] # place
  /\ SaveFence(f, place)
  /\ UNCHANGED <<worldVars, fk, call>>

(* Bound: MaxGen deletions of a fence id.  409 and 500 change nothing.     *)
deleteFence(f) ==
  /\ "delete" \in Env
  /\ gen[f] < MaxGen
  /\ Exists(f) \/ WatchesOf(f) # {} \/ hist[f] # {}
  /\ DeleteFence(Server, f)
  /\ UNCHANGED <<worldVars, call>>

(* Cancels whatever state the watch is in.                                 *)
cancelWatch(w) ==
  /\ "cancel" \in Env
  /\ SetState(w, "cancelled")
  /\ UNCHANGED <<worldVars, call>>

cancelAllWatches(devices) ==
  /\ "cancel" \in Env
  /\ CancelArmed(devices)
  /\ UNCHANGED <<worldVars, call>>

createWatch(c) ==
  \/ \E r \in Requests, f \in Fences :
       \/ resolveNamed(c, f, r)
       \/ \E place \in Sites[f] : resolveHere(c, f, place, r)
  \/ \E w \in Watches : readBaseline(c, w)
  \/ insertWatch(c)
  \/ requestFails(c)

Handler ==
  \/ \E c \in Clients : createWatch(c)
  \/ \E f \in Fences, place \in Places : createFence(f, place)
  \/ \E f \in Fences : deleteFence(f)
  \/ \E w \in Watches : cancelWatch(w)
  \/ \E ds \in {Devices} \cup {{d} : d \in Devices} : cancelAllWatches(ds)
=============================================================================
