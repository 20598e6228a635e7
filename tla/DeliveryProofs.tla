--------------------------- MODULE DeliveryProofs ---------------------------
(***************************************************************************)
(* Proofs about Delivery.                                                  *)
(***************************************************************************)
EXTENDS Delivery, TLAPS

Outcomes == {"none", "pending", "ok", "failed"}

Types ==
  /\ stage \in {"starting", "ticking", "waiting", "closed"}
  /\ attached \subseteq Sinks
  /\ well \subseteq Sinks /\ "log" \in well
  /\ result \in [Notes -> [Sinks -> Outcomes]]
  /\ excused \in [Sinks -> SUBSET Notes]

(* Why a delivery may not have succeeded: the sink was not attached, its   *)
(* far side is not well now, or was not at some time of the delivery.      *)
Excuses ==
  \A n \in Notes, s \in Sinks :
    /\ result[n][s] = "failed" => n \in excused[s]
    /\ result[n][s] = "pending" /\ s \notin well => n \in excused[s]
    /\ result[n][s] = "none" /\ Dispatched(n) => n \in excused[s]
    /\ stage # "starting" /\ s \notin attached => n \in excused[s]

(* Nothing is handed out before the sinks are set up, or held at the end.  *)
Order ==
  /\ stage = "starting" => \A n \in Notes : ~ Dispatched(n)
  /\ stage = "closed" => \A n \in Notes : Settled(n)

Inv == Types /\ Excuses /\ Order

(* What an outcome does to the results: nothing to any other delivery.     *)
LEMMA OneResult ==
  ASSUME Types, NEW n \in Notes, NEW s \in Sinks, NEW outcome \in Outcomes,
         SetResult(n, s, outcome)
  PROVE  /\ result' \in [Notes -> [Sinks -> Outcomes]]
         /\ \A m \in Notes, q \in Sinks :
              result'[m][q] = IF m = n /\ q = s THEN outcome ELSE result[m][q]
  BY DEF Types, SetResult

(* Before the sinks are set up nothing is handed out.                      *)
LEMMA InitInv == Init => Inv
  BY DEF Init, Inv, Types, Excuses, Order, Dispatched, Settled, Pending, Outcomes

(* The sinks that can be reached are attached.                             *)
LEMMA DialInv == Inv /\ Dial => Inv'
<1> SUFFICES ASSUME Inv, Dial PROVE Inv'
  OBVIOUS
<1> USE DEF Inv
<1>1. Types'
  BY DeliveryAssumption DEF Types, Dial
<1>2. Excuses'
  BY DEF Types, Excuses, Order, Dial, Dispatched
<1>3. Order'
  BY DEF Order, Dial, Dispatched
<1> QED BY <1>1, <1>2, <1>3

(* A notification is handed to every attached sink.                        *)
LEMMA DispatchInv == ASSUME NEW n \in Notes PROVE Inv /\ Dispatch(n) => Inv'
<1> SUFFICES ASSUME Inv, Dispatch(n) PROVE Inv'
  OBVIOUS
<1> USE DEF Inv
<1>1. Types'
  BY DEF Types, Dispatch, Outcomes
<1>2. \A m \in Notes \ {n} : result'[m] = result[m]
  BY DEF Types, Dispatch
<1>3. \A s \in Sinks : result'[n][s] = IF s \in attached THEN "pending" ELSE "none"
  BY DEF Types, Dispatch
<1>4. Excuses'
  <2> SUFFICES ASSUME NEW m \in Notes, NEW s \in Sinks
               PROVE  Excuses!(m, s)'
    BY DEF Excuses
  <2>1. excused[s] \subseteq excused'[s]
    BY DEF Types, Dispatch
  <2>2. CASE m = n
    BY <1>3, <2>1, <2>2 DEF Excuses, Dispatch, Types
  <2>3. CASE m # n
    BY <1>2, <2>1, <2>3 DEF Excuses, Dispatch, Types, Dispatched
  <2> QED BY <2>2, <2>3
<1>5. Order'
  BY DEF Order, Dispatch
<1> QED BY <1>1, <1>4, <1>5

(* One sink accepts or fails one notification.                             *)
LEMMA OutcomeInv ==
  ASSUME NEW n \in Notes, NEW s \in Sinks
  PROVE  Inv /\ (Accept(n, s) \/ Fail(n, s)) => Inv'
<1> SUFFICES ASSUME Inv, Accept(n, s) \/ Fail(n, s) PROVE Inv'
  OBVIOUS
<1> USE DEF Inv
<1>1. PICK outcome \in Outcomes :
        /\ SetResult(n, s, outcome)
        /\ outcome \in {"ok", "failed"}
        /\ outcome = "failed" => s \notin well
  BY DEF Accept, Fail, Outcomes
<1>2. /\ result[n][s] = "pending"
      /\ UNCHANGED <<stage, attached, well, excused>>
  BY DEF Accept, Fail, Pending
<1>3. /\ result' \in [Notes -> [Sinks -> Outcomes]]
      /\ \A m \in Notes, q \in Sinks :
           result'[m][q] = IF m = n /\ q = s THEN outcome ELSE result[m][q]
  BY <1>1, OneResult
<1>4. Types'
  BY <1>2, <1>3 DEF Types
<1>5. \A m \in Notes : Dispatched(m)' => Dispatched(m)
  BY <1>2, <1>3 DEF Dispatched
<1>6. Excuses'
  BY <1>1, <1>2, <1>3, <1>5 DEF Excuses
<1>7. Order'
  BY <1>1, <1>2, <1>3, <1>5 DEF Order, Settled, Pending
<1> QED BY <1>4, <1>6, <1>7

(* The far side of a sink breaks or mends, which excuses what it holds.    *)
LEMMA ChangeInv == ASSUME NEW s \in Sinks PROVE Inv /\ Change(s) => Inv'
<1> SUFFICES ASSUME Inv, Change(s) PROVE Inv'
  OBVIOUS
<1> USE DEF Inv
<1>1. Types'
  BY DEF Types, Change
<1>2. /\ \A q \in Sinks : excused[q] \subseteq excused'[q]
      /\ \A n \in Notes : result[n][s] = "pending" => n \in excused'[s]
      /\ \A q \in Sinks \ {s} : q \in well' <=> q \in well
  BY DEF Types, Change, Pending
<1>3. Excuses'
  <2> SUFFICES ASSUME NEW m \in Notes, NEW q \in Sinks
               PROVE  Excuses!(m, q)'
    BY DEF Excuses
  <2>1. UNCHANGED <<stage, attached, result>> /\ (Dispatched(m)' <=> Dispatched(m))
    BY DEF Change, Dispatched
  <2> QED BY <1>2, <2>1 DEF Excuses
<1>4. Order'
  BY DEF Order, Change, Settled, Pending, Dispatched
<1> QED BY <1>1, <1>3, <1>4

(* The steps of run leave the deliveries alone.                            *)
LEMMA RunInv == Inv /\ (Sigterm \/ Return \/ Close \/ UNCHANGED vars) => Inv'
  BY DEF Inv, Types, Excuses, Order, Sigterm, Return, Close, vars, Dispatched, Settled,
         Pending

(* So the invariant holds throughout.                                      *)
LEMMA Invariance == Safe => []Inv
<1>1. Inv /\ [Next]_vars => Inv'
  BY DialInv, DispatchInv, OutcomeInv, ChangeInv, RunInv DEF Next
<1> QED BY InitInv, <1>1, PTL DEF Safe

(* A sink that was well all the time it held a notification has delivered  *)
(* it when the process ends, whichever sinks are configured, whatever the  *)
(* others do and whenever the process is stopped (Multi.Publish, dispatch, *)
(* the deferred p.Wait).                                                   *)
THEOREM HealthyDelivers == Spec => []HealthySinkDelivers
<1>1. Inv => HealthySinkDelivers
  BY DEF Inv, Types, Excuses, Order, HealthySinkDelivers, Settled, Pending, Outcomes
<1> QED BY Invariance, <1>1, PTL DEF Spec
=============================================================================
