------------------------------ MODULE Delivery ------------------------------
(***************************************************************************)
(* What becomes of a notification: buildSink sets the sinks up when the    *)
(* daemon starts, the broker only if it answers then; Poller.dispatch      *)
(* starts a delivery that the tick does not wait for, notify.Multi hands   *)
(* it to every sink at once, each under its own time limit, and run waits  *)
(* for the deliveries before it lets go of the broker.                     *)
(***************************************************************************)
EXTENDS FiniteSets

CONSTANTS
  Notes,  \* the notifications the ticks come to dispatch
  Sinks   \* the sinks that are configured; there is always the log

ASSUME DeliveryAssumption == Sinks \subseteq {"mqtt", "ntfy", "log"} /\ "log" \in Sinks

VARIABLES
  stage,    \* of run: it starts, ticks, waits for deliveries, has let go
  attached, \* the sinks notifications are handed to
  live,     \* whether its context is not cancelled
  well,     \* the sinks whose far side answers in time
  result,   \* of handing each notification to each sink
  excused   \* history: the notifications a sink held while it was not well,
            \* all of them when it was not at the start

vars == <<stage, attached, live, well, result, excused>>

Init ==
  /\ stage = "starting"
  /\ attached = {}
  /\ live = TRUE
  /\ well \in {ss \in SUBSET Sinks : "log" \in ss}
  /\ result = [n \in Notes |-> [s \in Sinks |-> "none"]]
  /\ excused = [s \in Sinks |-> {}]

Pending(n) == {s \in Sinks : result[n][s] = "pending"}
Settled(n) == Pending(n) = {}
Dispatched(n) == \E s \in Sinks : result[n][s] # "none"

SetResult(n, s, outcome) == result' = [result EXCEPT ![n][s] = outcome]

(* buildSink: Dial has fifteen seconds to find the broker, and is not made *)
(* again; a SIGTERM meanwhile is seen to afterwards.                       *)
Dial ==
  LET missed == {"mqtt"} \cap (Sinks \ well)
  IN  /\ stage = "starting"
      /\ stage' = "ticking"
      /\ attached' = Sinks \ missed
      /\ excused' = [s \in Sinks |-> IF s \in missed THEN Notes ELSE excused[s]]
      /\ UNCHANGED <<live, well, result>>

(* dispatch and Multi.Publish: a goroutine for the delivery, and one for   *)
(* each sink, whether or not its far side is well.                         *)
Dispatch(n) ==
  /\ stage = "ticking"
  /\ ~Dispatched(n)
  /\ result' = [result EXCEPT ![n] = [s \in Sinks |-> IF s \in attached THEN "pending" ELSE "none"]]
  /\ excused' = [s \in Sinks |-> IF s \in well THEN excused[s]
                                 ELSE excused[s] \cup {n}]
  /\ UNCHANGED <<stage, attached, live, well>>

(* The far side took it.                                                   *)
Accept(n, s) ==
  /\ s \in Pending(n) \cap well
  /\ SetResult(n, s, "ok")
  /\ UNCHANGED <<stage, attached, live, well, excused>>

(* Faulty: one failure fails the sinks that are not done yet.              *)
FailsAll(n, s) ==
  /\ s \in Pending(n) \ well
  /\ result' = [result EXCEPT ![n] = [q \in Sinks |->
                  IF q \in Pending(n) THEN "failed" ELSE result[n][q]]]
  /\ UNCHANGED <<stage, attached, live, well, excused>>

(* Faulty: only the POST has a time limit.                                 *)
FailsPost(n, s) ==
  /\ s = "ntfy"
  /\ s \in Pending(n) \ well
  /\ SetResult(n, s, "failed")
  /\ UNCHANGED <<stage, attached, live, well, excused>>

(* It refused, or did not answer: the ten seconds of MQTT.publish, the     *)
(* fifteen of the HTTP client or DeliveryTimeout are over.                 *)
Fail(n, s) ==
  /\ s \in Pending(n) \ well
  /\ SetResult(n, s, "failed")
  /\ UNCHANGED <<stage, attached, live, well, excused>>

(* A far side breaks down, or recovers; the log does not.                  *)
Change(s) ==
  /\ s # "log"
  /\ well' = IF s \in well THEN well \ {s} ELSE well \cup {s}
  /\ excused' = [excused EXCEPT ![s] = @ \cup {n \in Notes : s \in Pending(n)}]
  /\ UNCHANGED <<stage, attached, live, result>>

Sigterm ==
  /\ live
  /\ live' = FALSE
  /\ UNCHANGED <<stage, attached, well, result, excused>>

(* Run returns between two ticks and the deferred calls begin with the     *)
(* HTTP server and p.Wait; -once comes to p.Wait after its tick.           *)
Return ==
  /\ stage = "ticking"
  /\ ~live
  /\ stage' = "waiting"
  /\ UNCHANGED <<attached, live, well, result, excused>>

(* Faulty: the broker is let go of at once.                                *)
ClosesEarly ==
  /\ stage = "waiting"
  /\ stage' = "closed"
  /\ UNCHANGED <<attached, live, well, result, excused>>

(* p.Wait returns; closeSink disconnects and the process ends.             *)
Close ==
  /\ stage = "waiting"
  /\ \A n \in Notes : Settled(n)
  /\ stage' = "closed"
  /\ UNCHANGED <<attached, live, well, result, excused>>

Next ==
  \/ Dial
  \/ \E n \in Notes : Dispatch(n)
  \/ \E n \in Notes, s \in Sinks : Accept(n, s) \/ Fail(n, s)
  \/ \E s \in Sinks : Change(s)
  \/ Sigterm \/ Return \/ Close

Safe == Init /\ [][Next]_vars

(* Timers fire and answers in hand are taken; run goes on to its end once  *)
(* it is stopped.  No far side has to recover or to answer.                *)
Fairness ==
  /\ \A n \in Notes, s \in Sinks : WF_vars(Accept(n, s) \/ Fail(n, s))
  /\ WF_vars(Dial)
  /\ WF_vars(Return)
  /\ WF_vars(Close)

Spec == Safe /\ Fairness

-----------------------------------------------------------------------------
(* Once the process has ended, every sink that was well all the time it    *)
(* held a notification, and at the start if it is the broker, has          *)
(* delivered it: no other sink's refusal, silence or time limit, and no    *)
(* SIGTERM, has cost it the delivery (Multi.Publish: "if MQTT is down, the *)
(* phone should still buzz, and vice versa", ntfy.go:140-141; dispatch;    *)
(* the deferred p.Wait, main.go:109-111).                                  *)
HealthySinkDelivers ==
  stage = "closed" =>
    \A n \in Notes, s \in Sinks :
      Dispatched(n) /\ n \notin excused[s] => result[n][s] = "ok"

(* A daemon that is told to stop does, whatever the far sides do: no       *)
(* delivery holds p.Wait up for ever.                                      *)
Stops == ~live ~> stage = "closed"
=============================================================================
