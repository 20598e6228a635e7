------------------------------ MODULE Cadence ------------------------------
(***************************************************************************)
(* When the daemon asks the API: the poll loop (poll.Run) and the boards   *)
(* streamed to displays (boardStream) each work at the ticks of a ticker   *)
(* of their own, until the process is told to stop or the display hangs    *)
(* up (main.go).  Time goes by in steps that all timers share, and only    *)
(* when nothing in the program can run: what it does between two waits     *)
(* takes no time.                                                          *)
(***************************************************************************)
EXTENDS Integers

CONSTANTS
  Poll,         \* the poll loop
  Streams,      \* connections of displays
  Interval,     \* Config.Interval, which a floor has been applied to
  Wanted,       \* the interval each display asks for
  MinInterval,
  TickLimit,    \* a tick and its probes time out by then
  Timeout,      \* DefaultTimeout: one query times out by then
  Grace,        \* how long Shutdown waits for connections
  Long          \* bound: history counts no further

Loops == {Poll} \cup Streams

ASSUME CadenceAssumption ==
  /\ Poll \notin Streams
  /\ MinInterval \in Nat \ {0} /\ Interval \in Nat /\ Interval >= MinInterval
  /\ Wanted \in [Streams -> Nat]
  /\ TickLimit \in Nat /\ Timeout \in Nat /\ Grace \in Nat

(* streamInterval, and the floor of config.Load.                           *)
Rate(l) ==
  IF l = Poll THEN Interval
  ELSE IF Wanted[l] < MinInterval THEN MinInterval ELSE Wanted[l]

ASSUME LongAssumption == Long \in Nat /\ \A l \in Loops : Rate(l) <= Long

VARIABLES
  stage,    \* of the process: up, stopping (signalled), draining, exited
  grace,    \* what is left of Grace
  client,   \* the display at the far end of each stream
  pc,       \* of each loop: off, working, or waiting in its select
  spent,    \* how long it has been working
  left,     \* until its ticker fires; 0 for no ticker
  pending,  \* ticks in the ticker's channel
  since,    \* history: how long ago it last began to work, and the time before
  silent    \* history: how long ago each display last heard something

loopVars == <<pc, spent, left, pending, since>>
vars == <<stage, grace, client, loopVars, silent>>

Limit(l) == IF l = Poll THEN TickLimit ELSE Timeout

Silence == Long + Timeout + 1

(* Faulty: a loop does not look at its context.                            *)
CancelledNever(l) == l = Poll /\ stage # "up"

(* The context of the loop is done.  Shutdown does not touch the streams.  *)
Cancelled(l) == IF l = Poll THEN stage # "up" ELSE client[l] = "gone"

(* Faulty: ticks queue up while nobody takes them.                         *)
FiredQueued(n) == n + 1

(* A ticker's channel holds one tick, further ones are dropped.            *)
Fired(n) == 1

TypeOK ==
  /\ stage \in {"up", "stopping", "draining", "exited"}
  /\ grace \in 0 .. Grace
  /\ client \in [Streams -> {"none", "connected", "gone", "served"}]
  /\ pc \in [Loops -> {"off", "working", "waiting"}]
  /\ spent \in [Loops -> Nat] /\ left \in [Loops -> Nat]
  /\ \A l \in Loops : spent[l] \in 0 .. Limit(l) /\ left[l] \in 0 .. Rate(l)
  /\ pending \in [Loops -> 0 .. 1]
  /\ since \in [Loops -> (0 .. Long) \X (0 .. Long)]
  /\ silent \in [Streams -> 0 .. Silence]

(* Run makes its ticker and then ticks at once.                            *)
Init ==
  /\ stage = "up" /\ grace = Grace
  /\ client = [s \in Streams |-> "none"]
  /\ pc = [l \in Loops |-> IF l = Poll THEN "working" ELSE "off"]
  /\ spent = [l \in Loops |-> 0]
  /\ left = [l \in Loops |-> IF l = Poll THEN Rate(l) ELSE 0]
  /\ pending = [l \in Loops |-> 0]
  /\ since = [l \in Loops |-> <<IF l = Poll THEN 0 ELSE Long, Long>>]
  /\ silent = [s \in Streams |-> 0]

Begin(l, previous) ==
  /\ pc' = [pc EXCEPT ![l] = "working"]
  /\ spent' = [spent EXCEPT ![l] = 0]
  /\ since' = [since EXCEPT ![l] = <<0, previous>>]

(* The loop takes a tick.  Where the context is done too, select may still *)
(* choose the tick.                                                        *)
Take(l) ==
  /\ pc[l] = "waiting" /\ pending[l] > 0
  /\ pending' = [pending EXCEPT ![l] = @ - 1]
  /\ Begin(l, since[l][1])
  /\ UNCHANGED <<stage, grace, client, left, silent>>

(* Or it sees that its context is done.                                    *)
End(l) ==
  /\ pc[l] = "waiting" /\ Cancelled(l)
  /\ pc' = [pc EXCEPT ![l] = "off"]
  /\ left' = [left EXCEPT ![l] = 0]
  /\ pending' = [pending EXCEPT ![l] = 0]
  /\ client' = [s \in Streams |-> IF s = l THEN "served" ELSE client[s]]
  /\ stage' = IF l = Poll THEN "draining" ELSE stage
  /\ since' = [since EXCEPT ![l] = <<Long, Long>>]
  /\ UNCHANGED <<grace, spent, silent>>

(* Faulty: an error of the API ends the loop.                              *)
AfterFailure == "off"

(* An error is logged, or sent to the display as an event.                 *)
AfterError == "waiting"

(* A tick or a board is through, or has failed; a stream makes its ticker  *)
(* after its first board.                                                  *)
Finish(l) ==
  /\ pc[l] = "working"
  /\ \E next \in {"waiting", AfterError} : pc' = [pc EXCEPT ![l] = next]
  /\ left' = [left EXCEPT ![l] = IF @ = 0 THEN Rate(l) ELSE @]
  /\ silent' = [s \in Streams |-> IF s = l THEN 0 ELSE silent[s]]
  /\ spent' = [spent EXCEPT ![l] = 0]
  /\ UNCHANGED <<stage, grace, client, pending, since>>

(* GET /v1/board/stream, while the server listens; each display calls once.*)
Connect(s) ==
  /\ stage \in {"up", "stopping"}
  /\ client[s] = "none"
  /\ client' = [client EXCEPT ![s] = "connected"]
  /\ silent' = [silent EXCEPT ![s] = 0]
  /\ Begin(s, Long)
  /\ UNCHANGED <<stage, grace, left, pending>>

HangUp(s) ==
  /\ stage # "exited"
  /\ client[s] = "connected"
  /\ client' = [client EXCEPT ![s] = "gone"]
  /\ silent' = [silent EXCEPT ![s] = 0]
  /\ UNCHANGED <<stage, grace, loopVars>>

Signal ==
  /\ stage = "up"
  /\ stage' = "stopping"
  /\ UNCHANGED <<grace, client, loopVars, silent>>

(* Faulty: the wait for connections has no end.                            *)
DrainedNever == \A s \in Streams : pc[s] = "off"

(* Shutdown returns when all connections are done with, or in the end.     *)
Drained == (\A s \in Streams : pc[s] = "off") \/ grace = 0

(* The process ends, and with it what still runs.                          *)
Exit ==
  /\ stage = "draining" /\ Drained
  /\ stage' = "exited"
  /\ grace' = 0
  /\ pc' = [l \in Loops |-> "off"]
  /\ client' = [s \in Streams |-> "served"]
  /\ spent' = [l \in Loops |-> 0]
  /\ left' = [l \in Loops |-> 0]
  /\ pending' = [l \in Loops |-> 0]
  /\ since' = [l \in Loops |-> <<Long, Long>>]
  /\ silent' = [s \in Streams |-> 0]

(* Something in the program can run, or a query has reached its limit.     *)
Ready(l) ==
  \/ pc[l] = "waiting" /\ (pending[l] > 0 \/ Cancelled(l))
  \/ pc[l] = "working" /\ (spent[l] = Limit(l) \/ Cancelled(l))

Up(n, bound) == IF n < bound THEN n + 1 ELSE bound
Down(n) == IF n > 0 THEN n - 1 ELSE 0

Elapse ==
  LET fires(l) == left[l] = 1
      waits(s) == client[s] = "connected"
  IN  /\ stage # "exited"
      /\ ~ \E l \in Loops : Ready(l)
      /\ ~ (stage = "draining" /\ Drained)
      /\ spent' = [l \in Loops |-> IF pc[l] = "working" THEN spent[l] + 1 ELSE 0]
      /\ left' = [l \in Loops |-> IF fires(l) THEN Rate(l) ELSE Down(left[l])]
      /\ pending' = [l \in Loops |-> IF fires(l) THEN Fired(pending[l]) ELSE pending[l]]
      /\ since' = [l \in Loops |-> <<Up(since[l][1], Long), Up(since[l][2], Long)>>]
      /\ silent' = [s \in Streams |-> IF waits(s) THEN Up(silent[s], Silence) ELSE 0]
      /\ grace' = IF stage = "draining" THEN Down(grace) ELSE grace
      /\ UNCHANGED <<stage, client, pc>>

Next ==
  \/ \E l \in Loops : Take(l) \/ End(l) \/ Finish(l)
  \/ \E s \in Streams : Connect(s) \/ HangUp(s)
  \/ Signal \/ Exit \/ Elapse

(* The scheduler runs what can run, queries end, and time goes by.         *)
Fairness ==
  /\ \A l \in Loops : WF_vars(Take(l) \/ End(l) \/ Finish(l))
  /\ WF_vars(Exit)
  /\ WF_vars(Elapse)

Spec == Init /\ [][Next]_vars /\ Fairness

-----------------------------------------------------------------------------
(* However long queries take and however ticks pile up behind them, no     *)
(* loop begins three times within its interval, nor within MinInterval:    *)
(* what the API is spared (Run, boardStream, streamInterval).  Two         *)
(* beginnings may be nearer than that: a tick waits while a query runs.    *)
NoThreeInAnInterval ==
  [][\A l \in Loops :
       (pc[l] = "waiting" /\ pc'[l] = "working") => since[l][2] >= Rate(l)]_vars

(* A display that stays connected hears something, be it an error, every   *)
(* interval, give or take the time one query may need (boardStream).       *)
Hears ==
  \A s \in Streams :
    client[s] = "connected" => silent[s] <= Rate(s) + Timeout

(* A stream whose display is gone ends (boardStream's select).             *)
StreamEnds == \A s \in Streams : client[s] = "gone" ~> pc[s] = "off"

(* Told to stop, the process ends, also with displays connected (main.go,  *)
(* srv.Shutdown).                                                          *)
Exits == (stage = "stopping") ~> (stage = "exited")

(* The daemon goes on ticking until it is told to stop (Run).              *)
KeepsTicking == []<>(pc[Poll] = "working" \/ stage # "up")
=============================================================================
