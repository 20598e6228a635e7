--------------------------- MODULE CadenceProofs ---------------------------
(***************************************************************************)
(* Proofs about Cadence.                                                   *)
(***************************************************************************)
EXTENDS Cadence, TLAPS

(* The last beginning of a loop consumed a tick that fired after the one   *)
(* before it; while a tick is pending it fired after the last one, and the *)
(* ticker has gone round once since the one before.  Rate(l) - left[l] is  *)
(* how long ago the ticker fired.                                          *)
TickerOK(l) ==
  /\ pc[l] = "off" => left[l] = 0
  /\ pc[l] = "waiting" => left[l] > 0
  /\ left[l] = 0 => pending[l] = 0
  /\ left[l] = 0 /\ pc[l] = "working" => since[l][2] = Long
  /\ left[l] > 0 /\ pending[l] = 0 => since[l][2] > Rate(l) - left[l]
  /\ pending[l] = 1 => since[l][2] >= Rate(l) /\ since[l][1] > Rate(l) - left[l]

(* What a display has to wait for: the board that is being made, or the    *)
(* tick after which one is.                                                *)
StreamOK(s) ==
  /\ client[s] = "none" => pc[s] = "off"
  /\ client[s] = "connected" =>
       /\ pc[s] # "off"
       /\ pc[s] = "working" => silent[s] <= Rate(s) + spent[s]
       /\ pc[s] = "waiting" /\ pending[s] = 0 => silent[s] + left[s] <= Rate(s)
       /\ pc[s] = "waiting" /\ pending[s] = 1 => silent[s] <= Rate(s)

Inv ==
  /\ TypeOK
  /\ \A l \in Loops : TickerOK(l)
  /\ \A s \in Streams : StreamOK(s)

(* What the constants say of every loop.                                   *)
LEMMA Rates ==
  /\ \A l \in Loops : Rate(l) \in Nat \ {0} /\ Rate(l) <= Long /\ Limit(l) \in Nat
  /\ \A s \in Streams : s \in Loops /\ Limit(s) = Timeout
  /\ Poll \in Loops /\ Long \in Nat /\ Timeout \in Nat /\ Silence \in Nat
  BY CadenceAssumption, LongAssumption DEF Loops, Rate, Limit, Silence

(* The types, loop by loop.                                                *)
LEMMA Typed ==
  ASSUME TypeOK, NEW l \in Loops
  PROVE  /\ spent[l] \in 0 .. Limit(l) /\ left[l] \in 0 .. Rate(l) /\ pending[l] \in 0 .. 1
         /\ since[l] = <<since[l][1], since[l][2]>>
         /\ since[l][1] \in 0 .. Long /\ since[l][2] \in 0 .. Long
  BY DEF TypeOK

(* Before serve starts no loop runs and no display is connected.           *)
LEMMA InitInv == Init => Inv
<1> SUFFICES ASSUME Init PROVE Inv
  OBVIOUS
<1>1. TypeOK
  <2>1. ASSUME NEW l \in Loops
        PROVE  /\ spent[l] = 0 /\ left[l] \in 0 .. Rate(l)
               /\ 0 \in 0 .. Limit(l)
    BY Rates DEF Init
  <2>2. /\ pc \in [Loops -> {"off", "working", "waiting"}]
        /\ pending \in [Loops -> 0 .. 1]
    BY DEF Init
  <2>3. spent \in [Loops -> Nat] /\ left \in [Loops -> Nat]
    BY <2>1, Rates DEF Init
  <2>4. since \in [Loops -> (0 .. Long) \X (0 .. Long)]
    <3>1. ASSUME NEW l \in Loops
          PROVE  (IF l = Poll THEN 0 ELSE Long) \in 0 .. Long /\ Long \in 0 .. Long
      BY Rates
    <3> QED BY <3>1 DEF Init
  <2>5. /\ silent \in [Streams -> 0 .. Silence]
        /\ client \in [Streams -> {"none", "connected", "gone", "served"}]
    BY Rates DEF Init
  <2>6. stage = "up" /\ grace \in 0 .. Grace
    BY CadenceAssumption DEF Init
  <2> QED BY <2>1, <2>2, <2>3, <2>4, <2>5, <2>6 DEF TypeOK
<1>2. ASSUME NEW l \in Loops PROVE TickerOK(l)
  BY Rates DEF Init, TickerOK
<1>3. ASSUME NEW s \in Streams PROVE StreamOK(s)
  BY Rates, CadenceAssumption DEF Init, StreamOK
<1> QED BY <1>1, <1>2, <1>3 DEF Inv

(* A loop takes the pending tick of its ticker.                            *)
LEMMA TakeInv == ASSUME NEW l \in Loops PROVE Inv /\ Take(l) => Inv'
<1> SUFFICES ASSUME Inv, Take(l) PROVE Inv'
  OBVIOUS
<1> USE Rates DEF Inv
<1>1. pc[l] = "waiting" /\ pending[l] = 1
  BY Typed DEF Take
<1>2. /\ pc' = [pc EXCEPT ![l] = "working"] /\ spent' = [spent EXCEPT ![l] = 0]
      /\ since' = [since EXCEPT ![l] = <<0, since[l][1]>>]
      /\ pending' = [pending EXCEPT ![l] = 0]
      /\ UNCHANGED <<stage, grace, client, left, silent>>
  BY <1>1 DEF Take, Begin
<1>3. TypeOK'
  BY <1>2, Typed DEF TypeOK
<1>4. ASSUME NEW k \in Loops PROVE TickerOK(k)'
  <2>1. CASE k = l
    <3>1. since'[l][2] = since[l][1] /\ pc'[l] = "working" /\ pending'[l] = 0
      BY <1>2 DEF TypeOK
    <3> QED BY <1>1, <1>2, <2>1, <3>1, Typed DEF TickerOK
  <2>2. CASE k # l
    <3>1. /\ pc'[k] = pc[k] /\ left'[k] = left[k]
          /\ pending'[k] = pending[k] /\ since'[k] = since[k]
      BY <1>2, <2>2 DEF TypeOK
    <3> QED BY <3>1 DEF TickerOK
  <2> QED BY <2>1, <2>2
<1>5. ASSUME NEW s \in Streams PROVE StreamOK(s)'
  BY <1>1, <1>2, Typed DEF StreamOK, TypeOK
<1> QED BY <1>3, <1>4, <1>5

(* A loop ends where it waits, once its context is done.                   *)
LEMMA EndInv == ASSUME NEW l \in Loops PROVE Inv /\ End(l) => Inv'
<1> SUFFICES ASSUME Inv, End(l) PROVE Inv'
  OBVIOUS
<1> USE Rates DEF Inv
<1>1. /\ pc' = [pc EXCEPT ![l] = "off"] /\ left' = [left EXCEPT ![l] = 0]
      /\ pending' = [pending EXCEPT ![l] = 0]
      /\ since' = [since EXCEPT ![l] = <<Long, Long>>]
      /\ client' = [s \in Streams |-> IF s = l THEN "served" ELSE client[s]]
      /\ stage' \in {stage, "draining"}
      /\ UNCHANGED <<grace, spent, silent>>
  BY DEF End
<1>2. TypeOK'
  BY <1>1 DEF TypeOK
<1>3. ASSUME NEW k \in Loops PROVE TickerOK(k)'
  BY <1>1 DEF TickerOK, TypeOK
<1>4. ASSUME NEW s \in Streams PROVE StreamOK(s)'
  BY <1>1 DEF StreamOK, TypeOK
<1> QED BY <1>2, <1>3, <1>4

(* A tick or a board is through, or has failed.                            *)
LEMMA FinishInv == ASSUME NEW l \in Loops PROVE Inv /\ Finish(l) => Inv'
<1> SUFFICES ASSUME Inv, Finish(l) PROVE Inv'
  OBVIOUS
<1> USE Rates DEF Inv
<1>1. /\ pc[l] = "working"
      /\ pc' = [pc EXCEPT ![l] = "waiting"] /\ spent' = [spent EXCEPT ![l] = 0]
      /\ left' = [left EXCEPT ![l] = IF @ = 0 THEN Rate(l) ELSE @]
      /\ silent' = [s \in Streams |-> IF s = l THEN 0 ELSE silent[s]]
      /\ UNCHANGED <<stage, grace, client, pending, since>>
  BY DEF Finish, AfterError
<1>2. TypeOK'
  BY <1>1, Typed DEF TypeOK
<1>3. ASSUME NEW k \in Loops PROVE TickerOK(k)'
  <2>1. CASE k = l
    BY <1>1, <2>1, Typed DEF TickerOK, TypeOK
  <2>2. CASE k # l
    <3>1. /\ pc'[k] = pc[k] /\ left'[k] = left[k]
          /\ pending'[k] = pending[k] /\ since'[k] = since[k]
      BY <1>1, <2>2 DEF TypeOK
    <3> QED BY <3>1 DEF TickerOK
  <2> QED BY <2>1, <2>2
<1>4. ASSUME NEW s \in Streams PROVE StreamOK(s)'
  BY <1>1, Typed DEF StreamOK, TypeOK
<1> QED BY <1>2, <1>3, <1>4

(* A display connects and its first board is asked for.                    *)
LEMMA ConnectInv == ASSUME NEW s \in Streams PROVE Inv /\ Connect(s) => Inv'
<1> SUFFICES ASSUME Inv, Connect(s) PROVE Inv'
  OBVIOUS
<1> USE Rates DEF Inv
<1>1. pc[s] = "off" /\ left[s] = 0 /\ pending[s] = 0
  BY DEF Connect, StreamOK, TickerOK
<1>2. /\ pc' = [pc EXCEPT ![s] = "working"] /\ spent' = [spent EXCEPT ![s] = 0]
      /\ since' = [since EXCEPT ![s] = <<0, Long>>]
      /\ client' = [client EXCEPT ![s] = "connected"]
      /\ silent' = [silent EXCEPT ![s] = 0]
      /\ UNCHANGED <<stage, grace, left, pending>>
  BY DEF Connect, Begin
<1>3. TypeOK'
  BY <1>2 DEF TypeOK
<1>4. ASSUME NEW k \in Loops PROVE TickerOK(k)'
  BY <1>1, <1>2 DEF TickerOK, TypeOK
<1>5. ASSUME NEW r \in Streams PROVE StreamOK(r)'
  BY <1>1, <1>2 DEF StreamOK, TypeOK
<1> QED BY <1>3, <1>4, <1>5

(* A display goes away.                                                    *)
LEMMA HangUpInv == ASSUME NEW s \in Streams PROVE Inv /\ HangUp(s) => Inv'
<1> SUFFICES ASSUME Inv, HangUp(s) PROVE Inv'
  OBVIOUS
<1> USE Rates DEF Inv, loopVars
<1>1. TypeOK'
  BY DEF HangUp, TypeOK
<1>2. ASSUME NEW k \in Loops PROVE TickerOK(k)'
  BY DEF HangUp, TickerOK
<1>3. ASSUME NEW r \in Streams PROVE StreamOK(r)'
  BY DEF HangUp, StreamOK, TypeOK
<1> QED BY <1>1, <1>2, <1>3

(* The signal to stop changes nothing that was promised.                   *)
LEMMA SignalInv == Inv /\ (Signal \/ UNCHANGED vars) => Inv'
<1> SUFFICES ASSUME Inv, Signal \/ UNCHANGED vars PROVE Inv'
  OBVIOUS
<1>1. /\ stage' \in {stage, "stopping"}
      /\ UNCHANGED <<grace, client, pc, spent, left, pending, since, silent>>
  BY DEF Signal, vars, loopVars
<1> QED BY <1>1 DEF Inv, TypeOK, TickerOK, StreamOK

(* The process ends, and every loop with it.                               *)
LEMMA ExitInv == Inv /\ Exit => Inv'
<1> SUFFICES ASSUME Inv, Exit PROVE Inv'
  OBVIOUS
<1> USE Rates DEF Inv
<1>1. TypeOK'
  BY CadenceAssumption DEF Exit, TypeOK
<1>2. ASSUME NEW k \in Loops PROVE TickerOK(k)'
  BY DEF Exit, TickerOK
<1>3. ASSUME NEW r \in Streams PROVE StreamOK(r)'
  BY DEF Exit, StreamOK
<1> QED BY <1>1, <1>2, <1>3

(* Time passes only while nobody has anything to do at once.               *)
LEMMA ElapseInv == Inv /\ Elapse => Inv'
<1> SUFFICES ASSUME Inv, Elapse PROVE Inv'
  OBVIOUS
<1> USE Rates DEF Inv
(* Nothing is ready: who works has time left, who waits has no tick.       *)
<1>1. ASSUME NEW l \in Loops
      PROVE  /\ pc[l] = "working" => spent[l] < Limit(l)
             /\ pc[l] = "waiting" => pending[l] = 0
  <2>1. ~Ready(l)
    BY DEF Elapse
  <2>2. spent[l] \in 0 .. Limit(l) /\ pending[l] \in 0 .. 1 /\ Limit(l) \in Nat
    BY Typed
  <2>3. pc[l] = "working" => spent[l] # Limit(l)
    BY <2>1 DEF Ready
  <2>4. pc[l] = "waiting" => ~ (pending[l] > 0)
    BY <2>1 DEF Ready
  <2> QED BY <2>2, <2>3, <2>4
<1>2. ASSUME NEW l \in Loops
      PROVE  /\ spent'[l] = IF pc[l] = "working" THEN spent[l] + 1 ELSE 0
             /\ left'[l] = IF left[l] = 1 THEN Rate(l)
                           ELSE IF left[l] > 0 THEN left[l] - 1 ELSE 0
             /\ pending'[l] = IF left[l] = 1 THEN 1 ELSE pending[l]
             /\ since'[l][1] = IF since[l][1] < Long THEN since[l][1] + 1 ELSE Long
             /\ since'[l][2] = IF since[l][2] < Long THEN since[l][2] + 1 ELSE Long
             /\ pc'[l] = pc[l]
  BY DEF Elapse, Up, Down, Fired
<1>3. ASSUME NEW s \in Streams
      PROVE  /\ client'[s] = client[s]
             /\ client[s] = "connected" =>
                  silent'[s] = IF silent[s] < Silence THEN silent[s] + 1 ELSE Silence
             /\ silent'[s] \in 0 .. Silence
  BY DEF Elapse, Up, TypeOK
<1>4. TypeOK'
  <2>1. /\ spent' \in [Loops -> Nat] /\ left' \in [Loops -> Nat]
        /\ \A l \in Loops : spent'[l] \in 0 .. Limit(l) /\ left'[l] \in 0 .. Rate(l)
    <3>1. ASSUME NEW l \in Loops
          PROVE spent'[l] \in 0 .. Limit(l) /\ left'[l] \in 0 .. Rate(l)
      BY <1>1, <1>2, Typed
    <3> QED BY <3>1 DEF Elapse
  <2>2. pending' \in [Loops -> 0 .. 1]
    BY Typed DEF Elapse, Fired
  <2>3. since' \in [Loops -> (0 .. Long) \X (0 .. Long)]
    <3>1. ASSUME NEW l \in Loops
          PROVE  Up(since[l][1], Long) \in 0 .. Long /\ Up(since[l][2], Long) \in 0 .. Long
      BY Typed DEF Up
    <3> QED BY <3>1 DEF Elapse
  <2>4. silent' \in [Streams -> 0 .. Silence]
    BY <1>3 DEF Elapse
  <2>5. grace' \in 0 .. Grace /\ UNCHANGED <<stage, client, pc>>
    BY CadenceAssumption DEF Elapse, Down, TypeOK
  <2> QED BY <2>1, <2>2, <2>3, <2>4, <2>5 DEF TypeOK
<1>5. ASSUME NEW l \in Loops PROVE TickerOK(l)'
  BY <1>2, Typed DEF TickerOK
<1>6. ASSUME NEW s \in Streams PROVE StreamOK(s)'
  <2>1. silent[s] \in 0 .. Silence /\ silent'[s] \in 0 .. Silence
    BY <1>3 DEF TypeOK
  <2> QED BY <1>1, <1>2, <1>3, <2>1, Typed DEF StreamOK, TickerOK
<1> QED BY <1>4, <1>5, <1>6

(* So the invariant holds throughout.                                      *)
LEMMA Invariance == Spec => []Inv
<1>1. Inv /\ [Next]_vars => Inv'
  BY TakeInv, EndInv, FinishInv, ConnectInv, HangUpInv, SignalInv, ExitInv, ElapseInv DEF Next
<1> QED BY InitInv, <1>1, PTL DEF Spec

(* The types, for any displays, intervals and limits.                      *)
THEOREM TypesHold == Spec => []TypeOK
<1>1. Inv => TypeOK
  BY DEF Inv
<1> QED BY Invariance, <1>1, PTL

(* A display that stays connected hears something within its interval and  *)
(* the time one query may need, whatever is asked for and however late the *)
(* API is (boardStream).                                                   *)
THEOREM DisplaysHear == Spec => []Hears
<1>1. Inv => Hears
  <2> SUFFICES ASSUME Inv, NEW s \in Streams, client[s] = "connected"
               PROVE  silent[s] <= Rate(s) + Timeout
    BY DEF Hears
  <2>1. s \in Loops /\ silent[s] \in Nat
    BY Rates DEF Inv, TypeOK
  <2>2. pc[s] \in {"working", "waiting"} /\ pending[s] \in {0, 1}
    BY <2>1, Typed DEF Inv, TypeOK, StreamOK
  <2>3. spent[s] \in 0 .. Timeout /\ left[s] \in Nat
    BY <2>1, Rates, Typed DEF Inv
  <2> QED BY <2>1, <2>2, <2>3, Rates DEF Inv, StreamOK
<1> QED BY Invariance, <1>1, PTL

(* No loop asks the API three times within its interval, however many      *)
(* ticks come due while its queries are out (Run, boardStream).            *)
THEOREM AsksInTime == Spec => NoThreeInAnInterval
<1>1. ASSUME Inv, Next, NEW l \in Loops, pc[l] = "waiting", pc'[l] = "working"
      PROVE  since[l][2] >= Rate(l)
  <2>1. Take(l)
    <3>1. ASSUME NEW k \in Loops, Take(k) \/ End(k) \/ Finish(k) PROVE Take(l)
      BY <1>1, <3>1 DEF Take, End, Finish, Begin, AfterError, Inv, TypeOK
    <3>2. ASSUME NEW s \in Streams, Connect(s) \/ HangUp(s) PROVE FALSE
      BY <1>1, <3>2, Rates DEF Connect, HangUp, Begin, Inv, TypeOK, StreamOK, loopVars
    <3>3. ~ (Signal \/ Exit \/ Elapse)
      BY <1>1 DEF Signal, Exit, Elapse, loopVars
    <3> QED BY <1>1, <3>1, <3>2, <3>3 DEF Next
  <2>2. pending[l] = 1
    BY <1>1, <2>1, Typed DEF Take, Inv
  <2> QED BY <1>1, <2>2 DEF Inv, TickerOK
<1>2. Inv /\ [Next]_vars =>
        [\A l \in Loops :
           (pc[l] = "waiting" /\ pc'[l] = "working") => since[l][2] >= Rate(l)]_vars
  BY <1>1
<1> QED BY Invariance, <1>2, PTL DEF Spec, NoThreeInAnInterval
=============================================================================
