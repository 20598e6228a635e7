------------------------------- MODULE Board -------------------------------
(***************************************************************************)
(* board/board.go and computeBoard of api/api.go: the vehicles around a    *)
(* place ranked under a preference, with the count and the nearest of each *)
(* operator.  Scores are whole tenths, as round1 leaves them.              *)
(***************************************************************************)
EXTENDS Upstream, Sequences, SequencesExt

CONSTANTS
  OperatorBonus,  \* Prefs, with ranges in metres
  ComfortM,
  LowPenalty,
  FloorM

ASSUME PrefsAssumption ==
  /\ OperatorBonus \in [Operators -> Int]
  /\ FloorM \in Nat /\ ComfortM \in Nat /\ FloorM < ComfortM
  /\ LowPenalty \in Nat

VARIABLE told  \* the board a client was sent

NoBoard == [query |-> {}, options |-> <<>>, summary |-> {}]

Dropped(v) == fleet[v].range < FloorM

(* Faulty: a battery beyond comfort is rewarded.                           *)
LowBatteryReward(v) == LowPenalty * (ComfortM - fleet[v].range)

(* ComfortM - FloorM times the penalty for a battery.                      *)
LowBatteryPenalty(v) ==
  IF fleet[v].range >= ComfortM THEN 0 ELSE LowPenalty * (ComfortM - fleet[v].range)

(* Go's conversion to int cuts toward zero.                                *)
Cut(a, b) == IF a >= 0 THEN a \div b ELSE -((-a) \div b)

(* Ten times the score, rounded as round1 does.                            *)
Score(q, v) ==
  LET span == ComfortM - FloorM
      tenths == 10 * (span * (OperatorBonus[OpOf[v]] - Far(q, v)) - LowBatteryPenalty(v))
  IN  Cut(2 * tenths + span, 2 * span)

(* Faulty: the comparison is the wrong way round.                          *)
BeforeBackwards(q, u, v) ==
  \/ Score(q, u) < Score(q, v)
  \/ Score(q, u) = Score(q, v) /\ Far(q, u) <= Far(q, v)

(* SliceStable over vehicles that come nearest first.                      *)
Before(q, u, v) ==
  \/ Score(q, u) > Score(q, v)
  \/ Score(q, u) = Score(q, v) /\ Far(q, u) <= Far(q, v)

Rankings(q, vehicles) ==
  {s \in SetToSeqs({v \in vehicles : ~ Dropped(v)}) :
     \A i, j \in DOMAIN s : i < j => Before(q, s[i], s[j])}

Summary(q, vehicles) ==
  [o \in {OpOf[v] : v \in vehicles} |->
     LET own == {v \in vehicles : OpOf[v] = o}
     IN  [count |-> Cardinality(own), nearest |-> Min({Far(q, v) : v \in own}),
          bestRange |-> Max({fleet[v].range : v \in own})]]

(* Assemble.  The recommendation is the first option.                      *)
Assemble(q, vehicles, limit) ==
  {[query |-> {q},
    options |-> IF limit > 0 /\ Len(s) > limit THEN SubSeq(s, 1, limit) ELSE s,
    summary |-> {Summary(q, vehicles)}] : s \in Rankings(q, vehicles)}

(* board: the place, radius and limit are the client's, or the fence's and *)
(* the defaults.                                                           *)
ComputeBoard(at, radius, operators, limit) ==
  LET q == Query(at, 1, radius, operators, 0, 0)
  IN  \E result \in Results(q) : told' \in Assemble(q, result.vehicles, limit)

-----------------------------------------------------------------------------
(* No scooter is offered while one of the same operator that is nearer and *)
(* goes at least as far is missing from the list or below it: what a       *)
(* display shows as the best is never dominated (score, Assemble).         *)
NothingBetterLeftOut ==
  \A q \in told.query : \A i \in DOMAIN told.options : \A v \in Vehicles :
    LET o == told.options[i]
    IN  (/\ fleet[v].rentable /\ OpOf[v] = OpOf[o]
         /\ Far(q, v) < Far(q, o) /\ fleet[v].range >= fleet[o].range)
        => \E j \in 1 .. i - 1 : told.options[j] = v

(* The gap between two operators is how much farther one walks for the     *)
(* preferred one (Prefs.OperatorBonus): a scooter of the operator with the *)
(* lower bonus is placed above another only when it is nearer by the gap,  *)
(* less at most LowPenalty when the other's battery is low.                *)
BrandHolds ==
  \A q \in told.query : \A i, j \in DOMAIN told.options :
    LET u == told.options[i]
        v == told.options[j]
        gap == OperatorBonus[OpOf[v]] - OperatorBonus[OpOf[u]]
    IN  (i < j /\ gap > 0)
        => Far(q, v) - Far(q, u) >=
             gap - (IF fleet[v].range >= ComfortM THEN 0 ELSE LowPenalty)
=============================================================================
