--------------------------- MODULE WatchBookProofs ---------------------------
(***************************************************************************)
(* What the promises of WatchBook are worth: they alone, without the code  *)
(* behind them, keep a watch that does not repeat from firing twice.       *)
(***************************************************************************)
EXTENDS WatchBook, TLAPS

(* FiresAtMostOnce is inductive once the counters are known for counters.  *)
BookType ==
  /\ state \in [Watches -> {"absent", "armed", "fired", "expired", "cancelled",
                            "deleted"}]
  /\ repeating \subseteq Watches
  /\ fired \in [Watches -> Nat]
  /\ told \in [Watches -> Nat]

BookInv == BookType /\ FiresAtMostOnce

(* An empty book.                                                          *)
LEMMA BookInit == Init => BookInv
  BY DEF Init, BookInv, BookType, FiresAtMostOnce

(* What ends watches leaves the counts alone, and none of them is armed    *)
(* that was not before (Expire, Cancel, Remove).                           *)
LEMMA MoveAllKeeps ==
  ASSUME BookInv, NEW ws \in SUBSET Watches,
         NEW to \in {"expired", "cancelled", "deleted"}, MoveAll(ws, to)
  PROVE  BookInv'
<1>1. BookType'
  BY DEF BookInv, BookType, MoveAll
<1>2. FiresAtMostOnce'
  BY DEF BookInv, BookType, FiresAtMostOnce, MoveAll
<1> QED
  BY <1>1, <1>2 DEF BookInv

(* Every step of the book keeps its counts.                                *)
LEMMA BookStep == BookInv /\ [Next]_bookVars => BookInv'
<1> SUFFICES ASSUME BookInv, [Next]_bookVars
             PROVE  BookInv'
  OBVIOUS
<1> USE DEF BookInv, BookType, FiresAtMostOnce
<1>1. ASSUME NEW w \in Watches, Arm(w)  PROVE  BookInv'
  BY <1>1 DEF Arm
<1>2. ASSUME NEW w \in Watches, Fire(w)  PROVE  BookInv'
  <2>1. CASE w \in repeating
    BY <1>2, <2>1 DEF Fire
  <2>2. CASE w \notin repeating
    BY <1>2, <2>2 DEF Fire
  <2> QED
    BY <2>1, <2>2
<1>3. ASSUME NEW w \in Watches, Tell(w)  PROVE  BookInv'
  BY <1>3 DEF Tell
<1>4. ASSUME NEW ws \in SUBSET Watches, Expire(ws) \/ Cancel(ws) \/ Remove(ws)
      PROVE  BookInv'
  BY <1>4, MoveAllKeeps DEF Expire, Cancel, Remove
<1>5. ASSUME UNCHANGED bookVars  PROVE  BookInv'
  BY <1>5 DEF bookVars
<1> QED
  BY <1>1, <1>2, <1>3, <1>4, <1>5 DEF Next

(* Whatever keeps the book fires a watch that does not repeat at most once *)
(* and reports no more than it fired (MarkFired, watch.go:113-129).        *)
THEOREM BookFiresOnce == Spec => []FiresAtMostOnce
<1>1. Init => BookInv
  BY BookInit
<1>2. BookInv /\ [Next]_bookVars => BookInv'
  BY BookStep
<1>3. BookInv => FiresAtMostOnce
  BY DEF BookInv
<1> QED
  BY <1>1, <1>2, <1>3, PTL DEF Spec
=============================================================================
