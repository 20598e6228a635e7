----------------------------- MODULE MCLookups -----------------------------
(***************************************************************************)
(* Lookups for TLC, with the preferences of DefaultPrefs.  Positions are   *)
(* chosen where things tip: on the edge of a fence, half a metre beyond a  *)
(* rounded radius, on both sides of a gap between two operators.           *)
(***************************************************************************)
EXTENDS Lookups

CONSTANTS ryde, voi, r1, r2, r3, v1, east, west

MCOpOf == r1 :> ryde @@ r2 :> ryde @@ r3 :> ryde @@ v1 :> voi
MCRangeOf == r1 :> 5000 @@ r2 :> 8000 @@ r3 :> 3000 @@ v1 :> 40000
MCBonus == ryde :> 1000 @@ voi :> 250

MCFences == <<east, west>>

(* Two streets that share a query, two that overlap around a corner, and   *)
(* two too far apart to share one, the second wider than the reach.        *)
MCSites ==
  { east :> [at |-> 0, radius |-> 240] @@ west :> [at |-> 501, radius |-> 250],
    east :> [at |-> 0, radius |-> 751] @@ west :> [at |-> 240, radius |-> 500],
    east :> [at |-> 0, radius |-> 240] @@ west :> [at |-> 10000, radius |-> 5600] }

MCAsks == {[radius |-> 0, limit |-> 5], [radius |-> 1500, limit |-> 1]}

MCWatchKinds ==
  {[operators |-> {}, minRange |-> 0], [operators |-> {ryde}, minRange |-> 4000]}
=============================================================================
