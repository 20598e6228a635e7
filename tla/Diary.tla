------------------------------- MODULE Diary -------------------------------
(***************************************************************************)
(* What somebody who reads along is promised of the vehicles followed: a   *)
(* page for each that is blank until it is first found, then says where it *)
(* stands or that it is gone, and is rewritten only for news.              *)
(***************************************************************************)
EXTENDS Integers

CONSTANTS Vehicles, Spots, Jitter, Blank, Gone

VARIABLE page

Events == {"parked", "reappeared", "moved"} \X Spots

Init == page = [v \in Vehicles |-> Blank]

Apart(s, t) == s - t > Jitter \/ t - s > Jitter

(* News of one vehicle: it is found, gone, back, or somewhere else.        *)
News(old, new) ==
  \/ old = Blank /\ new \in {"parked"} \X Spots
  \/ old \in Events /\ new = Gone
  \/ old = Gone /\ new \in {"reappeared"} \X Spots
  \/ /\ old \in Events /\ new \in {"moved"} \X Spots
     /\ Apart(old[2], new[2])

Write ==
  /\ page' \in [Vehicles -> {Blank, Gone} \cup Events]
  /\ \A v \in Vehicles : page'[v] = page[v] \/ News(page[v], page'[v])

Spec == Init /\ [][Write]_page
=============================================================================
