--------------------------- MODULE MCScootlessd ---------------------------
(***************************************************************************)
(* Small instances of Scootlessd for TLC.  The .cfg files choose among the *)
(* definitions here; the bounds are explained in README.md.                *)
(***************************************************************************)
EXTENDS Scootlessd, TLC

CONSTANTS home, away, here, park, street, phone

(* Requests: "tell me when anything new shows up", once or repeatedly, and *)
(* "tell me when nothing is left".                                         *)
Ask(kind, repeat, ttl) ==
  [kind |-> kind, wants |-> Vehicles, threshold |-> 0, repeat |-> repeat,
   device |-> phone, ttl |-> ttl]

AskOnce == {Ask("appearance", FALSE, 2)}
AskMix == {Ask("appearance", TRUE, 1), Ask("scarcity", FALSE, 1)}

(* Where clients may put fences: where they are, or anywhere.              *)
OnePlaceEach == [f \in Fences |-> IF f = home THEN {park} ELSE {street}]
AnyPlace == [f \in Fences |-> Places]

OneQuery == SUBSET Places
ManyQueries == {}

Interchangeable == Permutations(Watches)
=============================================================================
