------------------------------- MODULE Track -------------------------------
(***************************************************************************)
(* cmd/scootless-track/main.go: a process that follows named vehicles. It  *)
(* looks them up again and again (ByID, entur/client.go) and prints an     *)
(* event for what is new, until its time is up or it is told to stop.      *)
(* The ground is a line, and a spot on it a number of metres.              *)
(***************************************************************************)
EXTENDS Integers

CONSTANTS
  Vehicles,  \* the ids it is given
  Spots,     \* where vehicles may stand
  Jitter,    \* a move no longer than this is none
  Deadline,  \* bound: how long it follows them, in steps of the clock
  Blank,     \* what the events say of a vehicle they have not named yet,
  Gone       \* and of one that has vanished

Events == {"parked", "reappeared", "moved"} \X Spots
Published == {<<s>> : s \in Spots} \cup {<<>>}

ASSUME TrackAssumption ==
  /\ Spots \subseteq Int /\ Jitter \in Nat /\ Deadline \in Nat
  /\ Blank \notin Events /\ Gone \notin Events /\ Blank # Gone

VARIABLES
  clock,
  signalled,
  pc,        \* looking, waiting in the select, or ended
  seen,      \* state: the vehicle was in the last answer
  at,        \* state: where it was last told to be
  hasStart,  \* state: it has been found once
  page,      \* what the printed events say of each vehicle
  answer     \* history: the last answer that came

states == <<seen, at, hasStart, page>>
vars == <<clock, signalled, pc, states, answer>>

TypeOK ==
  /\ clock \in 0 .. Deadline + 1
  /\ signalled \in BOOLEAN
  /\ pc \in {"looking", "waiting", "ended"}
  /\ seen \subseteq Vehicles /\ hasStart \subseteq Vehicles
  /\ at \in [Vehicles -> Published]
  /\ page \in [Vehicles -> {Blank, Gone} \cup Events]
  /\ answer \in [Vehicles -> Published]
  /\ seen \subseteq hasStart
  /\ \A v \in hasStart : at[v] # <<>>

Init ==
  /\ clock = 0 /\ signalled = FALSE
  /\ pc = "looking"
  /\ seen = {} /\ hasStart = {}
  /\ at = [v \in Vehicles |-> <<>>]
  /\ page = [v \in Vehicles |-> Blank]
  /\ answer = [v \in Vehicles |-> <<>>]

-----------------------------------------------------------------------------
Elapse ==
  /\ pc # "ended" /\ clock <= Deadline
  /\ clock' = clock + 1
  /\ UNCHANGED <<signalled, pc, states, answer>>

Signal ==
  /\ pc # "ended" /\ ~ signalled
  /\ signalled' = TRUE
  /\ UNCHANGED <<clock, pc, states, answer>>

Apart(s, t) == s - t > Jitter \/ t - s > Jitter

(* The cases of the switch.                                                *)
Back(found)  == {v \in Vehicles : found[v] # <<>> /\ v \notin seen}
Moved(found) == {v \in seen : found[v] # <<>> /\ Apart(at[v][1], found[v][1])}
Left(found)  == {v \in seen : found[v] = <<>>}

(* Faulty: where a vehicle was is forgotten with it.                       *)
ResetToAnswer(found) == found

(* Faulty: a vehicle is taken to be where it was found, news or not.       *)
ResetAlways(found) == [v \in Vehicles |-> IF found[v] = <<>> THEN at[v] ELSE found[v]]

(* Where a vehicle is told to be, and that alone is what the next look     *)
(* compares with.                                                          *)
Reset(found) ==
  [v \in Vehicles |-> IF v \in Back(found) \cup Moved(found) THEN found[v] ELSE at[v]]

Tell(found) ==
  /\ seen' = (seen \ Left(found)) \cup Back(found)
  /\ hasStart' = hasStart \cup Back(found)
  /\ at' = Reset(found)
  /\ page' = [v \in Vehicles |->
                CASE v \in Left(found) -> Gone
                  [] v \in Moved(found) -> <<"moved", found[v][1]>>
                  [] v \in Back(found) \ hasStart -> <<"parked", found[v][1]>>
                  [] v \in Back(found) \cap hasStart -> <<"reappeared", found[v][1]>>
                  [] OTHER -> page[v]]

(* Faulty: only a look that succeeds looks at the time.                    *)
ThenIfFound(ok) == IF ok /\ clock > Deadline THEN "ended" ELSE "waiting"

(* After a look, whatever came of it.                                      *)
Then(ok) == IF clock > Deadline THEN "ended" ELSE "waiting"

(* ByID answers with where each vehicle stands, or without it: while it is *)
(* ridden, reserved or out of service (convert).  Between two looks it may *)
(* have been anywhere.                                                     *)
Look ==
  /\ pc = "looking" /\ ~ signalled
  /\ answer' \in [Vehicles -> Published]
  /\ Tell(answer')
  /\ pc' = Then(TRUE)
  /\ UNCHANGED <<clock, signalled>>

(* Faulty: no answer is taken for an answer with nobody in it.             *)
TellsOfFailure == Tell([v \in Vehicles |-> <<>>])

(* An error is printed and nothing is concluded from it.                   *)
TellFailure == UNCHANGED states

(* The API does not answer, or the context is done.                        *)
Fail ==
  /\ pc = "looking"
  /\ TellFailure
  /\ pc' = Then(FALSE)
  /\ UNCHANGED <<clock, signalled, answer>>

(* The select: the ticker fires, or the context is done.                   *)
Again ==
  /\ pc = "waiting"
  /\ pc' = "looking"
  /\ UNCHANGED <<clock, signalled, states, answer>>

Stop ==
  /\ pc = "waiting" /\ signalled
  /\ pc' = "ended"
  /\ UNCHANGED <<clock, signalled, states, answer>>

Next ==
  \/ Elapse \/ Signal \/ Look \/ Fail \/ Again \/ Stop

(* A query times out, tickers fire, time goes by.  The select chooses at   *)
(* random, and a look that the signal makes fail takes no time, so that    *)
(* the ticker is not due at every turn: Stop is not passed over for ever.  *)
Fairness ==
  /\ WF_vars(Look \/ Fail) /\ WF_vars(Again) /\ WF_vars(Elapse)
  /\ SF_vars(Stop)

Spec == Init /\ [][Next]_vars /\ Fairness

-----------------------------------------------------------------------------
(* Whoever reads the events knows what the last answer said: each vehicle  *)
(* in it within Jitter of where they say it stands, however it creeps,     *)
(* each one missing from it gone, or not yet heard of; and a lookup that   *)
(* fails makes no difference (the switch in run).                          *)
DiaryIsCurrent ==
  \A v \in Vehicles :
    IF answer[v] = <<>> THEN page[v] \in {Blank, Gone}
    ELSE page[v] \notin {Blank, Gone} /\ ~ Apart(page[v][2], answer[v][1])

(* The events are a diary: nothing vanishes that was not there, and a page *)
(* is rewritten only for news.                                             *)
D == INSTANCE Diary
KeepsDiary == D!Spec

(* Following ends after its time, also when every lookup fails, and when   *)
(* the process is told to stop.                                            *)
Ends == (signalled \/ clock > Deadline) ~> (pc = "ended")
=============================================================================
