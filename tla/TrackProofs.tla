---------------------------- MODULE TrackProofs ----------------------------
(***************************************************************************)
(* What Track promises, for any vehicles, spots and jitter.                *)
(***************************************************************************)
EXTENDS Track, TLAPS

(* What the states of the vehicles have to do with the events printed of   *)
(* them, and with the last answer.                                         *)
StatesMatch ==
  \A v \in Vehicles :
    /\ v \in seen <=> answer[v] # <<>>
    /\ v \in seen => page[v] \in Events /\ page[v][2] = at[v][1]
    /\ v \in hasStart \ seen => page[v] = Gone
    /\ v \notin hasStart => page[v] = Blank
    /\ v \in seen => ~ Apart(at[v][1], answer[v][1])

IInv == TypeOK /\ StatesMatch

(* Nothing seen and nothing printed.                                       *)
LEMMA InitIInv == ASSUME Init PROVE IInv
<1>1. 0 \in 0 .. Deadline + 1
  BY TrackAssumption
<1>2. [v \in Vehicles |-> <<>>] \in [Vehicles -> Published]
  BY DEF Published
<1>3. [v \in Vehicles |-> Blank] \in [Vehicles -> {Blank, Gone} \cup Events]
  OBVIOUS
<1>4. TypeOK
  BY <1>1, <1>2, <1>3 DEF Init, TypeOK
<1>5. StatesMatch
  BY DEF Init, StatesMatch
<1> QED
  BY <1>4, <1>5 DEF IInv

(* The events of one answer, vehicle by vehicle.                           *)
LEMMA TellEffects ==
  ASSUME IInv, NEW found \in [Vehicles -> Published], Tell(found),
         NEW v \in Vehicles
  PROVE  /\ v \in seen' <=> found[v] # <<>>
         /\ v \in hasStart' <=> v \in hasStart \/ found[v] # <<>>
         /\ at'[v] \in Published
         /\ v \in hasStart' => at'[v] # <<>>
         /\ page'[v] \in {Blank, Gone} \cup Events
         /\ v \in seen' => /\ page'[v] \in Events /\ page'[v][2] = at'[v][1]
                           /\ ~ Apart(at'[v][1], found[v][1])
         /\ v \in hasStart' /\ v \notin seen' => page'[v] = Gone
         /\ v \notin hasStart' => page'[v] = Blank
<1>1. /\ found[v] \in Published
      /\ found[v] # <<>> => \E s \in Spots : found[v] = <<s>>
      /\ at[v] \in Published
      /\ v \in hasStart => \E s \in Spots : at[v] = <<s>>
  BY DEF IInv, TypeOK, Published
<1>2. v \in seen => v \in hasStart
  BY DEF IInv, TypeOK
<1>3. CASE v \in Left(found)
  <2>1. v \notin Back(found) /\ v \notin Moved(found)
    BY <1>3 DEF Left, Back, Moved
  <2>2. page'[v] = Gone /\ at'[v] = at[v] /\ v \notin seen' /\ v \in hasStart'
    BY <1>2, <1>3, <2>1 DEF Tell, Reset, Left
  <2>3. found[v] = <<>> /\ at[v] # <<>>
    BY <1>2, <1>3 DEF Left, IInv, TypeOK
  <2>4. /\ v \notin seen' /\ found[v] = <<>> /\ v \in hasStart' /\ v \in hasStart
        /\ at'[v] \in Published /\ at'[v] # <<>> /\ page'[v] = Gone
    BY <1>1, <1>2, <1>3, <2>2, <2>3 DEF Left
  <2> QED
    BY <2>4, Zenon
<1>4. CASE v \in Moved(found)
  <2>1. v \notin Back(found) /\ v \notin Left(found) /\ v \in seen /\ found[v] # <<>>
    BY <1>4 DEF Left, Back, Moved
  <2>2. /\ page'[v] = <<"moved", found[v][1]>>
        /\ at'[v] = found[v] /\ v \in seen' /\ v \in hasStart'
    BY <1>2, <1>4, <2>1 DEF Tell, Reset
  <2>3. ~ Apart(found[v][1], found[v][1])
    BY <1>1, <2>1, TrackAssumption DEF Apart
  <2> QED
    BY <1>1, <2>1, <2>2, <2>3 DEF Events
<1>5. CASE v \in Back(found)
  <2>1. v \notin Moved(found) /\ v \notin Left(found) /\ v \notin seen /\ found[v] # <<>>
    BY <1>5 DEF Left, Back, Moved
  <2>2. /\ page'[v] \in {<<"parked", found[v][1]>>, <<"reappeared", found[v][1]>>}
        /\ at'[v] = found[v] /\ v \in seen' /\ v \in hasStart'
    BY <1>5, <2>1 DEF Tell, Reset
  <2>3. ~ Apart(found[v][1], found[v][1])
    BY <1>1, <2>1, TrackAssumption DEF Apart
  <2> QED
    BY <1>1, <2>1, <2>2, <2>3 DEF Events
<1>6. CASE v \notin Left(found) /\ v \notin Moved(found) /\ v \notin Back(found)
  <2>1. /\ page'[v] = page[v] /\ at'[v] = at[v]
        /\ v \in seen' <=> v \in seen
        /\ v \in hasStart' <=> v \in hasStart
    BY <1>6 DEF Tell, Reset
  <2>2. /\ v \in seen <=> found[v] # <<>>
        /\ v \in seen => ~ Apart(at[v][1], found[v][1])
    BY <1>6 DEF Left, Moved, Back
  <2> QED
    BY <1>1, <1>2, <2>1, <2>2 DEF IInv, StatesMatch, TypeOK
<1> QED
  BY <1>3, <1>4, <1>5, <1>6

(* An answer, or the lack of one, and the ways to stop.                    *)
LEMMA StepIInv == ASSUME IInv, [Next]_vars PROVE IInv'
<1>1. CASE Look
  <2>1. answer' \in [Vehicles -> Published] /\ Tell(answer')
    BY <1>1 DEF Look
  <2>2. StatesMatch'
    BY <2>1, TellEffects DEF StatesMatch
  <2>3. /\ clock' \in 0 .. Deadline + 1 /\ signalled' \in BOOLEAN
        /\ pc' \in {"looking", "waiting", "ended"}
    BY <1>1 DEF Look, Then, IInv, TypeOK
  <2>4. seen' \subseteq Vehicles /\ hasStart' \subseteq Vehicles
    BY <2>1 DEF Tell, Back, Left, IInv, TypeOK
  <2>5. /\ at' \in [Vehicles -> Published]
        /\ page' \in [Vehicles -> {Blank, Gone} \cup Events]
    <3>1. at' = [v \in Vehicles |-> at'[v]] /\ page' = [v \in Vehicles |-> page'[v]]
      BY <2>1 DEF Tell, Reset
    <3>2. \A v \in Vehicles : /\ at'[v] \in Published
                              /\ page'[v] \in {Blank, Gone} \cup Events
      BY <2>1, TellEffects
    <3> QED
      BY <3>1, <3>2
  <2>6. seen' \subseteq hasStart' /\ \A v \in hasStart' : at'[v] # <<>>
    BY <2>1, <2>4, TellEffects
  <2> QED
    BY <2>1, <2>2, <2>3, <2>4, <2>5, <2>6 DEF IInv, TypeOK
<1>2. CASE Elapse
  BY <1>2, TrackAssumption DEF Elapse, IInv, TypeOK, StatesMatch, states
<1>3. CASE Signal \/ Fail \/ Again \/ Stop
  BY <1>3 DEF Signal, Fail, TellFailure, Then, Again, Stop, IInv, TypeOK, StatesMatch, states
<1>4. CASE UNCHANGED vars
  BY <1>4 DEF vars, IInv, TypeOK, StatesMatch, states
<1> QED
  BY <1>1, <1>2, <1>3, <1>4 DEF Next

(* So the invariant holds throughout.                                      *)
LEMMA InvariantHolds == Spec => []IInv
<1>1. Init => IInv
  BY InitIInv
<1>2. IInv /\ [Next]_vars => IInv'
  BY StepIInv
<1> QED
  BY <1>1, <1>2, PTL DEF Spec

(* Types, and that a vehicle once found has a place to be compared with.   *)
THEOREM TypesHold == Spec => []TypeOK
<1>1. IInv => TypeOK
  BY DEF IInv
<1> QED
  BY <1>1, InvariantHolds, PTL

(* The events printed say where the last answer has each vehicle, to       *)
(* within Jitter.                                                          *)
THEOREM DiaryHolds == Spec => []DiaryIsCurrent
<1>1. IInv => DiaryIsCurrent
  <2> SUFFICES ASSUME IInv, NEW v \in Vehicles
               PROVE  IF answer[v] = <<>> THEN page[v] \in {Blank, Gone}
                      ELSE page[v] \notin {Blank, Gone} /\ ~ Apart(page[v][2], answer[v][1])
    BY DEF DiaryIsCurrent
  <2>1. CASE v \in seen
    BY <2>1, TrackAssumption DEF IInv, StatesMatch
  <2>2. CASE v \notin seen
    BY <2>2 DEF IInv, StatesMatch
  <2> QED
    BY <2>1, <2>2
<1> QED
  BY <1>1, InvariantHolds, PTL

(* What the process prints is a diary of every vehicle.                    *)
THEOREM ImplementsDiary == Spec => KeepsDiary
<1>1. Init => D!Init
  BY DEF Init, D!Init
<1>2. IInv /\ [Next]_vars => [D!Write]_page
  <2> SUFFICES ASSUME IInv, [Next]_vars PROVE [D!Write]_page
    OBVIOUS
  <2>1. CASE Look
    <3>1. answer' \in [Vehicles -> Published] /\ Tell(answer')
      BY <2>1 DEF Look
    <3>0. D!Events = Events
      BY DEF Events, D!Events
    <3>2. page' \in [Vehicles -> {Blank, Gone} \cup D!Events]
      <4>1. page' = [v \in Vehicles |-> page'[v]]
        BY <3>1 DEF Tell
      <4>2. \A v \in Vehicles : page'[v] \in {Blank, Gone} \cup Events
        BY <3>1, TellEffects
      <4> QED
        BY <3>0, <4>1, <4>2
    <3>3. ASSUME NEW v \in Vehicles, page'[v] # page[v]
          PROVE  D!News(page[v], page'[v])
      <4>1. /\ v \in seen => page[v] \in Events /\ page[v][2] = at[v][1]
            /\ v \in hasStart \ seen => page[v] = Gone
            /\ v \notin hasStart => page[v] = Blank
            /\ v \in seen => v \in hasStart
        BY DEF IInv, StatesMatch, TypeOK
      <4>2. answer'[v] # <<>> => \E s \in Spots : answer'[v] = <<s>>
        BY <3>1 DEF Published
      <4>3. CASE v \in Left(answer')
        <5>1. v \in seen /\ page'[v] = Gone
          BY <3>1, <4>3 DEF Tell, Left, Moved, Back
        <5>2. page[v] \in D!Events
          BY <3>0, <4>1, <5>1
        <5> QED
          BY <5>1, <5>2 DEF D!News
      <4>4. CASE v \in Moved(answer')
        <5>1. v \in seen /\ answer'[v] # <<>> /\ Apart(at[v][1], answer'[v][1])
          BY <4>4 DEF Moved
        <5>2. page'[v] = <<"moved", answer'[v][1]>>
          BY <3>1, <4>4, <5>1 DEF Tell, Left, Back
        <5>3. page[v] \in D!Events /\ page[v][2] = at[v][1]
          BY <3>0, <4>1, <5>1
        <5>4. page'[v] \in {"moved"} \X Spots /\ page'[v][2] = answer'[v][1]
          BY <4>2, <5>1, <5>2
        <5>5. D!Apart(page[v][2], page'[v][2])
          BY <5>1, <5>3, <5>4 DEF D!Apart, Apart
        <5> QED
          BY <5>3, <5>4, <5>5 DEF D!News
      <4>5. CASE v \in Back(answer')
        <5>1. v \notin seen /\ answer'[v] # <<>> /\ v \notin Left(answer') /\ v \notin Moved(answer')
          BY <4>5 DEF Back, Left, Moved
        <5>2. CASE v \in hasStart
          <6>1. page'[v] = <<"reappeared", answer'[v][1]>>
            BY <3>1, <4>5, <5>1, <5>2 DEF Tell
          <6>2. page'[v] \in {"reappeared"} \X Spots
            BY <4>2, <5>1, <6>1
          <6> QED
            BY <4>1, <5>1, <5>2, <6>2 DEF D!News
        <5>3. CASE v \notin hasStart
          <6>1. page'[v] = <<"parked", answer'[v][1]>>
            BY <3>1, <4>5, <5>1, <5>3 DEF Tell
          <6>2. page'[v] \in {"parked"} \X Spots
            BY <4>2, <5>1, <6>1
          <6> QED
            BY <4>1, <5>3, <6>2 DEF D!News
        <5> QED
          BY <5>2, <5>3
      <4>6. CASE v \notin Left(answer') /\ v \notin Moved(answer') /\ v \notin Back(answer')
        BY <3>1, <3>3, <4>6 DEF Tell
      <4> QED
        BY <4>3, <4>4, <4>5, <4>6
    <3> QED
      BY <3>2, <3>3 DEF D!Write
  <2>2. CASE Elapse \/ Signal \/ Fail \/ Again \/ Stop \/ UNCHANGED vars
    BY <2>2 DEF Elapse, Signal, Fail, TellFailure, Again, Stop, vars, states
  <2> QED
    BY <2>1, <2>2 DEF Next
<1> QED
  BY <1>1, <1>2, InvariantHolds, PTL DEF Spec, KeepsDiary, D!Spec
=============================================================================
