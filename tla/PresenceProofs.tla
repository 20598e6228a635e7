--------------------------- MODULE PresenceProofs ---------------------------
(***************************************************************************)
(* Proofs about Presence.                                                  *)
(***************************************************************************)
EXTENDS Presence, TLAPS

Types ==
  /\ clock \in Nat
  /\ rows \subseteq Row
  /\ at \in [Processes -> Int]
  /\ seen \in [Processes -> SUBSET Vehicles]
  /\ until \in Nat

(* The window read last ends in the past, and a tick that may still write  *)
(* into it was under way when it was read.                                 *)
Windows ==
  /\ until <= clock
  /\ \A p \in Processes :
       /\ at[p] = -1 \/ at[p] \in 0 .. clock
       /\ at[p] # -1 /\ at[p] < until => at[p] \in overtaken

(* What was told lies before the end of the last window.                   *)
Told == \A pair \in got : pair[2] \in Nat /\ pair[2] < until

Inv == Types /\ Windows /\ Told /\ EachArrivalOnce

(* An empty table and no window read.                                      *)
LEMMA InitInv == Init => Inv
  BY PresenceAssumption
  DEF Init, Inv, Types, Windows, Told, EachArrivalOnce, Row

(* Time passes.                                                            *)
LEMMA ClockInv == Inv /\ ClockTick => Inv'
<1> SUFFICES ASSUME Inv, ClockTick PROVE Inv'
  OBVIOUS
<1>1. Types'
  BY DEF Inv, Types, ClockTick, tickVars, reader
<1>2. Windows'
  BY DEF Inv, Types, Windows, ClockTick, tickVars, reader
<1>3. Told' /\ EachArrivalOnce'
  BY DEF Inv, Told, EachArrivalOnce, ClockTick, tickVars, reader
<1> QED BY <1>1, <1>2, <1>3 DEF Inv

(* A tick takes its time, after every window read so far.                  *)
LEMMA FetchInv == ASSUME NEW p \in Processes PROVE Inv /\ Fetch(p) => Inv'
<1> SUFFICES ASSUME Inv, Fetch(p) PROVE Inv'
  OBVIOUS
<1>1. Types'
  BY DEF Inv, Types, Fetch, reader
<1>2. Windows'
  BY DEF Inv, Types, Windows, Fetch, reader
<1>3. Told' /\ EachArrivalOnce'
  BY DEF Inv, Told, EachArrivalOnce, Fetch, reader
<1> QED BY <1>1, <1>2, <1>3 DEF Inv

(* A tick that gets no answer leaves the table alone.                      *)
LEMMA LoseInv == ASSUME NEW p \in Processes PROVE Inv /\ Lose(p) => Inv'
<1> SUFFICES ASSUME Inv, Lose(p) PROVE Inv'
  OBVIOUS
<1>1. Types'
  BY DEF Inv, Types, Lose, reader
<1>2. Windows'
  BY DEF Inv, Types, Windows, Lose, reader
<1>3. Told' /\ EachArrivalOnce'
  BY DEF Inv, Told, EachArrivalOnce, Lose, reader
<1> QED BY <1>1, <1>2, <1>3 DEF Inv

(* A tick commits: what it extends keeps its vehicle and its beginning,    *)
(* what it adds begins at its time.                                        *)
LEMMA ObserveInv == ASSUME NEW p \in Processes PROVE Inv /\ ObservePresence(p) => Inv'
<1> SUFFICES ASSUME Inv, ObservePresence(p) PROVE Inv'
  OBVIOUS
<1>1. at[p] # -1 /\ at[p] \in Nat /\ until' = until /\ got' = got
      /\ twice' = twice /\ overtaken' = overtaken /\ clock' = clock
  BY DEF Inv, Types, Windows, ObservePresence, reader
<1>2. \A r \in rows' :
        /\ r \in Row
        /\ \/ r.first = at[p]
           \/ \E old \in rows : old.vehicle = r.vehicle /\ old.first = r.first
  <2> DEFINE extended == {r \in Open(at[p]) : r.vehicle \in seen[p]}
             added == [vehicle : seen[p], first : {at[p]}, last : {at[p]}]
             later == {[r EXCEPT !.last = at[p]] : r \in extended}
  <2>1. extended \subseteq rows
    BY DEF Open
  <2>2. \A r \in rows' : r \in rows \/ r \in later \/ r \in added
    BY DEF ObservePresence
  <2>3. \A r \in added : r \in Row /\ r.first = at[p]
    BY <1>1 DEF Inv, Types, Row
  <2>4. \A r \in later : r \in Row /\ \E old \in rows : old.vehicle = r.vehicle /\ old.first = r.first
    BY <1>1, <2>1 DEF Inv, Types, Row
  <2> QED BY <2>2, <2>3, <2>4 DEF Inv, Types
<1>3. Types'
  BY <1>1, <1>2 DEF Inv, Types, ObservePresence
<1>4. Windows'
  BY <1>1 DEF Inv, Types, Windows, ObservePresence
<1>5. Told'
  BY <1>1 DEF Inv, Told
<1>6. EachArrivalOnce'
  <2> SUFFICES ASSUME NEW r \in rows', r.first < until
               PROVE  <<r.vehicle, r.first>> \in got \/ r.first \in overtaken
    BY <1>1 DEF Inv, EachArrivalOnce
  <2>1. CASE r.first = at[p]
    BY <1>1, <2>1 DEF Inv, Windows
  <2>2. CASE \E old \in rows : old.vehicle = r.vehicle /\ old.first = r.first
    BY <2>2 DEF Inv, EachArrivalOnce
  <2> QED BY <1>2, <2>1, <2>2
<1> QED BY <1>3, <1>4, <1>5, <1>6 DEF Inv

(* A consumer reads the window from its last one up to now.                *)
LEMMA ReadInv == Inv /\ Read => Inv'
<1> SUFFICES ASSUME Inv, Read PROVE Inv'
  OBVIOUS
<1> DEFINE told == {<<r.vehicle, r.first>> : r \in Arrivals(until, clock)}
<1>1. /\ until < clock /\ until' = clock /\ clock' = clock
      /\ rows' = rows /\ at' = at /\ seen' = seen
      /\ got' = got \cup told /\ twice' = twice \cup (got \cap told)
      /\ overtaken' = overtaken \cup {at[p] : p \in {q \in Processes : at[q] \in 0 .. clock - 1}}
  BY DEF Read, tickVars
<1>2. \A r \in rows : r.first \in Nat
  BY DEF Inv, Types, Row
<1>3. /\ \A pair \in told : pair[2] \in Nat /\ until <= pair[2] /\ pair[2] < clock
      /\ \A r \in rows : until <= r.first /\ r.first < clock
                        => <<r.vehicle, r.first>> \in told
  BY <1>2 DEF Arrivals
<1> HIDE DEF told
<1>4. Types'
  BY <1>1 DEF Inv, Types
<1>5. Windows'
  BY <1>1 DEF Inv, Types, Windows
<1>6. Told'
  <2> SUFFICES ASSUME NEW pair \in got \cup told PROVE pair[2] \in Nat /\ pair[2] < clock
    BY <1>1 DEF Told
  <2>1. CASE pair \in told
    BY <1>3, <2>1
  <2>2. CASE pair \in got
    <3>1. pair[2] \in Nat /\ pair[2] < until
      BY <2>2 DEF Inv, Told
    <3> QED BY <3>1, <1>1 DEF Inv, Types
  <2> QED BY <2>1, <2>2
<1>7. twice' = {}
  <2>1. got \cap told = {}
    BY <1>3 DEF Inv, Types, Told
  <2> QED BY <1>1, <2>1 DEF Inv, EachArrivalOnce
<1>8. ASSUME NEW r \in rows, r.first < clock
      PROVE  <<r.vehicle, r.first>> \in got' \/ r.first \in overtaken'
  <2>1. CASE r.first < until
    BY <1>1, <2>1 DEF Inv, EachArrivalOnce
  <2>2. CASE until <= r.first
    BY <1>1, <1>3, <1>8, <2>2
  <2> QED BY <1>2, <2>1, <2>2 DEF Inv, Types
<1> QED BY <1>1, <1>4, <1>5, <1>6, <1>7, <1>8 DEF Inv, EachArrivalOnce

(* So the invariant holds throughout.                                      *)
LEMMA AllInv == Spec => []Inv
<1>1. Inv /\ UNCHANGED vars => Inv'
  BY DEF Inv, Types, Windows, Told, EachArrivalOnce, vars, tickVars, reader
<1>2. Inv /\ [Next]_vars => Inv'
  BY <1>1, ClockInv, FetchInv, LoseInv, ObserveInv, ReadInv DEF Next
<1> QED BY InitInv, <1>2, PTL DEF Spec

(* A consumer that asks window by window is told of every arrival once,    *)
(* but for those of a tick that was under way when it asked, for any       *)
(* number of processes and any Stale (Arrivals, ObservePresence).          *)
THEOREM ArrivesOnce == Spec => []EachArrivalOnce
<1>1. Inv => EachArrivalOnce
  BY DEF Inv
<1> QED BY AllInv, <1>1, PTL

-----------------------------------------------------------------------------
(* The stints of one set of sightings: the pairs StintsAreRuns asks for.   *)
IsStint(times, a, b) ==
  /\ a \in Starts(times) /\ b \in Ends(times) /\ a <= b
  /\ \A s \in Starts(times) : ~ (a < s /\ s <= b)

(* The first sighting is a stint of its own.                               *)
LEMMA FirstSighting ==
  ASSUME NEW n \in Nat
  PROVE  \A x, y : IsStint({n}, x, y) <=> x = n /\ y = n
BY DEF IsStint, Starts, Ends, Follows

(* A sighting later than all others begins a stint exactly if the one      *)
(* before it is more than Stale ago; no earlier one changes what it is.    *)
LEMMA LaterStarts ==
  ASSUME NEW times \in SUBSET Nat, NEW m \in times, \A t \in times : t <= m,
         NEW n \in Nat, m < n
  PROVE  \A x : x \in Starts(times \cup {n})
               <=> x \in Starts(times) \/ (x = n /\ n - m > Stale)
<1> DEFINE more == times \cup {n}
<1> USE PresenceAssumption
<1>1. \A t \in times : t \in Nat /\ t <= m /\ t < n /\ t # n
  OBVIOUS
<1>2. ASSUME NEW t \in times, NEW s \in more
      PROVE  Follows(s, t, more) <=> s \in times /\ Follows(s, t, times)
  BY <1>1, <1>2 DEF Follows
<1>3. ASSUME NEW s \in more
      PROVE  Follows(s, n, more) <=> s = m
  BY <1>1, <1>3 DEF Follows
<1>4. ASSUME NEW x \in times
      PROVE  x \in Starts(more) <=> x \in Starts(times)
  BY <1>2, <1>4 DEF Starts
<1>5. n \in Starts(more) <=> n - m > Stale
  BY <1>3 DEF Starts
<1>6. \A x : x \in Starts(more) => x \in more
  BY DEF Starts
<1>7. \A x : x \in Starts(times) => x \in times
  BY DEF Starts
<1> SUFFICES ASSUME NEW x
             PROVE  x \in Starts(more) <=> x \in Starts(times) \/ (x = n /\ n - m > Stale)
  OBVIOUS
<1>8. CASE x \in times
  BY <1>1, <1>4, <1>8
<1>9. CASE x = n
  BY <1>1, <1>5, <1>7, <1>9
<1> QED BY <1>6, <1>7, <1>8, <1>9

(* And the one before it no longer ends a stint, unless it was more than   *)
(* Stale ago.                                                              *)
LEMMA LaterEnds ==
  ASSUME NEW times \in SUBSET Nat, NEW m \in times, \A t \in times : t <= m,
         NEW n \in Nat, m < n
  PROVE  /\ m \in Ends(times)
         /\ \A x : x \in Ends(times \cup {n})
                <=> x = n \/ (x \in Ends(times) /\ (x # m \/ n - m > Stale))
<1> DEFINE more == times \cup {n}
<1> USE PresenceAssumption
<1>1. \A t \in times : t \in Nat /\ t <= m /\ t < n /\ t # n
  OBVIOUS
<1>2. ASSUME NEW t \in times, NEW u \in times
      PROVE  Follows(t, u, more) <=> Follows(t, u, times)
  BY <1>1, <1>2 DEF Follows
<1>3. ASSUME NEW t \in times
      PROVE  Follows(t, n, more) <=> t = m
  BY <1>1, <1>3 DEF Follows
<1>4. ASSUME NEW x \in times
      PROVE  x \in Ends(more) <=> x \in Ends(times) /\ (x # m \/ n - m > Stale)
  BY <1>2, <1>3, <1>4 DEF Ends
<1>5. \A u \in more : ~ Follows(n, u, more)
  BY <1>1 DEF Follows
<1>6. n \in Ends(more)
  BY <1>5 DEF Ends
<1>7. \A u \in times : ~ Follows(m, u, times)
  BY <1>1 DEF Follows
<1>8. m \in Ends(times)
  BY <1>7 DEF Ends
<1>9. /\ \A x : x \in Ends(more) => x \in more
      /\ \A x : x \in Ends(times) => x \in times
  BY DEF Ends
<1> QED BY <1>1, <1>4, <1>6, <1>8, <1>9

(* So a sighting after a longer gap adds a stint,                          *)
LEMMA AfterGap ==
  ASSUME NEW times \in SUBSET Nat, NEW m \in times, \A t \in times : t <= m,
         NEW n \in Nat, m < n, n - m > Stale
  PROVE  \A x, y : IsStint(times \cup {n}, x, y)
                  <=> IsStint(times, x, y) \/ (x = n /\ y = n)
<1>1. /\ \A x : x \in Starts(times \cup {n}) <=> x \in Starts(times) \/ x = n
      /\ \A x : x \in Ends(times \cup {n}) <=> x \in Ends(times) \/ x = n
  BY LaterStarts, LaterEnds
<1>2. /\ \A x \in Starts(times) : x \in Nat /\ x < n
      /\ \A x \in Ends(times) : x \in Nat /\ x < n
  BY DEF Starts, Ends
<1> QED BY <1>1, <1>2 DEF IsStint

(* and one within Stale moves the end of the last stint, and of no other.  *)
LEMMA WithinStale ==
  ASSUME NEW times \in SUBSET Nat, NEW m \in times, \A t \in times : t <= m,
         NEW n \in Nat, m < n, ~ (n - m > Stale)
  PROVE  \A x, y : IsStint(times \cup {n}, x, y)
                  <=> \/ IsStint(times, x, y) /\ y # m
                      \/ IsStint(times, x, m) /\ y = n
<1>1. /\ \A x : x \in Starts(times \cup {n}) <=> x \in Starts(times)
      /\ \A x : x \in Ends(times \cup {n}) <=> x = n \/ (x \in Ends(times) /\ x # m)
      /\ m \in Ends(times)
  BY LaterStarts, LaterEnds
<1>2. /\ \A x \in Starts(times) : x \in Nat /\ x <= m /\ x < n
      /\ \A x \in Ends(times) : x \in Nat /\ x <= m /\ x < n
  BY DEF Starts, Ends
<1> SUFFICES ASSUME NEW x, NEW y
             PROVE  IsStint(times \cup {n}, x, y)
                    <=> \/ IsStint(times, x, y) /\ y # m
                        \/ IsStint(times, x, m) /\ y = n
  OBVIOUS
<1>3. CASE y = n
  <2>1. n \notin Ends(times)
    BY <1>2
  <2>2. n \in Ends(times \cup {n})
    BY <1>1
  <2>3. ASSUME NEW a \in Starts(times)
        PROVE  /\ a <= n /\ a <= m
               /\ \A s \in Starts(times) : (a < s /\ s <= n) <=> (a < s /\ s <= m)
    BY <1>2, <2>3
  <2>4. IsStint(times \cup {n}, x, n) <=> IsStint(times, x, m)
    BY <1>1, <2>2, <2>3 DEF IsStint
  <2>5. ~ IsStint(times, x, n)
    BY <2>1 DEF IsStint
  <2> QED BY <1>3, <2>4, <2>5
<1>4. CASE y # n
  BY <1>1, <1>2, <1>4 DEF IsStint
<1> QED BY <1>3, <1>4

(* The table is the history of sightings, no sighting is later than the    *)
(* time of a tick under way, and the last one of each vehicle has its row. *)
Sighted ==
  /\ clock <= MaxClock
  /\ sighted \in [Vehicles -> SUBSET Nat]
  /\ \A v \in Vehicles : \A t \in sighted[v] :
       t <= clock /\ \A p \in Processes : at[p] # -1 => t <= at[p]
Recorded ==
  \A r \in Row : r \in rows <=> IsStint(sighted[r.vehicle], r.first, r.last)
Single ==
  \A r, s \in rows : r.vehicle = s.vehicle /\ r.first = s.first => r = s
Latest(v, l) ==
  /\ l \in rows /\ l.vehicle = v /\ l.last \in sighted[v]
  /\ \A t \in sighted[v] : t <= l.last
Remembered == \A v \in Vehicles : sighted[v] = {} \/ \E l \in rows : Latest(v, l)

StintInv == Sighted /\ Recorded /\ Single /\ Remembered

(* The open stint of a vehicle is its latest, unless that is stale.        *)
LEMMA OpenIsLatest ==
  ASSUME Inv, StintInv, NEW v \in Vehicles, NEW l, Latest(v, l),
         NEW n \in Nat, l.last <= n, NEW r \in rows, r.vehicle = v
  PROVE  r \in Open(n) <=> r = l /\ ~ (n - l.last > Stale)
<1> USE PresenceAssumption
<1>1. /\ r \in Row /\ l \in Row /\ r.first \in Nat /\ r.last \in Nat
      /\ l.first \in Nat /\ l.last \in Nat /\ l.vehicle = v /\ l \in rows
  BY DEF Inv, Types, Row, Latest
<1>2. \A s \in rows : s.vehicle = v =>
        /\ s.first \in Nat /\ s.last \in Nat
        /\ s.first \in Starts(sighted[v]) /\ s.last <= l.last /\ s.first <= s.last
  <2> TAKE s \in rows
  <2> HAVE s.vehicle = v
  <2>1. s \in Row /\ s.first \in Nat /\ s.last \in Nat
    BY DEF Inv, Types, Row
  <2>2. IsStint(sighted[v], s.first, s.last)
    BY <2>1 DEF StintInv, Recorded
  <2>3. s.last \in sighted[v]
    BY <2>2 DEF IsStint, Ends
  <2> QED BY <2>1, <2>2, <2>3 DEF IsStint, Latest
<1>3. \A s \in rows : s.vehicle = v => s.first <= l.first
  <2>1. IsStint(sighted[v], l.first, l.last)
    BY <1>1 DEF StintInv, Recorded
  <2> QED BY <1>1, <1>2, <2>1 DEF IsStint
<1>4. CASE n - l.last > Stale
  BY <1>1, <1>2, <1>4 DEF Open, Fresh
<1>5. CASE ~ (n - l.last > Stale)
  <2>1. l \in Fresh(v, n)
    BY <1>1, <1>5 DEF Fresh
  <2>2. \A s \in Fresh(v, n) : s \in rows /\ s.vehicle = v
    BY DEF Fresh
  <2>3. l \in Open(n)
    BY <1>1, <1>3, <2>1, <2>2 DEF Open
  <2>4. r \in Open(n) => r = l
    <3>1. SUFFICES ASSUME r \in Open(n) PROVE r = l
      OBVIOUS
    <3>2. l.first <= r.first
      BY <3>1, <2>1 DEF Open
    <3>3. r.first = l.first
      BY <3>2, <1>1, <1>3
    <3> QED BY <3>3, <1>1 DEF StintInv, Single
  <2> QED BY <1>5, <2>3, <2>4
<1> QED BY <1>4, <1>5

(* What a tick that commits leaves in the table, row by row.               *)
LEMMA RowsAfter ==
  ASSUME Inv, NEW p \in Processes, ObservePresence(p), NEW r \in Row
  PROVE  r \in rows' <=>
           \/ r \in rows /\ ~ (r \in Open(at[p]) /\ r.vehicle \in seen[p])
           \/ /\ r.vehicle \in seen[p] /\ r.last = at[p]
              /\ \E e \in Open(at[p]) : e.vehicle = r.vehicle /\ e.first = r.first
           \/ /\ r.vehicle \in seen[p] /\ r.first = at[p] /\ r.last = at[p]
              /\ ~ \E e \in Open(at[p]) : e.vehicle = r.vehicle
<1> DEFINE extended == {e \in Open(at[p]) : e.vehicle \in seen[p]}
           arrived == seen[p] \ {e.vehicle : e \in extended}
           later == {[e EXCEPT !.last = at[p]] : e \in extended}
           fresh == {[vehicle |-> v, first |-> at[p], last |-> at[p]] : v \in arrived}
<1>1. rows' = (rows \ extended) \cup later \cup fresh
  BY DEF ObservePresence
<1>2. \A e \in extended : e \in Row
  BY DEF Open, Inv, Types
<1>3. r \in later <=> /\ r.last = at[p]
                     /\ \E e \in extended : e.vehicle = r.vehicle /\ e.first = r.first
  <2>1. \A e \in Row : r = [e EXCEPT !.last = at[p]]
                     <=> r.last = at[p] /\ e.vehicle = r.vehicle /\ e.first = r.first
    BY DEF Row
  <2> QED BY <1>2, <2>1
<1>4. r \in fresh <=> r.first = at[p] /\ r.last = at[p] /\ r.vehicle \in arrived
  BY DEF Row
<1> QED BY <1>1, <1>3, <1>4

(* The rows of one vehicle are its stints.                                 *)
Right(v) ==
  /\ \A r \in Row : r.vehicle = v =>
       (r \in rows <=> IsStint(sighted[v], r.first, r.last))
  /\ \A r, s \in rows : r.vehicle = v /\ s.vehicle = v /\ r.first = s.first => r = s
  /\ sighted[v] = {} \/ \E l \in rows : Latest(v, l)

(* They are after a tick that commits, whether it saw the vehicle for the  *)
(* first time, again at the same time, after a gap or within Stale, or not *)
(* at all.                                                                 *)
LEMMA ObserveRight ==
  ASSUME Inv, StintInv, NEW p \in Processes, ObservePresence(p), Inv', NEW v \in Vehicles
  PROVE  Right(v)'
<1> DEFINE n == at[p]  times == sighted[v]
<1>1. n \in Nat /\ times \in SUBSET Nat /\ \A t \in times : t \in Nat /\ t <= n
  BY DEF Inv, Windows, Types, StintInv, Sighted, ObservePresence
<1>2. sighted'[v] = IF v \in seen[p] THEN times \cup {n} ELSE times
  BY DEF ObservePresence
<1>3. rows \subseteq Row /\ rows' \subseteq Row
  BY DEF Inv, Types
<1>4. \A r \in Row : r.first \in Nat /\ r.last \in Nat
  BY DEF Row
<1>5. \A r \in Row : r.vehicle = v => (r \in rows <=> IsStint(times, r.first, r.last))
  BY DEF StintInv, Recorded
<1>6. \A r, s \in rows : r.vehicle = v /\ s.vehicle = v /\ r.first = s.first => r = s
  BY DEF StintInv, Single
<1>7. times = {} \/ \E l \in rows : Latest(v, l)
  BY DEF StintInv, Remembered
<1>8. \A r, s \in Row : r.vehicle = s.vehicle /\ r.first = s.first /\ r.last = s.last => r = s
  BY DEF Row
<1>9. \A e \in Open(n) : e \in rows
  BY DEF Open
<1>10. CASE v \notin seen[p]
  <2>1. \A r \in Row : r.vehicle = v => (r \in rows' <=> r \in rows)
    BY <1>10, RowsAfter
  <2>2. times = {} \/ \E l \in rows' : Latest(v, l)'
    BY <1>2, <1>3, <1>7, <1>10, <2>1 DEF Latest
  <2> QED BY <1>2, <1>3, <1>5, <1>6, <1>10, <2>1, <2>2 DEF Right
<1>11. ASSUME v \in seen[p], times = {} PROVE Right(v)'
  <2>1. sighted'[v] = {n}
    BY <1>2, <1>11
  <2>2. \A r \in rows : r.vehicle # v
    BY <1>3, <1>5, <1>11 DEF IsStint, Starts
  <2>3. \A r \in Row : r.vehicle = v => (r \in rows' <=> r.first = n /\ r.last = n)
    BY <1>9, <1>11, <2>2, RowsAfter
  <2>4. [vehicle |-> v, first |-> n, last |-> n] \in Row
    BY <1>1 DEF Row
  <2>5. \E l \in rows' : Latest(v, l)'
    BY <1>1, <2>1, <2>3, <2>4 DEF Latest
  <2>6. \A r \in Row : r.vehicle = v => (r \in rows' <=> IsStint(sighted'[v], r.first, r.last))
    BY <1>1, <2>1, <2>3, FirstSighting
  <2>7. \A r, s \in rows' : r.vehicle = v /\ s.vehicle = v => r = s
    BY <1>3, <1>8, <2>3
  <2> QED BY <2>5, <2>6, <2>7 DEF Right
<1>12. ASSUME v \in seen[p], NEW l \in rows, Latest(v, l) PROVE Right(v)'
  <2> DEFINE m == l.last
  <2>1. /\ l.vehicle = v /\ l \in Row /\ m \in Nat /\ m \in times /\ m <= n
        /\ l.first \in Nat /\ \A t \in times : t <= m
    BY <1>1, <1>3, <1>4, <1>12 DEF Latest
  <2>2. \A r \in rows : r.vehicle = v =>
          (r \in Open(n) <=> r = l /\ ~ (n - m > Stale))
    BY <1>1, <1>12, <2>1, OpenIsLatest
  <2>3. IsStint(times, l.first, m) /\ l.first <= m
    BY <1>5, <2>1 DEF IsStint
  <2>4. sighted'[v] = times \cup {n}
    BY <1>2, <1>12
  <2>5. CASE n - m > Stale
    <3>1. m < n
      BY <1>1, <2>1, <2>5, PresenceAssumption
    <3>2. \A r \in Row : r.vehicle = v =>
            (r \in rows' <=> r \in rows \/ (r.first = n /\ r.last = n))
      BY <1>9, <1>12, <2>2, <2>5, RowsAfter
    <3>3. \A r \in Row : r.vehicle = v => (r \in rows' <=> IsStint(sighted'[v], r.first, r.last))
      BY <1>1, <1>5, <2>1, <2>4, <2>5, <3>1, <3>2, AfterGap
    <3>4. \A r \in rows : r.vehicle = v => r.first < n
      <4>1. \A r \in rows : r.vehicle = v => r.first \in times
        BY <1>3, <1>5 DEF IsStint, Starts
      <4> QED BY <4>1, <3>1, <2>1, <1>1
    <3>5. \A r, s \in rows' : r.vehicle = v /\ s.vehicle = v /\ r.first = s.first => r = s
      BY <1>1, <1>3, <1>4, <1>6, <1>8, <3>2, <3>4
    <3>6. [vehicle |-> v, first |-> n, last |-> n] \in Row
      BY <1>1 DEF Row
    <3>7. \E k \in rows' : Latest(v, k)'
      BY <1>1, <2>4, <3>2, <3>6 DEF Latest
    <3> QED BY <3>3, <3>5, <3>7 DEF Right
  <2>6. CASE ~ (n - m > Stale)
    <3>1. l \in Open(n)
      BY <2>1, <2>2, <2>6
    <3>2. \A r \in Row : r.vehicle = v =>
            (r \in rows' <=> \/ (r \in rows /\ r # l)
                           \/ (r.first = l.first /\ r.last = n))
      BY <1>9, <1>12, <2>1, <2>2, <2>6, <3>1, RowsAfter
    <3>3. \A r, s \in rows' : r.vehicle = v /\ s.vehicle = v /\ r.first = s.first => r = s
      BY <1>3, <1>6, <1>8, <1>12, <2>1, <3>2
    <3>4. [vehicle |-> v, first |-> l.first, last |-> n] \in Row
      BY <1>1, <2>1 DEF Row
    <3>5. \E k \in rows' : Latest(v, k)'
      BY <1>1, <2>4, <3>2, <3>4 DEF Latest
    <3>6. ASSUME NEW r \in Row, r.vehicle = v
          PROVE  r \in rows' <=> IsStint(sighted'[v], r.first, r.last)
      <4>1. CASE m = n
        <5>1. sighted'[v] = times
          BY <2>1, <2>4, <4>1
        <5>2. (r.first = l.first /\ r.last = n) <=> r = l
          BY <1>8, <2>1, <3>6, <4>1
        <5> QED BY <1>5, <1>12, <3>2, <3>6, <5>1, <5>2
      <4>2. CASE m # n
        <5>1. m < n
          BY <1>1, <2>1, <4>2
        <5>2. IsStint(sighted'[v], r.first, r.last)
              <=> \/ IsStint(times, r.first, r.last) /\ r.last # m
                  \/ IsStint(times, r.first, m) /\ r.last = n
          <6>1. \A x, y : IsStint(times \cup {n}, x, y)
                         <=> \/ IsStint(times, x, y) /\ y # m
                             \/ IsStint(times, x, m) /\ y = n
            <7> HIDE DEF times, n, m
            <7> QED BY <1>1, <2>1, <2>6, <5>1, WithinStale
          <6> QED BY <6>1, <2>4
        <5>3. IsStint(times, r.first, m) <=> r.first = l.first
          BY <1>4, <2>1, <2>3, <3>6 DEF IsStint
        <5>4. r \in rows /\ r # l <=> IsStint(times, r.first, r.last) /\ r.last # m
          <6>1. r \in rows /\ r.last = m => r = l
            BY <1>5, <1>8, <2>1, <3>6, <5>3
          <6>2. IsStint(times, r.first, r.last) <=> r \in rows
            BY <1>5, <3>6
          <6> QED BY <6>1, <6>2
        <5> QED BY <3>2, <3>6, <5>2, <5>3, <5>4
      <4> QED BY <4>1, <4>2
    <3> QED BY <3>3, <3>5, <3>6 DEF Right
  <2> QED BY <2>5, <2>6
<1> QED BY <1>7, <1>10, <1>11, <1>12

(* A tick that commits adds its time as the last sighting of what it saw.  *)
LEMMA ObserveStints ==
  ASSUME Inv, StintInv, NEW p \in Processes, ObservePresence(p), Inv',
         \A q \in Processes : q = p
  PROVE  StintInv'
<1>1. \A v \in Vehicles : Right(v)'
  BY ObserveRight
<1>2. rows' \subseteq Row /\ \A r \in Row : r.vehicle \in Vehicles
  BY DEF Inv, Types, Row
<1>3. at[p] \in Nat /\ at[p] <= clock /\ at'[p] = -1 /\ clock' = clock
  BY DEF Inv, Windows, Types, ObservePresence
<1>4. Sighted'
  <2>1. sighted' \in [Vehicles -> SUBSET Nat]
    BY <1>3 DEF StintInv, Sighted, ObservePresence
  <2>2. \A v \in Vehicles : \A t \in sighted'[v] : t <= clock
    BY <1>3 DEF StintInv, Sighted, ObservePresence
  <2> QED BY <1>3, <2>1, <2>2 DEF StintInv, Sighted
<1>5. Recorded' /\ Single' /\ Remembered'
  BY <1>1, <1>2 DEF Right, Recorded, Single, Remembered
<1> QED BY <1>4, <1>5 DEF StintInv

(* All other steps leave the table and its history alone.                  *)
LEMMA StintStep ==
  ASSUME Inv, StintInv, [Next]_vars, Inv', \A p, q \in Processes : p = q
  PROVE  StintInv'
<1>1. CASE \E p \in Processes : ObservePresence(p)
  BY <1>1, ObserveStints
<1>2. ASSUME rows' = rows, sighted' = sighted, Sighted'
      PROVE  StintInv'
  <2>1. Recorded' /\ Single'
    BY <1>2 DEF StintInv, Recorded, Single
  <2>2. Remembered'
    BY <1>2 DEF StintInv, Remembered, Latest
  <2> QED BY <1>2, <2>1, <2>2 DEF StintInv
<1>3. CASE ClockTick
  BY <1>2, <1>3, PresenceAssumption DEF StintInv, Sighted, ClockTick, tickVars, Inv, Types
<1>4. ASSUME NEW p \in Processes, Fetch(p) PROVE StintInv'
  BY <1>2, <1>4 DEF StintInv, Sighted, Fetch, reader, Inv, Types
<1>5. ASSUME NEW p \in Processes, Lose(p) PROVE StintInv'
  BY <1>2, <1>5 DEF StintInv, Sighted, Lose, reader, Inv, Types
<1>6. CASE Read
  BY <1>2, <1>6 DEF StintInv, Sighted, Read, tickVars
<1>7. CASE UNCHANGED vars
  BY <1>2, <1>7 DEF StintInv, Sighted, vars, tickVars
<1> QED BY <1>1, <1>3, <1>4, <1>5, <1>6, <1>7 DEF Next

(* While one process ticks, the table is at all times the history of       *)
(* sightings, cut where a vehicle was unseen for longer than Stale, for    *)
(* any vehicles and any Stale (ObservePresence).  A second process breaks  *)
(* it: it may commit a sighting that is older than the last.               *)
THEOREM StintsAreHistory ==
  ASSUME \A p, q \in Processes : p = q
  PROVE  Spec => []StintsAreRuns
<1>1. Init => StintInv
  BY PresenceAssumption
  DEF Init, StintInv, Sighted, Recorded, Single, Remembered, IsStint, Starts, Row
<1>2. Inv /\ Inv' /\ StintInv /\ [Next]_vars => StintInv'
  BY StintStep
<1>3. Inv /\ StintInv => StintsAreRuns
  <2> SUFFICES ASSUME Inv, StintInv PROVE StintsAreRuns
    OBVIOUS
  <2> DEFINE bounded == [vehicle : Vehicles, first : 0 .. MaxClock, last : 0 .. MaxClock]
  <2>1. \A v \in Vehicles : \A t \in sighted[v] : t \in 0 .. MaxClock
    <3> TAKE v \in Vehicles
    <3> TAKE t \in sighted[v]
    <3>1. t \in Nat /\ t <= clock /\ clock <= MaxClock
      BY DEF StintInv, Sighted
    <3> QED BY <3>1, PresenceAssumption DEF Inv, Types
  <2>2. \A r \in Row : r \in rows =>
          r.vehicle \in Vehicles /\ r.first \in 0 .. MaxClock /\ r.last \in 0 .. MaxClock
    BY <2>1 DEF StintInv, Recorded, IsStint, Starts, Ends, Row
  <2>3. rows \subseteq bounded
    BY <2>2 DEF Inv, Types, Row
  <2>4. \A r \in bounded : r \in Row
    BY DEF Row
  <2>5. \A r \in bounded : r \in rows <=> IsStint(sighted[r.vehicle], r.first, r.last)
    BY <2>4 DEF StintInv, Recorded
  <2> QED BY <2>3, <2>5 DEF StintsAreRuns, IsStint
<1> QED BY <1>1, <1>2, <1>3, AllInv, PTL DEF Spec
=============================================================================
