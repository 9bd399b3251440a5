------------------------ MODULE EventIngestionProofs ------------------------
(***************************************************************************)
(* Theorems about the consumer group and its deduplication, for any        *)
(* workers, partitions, messages and faults.                               *)
(***************************************************************************)
EXTENDS EventIngestion, TLAPS

\* An event is routed, being routed, or its handling failed before that.
Safe(e) == e \in handled \cup orphaned \/ InHand(e)

\* A message below a position the group or a worker has got past.
Accounted(p, i) ==
    Messages[p][i] \in Valid => Safe(Messages[p][i]) \/ <<p, i>> \in failed

\* The position a worker is at.
Placed(w, p) ==
    /\ pos[<<w, p>>] \in 1..Len(Messages[p]) + 1
    /\ pc[<<w, p>>] /= "idle" => pos[<<w, p>>] \in Positions(p)

\* Every message the worker has left behind is accounted for.
LeftBehind(w, p) ==
    /\ \A i \in 1..pos[<<w, p>>] - 1 : Accounted(p, i)
    /\ pc[<<w, p>>] = "done" => Accounted(p, pos[<<w, p>>])

Claimed(w, p) == pc[<<w, p>>] = "claimed"

\* Whoever has claimed an event holds its key, and has not routed it yet.
ClaimFits(w, p) ==
    Claimed(w, p) => Event(w, p) \in dedup /\ processed[Event(w, p)] = 0

\* No two of them have claimed one event.
OneClaim ==
    \A w, v \in Workers, p, q \in Partitions :
        Claimed(w, p) /\ Claimed(v, q) /\ Event(w, p) = Event(v, q) => w = v /\ p = q

Keyed(e) ==
    /\ processed[e] <= 1
    /\ processed[e] = 1 => e \in dedup
    /\ e \in dedup => Safe(e)

IngestInv ==
    /\ TypeOK
    /\ \A w \in Workers, p \in Partitions : Placed(w, p) /\ LeftBehind(w, p) /\ ClaimFits(w, p)
    /\ OneClaim
    /\ \A e \in Events : Keyed(e)
    /\ \A p \in Partitions : \A i \in Committed(p) : Accounted(p, i)

LEMMA MessageParts ==
    ASSUME NEW p \in Partitions
    PROVE  /\ Len(Messages[p]) \in Nat
           /\ \A i \in Positions(p) : i \in Nat \ {0} /\ Messages[p][i] \in Events
  BY IngestionAssumption DEF Positions

LEMMA InitIngest == Init => IngestInv
  <1> SUFFICES ASSUME Init PROVE IngestInv
      OBVIOUS
  <1> USE MessageParts DEF Init
  <1>1. TypeOK
      BY IngestionAssumption DEF TypeOK, Tasks, MaxProcessed
  <1>2. \A w \in Workers, p \in Partitions : Placed(w, p) /\ LeftBehind(w, p) /\ ClaimFits(w, p)
      BY DEF Placed, LeftBehind, ClaimFits, Claimed, Tasks
  <1>5. OneClaim
      BY DEF OneClaim, Claimed, Tasks
  <1>3. \A e \in Events : Keyed(e)
      BY DEF Keyed
  <1>4. \A p \in Partitions : \A i \in Committed(p) : Accounted(p, i)
      BY DEF Committed
  <1> QED
      BY <1>1, <1>2, <1>3, <1>4, <1>5 DEF IngestInv

\* Where a worker has a message in hand, it is one of the events.
LEMMA EventParts ==
    ASSUME IngestInv, NEW w \in Workers, NEW p \in Partitions, pc[<<w, p>>] /= "idle"
    PROVE  /\ Event(w, p) \in Events
           /\ pos[<<w, p>>] \in Positions(p)
           /\ pos[<<w, p>>] \in Nat \ {0}
           /\ pos[<<w, p>>] + 1 \in 1..Len(Messages[p]) + 1
  <1>1. pos[<<w, p>>] \in Positions(p)
      BY DEF IngestInv, Placed
  <1> QED
      BY <1>1, MessageParts DEF Event, Positions

\* The message a task is at, and what the task has left behind.
AtMessage(w, p) ==
    /\ Event(w, p) \in Events /\ Event(w, p) = Messages[p][pos[<<w, p>>]]
    /\ pos[<<w, p>>] \in Positions(p)
    /\ pos[<<w, p>>] \in 1..Len(Messages[p]) /\ pos[<<w, p>>] \in 1..Len(Messages[p]) + 1
    /\ pos[<<w, p>>] + 1 \in 1..Len(Messages[p]) + 1
    /\ pos[<<w, p>>] \in Nat /\ pos[<<w, p>>] + 1 \in Nat
    /\ \A i \in 1..(pos[<<w, p>>] + 1) - 1 : i \in 1..pos[<<w, p>>] - 1 \/ i = pos[<<w, p>>]
    /\ \A i \in 1..pos[<<w, p>>] - 1 : Accounted(p, i)
    /\ pc[<<w, p>>] = "done" => Accounted(p, pos[<<w, p>>])

LEMMA MessageAt ==
    ASSUME IngestInv, NEW w \in Workers, NEW p \in Partitions, pos[<<w, p>>] \in Positions(p)
    PROVE  AtMessage(w, p)
  <1>1. LeftBehind(w, p)
      BY DEF IngestInv
  <1>2. /\ pos[<<w, p>>] \in Nat \ {0} /\ Len(Messages[p]) \in Nat
        /\ pos[<<w, p>>] <= Len(Messages[p]) /\ pos[<<w, p>>] \in Positions(p)
      BY MessageParts DEF Positions
  <1>3. Event(w, p) \in Events /\ Event(w, p) = Messages[p][pos[<<w, p>>]]
      BY MessageParts DEF Event
  <1> QED
      BY ONLY <1>1, <1>2, <1>3 DEF LeftBehind, AtMessage

\* One task goes to a state and a position, the others stay where they are.
Moved(w, p, s, n) ==
    /\ pc' = [pc EXCEPT ![<<w, p>>] = s]
    /\ pos' = [pos EXCEPT ![<<w, p>>] = n]

LEMMA MovedTo ==
    ASSUME IngestInv, NEW w \in Workers, NEW p \in Partitions, NEW s, NEW n, Moved(w, p, s, n),
           NEW v \in Workers, NEW q \in Partitions
    PROVE  IF v = w /\ q = p THEN pc'[<<v, q>>] = s /\ pos'[<<v, q>>] = n
                            ELSE pc'[<<v, q>>] = pc[<<v, q>>] /\ pos'[<<v, q>>] = pos[<<v, q>>]
  BY DEF Moved, IngestInv, TypeOK, Tasks

\* Nothing accounted for is forgotten.
Remembers ==
    /\ \A e \in Events : Safe(e) => Safe(e)'
    /\ failed \subseteq failed'

LEMMA StaysAccounted ==
    ASSUME Remembers, NEW p \in Partitions, NEW i \in Positions(p), Accounted(p, i)
    PROVE  Accounted(p, i)'
  BY MessageParts DEF Accounted, Remembers

\* What a task has to show for the position it goes to.
LEMMA MovedPlaces ==
    ASSUME IngestInv, Remembers,
           NEW w \in Workers, NEW p \in Partitions, NEW s, NEW n \in 1..Len(Messages[p]) + 1,
           Moved(w, p, s, n),
           s /= "idle" => n \in Positions(p),
           \A i \in 1..n - 1 : Accounted(p, i) \/ Accounted(p, i)',
           s = "done" => Accounted(p, n)',
           NEW v \in Workers, NEW q \in Partitions
    PROVE  Placed(v, q)' /\ LeftBehind(v, q)'
  <1>1. \A o \in Partitions : \A i \in Positions(o) : Accounted(o, i) => Accounted(o, i)'
      BY StaysAccounted
  <1>2. Placed(v, q) /\ LeftBehind(v, q)
      BY DEF IngestInv
  <1>3. CASE v = w /\ q = p
    <2>1. pc'[<<v, q>>] = s /\ pos'[<<v, q>>] = n
        BY <1>3, MovedTo
    <2>2. \A i \in 1..n - 1 : Accounted(p, i)'
        BY <1>1, MessageParts DEF Positions
    <2> QED
        BY <1>3, <2>1, <2>2 DEF Placed, LeftBehind
  <1>4. CASE ~(v = w /\ q = p)
    <2>1. pc'[<<v, q>>] = pc[<<v, q>>] /\ pos'[<<v, q>>] = pos[<<v, q>>]
        BY <1>4, MovedTo
    <2>2. pos[<<v, q>>] \in 1..Len(Messages[q]) + 1
        BY <1>2 DEF Placed
    <2>3. \A i \in 1..pos[<<v, q>>] - 1 : Accounted(q, i)'
        BY <1>1, <1>2, <2>2, MessageParts DEF Positions, LeftBehind
    <2>4. pc[<<v, q>>] = "done" =>
            pos[<<v, q>>] \in Positions(q) /\ Accounted(q, pos[<<v, q>>])
        BY <1>2 DEF LeftBehind, Placed
    <2>5. \A i \in Positions(q) : i = pos[<<v, q>>] /\ pc[<<v, q>>] = "done" => Accounted(q, i)'
        BY <1>1, <2>4
    <2> QED
        BY <1>2, <2>1, <2>3, <2>4, <2>5 DEF Placed, LeftBehind
  <1> QED
      BY <1>3, <1>4

\* Below an unchanged commit everything stays accounted for.
LEMMA SameCommit ==
    ASSUME IngestInv, Remembers, committed' = committed
    PROVE  (\A p \in Partitions : \A i \in Committed(p) : Accounted(p, i))'
  <1> SUFFICES ASSUME NEW p \in Partitions, NEW i \in Committed(p)
               PROVE  Accounted(p, i)'
      BY DEF Committed
  <1>1. i \in Positions(p)
      BY MessageParts DEF IngestInv, TypeOK, Committed, Positions
  <1>2. Accounted(p, i)
      BY DEF IngestInv
  <1> QED
      BY <1>1, <1>2, StaysAccounted

\* While the tasks stay where they are, so does what is known of them.
LEMMA SamePlaces ==
    ASSUME IngestInv, Remembers, UNCHANGED <<pc, pos>>,
           NEW v \in Workers, NEW q \in Partitions
    PROVE  Placed(v, q)' /\ LeftBehind(v, q)'
  <1>1. \A i \in Positions(q) : Accounted(q, i) => Accounted(q, i)'
      BY StaysAccounted
  <1>2. Placed(v, q) /\ LeftBehind(v, q)
      BY DEF IngestInv
  <1>3. \A i \in 1..pos[<<v, q>>] - 1 : Accounted(q, i)'
      BY <1>1, <1>2, MessageParts DEF Placed, LeftBehind, Positions
  <1>4. pc[<<v, q>>] = "done" => Accounted(q, pos[<<v, q>>])'
      BY <1>1, <1>2 DEF LeftBehind, Placed
  <1> QED
      BY <1>2, <1>3, <1>4 DEF Placed, LeftBehind

\* An event leaves the hands of a task only routed or with its claim given up.
LEMMA MovedRemembers ==
    ASSUME IngestInv, NEW w \in Workers, NEW p \in Partitions, NEW s, NEW n, Moved(w, p, s, n),
           failed \subseteq failed', handled \subseteq handled', orphaned \subseteq orphaned',
           Claimed(w, p) => Event(w, p) \in handled' \cup orphaned'
    PROVE  Remembers
  <1> SUFFICES ASSUME NEW e \in Events, InHand(e)
               PROVE  Safe(e)'
      BY DEF Remembers, Safe
  <1>1. PICK v \in Workers, q \in Partitions : Claimed(v, q) /\ Event(v, q) = e
      BY DEF InHand, Claimed
  <1>2. CASE v = w /\ q = p
      BY <1>1, <1>2 DEF Safe
  <1>3. CASE ~(v = w /\ q = p)
    <2>1. pc'[<<v, q>>] = pc[<<v, q>>] /\ pos'[<<v, q>>] = pos[<<v, q>>]
        BY <1>3, MovedTo
    <2> QED
        BY <1>1, <2>1 DEF Safe, InHand, Event, Claimed
  <1> QED
      BY <1>2, <1>3

\* The claims that are left when a task goes to a state without one.
LEMMA MovedClaims ==
    ASSUME IngestInv, NEW w \in Workers, NEW p \in Partitions, NEW s, NEW n, Moved(w, p, s, n),
           s /= "claimed", dedup \subseteq dedup',
           \A e \in Events : processed'[e] = processed[e] \/ (Claimed(w, p) /\ e = Event(w, p))
    PROVE  /\ \A v \in Workers, q \in Partitions : ClaimFits(v, q)'
           /\ OneClaim'
  <1>1. ASSUME NEW v \in Workers, NEW q \in Partitions, Claimed(v, q)'
        PROVE  /\ ~(v = w /\ q = p)
               /\ Claimed(v, q) /\ Event(v, q)' = Event(v, q)
      BY <1>1, MovedTo DEF Claimed, Event
  <1>2. OneClaim
      BY DEF IngestInv
  <1>3. OneClaim'
      BY <1>1, <1>2 DEF OneClaim
  <1>4. ASSUME NEW v \in Workers, NEW q \in Partitions
        PROVE  ClaimFits(v, q)'
    <2> SUFFICES ASSUME Claimed(v, q)'
                 PROVE  Event(v, q)' \in dedup' /\ processed'[Event(v, q)'] = 0
        BY DEF ClaimFits
    <2>1. ~(v = w /\ q = p) /\ Claimed(v, q) /\ Event(v, q)' = Event(v, q)
        BY <1>1
    <2>2. Event(v, q) \in dedup /\ processed[Event(v, q)] = 0
        BY <2>1 DEF IngestInv, ClaimFits
    <2>3. Event(v, q) \in Events
        BY <2>1, EventParts DEF Claimed
    <2>4. ~(Claimed(w, p) /\ Event(v, q) = Event(w, p))
        BY <1>2, <2>1 DEF OneClaim
    <2> QED
        BY <2>1, <2>2, <2>3, <2>4
  <1> QED
      BY <1>3, <1>4

\* The claims that are left when no task moves.
LEMMA SameClaims ==
    ASSUME IngestInv, UNCHANGED <<pc, pos>>,
           \A e \in Events : InHand(e) => processed'[e] = processed[e] /\ (e \in dedup => e \in dedup')
    PROVE  /\ \A v \in Workers, q \in Partitions : ClaimFits(v, q)'
           /\ OneClaim'
  <1>1. ASSUME NEW v \in Workers, NEW q \in Partitions
        PROVE  ClaimFits(v, q)'
    <2> SUFFICES ASSUME Claimed(v, q)
                 PROVE  Event(v, q) \in dedup' /\ processed'[Event(v, q)] = 0
        BY DEF ClaimFits, Claimed, Event
    <2>1. InHand(Event(v, q)) /\ Event(v, q) \in Events
        BY EventParts DEF InHand, Claimed
    <2> QED
        BY <2>1 DEF IngestInv, ClaimFits
  <1>2. OneClaim'
      BY DEF IngestInv, OneClaim, Claimed, Event
  <1> QED
      BY <1>1, <1>2

\* The types of what a task's own step writes.
LEMMA MovedTypes ==
    ASSUME IngestInv, NEW w \in Workers, NEW p \in Partitions, NEW n \in Nat,
           NEW s \in {"idle", "received", "claimed", "done"}, Moved(w, p, s, n)
    PROVE  /\ pc' \in [Tasks -> {"idle", "received", "claimed", "done"}]
           /\ pos' \in [Tasks -> Nat]
  BY DEF Moved, IngestInv, TypeOK

LEMMA AssignStep ==
    ASSUME IngestInv, NEW w \in Workers, NEW p \in Partitions, Assign(w, p)
    PROVE  IngestInv'
  <1> USE DEF Assign
  <1>1. Moved(w, p, "idle", committed[p])
      BY DEF Moved, IngestInv, TypeOK, Tasks, broker, history
  <1>3. TypeOK'
    <2>1. pc' \in [Tasks -> {"idle", "received", "claimed", "done"}] /\ pos' \in [Tasks -> Nat]
        BY <1>1, MovedTypes, MessageParts DEF IngestInv, TypeOK
    <2>2. /\ committed' \in [Partitions -> Nat]
          /\ \A q \in Partitions : committed'[q] \in 1..Len(Messages[q]) + 1
        BY DEF IngestInv, TypeOK, broker
    <2>3. failed' \subseteq Partitions \X Nat
        BY DEF IngestInv, TypeOK, history
    <2>4. processed' \in [Events -> 0..MaxProcessed]
        BY IngestionAssumption DEF IngestInv, TypeOK, MaxProcessed, history
    <2> QED
        BY <2>1, <2>2, <2>3, <2>4 DEF IngestInv, TypeOK, Tasks, broker, history
  <1>4. Remembers
      BY <1>1, MovedRemembers DEF Claimed, Event, broker, history
  <1>5. \A i \in 1..committed[p] - 1 : Accounted(p, i) \/ Accounted(p, i)'
      BY MessageParts DEF IngestInv, Committed, TypeOK
  <1>7. ASSUME NEW v \in Workers, NEW q \in Partitions
        PROVE  Placed(v, q)' /\ LeftBehind(v, q)'
      BY <1>1, <1>4, <1>5, <1>4, MessageParts, MovedPlaces DEF IngestInv, TypeOK
  <1>8. (\A v \in Workers, q \in Partitions : ClaimFits(v, q)') /\ OneClaim'
      BY <1>1, MovedClaims DEF IngestInv, TypeOK, Claimed, broker, history
  <1>9. ASSUME NEW e \in Events
        PROVE  Keyed(e)'
      BY <1>4 DEF IngestInv, Keyed, Remembers, Safe, broker, history
  <1>10. (\A q \in Partitions : \A i \in Committed(q) : Accounted(q, i))'
      BY <1>4, SameCommit DEF broker
  <1> QED
      BY <1>3, <1>7, <1>8, <1>9, <1>10 DEF IngestInv

LEMMA ReceiveStep ==
    ASSUME IngestInv, NEW w \in Workers, NEW p \in Partitions, Receive(w, p)
    PROVE  IngestInv'
  <1> USE DEF Receive
  <1>1. Moved(w, p, "received", pos[<<w, p>>])
      BY DEF Moved, IngestInv, TypeOK, Tasks, broker, history
  <1>2. AtMessage(w, p)
      BY MessageAt DEF IngestInv, Placed
  <1>3. TypeOK'
    <2>1. pc' \in [Tasks -> {"idle", "received", "claimed", "done"}] /\ pos' \in [Tasks -> Nat]
        BY <1>1, <1>2, MovedTypes DEF AtMessage
    <2>2. /\ committed' \in [Partitions -> Nat]
          /\ \A q \in Partitions : committed'[q] \in 1..Len(Messages[q]) + 1
        BY <1>2 DEF AtMessage, IngestInv, TypeOK, broker
    <2>3. failed' \subseteq Partitions \X Nat
        BY <1>2 DEF AtMessage, IngestInv, TypeOK, history
    <2>4. processed' \in [Events -> 0..MaxProcessed]
        BY <1>2, IngestionAssumption DEF AtMessage, IngestInv, TypeOK, MaxProcessed, history
    <2> QED
        BY <1>2, <2>1, <2>2, <2>3, <2>4 DEF AtMessage, IngestInv, TypeOK, Tasks, broker, history
  <1>4. Remembers
      BY <1>1, <1>2, MovedRemembers DEF AtMessage, Claimed, Event, broker, history
  <1>5. \A i \in 1..pos[<<w, p>>] - 1 : Accounted(p, i) \/ Accounted(p, i)'
      BY <1>2 DEF AtMessage
  <1>7. ASSUME NEW v \in Workers, NEW q \in Partitions
        PROVE  Placed(v, q)' /\ LeftBehind(v, q)'
      BY <1>1, <1>2, <1>4, <1>5, MovedPlaces DEF AtMessage
  <1>8. (\A v \in Workers, q \in Partitions : ClaimFits(v, q)') /\ OneClaim'
      BY <1>1, <1>2, MovedClaims DEF AtMessage, IngestInv, TypeOK, Claimed, broker, history
  <1>9. ASSUME NEW e \in Events
        PROVE  Keyed(e)'
      BY <1>2, <1>4 DEF AtMessage, IngestInv, Keyed, Remembers, Safe, broker, history
  <1>10. (\A q \in Partitions : \A i \in Committed(q) : Accounted(q, i))'
      BY <1>4, SameCommit DEF broker
  <1> QED
      BY <1>3, <1>7, <1>8, <1>9, <1>10 DEF IngestInv

LEMMA InvalidStep ==
    ASSUME IngestInv, NEW w \in Workers, NEW p \in Partitions, Invalid(w, p)
    PROVE  IngestInv'
  <1> USE DEF Invalid, Swallow, GoOn
  <1>1. Moved(w, p, "idle", pos[<<w, p>>] + 1)
      BY DEF Moved, IngestInv, TypeOK, Tasks, broker, history
  <1>2. AtMessage(w, p)
      BY MessageAt DEF IngestInv, Placed
  <1>3. TypeOK'
    <2>1. pc' \in [Tasks -> {"idle", "received", "claimed", "done"}] /\ pos' \in [Tasks -> Nat]
        BY <1>1, <1>2, MovedTypes DEF AtMessage
    <2>2. /\ committed' \in [Partitions -> Nat]
          /\ \A q \in Partitions : committed'[q] \in 1..Len(Messages[q]) + 1
        BY <1>2 DEF AtMessage, IngestInv, TypeOK, broker
    <2>3. failed' \subseteq Partitions \X Nat
        BY <1>2 DEF AtMessage, IngestInv, TypeOK, history
    <2>4. processed' \in [Events -> 0..MaxProcessed]
        BY <1>2, IngestionAssumption DEF AtMessage, IngestInv, TypeOK, MaxProcessed, history
    <2> QED
        BY <1>2, <2>1, <2>2, <2>3, <2>4 DEF AtMessage, IngestInv, TypeOK, Tasks, broker, history
  <1>4. Remembers
      BY <1>1, <1>2, MovedRemembers DEF AtMessage, Claimed, Event, broker, history
  <1>5. \A i \in 1..(pos[<<w, p>>] + 1) - 1 : Accounted(p, i) \/ Accounted(p, i)'
      BY <1>2 DEF AtMessage, Accounted
  <1>7. ASSUME NEW v \in Workers, NEW q \in Partitions
        PROVE  Placed(v, q)' /\ LeftBehind(v, q)'
      BY <1>1, <1>2, <1>4, <1>5, MovedPlaces DEF AtMessage
  <1>8. (\A v \in Workers, q \in Partitions : ClaimFits(v, q)') /\ OneClaim'
      BY <1>1, <1>2, MovedClaims DEF AtMessage, IngestInv, TypeOK, Claimed, broker, history
  <1>9. ASSUME NEW e \in Events
        PROVE  Keyed(e)'
      BY <1>2, <1>4 DEF AtMessage, IngestInv, Keyed, Remembers, Safe, broker, history
  <1>10. (\A q \in Partitions : \A i \in Committed(q) : Accounted(q, i))'
      BY <1>4, SameCommit DEF broker
  <1> QED
      BY <1>3, <1>7, <1>8, <1>9, <1>10 DEF IngestInv

LEMMA ClaimStep ==
    ASSUME IngestInv, NEW w \in Workers, NEW p \in Partitions, Claim(w, p)
    PROVE  IngestInv'
  <1> USE DEF Claim
  <1>1. Moved(w, p, "claimed", pos[<<w, p>>])
      BY DEF Moved, IngestInv, TypeOK, Tasks, broker, history
  <1>2. AtMessage(w, p)
      BY MessageAt DEF IngestInv, Placed
  <1>3. TypeOK'
    <2>1. pc' \in [Tasks -> {"idle", "received", "claimed", "done"}] /\ pos' \in [Tasks -> Nat]
        BY <1>1, <1>2, MovedTypes DEF AtMessage
    <2>2. /\ committed' \in [Partitions -> Nat]
          /\ \A q \in Partitions : committed'[q] \in 1..Len(Messages[q]) + 1
        BY <1>2 DEF AtMessage, IngestInv, TypeOK, broker
    <2>3. failed' \subseteq Partitions \X Nat
        BY <1>2 DEF AtMessage, IngestInv, TypeOK, history
    <2>4. processed' \in [Events -> 0..MaxProcessed]
        BY <1>2, IngestionAssumption DEF AtMessage, IngestInv, TypeOK, MaxProcessed, history
    <2> QED
        BY <1>2, <2>1, <2>2, <2>3, <2>4 DEF AtMessage, IngestInv, TypeOK, Tasks, broker, history
  <1>4. Remembers
      BY <1>1, <1>2, MovedRemembers DEF AtMessage, Claimed, Event, broker, history
  <1>5. \A i \in 1..pos[<<w, p>>] - 1 : Accounted(p, i) \/ Accounted(p, i)'
      BY <1>2 DEF AtMessage
  <1>7. ASSUME NEW v \in Workers, NEW q \in Partitions
        PROVE  Placed(v, q)' /\ LeftBehind(v, q)'
      BY <1>1, <1>2, <1>4, <1>5, MovedPlaces DEF AtMessage
  <1>8. (\A v \in Workers, q \in Partitions : ClaimFits(v, q)') /\ OneClaim'
    <2>1. ASSUME NEW v \in Workers, NEW q \in Partitions, Claimed(v, q)'
          PROVE  IF v = w /\ q = p
                 THEN Event(v, q)' = Event(w, p) /\ Event(w, p) \notin dedup
                 ELSE Claimed(v, q) /\ Event(v, q)' = Event(v, q) /\ Event(v, q) \in dedup
        BY <1>1, <2>1, MovedTo DEF Claimed, Event, IngestInv, ClaimFits
    <2>2. \A v \in Workers, q \in Partitions : ClaimFits(v, q)'
      <3>1. processed[Event(w, p)] = 0
          BY <1>2 DEF AtMessage, IngestInv, Keyed, TypeOK, MaxProcessed
      <3> QED
          BY <3>1, <2>1 DEF ClaimFits, IngestInv, history
    <2>3. OneClaim'
        BY <2>1 DEF OneClaim, IngestInv
    <2> QED
        BY <2>2, <2>3
  <1>9. ASSUME NEW e \in Events
        PROVE  Keyed(e)'
    <2>1. CASE e = Event(w, p)
      <3>1. InHand(e)'
          BY <1>1, <2>1, MovedTo DEF InHand, Event
      <3> QED
          BY <2>1, <3>1 DEF IngestInv, Keyed, Safe, history
    <2>2. CASE e /= Event(w, p)
        BY <1>4, <2>2 DEF IngestInv, Keyed, Remembers, history
    <2> QED
        BY <2>1, <2>2
  <1>10. (\A q \in Partitions : \A i \in Committed(q) : Accounted(q, i))'
      BY <1>4, SameCommit DEF broker
  <1> QED
      BY <1>3, <1>7, <1>8, <1>9, <1>10 DEF IngestInv

LEMMA DuplicateStep ==
    ASSUME IngestInv, NEW w \in Workers, NEW p \in Partitions, Duplicate(w, p)
    PROVE  IngestInv'
  <1> USE DEF Duplicate
  <1>1. Moved(w, p, "done", pos[<<w, p>>])
      BY DEF Moved, IngestInv, TypeOK, Tasks, broker, history
  <1>2. AtMessage(w, p)
      BY MessageAt DEF IngestInv, Placed
  <1>3. TypeOK'
    <2>1. pc' \in [Tasks -> {"idle", "received", "claimed", "done"}] /\ pos' \in [Tasks -> Nat]
        BY <1>1, <1>2, MovedTypes DEF AtMessage
    <2>2. /\ committed' \in [Partitions -> Nat]
          /\ \A q \in Partitions : committed'[q] \in 1..Len(Messages[q]) + 1
        BY <1>2 DEF AtMessage, IngestInv, TypeOK, broker
    <2>3. failed' \subseteq Partitions \X Nat
        BY <1>2 DEF AtMessage, IngestInv, TypeOK, history
    <2>4. processed' \in [Events -> 0..MaxProcessed]
        BY <1>2, IngestionAssumption DEF AtMessage, IngestInv, TypeOK, MaxProcessed, history
    <2> QED
        BY <1>2, <2>1, <2>2, <2>3, <2>4 DEF AtMessage, IngestInv, TypeOK, Tasks, broker, history
  <1>4. Remembers
      BY <1>1, <1>2, MovedRemembers DEF AtMessage, Claimed, Event, broker, history
  <1>5. \A i \in 1..pos[<<w, p>>] - 1 : Accounted(p, i) \/ Accounted(p, i)'
      BY <1>2 DEF AtMessage
  <1>6. Accounted(p, pos[<<w, p>>])'
      BY <1>2, <1>4 DEF AtMessage, IngestInv, Keyed, Accounted, Remembers
  <1>7. ASSUME NEW v \in Workers, NEW q \in Partitions
        PROVE  Placed(v, q)' /\ LeftBehind(v, q)'
      BY <1>1, <1>4, <1>5, <1>6, <1>2, MovedPlaces DEF AtMessage
  <1>8. (\A v \in Workers, q \in Partitions : ClaimFits(v, q)') /\ OneClaim'
      BY <1>1, <1>2, MovedClaims DEF AtMessage, IngestInv, TypeOK, Claimed, broker, history
  <1>9. ASSUME NEW e \in Events
        PROVE  Keyed(e)'
      BY <1>2, <1>4 DEF AtMessage, IngestInv, Keyed, Remembers, Safe, broker, history
  <1>10. (\A q \in Partitions : \A i \in Committed(q) : Accounted(q, i))'
      BY <1>4, SameCommit DEF broker
  <1> QED
      BY <1>3, <1>7, <1>8, <1>9, <1>10 DEF IngestInv

LEMMA DedupThrowsStep ==
    ASSUME IngestInv, NEW w \in Workers, NEW p \in Partitions, DedupThrows(w, p)
    PROVE  IngestInv'
  <1> USE DEF DedupThrows, Swallow, GoOn
  <1>1. Moved(w, p, "idle", pos[<<w, p>>] + 1)
      BY DEF Moved, IngestInv, TypeOK, Tasks, broker, history
  <1>2. AtMessage(w, p)
      BY MessageAt DEF IngestInv, Placed
  <1>3. TypeOK'
    <2>1. pc' \in [Tasks -> {"idle", "received", "claimed", "done"}] /\ pos' \in [Tasks -> Nat]
        BY <1>1, <1>2, MovedTypes DEF AtMessage
    <2>2. /\ committed' \in [Partitions -> Nat]
          /\ \A q \in Partitions : committed'[q] \in 1..Len(Messages[q]) + 1
        BY <1>2 DEF AtMessage, IngestInv, TypeOK, broker
    <2>3. failed' \subseteq Partitions \X Nat
        BY <1>2 DEF AtMessage, IngestInv, TypeOK, history
    <2>4. processed' \in [Events -> 0..MaxProcessed]
        BY <1>2, IngestionAssumption DEF AtMessage, IngestInv, TypeOK, MaxProcessed, history
    <2> QED
        BY <1>2, <2>1, <2>2, <2>3, <2>4 DEF AtMessage, IngestInv, TypeOK, Tasks, broker, history
  <1>4. Remembers
      BY <1>1, <1>2, MovedRemembers DEF AtMessage, Claimed, Event, broker, history
  <1>5. \A i \in 1..(pos[<<w, p>>] + 1) - 1 : Accounted(p, i) \/ Accounted(p, i)'
      BY <1>2 DEF AtMessage, Accounted
  <1>7. ASSUME NEW v \in Workers, NEW q \in Partitions
        PROVE  Placed(v, q)' /\ LeftBehind(v, q)'
      BY <1>1, <1>2, <1>4, <1>5, MovedPlaces DEF AtMessage
  <1>8. (\A v \in Workers, q \in Partitions : ClaimFits(v, q)') /\ OneClaim'
      BY <1>1, <1>2, MovedClaims DEF AtMessage, IngestInv, TypeOK, Claimed, broker, history
  <1>9. ASSUME NEW e \in Events
        PROVE  Keyed(e)'
      BY <1>2, <1>4 DEF AtMessage, IngestInv, Keyed, Remembers, Safe, broker, history
  <1>10. (\A q \in Partitions : \A i \in Committed(q) : Accounted(q, i))'
      BY <1>4, SameCommit DEF broker
  <1> QED
      BY <1>3, <1>7, <1>8, <1>9, <1>10 DEF IngestInv

LEMMA ProcessStep ==
    ASSUME IngestInv, NEW w \in Workers, NEW p \in Partitions, Process(w, p)
    PROVE  IngestInv'
  <1> USE DEF Process
  <1>1. Moved(w, p, "done", pos[<<w, p>>])
      BY DEF Moved, IngestInv, TypeOK, Tasks, broker, history
  <1>2. AtMessage(w, p)
      BY MessageAt DEF IngestInv, Placed
  <1>3. TypeOK'
    <2>1. pc' \in [Tasks -> {"idle", "received", "claimed", "done"}] /\ pos' \in [Tasks -> Nat]
        BY <1>1, <1>2, MovedTypes DEF AtMessage
    <2>2. /\ committed' \in [Partitions -> Nat]
          /\ \A q \in Partitions : committed'[q] \in 1..Len(Messages[q]) + 1
        BY <1>2 DEF AtMessage, IngestInv, TypeOK, broker
    <2>3. failed' \subseteq Partitions \X Nat
        BY <1>2 DEF AtMessage, IngestInv, TypeOK, history
    <2>4. processed' \in [Events -> 0..MaxProcessed]
        BY <1>2, IngestionAssumption DEF AtMessage, IngestInv, TypeOK, MaxProcessed, history
    <2> QED
        BY <1>2, <2>1, <2>2, <2>3, <2>4 DEF AtMessage, IngestInv, TypeOK, Tasks, broker, history
  <1>4. Remembers
      BY <1>1, <1>2, MovedRemembers DEF AtMessage, Claimed, Event, broker, history
  <1>5. \A i \in 1..pos[<<w, p>>] - 1 : Accounted(p, i) \/ Accounted(p, i)'
      BY <1>2 DEF AtMessage
  <1>6. Accounted(p, pos[<<w, p>>])'
      BY <1>2 DEF AtMessage, Accounted, Safe
  <1>7. ASSUME NEW v \in Workers, NEW q \in Partitions
        PROVE  Placed(v, q)' /\ LeftBehind(v, q)'
      BY <1>1, <1>4, <1>5, <1>6, <1>2, MovedPlaces DEF AtMessage
  <1>8. (\A v \in Workers, q \in Partitions : ClaimFits(v, q)') /\ OneClaim'
      BY <1>1, <1>2, MovedClaims DEF AtMessage, IngestInv, TypeOK, Claimed, broker, history
  <1>9. ASSUME NEW e \in Events
        PROVE  Keyed(e)'
    <2>1. CASE e = Event(w, p)
      <3>1. processed[e] = 0 /\ e \in dedup
          BY <2>1 DEF IngestInv, ClaimFits, Claimed
      <3>2. processed'[e] = 1
          BY <2>1, <3>1 DEF IngestInv, TypeOK, MaxProcessed
      <3> QED
          BY <2>1, <3>1, <3>2 DEF Keyed, Safe
    <2>2. CASE e /= Event(w, p)
        BY <1>4, <2>2 DEF IngestInv, TypeOK, Keyed, Remembers
    <2> QED
        BY <2>1, <2>2
  <1>10. (\A q \in Partitions : \A i \in Committed(q) : Accounted(q, i))'
      BY <1>4, SameCommit DEF broker
  <1> QED
      BY <1>3, <1>7, <1>8, <1>9, <1>10 DEF IngestInv

LEMMA ProcessThrowsStep ==
    ASSUME IngestInv, NEW w \in Workers, NEW p \in Partitions, ProcessThrows(w, p)
    PROVE  IngestInv'
  <1> USE DEF ProcessThrows, Swallow, GoOn
  <1>1. Moved(w, p, "idle", pos[<<w, p>>] + 1)
      BY DEF Moved, IngestInv, TypeOK, Tasks, broker, history
  <1>2. AtMessage(w, p)
      BY MessageAt DEF IngestInv, Placed
  <1>3. TypeOK'
    <2>1. pc' \in [Tasks -> {"idle", "received", "claimed", "done"}] /\ pos' \in [Tasks -> Nat]
        BY <1>1, <1>2, MovedTypes DEF AtMessage
    <2>2. /\ committed' \in [Partitions -> Nat]
          /\ \A q \in Partitions : committed'[q] \in 1..Len(Messages[q]) + 1
        BY <1>2 DEF AtMessage, IngestInv, TypeOK, broker
    <2>3. failed' \subseteq Partitions \X Nat
        BY <1>2 DEF AtMessage, IngestInv, TypeOK, history
    <2>4. processed' \in [Events -> 0..MaxProcessed]
        BY <1>2, IngestionAssumption DEF AtMessage, IngestInv, TypeOK, MaxProcessed, history
    <2> QED
        BY <1>2, <2>1, <2>2, <2>3, <2>4 DEF AtMessage, IngestInv, TypeOK, Tasks, broker, history
  <1>4. Remembers
      BY <1>1, <1>2, MovedRemembers DEF AtMessage, Claimed, Event, broker, history
  <1>5. \A i \in 1..(pos[<<w, p>>] + 1) - 1 : Accounted(p, i) \/ Accounted(p, i)'
      BY <1>2 DEF AtMessage, Accounted
  <1>7. ASSUME NEW v \in Workers, NEW q \in Partitions
        PROVE  Placed(v, q)' /\ LeftBehind(v, q)'
      BY <1>1, <1>2, <1>4, <1>5, MovedPlaces DEF AtMessage
  <1>8. (\A v \in Workers, q \in Partitions : ClaimFits(v, q)') /\ OneClaim'
      BY <1>1, <1>2, MovedClaims DEF AtMessage, IngestInv, TypeOK, Claimed, broker, history
  <1>9. ASSUME NEW e \in Events
        PROVE  Keyed(e)'
      BY <1>2, <1>4 DEF AtMessage, IngestInv, Keyed, Remembers, Safe, broker, history
  <1>10. (\A q \in Partitions : \A i \in Committed(q) : Accounted(q, i))'
      BY <1>4, SameCommit DEF broker
  <1> QED
      BY <1>3, <1>7, <1>8, <1>9, <1>10 DEF IngestInv

LEMMA CommitStep ==
    ASSUME IngestInv, NEW w \in Workers, NEW p \in Partitions, Commit(w, p)
    PROVE  IngestInv'
  <1> USE DEF Commit, CommittedAfter, GoOn
  <1>1. Moved(w, p, "idle", pos[<<w, p>>] + 1)
      BY DEF Moved, IngestInv, TypeOK, Tasks, broker, history
  <1>2. AtMessage(w, p)
      BY MessageAt DEF IngestInv, Placed
  <1>3. TypeOK'
    <2>1. pc' \in [Tasks -> {"idle", "received", "claimed", "done"}] /\ pos' \in [Tasks -> Nat]
        BY <1>1, <1>2, MovedTypes DEF AtMessage
    <2>2. /\ committed' \in [Partitions -> Nat]
          /\ \A q \in Partitions : committed'[q] \in 1..Len(Messages[q]) + 1
        BY <1>2 DEF AtMessage, IngestInv, TypeOK, broker
    <2>3. failed' \subseteq Partitions \X Nat
        BY <1>2 DEF AtMessage, IngestInv, TypeOK, history
    <2>4. processed' \in [Events -> 0..MaxProcessed]
        BY <1>2, IngestionAssumption DEF AtMessage, IngestInv, TypeOK, MaxProcessed, history
    <2> QED
        BY <1>2, <2>1, <2>2, <2>3, <2>4 DEF AtMessage, IngestInv, TypeOK, Tasks, broker, history
  <1>4. Remembers
      BY <1>1, <1>2, MovedRemembers DEF AtMessage, Claimed, Event, broker, history
  <1>5. \A i \in 1..(pos[<<w, p>>] + 1) - 1 : Accounted(p, i) \/ Accounted(p, i)'
      BY <1>2 DEF AtMessage
  <1>7. ASSUME NEW v \in Workers, NEW q \in Partitions
        PROVE  Placed(v, q)' /\ LeftBehind(v, q)'
      BY <1>1, <1>2, <1>4, <1>5, MovedPlaces DEF AtMessage
  <1>8. (\A v \in Workers, q \in Partitions : ClaimFits(v, q)') /\ OneClaim'
      BY <1>1, <1>2, MovedClaims DEF AtMessage, IngestInv, TypeOK, Claimed, broker, history
  <1>9. ASSUME NEW e \in Events
        PROVE  Keyed(e)'
      BY <1>2, <1>4 DEF AtMessage, IngestInv, Keyed, Remembers, Safe, broker, history
  <1>10. (\A q \in Partitions : \A i \in Committed(q) : Accounted(q, i))'
    <2> SUFFICES ASSUME NEW q \in Partitions, NEW i \in Committed(q)'
                 PROVE  Accounted(q, i)'
        OBVIOUS
    <2>1. Accounted(q, i)
      <3>1. CASE q = p
        <4>1. i \in 1..pos[<<w, p>>]
            BY <1>2, <3>1 DEF AtMessage, IngestInv, TypeOK, Committed
        <4>2. i \in 1..pos[<<w, p>>] - 1 \/ i = pos[<<w, p>>]
            BY <1>2, <4>1 DEF AtMessage
        <4> QED
            BY <1>2, <3>1, <4>2 DEF AtMessage
      <3>2. CASE q /= p
          BY <3>2 DEF IngestInv, TypeOK, Committed
      <3> QED
          BY <3>1, <3>2
    <2>2. i \in Positions(q)
      <3>1. committed'[q] \in 1..Len(Messages[q]) + 1
          BY <1>3 DEF TypeOK
      <3> QED
          BY <3>1, MessageParts DEF Committed, Positions
    <2> QED
        BY <1>4, <2>1, <2>2, StaysAccounted
  <1> QED
      BY <1>3, <1>7, <1>8, <1>9, <1>10 DEF IngestInv

LEMMA CommitThrowsStep ==
    ASSUME IngestInv, NEW w \in Workers, NEW p \in Partitions, CommitThrows(w, p)
    PROVE  IngestInv'
  <1> USE DEF CommitThrows, Swallow, GoOn
  <1>1. Moved(w, p, "idle", pos[<<w, p>>] + 1)
      BY DEF Moved, IngestInv, TypeOK, Tasks, broker, history
  <1>2. AtMessage(w, p)
      BY MessageAt DEF IngestInv, Placed
  <1>3. TypeOK'
    <2>1. pc' \in [Tasks -> {"idle", "received", "claimed", "done"}] /\ pos' \in [Tasks -> Nat]
        BY <1>1, <1>2, MovedTypes DEF AtMessage
    <2>2. /\ committed' \in [Partitions -> Nat]
          /\ \A q \in Partitions : committed'[q] \in 1..Len(Messages[q]) + 1
        BY <1>2 DEF AtMessage, IngestInv, TypeOK, broker
    <2>3. failed' \subseteq Partitions \X Nat
        BY <1>2 DEF AtMessage, IngestInv, TypeOK, history
    <2>4. processed' \in [Events -> 0..MaxProcessed]
        BY <1>2, IngestionAssumption DEF AtMessage, IngestInv, TypeOK, MaxProcessed, history
    <2> QED
        BY <1>2, <2>1, <2>2, <2>3, <2>4 DEF AtMessage, IngestInv, TypeOK, Tasks, broker, history
  <1>4. Remembers
      BY <1>1, <1>2, MovedRemembers DEF AtMessage, Claimed, Event, broker, history
  <1>5. \A i \in 1..(pos[<<w, p>>] + 1) - 1 : Accounted(p, i) \/ Accounted(p, i)'
      BY <1>2 DEF AtMessage
  <1>7. ASSUME NEW v \in Workers, NEW q \in Partitions
        PROVE  Placed(v, q)' /\ LeftBehind(v, q)'
      BY <1>1, <1>2, <1>4, <1>5, MovedPlaces DEF AtMessage
  <1>8. (\A v \in Workers, q \in Partitions : ClaimFits(v, q)') /\ OneClaim'
      BY <1>1, <1>2, MovedClaims DEF AtMessage, IngestInv, TypeOK, Claimed, broker, history
  <1>9. ASSUME NEW e \in Events
        PROVE  Keyed(e)'
      BY <1>2, <1>4 DEF AtMessage, IngestInv, Keyed, Remembers, Safe, broker, history
  <1>10. (\A q \in Partitions : \A i \in Committed(q) : Accounted(q, i))'
      BY <1>4, SameCommit DEF broker
  <1> QED
      BY <1>3, <1>7, <1>8, <1>9, <1>10 DEF IngestInv

LEMMA RevokeStep ==
    ASSUME IngestInv, NEW p \in Partitions, Revoke(p)
    PROVE  IngestInv'
  <1> USE DEF Revoke
  <1>1. UNCHANGED <<pc, pos>>
      BY DEF broker, history
  <1>2. TypeOK'
      BY IngestionAssumption DEF IngestInv, TypeOK, Tasks, MaxProcessed, broker, history
  <1>3. Remembers
      BY <1>1 DEF Remembers, Safe, InHand, Event, broker, history
  <1>4. (\A v \in Workers, q \in Partitions : ClaimFits(v, q)') /\ OneClaim'
      BY <1>1, SameClaims DEF IngestInv, TypeOK, broker, history
  <1>5. ASSUME NEW f \in Events
        PROVE  Keyed(f)'
      BY <1>3 DEF IngestInv, TypeOK, Keyed, Remembers, broker, history
  <1>6. (\A q \in Partitions : \A i \in Committed(q) : Accounted(q, i))'
      BY <1>3, SameCommit DEF broker
  <1> QED
      BY <1>1, <1>2, <1>3, <1>4, <1>5, <1>6, SamePlaces DEF AtMessage, IngestInv

LEMMA HeartbeatStep ==
    ASSUME IngestInv, NEW w \in Workers, NEW p \in Partitions, Heartbeat(w, p)
    PROVE  IngestInv'
  <1> USE DEF Heartbeat
  <1>1. UNCHANGED <<pc, pos>>
      BY DEF broker, history
  <1>2. TypeOK'
      BY IngestionAssumption DEF IngestInv, TypeOK, Tasks, MaxProcessed, broker, history
  <1>3. Remembers
      BY <1>1 DEF Remembers, Safe, InHand, Event, broker, history
  <1>4. (\A v \in Workers, q \in Partitions : ClaimFits(v, q)') /\ OneClaim'
      BY <1>1, SameClaims DEF IngestInv, TypeOK, broker, history
  <1>5. ASSUME NEW f \in Events
        PROVE  Keyed(f)'
      BY <1>3 DEF IngestInv, TypeOK, Keyed, Remembers, broker, history
  <1>6. (\A q \in Partitions : \A i \in Committed(q) : Accounted(q, i))'
      BY <1>3, SameCommit DEF broker
  <1> QED
      BY <1>1, <1>2, <1>3, <1>4, <1>5, <1>6, SamePlaces DEF AtMessage, IngestInv

LEMMA ExpireStep ==
    ASSUME IngestInv, NEW e \in Events, Expire(e)
    PROVE  IngestInv'
  <1> USE DEF Expire
  <1>1. UNCHANGED <<pc, pos>>
      BY DEF broker, history
  <1>2. TypeOK'
      BY IngestionAssumption DEF IngestInv, TypeOK, Tasks, MaxProcessed, broker, history
  <1>3. Remembers
      BY <1>1 DEF Remembers, Safe, InHand, Event, broker, history
  <1>4. (\A v \in Workers, q \in Partitions : ClaimFits(v, q)') /\ OneClaim'
      BY <1>1, SameClaims DEF IngestInv, TypeOK, broker, history
  <1>5. ASSUME NEW f \in Events
        PROVE  Keyed(f)'
      BY <1>3 DEF IngestInv, TypeOK, Keyed, Remembers, broker, history
  <1>6. (\A q \in Partitions : \A i \in Committed(q) : Accounted(q, i))'
      BY <1>3, SameCommit DEF broker
  <1> QED
      BY <1>1, <1>2, <1>3, <1>4, <1>5, <1>6, SamePlaces DEF AtMessage, IngestInv

LEMMA CrashStep ==
    ASSUME IngestInv, NEW w \in Workers, Crash(w)
    PROVE  IngestInv'
  <1>1. ASSUME NEW v \in Workers, NEW q \in Partitions
        PROVE  IF v = w THEN pc'[<<v, q>>] = "idle" /\ pos'[<<v, q>>] = 1
                        ELSE pc'[<<v, q>>] = pc[<<v, q>>] /\ pos'[<<v, q>>] = pos[<<v, q>>]
      BY DEF Crash, Tasks
  <1>2. \A q \in Partitions : pc[<<w, q>>] = "claimed" => Event(w, q) \in orphaned'
      BY DEF Crash
  <1>3. TypeOK'
    <2>1. orphaned' \subseteq Events
        BY EventParts DEF Crash, IngestInv, TypeOK
    <2>2. pc' \in [Tasks -> {"idle", "received", "claimed", "done"}] /\ pos' \in [Tasks -> Nat]
        BY DEF Crash, IngestInv, TypeOK
    <2> QED
        BY <2>1, <2>2, IngestionAssumption DEF Crash, IngestInv, TypeOK
  <1>4. Remembers
    <2>1. ASSUME NEW e \in Events, InHand(e)
          PROVE  Safe(e)'
      <3>1. PICK v \in Workers, q \in Partitions : pc[<<v, q>>] = "claimed" /\ Event(v, q) = e
          BY <2>1 DEF InHand
      <3>2. CASE v = w
          BY <1>2, <3>1, <3>2 DEF Safe
      <3>3. CASE v /= w
          BY <1>1, <3>1, <3>3 DEF Safe, InHand, Event
      <3> QED
          BY <3>2, <3>3
    <2> QED
        BY <2>1 DEF Remembers, Safe, Crash
  <1>5. ASSUME NEW v \in Workers, NEW q \in Partitions
        PROVE  Placed(v, q)' /\ LeftBehind(v, q)'
    <2>1. CASE v = w
        BY <1>1, <2>1, MessageParts DEF Placed, LeftBehind
    <2>2. CASE v /= w
      <3>1. \A i \in Positions(q) : Accounted(q, i) => Accounted(q, i)'
          BY <1>4, StaysAccounted
      <3>2. Placed(v, q) /\ LeftBehind(v, q)
          BY DEF IngestInv
      <3>3. \A i \in 1..pos[<<v, q>>] - 1 : Accounted(q, i)'
          BY <3>1, <3>2, MessageParts DEF Placed, LeftBehind, Positions
      <3>4. pc[<<v, q>>] = "done" =>
              pos[<<v, q>>] \in Positions(q) /\ Accounted(q, pos[<<v, q>>])
          BY <3>2 DEF LeftBehind, Placed
      <3>5. \A i \in Positions(q) : i = pos[<<v, q>>] /\ pc[<<v, q>>] = "done" => Accounted(q, i)'
          BY <3>1, <3>4
      <3> QED
          BY <1>1, <2>2, <3>2, <3>3, <3>4, <3>5 DEF Placed, LeftBehind
    <2> QED
        BY <2>1, <2>2
  <1>6. (\A v \in Workers, q \in Partitions : ClaimFits(v, q)') /\ OneClaim'
    <2>1. ASSUME NEW v \in Workers, NEW q \in Partitions, Claimed(v, q)'
          PROVE  Claimed(v, q) /\ Event(v, q)' = Event(v, q)
        BY <1>1, <2>1 DEF Claimed, Event
    <2>2. \A v \in Workers, q \in Partitions : ClaimFits(v, q)'
        BY <2>1 DEF Crash, IngestInv, ClaimFits
    <2>3. OneClaim'
        BY <2>1 DEF IngestInv, OneClaim
    <2> QED
        BY <2>2, <2>3
  <1>7. ASSUME NEW e \in Events
        PROVE  Keyed(e)'
      BY <1>4 DEF Crash, IngestInv, Keyed, Remembers
  <1>8. (\A q \in Partitions : \A i \in Committed(q) : Accounted(q, i))'
      BY <1>4, SameCommit DEF Crash
  <1> QED
      BY <1>3, <1>5, <1>6, <1>7, <1>8 DEF IngestInv

LEMMA IngestStep == IngestInv /\ [Next]_vars => IngestInv'
  <1> SUFFICES ASSUME IngestInv, [Next]_vars
               PROVE  IngestInv'
      OBVIOUS
  <1>1. CASE UNCHANGED vars
    <2> USE <1>1 DEF vars, broker, history
    <2>1. Remembers
        BY DEF Remembers, Safe, InHand, Event
    <2>2. TypeOK'
        BY DEF IngestInv, TypeOK
    <2>3. (\A w \in Workers, p \in Partitions : ClaimFits(w, p)') /\ OneClaim'
        BY SameClaims DEF IngestInv
    <2>4. \A e \in Events : Keyed(e)'
        BY <2>1 DEF IngestInv, Keyed, Remembers
    <2> QED
        BY <2>1, <2>2, <2>3, <2>4, SamePlaces, SameCommit DEF IngestInv
  <1>2. CASE \E w \in Workers, p \in Partitions : Assign(w, p) \/ Heartbeat(w, p) \/ EachMessage(w, p)
    <2>1. PICK w \in Workers, p \in Partitions : Assign(w, p) \/ Heartbeat(w, p) \/ EachMessage(w, p)
        BY <1>2
    <2> QED
        BY <2>1, AssignStep, HeartbeatStep, ReceiveStep, InvalidStep, ClaimStep, DuplicateStep, DedupThrowsStep,
           ProcessStep, ProcessThrowsStep, CommitStep, CommitThrowsStep DEF EachMessage
  <1>3. CASE \E p \in Partitions : Revoke(p)
      BY <1>3, RevokeStep
  <1>4. CASE \E w \in Workers : Crash(w)
      BY <1>4, CrashStep
  <1>5. CASE \E e \in Events : Expire(e)
      BY <1>5, ExpireStep
  <1> QED
      BY <1>1, <1>2, <1>3, <1>4, <1>5 DEF Next

LEMMA IngestAlways == Spec => []IngestInv
  BY InitIngest, IngestStep, PTL DEF Spec

\* Every variable keeps its type (kafka/consumer.ts): no offset is committed
\* beyond the end of a partition.
THEOREM TypeCorrect == Spec => []TypeOK
  <1>1. IngestInv => TypeOK
      BY DEF IngestInv
  <1> QED
      BY <1>1, IngestAlways, PTL

\* While its deduplication key lives an event is routed at most once, for any
\* number of copies, partitions, workers, rebalances and crashes
\* (RedisDeduplicationService.isDuplicate, NotificationPipeline.process).
THEOREM RoutedOnce == Spec => []ProcessedOnce
  <1>1. IngestInv => ProcessedOnce
      BY DEF IngestInv, Keyed, ProcessedOnce
  <1> QED
      BY <1>1, IngestAlways, PTL

\* The commit never passes a valid event that nobody routed, except over a
\* failure of a handling of that event (eachMessage).
THEOREM NothingSkipped == Spec => []CommittedIsHandled
  <1>1. IngestInv => CommittedIsHandled
      BY DEF IngestInv, Accounted, Safe, CommittedIsHandled
  <1> QED
      BY <1>1, IngestAlways, PTL
=============================================================================
